----------------------------- MODULE ProjectionSync -----------------------------
(***************************************************************************)
(* How a read model travels from the host's projection journal to a device:*)
(* the commit that records and publishes it, the bounded mailbox of each   *)
(* subscription, the connection thread that serves it, and the device's    *)
(* worker, which keeps subscription intents over reconnections and a       *)
(* durable cache of the last view of every key.                            *)
(*                                                                         *)
(* A payload is the number of the change that produced it (`version').  A  *)
(* commit names the keys whose payload changed; a key whose payload is     *)
(* equal is not recorded and is left out.  One device holds at most one    *)
(* connection.  When a connection ends, both ends are told at once: what   *)
(* the server thread still writes into a dead socket reaches nobody.       *)
(***************************************************************************)
EXTENDS Naturals, Sequences, FiniteSets

CONSTANTS
    Keys,           \* projection keys
    KeyOrder,       \* the order in which a commit records them, a sequence
    Retention,      \* journal entries a device may still resume over
    MailboxCap,     \* events a subscription may lag behind
    WireCap,        \* frames the host can write before its socket blocks
    MaxVersion,     \* bound: changes per key
    MaxSid,         \* bound: subscription ids
    MaxFaults,      \* bound: crashes, I/O failures, lost connections, timeouts
    Faults,         \* the kinds of fault of this instance
    AppOps          \* what the app does besides subscribing

ASSUME ProjectionSyncAssumption ==
    /\ Retention \in Nat \ {0} /\ MailboxCap \in Nat \ {0} /\ WireCap \in Nat \ {0}
    /\ MaxVersion \in Nat /\ MaxSid \in Nat /\ MaxFaults \in Nat
    /\ Keys = {KeyOrder[i] : i \in DOMAIN KeyOrder}

VARIABLES
    canon,      \* [Keys -> Nat]: changes in the canonical log
    disk, mem,  \* [Keys -> Seq(Entry)]: journal file and its copy in memory
    host,       \* "up", "recovery" (a journal write failed), "down", "refused"
    mail,       \* [Sids -> Mail]: the broker's subscribers
    tomb,       \* [Sids -> {"none","gap","acked"}]: ids this connection closed
    conn,       \* the connection is up and authenticated
    toHost, toClient,
    cb,         \* [Sids -> Keys \cup {NoKey}]: the worker's subscription intents
    snap,       \* [Sids -> Nat]: the snapshot cursor an acknowledgement promised
    cache,      \* [Keys -> Entry]: the device's durable last view
    task,       \* what the worker waits for
    todo,       \* ids a reconnection still has to resubscribe
    call,       \* the app call the worker has not taken yet
    app,        \* [Keys -> Nat]: the handle the app holds for a key; 0 = none
    notice,     \* ids whose closure the app's thread has not handled yet
    seen,       \* [Keys -> Nat]: the version the app shows
    nextSid, faults

hostVars == <<canon, disk, mem, host>>
servVars == <<mail, tomb>>
wireVars == <<conn, toHost, toClient>>
workVars == <<cb, snap, cache, task, todo>>
appVars  == <<call, app, notice, seen, nextSid>>
vars == <<hostVars, servVars, wireVars, workVars, appVars, faults>>

Sids == 1..MaxSid
NoKey == "no key"
Entry == [cursor : Nat, version : Nat]
NoEntry == [cursor |-> 0, version |-> 0]
NoMail == [key |-> NoKey, q |-> <<>>, closed |-> FALSE]
Idle == [op |-> "idle"]
NoCall == [op |-> "none"]
Closed == NoEntry     \* the closing event of a mailbox

JournalHead(k) == Len(mem[k])
\* The oldest entry a device may resume from.
Floor(k) == IF Len(mem[k]) <= Retention THEN 1 ELSE Len(mem[k]) - Retention + 1

\* The journal the canonical log implies for a key with n changes.
Expected(n) == [i \in 1..n |-> [cursor |-> i, version |-> i]]

Init ==
    /\ canon = [k \in Keys |-> 0]
    /\ disk = [k \in Keys |-> <<>>] /\ mem = disk
    /\ host = "up"
    /\ mail = [s \in Sids |-> NoMail]
    /\ tomb = [s \in Sids |-> "none"]
    /\ conn = FALSE /\ toHost = <<>> /\ toClient = <<>>
    /\ cb = [s \in Sids |-> NoKey] /\ snap = [s \in Sids |-> 0]
    /\ cache = [k \in Keys |-> NoEntry]
    /\ task = Idle /\ todo = {}
    /\ call = NoCall /\ notice = {}
    /\ app = [k \in Keys |-> 0] /\ seen = [k \in Keys |-> 0]
    /\ nextSid = 1 /\ faults = 0

Fault(f) == f \in Faults /\ faults < MaxFaults /\ faults' = faults + 1

-----------------------------------------------------------------------------
(* The connection ends: the server thread drops its subscriptions.  The    *)
(* worker fails the call it was serving; it forgets promised snapshots,    *)
(* except inside a reconnection attempt, which keeps the map it was given. *)

CloseWire ==
    /\ conn' = FALSE /\ toHost' = <<>> /\ toClient' = <<>>
    /\ mail' = [s \in Sids |-> NoMail]
    /\ tomb' = [s \in Sids |-> "none"]

WorkerLosesWire(promised) ==
    /\ cb' = IF task.op = "sub" THEN [cb EXCEPT ![task.sid] = NoKey] ELSE cb
    /\ snap' = IF task.op = "resub" THEN promised ELSE [s \in Sids |-> 0]
    /\ task' = Idle /\ todo' = {}

WireDrops ==
    /\ conn /\ Fault("drop")
    /\ CloseWire /\ WorkerLosesWire(snap)
    /\ UNCHANGED <<hostVars, cache, appVars>>

-----------------------------------------------------------------------------
(* The host: commits, crashes and reloads.                                 *)

\* Mutant: drop the oldest event of a full mailbox.
PushDropsOldest(m, e) ==
    IF m.key = NoKey \/ m.closed THEN m
    ELSE IF Len(m.q) >= MailboxCap THEN [m EXCEPT !.q = Append(Tail(@), e)]
    ELSE [m EXCEPT !.q = Append(@, e)]

\* Mutant: a full mailbox is closed without telling its subscriber.
PushClosesSilently(m, e) ==
    IF m.key = NoKey \/ m.closed THEN m
    ELSE IF Len(m.q) >= MailboxCap THEN [m EXCEPT !.q = <<>>, !.closed = TRUE]
    ELSE [m EXCEPT !.q = Append(@, e)]

\* A full mailbox loses its events, keeps one closing event and takes no more.
Push(m, e) ==
    IF m.key = NoKey \/ m.closed THEN m
    ELSE IF Len(m.q) >= MailboxCap THEN [m EXCEPT !.q = <<Closed>>, !.closed = TRUE]
    ELSE [m EXCEPT !.q = Append(@, e)]

\* The journal entry a commit adds to key k.
NewEntry(k) == [cursor |-> Len(mem[k]) + 1, version |-> canon[k] + 1]

\* Every key of ks is appended to the file and to the copy in memory.
Record(ks) ==
    /\ mem' = [k \in Keys |-> IF k \in ks THEN Append(mem[k], NewEntry(k)) ELSE mem[k]]
    /\ disk' = [k \in Keys |-> IF k \in ks THEN Append(disk[k], NewEntry(k)) ELSE disk[k]]

Changes(ks) ==
    /\ ks # {} /\ \A k \in ks : canon[k] < MaxVersion
    /\ canon' = [k \in Keys |-> canon[k] + (IF k \in ks THEN 1 ELSE 0)]

\* The commit is logged, every changed key is recorded, then all are pushed.
Commit(ks) ==
    /\ host = "up" /\ Changes(ks) /\ Record(ks)
    /\ mail' = [s \in Sids |-> IF mail[s].key \in ks
                               THEN Push(mail[s], NewEntry(mail[s].key)) ELSE mail[s]]
    /\ UNCHANGED <<host, tomb, wireVars, workVars, appVars, faults>>

\* A later step of the same broker call fails: what it recorded is not pushed.
CommitUnpublished(ks) ==
    /\ host = "up" /\ Fault("unpublished") /\ Changes(ks)
    /\ Record(ks)
    /\ UNCHANGED <<host, servVars, wireVars, workVars, appVars>>

\* The keys a commit has recorded when recording key f fails.
RecordedBefore(ks, f) ==
    {k \in ks : \E i, j \in DOMAIN KeyOrder : i < j /\ KeyOrder[i] = k /\ KeyOrder[j] = f}

\* Recording key f fails after the commit was logged; the line may be in the
\* file.  The store refuses every commit until it is reloaded, and nothing of
\* this commit is pushed.
CommitCut(ks, f, landed) ==
    /\ host = "up" /\ Fault("journal") /\ Changes(ks)
    /\ mem' = [k \in Keys |-> IF k \in RecordedBefore(ks, f)
                              THEN Append(mem[k], NewEntry(k)) ELSE mem[k]]
    /\ disk' = [k \in Keys |-> IF k \in RecordedBefore(ks, f) \/ (k = f /\ landed)
                               THEN Append(disk[k], NewEntry(k)) ELSE disk[k]]
    /\ host' = "recovery"
    /\ UNCHANGED <<servVars, wireVars, workVars, appVars>>

Down ==
    /\ host' = "down"
    /\ CloseWire /\ WorkerLosesWire(snap)
    /\ UNCHANGED <<cache, appVars>>

Crash ==
    /\ host \in {"up", "recovery"} /\ Fault("crash")
    /\ Down /\ UNCHANGED <<canon, disk, mem>>

\* The process dies inside a commit, before or after key f reached the file.
CrashInCommit(ks, f, landed) ==
    /\ host = "up" /\ Fault("crash") /\ Changes(ks)
    /\ disk' = [k \in Keys |-> IF k \in RecordedBefore(ks, f) \/ (k = f /\ landed)
                               THEN Append(disk[k], NewEntry(k)) ELSE disk[k]]
    /\ Down /\ UNCHANGED mem

\* A stop and a start that follow a failed journal write.
Stop ==
    /\ host = "recovery"
    /\ Down /\ UNCHANGED <<canon, disk, mem, faults>>

\* The log is replayed; the file must hold a prefix of the journal the log
\* implies, and the missing tail is appended.
Restart ==
    /\ host = "down"
    /\ LET ok == \A k \in Keys :
                   /\ Len(disk[k]) <= canon[k]
                   /\ disk[k] = SubSeq(Expected(canon[k]), 1, Len(disk[k]))
       IN IF ok THEN /\ disk' = [k \in Keys |-> Expected(canon[k])]
                     /\ mem' = disk' /\ host' = "up"
                ELSE host' = "refused" /\ UNCHANGED <<disk, mem>>
    /\ UNCHANGED <<canon, servVars, wireVars, workVars, appVars, faults>>

-----------------------------------------------------------------------------
(* The connection thread of the host.  A frame it calls malformed ends the *)
(* connection.                                                             *)

Serving == conn /\ host \in {"up", "recovery"} /\ Len(toClient) < WireCap

Answer(fs) == toHost' = Tail(toHost) /\ toClient' = toClient \o fs /\ UNCHANGED conn

Malformed ==
    /\ CloseWire /\ WorkerLosesWire(snap)
    /\ UNCHANGED <<hostVars, cache, appVars, faults>>

Opened == {s \in Sids : mail[s].key # NoKey \/ tomb[s] # "none"}

\* What the journal decides for a request that resumes after `since'.
Decide(k, since) ==
    IF JournalHead(k) = 0 \/ since > JournalHead(k) THEN "rejected"
    ELSE IF since = 0 \/ since + 1 < Floor(k) THEN "current"
    ELSE "resumed"

\* The acknowledgement and what follows it: the current entry, or the entries
\* after the cursor.  `head' is not on the wire; the properties refer to it.
Replay(f) ==
    LET out == Decide(f.key, f.since)
        from == IF out = "current" THEN JournalHead(f.key) ELSE f.since + 1
        ack == [t |-> "ack", sid |-> f.sid, out |-> out, cur |-> from,
                head |-> JournalHead(f.key)]
    IN IF out = "rejected" THEN <<[ack EXCEPT !.cur = 0]>>
       ELSE <<ack>> \o [i \in 1..(JournalHead(f.key) - from + 1) |->
                [t |-> "env", sid |-> f.sid, key |-> f.key, e |-> mem[f.key][from + i - 1]]]

\* The mailbox exists before the journal is read, under the broker's lock.
HostSubscribes ==
    /\ Serving /\ toHost # <<>> /\ Head(toHost).t = "sub"
    /\ LET f == Head(toHost) IN
       IF \E s \in Opened : s >= f.sid THEN Malformed
       ELSE /\ Answer(Replay(f))
            /\ IF Decide(f.key, f.since) = "rejected"
               THEN tomb' = [tomb EXCEPT ![f.sid] = "acked"] /\ UNCHANGED mail
               ELSE /\ mail' = [mail EXCEPT ![f.sid] = [NoMail EXCEPT !.key = f.key]]
                    /\ UNCHANGED tomb
            /\ UNCHANGED <<hostVars, workVars, appVars, faults>>

\* A subscription closed for lag may be unsubscribed once.
HostUnsubscribes ==
    /\ Serving /\ toHost # <<>> /\ Head(toHost).t = "unsub"
    /\ LET s == Head(toHost).sid IN
       IF mail[s].key = NoKey /\ tomb[s] # "gap" THEN Malformed
       ELSE /\ Answer(<<[t |-> "unsuback", sid |-> s]>>)
            /\ mail' = [mail EXCEPT ![s] = NoMail]
            /\ tomb' = [tomb EXCEPT ![s] = "acked"]
            /\ UNCHANGED <<hostVars, workVars, appVars, faults>>

HostPongs ==
    /\ Serving /\ toHost # <<>> /\ Head(toHost).t = "ping"
    /\ Answer(<<[t |-> "pong", sid |-> Head(toHost).sid]>>)
    /\ UNCHANGED <<hostVars, servVars, workVars, appVars, faults>>

\* One event of a mailbox is written; a closing event ends the subscription.
HostPublishes(s) ==
    /\ Serving /\ mail[s].q # <<>>
    /\ LET e == Head(mail[s].q) IN
       IF e = Closed
       THEN /\ toClient' = Append(toClient, [t |-> "closed", sid |-> s])
            /\ mail' = [mail EXCEPT ![s] = NoMail]
            /\ tomb' = [tomb EXCEPT ![s] = "gap"]
       ELSE /\ toClient' = Append(toClient, [t |-> "env", sid |-> s, key |-> mail[s].key, e |-> e])
            /\ mail' = [mail EXCEPT ![s].q = Tail(@)]
            /\ UNCHANGED tomb
    /\ UNCHANGED <<conn, toHost, hostVars, workVars, appVars, faults>>

-----------------------------------------------------------------------------
(* The device's worker.                                                    *)

Online == conn /\ todo = {} /\ task.op # "resub"

Ask(f) == toHost' = Append(toHost, f) /\ UNCHANGED <<conn, toClient>>

Forget(s) == cb' = [cb EXCEPT ![s] = NoKey] /\ snap' = [snap EXCEPT ![s] = 0]

\* A new authenticated connection; calls that were waiting have been answered,
\* and every intent is to be resubscribed.
Reconnect ==
    /\ ~conn /\ call = NoCall /\ host \in {"up", "recovery"}
    /\ conn' = TRUE /\ todo' = {s \in Sids : cb[s] # NoKey}
    /\ UNCHANGED <<toHost, toClient, hostVars, servVars, cb, snap, cache, task, appVars, faults>>

Subscribing(op, s, k, since) ==
    /\ task' = [op |-> op, sid |-> s, key |-> k, since |-> since,
                stage |-> "ack", out |-> "none", cur |-> 0, head |-> 0]
    /\ Ask([t |-> "sub", sid |-> s, key |-> k, since |-> since])

\* Mutant: a reconnection asks for the current view instead of resuming.
ResubscribeAfresh ==
    /\ conn /\ task = Idle /\ todo # {}
    /\ \E s \in todo :
          /\ \A r \in todo : s <= r
          /\ Subscribing("resub", s, cb[s], 0)
          /\ todo' = todo \ {s}
    /\ UNCHANGED <<hostVars, servVars, cb, snap, cache, appVars, faults>>

\* Intents are resubscribed in the order of their ids, from the cached cursor.
Resubscribe ==
    /\ conn /\ task = Idle /\ todo # {}
    /\ \E s \in todo :
          /\ \A r \in todo : s <= r
          /\ Subscribing("resub", s, cb[s], cache[cb[s]].cursor)
          /\ todo' = todo \ {s}
    /\ UNCHANGED <<hostVars, servVars, cb, snap, cache, appVars, faults>>

\* The worker takes the app's call from its channel.
TakeCall ==
    /\ Online /\ task = Idle /\ call # NoCall
    /\ call' = NoCall
    /\ IF call.op = "sub"
       THEN /\ cb' = [cb EXCEPT ![call.sid] = call.key]
            /\ Subscribing("sub", call.sid, call.key, call.since)
       ELSE /\ task' = [op |-> "unsub", sid |-> call.sid, stage |-> "unsub"]
            /\ Ask([t |-> "unsub", sid |-> call.sid])
            /\ UNCHANGED cb
    /\ UNCHANGED <<hostVars, servVars, snap, cache, todo, app, notice, seen, nextSid, faults>>

\* Without a connection a subscription is refused, an intent simply dropped.
TakeCallDisconnected ==
    /\ ~conn /\ call # NoCall
    /\ call' = NoCall
    /\ IF call.op = "unsub" THEN Forget(call.sid) ELSE UNCHANGED <<cb, snap>>
    /\ UNCHANGED <<hostVars, servVars, wireVars, cache, task, todo, app, notice, seen, nextSid, faults>>

\* The callback of s posts the closure to the app's thread.
OnClosed(s) == notice' = notice \cup {s}

\* An operation fails: an idle worker and a resubscribing one give the
\* connection up; a call fails alone and the connection stays.
FailedWith(promised) ==
    IF task.op \in {"idle", "resub"} THEN CloseWire /\ WorkerLosesWire(promised)
    ELSE /\ task' = Idle
         /\ cb' = IF task.op = "sub" THEN [cb EXCEPT ![task.sid] = NoKey] ELSE cb
         /\ snap' = IF task.op = "sub" THEN [promised EXCEPT ![task.sid] = 0] ELSE promised
         /\ toClient' = Tail(toClient)
         /\ UNCHANGED <<conn, toHost, mail, tomb, todo>>

Failed == FailedWith(snap)

TimesOut ==
    /\ task.op # "idle" /\ Fault("timeout")
    /\ IF task.op = "resub" THEN CloseWire /\ WorkerLosesWire(snap)
       ELSE /\ task' = Idle
            /\ IF task.op = "sub" THEN Forget(task.sid) ELSE UNCHANGED <<cb, snap>>
            /\ UNCHANGED <<wireVars, mail, tomb, todo>>
    /\ UNCHANGED <<hostVars, cache, appVars>>

Incoming(t) == conn /\ toClient # <<>> /\ Head(toClient).t = t
Consume == toClient' = Tail(toClient) /\ UNCHANGED conn

\* The acknowledgement the worker waits for; then the barrier is sent.
ReceiveAck ==
    /\ Incoming("ack")
    /\ LET f == Head(toClient) IN
       IF task.op \in {"sub", "resub"} /\ task.stage = "ack" /\ task.sid = f.sid
       THEN /\ Consume
            /\ IF f.out = "rejected"
               THEN /\ Forget(f.sid) /\ task' = Idle
                    /\ OnClosed(f.sid) /\ UNCHANGED toHost
               ELSE /\ snap' = IF f.out = "current" THEN [snap EXCEPT ![f.sid] = f.cur] ELSE snap
                    /\ task' = [task EXCEPT !.stage = "pong", !.out = f.out,
                                            !.cur = f.cur, !.head = f.head]
                    /\ toHost' = Append(toHost, [t |-> "ping", sid |-> f.sid])
                    /\ UNCHANGED <<cb, notice>>
            /\ UNCHANGED <<servVars, todo>>
       ELSE Failed /\ UNCHANGED notice
    /\ UNCHANGED <<hostVars, cache, call, app, seen, nextSid, faults>>

\* The cache must have reached what the acknowledgement promised.
Synchronized(k) ==
    /\ cache[k].cursor # 0
    /\ task.out = "current" => cache[k].cursor >= task.cur
    /\ task.out = "resumed" => cache[k].cursor >= task.since

\* The barrier's answer: everything the acknowledgement promised was written
\* before it.  A call returns its handle, and the app shows the cached view.
ReceivePong ==
    /\ Incoming("pong")
    /\ LET f == Head(toClient)
           mine == task.op \in {"sub", "resub"} /\ task.stage = "pong" /\ task.sid = f.sid
       IN IF mine /\ Synchronized(task.key)
          THEN /\ Consume /\ task' = Idle
               /\ IF task.op = "sub"
                  THEN /\ app' = [app EXCEPT ![task.key] = f.sid]
                       /\ seen' = [seen EXCEPT ![task.key] = cache[task.key].version]
                  ELSE UNCHANGED <<app, seen>>
               /\ UNCHANGED <<toHost, servVars, cb, snap, todo>>
          ELSE Failed /\ UNCHANGED <<app, seen>>
    /\ UNCHANGED <<hostVars, cache, call, notice, nextSid, faults>>

ReceiveUnsubAck ==
    /\ Incoming("unsuback")
    /\ LET s == Head(toClient).sid IN
       IF task.op = "unsub" /\ task.sid = s
       THEN Consume /\ Forget(s) /\ task' = Idle /\ UNCHANGED <<toHost, servVars, todo>>
       ELSE Failed
    /\ UNCHANGED <<hostVars, cache, appVars, faults>>

\* The subscription lagged behind its mailbox.
ReceiveClosed ==
    /\ Incoming("closed")
    /\ LET s == Head(toClient).sid IN
       IF cb[s] = NoKey THEN Failed /\ UNCHANGED notice
       ELSE /\ Consume /\ Forget(s) /\ OnClosed(s)
            /\ UNCHANGED <<toHost, servVars, task, todo>>
    /\ UNCHANGED <<hostVars, cache, call, app, seen, nextSid, faults>>

\* A promised snapshot must carry its cursor; any other entry must be the
\* successor of the cached one.
Accepts(s, k, e) ==
    /\ cb[s] = k
    /\ IF snap[s] # 0 THEN e.cursor = snap[s]
       ELSE cache[k].cursor = 0 \/ e.cursor = cache[k].cursor + 1

ReceiveEntry ==
    /\ Incoming("env")
    /\ LET f == Head(toClient) IN
       IF Accepts(f.sid, f.key, f.e)
       THEN /\ Consume
            /\ cache' = [cache EXCEPT ![f.key] = f.e]
            /\ snap' = [snap EXCEPT ![f.sid] = 0]
            /\ seen' = IF app[f.key] = f.sid THEN [seen EXCEPT ![f.key] = f.e.version] ELSE seen
            /\ UNCHANGED <<toHost, servVars, cb, task, todo>>
       ELSE FailedWith([snap EXCEPT ![f.sid] = 0]) /\ UNCHANGED <<cache, seen>>
    /\ UNCHANGED <<hostVars, call, app, notice, nextSid, faults>>

\* The cache keeps the new view, but deleting the old file fails: the entry is
\* never handed to the callback and the operation fails.
ReceiveEntryUncompacted ==
    /\ Incoming("env") /\ Fault("cache")
    /\ LET f == Head(toClient) IN
          /\ Accepts(f.sid, f.key, f.e)
          /\ cache' = [cache EXCEPT ![f.key] = f.e]
          /\ FailedWith([snap EXCEPT ![f.sid] = 0])
    /\ UNCHANGED <<hostVars, appVars>>

-----------------------------------------------------------------------------
(* The app: one thread, blocked while a call of its is served.             *)

AppFree == call = NoCall /\ task.op \notin {"sub", "unsub"}

\* The id and the cached cursor are read before the call reaches the worker.
AppSubscribe(k) ==
    /\ AppFree /\ Online /\ app[k] = 0 /\ nextSid <= MaxSid
    /\ call' = [op |-> "sub", sid |-> nextSid, key |-> k, since |-> cache[k].cursor]
    /\ nextSid' = nextSid + 1
    /\ UNCHANGED <<hostVars, servVars, wireVars, workVars, app, notice, seen, faults>>

\* The app handles a closure: a handle it still holds is gone.
AppNotified(s) ==
    /\ AppFree /\ s \in notice
    /\ notice' = notice \ {s}
    /\ app' = [k \in Keys |-> IF app[k] = s THEN 0 ELSE app[k]]
    /\ UNCHANGED <<hostVars, servVars, wireVars, workVars, call, seen, nextSid, faults>>

AppUnsubscribe(k) ==
    /\ "unsubscribe" \in AppOps /\ AppFree /\ app[k] # 0
    /\ call' = [op |-> "unsub", sid |-> app[k]]
    /\ app' = [app EXCEPT ![k] = 0]
    /\ UNCHANGED <<hostVars, servVars, wireVars, workVars, notice, seen, nextSid, faults>>

\* The app reconnects: it drops its handles without unsubscribing, and the
\* worker gives up the connection and keeps its intents.
AppReconnect ==
    /\ "reconnect" \in AppOps /\ AppFree /\ conn
    /\ faults < MaxFaults /\ faults' = faults + 1
    /\ app' = [k \in Keys |-> 0]
    /\ CloseWire
    /\ snap' = [s \in Sids |-> 0] /\ task' = Idle /\ todo' = {}
    /\ UNCHANGED <<hostVars, cb, cache, call, notice, seen, nextSid>>

\* The device's process ends and starts again: the intents are gone, the cache
\* is read back, the greatest complete file of a key, and the app shows it.
DeviceRestarts ==
    /\ Fault("restart") /\ CloseWire
    /\ cb' = [s \in Sids |-> NoKey] /\ snap' = [s \in Sids |-> 0]
    /\ task' = Idle /\ todo' = {} /\ call' = NoCall /\ notice' = {}
    /\ app' = [k \in Keys |-> 0]
    /\ seen' = [k \in Keys |-> cache[k].version]
    /\ UNCHANGED <<hostVars, cache, nextSid>>

-----------------------------------------------------------------------------
Cut == \E ks \in SUBSET Keys : \E f \in ks, landed \in BOOLEAN :
          CommitCut(ks, f, landed) \/ CrashInCommit(ks, f, landed)

HostStep ==
    \/ HostSubscribes \/ HostUnsubscribes \/ HostPongs
    \/ \E s \in Sids : HostPublishes(s)

WorkerStep ==
    \/ Resubscribe \/ TakeCall \/ TakeCallDisconnected
    \/ ReceiveAck \/ ReceivePong \/ ReceiveUnsubAck \/ ReceiveClosed \/ ReceiveEntry

Next ==
    \/ \E ks \in SUBSET Keys : Commit(ks) \/ CommitUnpublished(ks)
    \/ Cut \/ Crash \/ Stop \/ Restart
    \/ WireDrops \/ TimesOut \/ ReceiveEntryUncompacted
    \/ HostStep \/ WorkerStep \/ Reconnect
    \/ \E k \in Keys : AppSubscribe(k) \/ AppUnsubscribe(k)
    \/ \E s \in Sids : AppNotified(s)
    \/ AppReconnect \/ DeviceRestarts

Spec == Init /\ [][Next]_vars

\* A host that went down is started again, its connection thread keeps polling,
\* and the worker and the app keep retrying.  Nobody has to stop a host that
\* waits for recovery.
Fairness ==
    /\ WF_vars(Restart)
    /\ \A s \in Sids : WF_vars(HostPublishes(s))
    /\ WF_vars(HostSubscribes \/ HostUnsubscribes \/ HostPongs)
    /\ WF_vars(WorkerStep) /\ WF_vars(Reconnect)
    /\ \A k \in Keys : WF_vars(AppSubscribe(k))
    /\ \A s \in Sids : WF_vars(AppNotified(s))

FairSpec == Spec /\ Fairness

-----------------------------------------------------------------------------
(* What the path guarantees.                                               *)

\* Every variable has its type, and a snapshot is promised only to a
\* subscription the worker still has.
TypeOK ==
    /\ canon \in [Keys -> 0..MaxVersion]
    /\ \A k \in Keys : disk[k] \in Seq(Entry) /\ mem[k] \in Seq(Entry)
    /\ host \in {"up", "recovery", "down", "refused"}
    /\ \A s \in Sids : /\ mail[s].key \in Keys \cup {NoKey}
                       /\ mail[s].q \in Seq(Entry) /\ mail[s].closed \in BOOLEAN
    /\ tomb \in [Sids -> {"none", "gap", "acked"}]
    /\ conn \in BOOLEAN
    /\ cb \in [Sids -> Keys \cup {NoKey}] /\ snap \in [Sids -> Nat]
    /\ cache \in [Keys -> Entry]
    /\ task.op \in {"idle", "sub", "resub", "unsub"}
    /\ todo \subseteq Sids /\ call.op \in {"none", "sub", "unsub"}
    /\ notice \subseteq Sids /\ app \in [Keys -> 0..MaxSid] /\ seen \in [Keys -> Nat]
    /\ nextSid \in 1..(MaxSid + 1) /\ faults \in 0..MaxFaults
    /\ \A s \in Sids : snap[s] # 0 => cb[s] # NoKey

\* A device never holds a view the canonical log does not imply: whatever is
\* cached under a cursor is what the host would write there after any crash,
\* failed journal write or reload, so a resume after a restart joins the same
\* history (CanonicalStore::load, ProjectionJournal::reconcile).
CachedViewsAreHistory ==
    \A k \in Keys : cache[k].cursor = cache[k].version /\ cache[k].cursor <= canon[k]

\* The cached view of a key never moves back, whatever fails and however many
\* subscriptions of the app feed the key (ProjectionCache::apply, apply_current:
\* the latter does not compare the snapshot with what is cached).
CacheMovesForward == [][\A k \in Keys : cache'[k].cursor >= cache[k].cursor]_vars

\* A reload never finds a journal file that disagrees with the log: a commit
\* cut short leaves a prefix, whichever append failed and whether or not its
\* line reached the file (CanonicalStore::apply_trusted_commit, reconcile).
ReloadAlwaysSucceeds == host # "refused"

\* A subscribe call that returns has synchronised the cache with every entry
\* the host had when it answered (execute_command: the Ping/Pong barrier).
BarrierSynchronizes ==
    [][\A k \in Keys : app[k] = 0 /\ app'[k] # 0 => cache[k].cursor >= task.head]_vars

\* Neither end takes the other's frames for a violation: a connection ends by
\* a fault or with the host, and neither lag nor an unsubscribe that crosses
\* the closing event costs a healthy connection (CorrelationState,
\* handle_unsolicited, apply_projection).
HealthyConnectionSurvives ==
    [][conn /\ ~conn' => faults' # faults \/ host' # host]_vars

\* When nothing is in flight, the host is up and the app holds a handle for a
\* key, the app shows the newest view: no entry is lost between the journal,
\* the mailbox, the wire, the cache and the callback (broker publish,
\* publish_subscription_events, apply_projection).
QuietMeansCurrent ==
    (/\ host = "up" /\ Online /\ task = Idle /\ call = NoCall
     /\ toHost = <<>> /\ toClient = <<>> /\ notice = {}
     /\ \A s \in Sids : mail[s].q = <<>>)
    => \A k \in Keys : app[k] # 0 => seen[k] = canon[k]

\* A slow subscriber holds at most its mailbox in the host's memory, whatever
\* the host commits (SubscriptionMailbox::push).
MailboxBounded == \A s \in Sids : Len(mail[s].q) <= MailboxCap

\* The app ends up showing the newest view of every key it can subscribe to,
\* after any finite number of faults, unless the host waits for recovery or the
\* bound on subscription ids is exhausted (reconnect_worker, resubscribe_all,
\* CursorGap and its resubscription).
EventuallyCurrent ==
    <>[](\/ host = "recovery" \/ nextSid > MaxSid
         \/ \A k \in Keys : seen[k] = canon[k])

Feed == INSTANCE ProjectionFeed
            WITH head <- canon, view <- [k \in Keys |-> cache[k].cursor]

\* The whole path implements the abstract feed of a key: the view of a device
\* only moves forward, one entry at a time or over entries the journal no
\* longer retains.
ImplementsFeed == Feed!Spec

=============================================================================
