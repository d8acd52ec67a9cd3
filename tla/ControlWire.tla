------------------------------ MODULE ControlWire ------------------------------
(***************************************************************************)
(* One authenticated connection after its handshake: requests and answers, *)
(* subscriptions and their pushes, uploads in two frames.  The host keeps  *)
(* the conversation in two places, the connection's CorrelationState and   *)
(* the business loop's own maps, and answers every frame before it reads   *)
(* the next one.  The peer is any client of the protocol, or the device's  *)
(* worker, which runs one call at a time and answers the host's pings.     *)
(*                                                                         *)
(* A frame is a record of its kind t, request id, subscription id and the  *)
(* digest of a body; what views, commands and contents say is left out.    *)
(***************************************************************************)
EXTENDS Naturals, Sequences, FiniteSets

CONSTANTS
    MaxId, MaxSid,      \* bounds: request ids and subscription ids
    HelloId,            \* the last request id of the handshake
    MaxPending, MaxSubs,   \* requests in progress, active subscriptions
    Digests,
    MaxPushes, MaxPings,   \* bounds: events of subscriptions, pings of the host
    Peer,               \* "client" (any frames) or "worker"
    Calls,              \* the calls an app makes of the worker
    Outcomes,           \* how the gateway answers: "ok", "rejected", "broker"
    Timeouts            \* bound: calls the worker gives up

VARIABLES
    host,       \* CorrelationState and BusinessState
    sent,       \* frames the host wrote, in order
    got,        \* frames the host took, in order
    stored,     \* uploads given to the content store
    inbox,      \* frames on their way to the host (worker only)
    read,       \* how many of `sent' the worker has read
    worker,     \* the device's worker; done: requests it reported as done
    pushes, timeouts

vars == <<host, sent, got, stored, inbox, read, worker, pushes, timeouts>>

Ids == 0..MaxId
Sids == 0..MaxSid
None == "none"
Frame(t, id, sid, digest) == [t |-> t, id |-> id, sid |-> sid, digest |-> digest]
Answers == [sub |-> "ack", unsub |-> "unsuback", body |-> "stored", read |-> "content",
            cmd |-> "cmdack", ping |-> "pong"]

NoSession == [open |-> TRUE, last |-> HelloId, inLast |-> 0, outLast |-> 0, subLast |-> 0,
              incoming |-> {}, outgoing |-> {}, subs |-> {}, gone |-> {}, acked |-> {},
              awaiting |-> {}, headers |-> {}, broker |-> {}, next |-> 1]

IdleWorker == [call |-> None, id |-> 0, sid |-> 0, stage |-> None, next |-> HelloId + 1,
               subs |-> {}, held |-> {}, nextSid |-> 1, state |-> "online", done |-> {}]

Init ==
    /\ host = NoSession /\ sent = <<>> /\ got = <<>> /\ stored = <<>>
    /\ inbox = <<>> /\ read = 0 /\ worker = IdleWorker
    /\ pushes = 0 /\ timeouts = 0

-----------------------------------------------------------------------------
(* The host's CorrelationState.  Each operation returns the new state, with *)
(* `open' false when the frame ends the connection.                         *)

Refused(h) == [h EXCEPT !.open = FALSE]
Pending(h) == Cardinality(h.incoming) + Cardinality(h.outgoing)

HasRoom(h) == Pending(h) < MaxPending

Begin(h, id) ==
    IF id = 0 \/ id <= h.last \/ ~HasRoom(h) \/ id <= h.inLast THEN Refused(h)
    ELSE [h EXCEPT !.last = id, !.inLast = id, !.incoming = @ \cup {id}]

Complete(h, id) ==
    IF id \notin h.incoming THEN Refused(h)
    ELSE [h EXCEPT !.incoming = @ \ {id}, !.awaiting = {a \in @ : a.id # id}]

BeginOutgoing(h, id) ==
    IF ~HasRoom(h) \/ id <= h.outLast THEN Refused(h)
    ELSE [h EXCEPT !.outLast = id, !.outgoing = @ \cup {id}]

AcceptResponse(h, id) ==
    IF id \notin h.outgoing THEN Refused(h) ELSE [h EXCEPT !.outgoing = @ \ {id}]

Opens(h, sid) ==
    IF \/ sid = 0 \/ sid <= h.subLast \/ sid \in h.subs \cup h.gone \cup h.acked
       \/ Cardinality(h.subs) >= MaxSubs
    THEN Refused(h) ELSE [h EXCEPT !.subLast = sid, !.subs = @ \cup {sid}]

\* A rejected subscription is a tombstone that takes no unsubscribe.
CloseSubscription(h, sid) == [h EXCEPT !.subs = @ \ {sid}, !.acked = @ \cup {sid}]

CloseForGap(h, sid) ==
    IF sid \notin h.subs \/ sid \in h.gone \cup h.acked THEN Refused(h)
    ELSE [h EXCEPT !.subs = @ \ {sid}, !.gone = @ \cup {sid}]

\* An active subscription, or once one that was closed for a gap.
Unsubscribes(h, sid) ==
    IF sid \in h.subs \cup h.gone
    THEN [h EXCEPT !.subs = @ \ {sid}, !.gone = @ \ {sid}, !.acked = @ \cup {sid}] ELSE Refused(h)

ExpectContent(h, f) ==
    IF f.digest = None \/ \E a \in h.awaiting : a.id = f.id THEN Refused(h)
    ELSE [h EXCEPT !.awaiting = @ \cup {[id |-> f.id, digest |-> f.digest]}]

\* The announcement is used up before its digest is compared.
BindContent(h, f) ==
    IF \E a \in h.awaiting : a.id = f.id /\ a.digest = f.digest
    THEN [h EXCEPT !.awaiting = {a \in @ : a.id # f.id}]
    ELSE [Refused(h) EXCEPT !.incoming = @ \ {f.id}, !.awaiting = {a \in @ : a.id # f.id}]

-----------------------------------------------------------------------------
(* handle_business_frame: the state after frame f, what is written, and what *)
(* is stored.  `out' is the gateway's answer.                                *)

Result(h, frames, puts) == [h |-> h, sent |-> frames, stored |-> puts]
Answer(f) == Frame(Answers[f.t], f.id, f.sid, None)

\* A request over a limit is told so before the connection ends.
Limited(h, f, over) == Result(h, IF over THEN <<Frame("limited", f.id, 0, None)>> ELSE <<>>, <<>>)

Full(h, sid) == sid > h.subLast /\ Cardinality(h.subs) >= MaxSubs

\* Mutant: a rejected subscription is kept open.
KeepsRejected(h, f, out) ==
    LET o == Opens(h, f.sid) IN
    IF ~o.open THEN Limited(o, f, Full(h, f.sid))
    ELSE IF out = "broker" THEN Result(Refused(o), <<>>, <<>>)
    ELSE IF out = "rejected"
    THEN Result(Complete(o, f.id), <<[Answer(f) EXCEPT !.t = "rejected"]>>, <<>>)
    ELSE Result([Complete(o, f.id) EXCEPT !.broker = @ \cup {f.sid}],
                <<Answer(f), Frame("env", 0, f.sid, None)>>, <<>>)

\* The acknowledgement, then the view; or a rejection, and the id is spent.
Subscribe(h, f, out) ==
    LET o == Opens(h, f.sid) IN
    IF ~o.open THEN Limited(o, f, Full(h, f.sid))
    ELSE IF out = "broker" THEN Result(Refused(o), <<>>, <<>>)
    ELSE IF out = "rejected"
    THEN Result(CloseSubscription(Complete(o, f.id), f.sid),
                <<[Answer(f) EXCEPT !.t = "rejected"]>>, <<>>)
    ELSE Result([Complete(o, f.id) EXCEPT !.broker = @ \cup {f.sid}],
                <<Answer(f), Frame("env", 0, f.sid, None)>>, <<>>)

Unsubscribe(h, f) ==
    LET u == Unsubscribes(h, f.sid) IN
    IF ~u.open THEN Result(u, <<>>, <<>>)
    ELSE Result([Complete(u, f.id) EXCEPT !.broker = @ \ {f.sid}], <<Answer(f)>>, <<>>)

ContentHeader(h, f) ==
    LET e == ExpectContent(h, f) IN
    Result(IF e.open THEN [e EXCEPT !.headers = @ \cup {[id |-> f.id, digest |-> f.digest]}] ELSE e,
           <<>>, <<>>)

\* A content frame: no session timer is asked, the body is bound first.
ContentBody(h, f, out) ==
    LET b == BindContent(h, f)
        taken == [b EXCEPT !.headers = {x \in @ : x.id # f.id}]
        put == <<[id |-> f.id, digest |-> f.digest]>>
    IN IF ~b.open THEN Result(b, <<>>, <<>>)
       ELSE IF out = "broker" THEN Result(Refused(taken), <<>>, <<>>)
       ELSE Result(Complete(taken, f.id), <<Answer(f)>>, IF out = "ok" THEN put ELSE <<>>)

\* Reads, commands and pings are answered at once.
Exchange(h, f, out) ==
    IF out = "broker" /\ f.t # "ping" THEN Result(Refused(h), <<>>, <<>>)
    ELSE Result(Complete(h, f.id), <<Answer(f)>>, <<>>)

HandleFrame(h, f, out) ==
    IF f.t = "body" THEN ContentBody(h, f, out)
    ELSE IF f.t = "pong" THEN Result(AcceptResponse(h, f.id), <<>>, <<>>)
    ELSE LET b == Begin(h, f.id) IN
         IF ~b.open THEN Limited(b, f, f.id > h.last /\ ~HasRoom(h))
         ELSE CASE f.t = "sub" -> Subscribe(b, f, out)
                [] f.t = "unsub" -> Unsubscribe(b, f)
                [] f.t = "header" -> ContentHeader(b, f)
                [] OTHER -> Exchange(b, f, out)

\* Frames the gateway is asked about.
OutcomesOf(f) == IF f.t \in {"sub", "body", "read", "cmd"} THEN Outcomes ELSE {"ok"}

Handles(f, out) ==
    LET r == HandleFrame(host, f, out) IN
    /\ host' = r.h /\ sent' = sent \o r.sent /\ stored' = stored \o r.stored
    /\ got' = IF r.h.open THEN Append(got, f) ELSE got

\* A client that sends what it likes.
ClientFrames ==
    {Frame(t, id, 0, None) : t \in {"ping", "pong"}, id \in Ids}
    \cup {Frame(t, id, sid, None) : t \in {"sub", "unsub"}, id \in Ids, sid \in Sids}
    \cup {Frame(t, id, 0, d) : t \in {"header", "body"}, id \in Ids, d \in Digests}

HostHandles(f, out) ==
    /\ Peer = "client" /\ host.open
    /\ Handles(f, out)
    /\ UNCHANGED <<inbox, read, worker, pushes, timeouts>>

\* publish_subscription_events: an event of the broker's subscription, or its
\* end because the subscriber lagged.
Push(sid, gap) ==
    /\ host.open /\ pushes < MaxPushes /\ pushes' = pushes + 1
    /\ sid \in host.broker
    /\ IF gap THEN LET c == CloseForGap(host, sid) IN
                   /\ host' = [c EXCEPT !.broker = @ \ {sid}]
                   /\ sent' = IF c.open THEN Append(sent, Frame("closed", 0, sid, None)) ELSE sent
       ELSE sent' = Append(sent, Frame("env", 0, sid, None)) /\ UNCHANGED host
    /\ UNCHANGED <<got, stored, inbox, read, worker, timeouts>>

\* An idle connection is pinged.
SendPing ==
    /\ host.open /\ host.next <= MaxPings
    /\ LET o == BeginOutgoing(host, host.next) IN
       /\ host' = [o EXCEPT !.next = @ + 1]
       /\ sent' = IF o.open THEN Append(sent, Frame("ping", host.next, 0, None)) ELSE sent
    /\ UNCHANGED <<got, stored, inbox, read, worker, pushes, timeouts>>

-----------------------------------------------------------------------------
(* The device's worker *)

HostReads(out) ==
    /\ Peer = "worker" /\ host.open /\ inbox # <<>>
    /\ out \in OutcomesOf(Head(inbox))
    /\ Handles(Head(inbox), out) /\ inbox' = Tail(inbox)
    /\ UNCHANGED <<read, worker, pushes, timeouts>>

Waits == [sub |-> "ack", unsub |-> "unsuback", write |-> "stored", read |-> "content", cmd |-> "cmdack"]

\* What a call puts on the wire.
Requests(c, id, sid, d) ==
    CASE c = "sub" -> <<Frame("sub", id, sid, None)>>
      [] c = "unsub" -> <<Frame("unsub", id, sid, None)>>
      [] c = "write" -> <<Frame("header", id, 0, d), Frame("body", id, 0, d)>>
      [] OTHER -> <<Frame(c, id, 0, None)>>

\* A call of the app: a new subscription, one whose handle it still holds, or
\* a request.  The worker takes it when it is idle.
Call(c, sid, d) ==
    /\ Peer = "worker" /\ worker.state = "online" /\ worker.call = None /\ c \in Calls
    /\ worker.next + 1 <= MaxId
    /\ CASE c = "sub" -> sid = worker.nextSid /\ sid <= MaxSid
         [] c = "unsub" -> sid \in worker.held
         [] OTHER -> sid = 0
    /\ worker' = [worker EXCEPT !.call = c, !.id = worker.next, !.sid = sid,
                    !.stage = Waits[c], !.next = @ + 1,
                    !.subs = IF c = "sub" THEN @ \cup {sid} ELSE @,
                    !.held = IF c = "unsub" THEN @ \ {sid} ELSE @,
                    !.nextSid = IF c = "sub" THEN @ + 1 ELSE @]
    /\ inbox' = inbox \o Requests(c, worker.next, sid, d)
    /\ UNCHANGED <<host, sent, got, stored, read, pushes, timeouts>>

Returns(w) == [w EXCEPT !.call = None, !.stage = None, !.id = 0, !.sid = 0]
Drops(w) == [w EXCEPT !.state = "lost", !.call = None, !.stage = None]

Selects(f) ==
    /\ f.id = worker.id /\ f.sid = worker.sid
    /\ f.t = worker.stage \/ (worker.stage = "ack" /\ f.t = "rejected")

\* What the selected answer does: a subscription goes on to its barrier.
Selected(f) ==
    IF f.t = "ack"
    THEN /\ worker' = [worker EXCEPT !.stage = "pong", !.id = worker.next, !.sid = 0, !.next = @ + 1]
         /\ inbox' = Append(inbox, Frame("ping", worker.next, 0, None))
    ELSE /\ worker' = [Returns(worker) EXCEPT
              !.subs = IF f.t \in {"rejected", "unsuback"} THEN @ \ {f.sid} ELSE @,
              !.held = IF f.t = "pong" THEN @ \cup {worker.nextSid - 1} ELSE @,
              !.done = IF f.t = "rejected" THEN @ ELSE @ \cup {worker.id}]
         /\ UNCHANGED inbox

\* Everything else: pushes, pings, and frames nobody waits for.  A frame it
\* cannot place fails the call, or drops an idle connection.
Unsolicited(f) ==
    IF f.t = "env" /\ f.sid \in worker.subs THEN UNCHANGED <<worker, inbox>>
    ELSE IF f.t = "closed" /\ f.sid \in worker.subs
    THEN worker' = [worker EXCEPT !.subs = @ \ {f.sid}] /\ UNCHANGED inbox
    ELSE IF f.t = "ping"
    THEN inbox' = Append(inbox, Frame("pong", f.id, 0, None)) /\ UNCHANGED worker
    ELSE /\ worker' = IF worker.call = None THEN Drops(worker) ELSE
                      [Returns(worker) EXCEPT !.subs = IF worker.call = "sub"
                                                       THEN @ \ {worker.nextSid - 1} ELSE @]
         /\ UNCHANGED inbox

WorkerReads ==
    /\ Peer = "worker" /\ worker.state = "online" /\ read < Len(sent)
    /\ read' = read + 1
    /\ LET f == sent[read'] IN
       IF worker.call # None /\ Selects(f) THEN Selected(f) ELSE Unsolicited(f)
    /\ UNCHANGED <<host, sent, got, stored, pushes, timeouts>>

\* The host closed the connection and everything it wrote was read.
WorkerLoses ==
    /\ Peer = "worker" /\ worker.state = "online" /\ ~host.open /\ read = Len(sent)
    /\ worker' = Drops(worker)
    /\ UNCHANGED <<host, sent, got, stored, inbox, read, pushes, timeouts>>

\* No answer within the time of a frame: the call fails, the connection stays.
TimesOut ==
    /\ Peer = "worker" /\ worker.call # None /\ timeouts < Timeouts
    /\ timeouts' = timeouts + 1
    /\ worker' = [Returns(worker) EXCEPT !.subs = IF worker.call = "sub"
                                                  THEN @ \ {worker.nextSid - 1} ELSE @]
    /\ UNCHANGED <<host, sent, got, stored, inbox, read, pushes>>

Next ==
    \/ \E f \in ClientFrames : \E out \in OutcomesOf(f) : HostHandles(f, out)
    \/ \E s \in Sids, gap \in BOOLEAN : Push(s, gap)
    \/ SendPing
    \/ \E out \in Outcomes : HostReads(out)
    \/ \E c \in Calls, s \in Sids, d \in Digests : Call(c, s, d)
    \/ WorkerReads
    \/ WorkerLoses
    \/ TimesOut

Spec == Init /\ [][Next]_vars

\* The host's thread and the worker's thread run; apps, brokers and timers
\* need not.
FairSpec == Spec /\ WF_vars(\E out \in Outcomes : HostReads(out))
                 /\ WF_vars(WorkerReads) /\ WF_vars(WorkerLoses)

-----------------------------------------------------------------------------
(* Properties *)

\* Type invariant; requests in progress and subscriptions stay within their
\* limits, the host's own pings included (check_pending_limit).
TypeOK ==
    /\ host.last \in Ids /\ host.incoming \subseteq Ids /\ host.subs \subseteq Sids
    /\ Pending(host) <= MaxPending /\ Cardinality(host.subs) <= MaxSubs
    /\ read \in 0..Len(sent) /\ worker.next \in 1..(MaxId + 1)

\* Between two frames the connection's books agree with the business loop's:
\* the broker's subscriptions are the open ones, the headers kept are the
\* contents awaited, and only an announced upload is a request in progress.
BooksAgree ==
    host.open => /\ host.broker = host.subs
                 /\ host.headers = host.awaiting
                 /\ host.incoming = {a.id : a \in host.awaiting}

\* A request is answered at most once, with the answer its kind calls for, and
\* nothing is answered that was not asked (request ids grow).
OneAnswerEach ==
    \A i \in DOMAIN sent : sent[i].t \in {Answers[t] : t \in DOMAIN Answers} \cup {"rejected"} =>
        /\ \A j \in DOMAIN sent : j # i /\ sent[j].t \notin {"ping", "limited"}
                                    => sent[j].id # sent[i].id
        /\ \E k \in DOMAIN got : /\ got[k].id = sent[i].id
                                 /\ sent[i].t \in {Answers[x] : x \in DOMAIN Answers \cap {got[k].t}}
                                                    \cup IF got[k].t = "sub" THEN {"rejected"} ELSE {}

\* Nothing is pushed for a subscription before its acknowledgement, nor after
\* its end or the acknowledgement of its unsubscribe; an id is acknowledged
\* once in the life of a connection.
PushesAreLive ==
    /\ \A i \in DOMAIN sent : sent[i].t \in {"env", "closed"} =>
          /\ \E j \in 1..(i - 1) : sent[j].t = "ack" /\ sent[j].sid = sent[i].sid
          /\ \A j \in 1..(i - 1) : sent[j].t \in {"closed", "unsuback", "rejected"}
                                     => sent[j].sid # sent[i].sid
    /\ \A i, j \in DOMAIN sent :
          i < j /\ sent[j].t \in {"ack", "rejected"} /\ sent[i].t \in {"ack", "rejected", "unsuback"}
             => sent[i].sid # sent[j].sid
    /\ \A i, j \in DOMAIN sent :
          i < j /\ sent[i].t = "unsuback" /\ sent[j].t = "unsuback" => sent[i].sid # sent[j].sid

\* The store is given a body only as the one its header announced, once per
\* header.
StoredAsAnnounced ==
    /\ \A i \in DOMAIN stored : \E k \in DOMAIN got :
          got[k].t = "header" /\ got[k].id = stored[i].id /\ got[k].digest = stored[i].digest
    /\ \A i, j \in DOMAIN stored : i # j => stored[i].id # stored[j].id

\* The worker and the host keep one conversation: whatever crosses on the
\* wire, neither end ever takes a frame of the other for a fault.
ConversationSound == host.open /\ worker.state = "online"

\* A call the worker reports as done was done by the host, under the request
\* id of that call.
ReportedIsDone == \A id \in worker.done : \E k \in DOMAIN got : got[k].id = id

\* A call ends without any timer of its own: the host answers every request or
\* closes the connection.
CallsEnd == worker.call # None ~> worker.call = None
=============================================================================
