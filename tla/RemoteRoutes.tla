------------------------------ MODULE RemoteRoutes ------------------------------
(***************************************************************************)
(* The remote control plane: the host's durable slots and revoke outbox,   *)
(* the pinned session it keeps to the rendezvous service, the service's    *)
(* route registry with its replay window, the push address of a device and *)
(* the admission of devices to the relay.  A slot belongs to one device    *)
(* and its token is issued once, so a device stands for slot and token.    *)
(*                                                                         *)
(* On the host one main thread starts up and then runs the maintenance     *)
(* loop, and callers revoke, pair and wake; a mutex holds the control      *)
(* plane for as long as a request is out.  A request whose answer the host *)
(* gave up stays on its old connection and may be handled later.           *)
(***************************************************************************)
EXTENDS Naturals, Sequences, FiniteSets

CONSTANTS
    Devices, Callers,
    Main, None,      \* the main thread, nobody
    MaxSlots,        \* MAX_REMOTE_DEVICES and MAX_GRANTS_PER_ROUTE
    MaxWakes,        \* wakes per device and minute
    MaxFid,          \* bound: push identifiers of a device; 0 leaves push out
    MaxCalls,        \* bound: calls of revoke, pairing and wake
    MaxFaults,       \* bound: failures of connections, requests and commits
    MaxCrashes,      \* bound: host crashes
    MaxRelayRestarts,\* bound
    SlowRetries      \* may the replay window pass between two attempts?

ASSUME RoutesAssumption ==
    /\ MaxSlots \in Nat /\ MaxWakes \in Nat /\ MaxFid \in Nat /\ MaxCalls \in Nat
    /\ MaxFaults \in Nat /\ MaxCrashes \in Nat /\ MaxRelayRestarts \in Nat
    /\ SlowRetries \in BOOLEAN /\ Main \notin Callers

VARIABLES
    reg,        \* [Devices -> "active" | "revoked"]: the local registry, durable
    disk, mem,  \* [devices, outbox]: the control plane's file; [dev, outbox]: its state
    up,         \* "down" | "starting" | "serving"
    thr,        \* [Threads -> [at, d]]: where each host thread is
    lock,       \* who holds the control plane
    session,    \* "none" | "open" | "poisoned"
    wakes,      \* [Devices -> wakes sent in the last minute]
    wire,       \* requests on their way; live: the host still waits
    acts,       \* what the service's connection threads have yet to do
    reply,      \* the answer on its way to the host
    relay,      \* [routed, grants, revoked, push, presence]: the route registry
    replay,     \* operations in the replay window
    admitting, leases,  \* devices authorised by the relay; connected to it
    token,      \* devices that were given a pairing URI
    fid,        \* [Devices -> current push identifier]
    opened,     \* history: devices revoked when the host process opened its state
    ops, calls, faults, crashes, restarts

host == <<reg, disk, mem, up, thr, lock, session, wakes, token, opened, ops>>
service == <<relay, replay, admitting, leases, fid>>
bounds == <<calls, faults, crashes, restarts>>
vars == <<host, service, wire, acts, reply, bounds>>

Threads == Callers \cup {Main}
Idle == [at |-> "idle", d |-> None]
Waits == {"route", "revoke", "presence", "grant", "wake"}
Live == {"pending_grant", "registered"}
Statuses == Live \cup {"none", "revoke_pending", "revoked"}
Queued(state) == {state.outbox[i].d : i \in DOMAIN state.outbox}
Known(state) == {d \in Devices : state.dev[d] # "none"}

\* The file lists the known devices, each with its token while it has one.
StateToValue(state) ==
    [devices |-> {[device |-> d, token |-> state.dev[d] \in Live, status |-> state.dev[d]] :
                    d \in Known(state)},
     outbox |-> state.outbox]

\* One entry for each device, and a token exactly for the slots that may be used.
WellFormed(file) ==
    /\ \A a, b \in file.devices : a.device = b.device => a = b
    /\ \A a \in file.devices : a.token <=> a.status \in Live

Listed(file, d) == {a \in file.devices : a.device = d}

ParseState(file) ==
    [dev |-> [d \in Devices |-> IF Listed(file, d) = {} THEN "none"
                               ELSE (CHOOSE a \in Listed(file, d) : TRUE).status],
     outbox |-> file.outbox]

\* What the host asks of its state before it uses it.
ValidateState(state) ==
    /\ Cardinality(Known(state)) <= MaxSlots
    /\ \A i, j \in DOMAIN state.outbox : state.outbox[i].d = state.outbox[j].d => i = j
    /\ \A d \in Devices : (state.dev[d] = "revoke_pending") <=> (d \in Queued(state))

Init ==
    /\ reg = [d \in Devices |-> "active"]
    /\ mem = [dev |-> [d \in Devices |-> "none"], outbox |-> <<>>]
    /\ disk = StateToValue(mem)
    /\ up = "down" /\ thr = [t \in Threads |-> Idle] /\ lock = None /\ session = "none"
    /\ wakes = [d \in Devices |-> 0]
    /\ wire = {} /\ acts = {} /\ reply = None
    /\ relay = [routed |-> FALSE, grants |-> {}, revoked |-> {},
                push |-> [d \in Devices |-> 0], presence |-> FALSE]
    /\ replay = {} /\ admitting = {} /\ leases = {} /\ token = {}
    /\ fid = [d \in Devices |-> IF MaxFid > 0 THEN 1 ELSE 0]
    /\ opened = {} /\ ops = 0 /\ calls = 0 /\ faults = 0 /\ crashes = 0 /\ restarts = 0

Fault == faults < MaxFaults /\ faults' = faults + 1

-----------------------------------------------------------------------------
(* The session and one exchange on it *)

Goto(t, at, d) == thr' = [thr EXCEPT ![t] = [at |-> at, d |-> d]]

\* Nobody reads the answers of a connection the host has given up.
Abandon ==
    /\ wire' = {[w EXCEPT !.live = FALSE] : w \in wire}
    /\ acts' = {[a EXCEPT !.live = FALSE] : a \in acts}
    /\ reply' = None

\* ensure_session, then the request; a poisoned session sends nothing.
Send(t, at, d, op) ==
    /\ session \in {"none", "open"} /\ session' = "open"
    /\ wire' = wire \cup {[kind |-> at, d |-> d, op |-> op, live |-> TRUE]}
    /\ Goto(t, at, d)
    /\ UNCHANGED <<acts, reply>>

\* The request is not even sent: the session is poisoned, or none can be opened.
CannotSend ==
    \/ session = "poisoned" /\ UNCHANGED faults
    \/ session = "none" /\ Fault

\* An answer arrived, or none will: both poison the session unless it is the one expected.
Answer(t, code) ==
    /\ thr[t].at \in Waits
    /\ \/ code = reply /\ reply # None /\ UNCHANGED faults
       \/ code = "lost" /\ reply = None /\ Fault

Committed(new) == disk' = StateToValue(new) /\ mem' = new /\ UNCHANGED faults
\* A commit fails cleanly, or after the file was replaced.
CommitFails(new) == Fault /\ disk' \in {disk, StateToValue(new)} /\ UNCHANGED mem

\* Mutant: a failed flush or refresh keeps the session.
FailsPoisoned(t) ==
    /\ session' = IF up = "starting" THEN "none" ELSE "poisoned"
    /\ Abandon /\ lock' = None /\ thr' = [thr EXCEPT ![t] = Idle]
    /\ up' = IF t = Main /\ up = "starting" THEN "down" ELSE up

\* A failed flush or refresh drops the session; a start that fails shuts the host down.
Fails(t) ==
    /\ session' = "none" /\ Abandon /\ lock' = None /\ thr' = [thr EXCEPT ![t] = Idle]
    /\ up' = IF t = Main /\ up = "starting" THEN "down" ELSE up

\* Pairing and wake leave the poisoned session where it is.
FailsKeeping(t) ==
    /\ session' = IF session = "none" THEN "none" ELSE "poisoned"
    /\ Abandon /\ lock' = None /\ thr' = [thr EXCEPT ![t] = Idle] /\ UNCHANGED up

-----------------------------------------------------------------------------
(* Starting up *)

\* The state is opened and the route registered before the listener starts.
HostStart ==
    /\ up = "down" /\ lock = None
    /\ WellFormed(disk) /\ ValidateState(ParseState(disk))
    /\ up' = "starting" /\ lock' = Main /\ mem' = ParseState(disk)
    /\ session = "none" /\ Send(Main, "route", None, 0)
    /\ wakes' = [d \in Devices |-> 0]
    /\ opened' = {d \in Devices : reg[d] = "revoked"}
    /\ UNCHANGED <<reg, disk, token, ops, service, bounds>>

RouteAnswered ==
    /\ thr[Main].at = "route" /\ \E code \in {"ok", "error", "revoked", "lost"} :
         /\ Answer(Main, code)
         /\ IF code = "ok"
            THEN Goto(Main, "reconcile", None) /\ reply' = None
                 /\ UNCHANGED <<up, lock, session, wire, acts>>
            ELSE Fails(Main)
    /\ UNCHANGED <<reg, disk, mem, wakes, token, opened, ops, service, calls, crashes, restarts>>

Enqueued(d) ==
    [dev |-> [mem.dev EXCEPT ![d] = "revoke_pending"],
     outbox |-> Append(mem.outbox, [d |-> d, op |-> ops + 1])]

Unreconciled == {d \in Devices : reg[d] = "revoked" /\ mem.dev[d] \in Live}

\* Every locally revoked slot is queued, each by a commit of its own.
ReconcileLocalRevocations ==
    /\ thr[Main].at = "reconcile"
    /\ \/ \E d \in Unreconciled :
            /\ ops' = ops + 1
            /\ \/ Committed(Enqueued(d)) /\ UNCHANGED <<up, lock, session, thr, wire, acts, reply>>
               \/ CommitFails(Enqueued(d)) /\ Fails(Main)
       \/ /\ Unreconciled = {}
          /\ Goto(Main, "flush", None)
          /\ UNCHANGED <<disk, mem, up, lock, session, ops, wire, acts, reply, faults>>
    /\ UNCHANGED <<reg, wakes, token, opened, service, calls, crashes, restarts>>

-----------------------------------------------------------------------------
(* The outbox and the presence *)

Finish(t) ==
    /\ lock' = None /\ thr' = [thr EXCEPT ![t] = Idle]
    /\ up' = IF t = Main THEN "serving" ELSE up

\* The maintenance loop and, after it has queued its device, a revoking caller.
MainTop ==
    /\ up = "serving" /\ lock = None /\ thr[Main] = Idle
    /\ lock' = Main /\ Goto(Main, "flush", None)
    /\ UNCHANGED <<reg, disk, mem, up, session, wakes, token, opened, ops, service, wire, acts,
                   reply, bounds>>

FlushNextRevoke(t) ==
    /\ thr[t].at = "flush" /\ mem.outbox # <<>>
    /\ \/ Send(t, "revoke", Head(mem.outbox).d, Head(mem.outbox).op) /\ UNCHANGED <<up, lock, faults>>
       \/ CannotSend /\ Fails(t)
    /\ UNCHANGED <<reg, disk, mem, wakes, token, opened, ops, service, calls, crashes, restarts>>

Popped ==
    [dev |-> [mem.dev EXCEPT ![Head(mem.outbox).d] = "revoked"], outbox |-> Tail(mem.outbox)]

\* Mutant: any rejection counts as an acknowledgement.
AcknowledgesAny(code) == code \in {"ok", "revoked", "error"}

\* The acknowledgement, or the answer that there is no such grant.
Acknowledges(code) == code \in {"ok", "revoked"}

RevokeAnswered(t) ==
    /\ thr[t].at = "revoke" /\ \E code \in {"ok", "error", "revoked", "lost"} :
         \/ /\ Acknowledges(code) /\ Answer(t, code) /\ disk' = StateToValue(Popped) /\ mem' = Popped
            /\ Goto(t, "flush", thr[t].d) /\ reply' = None
            /\ session' = IF code = "ok" THEN "open" ELSE "poisoned"
            /\ UNCHANGED <<up, lock, wire, acts>>
         \/ /\ Acknowledges(code) /\ reply = code /\ CommitFails(Popped) /\ Fails(t)
         \/ ~Acknowledges(code) /\ Answer(t, code) /\ Fails(t) /\ UNCHANGED <<disk, mem>>
    /\ UNCHANGED <<reg, wakes, token, opened, ops, service, calls, crashes, restarts>>

\* With the outbox empty a caller is done and the main thread may refresh.
PresenceDue(t) == t = Main /\ thr[t].at = "flush" /\ mem.outbox = <<>>

RefreshPresence(t) ==
    /\ PresenceDue(t)
    /\ \/ Send(t, "presence", None, 0) /\ UNCHANGED <<up, lock, faults>>
       \/ CannotSend /\ Fails(t)
    /\ UNCHANGED <<reg, disk, mem, wakes, token, opened, ops, service, calls, crashes, restarts>>

\* A caller's flush is over, or the loop finds its refresh not due yet.
FlushDone(t) ==
    /\ thr[t].at = "flush" /\ mem.outbox = <<>> /\ up = "serving"
    /\ Finish(t)
    /\ UNCHANGED <<reg, disk, mem, session, wakes, token, opened, ops, service, wire, acts, reply,
                   bounds>>

PresenceAnswered ==
    /\ thr[Main].at = "presence" /\ \E code \in {"ok", "error", "revoked", "lost"} :
         /\ Answer(Main, code)
         /\ IF code = "ok"
            THEN Finish(Main) /\ reply' = None /\ UNCHANGED <<session, wire, acts>>
            ELSE Fails(Main)
    /\ UNCHANGED <<reg, disk, mem, wakes, token, opened, ops, service, calls, crashes, restarts>>

-----------------------------------------------------------------------------
(* The callers *)

Call(c) == up = "serving" /\ thr[c] = Idle /\ calls < MaxCalls /\ calls' = calls + 1

\* revoke_device: first the local registry, before the control plane is taken.
RevokeDevice(c, d) ==
    /\ Call(c)
    /\ reg' = [reg EXCEPT ![d] = "revoked"] /\ Goto(c, "enqueue", d)
    /\ UNCHANGED <<disk, mem, up, lock, session, wakes, token, opened, ops, service, wire, acts,
                   reply, faults, crashes, restarts>>

EnqueueRevoke(c) ==
    /\ thr[c].at = "enqueue" /\ lock = None
    /\ LET d == thr[c].d IN
       \/ \* UnknownDevice: the device has no slot
          /\ mem.dev[d] = "none" /\ thr' = [thr EXCEPT ![c] = Idle]
          /\ UNCHANGED <<disk, mem, lock, ops, faults>>
       \/ /\ mem.dev[d] \in {"revoke_pending", "revoked"} /\ lock' = c /\ Goto(c, "flush", d)
          /\ UNCHANGED <<disk, mem, ops, faults>>
       \/ /\ mem.dev[d] \in Live /\ ops' = ops + 1
          /\ \/ Committed(Enqueued(d)) /\ lock' = c /\ Goto(c, "flush", d)
             \/ CommitFails(Enqueued(d)) /\ UNCHANGED lock /\ thr' = [thr EXCEPT ![c] = Idle]
    /\ UNCHANGED <<reg, up, session, wakes, token, opened, service, wire, acts, reply, calls,
                   crashes, restarts>>

\* issue_remote_pairing_uri: the registry is asked before the control plane is taken.
IssueRemotePairing(c, d) ==
    /\ Call(c) /\ reg[d] = "active" /\ Goto(c, "issue", d)
    /\ UNCHANGED <<reg, disk, mem, up, lock, session, wakes, token, opened, ops, service, wire,
                   acts, reply, faults, crashes, restarts>>

\* The token is in the state for as long as the slot may be used.
ActiveCredential(state, d) == state.dev[d] \in Live

\* The operator is given the URI and passes it to the device.
PairingUri(state, d) == IF ActiveCredential(state, d) THEN token \cup {d} ELSE token

\* The slot is made durable, then the grant is asked for; a registered one is given out again.
RegisterDevice(c) ==
    /\ thr[c].at = "issue" /\ (lock = None \/ lock = c)
    /\ LET d == thr[c].d
           Slot == [mem EXCEPT !.dev[d] = "pending_grant"] IN
       \/ /\ mem.dev[d] = "none" /\ Cardinality(Known(mem)) < MaxSlots
          /\ \/ Committed(Slot) /\ lock' = c /\ UNCHANGED thr
             \/ CommitFails(Slot) /\ lock' = None /\ thr' = [thr EXCEPT ![c] = Idle]
          /\ UNCHANGED <<session, token, wire, acts, reply>>
       \/ /\ mem.dev[d] = "pending_grant"
          /\ \/ Send(c, "grant", d, 0) /\ lock' = c /\ UNCHANGED faults
             \/ CannotSend /\ lock' = None /\ thr' = [thr EXCEPT ![c] = Idle]
                /\ UNCHANGED <<session, wire, acts, reply>>
          /\ UNCHANGED <<disk, mem, token>>
       \/ /\ mem.dev[d] \in {"revoke_pending", "revoked", "registered"}
             \/ (mem.dev[d] = "none" /\ Cardinality(Known(mem)) >= MaxSlots)
          /\ token' = IF mem.dev[d] = "registered" THEN PairingUri(mem, d) ELSE token
          /\ lock' = None /\ thr' = [thr EXCEPT ![c] = Idle]
          /\ UNCHANGED <<disk, mem, session, wire, acts, reply, faults>>
    /\ UNCHANGED <<reg, up, wakes, opened, ops, service, calls, crashes, restarts>>

GrantAnswered(c) ==
    /\ thr[c].at = "grant"
    /\ LET Granted == [mem EXCEPT !.dev[thr[c].d] = "registered"] IN
       \E code \in {"ok", "error", "revoked", "lost"} :
         \/ /\ code = "ok" /\ Answer(c, code) /\ disk' = StateToValue(Granted) /\ mem' = Granted
            /\ Finish(c) /\ token' = PairingUri(Granted, thr[c].d)
            /\ reply' = None /\ UNCHANGED <<session, wire, acts>>
         \/ /\ code = "ok" /\ reply = code /\ CommitFails(Granted)
            /\ Finish(c) /\ reply' = None /\ UNCHANGED <<session, wire, acts, token>>
         \/ code # "ok" /\ Answer(c, code) /\ FailsKeeping(c) /\ UNCHANGED <<disk, mem, token>>
    /\ UNCHANGED <<reg, wakes, opened, ops, service, calls, crashes, restarts>>

\* The attempt counts against the window before it is made, but not when no session opens.
WakeDevice(c, d) ==
    /\ Call(c) /\ lock = None
    /\ mem.dev[d] = "registered" /\ wakes[d] < MaxWakes
    /\ \/ Send(c, "wake", d, 0) /\ lock' = c /\ UNCHANGED faults
       \/ CannotSend /\ UNCHANGED <<lock, thr, session, wire, acts, reply>>
    /\ wakes' = IF session = "none" /\ session' = "none" THEN wakes ELSE [wakes EXCEPT ![d] = @ + 1]
    /\ UNCHANGED <<reg, disk, mem, up, token, opened, ops, service, crashes, restarts>>

WakeAnswered(c) ==
    /\ thr[c].at = "wake" /\ \E code \in {"ok", "error", "revoked", "lost"} :
         /\ Answer(c, code)
         /\ IF code = "ok" THEN Finish(c) /\ reply' = None /\ UNCHANGED <<session, wire, acts>>
                           ELSE FailsKeeping(c)
    /\ UNCHANGED <<reg, disk, mem, wakes, token, opened, ops, service, calls, crashes, restarts>>

WakeWindowPasses(d) ==
    /\ wakes[d] > 0 /\ wakes' = [wakes EXCEPT ![d] = 0]
    /\ UNCHANGED <<reg, disk, mem, up, thr, lock, session, token, opened, ops, service, wire, acts,
                   reply, bounds>>

\* The service ends an idle control connection, and one that carried 16 frames.
ServiceCloses ==
    /\ session = "open" /\ lock = None /\ session' = "poisoned"
    /\ UNCHANGED <<reg, disk, mem, up, thr, lock, wakes, token, opened, ops, service, wire, acts,
                   reply, bounds>>

HostCrash ==
    /\ up # "down" /\ crashes < MaxCrashes /\ crashes' = crashes + 1
    /\ up' = "down" /\ thr' = [t \in Threads |-> Idle] /\ lock' = None /\ session' = "none"
    /\ mem' = ParseState(disk) /\ Abandon
    /\ UNCHANGED <<reg, disk, wakes, token, opened, ops, service, calls, faults, restarts>>

-----------------------------------------------------------------------------
(* The service *)

Written(w, code, disc) ==
    [do |-> "write", d |-> w.d, code |-> code, disc |-> disc, live |-> w.live, addr |-> 0]

DropGrant(d) == [relay EXCEPT !.grants = @ \ {d}, !.revoked = @ \cup {d}, !.push[d] = 0]

HandleRevoke(w) ==
    /\ replay' = replay \cup {w.op}
    /\ IF w.d \in relay.grants
       THEN relay' = DropGrant(w.d) /\ acts' = acts \cup {Written(w, "ok", TRUE)}
       ELSE /\ UNCHANGED relay
            /\ acts' = acts \cup {IF w.op \in replay THEN Written(w, "ok", TRUE)
                                                     ELSE Written(w, "revoked", FALSE)}

HandleGrant(w) ==
    /\ UNCHANGED replay
    /\ IF w.d \in relay.revoked
       THEN UNCHANGED relay /\ acts' = acts \cup {Written(w, "revoked", FALSE)}
       ELSE IF w.d \in relay.grants \/ Cardinality(relay.grants \cup relay.revoked) < MaxSlots
       THEN /\ relay' = [relay EXCEPT !.grants = @ \cup {w.d}]
            /\ acts' = acts \cup {Written(w, "ok", FALSE)}
       ELSE UNCHANGED relay /\ acts' = acts \cup {Written(w, "error", FALSE)}

\* The address is read here and used by the send that follows.
HandleWake(w) ==
    /\ UNCHANGED <<replay, relay>>
    /\ acts' = acts \cup
         {IF w.d \in relay.grants /\ relay.push[w.d] # 0
          THEN [Written(w, "ok", FALSE) EXCEPT !.do = "fcm", !.addr = relay.push[w.d]]
          ELSE Written(w, "error", FALSE)}

HandleRoute(w) ==
    /\ relay' = IF w.kind = "route" THEN [relay EXCEPT !.routed = TRUE]
                ELSE IF relay.routed THEN [relay EXCEPT !.presence = TRUE] ELSE relay
    /\ acts' = acts \cup {Written(w, IF relay'.routed THEN "ok" ELSE "error", FALSE)}
    /\ UNCHANGED replay

\* One request, registry commit included; the commit may fail.
ServiceHandles(w) ==
    /\ wire' = wire \ {w}
    /\ \/ /\ \/ w.kind = "revoke" /\ HandleRevoke(w)
             \/ w.kind = "grant" /\ HandleGrant(w)
             \/ w.kind = "wake" /\ HandleWake(w)
             \/ w.kind \in {"route", "presence"} /\ HandleRoute(w)
          /\ UNCHANGED faults
       \/ /\ w.kind # "wake" /\ Fault /\ UNCHANGED relay
          /\ replay' = IF w.kind = "revoke" THEN replay \cup {w.op} ELSE replay
          /\ acts' = acts \cup {Written(w, "error", FALSE)}
    /\ UNCHANGED <<host, admitting, leases, fid, reply, calls, crashes, restarts>>

\* The answer is written, and only then are the device's relay connections closed.
ServiceWrites(a) ==
    /\ a.do = "write"
    /\ \/ /\ reply' = IF a.live THEN a.code ELSE reply
          /\ acts' = (acts \ {a}) \cup
                     IF a.disc THEN {[a EXCEPT !.do = "disc", !.live = FALSE]} ELSE {}
          /\ UNCHANGED faults
       \/ \* the write fails: the thread ends here
          /\ reply' = IF a.live THEN "lost" ELSE reply
          /\ Fault /\ acts' = acts \ {a}
    /\ UNCHANGED <<host, service, wire, calls, crashes, restarts>>

ServiceDisconnects(a) ==
    /\ a.do = "disc" /\ acts' = acts \ {a}
    /\ leases' = leases \ {a.d}
    /\ UNCHANGED <<host, relay, replay, admitting, fid, wire, reply, bounds>>

\* FCM takes the message, knows the address no longer, or fails.
SendWake(a) ==
    /\ a.do = "fcm"
    /\ \/ /\ acts' = (acts \ {a}) \cup {[a EXCEPT !.do = "write", !.addr = 0]}
          /\ UNCHANGED <<relay, faults>>
       \/ /\ a.addr # fid[a.d]
          /\ relay' = IF a.d \in relay.grants THEN [relay EXCEPT !.push[a.d] = 0] ELSE relay
          /\ acts' = (acts \ {a}) \cup {[a EXCEPT !.do = "write", !.addr = 0, !.code = "error"]}
          /\ UNCHANGED faults
       \/ /\ Fault /\ UNCHANGED relay
          /\ acts' = (acts \ {a}) \cup {[a EXCEPT !.do = "write", !.addr = 0, !.code = "error"]}
    /\ UNCHANGED <<host, replay, admitting, leases, fid, wire, reply, calls, crashes, restarts>>

PresenceExpires ==
    /\ relay.presence /\ relay' = [relay EXCEPT !.presence = FALSE]
    /\ UNCHANGED <<host, replay, admitting, leases, fid, wire, acts, reply, bounds>>

ReplayWindowPasses ==
    /\ SlowRetries /\ replay # {} /\ replay' = {}
    /\ UNCHANGED <<host, relay, admitting, leases, fid, wire, acts, reply, bounds>>

\* Routes, grants and addresses are durable; presence, replay window and leases are not.
RelayRestart ==
    /\ restarts < MaxRelayRestarts /\ restarts' = restarts + 1
    /\ relay' = [relay EXCEPT !.presence = FALSE]
    /\ replay' = {} /\ admitting' = {} /\ leases' = {} /\ wire' = {} /\ acts' = {}
    /\ session' = IF session = "open" THEN "poisoned" ELSE session
    /\ reply' = IF reply = None /\ \E t \in Threads : thr[t].at \in Waits THEN "lost" ELSE reply
    /\ UNCHANGED <<reg, disk, mem, up, thr, lock, wakes, token, opened, ops, fid, calls, faults,
                   crashes>>

-----------------------------------------------------------------------------
(* A device that holds its pairing URI *)

\* resolve, then the bearer is looked up; the lease is entered by a later step.
DeviceAdmitted(d) ==
    /\ d \in token \cap relay.grants /\ relay.presence /\ d \notin admitting \cup leases
    /\ admitting' = admitting \cup {d}
    /\ UNCHANGED <<host, relay, replay, leases, fid, wire, acts, reply, bounds>>

DeviceLeased(d) ==
    /\ d \in admitting /\ admitting' = admitting \ {d} /\ leases' = leases \cup {d}
    /\ UNCHANGED <<host, relay, replay, fid, wire, acts, reply, bounds>>

DeviceLeaves(d) ==
    /\ d \in leases /\ leases' = leases \ {d}
    /\ UNCHANGED <<host, relay, replay, admitting, fid, wire, acts, reply, bounds>>

ReplacePush(d) ==
    /\ fid[d] > 0 /\ d \in token \cap relay.grants
    /\ relay' = [relay EXCEPT !.push[d] = fid[d]]
    /\ UNCHANGED <<host, replay, admitting, leases, fid, wire, acts, reply, bounds>>

DeletePush(d) ==
    /\ d \in token \cap relay.grants /\ relay.push[d] # 0
    /\ relay' = [relay EXCEPT !.push[d] = 0]
    /\ UNCHANGED <<host, replay, admitting, leases, fid, wire, acts, reply, bounds>>

\* The platform gives the app a new identifier; the old one is no longer registered.
NewFid(d) ==
    /\ fid[d] > 0 /\ fid[d] < MaxFid /\ fid' = [fid EXCEPT ![d] = @ + 1]
    /\ UNCHANGED <<host, relay, replay, admitting, leases, wire, acts, reply, bounds>>

-----------------------------------------------------------------------------
HostMain ==
    \/ HostStart \/ RouteAnswered \/ ReconcileLocalRevocations \/ MainTop \/ PresenceAnswered
    \/ RefreshPresence(Main)
    \/ \E t \in Threads : FlushNextRevoke(t) \/ RevokeAnswered(t) \/ FlushDone(t)
    \/ \E c \in Callers : EnqueueRevoke(c) \/ RegisterDevice(c) \/ GrantAnswered(c)
                          \/ WakeAnswered(c)

Service ==
    \/ \E w \in wire : ServiceHandles(w)
    \/ \E a \in acts : ServiceWrites(a) \/ ServiceDisconnects(a) \/ SendWake(a)

Next ==
    \/ HostMain \/ Service
    \/ \E c \in Callers, d \in Devices :
         RevokeDevice(c, d) \/ IssueRemotePairing(c, d) \/ WakeDevice(c, d)
    \/ \E d \in Devices : WakeWindowPasses(d) \/ DeviceAdmitted(d) \/ DeviceLeased(d)
                          \/ DeviceLeaves(d) \/ ReplacePush(d) \/ DeletePush(d) \/ NewFid(d)
    \/ ServiceCloses \/ HostCrash \/ PresenceExpires \/ ReplayWindowPasses \/ RelayRestart

Spec == Init /\ [][Next]_vars

\* The host is restarted when it is down, its threads run and requests are handled.
FairSpec ==
    /\ Spec /\ WF_vars(HostStart) /\ WF_vars(RouteAnswered) /\ WF_vars(ReconcileLocalRevocations)
    /\ WF_vars(MainTop) /\ WF_vars(PresenceAnswered) /\ WF_vars(RefreshPresence(Main))
    /\ \A t \in Threads : WF_vars(FlushNextRevoke(t)) /\ WF_vars(RevokeAnswered(t))
                          /\ WF_vars(FlushDone(t))
    /\ \A c \in Callers : WF_vars(EnqueueRevoke(c)) /\ WF_vars(RegisterDevice(c))
                          /\ WF_vars(GrantAnswered(c)) /\ WF_vars(WakeAnswered(c))
    /\ WF_vars(Service)

-----------------------------------------------------------------------------
(* Properties *)

\* Types, and what both processes ask of their files when they open them: a slot is
\* queued exactly while its revocation is pending (remote_control.rs validate_state), and
\* a push address belongs to a grant that was not revoked (registry.rs validate_state).
TypeOK ==
    /\ reg \in [Devices -> {"active", "revoked"}]
    /\ mem.dev \in [Devices -> Statuses] /\ ParseState(disk).dev \in [Devices -> Statuses]
    /\ up \in {"down", "starting", "serving"} /\ lock \in Threads \cup {None}
    /\ session \in {"none", "open", "poisoned"}
    /\ ValidateState(mem) /\ WellFormed(disk) /\ ValidateState(ParseState(disk))
    /\ relay.grants \cap relay.revoked = {}
    /\ \A d \in Devices : relay.push[d] # 0 => d \in relay.grants

\* When a starting host asks for its presence, no device that was revoked locally before
\* the process started can be resolved, whatever point the previous process died at.
PresenceAfterReconcile ==
    (up = "starting" /\ thr[Main].at = "presence") => opened \cap token \cap relay.grants = {}

\* A slot the host has written off as revoked is one no device can use: neither a lost
\* answer, nor a retry, nor a request that arrives late brings a given token back.
RevokedIsUngranted == \A d \in token : mem.dev[d] = "revoked" => d \notin relay.grants

\* The same of the registry itself: the service holds no grant for a revoked slot.
RevokedHasNoGrant == \A d \in Devices : mem.dev[d] = "revoked" => d \notin relay.grants

\* A serving host has queued the slot of every device it revoked, or is about to.
RevokedIsQueued ==
    \A d \in Devices :
        (up = "serving" /\ reg[d] = "revoked" /\ mem.dev[d] \in Live) =>
            \E c \in Callers : thr[c] = [at |-> "enqueue", d |-> d]

\* Once the host has its acknowledgement and the service has nothing left to do, the
\* device has no connection to the relay.
RevokedIsDisconnected ==
    (wire = {} /\ acts = {} /\ admitting = {}) =>
        \A d \in leases : mem.dev[d] # "revoked"

\* The address a device has just registered goes only when the device deletes it or the
\* slot is revoked: an answer about an address it replaced does not remove it.
FreshAddressKept ==
    [][\A d \in Devices :
         (relay.push[d] = fid[d] /\ relay'.push[d] = 0 /\ \E a \in acts : a.do = "fcm" /\ a \notin acts')
            => d \notin relay'.grants]_vars

\* A queued revocation is acknowledged in the end, across a restart of the host and
\* whatever answer was lost, and the grant of the device is gone then.
RevocationReachesRelay ==
    \A d \in Devices : (d \in Queued(mem)) ~> (mem.dev[d] = "revoked" /\ d \notin relay.grants \cap token)

\* A host that is down serves again, whatever its outbox and the service hold.
RestartServes == (up = "down") ~> (up = "serving")
=============================================================================
