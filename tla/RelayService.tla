---------------------------- MODULE RelayService ----------------------------
(***************************************************************************)
(* The Ubuntu service of the public route, with all its clients: control   *)
(* connections are admitted (ControlAdmission), each served by a thread of *)
(* its own that reads a frame, checks it against the hello and the request *)
(* ids, authorises it, passes the replay table, executes it on the durable *)
(* registry and writes the answer (main.rs, control.rs, registry.rs); the  *)
(* iroh relay asks the same registry which byte pipes to admit             *)
(* (admission.rs, iroh_server.rs).  The replay lock, the registry lock and *)
(* FCM are taken one after the other, so threads interleave between them.  *)
(* The admin token of a route is the route, the access token of a slot is  *)
(* the slot; Wrong stands for any other credential.                        *)
(***************************************************************************)
EXTENDS Integers, FiniteSets

CONSTANTS
    Routes, Slots, RouteOf,     \* RouteOf[s]: the route a slot belongs to
    Conns, Sources, Pipes,
    Kinds, Ops,                 \* requests and operation ids clients use
    OtherCreds,                 \* {} or {Wrong}: credentials that are not theirs
    Versions,                   \* versions clients say hello with
    IdSteps,                    \* {1}: conforming clients; 2 skips an id
    Issued,                     \* issued_at of the requests
    Skew,                       \* OPERATION_CLOCK_SKEW_MS, in ticks
    Capacity,                   \* REPLAY_CAPACITY
    MaxFrames,                  \* MAX_CONTROL_FRAMES_PER_CONNECTION
    MaxControl, PerSource,      \* MAX_CONTROL_CONNECTIONS and per source
    MaxGrants,                  \* MAX_GRANTS_PER_ROUTE
    RoutePipes, DevicePipes,    \* AdmissionLimits
    Ttl,                        \* presence TTL, in ticks
    MaxClock, MaxFaults, FaultKinds   \* {"clean", "landed", "restart"}

Absent == "none"
Wrong == "wrong"
Exact == "0.1.0"
Creds == Routes \cup Slots \cup {Wrong}
DeviceKinds == {"resolve", "push", "unpush"}
Fatal == {"malformed", "version"}

VARIABLES
    clock,   \* wall clock of the service
    mem,     \* RegistryState in memory
    disk,    \* the registry file
    here,    \* presence expiry per route, memory only; -1: none
    replay,  \* the replay table: set of [cred, op, seen]
    conn,    \* control connections and their threads
    lease,   \* ControlAdmissionState
    pipe,    \* admitted byte pipes: Absent, a route (host) or a slot (device)
    told,    \* history: what the answers so far say of each slot
    ran,     \* history: operations executed
    twice,   \* history: operations executed again
    faults

vars == <<clock, mem, disk, here, replay, conn, lease, pipe, told, ran, twice, faults>>

\* RegistryState::default() and the records it holds.
EmptyRegistry ==
    [admin |-> [r \in Routes |-> Absent], grants |-> {}, revoked |-> {},
     push |-> [s \in Slots |-> -1]]

NoRequest == [kind |-> Absent, r |-> Absent, s |-> Absent, cred |-> Absent, op |-> Absent, at |-> 0,
              version |-> Absent]

\* A fresh ControlConnection, its thread waiting for a frame.
Fresh(src) ==
    [pc |-> "read", src |-> src, hello |-> FALSE, last |-> 0, frames |-> 0, sent |-> 0,
     honest |-> TRUE, req |-> NoRequest, now |-> 0, replayed |-> FALSE, code |-> Absent,
     addr |-> -1]
Closed == [Fresh(Absent) EXCEPT !.pc = "closed"]

Init ==
    /\ clock = 0 /\ mem = EmptyRegistry /\ disk = EmptyRegistry
    /\ here = [r \in Routes |-> -1] /\ replay = {}
    /\ conn = [c \in Conns |-> Closed]
    /\ lease = [global |-> 0, source |-> [x \in Sources |-> 0]]
    /\ pipe = [p \in Pipes |-> Absent]
    /\ told = [s \in Slots |-> [grant |-> Absent, push |-> Absent]] /\ ran = {} /\ twice = {} /\ faults = 0

Fault(kind) == kind \in FaultKinds /\ faults < MaxFaults /\ faults' = faults + 1

(***************************************************************************)
(* Control connections: serve_control and ControlAdmission.                *)
(***************************************************************************)
MayAcquire(x) == lease.global < MaxControl /\ lease.source[x] < PerSource

AcceptConnection(c, x) ==
    /\ conn[c].pc = "closed" /\ MayAcquire(x)
    /\ lease' = [global |-> lease.global + 1, source |-> [lease.source EXCEPT ![x] = @ + 1]]
    /\ conn' = [conn EXCEPT ![c] = Fresh(x)]
    /\ UNCHANGED <<clock, mem, disk, here, replay, pipe, told, ran, twice, faults>>

\* Drop for ControlLease.
DropLease(x) ==
    lease' = [global |-> lease.global - 1, source |-> [lease.source EXCEPT ![x] = @ - 1]]

Close(c) == conn' = [conn EXCEPT ![c] = Closed] /\ DropLease(conn[c].src)

\* The peer goes away, is silent for ten seconds or sends a frame that
\* read_frame refuses: the thread ends without an answer.
ConnectionEnds(c) ==
    /\ conn[c].pc = "read" /\ Close(c)
    /\ UNCHANGED <<clock, mem, disk, here, replay, pipe, told, ran, twice, faults>>

(***************************************************************************)
(* One frame: ControlService::handle_inner.                                *)
(***************************************************************************)
Answers(c, code) == conn' = [conn EXCEPT ![c].pc = "write", ![c].code = code]

\* The frame is counted and its id becomes the last one, whatever follows.
Noted(c, k, id) ==
    [conn[c] EXCEPT !.frames = @ + 1, !.sent = id, !.honest = @ /\ k = 1,
                    !.last = IF id = @ + 1 THEN id ELSE @]

Hello(c, k, v) ==
    LET id == conn[c].sent + k
        n == [Noted(c, k, id) EXCEPT !.pc = "write", !.req = [NoRequest EXCEPT !.kind = "hello",
                                                                               !.version = v]]
    IN
    /\ conn[c].pc = "read"
    /\ conn' = [conn EXCEPT ![c] =
          CASE id # conn[c].last + 1 -> [n EXCEPT !.code = "malformed"]
            [] ~conn[c].hello /\ v # Exact -> [n EXCEPT !.code = "version", !.last = conn[c].last]
            [] ~conn[c].hello /\ v = Exact -> [n EXCEPT !.code = "ok", !.hello = TRUE, !.last = id]
            [] conn[c].hello -> [n EXCEPT !.code = "malformed"]]
    /\ UNCHANGED <<clock, mem, disk, here, replay, lease, pipe, told, ran, twice, faults>>

\* What a client may ask: credentials right or wrong, issued at any time.
Requests ==
    {[kind |-> k, r |-> RouteOf[s], s |-> s, cred |-> cred, op |-> op, at |-> at,
      version |-> Absent] :
        k \in Kinds, s \in Slots, cred \in Creds, op \in Ops, at \in Issued}

RightCred(q) == IF q.kind \in DeviceKinds THEN q.s ELSE q.r

Request(c, k, q) ==
    LET id == conn[c].sent + k
        n == [Noted(c, k, id) EXCEPT !.req = q, !.now = clock, !.replayed = FALSE]
    IN
    /\ conn[c].pc = "read" /\ q.cred \in {RightCred(q)} \cup OtherCreds
    /\ conn' = [conn EXCEPT ![c] =
          CASE id # conn[c].last + 1 -> [n EXCEPT !.pc = "write", !.code = "malformed"]
            [] id = conn[c].last + 1 /\ ~conn[c].hello ->
                 [n EXCEPT !.pc = "write", !.code = "version", !.last = conn[c].last]
            [] id = conn[c].last + 1 /\ conn[c].hello ->
                 [n EXCEPT !.pc = IF q.kind = "route" THEN "accept" ELSE "authorize"]]
    /\ UNCHANGED <<clock, mem, disk, here, replay, lease, pipe, told, ran, twice, faults>>

Granted(q) == q.s \in mem.grants /\ q.cred = q.s
Administers(q) == mem.admin[q.r] # Absent /\ mem.admin[q.r] = q.cred

Authorized(q) == IF q.kind \in DeviceKinds THEN Granted(q) ELSE Administers(q)

\* authorize_admin, authorize_device and the codes they are mapped to.
Authorize(c) ==
    LET q == conn[c].req IN
    /\ conn[c].pc = "authorize"
    /\ \/ Authorized(q) /\ conn' = [conn EXCEPT ![c].pc = "accept"]
       \/ /\ ~Authorized(q)
          /\ Answers(c, IF q.kind \in DeviceKinds THEN "route_unavailable"
                                                   ELSE "authentication_failed")
    /\ UNCHANGED <<clock, mem, disk, here, replay, lease, pipe, told, ran, twice, faults>>

Abs(n) == IF n < 0 THEN -n ELSE n

\* ReplayKey.  Operation ids are drawn at random for one request, so an id
\* never names two.
Key(q) == <<q.cred, q.kind, q.s, q.op>>

\* Mutant: an entry of the edge of the window is dropped.
RetainLess(now) == {e \in replay : now - e.seen < 2 * Skew}

\* OPERATION_REPLAY_WINDOW_MS is twice the skew.
Retain(now) == {e \in replay : now - e.seen <= 2 * Skew}

Full(window) == Cardinality(window) >= Capacity

\* accept_operation, under the replay lock; a replayed revocation goes on.
AcceptOperation(c) ==
    LET q == conn[c].req
        window == Retain(conn[c].now)
        seen == \E e \in window : e.key = Key(q)
    IN
    /\ conn[c].pc = "accept"
    /\ IF Abs(q.at - conn[c].now) > Skew
       THEN Answers(c, "expired") /\ UNCHANGED replay
       ELSE CASE seen /\ q.kind = "revoke" ->
                   /\ conn' = [conn EXCEPT ![c].pc = "execute", ![c].replayed = TRUE]
                   /\ replay' = window
              [] seen /\ q.kind # "revoke" -> Answers(c, "replay") /\ replay' = window
              [] ~seen /\ Full(window) -> Answers(c, "limit") /\ replay' = window
              [] ~seen /\ ~Full(window) ->
                   /\ conn' = [conn EXCEPT ![c].pc = "execute"]
                   /\ replay' = window \cup {[key |-> Key(q), seen |-> conn[c].now]}
    /\ UNCHANGED <<clock, mem, disk, here, lease, pipe, told, ran, twice, faults>>

(***************************************************************************)
(* Executing it: Registry, whose operations check the credential again.    *)
(***************************************************************************)
\* What each operation of the registry refuses a request with, or "ok".
RouteRefusal(q) ==
    IF mem.admin[q.r] \notin {Absent, q.cred} THEN "authentication_failed" ELSE "ok"

PresenceRefusal(q) == IF Administers(q) THEN "ok" ELSE "authentication_failed"

SlotsOf(r) == {s \in mem.grants \cup mem.revoked : RouteOf[s] = r}

GrantRefusal(q) ==
    CASE ~Administers(q) -> "authentication_failed"
      [] Administers(q) /\ q.s \in mem.revoked -> "revoked"
      [] Administers(q) /\ q.s \notin SlotsOf(q.r) /\ Cardinality(SlotsOf(q.r)) >= MaxGrants -> "limit"
      [] OTHER -> "ok"

RevokeRefusal(q, replayed) ==
    CASE ~Administers(q) -> "authentication_failed"
      [] Administers(q) /\ q.s \notin mem.grants /\ ~replayed -> "revoked"
      [] OTHER -> "ok"

PushRefusal(q) ==
    CASE q.at + Ttl <= clock -> "expired"
      [] q.at + Ttl > clock /\ ~Granted(q) -> "route_unavailable"
      [] OTHER -> "ok"

UnpushRefusal(q) == IF Granted(q) THEN "ok" ELSE "route_unavailable"

\* The presence is compared with the time the request was read at.
ResolveRefusal(q, now) ==
    IF Granted(q) /\ here[q.r] >= now THEN "ok" ELSE "route_unavailable"

WakeRefusal(q) ==
    IF Administers(q) /\ q.s \in mem.grants /\ mem.push[q.s] # -1 THEN "ok"
    ELSE "route_unavailable"

Refusal(c) ==
    LET q == conn[c].req IN
    CASE q.kind = "route" -> RouteRefusal(q)
      [] q.kind = "presence" -> PresenceRefusal(q)
      [] q.kind = "grant" -> GrantRefusal(q)
      [] q.kind = "revoke" -> RevokeRefusal(q, conn[c].replayed)
      [] q.kind = "push" -> PushRefusal(q)
      [] q.kind = "unpush" -> UnpushRefusal(q)
      [] q.kind = "resolve" -> ResolveRefusal(q, conn[c].now)
      [] q.kind = "wake" -> WakeRefusal(q)

\* The registry after the request: what commit writes and then installs.
Mutated(q) ==
    CASE q.kind = "route" -> [mem EXCEPT !.admin[q.r] = q.cred]
      [] q.kind = "grant" -> [mem EXCEPT !.grants = @ \cup {q.s}]
      [] q.kind = "revoke" -> [mem EXCEPT !.grants = @ \ {q.s}, !.revoked = @ \cup {q.s},
                                          !.push[q.s] = -1]
      [] q.kind = "push" -> [mem EXCEPT !.push[q.s] = q.at + Ttl]
      [] q.kind = "unpush" -> [mem EXCEPT !.push[q.s] = -1]
      [] q.kind = "presence" -> mem

\* What an answer to q lets its reader believe of the slot.
Heard(q, ok) ==
    CASE q.kind = "grant" -> [told EXCEPT ![q.s].grant = IF ok THEN "granted" ELSE Absent]
      [] q.kind = "revoke" -> [told EXCEPT ![q.s] = IF ok THEN [grant |-> "revoked", push |-> "gone"]
                                                          ELSE [grant |-> Absent, push |-> Absent]]
      [] q.kind = "push" -> [told EXCEPT ![q.s].push = IF ok THEN "there" ELSE Absent]
      [] q.kind = "unpush" -> [told EXCEPT ![q.s].push = IF ok THEN "gone" ELSE Absent]
      [] OTHER -> told

Ran(q) ==
    LET it == <<Key(q), q.at>> IN
    ran' = ran \cup {it} /\ twice' = IF it \in ran THEN twice \cup {it} ELSE twice

\* Mutant: memory is changed although the file could not be written.
CommitInMemory(c) ==
    LET q == conn[c].req IN
    \/ /\ disk' = Mutated(q) /\ mem' = Mutated(q) /\ told' = Heard(q, TRUE)
       /\ Answers(c, "ok") /\ UNCHANGED faults
    \/ /\ Fault("clean") /\ mem' = Mutated(q) /\ told' = Heard(q, TRUE)
       /\ Answers(c, "ok") /\ UNCHANGED disk

\* commit: write_state, then memory.  It may fail before the rename, or
\* after it (sync_parent), when the file is new and memory is not.
Commit(c) ==
    LET q == conn[c].req IN
    \/ /\ disk' = Mutated(q) /\ mem' = Mutated(q) /\ told' = Heard(q, TRUE)
       /\ Answers(c, "ok") /\ UNCHANGED faults
    \/ /\ Fault("clean") /\ told' = Heard(q, FALSE)
       /\ Answers(c, "internal") /\ UNCHANGED <<disk, mem>>
    \/ /\ Fault("landed") /\ disk' = Mutated(q) /\ told' = Heard(q, FALSE)
       /\ Answers(c, "internal") /\ UNCHANGED mem

Refused(c) ==
    /\ conn[c].pc = "execute" /\ Refusal(c) # "ok"
    /\ Answers(c, Refusal(c))
    /\ UNCHANGED <<clock, mem, disk, here, replay, lease, pipe, told, ran, twice, faults>>

\* A replayed revocation is acknowledged when there is no grant to revoke.
RevokedBefore(c) ==
    LET q == conn[c].req IN
    /\ conn[c].pc = "execute" /\ q.kind = "revoke" /\ Refusal(c) = "ok" /\ q.s \notin mem.grants
    /\ Answers(c, "ok")
    /\ told' = IF q.s \in mem.revoked THEN Heard(q, TRUE) ELSE told
    /\ UNCHANGED <<clock, mem, disk, here, replay, lease, pipe, ran, twice, faults>>

Execute(c) ==
    LET q == conn[c].req IN
    /\ conn[c].pc = "execute" /\ Refusal(c) = "ok"
    /\ q.kind \notin {"resolve", "wake"} /\ (q.kind = "revoke" => q.s \in mem.grants)
    /\ Commit(c)
    /\ IF conn'[c].code = "ok" THEN Ran(q) ELSE UNCHANGED <<ran, twice>>
    /\ here' = IF q.kind = "presence" /\ conn'[c].code = "ok"
               THEN [here EXCEPT ![q.r] = clock + Ttl] ELSE here
    /\ UNCHANGED <<clock, replay, lease, pipe>>

Resolve(c) ==
    /\ conn[c].pc = "execute" /\ conn[c].req.kind = "resolve" /\ Refusal(c) = "ok"
    /\ Answers(c, "ok") /\ Ran(conn[c].req)
    /\ UNCHANGED <<clock, mem, disk, here, replay, lease, pipe, told, faults>>

\* The address is read here and used when FCM is asked.
Wake(c) ==
    /\ conn[c].pc = "execute" /\ conn[c].req.kind = "wake" /\ Refusal(c) = "ok"
    /\ conn' = [conn EXCEPT ![c].pc = "fcm", ![c].addr = mem.push[conn[c].req.s]]
    /\ Ran(conn[c].req)
    /\ UNCHANGED <<clock, mem, disk, here, replay, lease, pipe, told, faults>>

\* FcmSender::send_wake and what its answer is turned into.
SendWake(c) ==
    /\ conn[c].pc = "fcm"
    /\ \/ conn[c].addr <= clock /\ Answers(c, "route_unavailable")
       \/ conn[c].addr > clock /\ \E code \in {"ok", "internal", "authentication_failed"} :
                                   Answers(c, code)
       \/ conn[c].addr > clock /\ conn' = [conn EXCEPT ![c].pc = "unregistered"]
    /\ UNCHANGED <<clock, mem, disk, here, replay, lease, pipe, told, ran, twice, faults>>

\* delete_push_for_service refuses a slot without a grant.
MayDeletePush(c) == conn[c].req.s \in mem.grants

\* delete_unregistered_push: its result is ignored.
DeleteUnregistered(c) ==
    LET s == conn[c].req.s
        new == [mem EXCEPT !.push[s] = -1]
    IN
    /\ conn[c].pc = "unregistered" /\ Answers(c, "route_unavailable")
    /\ \/ ~MayDeletePush(c) /\ UNCHANGED <<mem, disk, told, faults>>
       \/ /\ MayDeletePush(c) /\ mem' = new /\ disk' = new /\ UNCHANGED faults
          /\ told' = [told EXCEPT ![s].push = Absent]
       \/ /\ MayDeletePush(c) /\ Fault("landed") /\ disk' = new /\ UNCHANGED mem
          /\ told' = [told EXCEPT ![s].push = Absent]
    /\ UNCHANGED <<clock, here, replay, lease, pipe, ran, twice>>

(***************************************************************************)
(* The answer: write_frame at the service, accept_response at the client.  *)
(***************************************************************************)
\* A revocation that was answered ends the pipes of the slot.
WriteAnswer(c) ==
    LET n == conn[c] IN
    /\ n.pc = "write"
    /\ IF n.code \in Fatal \/ n.frames = MaxFrames
       THEN Close(c)
       ELSE conn' = [conn EXCEPT ![c].pc = "read", ![c].req = NoRequest, ![c].code = Absent,
                                 ![c].now = 0, ![c].replayed = FALSE, ![c].addr = -1]
            /\ UNCHANGED lease
    /\ pipe' = IF n.req.kind = "revoke" /\ n.code = "ok"
               THEN [p \in Pipes |-> IF pipe[p] = n.req.s THEN Absent ELSE pipe[p]] ELSE pipe
    /\ UNCHANGED <<clock, mem, disk, here, replay, told, ran, twice, faults>>

\* The peer is gone when the answer is written.
AnswerLost(c) ==
    /\ conn[c].pc = "write" /\ Close(c)
    /\ UNCHANGED <<clock, mem, disk, here, replay, pipe, told, ran, twice, faults>>

(***************************************************************************)
(* Byte pipes: IrohAccessControl and RelayAdmission.                       *)
(***************************************************************************)
RouteOfPrincipal(who) == IF who \in Routes THEN who ELSE RouteOf[who]
PipesOfRoute(r) == {p \in Pipes : pipe[p] # Absent /\ RouteOfPrincipal(pipe[p]) = r}
PipesOf(who) == {p \in Pipes : pipe[p] = who}

\* The limits of admit_inner; a host has none of its own.
RoomFor(who) ==
    /\ Cardinality(PipesOfRoute(RouteOfPrincipal(who))) < RoutePipes
    /\ who \in Slots => Cardinality(PipesOf(who)) < DevicePipes

\* authenticate_bearer: an admin token or the token of a live grant.
Bearer(who) == IF who \in Routes THEN mem.admin[who] = who ELSE who \in mem.grants

ConnectPipe(p, who) ==
    /\ pipe[p] = Absent /\ Bearer(who) /\ RoomFor(who)
    /\ pipe' = [pipe EXCEPT ![p] = who]
    /\ UNCHANGED <<clock, mem, disk, here, replay, conn, lease, told, ran, twice, faults>>

DisconnectPipe(p) ==
    /\ pipe[p] # Absent /\ pipe' = [pipe EXCEPT ![p] = Absent]
    /\ UNCHANGED <<clock, mem, disk, here, replay, conn, lease, told, ran, twice, faults>>

(***************************************************************************)
(* Time, and the end of a life of the service.                             *)
(***************************************************************************)
\* A thread reads the clock and takes the replay lock within one tick.
Tick ==
    /\ clock < MaxClock /\ clock' = clock + 1
    /\ \A c \in Conns : conn[c].pc \notin {"authorize", "accept"}
    /\ UNCHANGED <<mem, disk, here, replay, conn, lease, pipe, told, ran, twice, faults>>

\* validate_state, which open applies to the file.
Valid(state) ==
    /\ \A r \in Routes :
          Cardinality({s \in state.grants \cup state.revoked : RouteOf[s] = r}) <= MaxGrants
    /\ \A s \in Slots : state.push[s] # -1 => s \in state.grants /\ s \notin state.revoked

\* The process ends at any moment and is started again; Registry::open.
Restart ==
    /\ Fault("restart") /\ Valid(disk)
    /\ mem' = disk /\ here' = [r \in Routes |-> -1] /\ replay' = {}
    /\ conn' = [c \in Conns |-> Closed] /\ pipe' = [p \in Pipes |-> Absent]
    /\ lease' = [global |-> 0, source |-> [x \in Sources |-> 0]]
    /\ UNCHANGED <<clock, disk, told, ran, twice>>

ThreadStep(c) ==
    \/ Authorize(c) \/ AcceptOperation(c) \/ Refused(c) \/ RevokedBefore(c) \/ Execute(c)
    \/ Resolve(c) \/ Wake(c) \/ SendWake(c) \/ DeleteUnregistered(c) \/ WriteAnswer(c)

Next ==
    \/ \E c \in Conns, x \in Sources : AcceptConnection(c, x)
    \/ \E c \in Conns : ConnectionEnds(c) \/ AnswerLost(c) \/ ThreadStep(c)
    \/ \E c \in Conns, k \in IdSteps, v \in Versions : Hello(c, k, v)
    \/ \E c \in Conns, k \in IdSteps, q \in Requests : Request(c, k, q)
    \/ \E p \in Pipes : DisconnectPipe(p) \/ \E who \in Routes \cup Slots : ConnectPipe(p, who)
    \/ Tick \/ Restart

Spec == Init /\ [][Next]_vars

\* Threads run, and FCM answers; nothing is assumed of clients.
FairSpec == Spec /\ \A c \in Conns : WF_vars(ThreadStep(c))

(***************************************************************************)
(* Properties.                                                             *)
(***************************************************************************)
\* Types; the replay table never holds more than REPLAY_CAPACITY entries
\* (control.rs accept_operation refuses an operation when it is full).
TypeOK ==
    /\ clock \in 0 .. MaxClock /\ mem.grants \cap mem.revoked = {}
    /\ \A r \in Routes : mem.admin[r] \in Creds \cup {Absent} /\ here[r] \in -1 .. MaxClock + Ttl
    /\ Cardinality(replay) <= Capacity
    /\ \A c \in Conns : conn[c].frames \in 0 .. MaxFrames /\ conn[c].last <= conn[c].sent

\* A request, known by its credential, operation id and time of issue, is
\* executed at most once in a life of the service: the clock skew accepted
\* on both sides never outlasts the replay window (accept_operation),
\* whichever connections repeat the request.
ExecutedOnce == twice = {}

\* What the service acknowledged is what memory and the file say, whatever
\* commits failed since, and so what the service says after a restart
\* (Registry::commit): grants and revocations, push addresses set and gone.
AckedSurvives ==
    \A s \in Slots, state \in {mem, disk} :
        /\ told[s].grant = "granted" => s \in state.grants
        /\ told[s].grant = "revoked" => s \in state.revoked \ state.grants
        /\ told[s].push = "there" => state.push[s] # -1
        /\ told[s].push = "gone" => state.push[s] = -1

\* The file the service leaves behind at any moment is one that
\* Registry::open accepts (validate_state), so the service can come back.
FileOpens == Valid(disk)

\* Once a revocation was acknowledged no request of the slot succeeds, also
\* one that was authorised before it: the registry looks again.
RefusesRevoked(c) ==
    conn[c].pc = "execute" /\ conn[c].req.kind \in DeviceKinds \cup {"wake"}
        /\ told[conn[c].req.s].grant = "revoked"
        => conn'[c].code # "ok" /\ conn'[c].pc # "fcm"
RevokedIsRefused == [][\A c \in Conns : RefusesRevoked(c)]_vars

\* A client that says hello in the service's version and counts its requests
\* from 1 (RemoteControlClient) is never told that its frame is malformed:
\* refused operations leave the two ends at the same request id.
HonestIsUnderstood ==
    \A c \in Conns : conn[c].honest /\ conn[c].code = "malformed" =>
        conn[c].req.kind = "hello" /\ conn[c].sent > 1

\* The counters of ControlAdmission are the connections there are: no path
\* through a connection thread leaks a lease, and no source has more than
\* its share.
LeasesCount ==
    LET from(x) == {c \in Conns : conn[c].pc # "closed" /\ conn[c].src = x} IN
    /\ \A x \in Sources : lease.source[x] = Cardinality(from(x)) /\ lease.source[x] <= PerSource
    /\ lease.global = Cardinality({c \in Conns : conn[c].pc # "closed"})

\* No route and no device holds more pipes than AdmissionLimits gives it.
PipesBounded ==
    /\ \A r \in Routes : Cardinality(PipesOfRoute(r)) <= RoutePipes
    /\ \A s \in Slots : Cardinality(PipesOf(s)) <= DevicePipes

\* Every frame that was read is answered, or its connection ends.
EveryFrameEnds == \A c \in Conns : (conn[c].pc # "read") ~> (conn[c].pc \in {"read", "closed"})

\* TRANSPORT.md 10 accepts every version 0.1.x.
CompatibleVersionsServed ==
    \A c \in Conns : conn[c].req.kind = "hello" /\ conn[c].honest /\ conn[c].sent = 1
        => conn[c].code \notin Fatal
=============================================================================
