----------------------------- MODULE DeviceSessions -----------------------------
(***************************************************************************)
(* How a device gets onto the host and is put off it: the connection       *)
(* limiter, the stages of the handshake, pairing by a one-time secret,     *)
(* challenge and proof, the limiter of failed attempts, the session timers *)
(* of the business loop, the durable device registry and revocation.       *)
(* Every connection runs on its own thread; registry, challenge store and  *)
(* limiters each have a lock of their own, taken one at a time.            *)
(***************************************************************************)
EXTENDS Naturals, FiniteSets, Sequences

CONSTANTS
    Conns, Sources,     \* connection slots, source addresses
    Secrets, Devices,   \* pairing secrets, device identifiers
    MaxGlobal, MaxPreAuth, MaxPerSource, MaxPerDevice,   \* the limiter's limits
    FailureLimit, GlobalFailureLimit, FailureWindow,     \* of failed attempts
    StageTimeout, SessionLifetime, IdlePing, IdleClose,  \* in ticks
    MaxNow,             \* bound: the clock
    MaxAccepts,         \* bound: accepted connections
    MaxRestarts, MaxRevokes,  \* bounds
    Faults              \* how a registry commit may fail: "clean", "landed"

ASSUME SessionsAssumption ==
    /\ MaxGlobal \in Nat /\ MaxPreAuth \in Nat /\ MaxPerSource \in Nat /\ MaxPerDevice \in Nat
    /\ FailureLimit \in Nat \ {0} /\ GlobalFailureLimit \in Nat \ {0} /\ FailureWindow \in Nat
    /\ StageTimeout \in Nat /\ SessionLifetime \in Nat /\ IdlePing \in Nat /\ IdleClose \in Nat
    /\ MaxNow \in Nat /\ MaxAccepts \in Nat /\ MaxRestarts \in Nat /\ MaxRevokes \in Nat
    /\ Faults \subseteq {"clean", "landed"}
    /\ IsFiniteSet(Conns) /\ "none" \notin Sources /\ "none" \notin Devices

VARIABLES
    conn,        \* [Conns -> connection]: the thread's own state
    limiter,     \* [Conns -> entry or Free]: ConnectionLimiter.entries
    registry,    \* the registry in memory: [pairings, devices]
    disk,        \* the registry file
    challenges,  \* connections with an active challenge
    failures,    \* [Sources -> Seq(time)]
    global,      \* Seq(time): failures of all sources
    revoked,     \* the set live connections look at
    revoking,    \* devices durably revoked and not yet in that set
    told,        \* history: devices whose revocation was reported as done
    admitted,    \* history: the last operation the broker was given
    now, accepts, restarts, revokes

vars == <<conn, limiter, registry, disk, challenges, failures, global, revoked, revoking,
          told, admitted, now, accepts, restarts, revokes>>

None == "none"
Free == [source |-> None, device |-> None]
Idle == [stage |-> "free", source |-> None, device |-> None, known |-> FALSE,
         deadline |-> 0, expires |-> 0, last |-> 0, pinged |-> FALSE]
PreAuth == {"tls", "hello", "uacp", "auth", "proof"}
Session == {"top", "reading"}
Stages == {"free", "proved", "closing", "cancelled"} \cup PreAuth \cup Session

Unissued == [state |-> "unissued", expires |-> 0]
EmptyRegistry == [pairings |-> [s \in Secrets |-> Unissued],
                  devices |-> [d \in Devices |-> [state |-> "absent", by |-> None]]]
NothingAdmitted == [device |-> None, frame |-> None, revoked |-> FALSE, expired |-> FALSE]

Init ==
    /\ conn = [c \in Conns |-> Idle] /\ limiter = [c \in Conns |-> Free]
    /\ registry = EmptyRegistry /\ disk = EmptyRegistry
    /\ challenges = {}
    /\ failures = [s \in Sources |-> <<>>] /\ global = <<>>
    /\ revoked = {} /\ revoking = {} /\ told = {}
    /\ admitted = NothingAdmitted
    /\ now = 0 /\ accepts = 0 /\ restarts = 0 /\ revokes = 0

Tick ==
    /\ now < MaxNow /\ now' = now + 1
    /\ UNCHANGED <<conn, limiter, registry, disk, challenges, failures, global, revoked,
                   revoking, told, admitted, accepts, restarts, revokes>>

-----------------------------------------------------------------------------
(* The limiters *)

Entries == {c \in Conns : limiter[c] # Free}

Admits(source) ==
    /\ Cardinality(Entries) < MaxGlobal
    /\ Cardinality({c \in Entries : limiter[c].device = None}) < MaxPreAuth
    /\ Cardinality({c \in Entries : limiter[c].source = source}) < MaxPerSource

DeviceHasRoom(d) == Cardinality({c \in Entries : limiter[c].device = d}) < MaxPerDevice

Recent(times) == SelectSeq(times, LAMBDA t : now < t + FailureWindow)

\* Both windows are pruned before they are looked at.
MayTry(source) ==
    /\ Len(Recent(global)) < GlobalFailureLimit
    /\ Len(Recent(failures[source])) < FailureLimit

RecordFailure(source) ==
    /\ failures' = [failures EXCEPT ![source] = Append(Recent(@), now)]
    /\ global' = Append(Recent(global), now)

-----------------------------------------------------------------------------
(* Accepting and the stages before authentication *)

To(c, stage) == conn' = [conn EXCEPT ![c].stage = stage]

\* An accepted socket gets a thread if the limiter takes it, or is dropped.
SpawnConnection(c, source) ==
    /\ conn[c] = Idle /\ limiter[c] = Free
    /\ accepts < MaxAccepts /\ accepts' = accepts + 1
    /\ Admits(source)
    /\ limiter' = [limiter EXCEPT ![c] = [source |-> source, device |-> None]]
    /\ conn' = [conn EXCEPT ![c] = [Idle EXCEPT !.stage = "tls", !.source = source,
                                                !.deadline = now + StageTimeout]]
    /\ UNCHANGED <<registry, disk, challenges, failures, global, revoked, revoking, told,
                   admitted, now, restarts, revokes>>

Following == [tls |-> "hello", hello |-> "uacp", uacp |-> "auth"]

\* TLS, transport hello and protocol hello, each before its own deadline.
HandshakeStep(c) ==
    /\ conn[c].stage \in DOMAIN Following /\ now < conn[c].deadline
    /\ conn' = [conn EXCEPT ![c].stage = Following[conn[c].stage],
                            ![c].deadline = now + StageTimeout]
    /\ UNCHANGED <<limiter, registry, disk, challenges, failures, global, revoked, revoking,
                   told, admitted, now, accepts, restarts, revokes>>

\* A stage runs out of time, or the peer breaks it off: the thread returns.
HandshakeEnds(c) ==
    /\ conn[c].stage \in PreAuth /\ To(c, "closing")
    /\ UNCHANGED <<limiter, registry, disk, challenges, failures, global, revoked, revoking,
                   told, admitted, now, accepts, restarts, revokes>>

-----------------------------------------------------------------------------
(* The registry: every change is written to the file before it is kept *)

Commit(next) == disk' = next /\ registry' = next

\* A commit that reports an error may have replaced the file all the same.
CommitFails(next, how) ==
    /\ how \in Faults /\ UNCHANGED registry
    /\ disk' = IF how = "landed" THEN next ELSE disk

IssuePairing(s) ==
    /\ registry.pairings[s] = Unissued
    /\ Commit([registry EXCEPT !.pairings[s] = [state |-> "open", expires |-> now + StageTimeout]])
    /\ UNCHANGED <<conn, limiter, challenges, failures, global, revoked, revoking, told,
                   admitted, now, accepts, restarts, revokes>>

\* The secret is consumed and the device recorded in one commit.
Paired(s, d) ==
    [registry EXCEPT !.pairings[s].state = "consumed",
                     !.devices[d] = [state |-> "active", by |-> s]]

FreshDevice == CHOOSE d \in Devices : registry.devices[d].state = "absent"
SecretOpen(s) == registry.pairings[s].state = "open" /\ now < registry.pairings[s].expires

\* A PairRequest: too many failures close the connection; a secret that is not
\* open, or a commit that fails, is a failed attempt.
PairRequest(c, s) ==
    /\ conn[c].stage = "auth" /\ now < conn[c].deadline
    /\ \E d \in Devices : registry.devices[d].state = "absent"
    /\ LET source == conn[c].source
           d == FreshDevice
       IN  \/ /\ ~MayTry(source) /\ To(c, "closing")
              /\ UNCHANGED <<registry, disk, failures, global>>
           \/ /\ MayTry(source) /\ SecretOpen(s)
              /\ Commit(Paired(s, d))
              /\ conn' = [conn EXCEPT ![c].stage = "proved", ![c].device = d]
              /\ UNCHANGED <<failures, global>>
           \/ /\ MayTry(source) /\ ~SecretOpen(s)
              /\ RecordFailure(source) /\ To(c, "closing")
              /\ UNCHANGED <<registry, disk>>
           \/ /\ MayTry(source) /\ SecretOpen(s)
              /\ \E how \in Faults : CommitFails(Paired(s, d), how)
              /\ RecordFailure(source) /\ To(c, "closing")
    /\ UNCHANGED <<limiter, challenges, revoked, revoking, told, admitted, now, accepts,
                   restarts, revokes>>

Active(d) == registry.devices[d].state = "active"

\* A ChallengeRequest: the device's key is looked up now and used at the proof;
\* an unknown or revoked device gets a challenge all the same.
ChallengeRequest(c, d) ==
    /\ conn[c].stage = "auth" /\ now < conn[c].deadline
    /\ IF MayTry(conn[c].source)
       THEN /\ challenges' = challenges \cup {c}
            /\ conn' = [conn EXCEPT ![c].stage = "proof", ![c].device = d, ![c].known = Active(d)]
       ELSE To(c, "closing") /\ UNCHANGED challenges
    /\ UNCHANGED <<limiter, registry, disk, failures, global, revoked, revoking, told,
                   admitted, now, accepts, restarts, revokes>>

\* The proof: a frame that is not the proof leaves the challenge, anything else
\* consumes it; only a known device with a good signature gets on.
ChallengeProof(c, proof) ==
    /\ conn[c].stage = "proof" /\ now < conn[c].deadline
    /\ challenges' = IF proof = "other" THEN challenges ELSE challenges \ {c}
    /\ IF proof = "good" /\ conn[c].known
       THEN To(c, "proved") /\ UNCHANGED <<failures, global>>
       ELSE RecordFailure(conn[c].source) /\ To(c, "closing")
    /\ UNCHANGED <<limiter, registry, disk, revoked, revoking, told, admitted, now, accepts,
                   restarts, revokes>>

\* The connection is counted for its device and the session begins; writing
\* the answer may fail, and then nothing is cleared.
Authenticated(c) ==
    /\ conn[c].stage = "proved"
    /\ LET d == conn[c].device IN
       IF DeviceHasRoom(d)
       THEN /\ limiter' = [limiter EXCEPT ![c].device = d]
            /\ \/ /\ conn' = [conn EXCEPT ![c].stage = "top", ![c].expires = now + SessionLifetime,
                                          ![c].last = now, ![c].pinged = FALSE]
                  /\ failures' = [failures EXCEPT ![conn[c].source] = <<>>]
               \/ To(c, "closing") /\ UNCHANGED failures
       ELSE To(c, "closing") /\ UNCHANGED <<limiter, failures>>
    /\ UNCHANGED <<registry, disk, challenges, global, revoked, revoking, told, admitted, now,
                   accepts, restarts, revokes>>

-----------------------------------------------------------------------------
(* The business loop *)

\* The checks at the top of a pass: revocation, session expiry, idleness.
TopOf(c) ==
    IF conn[c].device \in revoked \/ now >= conn[c].expires THEN "closing"
    ELSE IF now >= conn[c].last + IdleClose THEN "closing"
    ELSE "reading"

\* Mutant: a pass never looks at the revoked devices.
LoopTopBlind(c) ==
    /\ conn[c].stage = "top" /\ To(c, "reading")
    /\ UNCHANGED <<limiter, registry, disk, challenges, failures, global, revoked, revoking,
                   told, admitted, now, accepts, restarts, revokes>>

LoopTop(c) ==
    /\ conn[c].stage = "top"
    /\ conn' = [conn EXCEPT ![c].stage = TopOf(c),
                            ![c].pinged = @ \/ (TopOf(c) = "reading" /\ now >= conn[c].last + IdlePing)]
    /\ UNCHANGED <<limiter, registry, disk, challenges, failures, global, revoked, revoking,
                   told, admitted, now, accepts, restarts, revokes>>

\* Mutant: the gateway trusts the authentication of the connection.
AuthorizeOnce(d) == TRUE

\* The gateway asks the registry, under its lock, for every operation.
Authorize(d) == Active(d)

Admitted(c, frame) ==
    [device |-> conn[c].device, frame |-> frame, revoked |-> conn[c].device \in told,
     expired |-> now >= conn[c].expires]

ControlInTime(c) == now < conn[c].expires

\* One frame is read.  A control frame is checked against the session and
\* counts as activity; a content frame is only matched with its header.
BusinessFrame(c, frame) ==
    /\ conn[c].stage = "reading"
    /\ LET open == frame = "content" \/ ControlInTime(c)
           reaches == open /\ frame \in {"operation", "content"}
       IN  /\ admitted' = IF reaches /\ Authorize(conn[c].device) THEN Admitted(c, frame) ELSE admitted
           /\ conn' = IF ~open \/ (reaches /\ ~Authorize(conn[c].device))
                      THEN [conn EXCEPT ![c].stage = "closing"]
                      ELSE IF frame = "content" THEN [conn EXCEPT ![c].stage = "top"]
                      ELSE [conn EXCEPT ![c].stage = "top", ![c].last = now, ![c].pinged = FALSE]
    /\ UNCHANGED <<limiter, registry, disk, challenges, failures, global, revoked, revoking,
                   told, now, accepts, restarts, revokes>>

\* The read times out, or the peer has gone.
NoFrame(c) ==
    /\ conn[c].stage = "reading"
    /\ \E stage \in {"top", "closing"} : To(c, stage)
    /\ UNCHANGED <<limiter, registry, disk, challenges, failures, global, revoked, revoking,
                   told, admitted, now, accepts, restarts, revokes>>

\* The thread has returned: its challenges are cancelled, then its entry goes.
CancelConnection(c) ==
    /\ conn[c].stage = "closing" /\ To(c, "cancelled")
    /\ challenges' = challenges \ {c}
    /\ UNCHANGED <<limiter, registry, disk, failures, global, revoked, revoking, told, admitted,
                   now, accepts, restarts, revokes>>

LimiterClose(c) ==
    /\ conn[c].stage = "cancelled"
    /\ conn' = [conn EXCEPT ![c] = Idle]
    /\ limiter' = [limiter EXCEPT ![c] = Free]
    /\ UNCHANGED <<registry, disk, challenges, failures, global, revoked, revoking, told,
                   admitted, now, accepts, restarts, revokes>>

-----------------------------------------------------------------------------
(* Revocation and restarts *)

Revoked(d) == [registry EXCEPT !.devices[d].state = "revoked"]

\* The revocation is committed under the registry's lock; a failed commit is
\* reported and nothing else happens.
RevokeDeviceDurable(d) ==
    /\ Active(d) /\ revokes < MaxRevokes /\ revokes' = revokes + 1
    /\ \/ /\ Commit(Revoked(d))
          /\ revoking' = revoking \cup {d} /\ told' = told \cup {d}
       \/ /\ \E how \in Faults : CommitFails(Revoked(d), how)
          /\ UNCHANGED <<revoking, told>>
    /\ UNCHANGED <<conn, limiter, challenges, failures, global, revoked, admitted, now, accepts,
                   restarts>>

DisconnectRevokedDevice(d) ==
    /\ d \in revoking
    /\ revoking' = revoking \ {d} /\ revoked' = revoked \cup {d}
    /\ UNCHANGED <<conn, limiter, registry, disk, challenges, failures, global, told, admitted,
                   now, accepts, restarts, revokes>>

\* The process ends and starts again: only the registry file is left.
Restart ==
    /\ restarts < MaxRestarts /\ restarts' = restarts + 1
    /\ registry' = disk
    /\ conn' = [c \in Conns |-> Idle] /\ limiter' = [c \in Conns |-> Free]
    /\ challenges' = {} /\ failures' = [s \in Sources |-> <<>>] /\ global' = <<>>
    /\ revoked' = {} /\ revoking' = {}
    /\ UNCHANGED <<disk, told, admitted, now, accepts, revokes>>

Next ==
    \/ Tick \/ Restart
    \/ \E s \in Secrets : IssuePairing(s)
    \/ \E d \in Devices : RevokeDeviceDurable(d) \/ DisconnectRevokedDevice(d)
    \/ \E c \in Conns :
          \/ \E source \in Sources : SpawnConnection(c, source)
          \/ HandshakeStep(c) \/ HandshakeEnds(c) \/ Authenticated(c)
          \/ \E s \in Secrets : PairRequest(c, s)
          \/ \E d \in Devices : ChallengeRequest(c, d)
          \/ \E proof \in {"good", "bad", "other"} : ChallengeProof(c, proof)
          \/ LoopTop(c) \/ NoFrame(c)
          \/ \E frame \in {"operation", "content", "ping"} : BusinessFrame(c, frame)
          \/ CancelConnection(c) \/ LimiterClose(c)

Spec == Init /\ [][Next]_vars

\* Threads run: a pass of the loop ends, a thread that returned is cleaned up,
\* a connection admitted by the registry is counted, and the host finishes a
\* revocation it has begun.  Nothing is assumed of the peer.
FairSpec ==
    /\ Spec
    /\ \A c \in Conns :
          /\ WF_vars(LoopTop(c)) /\ WF_vars(NoFrame(c)) /\ WF_vars(Authenticated(c))
          /\ WF_vars(CancelConnection(c)) /\ WF_vars(LimiterClose(c))
    /\ \A d \in Devices : WF_vars(DisconnectRevokedDevice(d))

-----------------------------------------------------------------------------
(* Properties *)

\* The limiter has an entry for exactly the connections whose thread runs, with
\* the device of an established session; an active challenge belongs to a
\* connection that is waiting for its proof or being closed (server.rs,
\* spawn_connection; auth.rs, cancel_connection).
TypeOK ==
    /\ \A c \in Conns :
          /\ conn[c].stage \in Stages
          /\ (limiter[c] = Free) = (conn[c].stage = "free")
          /\ conn[c].stage \in Session => limiter[c].device = conn[c].device
          /\ c \in challenges => conn[c].stage \in {"proof", "closing"}
    /\ registry.pairings \in [Secrets -> [state : {"unissued", "open", "consumed"}, expires : Nat]]
    /\ registry.devices \in [Devices -> [state : {"absent", "active", "revoked"},
                                         by : Secrets \cup {None}]]
    /\ revoking \subseteq Devices /\ revoked \subseteq Devices /\ told \subseteq Devices
    /\ now \in 0..MaxNow

\* The limits hold of the connections themselves at every moment, whatever the
\* order in which they were accepted, authenticated and closed (limits.rs).
LimitsHold ==
    LET open == {c \in Conns : conn[c].stage # "free"}
    IN  /\ Cardinality(open) <= MaxGlobal
        /\ Cardinality({c \in open : conn[c].stage \in PreAuth}) <= MaxPreAuth
        /\ \A s \in Sources : Cardinality({c \in open : conn[c].source = s}) <= MaxPerSource
        /\ \A d \in Devices :
              Cardinality({c \in open : conn[c].stage \in Session /\ conn[c].device = d}) <= MaxPerDevice

\* The check of failed attempts and their recording are apart, so attempts
\* that overlap can exceed the limit, but only by the connections one source
\* may have open (server.rs, AuthFailureLimiter).
FailuresBounded ==
    \A s \in Sources : Len(Recent(failures[s])) <= FailureLimit - 1 + MaxPerSource

\* No operation of a device reaches the broker after its revocation was
\* reported, although its connection is open until its next pass and its
\* key may have been looked up before (gateway.rs, authorize).
RevokedIsNeverServed == ~admitted.revoked

\* A revocation that was reported stays in the file and in memory through
\* restarts and later commits that fail (registry.rs, revoke_and_then).
RevocationSticks ==
    \A d \in told : disk.devices[d].state = "revoked" /\ registry.devices[d].state = "revoked"

\* A secret makes one device, though the process may end or the commit fail
\* between the request and its answer (registry.rs, pair_device).
OneDevicePerSecret ==
    \A d, e \in Devices :
       (registry.devices[d].by # None /\ registry.devices[d].by = registry.devices[e].by) => d = e

\* A control frame is never served at or after the end of its session, which
\* may come between the top of a pass and the read (limits.rs,
\* ensure_business_frame).
ControlWithinSession == ~(admitted.frame = "operation" /\ admitted.expired)

\* Every session of a revoked device ends (server.rs, business_loop).
RevokedSessionsEnd ==
    \A c \in Conns, d \in Devices :
       (d \in told /\ conn[c].stage \in Session /\ conn[c].device = d)
          ~> ~(conn[c].stage \in Session /\ conn[c].device = d)

\* "At session_expires_at_ms the host must first stop taking new business
\* frames" (TRANSPORT.md): no frame of an expired session reaches the broker.
NothingAfterExpiry == ~admitted.expired
=============================================================================
