------------------------ MODULE DeviceSessionsProofs ------------------------
(***************************************************************************)
(* Proofs about DeviceSessions, for any sets of connections, sources,      *)
(* devices and secrets: a revocation that was reported is never undone and *)
(* never served past, a secret makes one device, and the limiter's limits  *)
(* bound the connections themselves.                                       *)
(*                                                                         *)
(* The registry and the door are independent.  RegInv is about the file,   *)
(* the registry in memory and what was reported.  Doors ties every entry   *)
(* of the limiter to the thread it counts, and Counts bounds the entries.  *)
(***************************************************************************)
EXTENDS DeviceSessions, FiniteSetTheorems, TLAPS

PairingSet == [state : {"unissued", "open", "consumed"}, expires : Nat]
RecordSet == [state : {"absent", "active", "revoked"}, by : Secrets \cup {None}]
RegistrySet == [pairings : [Secrets -> PairingSet], devices : [Devices -> RecordSet]]

\* A device was made by a secret that is consumed, and by no other's.
Sound(R) ==
    /\ R \in RegistrySet
    /\ \A d \in Devices : R.devices[d].by # None => R.pairings[R.devices[d].by].state = "consumed"
    /\ \A d, e \in Devices : (R.devices[d].by # None /\ R.devices[d].by = R.devices[e].by) => d = e

\* The file may be ahead of memory after a commit that failed; both are sound, and
\* both have every revocation that was reported.
RegInv ==
    /\ Sound(registry) /\ Sound(disk)
    /\ told \subseteq Devices
    /\ RevocationSticks /\ RevokedIsNeverServed

Bounds ==
    /\ now \in 0..MaxNow /\ revoking \subseteq Devices /\ revoked \subseteq Devices

-----------------------------------------------------------------------------
(* The registry's changes. *)

\* Issuing a secret leaves the devices alone.
LEMMA IssueSound ==
  ASSUME NEW R, Sound(R), NEW s \in Secrets, R.pairings[s] = Unissued, NEW t \in Nat
  PROVE  LET N == [R EXCEPT !.pairings[s] = [state |-> "open", expires |-> t]]
         IN  Sound(N) /\ N.devices = R.devices
<1> DEFINE N == [R EXCEPT !.pairings[s] = [state |-> "open", expires |-> t]]
           P == [R.pairings EXCEPT ![s] = [state |-> "open", expires |-> t]]
<1>1. R \in RegistrySet /\ R.pairings \in [Secrets -> PairingSet] /\ R.devices \in [Devices -> RecordSet]
  BY DEF Sound, RegistrySet
<1>2. N.pairings = P /\ N.devices = R.devices /\ N = [pairings |-> P, devices |-> R.devices]
  BY <1>1 DEF RegistrySet
<1>3. /\ P \in [Secrets -> PairingSet]
      /\ \A x \in Secrets : R.pairings[x].state = "consumed" => P[x].state = "consumed"
  BY <1>1 DEF PairingSet, Unissued
<1>4. ASSUME NEW d \in Devices, R.devices[d].by # None
      PROVE  P[R.devices[d].by].state = "consumed"
  BY <1>1, <1>3, <1>4 DEF Sound, RecordSet
<1> HIDE DEF P, N
<1>5. N \in RegistrySet
  BY <1>1, <1>2, <1>3 DEF RegistrySet
<1>6. Sound(N)
  BY <1>2, <1>4, <1>5 DEF Sound
<1>7. QED
  BY <1>2, <1>6 DEF N

\* A secret that is open has made no device yet, and makes this one.
LEMMA PairSound ==
  ASSUME Sound(registry), NEW s \in Secrets, registry.pairings[s].state = "open",
         NEW d \in Devices, registry.devices[d].state = "absent"
  PROVE  /\ Sound(Paired(s, d))
         /\ \A e \in Devices : registry.devices[e].state = "revoked" => Paired(s, d).devices[e].state = "revoked"
<1> DEFINE N == Paired(s, d)
           P == [registry.pairings EXCEPT ![s].state = "consumed"]
           D == [registry.devices EXCEPT ![d] = [state |-> "active", by |-> s]]
<1>1. /\ registry \in RegistrySet /\ registry.pairings \in [Secrets -> PairingSet]
      /\ registry.devices \in [Devices -> RecordSet]
  BY DEF Sound, RegistrySet
<1>2. N.pairings = P /\ N.devices = D /\ N = [pairings |-> P, devices |-> D]
  <2> DEFINE M == [registry EXCEPT !.pairings[s].state = "consumed"]
  <2>1. M = [pairings |-> P, devices |-> registry.devices]
    BY <1>1 DEF RegistrySet
  <2>2. N = [M EXCEPT !.devices[d] = [state |-> "active", by |-> s]]
    BY DEF Paired
  <2> HIDE DEF M, N, P
  <2>3. QED
    BY <2>1, <2>2
<1>3. /\ P \in [Secrets -> PairingSet] /\ P[s].state = "consumed"
      /\ \A x \in Secrets : registry.pairings[x].state = "consumed" => P[x].state = "consumed"
  BY <1>1 DEF PairingSet
<1>4. /\ D \in [Devices -> RecordSet] /\ D[d].by = s /\ D[d].state = "active"
      /\ \A e \in Devices : e # d => D[e] = registry.devices[e]
  BY <1>1 DEF RecordSet
<1>5. \A e \in Devices : registry.devices[e].by # s \/ s = None
  BY DEF Sound
<1>6. \A e \in Devices : registry.devices[e].by \in Secrets \cup {None}
  BY <1>1 DEF RecordSet
<1> HIDE DEF P, D, N
<1>7. ASSUME NEW e \in Devices, D[e].by # None PROVE P[D[e].by].state = "consumed"
  <2>1. CASE e = d
    BY <1>3, <1>4, <2>1
  <2>2. CASE e # d
    <3>1. D[e].by \in Secrets /\ registry.pairings[D[e].by].state = "consumed"
      BY <1>4, <1>6, <1>7, <2>2 DEF Sound
    <3>2. QED
      BY <1>3, <3>1
  <2>3. QED
    BY <2>1, <2>2
<1>8. ASSUME NEW e \in Devices, NEW f \in Devices, D[e].by # None, D[e].by = D[f].by
      PROVE  e = f
  <2>1. CASE e = d \/ f = d
    BY <1>4, <1>5, <1>8, <2>1
  <2>2. CASE e # d /\ f # d
    BY <1>4, <1>8, <2>2 DEF Sound
  <2>3. QED
    BY <2>1, <2>2
<1>9. N \in RegistrySet
  BY <1>2, <1>3, <1>4 DEF RegistrySet
<1>10. Sound(N)
  BY <1>2, <1>7, <1>8, <1>9 DEF Sound
<1>11. \A e \in Devices : registry.devices[e].state = "revoked" => N.devices[e].state = "revoked"
  BY <1>2, <1>4
<1>12. QED
  BY <1>10, <1>11 DEF N

\* A revocation changes the state of one device only.
LEMMA RevokeSound ==
  ASSUME NEW R, Sound(R), NEW d \in Devices
  PROVE  LET N == [R EXCEPT !.devices[d].state = "revoked"]
         IN  /\ Sound(N) /\ N.devices[d].state = "revoked"
             /\ \A e \in Devices : R.devices[e].state = "revoked" => N.devices[e].state = "revoked"
<1> DEFINE N == [R EXCEPT !.devices[d].state = "revoked"]
           D == [R.devices EXCEPT ![d].state = "revoked"]
<1>1. R \in RegistrySet /\ R.pairings \in [Secrets -> PairingSet] /\ R.devices \in [Devices -> RecordSet]
  BY DEF Sound, RegistrySet
<1>2. N.pairings = R.pairings /\ N.devices = D /\ N = [pairings |-> R.pairings, devices |-> D]
  BY <1>1 DEF RegistrySet
<1>3. /\ D \in [Devices -> RecordSet] /\ D[d].state = "revoked"
      /\ \A e \in Devices : D[e].by = R.devices[e].by
      /\ \A e \in Devices : e # d => D[e] = R.devices[e]
  BY <1>1 DEF RecordSet
<1> HIDE DEF D, N
<1>4. N \in RegistrySet
  BY <1>1, <1>2, <1>3 DEF RegistrySet
<1>5. Sound(N)
  BY <1>2, <1>3, <1>4 DEF Sound
<1>6. \A e \in Devices : R.devices[e].state = "revoked" => N.devices[e].state = "revoked"
  BY <1>2, <1>3
<1>7. QED
  BY <1>2, <1>3, <1>5, <1>6 DEF N

\* A commit, whether it is reported or not, loses no revocation.
LEMMA CommitStep ==
  ASSUME RegInv, NEW N, Sound(N),
         \A e \in Devices : registry.devices[e].state = "revoked" => N.devices[e].state = "revoked",
         registry' = registry \/ registry' = N, disk' = disk \/ disk' = N,
         \A e \in told' : e \in told \/ (/\ e \in Devices /\ N.devices[e].state = "revoked"
                                        /\ registry' = N /\ disk' = N),
         admitted' = admitted
  PROVE  RegInv'
<1>1. /\ Sound(registry) /\ Sound(disk) /\ told \subseteq Devices
      /\ RevocationSticks /\ RevokedIsNeverServed
  BY DEF RegInv
<1>2. Sound(registry)'
  BY <1>1 DEF Sound
<1>3. Sound(disk)'
  BY <1>1 DEF Sound
<1>4. told' \subseteq Devices
  BY <1>1
<1>5. ASSUME NEW e \in told'
      PROVE  disk'.devices[e].state = "revoked" /\ registry'.devices[e].state = "revoked"
  <2>1. CASE e \in told
    BY <1>1, <2>1 DEF RevocationSticks
  <2>2. CASE e \notin told
    BY <1>5, <2>2
  <2>3. QED
    BY <2>1, <2>2
<1>6. RevocationSticks' /\ RevokedIsNeverServed'
  BY <1>1, <1>5 DEF RevocationSticks, RevokedIsNeverServed
<1>7. QED
  BY <1>2, <1>3, <1>4, <1>6 DEF RegInv

\* Steps that leave the registry alone.
LEMMA RegistryFrame ==
  ASSUME RegInv, UNCHANGED <<registry, disk, told, admitted>>
  PROVE  RegInv'
<1>1. Sound(registry)' /\ Sound(disk)'
  BY DEF RegInv, Sound
<1>2. QED
  BY <1>1 DEF RegInv, RevocationSticks, RevokedIsNeverServed

LEMMA InitReg == Init => RegInv
<1> SUFFICES ASSUME Init PROVE RegInv
  OBVIOUS
<1>1. EmptyRegistry \in RegistrySet
  BY DEF EmptyRegistry, RegistrySet, PairingSet, RecordSet, Unissued
<1>2. \A d \in Devices : EmptyRegistry.devices[d].by = None
  BY DEF EmptyRegistry
<1>3. Sound(EmptyRegistry)
  BY <1>1, <1>2 DEF Sound
<1>4. registry = EmptyRegistry /\ disk = EmptyRegistry /\ told = {} /\ admitted = NothingAdmitted
  BY DEF Init
<1>5. ~NothingAdmitted.revoked
  BY DEF NothingAdmitted
<1>6. QED
  BY <1>3, <1>4, <1>5 DEF RegInv, RevocationSticks, RevokedIsNeverServed

LEMMA IssuePairingReg ==
  ASSUME Bounds, RegInv, NEW s \in Secrets, IssuePairing(s)
  PROVE  RegInv'
<1> DEFINE N == [registry EXCEPT !.pairings[s] = [state |-> "open", expires |-> now + StageTimeout]]
<1>1. registry' = N /\ disk' = N /\ registry.pairings[s] = Unissued /\ UNCHANGED <<told, admitted>>
  BY DEF IssuePairing, Commit
<1>2. now + StageTimeout \in Nat
  BY SessionsAssumption DEF Bounds
<1>3. Sound(registry)
  BY DEF RegInv
<1>4. Sound(N) /\ N.devices = registry.devices
  BY <1>1, <1>2, <1>3, IssueSound
<1> HIDE DEF N
<1>5. QED
  BY <1>1, <1>4, CommitStep

LEMMA PairRequestReg ==
  ASSUME RegInv, NEW c \in Conns, NEW s \in Secrets, PairRequest(c, s)
  PROVE  RegInv'
<1> DEFINE N == Paired(s, FreshDevice)
<1>1. FreshDevice \in Devices /\ registry.devices[FreshDevice].state = "absent"
  <2>1. \E d \in Devices : registry.devices[d].state = "absent"
    BY DEF PairRequest
  <2>2. QED
    BY <2>1 DEF FreshDevice
<1>2. UNCHANGED <<told, admitted>>
  BY DEF PairRequest
<1>3. \/ UNCHANGED <<registry, disk>>
      \/ registry.pairings[s].state = "open" /\ registry' \in {registry, N} /\ disk' \in {disk, N}
  <2> HIDE DEF N
  <2>1. CASE UNCHANGED <<registry, disk>>
    BY <2>1
  <2>2. CASE SecretOpen(s) /\ Commit(N)
    BY <2>2 DEF SecretOpen, Commit
  <2>3. ASSUME SecretOpen(s), NEW how \in Faults, CommitFails(N, how)
        PROVE  registry.pairings[s].state = "open" /\ registry' \in {registry, N} /\ disk' \in {disk, N}
    BY <2>3 DEF SecretOpen, CommitFails
  <2>4. QED
    BY <2>1, <2>2, <2>3 DEF PairRequest, N
<1>4. CASE UNCHANGED <<registry, disk>>
  BY <1>2, <1>4, RegistryFrame
<1>5. CASE registry.pairings[s].state = "open" /\ registry' \in {registry, N} /\ disk' \in {disk, N}
  <2>1. Sound(registry)
    BY DEF RegInv
  <2>2. /\ Sound(N)
        /\ \A e \in Devices : registry.devices[e].state = "revoked" => N.devices[e].state = "revoked"
    <3>1. PICK d \in Devices : d = FreshDevice
      BY <1>1
    <3>2. registry.devices[d].state = "absent" /\ registry.pairings[s].state = "open"
      BY <1>1, <1>5, <3>1
    <3>3. /\ Sound(Paired(s, d))
          /\ \A e \in Devices : registry.devices[e].state = "revoked" => Paired(s, d).devices[e].state = "revoked"
      BY <2>1, <3>2, PairSound
    <3>4. QED
      BY <3>1, <3>3
  <2> HIDE DEF N
  <2>3. QED
    BY <1>2, <1>5, <2>2, CommitStep
<1>6. QED
  BY <1>3, <1>4, <1>5

LEMMA RevokeReg ==
  ASSUME RegInv, NEW d \in Devices, RevokeDeviceDurable(d)
  PROVE  RegInv'
<1> DEFINE N == Revoked(d)
<1>1. Sound(registry)
  BY DEF RegInv
<1>2. /\ Sound(N) /\ N.devices[d].state = "revoked"
      /\ \A e \in Devices : registry.devices[e].state = "revoked" => N.devices[e].state = "revoked"
  BY <1>1, RevokeSound DEF Revoked
<1>3. /\ admitted' = admitted
      /\ \/ registry' = N /\ disk' = N /\ told' = told \cup {d}
         \/ registry' = registry /\ disk' \in {disk, N} /\ told' = told
  <2>1. CASE Commit(N) /\ told' = told \cup {d}
    BY <2>1 DEF RevokeDeviceDurable, Commit
  <2>2. ASSUME NEW how \in Faults, CommitFails(N, how), told' = told
        PROVE  registry' = registry /\ disk' \in {disk, N} /\ told' = told
    BY <2>2 DEF CommitFails
  <2>3. QED
    BY <2>1, <2>2 DEF RevokeDeviceDurable
<1> HIDE DEF N
<1>4. QED
  BY <1>2, <1>3, CommitStep

\* The registry is asked under its lock: a device that was reported as revoked is not active.
LEMMA BusinessFrameReg ==
  ASSUME RegInv, NEW c \in Conns, NEW frame, BusinessFrame(c, frame)
  PROVE  RegInv'
<1>1. UNCHANGED <<registry, disk, told>>
  BY DEF BusinessFrame
<1>2. RevocationSticks /\ RevokedIsNeverServed
  BY DEF RegInv
<1>3. admitted' = admitted \/ (Active(conn[c].device) /\ admitted' = Admitted(c, frame))
  BY DEF BusinessFrame, Authorize
<1>4. ~admitted'.revoked
  <2>1. CASE admitted' = admitted
    BY <1>2, <2>1 DEF RevokedIsNeverServed
  <2>2. CASE Active(conn[c].device) /\ admitted' = Admitted(c, frame)
    <3>1. conn[c].device \notin told
      BY <1>2, <2>2 DEF RevocationSticks, Active
    <3>2. QED
      BY <2>2, <3>1 DEF Admitted
  <2>3. QED
    BY <1>3, <2>1, <2>2
<1>5. Sound(registry)' /\ Sound(disk)'
  BY <1>1 DEF RegInv, Sound
<1>6. QED
  BY <1>1, <1>4, <1>5 DEF RegInv, RevocationSticks, RevokedIsNeverServed

LEMMA RestartReg ==
  ASSUME RegInv, Restart
  PROVE  RegInv'
<1>1. registry' = disk /\ UNCHANGED <<disk, told, admitted>>
  BY DEF Restart
<1>2. Sound(registry)' /\ Sound(disk)'
  BY <1>1 DEF RegInv, Sound
<1>3. QED
  BY <1>1, <1>2 DEF RegInv, RevocationSticks, RevokedIsNeverServed

LEMMA NextReg ==
  ASSUME Bounds, RegInv, [Next]_vars
  PROVE  RegInv'
<1>1. CASE UNCHANGED vars
  BY <1>1, RegistryFrame DEF vars
<1>2. CASE Tick
  BY <1>2, RegistryFrame DEF Tick
<1>3. CASE Restart
  BY <1>3, RestartReg
<1>4. ASSUME NEW s \in Secrets, IssuePairing(s) PROVE RegInv'
  BY <1>4, IssuePairingReg
<1>5. ASSUME NEW d \in Devices, RevokeDeviceDurable(d) PROVE RegInv'
  BY <1>5, RevokeReg
<1>6. ASSUME NEW d \in Devices, DisconnectRevokedDevice(d) PROVE RegInv'
  BY <1>6, RegistryFrame DEF DisconnectRevokedDevice
<1>7. ASSUME NEW c \in Conns, NEW source \in Sources, SpawnConnection(c, source) PROVE RegInv'
  BY <1>7, RegistryFrame DEF SpawnConnection
<1>8. ASSUME NEW c \in Conns, HandshakeStep(c) \/ HandshakeEnds(c) PROVE RegInv'
  BY <1>8, RegistryFrame DEF HandshakeStep, HandshakeEnds
<1>9. ASSUME NEW c \in Conns, Authenticated(c) PROVE RegInv'
  BY <1>9, RegistryFrame DEF Authenticated
<1>10. ASSUME NEW c \in Conns, NEW s \in Secrets, PairRequest(c, s) PROVE RegInv'
  BY <1>10, PairRequestReg
<1>11. ASSUME NEW c \in Conns, NEW d \in Devices, ChallengeRequest(c, d) PROVE RegInv'
  BY <1>11, RegistryFrame DEF ChallengeRequest
<1>12. ASSUME NEW c \in Conns, NEW proof, ChallengeProof(c, proof) PROVE RegInv'
  BY <1>12, RegistryFrame DEF ChallengeProof
<1>13. ASSUME NEW c \in Conns, LoopTop(c) \/ NoFrame(c) PROVE RegInv'
  BY <1>13, RegistryFrame DEF LoopTop, NoFrame
<1>14. ASSUME NEW c \in Conns, NEW frame, BusinessFrame(c, frame) PROVE RegInv'
  BY <1>14, BusinessFrameReg
<1>15. ASSUME NEW c \in Conns, CancelConnection(c) \/ LimiterClose(c) PROVE RegInv'
  BY <1>15, RegistryFrame DEF CancelConnection, LimiterClose
<1>16. QED
  BY <1>1, <1>2, <1>3, <1>4, <1>5, <1>6, <1>7, <1>8, <1>9, <1>10, <1>11, <1>12, <1>13, <1>14, <1>15
     DEF Next

-----------------------------------------------------------------------------
(* Clock and the sets of revoked devices. *)

LEMMA NextBounds ==
  ASSUME Bounds, [Next]_vars
  PROVE  Bounds'
<1>0. now \in 0..MaxNow /\ revoking \subseteq Devices /\ revoked \subseteq Devices
  BY DEF Bounds
<1>1. CASE UNCHANGED <<now, revoking, revoked>>
  BY <1>0, <1>1 DEF Bounds
<1>2. CASE Tick
  <2>1. now' \in 0..MaxNow /\ UNCHANGED <<revoking, revoked>>
    BY <1>0, <1>2, SessionsAssumption DEF Tick
  <2>2. QED
    BY <1>0, <2>1 DEF Bounds
<1>3. CASE Restart
  BY <1>0, <1>3 DEF Bounds, Restart
<1>4. ASSUME NEW d \in Devices, RevokeDeviceDurable(d) PROVE Bounds'
  <2>1. now' = now /\ revoked' = revoked /\ revoking' \subseteq Devices
    BY <1>0, <1>4 DEF RevokeDeviceDurable
  <2>2. QED
    BY <1>0, <2>1 DEF Bounds
<1>5. ASSUME NEW d \in Devices, DisconnectRevokedDevice(d) PROVE Bounds'
  BY <1>0, <1>5 DEF Bounds, DisconnectRevokedDevice
<1>6. ASSUME NEW s \in Secrets, IssuePairing(s) PROVE UNCHANGED <<now, revoking, revoked>>
  BY <1>6 DEF IssuePairing
<1>7. ASSUME NEW c \in Conns, NEW source \in Sources, SpawnConnection(c, source)
      PROVE  UNCHANGED <<now, revoking, revoked>>
  BY <1>7 DEF SpawnConnection
<1>8. ASSUME NEW c \in Conns, HandshakeStep(c) \/ HandshakeEnds(c) \/ Authenticated(c)
      PROVE  UNCHANGED <<now, revoking, revoked>>
  BY <1>8 DEF HandshakeStep, HandshakeEnds, Authenticated
<1>9. ASSUME NEW c \in Conns, NEW s \in Secrets, PairRequest(c, s)
      PROVE  UNCHANGED <<now, revoking, revoked>>
  BY <1>9 DEF PairRequest
<1>10. ASSUME NEW c \in Conns, NEW d \in Devices, ChallengeRequest(c, d)
       PROVE  UNCHANGED <<now, revoking, revoked>>
  BY <1>10 DEF ChallengeRequest
<1>11. ASSUME NEW c \in Conns, NEW proof, ChallengeProof(c, proof)
       PROVE  UNCHANGED <<now, revoking, revoked>>
  BY <1>11 DEF ChallengeProof
<1>12. ASSUME NEW c \in Conns, LoopTop(c) \/ NoFrame(c) PROVE UNCHANGED <<now, revoking, revoked>>
  BY <1>12 DEF LoopTop, NoFrame
<1>13. ASSUME NEW c \in Conns, NEW frame, BusinessFrame(c, frame)
       PROVE  UNCHANGED <<now, revoking, revoked>>
  BY <1>13 DEF BusinessFrame
<1>14. ASSUME NEW c \in Conns, CancelConnection(c) \/ LimiterClose(c)
       PROVE  UNCHANGED <<now, revoking, revoked>>
  BY <1>14 DEF CancelConnection, LimiterClose
<1>15. CASE UNCHANGED vars
  BY <1>1, <1>15 DEF vars
<1>16. QED
  BY <1>1, <1>2, <1>3, <1>4, <1>5, <1>6, <1>7, <1>8, <1>9, <1>10, <1>11, <1>12, <1>13, <1>14, <1>15
     DEF Next

LEMMA InitBounds == Init => Bounds
BY SessionsAssumption DEF Init, Bounds

-----------------------------------------------------------------------------
(* What was reported about the registry holds. *)

\* The file and the registry in memory stay sound, and both keep every revocation that was
\* reported (registry.rs, commit).
THEOREM RegistryInvariant == Spec => [](Bounds /\ RegInv)
<1>1. Init => Bounds /\ RegInv
  BY InitBounds, InitReg
<1>2. Bounds /\ RegInv /\ [Next]_vars => (Bounds /\ RegInv)'
  BY NextBounds, NextReg
<1>3. QED
  BY <1>1, <1>2, PTL DEF Spec

\* No operation of a device reaches the broker after its revocation was reported, although
\* its connection may be open still (gateway.rs, authorize).
THEOREM NeverServed == Spec => []RevokedIsNeverServed
<1>1. Bounds /\ RegInv => RevokedIsNeverServed
  BY DEF RegInv
<1>2. QED
  BY <1>1, RegistryInvariant, PTL

\* A revocation that was reported survives restarts, later commits and commits that fail
\* (registry.rs, revoke_and_then).
THEOREM RevocationIsDurable == Spec => []RevocationSticks
<1>1. Bounds /\ RegInv => RevocationSticks
  BY DEF RegInv
<1>2. QED
  BY <1>1, RegistryInvariant, PTL

\* A pairing secret makes at most one device, whatever fails between the request and its
\* answer (registry.rs, pair_device).
THEOREM SecretsMakeOneDevice == Spec => []OneDevicePerSecret
<1>1. Bounds /\ RegInv => OneDevicePerSecret
  BY DEF RegInv, Sound, OneDevicePerSecret
<1>2. QED
  BY <1>1, RegistryInvariant, PTL

-----------------------------------------------------------------------------
(* The door: threads and the limiter's entries. *)

ConnSet == [stage : Stages, source : Sources \cup {None}, device : Devices \cup {None},
            known : BOOLEAN, deadline : Nat, expires : Nat, last : Nat, pinged : BOOLEAN]
EntrySet == [source : Sources \cup {None}, device : Devices \cup {None}]

\* The entry of a connection is there exactly while its thread runs, and names its
\* source and the device it was counted for.
DoorOf(c) ==
    /\ limiter[c] = Free <=> conn[c].stage = "free"
    /\ conn[c].stage # "free" => conn[c].source \in Sources /\ limiter[c].source = conn[c].source
    /\ conn[c].stage \in PreAuth => limiter[c].device = None
    /\ conn[c].stage \in Session => limiter[c].device = conn[c].device
    /\ conn[c].stage \in {"proof", "proved"} => conn[c].device \in Devices
    /\ c \in challenges => conn[c].stage \in {"proof", "closing"}

Doors ==
    /\ conn \in [Conns -> ConnSet] /\ limiter \in [Conns -> EntrySet] /\ challenges \subseteq Conns
    /\ \A c \in Conns : DoorOf(c)

EntriesOf(s) == {c \in Entries : limiter[c].source = s}
EntriesFor(d) == {c \in Entries : limiter[c].device = d}

Counts ==
    /\ Cardinality(Entries) <= MaxGlobal
    /\ Cardinality(EntriesFor(None)) <= MaxPreAuth
    /\ \A s \in Sources : Cardinality(EntriesOf(s)) <= MaxPerSource
    /\ \A d \in Devices : Cardinality(EntriesFor(d)) <= MaxPerDevice

\* A set of connections is finite, one more connection counts at most one more, and
\* fewer connections count no more.
LEMMA Counting ==
  ASSUME NEW S \in SUBSET Conns
  PROVE  /\ IsFiniteSet(S) /\ Cardinality(S) \in Nat
         /\ \A T \in SUBSET S : Cardinality(T) \in Nat /\ Cardinality(T) <= Cardinality(S)
         /\ \A c \in Conns : \A T \in SUBSET (S \cup {c}) :
               Cardinality(T) \in Nat /\ Cardinality(T) <= Cardinality(S) + 1
<1>1. IsFiniteSet(S) /\ Cardinality(S) \in Nat
  BY SessionsAssumption, FS_Subset, FS_CardinalityType
<1>2. ASSUME NEW T \in SUBSET S PROVE Cardinality(T) \in Nat /\ Cardinality(T) <= Cardinality(S)
  BY <1>1, FS_Subset, FS_CardinalityType
<1>3. ASSUME NEW c \in Conns, NEW T \in SUBSET (S \cup {c})
      PROVE  Cardinality(T) \in Nat /\ Cardinality(T) <= Cardinality(S) + 1
  <2>1. /\ IsFiniteSet(S \cup {c}) /\ Cardinality(S \cup {c}) \in Nat
        /\ Cardinality(S \cup {c}) = IF c \in S THEN Cardinality(S) ELSE Cardinality(S) + 1
    BY <1>1, FS_AddElement, FS_CardinalityType
  <2>2. IsFiniteSet(T) /\ Cardinality(T) \in Nat /\ Cardinality(T) <= Cardinality(S \cup {c})
    BY <2>1, FS_Subset, FS_CardinalityType
  <2>3. QED
    BY <1>1, <2>1, <2>2
<1>4. QED
  BY <1>1, <1>2, <1>3

\* Every count is of connections.
LEMMA EntriesAreConns ==
  /\ Entries \in SUBSET Conns
  /\ \A x : EntriesOf(x) \in SUBSET Conns /\ EntriesFor(x) \in SUBSET Conns
  /\ \A x : EntriesOf(x) \in SUBSET Entries /\ EntriesFor(x) \in SUBSET Entries
BY DEF Entries, EntriesOf, EntriesFor

LEMMA CountsFrame ==
  ASSUME Counts, limiter' = limiter
  PROVE  Counts'
BY DEF Counts, Entries, EntriesOf, EntriesFor

\* Entries that go away.
LEMMA CountsShrink ==
  ASSUME Counts, \A c \in Conns : limiter'[c] = limiter[c] \/ limiter'[c] = Free
  PROVE  Counts'
<1>1. Entries' \in SUBSET Entries
  BY DEF Entries
<1>2. \A x : EntriesOf(x)' \in SUBSET EntriesOf(x) /\ EntriesFor(x)' \in SUBSET EntriesFor(x)
  BY DEF Entries, EntriesOf, EntriesFor
<1>3. Cardinality(Entries') <= MaxGlobal
  <2>1. Cardinality(Entries') \in Nat /\ Cardinality(Entries) \in Nat
        /\ Cardinality(Entries') <= Cardinality(Entries)
    BY <1>1, EntriesAreConns, Counting
  <2>2. QED
    BY <2>1, SessionsAssumption DEF Counts
<1>4. ASSUME NEW x, NEW m \in Nat, Cardinality(EntriesFor(x)) <= m
      PROVE  Cardinality(EntriesFor(x)') <= m
  <2>1. Cardinality(EntriesFor(x)') \in Nat /\ Cardinality(EntriesFor(x)) \in Nat
        /\ Cardinality(EntriesFor(x)') <= Cardinality(EntriesFor(x))
    BY <1>2, EntriesAreConns, Counting
  <2>2. QED
    BY <1>4, <2>1
<1>5. ASSUME NEW x, NEW m \in Nat, Cardinality(EntriesOf(x)) <= m
      PROVE  Cardinality(EntriesOf(x)') <= m
  <2>1. Cardinality(EntriesOf(x)') \in Nat /\ Cardinality(EntriesOf(x)) \in Nat
        /\ Cardinality(EntriesOf(x)') <= Cardinality(EntriesOf(x))
    BY <1>2, EntriesAreConns, Counting
  <2>2. QED
    BY <1>5, <2>1
<1>6. QED
  BY <1>3, <1>4, <1>5, SessionsAssumption DEF Counts

\* What a step of a thread makes of its connection.
LEMMA Fields ==
  ASSUME NEW x \in ConnSet, NEW t \in Stages
  PROVE  /\ x.stage \in Stages /\ x.source \in Sources \cup {None} /\ x.device \in Devices \cup {None}
         /\ x.expires \in Nat /\ x.last \in Nat /\ x.deadline \in Nat
         /\ LET y == [x EXCEPT !.stage = t]
            IN  y \in ConnSet /\ y.stage = t /\ y.source = x.source /\ y.device = x.device
BY DEF ConnSet

\* A thread that goes on keeps its entry.
LEMMA DoorMove ==
  ASSUME Doors, NEW c \in Conns, limiter' = limiter,
         conn' \in [Conns -> ConnSet], \A x \in Conns : x # c => conn'[x] = conn[x],
         conn[c].stage # "free", conn'[c].stage # "free", conn'[c].source = conn[c].source,
         conn'[c].stage \in PreAuth => conn[c].stage \in PreAuth,
         conn'[c].stage \in Session => conn[c].stage \in Session /\ conn'[c].device = conn[c].device,
         conn'[c].stage \in {"proof", "proved"} => conn'[c].device \in Devices,
         challenges' \subseteq challenges \cup {c},
         c \in challenges' => conn'[c].stage \in {"proof", "closing"}
  PROVE  Doors'
<1>1. ASSUME NEW x \in Conns PROVE DoorOf(x)'
  <2>1. DoorOf(x)
    BY DEF Doors
  <2>2. CASE x = c
    BY <2>1, <2>2 DEF DoorOf
  <2>3. CASE x # c
    BY <2>1, <2>3 DEF DoorOf
  <2>4. QED
    BY <2>2, <2>3
<1>2. QED
  BY <1>1 DEF Doors

\* A thread changes its stage and nothing else.
LEMMA StageMove ==
  ASSUME Doors, NEW c \in Conns, NEW t \in Stages, To(c, t), limiter' = limiter, t # "free",
         conn[c].stage # "free", t \in PreAuth => conn[c].stage \in PreAuth,
         t \in Session => conn[c].stage \in Session,
         t \in {"proof", "proved"} => conn[c].device \in Devices,
         challenges' \subseteq challenges, c \in challenges' => t \in {"proof", "closing"}
  PROVE  Doors'
<1>1. conn \in [Conns -> ConnSet] /\ conn[c] \in ConnSet
  BY DEF Doors
<1> DEFINE y == [conn[c] EXCEPT !.stage = t]
<1>2. y \in ConnSet /\ y.stage = t /\ y.source = conn[c].source /\ y.device = conn[c].device
  BY <1>1, Fields
<1>3. conn' = [conn EXCEPT ![c] = y]
  BY DEF To
<1> HIDE DEF y
<1>4. /\ conn' \in [Conns -> ConnSet] /\ conn'[c] = y
      /\ \A x \in Conns : x # c => conn'[x] = conn[x]
  BY <1>1, <1>2, <1>3
<1>5. QED
  BY <1>2, <1>4, DoorMove

\* Steps of others.
LEMMA DoorFrame ==
  ASSUME Doors, UNCHANGED <<conn, limiter, challenges>>
  PROVE  Doors'
<1>1. \A c \in Conns : DoorOf(c)'
  BY DEF Doors, DoorOf
<1>2. QED
  BY <1>1 DEF Doors

LEMMA IdleAndFree ==
  /\ Idle \in ConnSet /\ Idle.stage = "free" /\ Free \in EntrySet
  /\ \A s \in Sources : [source |-> s, device |-> None] \in EntrySet \ {Free}
  /\ \A s \in Sources, d \in Devices : [source |-> s, device |-> d] \in EntrySet \ {Free}
<1>1. Idle \in ConnSet /\ Idle.stage = "free"
  BY DEF Idle, ConnSet, Stages
<1>2. Free \in EntrySet /\ Free.source = None
  BY DEF Free, EntrySet
<1>3. ASSUME NEW s \in Sources, NEW d \in Devices \cup {None}
      PROVE  [source |-> s, device |-> d] \in EntrySet \ {Free}
  BY <1>2, <1>3, SessionsAssumption DEF EntrySet, None
<1>4. QED
  BY <1>1, <1>2, <1>3

LEMMA InitDoors == Init => Doors /\ Counts
<1> SUFFICES ASSUME Init PROVE Doors /\ Counts
  OBVIOUS
<1>1. conn = [c \in Conns |-> Idle] /\ limiter = [c \in Conns |-> Free] /\ challenges = {}
  BY DEF Init
<1>2. Doors
  BY <1>1, IdleAndFree DEF Doors, DoorOf, PreAuth, Session
<1>3. Entries = {} /\ \A x : EntriesOf(x) = {} /\ EntriesFor(x) = {}
  BY <1>1 DEF Entries, EntriesOf, EntriesFor
<1>4. \A m \in Nat : Cardinality({}) <= m
  BY FS_EmptySet
<1>5. Counts
  BY <1>3, <1>4, SessionsAssumption DEF Counts
<1>6. QED
  BY <1>2, <1>5

-----------------------------------------------------------------------------
(* The limiter's own steps. *)

\* An entry is made only below the limits.
LEMMA SpawnDoor ==
  ASSUME Bounds, Doors, Counts, NEW c \in Conns, NEW source \in Sources, SpawnConnection(c, source)
  PROVE  Doors' /\ Counts'
<1> DEFINE e == [source |-> source, device |-> None]
           y == [Idle EXCEPT !.stage = "tls", !.source = source, !.deadline = now + StageTimeout]
<1>1. /\ conn[c] = Idle /\ limiter[c] = Free /\ Admits(source)
      /\ limiter' = [limiter EXCEPT ![c] = e] /\ conn' = [conn EXCEPT ![c] = y]
      /\ challenges' = challenges
  BY DEF SpawnConnection
<1>2. now + StageTimeout \in Nat
  BY SessionsAssumption DEF Bounds
<1>3. y \in ConnSet /\ y.stage = "tls" /\ y.source = source
  BY <1>2, Zenon DEF Idle, ConnSet, Stages, PreAuth
<1>4. e \in EntrySet /\ e # Free /\ e.source = source /\ e.device = None
  BY IdleAndFree
<1> HIDE DEF e, y
<1>5. /\ conn' \in [Conns -> ConnSet] /\ limiter' \in [Conns -> EntrySet]
      /\ conn'[c] = y /\ limiter'[c] = e
      /\ \A x \in Conns : x # c => conn'[x] = conn[x] /\ limiter'[x] = limiter[x]
  BY <1>1, <1>3, <1>4 DEF Doors
<1>6. Doors'
  <2>1. ASSUME NEW x \in Conns PROVE DoorOf(x)'
    <3>1. DoorOf(x)
      BY DEF Doors
    <3>2. CASE x = c
      <4>1. conn[c].stage = "free"
        BY <1>1, IdleAndFree
      <4>2. c \notin challenges
        BY <3>1, <3>2, <4>1 DEF DoorOf
      <4>3. QED
        BY <1>1, <1>3, <1>4, <1>5, <3>2, <4>2 DEF DoorOf, PreAuth, Session
    <3>3. CASE x # c
      BY <1>1, <1>5, <3>1, <3>3 DEF DoorOf
    <3>4. QED
      BY <3>2, <3>3
  <2>2. QED
    BY <1>1, <1>5, <2>1 DEF Doors
<1>7. /\ Entries' \in SUBSET (Entries \cup {c})
      /\ EntriesFor(None)' \in SUBSET (EntriesFor(None) \cup {c})
      /\ EntriesOf(source)' \in SUBSET (EntriesOf(source) \cup {c})
      /\ \A s \in Sources : s # source => EntriesOf(s)' \in SUBSET EntriesOf(s)
      /\ \A d \in Devices : EntriesFor(d)' \in SUBSET EntriesFor(d)
  BY <1>4, <1>5, SessionsAssumption DEF Entries, EntriesOf, EntriesFor, None
<1>8. /\ Cardinality(Entries) < MaxGlobal /\ Cardinality(EntriesFor(None)) < MaxPreAuth
      /\ Cardinality(EntriesOf(source)) < MaxPerSource
  BY <1>1 DEF Admits, EntriesOf, EntriesFor
<1>9. ASSUME NEW S \in SUBSET Conns, NEW T \in SUBSET (S \cup {c}), NEW m \in Nat, Cardinality(S) < m
      PROVE  Cardinality(T) <= m
  <2>1. Cardinality(S) \in Nat /\ Cardinality(T) \in Nat /\ Cardinality(T) <= Cardinality(S) + 1
    BY Counting
  <2>2. QED
    BY <1>9, <2>1
<1>10. ASSUME NEW S \in SUBSET Conns, NEW T \in SUBSET S, NEW m \in Nat, Cardinality(S) <= m
       PROVE  Cardinality(T) <= m
  <2>1. Cardinality(S) \in Nat /\ Cardinality(T) \in Nat /\ Cardinality(T) <= Cardinality(S)
    BY Counting
  <2>2. QED
    BY <1>10, <2>1
<1>11. Cardinality(Entries') <= MaxGlobal /\ Cardinality(EntriesFor(None)') <= MaxPreAuth
  BY <1>7, <1>8, <1>9, EntriesAreConns, SessionsAssumption
<1>12. ASSUME NEW s \in Sources PROVE Cardinality(EntriesOf(s)') <= MaxPerSource
  <2>1. CASE s = source
    BY <1>7, <1>8, <1>9, <2>1, EntriesAreConns, SessionsAssumption
  <2>2. CASE s # source
    BY <1>7, <1>10, <2>2, EntriesAreConns, SessionsAssumption DEF Counts
  <2>3. QED
    BY <2>1, <2>2
<1>13. ASSUME NEW d \in Devices PROVE Cardinality(EntriesFor(d)') <= MaxPerDevice
  BY <1>7, <1>10, EntriesAreConns, SessionsAssumption DEF Counts
<1>14. QED
  BY <1>6, <1>11, <1>12, <1>13 DEF Counts

\* A connection is counted for its device only below the limit; it was counted as
\* one that has not authenticated until then.
LEMMA AuthenticatedDoor ==
  ASSUME Bounds, Doors, Counts, NEW c \in Conns, Authenticated(c)
  PROVE  Doors' /\ Counts'
<1>0. /\ conn[c].stage = "proved" /\ challenges' = challenges /\ conn \in [Conns -> ConnSet]
      /\ limiter \in [Conns -> EntrySet] /\ conn[c] \in ConnSet /\ limiter[c] \in EntrySet /\ DoorOf(c)
  BY DEF Authenticated, Doors
<1>1. /\ conn[c].source \in Sources /\ limiter[c].source = conn[c].source
      /\ c \notin challenges /\ limiter[c] # Free
  BY <1>0 DEF DoorOf
<1>d. PICK d \in Devices : d = conn[c].device
  BY <1>0 DEF DoorOf
<1>2. CASE To(c, "closing") /\ limiter' = limiter
  <2>1. "closing" \in Stages /\ "closing" \notin PreAuth /\ "closing" \notin Session
    BY DEF Stages, PreAuth, Session
  <2>2. Doors'
    BY <1>0, <1>1, <1>d, <1>2, <2>1, StageMove
  <2>3. QED
    BY <1>2, <2>2, CountsFrame
<1>3. CASE /\ DeviceHasRoom(d) /\ limiter' = [limiter EXCEPT ![c].device = d]
           /\ \/ conn' = [conn EXCEPT ![c].stage = "top", ![c].expires = now + SessionLifetime,
                                      ![c].last = now, ![c].pinged = FALSE]
              \/ To(c, "closing")
  <2> DEFINE e == [limiter[c] EXCEPT !.device = d]
             top == [conn[c] EXCEPT !.stage = "top", !.expires = now + SessionLifetime,
                                    !.last = now, !.pinged = FALSE]
             end == [conn[c] EXCEPT !.stage = "closing"]
  <2>1. e \in EntrySet /\ e # Free /\ e.source = limiter[c].source /\ e.device = d
    BY <1>0, <1>1, SessionsAssumption DEF EntrySet, Free, None
  <2>2. now + SessionLifetime \in Nat /\ now \in Nat
    BY SessionsAssumption DEF Bounds
  <2>3. top \in ConnSet /\ top.stage = "top" /\ top.source = conn[c].source /\ top.device = d
    BY <1>0, <1>d, <2>2, Zenon DEF ConnSet, Stages, Session
  <2>4. end \in ConnSet /\ end.stage = "closing" /\ end.source = conn[c].source /\ end.device = d
    BY <1>0, <1>d DEF ConnSet, Stages
  <2>5. limiter' = [limiter EXCEPT ![c] = e]
        /\ (conn' = [conn EXCEPT ![c] = top] \/ conn' = [conn EXCEPT ![c] = end])
    BY <1>0, <1>3, Zenon DEF To
  <2> HIDE DEF e, top, end
  <2>6. /\ limiter' \in [Conns -> EntrySet] /\ limiter'[c] = e
        /\ \A x \in Conns : x # c => limiter'[x] = limiter[x]
    BY <1>0, <2>1, <2>5
  <2>7. /\ conn' \in [Conns -> ConnSet] /\ \A x \in Conns : x # c => conn'[x] = conn[x]
        /\ conn'[c].stage \in {"top", "closing"} /\ conn'[c].source = conn[c].source
        /\ conn'[c].device = d
    BY <1>0, <2>3, <2>4, <2>5
  <2>8. ASSUME NEW x \in Conns PROVE DoorOf(x)'
    <3>1. CASE x = c
      BY <1>0, <1>1, <2>1, <2>6, <2>7, <3>1 DEF DoorOf, PreAuth, Session
    <3>2. CASE x # c
      <4>1. DoorOf(x)
        BY DEF Doors
      <4>2. QED
        BY <1>0, <2>6, <2>7, <3>2, <4>1 DEF DoorOf
    <3>3. QED
      BY <3>1, <3>2
  <2>9. Doors'
    BY <1>0, <2>6, <2>7, <2>8 DEF Doors
  <2>10. /\ Entries' = Entries
         /\ EntriesFor(None)' \in SUBSET EntriesFor(None)
         /\ \A s \in Sources : EntriesOf(s)' = EntriesOf(s)
         /\ EntriesFor(d)' \in SUBSET (EntriesFor(d) \cup {c})
         /\ \A x \in Devices : x # d => EntriesFor(x)' \in SUBSET EntriesFor(x)
    BY <1>1, <2>1, <2>6, SessionsAssumption DEF Entries, EntriesOf, EntriesFor, None
  <2>11. Cardinality(EntriesFor(d)) < MaxPerDevice
    BY <1>3 DEF DeviceHasRoom, EntriesFor
  <2>12. Cardinality(EntriesFor(d)') <= MaxPerDevice
    <3>1. /\ Cardinality(EntriesFor(d)) \in Nat /\ Cardinality(EntriesFor(d)') \in Nat
          /\ Cardinality(EntriesFor(d)') <= Cardinality(EntriesFor(d)) + 1
      BY <2>10, EntriesAreConns, Counting
    <3>2. QED
      BY <2>11, <3>1, SessionsAssumption
  <2>13. ASSUME NEW x, NEW m \in Nat, Cardinality(EntriesFor(x)) <= m,
                EntriesFor(x)' \in SUBSET EntriesFor(x)
         PROVE  Cardinality(EntriesFor(x)') <= m
    <3>1. /\ Cardinality(EntriesFor(x)) \in Nat /\ Cardinality(EntriesFor(x)') \in Nat
          /\ Cardinality(EntriesFor(x)') <= Cardinality(EntriesFor(x))
      BY <2>13, EntriesAreConns, Counting
    <3>2. QED
      BY <2>13, <3>1
  <2>14. Cardinality(EntriesFor(None)') <= MaxPreAuth
    BY <2>10, <2>13, SessionsAssumption DEF Counts
  <2>15. ASSUME NEW x \in Devices PROVE Cardinality(EntriesFor(x)') <= MaxPerDevice
    <3>1. CASE x = d
      BY <2>12, <3>1
    <3>2. CASE x # d
      BY <2>10, <2>13, <3>2, SessionsAssumption DEF Counts
    <3>3. QED
      BY <3>1, <3>2
  <2>16. Counts'
    BY <2>10, <2>14, <2>15 DEF Counts
  <2>17. QED
    BY <2>9, <2>16
<1>4. QED
  BY <1>d, <1>2, <1>3 DEF Authenticated

LEMMA LimiterCloseDoor ==
  ASSUME Doors, Counts, NEW c \in Conns, LimiterClose(c)
  PROVE  Doors' /\ Counts'
<1>1. /\ conn[c].stage = "cancelled" /\ conn' = [conn EXCEPT ![c] = Idle]
      /\ limiter' = [limiter EXCEPT ![c] = Free] /\ challenges' = challenges
      /\ conn \in [Conns -> ConnSet] /\ limiter \in [Conns -> EntrySet] /\ challenges \subseteq Conns
  BY DEF LimiterClose, Doors
<1>2. /\ conn' \in [Conns -> ConnSet] /\ limiter' \in [Conns -> EntrySet]
      /\ conn'[c] = Idle /\ limiter'[c] = Free
      /\ \A x \in Conns : x # c => conn'[x] = conn[x] /\ limiter'[x] = limiter[x]
  BY <1>1, IdleAndFree
<1>3. ASSUME NEW x \in Conns PROVE DoorOf(x)'
  <2>1. DoorOf(x)
    BY DEF Doors
  <2>2. CASE x = c
    BY <1>1, <1>2, <2>1, <2>2, IdleAndFree DEF DoorOf, PreAuth, Session
  <2>3. CASE x # c
    BY <1>1, <1>2, <2>1, <2>3 DEF DoorOf
  <2>4. QED
    BY <2>2, <2>3
<1>4. Doors'
  BY <1>1, <1>2, <1>3 DEF Doors
<1>5. Counts'
  BY <1>1, <1>2, CountsShrink
<1>6. QED
  BY <1>4, <1>5

LEMMA RestartDoor ==
  ASSUME Counts, Restart
  PROVE  Doors' /\ Counts'
<1>1. conn' = [c \in Conns |-> Idle] /\ limiter' = [c \in Conns |-> Free] /\ challenges' = {}
  BY DEF Restart
<1>2. ASSUME NEW x \in Conns PROVE DoorOf(x)'
  BY <1>1, IdleAndFree DEF DoorOf, PreAuth, Session
<1>3. Doors'
  BY <1>1, <1>2, IdleAndFree DEF Doors
<1>4. Counts'
  BY <1>1, CountsShrink
<1>5. QED
  BY <1>3, <1>4

-----------------------------------------------------------------------------
(* The threads' steps. *)

LEMMA HandshakeDoor ==
  ASSUME Bounds, Doors, NEW c \in Conns, HandshakeStep(c) \/ HandshakeEnds(c)
  PROVE  Doors' /\ limiter' = limiter
<1>0. conn \in [Conns -> ConnSet] /\ conn[c] \in ConnSet /\ DoorOf(c)
  BY DEF Doors
<1>1. CASE HandshakeStep(c)
  <2> DEFINE t == Following[conn[c].stage]
             y == [conn[c] EXCEPT !.stage = t, !.deadline = now + StageTimeout]
  <2>1. /\ conn[c].stage \in {"tls", "hello", "uacp"} /\ UNCHANGED <<limiter, challenges>>
        /\ conn' = [conn EXCEPT ![c] = y]
    BY <1>0, <1>1, Zenon DEF HandshakeStep, Following
  <2>2. t \in {"hello", "uacp", "auth"}
    BY <2>1 DEF Following
  <2>3. now + StageTimeout \in Nat
    BY SessionsAssumption DEF Bounds
  <2> HIDE DEF t
  <2>4. y \in ConnSet /\ y.stage = t /\ y.source = conn[c].source
    BY <1>0, <2>2, <2>3, Zenon DEF ConnSet, Stages, PreAuth
  <2> HIDE DEF y
  <2>5. /\ conn' \in [Conns -> ConnSet] /\ conn'[c] = y
        /\ \A x \in Conns : x # c => conn'[x] = conn[x]
    BY <1>0, <2>1, <2>4
  <2>6. c \notin challenges
    BY <1>0, <2>1 DEF DoorOf
  <2>7. QED
    BY <2>1, <2>2, <2>4, <2>5, <2>6, DoorMove DEF PreAuth, Session
<1>2. CASE HandshakeEnds(c)
  <2>1. conn[c].stage \in PreAuth /\ To(c, "closing") /\ UNCHANGED <<limiter, challenges>>
    BY <1>2 DEF HandshakeEnds
  <2>2. QED
    BY <2>1, StageMove DEF PreAuth, Session, Stages
<1>3. QED
  BY <1>1, <1>2

LEMMA PairRequestDoor ==
  ASSUME Doors, NEW c \in Conns, NEW s \in Secrets, PairRequest(c, s)
  PROVE  Doors' /\ limiter' = limiter
<1>0. /\ conn \in [Conns -> ConnSet] /\ conn[c] \in ConnSet /\ DoorOf(c)
      /\ conn[c].stage = "auth" /\ UNCHANGED <<limiter, challenges>>
  BY DEF Doors, PairRequest
<1>1. FreshDevice \in Devices
  <2>1. \E d \in Devices : registry.devices[d].state = "absent"
    BY DEF PairRequest
  <2>2. QED
    BY <2>1 DEF FreshDevice
<1>2. \/ To(c, "closing")
      \/ conn' = [conn EXCEPT ![c].stage = "proved", ![c].device = FreshDevice]
  BY DEF PairRequest
<1>3. CASE To(c, "closing")
  BY <1>0, <1>3, StageMove DEF PreAuth, Session, Stages
<1>4. CASE conn' = [conn EXCEPT ![c].stage = "proved", ![c].device = FreshDevice]
  <2> DEFINE y == [conn[c] EXCEPT !.stage = "proved", !.device = FreshDevice]
  <2>1. y \in ConnSet /\ y.stage = "proved" /\ y.source = conn[c].source /\ y.device = FreshDevice
    BY <1>0, <1>1, Zenon DEF ConnSet, Stages
  <2>2. conn' = [conn EXCEPT ![c] = y]
    BY <1>0, <1>4, Zenon
  <2> HIDE DEF y
  <2>3. /\ conn' \in [Conns -> ConnSet] /\ conn'[c] = y
        /\ \A x \in Conns : x # c => conn'[x] = conn[x]
    BY <1>0, <2>1, <2>2
  <2>4. c \notin challenges
    BY <1>0 DEF DoorOf
  <2>5. QED
    BY <1>0, <1>1, <2>1, <2>3, <2>4, DoorMove DEF PreAuth, Session
<1>5. QED
  BY <1>2, <1>3, <1>4

LEMMA ChallengeRequestDoor ==
  ASSUME Doors, NEW c \in Conns, NEW d \in Devices, ChallengeRequest(c, d)
  PROVE  Doors' /\ limiter' = limiter
<1>0. /\ conn \in [Conns -> ConnSet] /\ conn[c] \in ConnSet /\ DoorOf(c)
      /\ conn[c].stage = "auth" /\ limiter' = limiter
  BY DEF Doors, ChallengeRequest
<1>1. CASE To(c, "closing") /\ challenges' = challenges
  BY <1>0, <1>1, StageMove DEF PreAuth, Session, Stages
<1>2. CASE /\ challenges' = challenges \cup {c}
           /\ conn' = [conn EXCEPT ![c].stage = "proof", ![c].device = d, ![c].known = Active(d)]
  <2> DEFINE k == Active(d)
             y == [conn[c] EXCEPT !.stage = "proof", !.device = d, !.known = k]
  <2>1. k \in BOOLEAN
    BY DEF Active
  <2>2. conn' = [conn EXCEPT ![c] = y]
    BY <1>0, <1>2, Zenon
  <2> HIDE DEF k
  <2>3. y \in ConnSet /\ y.stage = "proof" /\ y.source = conn[c].source /\ y.device = d
    BY <1>0, <2>1, Zenon DEF ConnSet, Stages, PreAuth
  <2> HIDE DEF y
  <2>4. /\ conn' \in [Conns -> ConnSet] /\ conn'[c] = y
        /\ \A x \in Conns : x # c => conn'[x] = conn[x]
    BY <1>0, <2>2, <2>3
  <2>5. QED
    BY <1>0, <1>2, <2>3, <2>4, DoorMove DEF PreAuth, Session
<1>3. QED
  BY <1>1, <1>2 DEF ChallengeRequest

LEMMA ChallengeProofDoor ==
  ASSUME Doors, NEW c \in Conns, NEW proof, ChallengeProof(c, proof)
  PROVE  Doors' /\ limiter' = limiter
<1>0. /\ conn[c].stage = "proof" /\ limiter' = limiter /\ DoorOf(c) /\ challenges \subseteq Conns
  BY DEF Doors, ChallengeProof
<1>1. CASE To(c, "closing") /\ challenges' \subseteq challenges
  BY <1>0, <1>1, StageMove DEF PreAuth, Session, Stages
<1>2. CASE To(c, "proved") /\ challenges' = challenges \ {c}
  <2>1. conn[c].device \in Devices
    BY <1>0 DEF DoorOf
  <2>2. QED
    BY <1>0, <1>2, <2>1, StageMove DEF PreAuth, Session, Stages
<1>3. QED
  BY <1>1, <1>2 DEF ChallengeProof

LEMMA LoopTopDoor ==
  ASSUME Doors, NEW c \in Conns, LoopTop(c)
  PROVE  Doors' /\ limiter' = limiter
<1> DEFINE t == TopOf(c)
           ping == conn[c].pinged \/ (t = "reading" /\ now >= conn[c].last + IdlePing)
           y == [conn[c] EXCEPT !.stage = t, !.pinged = ping]
<1>0. /\ conn \in [Conns -> ConnSet] /\ conn[c] \in ConnSet /\ DoorOf(c)
      /\ conn[c].stage = "top" /\ UNCHANGED <<limiter, challenges>>
  BY DEF Doors, LoopTop
<1>1. conn' = [conn EXCEPT ![c] = y]
  BY <1>0, Zenon DEF LoopTop
<1>2. t \in {"closing", "reading"}
  BY DEF TopOf
<1>3. ping \in BOOLEAN
  OBVIOUS
<1> HIDE DEF t, ping
<1>4. y \in ConnSet /\ y.stage = t /\ y.source = conn[c].source /\ y.device = conn[c].device
  BY <1>0, <1>2, <1>3, Zenon DEF ConnSet, Stages, Session
<1> HIDE DEF y
<1>5. /\ conn' \in [Conns -> ConnSet] /\ conn'[c] = y
      /\ \A x \in Conns : x # c => conn'[x] = conn[x]
  BY <1>0, <1>1, <1>4
<1>6. c \notin challenges
  BY <1>0 DEF DoorOf
<1>7. QED
  BY <1>0, <1>2, <1>4, <1>5, <1>6, DoorMove DEF PreAuth, Session

LEMMA NoFrameDoor ==
  ASSUME Doors, NEW c \in Conns, NoFrame(c)
  PROVE  Doors' /\ limiter' = limiter
<1>0. /\ DoorOf(c) /\ conn[c].stage = "reading" /\ UNCHANGED <<limiter, challenges>>
  BY DEF Doors, NoFrame
<1>1. ASSUME NEW t \in {"top", "closing"}, To(c, t) PROVE Doors'
  <2>1. c \notin challenges
    BY <1>0 DEF DoorOf
  <2>2. QED
    BY <1>0, <1>1, <2>1, StageMove DEF PreAuth, Session, Stages
<1>2. QED
  BY <1>0, <1>1 DEF NoFrame

LEMMA BusinessFrameDoor ==
  ASSUME Bounds, Doors, NEW c \in Conns, NEW frame, BusinessFrame(c, frame)
  PROVE  Doors' /\ limiter' = limiter
<1>0. /\ conn \in [Conns -> ConnSet] /\ conn[c] \in ConnSet /\ DoorOf(c)
      /\ conn[c].stage = "reading" /\ UNCHANGED <<limiter, challenges>>
  BY DEF Doors, BusinessFrame
<1>1. c \notin challenges
  BY <1>0 DEF DoorOf
<1>2. CASE \E t \in {"top", "closing"} : To(c, t)
  <2>1. PICK t \in {"top", "closing"} : To(c, t)
    BY <1>2
  <2>2. QED
    BY <1>0, <1>1, <2>1, StageMove DEF PreAuth, Session, Stages
<1>3. CASE conn' = [conn EXCEPT ![c].stage = "top", ![c].last = now, ![c].pinged = FALSE]
  <2> DEFINE y == [conn[c] EXCEPT !.stage = "top", !.last = now, !.pinged = FALSE]
  <2>1. now \in Nat
    BY SessionsAssumption DEF Bounds
  <2>2. y \in ConnSet /\ y.stage = "top" /\ y.source = conn[c].source /\ y.device = conn[c].device
    BY <1>0, <2>1, Zenon DEF ConnSet, Stages, Session
  <2>3. conn' = [conn EXCEPT ![c] = y]
    BY <1>0, <1>3, Zenon
  <2> HIDE DEF y
  <2>4. /\ conn' \in [Conns -> ConnSet] /\ conn'[c] = y
        /\ \A x \in Conns : x # c => conn'[x] = conn[x]
    BY <1>0, <2>2, <2>3
  <2>5. QED
    BY <1>0, <1>1, <2>2, <2>4, DoorMove DEF PreAuth, Session
<1>4. QED
  BY <1>2, <1>3 DEF BusinessFrame, To

LEMMA CancelDoor ==
  ASSUME Doors, NEW c \in Conns, CancelConnection(c)
  PROVE  Doors' /\ limiter' = limiter
<1>1. /\ conn[c].stage = "closing" /\ To(c, "cancelled") /\ challenges' = challenges \ {c}
      /\ limiter' = limiter
  BY DEF CancelConnection
<1>2. QED
  BY <1>1, StageMove DEF PreAuth, Session, Stages

LEMMA NextDoors ==
  ASSUME Bounds, Doors, Counts, [Next]_vars
  PROVE  Doors' /\ Counts'
<1>1. CASE UNCHANGED <<conn, limiter, challenges>>
  BY <1>1, DoorFrame, CountsFrame
<1>2. CASE UNCHANGED vars
  BY <1>1, <1>2 DEF vars
<1>3. CASE Tick
  BY <1>1, <1>3 DEF Tick
<1>4. CASE Restart
  BY <1>4, RestartDoor
<1>5. ASSUME NEW s \in Secrets, IssuePairing(s) PROVE UNCHANGED <<conn, limiter, challenges>>
  BY <1>5 DEF IssuePairing
<1>6. ASSUME NEW d \in Devices, RevokeDeviceDurable(d) \/ DisconnectRevokedDevice(d)
      PROVE  UNCHANGED <<conn, limiter, challenges>>
  BY <1>6 DEF RevokeDeviceDurable, DisconnectRevokedDevice
<1>7. ASSUME NEW c \in Conns, NEW source \in Sources, SpawnConnection(c, source) PROVE Doors' /\ Counts'
  BY <1>7, SpawnDoor
<1>8. ASSUME NEW c \in Conns, HandshakeStep(c) \/ HandshakeEnds(c) PROVE Doors' /\ Counts'
  BY <1>8, HandshakeDoor, CountsFrame
<1>9. ASSUME NEW c \in Conns, Authenticated(c) PROVE Doors' /\ Counts'
  BY <1>9, AuthenticatedDoor
<1>10. ASSUME NEW c \in Conns, NEW s \in Secrets, PairRequest(c, s) PROVE Doors' /\ Counts'
  BY <1>10, PairRequestDoor, CountsFrame
<1>11. ASSUME NEW c \in Conns, NEW d \in Devices, ChallengeRequest(c, d) PROVE Doors' /\ Counts'
  BY <1>11, ChallengeRequestDoor, CountsFrame
<1>12. ASSUME NEW c \in Conns, NEW proof, ChallengeProof(c, proof) PROVE Doors' /\ Counts'
  BY <1>12, ChallengeProofDoor, CountsFrame
<1>13. ASSUME NEW c \in Conns, LoopTop(c) PROVE Doors' /\ Counts'
  BY <1>13, LoopTopDoor, CountsFrame
<1>14. ASSUME NEW c \in Conns, NoFrame(c) PROVE Doors' /\ Counts'
  BY <1>14, NoFrameDoor, CountsFrame
<1>15. ASSUME NEW c \in Conns, NEW frame, BusinessFrame(c, frame) PROVE Doors' /\ Counts'
  BY <1>15, BusinessFrameDoor, CountsFrame
<1>16. ASSUME NEW c \in Conns, CancelConnection(c) PROVE Doors' /\ Counts'
  BY <1>16, CancelDoor, CountsFrame
<1>17. ASSUME NEW c \in Conns, LimiterClose(c) PROVE Doors' /\ Counts'
  BY <1>17, LimiterCloseDoor
<1>18. QED
  BY <1>1, <1>2, <1>3, <1>4, <1>5, <1>6, <1>7, <1>8, <1>9, <1>10, <1>11, <1>12, <1>13, <1>14, <1>15,
     <1>16, <1>17 DEF Next

-----------------------------------------------------------------------------
(* What the door promises. *)

\* Threads and entries belong together, and the limiter's counts are within its limits
\* (limits.rs, ConnectionLimiter).
THEOREM DoorInvariant == Spec => [](Bounds /\ Doors /\ Counts)
<1>1. Init => Bounds /\ Doors /\ Counts
  BY InitBounds, InitDoors
<1>2. Bounds /\ Doors /\ Counts /\ [Next]_vars => (Bounds /\ Doors /\ Counts)'
  BY NextBounds, NextDoors
<1>3. QED
  BY <1>1, <1>2, PTL DEF Spec

\* The types of the state, and that a thread has an entry exactly while it runs
\* (server.rs, spawn_connection).
THEOREM TypeCorrect == Spec => []TypeOK
<1>1. Bounds /\ Doors /\ RegInv => TypeOK
  <2> SUFFICES ASSUME Bounds, Doors, RegInv PROVE TypeOK
    OBVIOUS
  <2>1. ASSUME NEW c \in Conns
        PROVE  /\ conn[c].stage \in Stages
               /\ (limiter[c] = Free) = (conn[c].stage = "free")
               /\ conn[c].stage \in Session => limiter[c].device = conn[c].device
               /\ c \in challenges => conn[c].stage \in {"proof", "closing"}
    <3>1. conn[c] \in ConnSet /\ DoorOf(c)
      BY DEF Doors
    <3>2. QED
      BY <3>1 DEF DoorOf, ConnSet
  <2>2. /\ registry.pairings \in [Secrets -> PairingSet]
        /\ registry.devices \in [Devices -> RecordSet]
    BY DEF RegInv, Sound, RegistrySet
  <2>3. told \subseteq Devices /\ now \in 0..MaxNow /\ revoking \subseteq Devices /\ revoked \subseteq Devices
    BY DEF RegInv, Bounds
  <2>4. QED
    BY <2>1, <2>2, <2>3 DEF TypeOK, PairingSet, RecordSet
<1>2. QED
  BY <1>1, DoorInvariant, RegistryInvariant, PTL

\* The limits hold of the connections themselves: no order of accepting, authenticating
\* and closing lets one more in (limits.rs, ConnectionLimiter::try_accept, authenticate).
THEOREM LimitsAreKept == Spec => []LimitsHold
<1>1. Bounds /\ Doors /\ Counts => LimitsHold
  <2> SUFFICES ASSUME Doors, Counts PROVE LimitsHold
    OBVIOUS
  <2> DEFINE open == {c \in Conns : conn[c].stage # "free"}
  <2>0. \A c \in Conns : DoorOf(c)
    BY DEF Doors
  <2>1. open = Entries
    BY <2>0 DEF DoorOf, Entries
  <2>2. ASSUME NEW s \in Sources PROVE {c \in open : conn[c].source = s} = EntriesOf(s)
    BY <2>0, <2>1 DEF DoorOf, EntriesOf, Entries
  <2>3. ASSUME NEW d \in Devices
        PROVE  Cardinality({c \in open : conn[c].stage \in Session /\ conn[c].device = d}) <= MaxPerDevice
    <3> DEFINE T == {c \in open : conn[c].stage \in Session /\ conn[c].device = d}
    <3>1. T \in SUBSET EntriesFor(d)
      BY <2>0, <2>1 DEF DoorOf, EntriesFor, Entries
    <3> HIDE DEF T
    <3>2. /\ Cardinality(EntriesFor(d)) \in Nat /\ Cardinality(T) \in Nat
          /\ Cardinality(T) <= Cardinality(EntriesFor(d))
      BY <3>1, EntriesAreConns, Counting
    <3>3. Cardinality(T) <= MaxPerDevice
      BY <3>2, SessionsAssumption DEF Counts
    <3>4. QED
      BY <3>3 DEF T
  <2>4. Cardinality({c \in open : conn[c].stage \in PreAuth}) <= MaxPreAuth
    <3> DEFINE T == {c \in open : conn[c].stage \in PreAuth}
    <3>1. T \in SUBSET EntriesFor(None)
      BY <2>0, <2>1 DEF DoorOf, EntriesFor, Entries
    <3> HIDE DEF T
    <3>2. /\ Cardinality(EntriesFor(None)) \in Nat /\ Cardinality(T) \in Nat
          /\ Cardinality(T) <= Cardinality(EntriesFor(None))
      BY <3>1, EntriesAreConns, Counting
    <3>3. Cardinality(T) <= MaxPreAuth
      BY <3>2, SessionsAssumption DEF Counts
    <3>4. QED
      BY <3>3 DEF T
  <2> HIDE DEF open
  <2>5. /\ Cardinality(open) <= MaxGlobal
        /\ \A s \in Sources : Cardinality({c \in open : conn[c].source = s}) <= MaxPerSource
    BY <2>1, <2>2, Zenon DEF Counts
  <2>6. QED
    BY <2>3, <2>4, <2>5 DEF LimitsHold, open
<1>2. QED
  BY <1>1, DoorInvariant, PTL

\* The clock is compared when a control frame is admitted, not when the pass began
\* (limits.rs, ensure_business_frame).
THEOREM ControlInSession == Spec => []ControlWithinSession
<1>1. Init => ControlWithinSession
  BY DEF Init, NothingAdmitted, ControlWithinSession, None
<1>2. ASSUME Bounds, Doors, ControlWithinSession, [Next]_vars PROVE ControlWithinSession'
  <2>1. ASSUME NEW c \in Conns, NEW frame, BusinessFrame(c, frame) PROVE ControlWithinSession'
    <3>1. \/ admitted' = admitted
          \/ admitted' = Admitted(c, frame) /\ (frame = "content" \/ ControlInTime(c))
      BY <2>1 DEF BusinessFrame
    <3>2. now \in Nat /\ conn[c].expires \in Nat
      <4>1. conn[c] \in ConnSet
        BY <1>2 DEF Doors
      <4>2. QED
        BY <1>2, <4>1, SessionsAssumption DEF Bounds, ConnSet
    <3>3. CASE admitted' = admitted
      BY <1>2, <3>3 DEF ControlWithinSession
    <3>4. CASE admitted' = Admitted(c, frame) /\ frame = "content"
      BY <3>4 DEF ControlWithinSession, Admitted
    <3>5. CASE admitted' = Admitted(c, frame) /\ ControlInTime(c)
      <4>1. ~(now >= conn[c].expires)
        BY <3>2, <3>5 DEF ControlInTime
      <4>2. QED
        BY <3>5, <4>1, Zenon DEF ControlWithinSession, Admitted
    <3>6. QED
      BY <3>1, <3>3, <3>4, <3>5
  <2>2. CASE admitted' = admitted
    BY <1>2, <2>2 DEF ControlWithinSession
  <2>3. ASSUME NEW c \in Conns,
               \/ HandshakeStep(c) \/ HandshakeEnds(c) \/ Authenticated(c) \/ LoopTop(c) \/ NoFrame(c)
               \/ CancelConnection(c) \/ LimiterClose(c)
        PROVE  admitted' = admitted
    BY <2>3 DEF HandshakeStep, HandshakeEnds, Authenticated, LoopTop, NoFrame, CancelConnection, LimiterClose
  <2>4. ASSUME NEW c \in Conns, NEW s, NEW d, NEW proof, NEW source,
               \/ SpawnConnection(c, source) \/ PairRequest(c, s) \/ ChallengeRequest(c, d)
               \/ ChallengeProof(c, proof)
        PROVE  admitted' = admitted
    BY <2>4 DEF SpawnConnection, PairRequest, ChallengeRequest, ChallengeProof
  <2>5. ASSUME NEW s, NEW d, \/ UNCHANGED vars \/ Tick \/ Restart \/ IssuePairing(s)
                             \/ RevokeDeviceDurable(d) \/ DisconnectRevokedDevice(d)
        PROVE  admitted' = admitted
    BY <2>5 DEF vars, Tick, Restart, IssuePairing, RevokeDeviceDurable, DisconnectRevokedDevice
  <2>6. QED
    BY <1>2, <2>1, <2>2, <2>3, <2>4, <2>5 DEF Next
<1>3. QED
  BY <1>1, <1>2, DoorInvariant, PTL DEF Spec
=============================================================================
