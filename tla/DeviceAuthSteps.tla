--------------------------- MODULE DeviceAuthSteps ---------------------------
(***************************************************************************)
(* What a phone reads, stores and signs keeps the inductive invariant of   *)
(* pairing and authentication.                                             *)
(***************************************************************************)
EXTENDS DeviceAuthInv

\* The answer to a pairing names a device that its host has registered.
LEMMA ReadPairedStep ==
  ASSUME AuthInv, NEW p \in Phones, ReadPaired(p)
  PROVE  AuthInv'
<1>0. /\ Types /\ CodesName /\ ToldHome /\ HeldIsRegistered /\ AnswersAreRegistered
      /\ PairingIsSound /\ Undialled /\ LookedUp /\ HeardIsAccepted /\ ConnectionIsOfCredential
  BY DEF AuthInv
<1>a. job[p] \in JobSet /\ job[p].conn \in Slots /\ ConnectionOf(p) /\ PairingOf(p)
  <2>1. job[p] \in JobSet /\ ConnectionOf(p) /\ PairingOf(p)
    BY <1>0 DEF Types, ConnectionIsOfCredential, PairingIsSound
  <2>2. job[p].task = "pair"
    BY DEF ReadPaired
  <2>3. QED
    BY <2>1, <2>2 DEF ConnectionOf
<1>b. /\ UNCHANGED <<at, key, vault, mem, conn, up, code, remote, devices, revoked, active, consumed, told, accepted, conns, serial>>
      /\ down' \in [Slots -> FrameSet] /\ \A c \in Slots : down'[c] = down[c] \/ down'[c] = Nothing
  BY <1>0, <1>a, Blanks DEF ReadPaired, Taken, Types
<1>c. CASE down[job[p].conn].host # code[job[p].code].host
  <2>1. job' = [job EXCEPT ![p] = Idle] /\ job[p].task = "pair"
    BY <1>c DEF ReadPaired
  <2>2. /\ job' \in [Phones -> JobSet] /\ \A q \in Phones : q # p => job'[q] = job[q]
        /\ job'[p].task = "idle"
    BY <1>0, <2>1, Blanks DEF Types
  <2>3. QED
    BY <1>b, <2>1, <2>2, JobEnds
<1>d. CASE down[job[p].conn].host = code[job[p].code].host
  <2>1. /\ UNCHANGED <<at, key, vault, mem, conn, up, code, remote, devices, revoked, active, consumed, told, accepted, conns, serial>>
        /\ job' \in [Phones -> JobSet] /\ down' \in [Slots -> FrameSet]
        /\ \A c \in Slots : down'[c] = down[c] \/ down'[c] = Nothing
        /\ \A q \in Phones : q # p => job'[q] = job[q]
        /\ job'[p].task = "store" /\ job'[p].code = job[p].code
        /\ Shown(job[p].code) /\ vault[p].device = mem[p].device
        /\ Registered(code[job[p].code].host, job'[p].device)
    <3>1. /\ job[p].task = "pair" /\ down[job[p].conn].kind = "paired"
          /\ job' = [job EXCEPT ![p] = [@ EXCEPT !.task = "store", !.device = down[job[p].conn].device]]
      BY <1>d DEF ReadPaired, Hears
    <3>2. down[job[p].conn].device \in Nat
      BY <1>0, <1>a, Fields DEF Types
    <3>3. /\ [job[p] EXCEPT !.task = "store", !.device = down[job[p].conn].device] \in JobSet
          /\ [job[p] EXCEPT !.task = "store", !.device = down[job[p].conn].device].task = "store"
          /\ [job[p] EXCEPT !.task = "store", !.device = down[job[p].conn].device].code = job[p].code
          /\ [job[p] EXCEPT !.task = "store", !.device = down[job[p].conn].device].device
                = down[job[p].conn].device
      BY <1>a, <3>2 DEF JobSet, Tasks
    <3>4. /\ job' \in [Phones -> JobSet] /\ \A q \in Phones : q # p => job'[q] = job[q]
          /\ job'[p].task = "store" /\ job'[p].code = job[p].code
          /\ job'[p].device = down[job[p].conn].device
      BY <1>0, <3>1, <3>3 DEF Types
    <3>5. Shown(job[p].code) /\ vault[p].device = mem[p].device
      BY <1>a, <3>1 DEF PairingOf
    <3>6. Registered(code[job[p].code].host, job'[p].device)
      BY <1>0, <1>a, <1>d, <3>1, <3>4 DEF AnswersAreRegistered
    <3>7. QED
      BY <1>b, <3>4, <3>5, <3>6
  <2>2. Types'
    BY <2>1, <1>0 DEF Types
  <2>3. CodesName' /\ ToldHome' /\ AnswersAreRegistered' /\ Undialled' /\ LookedUp' /\ HeardIsAccepted'
    BY <2>1, PhoneMoves
  <2>4. HeldIsRegistered'
    BY <1>0, <2>1, KeepHeld
  <2>5. PairingIsSound'
    <3>1. ASSUME NEW q \in Phones PROVE PairingOf(q)'
      <4>1. PairingOf(q)
        BY <1>0 DEF PairingIsSound
      <4>2. QED
        <5>1. UNCHANGED <<code, devices, vault, mem>>
          BY <2>1
        <5>2. CASE q = p
          <6>1. /\ job'[q].task = "store" /\ Shown(job'[q].code) /\ vault[q].device = mem[q].device
                /\ Registered(code[job'[q].code].host, job'[q].device)
            BY <2>1, <5>2
          <6>2. QED
            BY <5>1, <6>1 DEF PairingOf, Shown, Registered
        <5>3. CASE q # p
          <6>1. job'[q] = job[q]
            BY <2>1, <5>3
          <6>2. QED
            BY <4>1, <5>1, <6>1 DEF PairingOf, Shown, Registered, Credential
        <5>4. QED
          BY <5>2, <5>3
    <3>2. QED
      BY <3>1 DEF PairingIsSound
  <2>6. ConnectionIsOfCredential'
    <3>1. ASSUME NEW q \in Phones PROVE ConnectionOf(q)'
      <4>1. ConnectionOf(q)
        BY <1>0 DEF ConnectionIsOfCredential
      <4>2. QED
        BY <2>1, <1>0, <4>1 DEF ConnectionOf, Authenticating
    <3>2. QED
      BY <3>1 DEF ConnectionIsOfCredential
  <2>7. QED
    BY <2>2, <2>3, <2>4, <2>5, <2>6 DEF AuthInv
<1>e. QED
  BY <1>c, <1>d

\* What is stored is the credential of a code that was shown and of a registered device.
LEMMA CredentialIsSound ==
  ASSUME AuthInv, NEW p \in Phones, job[p].task \in {"store", "stored"}
  PROVE  /\ Credential(p) \in CredentialSet
         /\ Registered(Credential(p).host, Credential(p).device)
         /\ Credential(p).address \in Addresses
         /\ Credential(p).device = job[p].device
<1>1. Types /\ CodesName /\ PairingOf(p)
  BY DEF AuthInv, PairingIsSound
<1>2. Shown(job[p].code) /\ Registered(code[job[p].code].host, job[p].device)
  BY <1>1 DEF PairingOf
<1>3. code[job[p].code].host \in Hosts /\ code[job[p].code].address \in Addresses
  BY <1>1, <1>2 DEF CodesName, Shown
<1>4. job[p].device \in Nat
  BY <1>1, Fields DEF Types
<1>5. QED
  BY <1>2, <1>3, <1>4 DEF Credential, CredentialSet, HostOrNone

\* The vault takes the credential, or refuses it.
LEMMA StorePairedStep ==
  ASSUME AuthInv, NEW p \in Phones, StorePaired(p)
  PROVE  AuthInv'
<1>0. /\ Types /\ CodesName /\ ToldHome /\ HeldIsRegistered /\ AnswersAreRegistered
      /\ PairingIsSound /\ Undialled /\ LookedUp /\ HeardIsAccepted /\ ConnectionIsOfCredential
  BY DEF AuthInv
<1>a. /\ job[p].task = "store" /\ job[p] \in JobSet /\ Idle \in JobSet /\ PairingOf(p)
      /\ UNCHANGED <<at, key, mem, conn, up, down, code, remote, devices, revoked, active, consumed, told, accepted, conns, serial>>
  BY <1>0, Blanks DEF StorePaired, Types, PairingIsSound
<1>b. CASE vault' = vault /\ job' = [job EXCEPT ![p] = Idle]
  <2>1. /\ job' \in [Phones -> JobSet] /\ \A q \in Phones : q # p => job'[q] = job[q]
        /\ job'[p].task = "idle"
    BY <1>0, <1>b, Blanks DEF Types
  <2>2. down' \in [Slots -> FrameSet] /\ \A c \in Slots : down'[c] = down[c]
    BY <1>0, <1>a DEF Types
  <2>3. QED
    BY <1>a, <1>b, <2>1, <2>2, JobEnds
<1>c. CASE vault' = [vault EXCEPT ![p] = Credential(p)] /\ job' = [job EXCEPT ![p].task = "stored"]
  <2>1. /\ UNCHANGED <<at, key, mem, conn, up, down, code, remote, devices, revoked, active, consumed, told, accepted, conns, serial>>
        /\ job' \in [Phones -> JobSet] /\ vault' \in [Phones -> CredentialSet]
        /\ \A q \in Phones : q # p => job'[q] = job[q] /\ vault'[q] = vault[q]
        /\ job'[p].task = "stored" /\ job'[p].code = job[p].code /\ job'[p].device = job[p].device
        /\ vault'[p] = Credential(p) /\ Registered(vault'[p].host, vault'[p].device)
        /\ vault'[p].address \in Addresses /\ Shown(job[p].code)
        /\ Registered(code[job[p].code].host, job[p].device)
    <3>1. /\ [job[p] EXCEPT !.task = "stored"] \in JobSet
          /\ [job[p] EXCEPT !.task = "stored"].task = "stored"
          /\ [job[p] EXCEPT !.task = "stored"].code = job[p].code
          /\ [job[p] EXCEPT !.task = "stored"].device = job[p].device
      BY <1>a DEF JobSet, Tasks
    <3>2. /\ job' \in [Phones -> JobSet] /\ \A q \in Phones : q # p => job'[q] = job[q]
          /\ job'[p] = [job[p] EXCEPT !.task = "stored"]
      BY <1>0, <1>c, <3>1 DEF Types
    <3>3. /\ Credential(p) \in CredentialSet /\ Credential(p).address \in Addresses
          /\ Registered(Credential(p).host, Credential(p).device)
      BY <1>a, CredentialIsSound
    <3>4. /\ vault' \in [Phones -> CredentialSet] /\ \A q \in Phones : q # p => vault'[q] = vault[q]
          /\ vault'[p] = Credential(p)
      BY <1>0, <1>c, <3>3 DEF Types
    <3>5. Shown(job[p].code) /\ Registered(code[job[p].code].host, job[p].device)
      BY <1>a DEF PairingOf
    <3>6. QED
      BY <1>a, <3>1, <3>2, <3>3, <3>4, <3>5
  <2>2. Types'
    BY <1>0, <2>1 DEF Types
  <2>3. CodesName' /\ ToldHome' /\ AnswersAreRegistered' /\ Undialled' /\ LookedUp' /\ HeardIsAccepted'
    BY <2>1, PhoneMoves
  <2>4. HeldIsRegistered'
    <3>1. /\ UNCHANGED <<mem, devices>> /\ \A q \in Phones : q # p => vault'[q] = vault[q]
          /\ Registered(vault'[p].host, vault'[p].device) /\ vault'[p].address \in Addresses
      BY <2>1
    <3>2. ASSUME NEW q \in Phones PROVE HeldOf(q)'
      <4>1. HeldOf(q)
        BY <1>0 DEF HeldIsRegistered
      <4>2. CASE q = p
        BY <3>1, <4>1, <4>2 DEF HeldOf, Registered
      <4>3. CASE q # p
        BY <3>1, <4>1, <4>3 DEF HeldOf, Registered
      <4>4. QED
        BY <4>2, <4>3
    <3>3. QED
      BY <3>2 DEF HeldIsRegistered
  <2>5. PairingIsSound'
    <3>1. ASSUME NEW q \in Phones PROVE PairingOf(q)'
      <4>1. PairingOf(q)
        BY <1>0 DEF PairingIsSound
      <4>2. CASE q = p
        <5>1. Credential(p)' = Credential(p)
          BY <2>1 DEF Credential
        <5>2. QED
          BY <2>1, <4>2, <5>1 DEF PairingOf, Shown, Registered
      <4>3. CASE q # p
        BY <2>1, <4>1, <4>3 DEF PairingOf, Shown, Registered, Credential
      <4>4. QED
        BY <4>2, <4>3
    <3>2. QED
      BY <3>1 DEF PairingIsSound
  <2>6. ConnectionIsOfCredential'
    <3>1. ASSUME NEW q \in Phones PROVE ConnectionOf(q)'
      <4>1. ConnectionOf(q)
        BY <1>0 DEF ConnectionIsOfCredential
      <4>2. QED
        BY <2>1, <4>1 DEF ConnectionOf, Authenticating
    <3>2. QED
      BY <3>1 DEF ConnectionIsOfCredential
  <2>7. QED
    BY <2>2, <2>3, <2>4, <2>5, <2>6 DEF AuthInv
<1>d. QED
  BY <1>b, <1>c DEF StorePaired

\* Memory follows the vault.
LEMMA FinishPairedStep ==
  ASSUME AuthInv, NEW p \in Phones, FinishPaired(p)
  PROVE  AuthInv'
<1>0. /\ Types /\ CodesName /\ ToldHome /\ HeldIsRegistered /\ AnswersAreRegistered
      /\ PairingIsSound /\ Undialled /\ LookedUp /\ HeardIsAccepted /\ ConnectionIsOfCredential
  BY DEF AuthInv
<1>1. /\ UNCHANGED <<at, key, vault, conn, up, down, code, remote, devices, revoked, active, consumed, told, accepted, conns, serial>>
      /\ job' \in [Phones -> JobSet] /\ mem' \in [Phones -> CredentialSet]
      /\ \A q \in Phones : q # p => job'[q] = job[q] /\ mem'[q] = mem[q]
      /\ job'[p].task = "idle" /\ mem'[p].device = vault[p].device
      /\ Registered(mem'[p].host, mem'[p].device) /\ mem'[p].address \in Addresses
  <2>1. /\ job[p].task = "stored" /\ mem' = [mem EXCEPT ![p] = Credential(p)]
        /\ job' = [job EXCEPT ![p] = Idle]
        /\ UNCHANGED <<at, key, vault, conn, up, down, code, remote, devices, revoked, active, consumed, told, accepted, conns, serial>>
    BY DEF FinishPaired
  <2>2. /\ Credential(p) \in CredentialSet /\ Credential(p).address \in Addresses
        /\ Registered(Credential(p).host, Credential(p).device)
    BY <2>1, CredentialIsSound
  <2>3. vault[p] = Credential(p)
    BY <1>0, <2>1 DEF PairingIsSound, PairingOf
  <2>4. QED
    BY <1>0, <2>1, <2>2, <2>3, Blanks DEF Types
<1>2. Types'
  BY <1>0, <1>1 DEF Types
<1>3. CodesName' /\ ToldHome' /\ AnswersAreRegistered' /\ Undialled' /\ LookedUp' /\ HeardIsAccepted'
  BY <1>1, PhoneMoves
<1>4. HeldIsRegistered'
  <2>1. /\ UNCHANGED <<vault, devices>> /\ \A q \in Phones : q # p => mem'[q] = mem[q]
        /\ Registered(mem'[p].host, mem'[p].device) /\ mem'[p].address \in Addresses
    BY <1>1
  <2>2. ASSUME NEW q \in Phones PROVE HeldOf(q)'
    <3>1. HeldOf(q)
      BY <1>0 DEF HeldIsRegistered
    <3>2. CASE q = p
      BY <2>1, <3>1, <3>2 DEF HeldOf, Registered
    <3>3. CASE q # p
      BY <2>1, <3>1, <3>3 DEF HeldOf, Registered
    <3>4. QED
      BY <3>2, <3>3
  <2>3. QED
    BY <2>2 DEF HeldIsRegistered
<1>5. PairingIsSound'
  <2>1. ASSUME NEW q \in Phones PROVE PairingOf(q)'
    <3>1. PairingOf(q)
      BY <1>0 DEF PairingIsSound
    <3>2. QED
      BY <1>1, <3>1 DEF PairingOf, Shown, Registered, Credential
  <2>2. QED
    BY <2>1 DEF PairingIsSound
<1>6. ConnectionIsOfCredential'
  <2>1. ASSUME NEW q \in Phones PROVE ConnectionOf(q)'
    <3>1. ConnectionOf(q)
      BY <1>0 DEF ConnectionIsOfCredential
    <3>2. QED
      BY <1>1, <3>1 DEF ConnectionOf, Authenticating
  <2>2. QED
    BY <2>1 DEF ConnectionIsOfCredential
<1>7. QED
  BY <1>2, <1>3, <1>4, <1>5, <1>6 DEF AuthInv

\* The proof is not a challenge and not a pairing.
LEMMA SignStep ==
  ASSUME AuthInv, NEW p \in Phones, Sign(p)
  PROVE  AuthInv'
<1>0. /\ Types /\ CodesName /\ ToldHome /\ HeldIsRegistered /\ AnswersAreRegistered
      /\ PairingIsSound /\ Undialled /\ LookedUp /\ HeardIsAccepted /\ ConnectionIsOfCredential
  BY DEF AuthInv
<1>1. /\ UNCHANGED <<at, vault, mem, job, conn, code, remote, devices, revoked, active, consumed, told, accepted, conns>>
      /\ key' \in [Phones -> Nat] /\ serial' \in Nat
      /\ up' \in [Slots -> FrameSet] /\ down' \in [Slots -> FrameSet]
      /\ \A c \in Slots : up'[c] = up[c] \/ up'[c].kind = "proof"
      /\ \A c \in Slots : down'[c] = down[c] \/ down'[c] = Nothing
  <2>1. key' \in [Phones -> Nat] /\ serial' \in Nat /\ KeyOf(p) \in Nat
    <3>1. key \in [Phones -> Nat] /\ serial \in Nat /\ UsesKey(p)
      BY <1>0 DEF Sign, Types
    <3>2. QED
      BY <3>1 DEF UsesKey, KeyOf
  <2>2. mem[p].host \in HostOrNone /\ mem[p].device \in Nat /\ job[p].conn \in 0..MaxConns
    BY <1>0, Fields DEF Types
  <2>3. DEFINE proof == [kind |-> "proof", code |-> None, key |-> KeyOf(p), device |-> mem[p].device,
                         host |-> mem[p].host, conn |-> job[p].conn]
  <2>4. proof \in FrameSet /\ proof.kind = "proof"
    BY <2>1, <2>2 DEF FrameSet, Kinds
  <2>5. /\ up' = [up EXCEPT ![job[p].conn] = proof] /\ down' = [down EXCEPT ![job[p].conn] = Nothing]
        /\ UNCHANGED <<at, vault, mem, job, conn, code, remote, devices, revoked, active, consumed, told, accepted, conns>>
    BY DEF Sign, Taken
  <2>6. QED
    <3> HIDE DEF proof
    <3>1. QED
      BY <1>0, <2>1, <2>4, <2>5, Blanks DEF Types
<1>2. Types'
  BY <1>0, <1>1 DEF Types
<1>3. CodesName' /\ ToldHome' /\ AnswersAreRegistered' /\ Undialled' /\ LookedUp' /\ HeardIsAccepted'
  BY <1>1, PhoneMoves
<1>4. ToldHome' /\ HeldIsRegistered' /\ PairingIsSound'
  BY <1>1, HostMoves DEF Shown
<1>5. ConnectionIsOfCredential'
  <2>1. ASSUME NEW q \in Phones PROVE ConnectionOf(q)'
    <3>1. ConnectionOf(q)
      BY <1>0 DEF ConnectionIsOfCredential
    <3>2. QED
      BY <1>1, <3>1 DEF ConnectionOf, Authenticating
  <2>2. QED
    BY <2>1 DEF ConnectionIsOfCredential
<1>6. QED
  BY <1>2, <1>3, <1>4, <1>5 DEF AuthInv

\* The phone is online with the host that accepted it.
LEMMA ReadAcceptedStep ==
  ASSUME AuthInv, NEW p \in Phones, ReadAccepted(p)
  PROVE  AuthInv'
<1>0. /\ Types /\ CodesName /\ ToldHome /\ HeldIsRegistered /\ AnswersAreRegistered
      /\ PairingIsSound /\ Undialled /\ LookedUp /\ HeardIsAccepted /\ ConnectionIsOfCredential
  BY DEF AuthInv
<1>1. /\ UNCHANGED <<at, key, vault, mem, conn, up, code, remote, devices, revoked, active, consumed, told, accepted, conns, serial>>
      /\ job' \in [Phones -> JobSet] /\ down' \in [Slots -> FrameSet]
      /\ \A c \in Slots : down'[c] = down[c] \/ down'[c] = Nothing
      /\ \A q \in Phones : q # p => job'[q] = job[q]
      /\ job'[p].task = "online" /\ job'[p].conn = job[p].conn
      /\ job[p].task \in {"lan", "remote"} /\ ConnectionOf(p) /\ PairingOf(p)
      /\ \E a \in accepted : a.conn = job[p].conn /\ a.host = mem[p].host /\ a.device = mem[p].device
  <2>1. /\ job[p].task \in {"lan", "remote"} /\ down[job[p].conn].kind = "accepted"
        /\ down' = [down EXCEPT ![job[p].conn] = Nothing] /\ job' = [job EXCEPT ![p].task = "online"]
        /\ UNCHANGED <<at, key, vault, mem, conn, up, code, remote, devices, revoked, active, consumed, told, accepted, conns, serial>>
    BY DEF ReadAccepted, Hears, Taken
  <2>2. ConnectionOf(p) /\ PairingOf(p) /\ job[p] \in JobSet
    BY <1>0 DEF ConnectionIsOfCredential, PairingIsSound, Types
  <2>3. /\ job[p].conn \in Slots /\ conn[job[p].conn].host = mem[p].host
        /\ conn[job[p].conn].stage = "accepted" => conn[job[p].conn].device = mem[p].device
    BY <2>1, <2>2 DEF ConnectionOf, Authenticating
  <2>4. \E a \in accepted : a.conn = job[p].conn /\ a.host = mem[p].host /\ a.device = mem[p].device
    BY <1>0, <2>1, <2>3 DEF HeardIsAccepted
  <2>5. /\ [job[p] EXCEPT !.task = "online"] \in JobSet
        /\ [job[p] EXCEPT !.task = "online"].task = "online"
        /\ [job[p] EXCEPT !.task = "online"].conn = job[p].conn
    BY <2>2 DEF JobSet, Tasks
  <2>6. QED
    BY <1>0, <2>1, <2>2, <2>4, <2>5, Blanks DEF Types
<1>2. Types'
  BY <1>0, <1>1 DEF Types
<1>3. CodesName' /\ ToldHome' /\ AnswersAreRegistered' /\ Undialled' /\ LookedUp' /\ HeardIsAccepted'
  BY <1>1, PhoneMoves
<1>4. HeldIsRegistered'
  BY <1>0, <1>1, KeepHeld
<1>5. PairingIsSound'
  <2>1. ASSUME NEW q \in Phones PROVE PairingOf(q)'
    <3>1. PairingOf(q)
      BY <1>0 DEF PairingIsSound
    <3>2. QED
      BY <1>1, <3>1 DEF PairingOf, Shown, Registered, Credential
  <2>2. QED
    BY <2>1 DEF PairingIsSound
<1>6. ConnectionIsOfCredential'
  <2>1. ASSUME NEW q \in Phones PROVE ConnectionOf(q)'
    <3>1. ConnectionOf(q)
      BY <1>0 DEF ConnectionIsOfCredential
    <3>2. /\ UNCHANGED <<mem, conn, up, accepted, conns>>
          /\ q # p => job'[q] = job[q]
      BY <1>1
    <3>3. CASE q = p
      BY <1>1, <3>1, <3>2, <3>3 DEF ConnectionOf, Authenticating
    <3>4. CASE q # p
      BY <3>1, <3>2, <3>4 DEF ConnectionOf
    <3>5. QED
      BY <3>3, <3>4
  <2>2. QED
    BY <2>1 DEF ConnectionIsOfCredential
<1>7. QED
  BY <1>2, <1>3, <1>4, <1>5, <1>6 DEF AuthInv

\* A new process reads the vault.
LEMMA PhoneRestartsStep ==
  ASSUME AuthInv, NEW p \in Phones, PhoneRestarts(p)
  PROVE  AuthInv'
<1>0. /\ Types /\ CodesName /\ ToldHome /\ HeldIsRegistered /\ AnswersAreRegistered
      /\ PairingIsSound /\ Undialled /\ LookedUp /\ HeardIsAccepted /\ ConnectionIsOfCredential
  BY DEF AuthInv
<1>1. /\ UNCHANGED <<at, key, vault, conn, up, down, code, remote, devices, revoked, active, consumed, told, accepted, conns, serial>>
      /\ job' \in [Phones -> JobSet] /\ mem' \in [Phones -> CredentialSet]
      /\ \A q \in Phones : q # p => job'[q] = job[q] /\ mem'[q] = mem[q]
      /\ job'[p].task = "idle" /\ mem'[p] = vault[p]
  BY <1>0, Blanks DEF PhoneRestarts, Types
<1>2. Types'
  BY <1>0, <1>1 DEF Types
<1>3. CodesName' /\ ToldHome' /\ AnswersAreRegistered' /\ Undialled' /\ LookedUp' /\ HeardIsAccepted'
  BY <1>1, PhoneMoves
<1>4. HeldIsRegistered'
  <2>1. /\ UNCHANGED <<vault, devices>> /\ \A q \in Phones : q # p => mem'[q] = mem[q]
        /\ mem'[p] = vault[p]
    BY <1>1
  <2>2. ASSUME NEW q \in Phones PROVE HeldOf(q)'
    <3>1. HeldOf(q)
      BY <1>0 DEF HeldIsRegistered
    <3>2. CASE q = p
      BY <2>1, <3>1, <3>2 DEF HeldOf, Registered
    <3>3. CASE q # p
      BY <2>1, <3>1, <3>3 DEF HeldOf, Registered
    <3>4. QED
      BY <3>2, <3>3
  <2>3. QED
    BY <2>2 DEF HeldIsRegistered
<1>5. PairingIsSound'
  <2>1. ASSUME NEW q \in Phones PROVE PairingOf(q)'
    <3>1. PairingOf(q)
      BY <1>0 DEF PairingIsSound
    <3>2. QED
      BY <1>1, <3>1 DEF PairingOf, Shown, Registered, Credential
  <2>2. QED
    BY <2>1 DEF PairingIsSound
<1>6. ConnectionIsOfCredential'
  <2>1. ASSUME NEW q \in Phones PROVE ConnectionOf(q)'
    <3>1. ConnectionOf(q)
      BY <1>0 DEF ConnectionIsOfCredential
    <3>2. QED
      BY <1>1, <3>1 DEF ConnectionOf, Authenticating
  <2>2. QED
    BY <2>1 DEF ConnectionIsOfCredential
<1>7. QED
  BY <1>2, <1>3, <1>4, <1>5, <1>6 DEF AuthInv

\* A key that is lost is made anew on its next use.
LEMMA KeyLostStep ==
  ASSUME AuthInv, NEW p \in Phones, KeyLost(p)
  PROVE  AuthInv'
<1>0. /\ Types /\ CodesName /\ ToldHome /\ HeldIsRegistered /\ AnswersAreRegistered
      /\ PairingIsSound /\ Undialled /\ LookedUp /\ HeardIsAccepted /\ ConnectionIsOfCredential
  BY DEF AuthInv
<1>1. /\ UNCHANGED <<at, vault, mem, job, conn, up, down, code, remote, devices, revoked, active, consumed, told, accepted, conns, serial>>
      /\ key' \in [Phones -> Nat]
  BY <1>0 DEF KeyLost, Types
<1>2. Types'
  BY <1>0, <1>1 DEF Types
<1>3. QED
  BY <1>0, <1>1, <1>2, OthersMove DEF CodesName, Shown

\* A remote path changes nothing else of a credential.
LEMMA ConfigureRemoteStep ==
  ASSUME AuthInv, NEW p \in Phones, NEW r \in RemoteCodes, ConfigureRemote(p, r)
  PROVE  AuthInv'
<1>0. /\ Types /\ CodesName /\ ToldHome /\ HeldIsRegistered /\ AnswersAreRegistered
      /\ PairingIsSound /\ Undialled /\ LookedUp /\ HeardIsAccepted /\ ConnectionIsOfCredential
  BY DEF AuthInv
<1>1. /\ UNCHANGED <<at, key, job, conn, up, down, code, remote, devices, revoked, active, consumed, told, accepted, conns, serial>>
      /\ mem' \in [Phones -> CredentialSet] /\ vault' \in [Phones -> CredentialSet]
      /\ mem[p] # NoCredential /\ job[p].task = "idle"
      /\ \A q \in Phones : q # p => mem'[q] = mem[q] /\ vault'[q] = vault[q]
      /\ mem'[p].host = mem[p].host /\ mem'[p].device = mem[p].device /\ mem'[p].address = mem[p].address
      /\ vault'[p] = vault[p] \/ vault'[p] = mem'[p]
  <2>1. PICK x \in RemoteCodes \cup {None} :
          /\ mem' = [mem EXCEPT ![p].remote = x]
          /\ vault' = vault \/ vault' = [vault EXCEPT ![p] = mem'[p]]
    BY DEF ConfigureRemote
  <2>2. /\ mem[p] # NoCredential /\ job[p].task = "idle"
        /\ UNCHANGED <<at, key, job, conn, up, down, code, remote, devices, revoked, active, consumed, told, accepted, conns, serial>>
    BY DEF ConfigureRemote
  <2>3. mem[p] \in CredentialSet
    BY <1>0 DEF Types
  <2>4. /\ [mem[p] EXCEPT !.remote = x] \in CredentialSet
        /\ [mem[p] EXCEPT !.remote = x].host = mem[p].host
        /\ [mem[p] EXCEPT !.remote = x].device = mem[p].device
        /\ [mem[p] EXCEPT !.remote = x].address = mem[p].address
    BY <2>3 DEF CredentialSet
  <2>5. /\ mem' \in [Phones -> CredentialSet] /\ mem'[p] = [mem[p] EXCEPT !.remote = x]
        /\ \A q \in Phones : q # p => mem'[q] = mem[q]
    BY <1>0, <2>1, <2>4 DEF Types
  <2>6. /\ vault' \in [Phones -> CredentialSet] /\ (vault'[p] = vault[p] \/ vault'[p] = mem'[p])
        /\ \A q \in Phones : q # p => vault'[q] = vault[q]
    BY <1>0, <2>1, <2>5 DEF Types
  <2>7. QED
    BY <2>2, <2>4, <2>5, <2>6
<1>2. Types'
  BY <1>0, <1>1 DEF Types
<1>3. CodesName' /\ ToldHome' /\ AnswersAreRegistered' /\ Undialled' /\ LookedUp' /\ HeardIsAccepted'
  BY <1>1, PhoneMoves
<1>4. HeldIsRegistered'
  <2>1. /\ devices' = devices /\ mem[p] # NoCredential
        /\ \A q \in Phones : q # p => mem'[q] = mem[q] /\ vault'[q] = vault[q]
        /\ mem'[p].host = mem[p].host /\ mem'[p].device = mem[p].device
        /\ mem'[p].address = mem[p].address /\ (vault'[p] = vault[p] \/ vault'[p] = mem'[p])
    BY <1>1
  <2>2. ASSUME NEW q \in Phones PROVE HeldOf(q)'
    <3>1. HeldOf(q)
      BY <1>0 DEF HeldIsRegistered
    <3>2. CASE q = p
      BY <2>1, <3>1, <3>2 DEF HeldOf, Registered
    <3>3. CASE q # p
      BY <2>1, <3>1, <3>3 DEF HeldOf, Registered
    <3>4. QED
      BY <3>2, <3>3
  <2>3. QED
    BY <2>2 DEF HeldIsRegistered
<1>5. PairingIsSound'
  <2>1. ASSUME NEW q \in Phones PROVE PairingOf(q)'
    <3>1. PairingOf(q)
      BY <1>0 DEF PairingIsSound
    <3>2. CASE q = p
      <4>1. vault[p].device = mem[p].device
        BY <1>1, <3>1, <3>2 DEF PairingOf
      <4>2. QED
        BY <1>1, <3>2, <4>1 DEF PairingOf
    <3>3. CASE q # p
      BY <1>1, <3>1, <3>3 DEF PairingOf, Shown, Registered, Credential
    <3>4. QED
      BY <3>2, <3>3
  <2>2. QED
    BY <2>1 DEF PairingIsSound
<1>6. ConnectionIsOfCredential'
  <2>1. ASSUME NEW q \in Phones PROVE ConnectionOf(q)'
    <3>1. ConnectionOf(q)
      BY <1>0 DEF ConnectionIsOfCredential
    <3>2. QED
      BY <1>1, <3>1 DEF ConnectionOf, Authenticating
  <2>2. QED
    BY <2>1 DEF ConnectionIsOfCredential
<1>7. QED
  BY <1>2, <1>3, <1>4, <1>5, <1>6 DEF AuthInv
=============================================================================
