-------------------------- MODULE DeviceAuthProofs --------------------------
(***************************************************************************)
(* Pairing and authentication, for every set of phones, hosts, addresses   *)
(* and codes and any number of connections and faults: a phone keeps only  *)
(* a credential its host has recorded, a secret is told only to the host   *)
(* that showed it, and an online phone and its host agree on who they are. *)
(***************************************************************************)
EXTENDS DeviceAuthSteps

-----------------------------------------------------------------------------
(* The steps of the host and of the network. *)

\* A connection that is over, and what was under way in it.
LEMMA ConnsClose ==
  ASSUME AuthInv, conn' \in [Slots -> ConnSet],
         up' \in [Slots -> FrameSet],
         down' \in [Slots -> FrameSet],
         active' \subseteq active,
         consumed' \subseteq consumed,
         serial' \in Nat,
         \A c \in Slots :
            \/ conn'[c] = conn[c] /\ up'[c] = up[c] /\ down'[c] = down[c]
            \/ /\ conn'[c].stage = "closed" /\ conn'[c].host = conn[c].host
               /\ up'[c] = Nothing /\ down'[c].kind \in {None, "error"},
         UNCHANGED <<at, key, vault, mem, job, code, remote, devices, revoked, told, accepted, conns>>
  PROVE  AuthInv'
<1>0. /\ Types /\ CodesName /\ ToldHome /\ HeldIsRegistered /\ AnswersAreRegistered
      /\ PairingIsSound /\ Undialled /\ LookedUp /\ HeardIsAccepted /\ ConnectionIsOfCredential
  BY DEF AuthInv
<1>1. Types'
  BY <1>0 DEF Types
<1>2. CodesName' /\ ToldHome' /\ HeldIsRegistered' /\ PairingIsSound'
  BY <1>0, HostMoves DEF CodesName, Shown
<1>3. AnswersAreRegistered'
  BY <1>0 DEF AnswersAreRegistered, Registered, None
<1>4. Undialled'
  BY <1>0 DEF Undialled
<1>5. LookedUp'
  BY <1>0 DEF LookedUp
<1>6. HeardIsAccepted'
  BY <1>0 DEF HeardIsAccepted, None
<1>7. ConnectionIsOfCredential'
  <2>1. ASSUME NEW q \in Phones PROVE ConnectionOf(q)'
    <3>1. ConnectionOf(q)
      BY <1>0 DEF ConnectionIsOfCredential
    <3>2. CASE job[q].conn \in Slots
      BY <1>0, <3>1, <3>2, Blanks DEF ConnectionOf, Authenticating, None
    <3>3. CASE job[q].conn \notin Slots
      BY <3>1, <3>3 DEF ConnectionOf, Authenticating
    <3>4. QED
      BY <3>2, <3>3
  <2>2. QED
    BY <2>1 DEF ConnectionIsOfCredential
<1>8. QED
  BY <1>1, <1>2, <1>3, <1>4, <1>5, <1>6, <1>7 DEF AuthInv

\* The error of a refusal is neither an answer nor an acceptance.
LEMMA ErrorFrame ==
  [Nothing EXCEPT !.kind = "error"] \in FrameSet /\ [Nothing EXCEPT !.kind = "error"].kind = "error"
BY Blanks DEF FrameSet, Kinds

\* A host refuses, or a connection ends at either side.
LEMMA CloseStep ==
  ASSUME AuthInv, NEW c \in Slots, NEW f \in {Nothing, [Nothing EXCEPT !.kind = "error"]},
         conn' = [conn EXCEPT ![c].stage = "closed"], CancelConnection(c), serial' \in Nat,
         up' = [up EXCEPT ![c] = Nothing], down' = [down EXCEPT ![c] = f],
         UNCHANGED <<at, key, vault, mem, job, code, remote, devices, revoked, told, accepted, conns>>
  PROVE  AuthInv'
<1>0. /\ Types /\ CodesName /\ ToldHome /\ HeldIsRegistered /\ AnswersAreRegistered
      /\ PairingIsSound /\ Undialled /\ LookedUp /\ HeardIsAccepted /\ ConnectionIsOfCredential
  BY DEF AuthInv
<1>1. f \in FrameSet /\ f.kind \in {None, "error"}
  BY ErrorFrame, Blanks
<1>2. conn[c] \in ConnSet /\ "closed" \in Stages
  BY <1>0 DEF Types, Stages
<1>3. /\ [conn[c] EXCEPT !.stage = "closed"] \in ConnSet
      /\ [conn[c] EXCEPT !.stage = "closed"].stage = "closed"
      /\ [conn[c] EXCEPT !.stage = "closed"].host = conn[c].host
  BY <1>2 DEF ConnSet
<1>4. /\ conn' \in [Slots -> ConnSet] /\ conn'[c] = [conn[c] EXCEPT !.stage = "closed"]
      /\ \A x \in Slots : x # c => conn'[x] = conn[x]
  BY <1>0, <1>3 DEF Types
<1>5. /\ up' \in [Slots -> FrameSet] /\ down' \in [Slots -> FrameSet]
      /\ up'[c] = Nothing /\ down'[c] = f
      /\ \A x \in Slots : x # c => up'[x] = up[x] /\ down'[x] = down[x]
  BY <1>0, <1>1, Blanks DEF Types
<1>6. active' \subseteq active /\ consumed' \subseteq consumed
  BY DEF CancelConnection
<1>7. \A x \in Slots :
        \/ conn'[x] = conn[x] /\ up'[x] = up[x] /\ down'[x] = down[x]
        \/ /\ conn'[x].stage = "closed" /\ conn'[x].host = conn[x].host
           /\ up'[x] = Nothing /\ down'[x].kind \in {None, "error"}
  BY <1>1, <1>3, <1>4, <1>5
<1>8. QED
  BY <1>4, <1>5, <1>6, <1>7, ConnsClose

\* A connection's thread ends, or the connection breaks.
LEMMA BreakStep ==
  ASSUME AuthInv, NEW c \in Slots, HostCloses(c) \/ ConnectionBreaks(c)
  PROVE  AuthInv'
<1>0. /\ Types /\ CodesName /\ ToldHome /\ HeldIsRegistered /\ AnswersAreRegistered
      /\ PairingIsSound /\ Undialled /\ LookedUp /\ HeardIsAccepted /\ ConnectionIsOfCredential
  BY DEF AuthInv
<1>1. /\ conn' = [conn EXCEPT ![c].stage = "closed"] /\ CancelConnection(c)
      /\ up' = [up EXCEPT ![c] = Nothing] /\ down' = [down EXCEPT ![c] = Nothing]
      /\ serial' = serial
      /\ UNCHANGED <<at, key, vault, mem, job, code, remote, devices, revoked, told, accepted, conns>>
  BY DEF HostCloses, ConnectionBreaks
<1>2. serial' \in Nat
  BY <1>0, <1>1 DEF Types
<1>3. QED
  BY <1>1, <1>2, CloseStep

\* A host that dies takes its connections along.
LEMMA HostRestartsStep ==
  ASSUME AuthInv, NEW h \in Hosts, HostRestarts(h)
  PROVE  AuthInv'
<1>0. /\ Types /\ CodesName /\ ToldHome /\ HeldIsRegistered /\ AnswersAreRegistered
      /\ PairingIsSound /\ Undialled /\ LookedUp /\ HeardIsAccepted /\ ConnectionIsOfCredential
  BY DEF AuthInv
<1>1. /\ conn' = [c \in Slots |-> IF conn[c].host = h THEN [conn[c] EXCEPT !.stage = "closed"] ELSE conn[c]]
      /\ up' = [c \in Slots |-> IF conn[c].host = h THEN Nothing ELSE up[c]]
      /\ down' = [c \in Slots |-> IF conn[c].host = h THEN Nothing ELSE down[c]]
      /\ active' \subseteq active /\ consumed' \subseteq consumed /\ serial' = serial
      /\ UNCHANGED <<at, key, vault, mem, job, code, remote, devices, revoked, told, accepted, conns>>
  BY DEF HostRestarts
<1>2. \A c \in Slots : conn[c] \in ConnSet /\ up[c] \in FrameSet /\ down[c] \in FrameSet
  BY <1>0 DEF Types
<1>3. ASSUME NEW c \in Slots
      PROVE  /\ conn'[c] \in ConnSet /\ up'[c] \in FrameSet /\ down'[c] \in FrameSet
             /\ \/ conn'[c] = conn[c] /\ up'[c] = up[c] /\ down'[c] = down[c]
                \/ /\ conn'[c].stage = "closed" /\ conn'[c].host = conn[c].host
                   /\ up'[c] = Nothing /\ down'[c].kind \in {None, "error"}
  <2>1. CASE conn[c].host = h
    <3>1. "closed" \in Stages
      BY DEF Stages
    <3>2. /\ [conn[c] EXCEPT !.stage = "closed"] \in ConnSet
          /\ [conn[c] EXCEPT !.stage = "closed"].stage = "closed"
          /\ [conn[c] EXCEPT !.stage = "closed"].host = conn[c].host
      BY <1>2, <3>1, ConnMoves
    <3>3. conn'[c] = [conn[c] EXCEPT !.stage = "closed"] /\ up'[c] = Nothing /\ down'[c] = Nothing
      BY <1>1, <2>1
    <3>4. QED
      BY <3>2, <3>3, Blanks
  <2>2. CASE conn[c].host # h
    BY <1>1, <1>2, <2>2
  <2>3. QED
    BY <2>1, <2>2
<1>4. conn' \in [Slots -> ConnSet] /\ up' \in [Slots -> FrameSet] /\ down' \in [Slots -> FrameSet]
  BY <1>1, <1>3
<1>5. serial' \in Nat
  BY <1>0, <1>1 DEF Types
<1>6. QED
  BY <1>1, <1>3, <1>4, <1>5, ConnsClose

\* The device is registered in the commit that uses the code up.
LEMMA HandlePairStep ==
  ASSUME AuthInv, NEW c \in Slots, HandlePair(c)
  PROVE  AuthInv'
<1>0. /\ Types /\ CodesName /\ ToldHome /\ HeldIsRegistered /\ AnswersAreRegistered
      /\ PairingIsSound /\ Undialled /\ LookedUp /\ HeardIsAccepted /\ ConnectionIsOfCredential
  BY DEF AuthInv
<1>a. /\ conn[c].stage = "open" /\ up[c].kind = "pair" /\ conn[c] \in ConnSet /\ up[c] \in FrameSet
      /\ UNCHANGED <<at, key, vault, mem, job, remote, revoked, told, accepted, conns>>
  BY <1>0 DEF HandlePair, Types
<1>t. /\ conn \in [Slots -> ConnSet] /\ up \in [Slots -> FrameSet] /\ down \in [Slots -> FrameSet]
  BY <1>0 DEF Types
<1>b. CASE /\ Refuses(c) /\ CancelConnection(c) /\ serial' \in {serial, serial + 1}
           /\ UNCHANGED <<code, devices>>
  <2>1. /\ conn' = [conn EXCEPT ![c].stage = "closed"] /\ up' = [up EXCEPT ![c] = Nothing]
        /\ down' = [down EXCEPT ![c] = [Nothing EXCEPT !.kind = "error"]]
    BY <1>b DEF Refuses, Send
  <2>2. serial' \in Nat
    BY <1>0, <1>b DEF Types
  <2>3. QED
    BY <1>a, <1>b, <2>1, <2>2, CloseStep
<1>c. CASE /\ code[up[c].code].state = "open" /\ serial' = serial + 1
           /\ code' = [code EXCEPT ![up[c].code].state = "used"]
           /\ devices' = devices \cup {Record(c, conn[c].host)}
           /\ conn' = [conn EXCEPT ![c].stage = "accepted", ![c].device = serial', ![c].key = up[c].key]
           /\ Send(c, [Nothing EXCEPT !.kind = "paired", !.device = serial', !.host = conn[c].host])
           /\ UNCHANGED <<active, consumed>>
  <2>1. /\ UNCHANGED <<at, key, vault, mem, job, remote, revoked, told, accepted, conns>>
        /\ serial' \in Nat /\ code' \in [Codes -> CodeSet] /\ devices' \subseteq DeviceSet
        /\ conn' \in [Slots -> ConnSet] /\ up' \in [Slots -> FrameSet] /\ down' \in [Slots -> FrameSet]
        /\ devices \subseteq devices'
        /\ \A b \in Codes : /\ code'[b].host = code[b].host /\ code'[b].address = code[b].address
                            /\ code'[b].state = "unissued" <=> code[b].state = "unissued"
        /\ \A x \in Slots : x # c => conn'[x] = conn[x] /\ up'[x] = up[x] /\ down'[x] = down[x]
        /\ conn'[c].stage = "accepted" /\ up'[c] = Nothing /\ down'[c].kind = "paired"
        /\ Registered(down[c].host, down[c].device)'
    <3>1. /\ serial' \in Nat /\ serial + 1 \in Nat /\ conn[c].host \in HostOrNone /\ up[c].key \in Nat
      BY <1>0, <1>a, <1>c, Fields DEF Types
    <3>2. /\ Record(c, conn[c].host) \in DeviceSet /\ Record(c, conn[c].host).host = conn[c].host
          /\ Record(c, conn[c].host).device = serial'
      BY <1>c, <3>1 DEF Record, DeviceSet
    <3>3. devices' \subseteq DeviceSet /\ devices \subseteq devices' /\ Record(c, conn[c].host) \in devices'
      BY <1>0, <1>c, <3>2 DEF Types
    <3>4. DEFINE answer == [Nothing EXCEPT !.kind = "paired", !.device = serial', !.host = conn[c].host]
                 end == [conn[c] EXCEPT !.stage = "accepted", !.device = serial', !.key = up[c].key]
    <3>5. /\ answer \in FrameSet /\ answer.kind = "paired" /\ answer.host = conn[c].host
          /\ answer.device = serial'
      BY <3>1, Blanks DEF FrameSet, Kinds
    <3>6. end \in ConnSet /\ end.stage = "accepted"
      BY <1>a, <3>1 DEF ConnSet, Stages
    <3>7. /\ down' = [down EXCEPT ![c] = answer] /\ up' = [up EXCEPT ![c] = Nothing]
          /\ conn' = [conn EXCEPT ![c] = end]
      BY <1>t, <1>c DEF Send
    <3>8. /\ conn' \in [Slots -> ConnSet] /\ up' \in [Slots -> FrameSet] /\ down' \in [Slots -> FrameSet]
          /\ \A x \in Slots : x # c => conn'[x] = conn[x] /\ up'[x] = up[x] /\ down'[x] = down[x]
          /\ conn'[c] = end /\ up'[c] = Nothing /\ down'[c] = answer
      <4> HIDE DEF answer, end
      <4>1. QED
        BY <1>t, <3>5, <3>6, <3>7, Blanks
    <3>9. /\ code' \in [Codes -> CodeSet]
          /\ \A b \in Codes : /\ code'[b].host = code[b].host /\ code'[b].address = code[b].address
                              /\ code'[b].state = "unissued" <=> code[b].state = "unissued"
      <4>1. code \in [Codes -> CodeSet]
        BY <1>0 DEF Types
      <4>2. ASSUME NEW b \in Codes
            PROVE  /\ code'[b] \in CodeSet
                   /\ code'[b].host = code[b].host /\ code'[b].address = code[b].address
                   /\ code'[b].state = "unissued" <=> code[b].state = "unissued"
        <5>1. code[b] \in CodeSet
          BY <4>1
        <5>2. CASE b = up[c].code
          <6>1. code'[b] = [code[b] EXCEPT !.state = "used"] /\ code[b].state = "open"
            BY <1>c, <4>1, <5>2
          <6>2. QED
            BY <5>1, <6>1 DEF CodeSet, States
        <5>3. CASE b # up[c].code
          BY <1>c, <4>1, <5>1, <5>3
        <5>4. QED
          BY <5>2, <5>3
      <4>3. code' = [b \in Codes |-> code'[b]]
        BY <1>c, <4>1
      <4>4. QED
        BY <4>2, <4>3
    <3>10. Registered(down[c].host, down[c].device)'
      BY <3>2, <3>3, <3>5, <3>8 DEF Registered
    <3>11. QED
      BY <1>a, <1>c, <3>1, <3>3, <3>5, <3>6, <3>8, <3>9, <3>10
  <2>2. Types'
    BY <1>0, <1>c, <2>1 DEF Types
  <2>3. CodesName'
    BY <1>0, <2>1 DEF CodesName, Shown
  <2>4. ToldHome' /\ HeldIsRegistered' /\ PairingIsSound'
    BY <2>1, HostMoves DEF Shown
  <2>5. accepted \subseteq accepted'
    BY <2>1
  <2>6. AnswersAreRegistered'
    BY <1>0, <2>1 DEF AnswersAreRegistered, Registered
  <2>7. Undialled'
    <3>1. ~(c > conns)
      BY <1>0, <1>a DEF Undialled
    <3>2. QED
      BY <1>0, <2>1, <3>1 DEF Undialled
  <2>8. LookedUp'
    BY <1>0, <2>1 DEF LookedUp
  <2>9. HeardIsAccepted'
    BY <1>0, <2>1, <2>5, KeepHeard
  <2>10. ConnectionIsOfCredential'
    <3>1. ASSUME NEW q \in Phones PROVE ConnectionOf(q)'
      <4>1. ConnectionOf(q)
        BY <1>0 DEF ConnectionIsOfCredential
      <4>2. CASE job[q].conn = c
        BY <1>a, <4>1, <4>2 DEF ConnectionOf, Authenticating
      <4>3. CASE job[q].conn # c
        <5>1. /\ UNCHANGED <<mem, accepted, job, conns>>
              /\ \A x \in Slots : x # c => conn'[x] = conn[x] /\ up'[x] = up[x]
          BY <2>1
        <5>2. QED
          BY <4>1, <4>3, <5>1 DEF ConnectionOf, Authenticating
      <4>4. QED
        BY <4>2, <4>3
    <3>2. QED
      BY <3>1 DEF ConnectionIsOfCredential
  <2>11. QED
    BY <2>2, <2>3, <2>4, <2>6, <2>7, <2>8, <2>9, <2>10 DEF AuthInv
<1>d. QED
  BY <1>b, <1>c DEF HandlePair, Committed, Refuses

\* What the registry says of a device is the key of a record.
LEMMA AuthLookup ==
  ASSUME Types, NEW h, NEW d
  PROVE  /\ DeviceForAuth(h, d) \in Nat
         /\ DeviceForAuth(h, d) # 0 => [host |-> h, device |-> d, key |-> DeviceForAuth(h, d)] \in devices
<1> DEFINE found == {r \in devices : r.host = h /\ r.device = d /\ d \notin revoked}
<1>1. CASE found = {}
  BY <1>1 DEF DeviceForAuth
<1>2. CASE found # {}
  <2>1. PICK r \in found : r = CHOOSE x \in found : TRUE
    BY <1>2
  <2>2. DeviceForAuth(h, d) = r.key
    BY <1>2, <2>1 DEF DeviceForAuth
  <2>3. r \in devices /\ r \in DeviceSet /\ r.host = h /\ r.device = d
    BY <2>1 DEF Types
  <2>4. r.key \in Nat /\ r = [host |-> h, device |-> d, key |-> r.key]
    BY <2>3 DEF DeviceSet
  <2>5. QED
    BY <2>2, <2>3, <2>4
<1>3. QED
  BY <1>1, <1>2

\* A challenge is about the device that was named.
LEMMA HandleChallengeStep ==
  ASSUME AuthInv, NEW c \in Slots, HandleChallenge(c)
  PROVE  AuthInv'
<1>0. /\ Types /\ CodesName /\ ToldHome /\ HeldIsRegistered /\ AnswersAreRegistered
      /\ PairingIsSound /\ Undialled /\ LookedUp /\ HeardIsAccepted /\ ConnectionIsOfCredential
  BY DEF AuthInv
<1>a. /\ conn[c].stage = "open" /\ up[c].kind = "challenge" /\ conn[c] \in ConnSet /\ up[c] \in FrameSet
  BY <1>0 DEF HandleChallenge, Types
<1>t. /\ conn \in [Slots -> ConnSet] /\ up \in [Slots -> FrameSet] /\ down \in [Slots -> FrameSet]
  BY <1>0 DEF Types
<1>1. /\ UNCHANGED <<at, key, vault, mem, job, code, remote, devices, revoked, consumed, told, accepted, conns, serial>>
      /\ active' \subseteq ChallengeSet
      /\ conn' \in [Slots -> ConnSet] /\ up' \in [Slots -> FrameSet] /\ down' \in [Slots -> FrameSet]
      /\ \A x \in Slots : x # c => conn'[x] = conn[x] /\ up'[x] = up[x] /\ down'[x] = down[x]
      /\ conn'[c].stage = "challenged" /\ conn'[c].host = conn[c].host
      /\ conn'[c].device = up[c].device
      /\ conn'[c].key # 0 =>
            [host |-> conn[c].host, device |-> up[c].device, key |-> conn'[c].key] \in devices
      /\ up'[c].kind = None /\ down'[c].kind = "nonce"
  <2>1. up[c].device \in Nat /\ "challenged" \in Stages /\ c \in 0..MaxConns
    BY <1>a, Fields, AuthAssumption DEF Stages, Slots
  <2>2. DEFINE k == DeviceForAuth(conn[c].host, up[c].device)
               end == [conn[c] EXCEPT !.stage = "challenged", !.device = up[c].device, !.key = k]
               answer == [Nothing EXCEPT !.kind = "nonce", !.conn = c]
  <2>3. k \in Nat /\ (k # 0 => [host |-> conn[c].host, device |-> up[c].device, key |-> k] \in devices)
    BY <1>0, AuthLookup
  <2>4. /\ end \in ConnSet /\ end.stage = "challenged" /\ end.host = conn[c].host
        /\ end.device = up[c].device /\ end.key = k
    <3> HIDE DEF k
    <3>1. QED
      BY <1>a, <2>1, <2>3 DEF ConnSet
  <2>5. answer \in FrameSet /\ answer.kind = "nonce"
    BY <2>1, Blanks DEF FrameSet, Kinds
  <2>6. /\ active' = active \cup {[conn |-> c, device |-> up[c].device]}
        /\ conn' = [conn EXCEPT ![c] = end] /\ down' = [down EXCEPT ![c] = answer]
        /\ up' = [up EXCEPT ![c] = Nothing]
        /\ UNCHANGED <<at, key, vault, mem, job, code, remote, devices, revoked, consumed, told, accepted, conns, serial>>
    BY <1>t DEF HandleChallenge, Send
  <2>7. active' \subseteq ChallengeSet
    BY <1>0, <2>1, <2>6 DEF Types, ChallengeSet
  <2>8. /\ conn' \in [Slots -> ConnSet] /\ up' \in [Slots -> FrameSet] /\ down' \in [Slots -> FrameSet]
        /\ \A x \in Slots : x # c => conn'[x] = conn[x] /\ up'[x] = up[x] /\ down'[x] = down[x]
        /\ conn'[c] = end /\ up'[c] = Nothing /\ down'[c] = answer
    <3> HIDE DEF end, answer, k
    <3>1. QED
      BY <1>t, <2>4, <2>5, <2>6, Blanks
  <2>9. QED
    <3> HIDE DEF end, answer, k
    <3>1. QED
      BY <2>3, <2>4, <2>5, <2>6, <2>7, <2>8, Blanks
<1>2. Types'
  BY <1>0, <1>1 DEF Types
<1>3. CodesName' /\ ToldHome' /\ HeldIsRegistered' /\ PairingIsSound'
  BY <1>0, <1>1, HostMoves DEF CodesName, Shown
<1>4. AnswersAreRegistered'
  BY <1>0, <1>1, KeepAnswers
<1>5. Undialled'
  <2>1. ~(c > conns)
    BY <1>0, <1>a DEF Undialled
  <2>2. QED
    BY <1>0, <1>1, <2>1 DEF Undialled
<1>6. LookedUp'
  BY <1>0, <1>1 DEF LookedUp
<1>7. HeardIsAccepted'
  BY <1>0, <1>1, KeepHeard
<1>8. ConnectionIsOfCredential'
  <2>1. ASSUME NEW q \in Phones PROVE ConnectionOf(q)'
    <3>1. ConnectionOf(q)
      BY <1>0 DEF ConnectionIsOfCredential
    <3>2. CASE job[q].conn = c
      BY <1>a, <1>1, <3>1, <3>2 DEF ConnectionOf, Authenticating, None
    <3>3. CASE job[q].conn # c
      BY <1>1, <3>1, <3>3 DEF ConnectionOf, Authenticating
    <3>4. QED
      BY <3>2, <3>3
  <2>2. QED
    BY <2>1 DEF ConnectionIsOfCredential
<1>9. QED
  BY <1>2, <1>3, <1>4, <1>5, <1>6, <1>7, <1>8 DEF AuthInv

\* A host accepts a device that it has registered, by its key.
LEMMA HandleProofStep ==
  ASSUME AuthInv, NEW c \in Slots, HandleProof(c)
  PROVE  AuthInv'
<1>0. /\ Types /\ CodesName /\ ToldHome /\ HeldIsRegistered /\ AnswersAreRegistered
      /\ PairingIsSound /\ Undialled /\ LookedUp /\ HeardIsAccepted /\ ConnectionIsOfCredential
  BY DEF AuthInv
<1>a. /\ conn[c].stage = "challenged" /\ up[c].kind = "proof" /\ conn[c] \in ConnSet /\ up[c] \in FrameSet
      /\ UNCHANGED <<at, key, vault, mem, job, code, remote, devices, revoked, told, conns, serial>>
  BY <1>0 DEF HandleProof, Types
<1>t. /\ conn \in [Slots -> ConnSet] /\ up \in [Slots -> FrameSet] /\ down \in [Slots -> FrameSet]
      /\ accepted \subseteq AcceptedSet
  BY <1>0 DEF Types
<1>b. CASE Refuses(c) /\ CancelConnection(c) /\ UNCHANGED accepted
  <2>1. /\ conn' = [conn EXCEPT ![c].stage = "closed"] /\ up' = [up EXCEPT ![c] = Nothing]
        /\ down' = [down EXCEPT ![c] = [Nothing EXCEPT !.kind = "error"]]
    BY <1>b DEF Refuses, Send
  <2>2. serial' \in Nat
    BY <1>0, <1>a DEF Types
  <2>3. QED
    BY <1>a, <1>b, <2>1, <2>2, CloseStep
<1>c. CASE /\ Verifies(c, up[c]) /\ conn' = [conn EXCEPT ![c].stage = "accepted"]
           /\ active' \subseteq ChallengeSet /\ consumed' \subseteq ChallengeSet
           /\ accepted' = accepted \cup {[conn |-> c, host |-> conn[c].host, device |-> conn[c].device,
                                         key |-> up[c].key, revoked |-> conn[c].device \in revoked]}
           /\ Send(c, [Nothing EXCEPT !.kind = "accepted"])
  <2>1. /\ UNCHANGED <<at, key, vault, mem, job, code, remote, devices, revoked, told, conns, serial>>
        /\ active' \subseteq ChallengeSet /\ consumed' \subseteq ChallengeSet /\ accepted' \subseteq AcceptedSet
        /\ conn' \in [Slots -> ConnSet] /\ up' \in [Slots -> FrameSet] /\ down' \in [Slots -> FrameSet]
        /\ \A x \in Slots : x # c => conn'[x] = conn[x] /\ up'[x] = up[x] /\ down'[x] = down[x]
        /\ conn'[c].stage = "accepted" /\ conn'[c].host = conn[c].host /\ conn'[c].device = conn[c].device
        /\ up'[c] = Nothing /\ down'[c].kind = "accepted" /\ accepted \subseteq accepted'
        /\ \E a \in accepted' : a.conn = c /\ a.host = conn[c].host /\ a.device = conn[c].device
        /\ \A a \in accepted' : a \in accepted \/
              [host |-> a.host, device |-> a.device, key |-> a.key] \in devices
    <3>1. DEFINE new == [conn |-> c, host |-> conn[c].host, device |-> conn[c].device,
                         key |-> up[c].key, revoked |-> conn[c].device \in revoked]
                 end == [conn[c] EXCEPT !.stage = "accepted"]
                 answer == [Nothing EXCEPT !.kind = "accepted"]
    <3>2. /\ new \in AcceptedSet /\ new.conn = c /\ new.host = conn[c].host
          /\ new.device = conn[c].device /\ new.key = up[c].key
      <4>1. (conn[c].device \in revoked) \in BOOLEAN
        OBVIOUS
      <4>2. conn[c].host \in HostOrNone /\ conn[c].device \in Nat /\ up[c].key \in Nat
        BY <1>a, Fields
      <4>3. QED
        BY <4>1, <4>2 DEF AcceptedSet
    <3>3. up[c].key = conn[c].key /\ conn[c].key # 0
      BY <1>c DEF Verifies
    <3>4. [host |-> new.host, device |-> new.device, key |-> new.key] \in devices
      <4> HIDE DEF new
      <4>1. QED
        BY <1>0, <1>a, <3>2, <3>3 DEF LookedUp
    <3>5. end \in ConnSet /\ end.stage = "accepted" /\ end.host = conn[c].host /\ end.device = conn[c].device
      BY <1>a DEF ConnSet, Stages
    <3>6. answer \in FrameSet /\ answer.kind = "accepted"
      BY Blanks DEF FrameSet, Kinds
    <3>7. /\ conn' = [conn EXCEPT ![c] = end] /\ down' = [down EXCEPT ![c] = answer]
          /\ up' = [up EXCEPT ![c] = Nothing] /\ accepted' = accepted \cup {new}
      BY <1>t, <1>c DEF Send
    <3>8. /\ conn' \in [Slots -> ConnSet] /\ up' \in [Slots -> FrameSet] /\ down' \in [Slots -> FrameSet]
          /\ \A x \in Slots : x # c => conn'[x] = conn[x] /\ up'[x] = up[x] /\ down'[x] = down[x]
          /\ conn'[c] = end /\ up'[c] = Nothing /\ down'[c] = answer
      <4> HIDE DEF end, answer, new
      <4>1. QED
        BY <1>t, <3>5, <3>6, <3>7, Blanks
    <3>9. /\ accepted' \subseteq AcceptedSet /\ accepted \subseteq accepted' /\ new \in accepted'
          /\ \A a \in accepted' : a \in accepted \/ a = new
      <4> HIDE DEF new
      <4>1. QED
        BY <1>t, <3>2, <3>7
    <3>10. QED
      <4> HIDE DEF end, answer, new
      <4>1. QED
        BY <1>a, <1>c, <3>2, <3>4, <3>5, <3>6, <3>8, <3>9
  <2>2. Types'
    BY <1>0, <2>1 DEF Types
  <2>3. CodesName' /\ ToldHome' /\ HeldIsRegistered' /\ PairingIsSound'
    BY <1>0, <2>1, HostMoves DEF CodesName, Shown
  <2>4. AnswersAreRegistered'
    BY <1>0, <2>1, KeepAnswers
  <2>5. Undialled'
    <3>1. ~(c > conns)
      BY <1>0, <1>a DEF Undialled
    <3>2. QED
      BY <1>0, <2>1, <3>1 DEF Undialled
  <2>6. LookedUp'
    BY <1>0, <2>1 DEF LookedUp
  <2>7. HeardIsAccepted'
    <3>1. /\ accepted \subseteq accepted' /\ conn'[c].stage = "accepted"
          /\ conn'[c].host = conn[c].host /\ conn'[c].device = conn[c].device
          /\ \A x \in Slots : x # c => conn'[x] = conn[x] /\ down'[x] = down[x]
          /\ \E a \in accepted' : a.conn = c /\ a.host = conn[c].host /\ a.device = conn[c].device
      BY <2>1
    <3>2. ASSUME NEW x \in Slots, down'[x].kind = "accepted"
          PROVE  /\ conn'[x].stage = "accepted"
                 /\ \E a \in accepted' : a.conn = x /\ a.host = conn'[x].host /\ a.device = conn'[x].device
      <4>1. CASE x = c
        BY <3>1, <4>1
      <4>2. CASE x # c
        BY <1>0, <3>1, <3>2, <4>2 DEF HeardIsAccepted
      <4>3. QED
        BY <4>1, <4>2
    <3>3. QED
      BY <3>2 DEF HeardIsAccepted
  <2>8. ConnectionIsOfCredential'
    <3>1. ASSUME NEW q \in Phones PROVE ConnectionOf(q)'
      <4>1. ConnectionOf(q)
        BY <1>0 DEF ConnectionIsOfCredential
      <4>2. CASE job[q].conn = c
        <5>1. /\ UNCHANGED <<mem, job, conns>> /\ accepted \subseteq accepted'
              /\ conn'[c].host = conn[c].host /\ conn'[c].device = conn[c].device
              /\ up'[c].kind \notin {"pair", "challenge"} /\ conn[c].stage = "challenged"
          BY <1>a, <2>1, Blanks DEF None
        <5>2. QED
          BY <4>1, <4>2, <5>1 DEF ConnectionOf, Authenticating
      <4>3. CASE job[q].conn # c
        BY <2>1, <4>1, <4>3 DEF ConnectionOf, Authenticating
      <4>4. QED
        BY <4>2, <4>3
    <3>2. QED
      BY <3>1 DEF ConnectionIsOfCredential
  <2>9. QED
    BY <2>2, <2>3, <2>4, <2>5, <2>6, <2>7, <2>8 DEF AuthInv
<1>d. QED
  <2>1. active \subseteq ChallengeSet /\ consumed \subseteq ChallengeSet
    BY <1>0 DEF Types
  <2>2. QED
    BY <1>b, <1>c, <2>1 DEF HandleProof

\* The registry keeps a record that is revoked.
LEMMA RevokeStep ==
  ASSUME AuthInv, NEW d \in devices, Revoke(d)
  PROVE  AuthInv'
<1>0. /\ Types /\ CodesName /\ ToldHome /\ HeldIsRegistered /\ AnswersAreRegistered
      /\ PairingIsSound /\ Undialled /\ LookedUp /\ HeardIsAccepted /\ ConnectionIsOfCredential
  BY DEF AuthInv
<1>1. /\ UNCHANGED <<at, key, vault, mem, job, conn, up, down, code, remote, devices, active, consumed, told, accepted, conns, serial>>
      /\ revoked' \subseteq Nat
  BY <1>0 DEF Revoke, Types, DeviceSet
<1>2. Types'
  BY <1>0, <1>1 DEF Types
<1>3. QED
  BY <1>0, <1>1, <1>2, OthersMove DEF CodesName, Shown

\* No promise depends on who answers at an address.
LEMMA AddressMovesStep ==
  ASSUME AuthInv, NEW a \in Addresses, NEW h \in Hosts, AddressMoves(a, h)
  PROVE  AuthInv'
<1>0. /\ Types /\ CodesName /\ ToldHome /\ HeldIsRegistered /\ AnswersAreRegistered
      /\ PairingIsSound /\ Undialled /\ LookedUp /\ HeardIsAccepted /\ ConnectionIsOfCredential
  BY DEF AuthInv
<1>1. /\ UNCHANGED <<key, vault, mem, job, conn, up, down, code, remote, devices, revoked, active, consumed, told, accepted, conns, serial>>
      /\ at' \in [Addresses -> Hosts]
  BY <1>0 DEF AddressMoves, Types
<1>2. Types'
  BY <1>0, <1>1 DEF Types
<1>3. QED
  BY <1>0, <1>1, <1>2, OthersMove DEF CodesName, Shown

-----------------------------------------------------------------------------
(* The theorems. *)

\* Nothing is shown, paired or connected at first.
LEMMA InitAuth == Init => AuthInv
<1> SUFFICES ASSUME Init PROVE AuthInv
  OBVIOUS
<1>1. /\ at \in [Addresses -> Hosts] /\ key = [p \in Phones |-> 0]
      /\ vault = [p \in Phones |-> NoCredential] /\ mem = [p \in Phones |-> NoCredential]
      /\ job = [p \in Phones |-> Idle] /\ conn = [c \in Slots |-> Free]
      /\ up = [c \in Slots |-> Nothing] /\ down = [c \in Slots |-> Nothing]
      /\ code = [b \in Codes |-> [host |-> None, address |-> None, state |-> "unissued"]]
      /\ remote = [r \in RemoteCodes |-> None]
      /\ devices = {} /\ revoked = {} /\ active = {} /\ consumed = {} /\ told = {} /\ accepted = {}
      /\ conns = 0 /\ serial = 0
  BY DEF Init
<1>2. [host |-> None, address |-> None, state |-> "unissued"] \in CodeSet
  BY DEF CodeSet, HostOrNone, States
<1>3. \A b \in Codes : code[b].state = "unissued"
  BY <1>1
<1>4. \A p \in Phones : vault[p] = NoCredential /\ mem[p] = NoCredential /\ job[p].task = "idle"
  BY <1>1, Blanks
<1>5. \A c \in Slots : conn[c].stage = "free" /\ down[c].kind = None
  BY <1>1, Blanks
<1>6. Types
  BY <1>1, <1>2, Blanks, AuthAssumption DEF Types, HostOrNone
<1>7. CodesName /\ ToldHome
  BY <1>1, <1>3 DEF CodesName, ToldHome, Shown
<1>8. HeldIsRegistered /\ AnswersAreRegistered
  BY <1>4, <1>5 DEF HeldIsRegistered, HeldOf, AnswersAreRegistered, None
<1>9. PairingIsSound
  BY <1>4 DEF PairingIsSound, PairingOf
<1>10. Undialled /\ LookedUp /\ HeardIsAccepted
  BY <1>1, <1>5 DEF Undialled, LookedUp, HeardIsAccepted, None
<1>11. ConnectionIsOfCredential
  BY <1>4 DEF ConnectionIsOfCredential, ConnectionOf, Authenticating
<1>12. QED
  BY <1>6, <1>7, <1>8, <1>9, <1>10, <1>11 DEF AuthInv

\* Nothing changes.
LEMMA QuietAuth ==
  ASSUME AuthInv, UNCHANGED vars
  PROVE  AuthInv'
<1>0. /\ Types /\ CodesName /\ ToldHome /\ HeldIsRegistered /\ AnswersAreRegistered
      /\ PairingIsSound /\ Undialled /\ LookedUp /\ HeardIsAccepted /\ ConnectionIsOfCredential
  BY DEF AuthInv
<1>1. UNCHANGED <<at, key, vault, mem, job, conn, up, down, code, remote, devices, revoked, active, consumed, told, accepted, conns, serial>>
  BY DEF vars
<1>2. Types'
  BY <1>0, <1>1 DEF Types
<1>3. QED
  BY <1>0, <1>1, <1>2, OthersMove DEF CodesName, Shown

\* AuthInv is inductive.
LEMMA NextAuth == AuthInv /\ [Next]_vars => AuthInv'
<1> SUFFICES ASSUME AuthInv, [Next]_vars PROVE AuthInv'
  OBVIOUS
<1>1. CASE UNCHANGED vars
  BY <1>1, QuietAuth
<1>2. ASSUME NEW b \in Codes, NEW a \in Addresses, IssuePairing(b, a) PROVE AuthInv'
  BY <1>2, IssuePairingStep
<1>3. ASSUME NEW b \in Codes, CodeExpires(b) PROVE AuthInv'
  BY <1>3, CodeExpiresStep
<1>4. ASSUME NEW r \in RemoteCodes, NEW h \in Hosts, IssueRemote(r, h) PROVE AuthInv'
  BY <1>4, IssueRemoteStep
<1>5. ASSUME NEW p \in Phones, NEW b \in Codes, Pair(p, b) PROVE AuthInv'
  BY <1>5, PairStep
<1>6. ASSUME NEW p \in Phones,
             \/ ConnectLan(p) \/ ConnectRemote(p) \/ GivesUp(p)
             \/ ReadPaired(p) \/ StorePaired(p) \/ FinishPaired(p) \/ Sign(p) \/ ReadAccepted(p)
             \/ ReadFailure(p) \/ Disconnect(p) \/ PhoneRestarts(p) \/ KeyLost(p)
      PROVE  AuthInv'
  <2>1. CASE ConnectLan(p) \/ ConnectRemote(p)
    BY <2>1, ConnectStep
  <2>2. CASE GivesUp(p) \/ Disconnect(p) \/ ReadFailure(p)
    BY <2>2, EndStep
  <2>3. CASE ReadPaired(p)
    BY <2>3, ReadPairedStep
  <2>4. CASE StorePaired(p)
    BY <2>4, StorePairedStep
  <2>5. CASE FinishPaired(p)
    BY <2>5, FinishPairedStep
  <2>6. CASE Sign(p)
    BY <2>6, SignStep
  <2>7. CASE ReadAccepted(p)
    BY <2>7, ReadAcceptedStep
  <2>8. CASE PhoneRestarts(p)
    BY <2>8, PhoneRestartsStep
  <2>9. CASE KeyLost(p)
    BY <2>9, KeyLostStep
  <2>10. QED
    BY <1>6, <2>1, <2>2, <2>3, <2>4, <2>5, <2>6, <2>7, <2>8, <2>9
<1>7. ASSUME NEW p \in Phones, NEW r \in RemoteCodes, ConfigureRemote(p, r) PROVE AuthInv'
  BY <1>7, ConfigureRemoteStep
<1>8. ASSUME NEW c \in Slots, \/ HandlePair(c) \/ HandleChallenge(c) \/ HandleProof(c)
                              \/ HostCloses(c) \/ ConnectionBreaks(c)
      PROVE  AuthInv'
  BY <1>8, HandlePairStep, HandleChallengeStep, HandleProofStep, BreakStep
<1>9. ASSUME NEW h \in Hosts, HostRestarts(h) PROVE AuthInv'
  BY <1>9, HostRestartsStep
<1>10. ASSUME NEW h \in Hosts, NEW a \in Addresses, AddressMoves(a, h) PROVE AuthInv'
  BY <1>10, AddressMovesStep
<1>11. ASSUME NEW d \in devices, Revoke(d) PROVE AuthInv'
  BY <1>11, RevokeStep
<1>12. QED
  BY <1>1, <1>2, <1>3, <1>4, <1>5, <1>6, <1>7, <1>8, <1>9, <1>10, <1>11 DEF Next

\* The strengthening holds in every state of every behaviour.
THEOREM AuthInvariant == Spec => []AuthInv
BY InitAuth, NextAuth, PTL DEF Spec

\* What a phone keeps is registered at its host, whatever was lost between the host's
\* commit and the phone's vault (store_pairing after the registry's commit).
THEOREM KeptIsRegistered == Spec => []PairedIsRegistered
<1>1. AuthInv => PairedIsRegistered
  BY DEF AuthInv, HeldIsRegistered, HeldOf, Registered, PairedIsRegistered
<1>2. QED
  BY <1>1, AuthInvariant, PTL

\* The pairing secret is sent only to the host that showed the code, even when the address
\* of the code has come to belong to another host (the pinned TLS handshake).
THEOREM SecretGoesHome == Spec => []SecretStaysHome
<1>1. AuthInv => SecretStaysHome
  BY DEF AuthInv, ToldHome, SecretStaysHome
<1>2. QED
  BY <1>1, AuthInvariant, PTL

\* A host accepts only the key of a device that is in its registry (device_for_auth and
\* the signature check).
THEOREM OnlyKnownAccepted == Spec => []AcceptedIsKnown
<1>1. AuthInv => AcceptedIsKnown
  BY DEF AuthInv, LookedUp, AcceptedIsKnown
<1>2. QED
  BY <1>1, AuthInvariant, PTL

\* An online phone and its host agree on who they are to each other, over either path and
\* across restarts, address moves and repeated pairings.
THEOREM Agreement == Spec => []EndsAgree
<1>1. ASSUME AuthInv, NEW p \in Phones, job[p].task = "online"
      PROVE  /\ conn[job[p].conn].host = mem[p].host
             /\ \E a \in accepted : a.conn = job[p].conn /\ a.host = mem[p].host /\ a.device = mem[p].device
  <2>1. ConnectionOf(p)
    BY <1>1 DEF AuthInv, ConnectionIsOfCredential
  <2>2. QED
    BY <1>1, <2>1 DEF ConnectionOf, Authenticating
<1>2. AuthInv => EndsAgree
  BY <1>1 DEF EndsAgree
<1>3. QED
  BY <1>2, AuthInvariant, PTL

\* A new pairing leaves no remote path of an earlier one behind (store_pairing).
THEOREM FreshPairingIsLocal == Spec => RemoteOfThisPairing
<1>1. ASSUME AuthInv, Next, NEW p \in Phones, vault'[p].device # vault[p].device
      PROVE  vault'[p].remote = None
  <2>1. Types /\ PairingIsSound
    BY <1>1 DEF AuthInv
  <2>2. vault' # vault
    BY <1>1
  <2>3. PICK q \in Phones : StorePaired(q) \/ \E r \in RemoteCodes : ConfigureRemote(q, r)
    <3>1. \A b \in Codes, a \in Addresses : ~IssuePairing(b, a)
      BY <2>2 DEF IssuePairing
    <3>2. \A b \in Codes : ~CodeExpires(b)
      BY <2>2 DEF CodeExpires
    <3>3. \A r \in RemoteCodes, h \in Hosts : ~IssueRemote(r, h)
      BY <2>2 DEF IssueRemote
    <3>4. ASSUME NEW x \in Phones
          PROVE  /\ \A b \in Codes : ~Pair(x, b)
                 /\ ~ConnectLan(x) /\ ~ConnectRemote(x) /\ ~GivesUp(x) /\ ~ReadPaired(x)
                 /\ ~FinishPaired(x) /\ ~Sign(x) /\ ~ReadAccepted(x) /\ ~ReadFailure(x)
                 /\ ~Disconnect(x) /\ ~PhoneRestarts(x) /\ ~KeyLost(x)
      BY <2>2 DEF Pair, ConnectLan, ConnectRemote, GivesUp, ReadPaired, FinishPaired, Sign, ReadAccepted,
                  ReadFailure, Disconnect, PhoneRestarts, KeyLost
    <3>5. ASSUME NEW c \in Slots
          PROVE  /\ ~HandlePair(c) /\ ~HandleChallenge(c) /\ ~HandleProof(c) /\ ~HostCloses(c)
                 /\ ~ConnectionBreaks(c)
      BY <2>2 DEF HandlePair, HandleChallenge, HandleProof, HostCloses, ConnectionBreaks
    <3>6. ASSUME NEW h \in Hosts PROVE ~HostRestarts(h) /\ \A a \in Addresses : ~AddressMoves(a, h)
      BY <2>2 DEF HostRestarts, AddressMoves
    <3>7. \A d \in devices : ~Revoke(d)
      BY <2>2 DEF Revoke
    <3>8. QED
      BY <1>1, <3>1, <3>2, <3>3, <3>4, <3>5, <3>6, <3>7 DEF Next
  <2>4. CASE StorePaired(q)
    <3>1. vault' = [vault EXCEPT ![q] = Credential(q)]
      BY <2>2, <2>4 DEF StorePaired
    <3>2. p = q /\ vault'[p] = Credential(q)
      BY <1>1, <2>1, <3>1 DEF Types
    <3>3. QED
      BY <3>2 DEF Credential
  <2>5. ASSUME NEW r \in RemoteCodes, ConfigureRemote(q, r) PROVE FALSE
    <3>1. /\ vault' = [vault EXCEPT ![q] = mem'[q]] /\ mem' = [mem EXCEPT ![q].remote = r]
          /\ job[q].task = "idle"
      BY <2>2, <2>5 DEF ConfigureRemote
    <3>2. mem[q] \in CredentialSet /\ vault[q].device = mem[q].device
      BY <2>1, <3>1 DEF Types, PairingIsSound, PairingOf
    <3>3. mem'[q].device = mem[q].device
      BY <2>1, <3>1, <3>2 DEF Types, CredentialSet
    <3>4. QED
      BY <1>1, <2>1, <3>1, <3>2, <3>3 DEF Types
  <2>6. QED
    BY <2>3, <2>4, <2>5
<1>2. AuthInv /\ [Next]_vars =>
        [\A p \in Phones : (vault'[p].device # vault[p].device) => vault'[p].remote = None]_vars
  BY <1>1
<1>3. QED
  BY <1>2, AuthInvariant, PTL DEF Spec, RemoteOfThisPairing

=============================================================================
