---------------------------- MODULE DeviceAuthInv ----------------------------
(***************************************************************************)
(* The inductive invariant of pairing and authentication, and the steps of *)
(* the codes and of a phone that dials or gives up, which keep it.         *)
(*                                                                         *)
(* The invariant follows one fact from where it is made to where it is     *)
(* used: the record of a device through the answer to a pairing and the    *)
(* phone's job into its vault; the device that a phone names through its   *)
(* challenge, the host's connection and the host's acceptance.             *)
(***************************************************************************)
EXTENDS DeviceAuth, TLAPS

Tasks == {"idle", "pair", "store", "stored", "lan", "retry", "remote", "online"}
Stages == {"free", "open", "challenged", "accepted", "closed"}
Kinds == {None, "pair", "paired", "challenge", "nonce", "proof", "accepted", "error"}
States == {"unissued", "open", "used", "expired"}
HostOrNone == Hosts \cup {None}
CredentialSet == [host : HostOrNone, device : Nat, address : Addresses \cup {None},
                  remote : RemoteCodes \cup {None}]
JobSet == [task : Tasks, conn : 0..MaxConns, code : Codes \cup {None}, device : Nat]
ConnSet == [phone : Phones \cup {None}, host : HostOrNone, stage : Stages, device : Nat, key : Nat]
FrameSet == [kind : Kinds, code : Codes \cup {None}, key : Nat, device : Nat, host : HostOrNone,
             conn : 0..MaxConns]
CodeSet == [host : HostOrNone, address : Addresses \cup {None}, state : States]
DeviceSet == [host : HostOrNone, device : Nat, key : Nat]
ChallengeSet == [conn : Slots, device : Nat]
AcceptedSet == [conn : Slots, host : HostOrNone, device : Nat, key : Nat, revoked : BOOLEAN]

Types ==
    /\ at \in [Addresses -> Hosts] /\ key \in [Phones -> Nat]
    /\ vault \in [Phones -> CredentialSet] /\ mem \in [Phones -> CredentialSet]
    /\ job \in [Phones -> JobSet] /\ conn \in [Slots -> ConnSet]
    /\ up \in [Slots -> FrameSet] /\ down \in [Slots -> FrameSet]
    /\ code \in [Codes -> CodeSet] /\ remote \in [RemoteCodes -> HostOrNone]
    /\ devices \subseteq DeviceSet /\ revoked \subseteq Nat
    /\ active \subseteq ChallengeSet /\ consumed \subseteq ChallengeSet
    /\ told \subseteq [code : Codes, host : HostOrNone] /\ accepted \subseteq AcceptedSet
    /\ conns \in 0..MaxConns /\ serial \in Nat

Shown(b) == b \in Codes /\ code[b].state # "unissued"
Registered(h, d) == \E r \in devices : r.host = h /\ r.device = d

\* A code that was shown names a host and its address.
CodesName == \A b \in Codes : Shown(b) => code[b].host \in Hosts /\ code[b].address \in Addresses

\* A secret that was told is one of a code that was shown, and went to its host.
ToldHome == \A t \in told : Shown(t.code) /\ t.host = code[t.code].host

\* What a phone holds, in its vault or in memory, is registered.
HeldOf(p) ==
    /\ vault[p] # NoCredential => Registered(vault[p].host, vault[p].device)
    /\ mem[p] # NoCredential => /\ Registered(mem[p].host, mem[p].device)
                                /\ mem[p].address \in Addresses
    /\ vault[p] # NoCredential => vault[p].address \in Addresses

HeldIsRegistered == \A p \in Phones : HeldOf(p)

\* So is what an answer to a pairing names.
AnswersAreRegistered ==
    \A c \in Slots : down[c].kind = "paired" => Registered(down[c].host, down[c].device)

\* A pairing in progress is about a code that was shown; once answered, about a
\* registered device; once stored, the vault has its credential.
PairingOf(p) ==
    /\ job[p].task \in {"pair", "store", "stored"} => Shown(job[p].code)
    /\ job[p].task \in {"store", "stored"} => Registered(code[job[p].code].host, job[p].device)
    /\ job[p].task = "stored" => vault[p] = Credential(p)
    /\ job[p].task # "stored" => vault[p].device = mem[p].device

PairingIsSound == \A p \in Phones : PairingOf(p)

\* A connection that was not dialled yet is untouched.
Undialled == \A c \in Slots : c > conns => conn[c].stage \in {"free", "closed"}

\* A host looks up what its registry holds, and accepts only that.
LookedUp ==
    /\ \A c \in Slots : (conn[c].stage = "challenged" /\ conn[c].key # 0) =>
           [host |-> conn[c].host, device |-> conn[c].device, key |-> conn[c].key] \in devices
    /\ \A a \in accepted : [host |-> a.host, device |-> a.device, key |-> a.key] \in devices

\* A phone hears of an acceptance only on a connection its host accepted.
HeardIsAccepted ==
    \A c \in Slots : down[c].kind = "accepted" =>
        /\ conn[c].stage = "accepted"
        /\ \E a \in accepted : a.conn = c /\ a.host = conn[c].host /\ a.device = conn[c].device

Authenticating == {"lan", "remote", "online"}

\* The connection of an authenticating phone leads to the host of its credential
\* and is about the device of its credential, at both ends.
ConnectionOf(p) ==
    LET c == job[p].conn IN
    /\ job[p].task \in Authenticating \cup {"pair"} => c \in Slots /\ c <= conns
    /\ job[p].task \in Authenticating =>
         /\ conn[c].host = mem[p].host
         /\ up[c].kind # "pair"
         /\ up[c].kind = "challenge" => up[c].device = mem[p].device
         /\ conn[c].stage \in {"challenged", "accepted"} => conn[c].device = mem[p].device
    /\ job[p].task = "online" =>
         \E a \in accepted : a.conn = c /\ a.host = mem[p].host /\ a.device = mem[p].device

ConnectionIsOfCredential == \A p \in Phones : ConnectionOf(p)

\* The inductive invariant.
AuthInv ==
    /\ Types /\ CodesName /\ ToldHome /\ HeldIsRegistered /\ AnswersAreRegistered /\ PairingIsSound
    /\ Undialled /\ LookedUp /\ HeardIsAccepted /\ ConnectionIsOfCredential

-----------------------------------------------------------------------------
(* The records of the model. *)

\* The initial records have their types.
LEMMA Blanks ==
  /\ NoCredential \in CredentialSet /\ Idle \in JobSet /\ Free \in ConnSet /\ Nothing \in FrameSet
  /\ Nothing.kind = None /\ Nothing.key = 0 /\ Idle.task = "idle" /\ Free.stage = "free"
<1>1. NoCredential \in CredentialSet
  BY DEF NoCredential, CredentialSet, HostOrNone
<1>2. Free \in ConnSet /\ Free.stage = "free"
  BY DEF Free, ConnSet, HostOrNone, Stages
<1>3. 0 \in 0..MaxConns
  BY AuthAssumption
<1>4. Idle \in JobSet /\ Idle.task = "idle"
  BY <1>3 DEF Idle, JobSet, Tasks
<1>5. Nothing \in FrameSet /\ Nothing.kind = None /\ Nothing.key = 0
  BY <1>3 DEF Nothing, FrameSet, HostOrNone, Kinds
<1>6. QED
  BY <1>1, <1>2, <1>4, <1>5

\* What the fields of a record are.
LEMMA Fields ==
  /\ \A x \in CredentialSet : /\ x.host \in HostOrNone /\ x.device \in Nat
                               /\ x.address \in Addresses \cup {None} /\ x.remote \in RemoteCodes \cup {None}
  /\ \A x \in JobSet : /\ x.task \in Tasks /\ x.conn \in 0..MaxConns
                        /\ x.code \in Codes \cup {None} /\ x.device \in Nat
  /\ \A x \in ConnSet : /\ x.phone \in Phones \cup {None} /\ x.host \in HostOrNone
                         /\ x.stage \in Stages /\ x.device \in Nat /\ x.key \in Nat
  /\ \A x \in FrameSet : /\ x.kind \in Kinds /\ x.code \in Codes \cup {None} /\ x.key \in Nat
                          /\ x.device \in Nat /\ x.host \in HostOrNone /\ x.conn \in 0..MaxConns
  /\ \A x \in CodeSet : /\ x.host \in HostOrNone /\ x.address \in Addresses \cup {None}
                         /\ x.state \in States
BY DEF CredentialSet, JobSet, ConnSet, FrameSet, CodeSet

\* A connection changes its stage and what the host knows of its device.
LEMMA ConnMoves ==
  ASSUME NEW x \in ConnSet, NEW s \in Stages
  PROVE  /\ [x EXCEPT !.stage = s] \in ConnSet
         /\ [x EXCEPT !.stage = s].stage = s
         /\ [x EXCEPT !.stage = s].host = x.host
         /\ [x EXCEPT !.stage = s].device = x.device
         /\ [x EXCEPT !.stage = s].key = x.key
         /\ [x EXCEPT !.stage = s].phone = x.phone
         /\ \A d \in Nat, k \in Nat :
              LET y == [x EXCEPT !.stage = s, !.device = d, !.key = k]
              IN  y \in ConnSet /\ y.stage = s /\ y.device = d /\ y.key = k /\ y.host = x.host
BY DEF ConnSet

\* The next connection is a new one.
LEMMA Dialled ==
  ASSUME conns \in 0..MaxConns, conns' = conns + 1
  PROVE  /\ conns' > conns /\ conns' <= conns'
         /\ \A c \in Slots : c > conns' => c > conns /\ c # conns'
         /\ \A n \in 0..MaxConns : n <= conns => n # conns' /\ n <= conns'
BY AuthAssumption DEF Slots

\* Registered devices stay registered.
LEMMA KeepHeld ==
  ASSUME HeldIsRegistered, devices \subseteq devices', UNCHANGED <<vault, mem>>
  PROVE  HeldIsRegistered'
BY DEF HeldIsRegistered, HeldOf, Registered

\* Frames that are read, or that answer something else.
LEMMA KeepHeard ==
  ASSUME HeardIsAccepted, accepted \subseteq accepted',
         \A c \in Slots : \/ down'[c].kind # "accepted"
                          \/ conn'[c] = conn[c] /\ down'[c] = down[c]
  PROVE  HeardIsAccepted'
<1>1. ASSUME NEW c \in Slots, down'[c].kind = "accepted"
      PROVE  /\ conn'[c].stage = "accepted"
             /\ \E a \in accepted' : a.conn = c /\ a.host = conn'[c].host /\ a.device = conn'[c].device
  BY <1>1 DEF HeardIsAccepted
<1>2. QED
  BY <1>1 DEF HeardIsAccepted

LEMMA KeepAnswers ==
  ASSUME AnswersAreRegistered, devices \subseteq devices',
         \A c \in Slots : down'[c].kind # "paired" \/ down'[c] = down[c]
  PROVE  AnswersAreRegistered'
BY DEF AnswersAreRegistered, Registered

\* A frame that was read is no answer.
LEMMA Read ==
  ASSUME \A c \in Slots : down'[c] = down[c] \/ down'[c] = Nothing
  PROVE  /\ \A c \in Slots : down'[c].kind # "accepted" \/ down'[c] = down[c]
         /\ \A c \in Slots : down'[c].kind # "paired" \/ down'[c] = down[c]
BY Blanks DEF None

\* A step of a phone that writes nothing a host keeps.
LEMMA PhoneMoves ==
  ASSUME AuthInv, UNCHANGED <<conn, code, devices, told, accepted, conns>>,
         \A c \in Slots : down'[c] = down[c] \/ down'[c] = Nothing
  PROVE  CodesName' /\ ToldHome' /\ AnswersAreRegistered' /\ Undialled' /\ LookedUp' /\ HeardIsAccepted'
<1>0. CodesName /\ ToldHome /\ AnswersAreRegistered /\ Undialled /\ LookedUp /\ HeardIsAccepted
  BY DEF AuthInv
<1>1. CodesName' /\ ToldHome'
  BY <1>0 DEF CodesName, ToldHome, Shown
<1>2. AnswersAreRegistered'
  BY <1>0, Read, KeepAnswers
<1>3. Undialled' /\ LookedUp'
  BY <1>0 DEF Undialled, LookedUp
<1>4. HeardIsAccepted'
  BY <1>0, Read, KeepHeard
<1>5. QED
  BY <1>1, <1>2, <1>3, <1>4

\* A step of a host, which leaves what a phone keeps alone.
LEMMA HostMoves ==
  ASSUME AuthInv, UNCHANGED <<vault, mem, job, told>>, devices \subseteq devices',
         \A b \in Codes : Shown(b) => /\ Shown(b)' /\ code'[b].host = code[b].host
                                      /\ code'[b].address = code[b].address
  PROVE  ToldHome' /\ HeldIsRegistered' /\ PairingIsSound'
<1>0. ToldHome /\ HeldIsRegistered /\ PairingIsSound
  BY DEF AuthInv
<1>1. ToldHome'
  <2>1. ASSUME NEW t \in told PROVE Shown(t.code)' /\ t.host = code'[t.code].host
    <3>1. Shown(t.code) /\ t.host = code[t.code].host /\ t.code \in Codes
      BY <1>0 DEF ToldHome, Shown
    <3>2. QED
      BY <3>1
  <2>2. QED
    BY <2>1 DEF ToldHome
<1>2. HeldIsRegistered'
  BY <1>0, KeepHeld
<1>3. ASSUME NEW q \in Phones PROVE PairingOf(q)'
  <2>1. PairingOf(q)
    BY <1>0 DEF PairingIsSound
  <2>2. job[q].task \in {"pair", "store", "stored"} => Shown(job[q].code) /\ job[q].code \in Codes
    BY <2>1 DEF PairingOf, Shown
  <2>3. job[q].task \in {"pair", "store", "stored"} =>
          /\ Shown(job[q].code)' /\ code'[job[q].code].host = code[job[q].code].host
          /\ code'[job[q].code].address = code[job[q].code].address
    BY <2>2
  <2>4. \A h, d : Registered(h, d) => Registered(h, d)'
    BY DEF Registered
  <2>5. QED
    BY <2>1, <2>3, <2>4 DEF PairingOf, Credential
<1>4. QED
  BY <1>1, <1>2, <1>3 DEF PairingIsSound

\* A step that is about neither a connection nor a credential.
LEMMA OthersMove ==
  ASSUME AuthInv, Types', CodesName', UNCHANGED <<vault, mem, job, conn, up, down, devices, told, accepted, conns>>,
         \A b \in Codes : Shown(b) => /\ Shown(b)' /\ code'[b].host = code[b].host
                                      /\ code'[b].address = code[b].address
  PROVE  AuthInv'
<1>0. AnswersAreRegistered /\ Undialled /\ LookedUp /\ HeardIsAccepted /\ ConnectionIsOfCredential
  BY DEF AuthInv
<1>1. ToldHome' /\ HeldIsRegistered' /\ PairingIsSound'
  BY HostMoves
<1>2. AnswersAreRegistered' /\ Undialled' /\ LookedUp' /\ HeardIsAccepted'
  BY <1>0 DEF AnswersAreRegistered, Registered, Undialled, LookedUp, HeardIsAccepted
<1>3. ConnectionIsOfCredential'
  BY <1>0 DEF ConnectionIsOfCredential, ConnectionOf
<1>4. QED
  BY <1>1, <1>2, <1>3 DEF AuthInv

\* A phone dials: the other connections and the other phones go on as they were.
LEMMA Dialling ==
  ASSUME AuthInv, NEW p \in Phones, conns' = conns + 1,
         \A c \in Slots : c # conns' => conn'[c] = conn[c] /\ up'[c] = up[c],
         \A q \in Phones : q # p => job'[q] = job[q],
         conn'[conns'].stage = "open",
         UNCHANGED <<mem, down, devices, accepted>>
  PROVE  /\ AnswersAreRegistered' /\ Undialled' /\ LookedUp' /\ HeardIsAccepted'
         /\ \A q \in Phones : q # p => ConnectionOf(q)'
<1>0. /\ Types /\ AnswersAreRegistered /\ Undialled /\ LookedUp /\ HeardIsAccepted
      /\ ConnectionIsOfCredential
  BY DEF AuthInv
<1>1. conns \in 0..MaxConns /\ conns' > conns /\ job \in [Phones -> JobSet]
  BY <1>0, Dialled DEF Types
<1>2. AnswersAreRegistered' /\ LookedUp'
  BY <1>0 DEF AnswersAreRegistered, Registered, LookedUp
<1>3. Undialled'
  BY <1>0, <1>1, Dialled DEF Undialled
<1>4. HeardIsAccepted'
  <2>1. \A c \in Slots : down[c].kind = "accepted" => c # conns'
    BY <1>0, <1>1 DEF HeardIsAccepted, Undialled
  <2>2. QED
    BY <1>0, <2>1, KeepHeard
<1>5. ASSUME NEW q \in Phones, q # p PROVE ConnectionOf(q)'
  <2>1. ConnectionOf(q) /\ job'[q] = job[q]
    BY <1>0, <1>5 DEF ConnectionIsOfCredential
  <2>2. job[q].conn <= conns => job[q].conn # conns' /\ job[q].conn <= conns'
    BY <1>1, Fields, Dialled
  <2>3. QED
    BY <2>1, <2>2 DEF ConnectionOf
<1>6. QED
  BY <1>2, <1>3, <1>4, <1>5

-----------------------------------------------------------------------------
(* One step. *)

\* A code that was not shown before is not in use anywhere.
LEMMA IssuePairingStep ==
  ASSUME AuthInv, NEW b \in Codes, NEW a \in Addresses, IssuePairing(b, a)
  PROVE  AuthInv'
<1>0. /\ Types /\ CodesName /\ ToldHome /\ HeldIsRegistered /\ AnswersAreRegistered
      /\ PairingIsSound /\ Undialled /\ LookedUp /\ HeardIsAccepted /\ ConnectionIsOfCredential
  BY DEF AuthInv
<1>1. /\ UNCHANGED <<at, key, vault, mem, job, conn, up, down, remote, devices, revoked, active, consumed, told, accepted, conns, serial>>
      /\ code[b].state = "unissued" /\ code' \in [Codes -> CodeSet]
      /\ code'[b].host \in Hosts /\ code'[b].address \in Addresses
      /\ \A x \in Codes : x # b => code'[x] = code[x]
  BY <1>0 DEF IssuePairing, Types, CodeSet, HostOrNone, States
<1>2. Types'
  BY <1>0, <1>1 DEF Types
<1>3. CodesName'
  BY <1>0, <1>1 DEF CodesName, Shown
<1>4. \A x \in Codes : Shown(x) => /\ Shown(x)' /\ code'[x].host = code[x].host
                                  /\ code'[x].address = code[x].address
  BY <1>1 DEF Shown
<1>5. QED
  BY <1>1, <1>2, <1>3, <1>4, OthersMove

\* A code that expires still names its host.
LEMMA CodeExpiresStep ==
  ASSUME AuthInv, NEW b \in Codes, CodeExpires(b)
  PROVE  AuthInv'
<1>0. /\ Types /\ CodesName /\ ToldHome /\ HeldIsRegistered /\ AnswersAreRegistered
      /\ PairingIsSound /\ Undialled /\ LookedUp /\ HeardIsAccepted /\ ConnectionIsOfCredential
  BY DEF AuthInv
<1>1. /\ UNCHANGED <<at, key, vault, mem, job, conn, up, down, remote, devices, revoked, active, consumed, told, accepted, conns, serial>>
      /\ code[b].state = "open" /\ code' \in [Codes -> CodeSet]
      /\ code'[b].host = code[b].host /\ code'[b].address = code[b].address /\ code'[b].state = "expired"
      /\ \A x \in Codes : x # b => code'[x] = code[x]
  BY <1>0 DEF CodeExpires, Types, CodeSet, States
<1>2. Types'
  BY <1>0, <1>1 DEF Types
<1>3. CodesName'
  BY <1>0, <1>1 DEF CodesName, Shown
<1>4. \A x \in Codes : Shown(x) => /\ Shown(x)' /\ code'[x].host = code[x].host
                                  /\ code'[x].address = code[x].address
  BY <1>1 DEF Shown
<1>5. QED
  BY <1>1, <1>2, <1>3, <1>4, OthersMove

\* Remote codes are about nothing else.
LEMMA IssueRemoteStep ==
  ASSUME AuthInv, NEW r \in RemoteCodes, NEW h \in Hosts, IssueRemote(r, h)
  PROVE  AuthInv'
<1>0. /\ Types /\ CodesName /\ ToldHome /\ HeldIsRegistered /\ AnswersAreRegistered
      /\ PairingIsSound /\ Undialled /\ LookedUp /\ HeardIsAccepted /\ ConnectionIsOfCredential
  BY DEF AuthInv
<1>1. /\ UNCHANGED <<at, key, vault, mem, job, conn, up, down, code, devices, revoked, active, consumed, told, accepted, conns, serial>>
      /\ remote' \in [RemoteCodes -> HostOrNone]
  BY <1>0 DEF IssueRemote, Types, HostOrNone
<1>2. Types'
  BY <1>0, <1>1 DEF Types
<1>3. QED
  BY <1>0, <1>1, <1>2, OthersMove DEF CodesName, Shown

\* The secret goes to the host whose key has the pin of the code.
LEMMA PairStep ==
  ASSUME AuthInv, NEW p \in Phones, NEW b \in Codes, Pair(p, b)
  PROVE  AuthInv'
<1>0. /\ Types /\ CodesName /\ ToldHome /\ HeldIsRegistered /\ AnswersAreRegistered
      /\ PairingIsSound /\ Undialled /\ LookedUp /\ HeardIsAccepted /\ ConnectionIsOfCredential
  BY DEF AuthInv
<1>1. /\ UNCHANGED <<at, vault, mem, down, code, remote, devices, revoked, active, consumed, accepted>>
      /\ conns' = conns + 1 /\ conns' \in Slots /\ conns' \in 0..MaxConns
      /\ Shown(b) /\ job[p].task = "idle"
      /\ key' \in [Phones -> Nat] /\ serial' \in Nat
      /\ conn' \in [Slots -> ConnSet] /\ up' \in [Slots -> FrameSet]
      /\ job' \in [Phones -> JobSet] /\ told' \subseteq [code : Codes, host : HostOrNone]
      /\ told' = told \cup {[code |-> b, host |-> code[b].host]}
      /\ \A c \in Slots : c # conns' => conn'[c] = conn[c] /\ up'[c] = up[c]
      /\ \A q \in Phones : q # p => job'[q] = job[q]
      /\ conn'[conns'].stage = "open"
      /\ job'[p].task = "pair" /\ job'[p].conn = conns' /\ job'[p].code = b
  <2>1. /\ conns' = conns + 1 /\ conns' \in Slots /\ conns' \in 0..MaxConns
    BY <1>0, AuthAssumption DEF Pair, Dials, Types, Slots
  <2>2. /\ Shown(b) /\ job[p].task = "idle" /\ at[code[b].address] = code[b].host
        /\ told' = told \cup {[code |-> b, host |-> code[b].host]}
    BY DEF Pair, Dials, PinMatches, Shown
  <2>3. code[b].host \in HostOrNone
    BY <1>0, Fields DEF Types
  <2>4. told' \subseteq [code : Codes, host : HostOrNone]
    BY <1>0, <2>2, <2>3 DEF Types
  <2>5. key' \in [Phones -> Nat] /\ serial' \in Nat /\ KeyOf(p) \in Nat
    BY <1>0 DEF Pair, UsesKey, KeyOf, Types
  <2>6. DEFINE frame == [Nothing EXCEPT !.kind = "pair", !.code = b, !.key = KeyOf(p)]
               end == [Free EXCEPT !.phone = p, !.host = code[b].host, !.stage = "open"]
               work == [task |-> "pair", conn |-> conns', code |-> b, device |-> 0]
  <2>7. frame \in FrameSet
    BY <2>5, Blanks DEF FrameSet, Kinds
  <2>8. end \in ConnSet /\ end.stage = "open"
    BY <2>3, Blanks DEF ConnSet, Stages
  <2>9. work \in JobSet /\ work.task = "pair" /\ work.conn = conns' /\ work.code = b
    BY <2>1 DEF JobSet, Tasks
  <2>10. /\ conn' = [conn EXCEPT ![conns'] = end] /\ up' = [up EXCEPT ![conns'] = frame]
         /\ job' = [job EXCEPT ![p] = work]
    BY <2>2 DEF Pair, Dials
  <2>11. /\ conn' \in [Slots -> ConnSet] /\ up' \in [Slots -> FrameSet] /\ job' \in [Phones -> JobSet]
         /\ \A c \in Slots : c # conns' => conn'[c] = conn[c] /\ up'[c] = up[c]
         /\ \A q \in Phones : q # p => job'[q] = job[q]
         /\ job'[p] = work /\ conn'[conns'].stage = "open"
    <3> HIDE DEF frame, end, work
    <3>1. QED
      BY <1>0, <2>1, <2>7, <2>8, <2>9, <2>10 DEF Types
  <2>12. UNCHANGED <<at, vault, mem, down, code, remote, devices, revoked, active, consumed, accepted>>
    BY DEF Pair
  <2>13. job'[p].task = "pair" /\ job'[p].conn = conns' /\ job'[p].code = b
    <3> HIDE DEF frame, end, work
    <3>1. QED
      BY <2>9, <2>11
  <2>14. QED
    <3> HIDE DEF frame, end, work
    <3>1. QED
      BY <2>1, <2>2, <2>4, <2>5, <2>11, <2>12, <2>13
<1>b. conns \in 0..MaxConns /\ conns' = conns + 1
  BY <1>0, <1>1 DEF Types
<1>2. Types'
  BY <1>0, <1>1 DEF Types
<1>3. CodesName' /\ HeldIsRegistered'
  <2>1. CodesName'
    BY <1>0, <1>1 DEF CodesName, Shown
  <2>2. HeldIsRegistered'
    BY <1>0, <1>1, KeepHeld
  <2>3. QED
    BY <2>1, <2>2
<1>4. ToldHome'
  BY <1>0, <1>1 DEF ToldHome, Shown
<1>5. PairingIsSound'
  <2>1. ASSUME NEW q \in Phones PROVE PairingOf(q)'
    <3>1. PairingOf(q)
      BY <1>0 DEF PairingIsSound
    <3>2. QED
      BY <1>1, <3>1 DEF PairingOf, Shown, Registered, Credential
  <2>2. QED
    BY <2>1 DEF PairingIsSound
<1>6. /\ AnswersAreRegistered' /\ Undialled' /\ LookedUp' /\ HeardIsAccepted'
      /\ \A q \in Phones : q # p => ConnectionOf(q)'
  BY <1>1, Dialling
<1>7. ConnectionOf(p)'
  <2>1. conns' <= conns'
    BY <1>b, Dialled
  <2>2. QED
    BY <1>1, <2>1 DEF ConnectionOf, Authenticating
<1>8. ConnectionIsOfCredential'
  BY <1>6, <1>7 DEF ConnectionIsOfCredential
<1>9. QED
  BY <1>2, <1>3, <1>4, <1>5, <1>6, <1>8 DEF AuthInv

\* An attempt with the credential leads to its host and is about its device.
LEMMA ConnectStep ==
  ASSUME AuthInv, NEW p \in Phones, ConnectLan(p) \/ ConnectRemote(p)
  PROVE  AuthInv'
<1>0. /\ Types /\ CodesName /\ ToldHome /\ HeldIsRegistered /\ AnswersAreRegistered
      /\ PairingIsSound /\ Undialled /\ LookedUp /\ HeardIsAccepted /\ ConnectionIsOfCredential
  BY DEF AuthInv
<1>a. PICK t \in {"lan", "remote"} :
        /\ conns < MaxConns /\ conns' = conns + 1 /\ job[p].task \in {"idle", "retry"}
        /\ conn' = [conn EXCEPT ![conns'] = [Free EXCEPT !.phone = p, !.host = mem[p].host, !.stage = "open"]]
        /\ up' = [up EXCEPT ![conns'] = ChallengeFrame(p)]
        /\ job' = [job EXCEPT ![p] = [task |-> t, conn |-> conns', code |-> None, device |-> 0]]
        /\ UNCHANGED <<at, key, vault, mem, down, code, remote, devices, revoked, active, consumed, told,
                       accepted, serial>>
  <2>1. CASE ConnectLan(p)
    BY <2>1 DEF ConnectLan, Dials, PinMatches
  <2>2. CASE ConnectRemote(p)
    BY <2>2 DEF ConnectRemote, Dials, PinMatches
  <2>3. QED
    BY <2>1, <2>2
<1>1. /\ UNCHANGED <<at, key, vault, mem, down, code, remote, devices, revoked, active, consumed, told,
                     accepted, serial>>
      /\ conns' = conns + 1 /\ conns' \in Slots /\ conns' \in 0..MaxConns
      /\ conn' \in [Slots -> ConnSet] /\ up' \in [Slots -> FrameSet] /\ job' \in [Phones -> JobSet]
      /\ \A c \in Slots : c # conns' => conn'[c] = conn[c] /\ up'[c] = up[c]
      /\ \A q \in Phones : q # p => job'[q] = job[q]
      /\ job[p].task \in {"idle", "retry"} /\ job'[p].task \in {"lan", "remote"} /\ job'[p].conn = conns'
      /\ conn'[conns'].host = mem[p].host /\ conn'[conns'].stage = "open"
      /\ up'[conns'].kind = "challenge" /\ up'[conns'].device = mem[p].device
  <2>1. /\ conns' = conns + 1 /\ conns' \in Slots /\ conns' \in 0..MaxConns
    BY <1>0, <1>a, AuthAssumption DEF Types, Slots
  <2>2. mem[p].host \in HostOrNone /\ mem[p].device \in Nat
    BY <1>0, Fields DEF Types
  <2>3. DEFINE end == [Free EXCEPT !.phone = p, !.host = mem[p].host, !.stage = "open"]
               work == [task |-> t, conn |-> conns', code |-> None, device |-> 0]
  <2>4. /\ ChallengeFrame(p) \in FrameSet /\ ChallengeFrame(p).kind = "challenge"
        /\ ChallengeFrame(p).device = mem[p].device
    BY <2>2, Blanks DEF ChallengeFrame, FrameSet, Kinds
  <2>5. end \in ConnSet /\ end.host = mem[p].host /\ end.stage = "open"
    BY <2>2, Blanks DEF ConnSet, Stages
  <2>6. work \in JobSet /\ work.task \in {"lan", "remote"} /\ work.conn = conns'
    BY <2>1 DEF JobSet, Tasks
  <2>7. /\ conn' = [conn EXCEPT ![conns'] = end] /\ job' = [job EXCEPT ![p] = work]
    BY <1>a
  <2>8. QED
    <3> HIDE DEF end, work
    <3>1. QED
      BY <1>0, <1>a, <2>1, <2>4, <2>5, <2>6, <2>7 DEF Types
<1>b. conns \in 0..MaxConns /\ conns' = conns + 1
  BY <1>0, <1>1 DEF Types
<1>2. Types'
  BY <1>0, <1>1 DEF Types
<1>3. CodesName' /\ ToldHome' /\ HeldIsRegistered'
  <2>1. CodesName' /\ ToldHome'
    BY <1>0, <1>1 DEF CodesName, ToldHome, Shown
  <2>2. HeldIsRegistered'
    BY <1>0, <1>1, KeepHeld
  <2>3. QED
    BY <2>1, <2>2
<1>4. PairingIsSound'
  <2>1. ASSUME NEW q \in Phones PROVE PairingOf(q)'
    <3>1. PairingOf(q)
      BY <1>0 DEF PairingIsSound
    <3>2. QED
      BY <1>1, <3>1 DEF PairingOf, Shown, Registered, Credential
  <2>2. QED
    BY <2>1 DEF PairingIsSound
<1>5. /\ AnswersAreRegistered' /\ Undialled' /\ LookedUp' /\ HeardIsAccepted'
      /\ \A q \in Phones : q # p => ConnectionOf(q)'
  BY <1>1, Dialling
<1>6. ConnectionOf(p)'
  <2>1. conns' <= conns'
    BY <1>b, Dialled
  <2>2. QED
    BY <1>1, <2>1 DEF ConnectionOf, Authenticating
<1>7. ConnectionIsOfCredential'
  BY <1>5, <1>6 DEF ConnectionIsOfCredential
<1>8. QED
  BY <1>2, <1>3, <1>4, <1>5, <1>7 DEF AuthInv

\* A phone that is through with what it was doing.
LEMMA JobEnds ==
  ASSUME AuthInv, NEW p \in Phones,
         job' \in [Phones -> JobSet],
         \A q \in Phones : q # p => job'[q] = job[q],
         job'[p].task \in {"idle", "retry"},
         job[p].task # "stored",
         down' \in [Slots -> FrameSet],
         \A c \in Slots : down'[c] = down[c] \/ down'[c] = Nothing,
         UNCHANGED <<at, key, vault, mem, conn, up, code, remote, devices, revoked, active, consumed, told, accepted, conns, serial>>
  PROVE  AuthInv'
<1>0. /\ Types /\ CodesName /\ ToldHome /\ HeldIsRegistered /\ AnswersAreRegistered
      /\ PairingIsSound /\ Undialled /\ LookedUp /\ HeardIsAccepted /\ ConnectionIsOfCredential
  BY DEF AuthInv
<1>1. Types'
  BY <1>0 DEF Types
<1>2. CodesName' /\ ToldHome' /\ AnswersAreRegistered' /\ Undialled' /\ LookedUp' /\ HeardIsAccepted'
  BY PhoneMoves
<1>3. HeldIsRegistered'
  BY <1>0, KeepHeld
<1>4. PairingIsSound'
  <2>1. ASSUME NEW q \in Phones PROVE PairingOf(q)'
    <3>1. PairingOf(q)
      BY <1>0 DEF PairingIsSound
    <3>2. QED
      BY <1>0, <3>1 DEF PairingOf, Shown, Registered, Credential
  <2>2. QED
    BY <2>1 DEF PairingIsSound
<1>5. ConnectionIsOfCredential'
  <2>1. ASSUME NEW q \in Phones PROVE ConnectionOf(q)'
    <3>1. ConnectionOf(q)
      BY <1>0 DEF ConnectionIsOfCredential
    <3>2. QED
      BY <1>0, <3>1 DEF ConnectionOf, Authenticating
  <2>2. QED
    BY <2>1 DEF ConnectionIsOfCredential
<1>6. QED
  BY <1>1, <1>2, <1>3, <1>4, <1>5 DEF AuthInv

\* An attempt that failed, and a connection the user ends.
LEMMA EndStep ==
  ASSUME AuthInv, NEW p \in Phones, GivesUp(p) \/ Disconnect(p) \/ ReadFailure(p)
  PROVE  AuthInv'
<1>0. /\ Types /\ CodesName /\ ToldHome /\ HeldIsRegistered /\ AnswersAreRegistered
      /\ PairingIsSound /\ Undialled /\ LookedUp /\ HeardIsAccepted /\ ConnectionIsOfCredential
  BY DEF AuthInv
<1>1. PICK j \in {Idle, [Idle EXCEPT !.task = "retry"]} : job' = [job EXCEPT ![p] = j]
  BY DEF GivesUp, Disconnect, ReadFailure
<1>2. j \in JobSet /\ j.task \in {"idle", "retry"}
  BY Blanks DEF JobSet, Tasks
<1>3. /\ job' \in [Phones -> JobSet] /\ \A q \in Phones : q # p => job'[q] = job[q]
      /\ job'[p].task \in {"idle", "retry"}
  BY <1>0, <1>1, <1>2 DEF Types
<1>4. /\ job[p].task # "stored"
      /\ UNCHANGED <<at, key, vault, mem, conn, up, code, remote, devices, revoked, active, consumed, told, accepted, conns, serial>>
      /\ down' = down \/ down' = [down EXCEPT ![job[p].conn] = Nothing]
  BY DEF GivesUp, Disconnect, ReadFailure, Taken
<1>5. down' \in [Slots -> FrameSet] /\ \A c \in Slots : down'[c] = down[c] \/ down'[c] = Nothing
  BY <1>0, <1>4, Blanks DEF Types
<1>6. QED
  BY <1>3, <1>4, <1>5, JobEnds

=============================================================================
