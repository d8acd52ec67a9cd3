------------------------------- MODULE DeviceAuth -------------------------------
(***************************************************************************)
(* How a phone and a host come to trust each other: a pairing code shown   *)
(* by the host, the pairing exchange, the credential the phone keeps, and  *)
(* the challenge by which it authenticates later, over the local network   *)
(* or over the remote path.  Each end can be killed between any two steps, *)
(* a connection can break, the vault can refuse a write, the phone can     *)
(* lose its key, a device can be revoked and an address can come to belong *)
(* to another host.  A host stands for its identifier and its pin; a TLS   *)
(* connection for its exporter; a key for a number.                        *)
(***************************************************************************)
EXTENDS Naturals, FiniteSets

CONSTANTS
    Phones, Hosts, Addresses,
    Codes,        \* pairing codes: bounds how many are shown
    RemoteCodes,  \* remote bootstraps: bounds how many are shown
    MaxConns,     \* bound: connections
    FaultKinds,   \* "phone", "host", "drop", "vault", "commit", "key", "revoke", "moved", "late"
    MaxFaults     \* bound: faults

ASSUME AuthAssumption == MaxConns \in Nat /\ MaxFaults \in Nat

VARIABLES
    at,       \* [Addresses -> Hosts]: who answers there
    key,      \* [Phones -> Nat]: the key in the phone's key store
    vault,    \* [Phones -> credential]: on the phone's disk
    mem,      \* [Phones -> credential]: in its memory
    job,      \* [Phones -> what it is doing]
    conn,     \* [1..MaxConns -> both ends of a connection]
    up, down, \* [1..MaxConns -> the frame under way]
    code,     \* [Codes -> [host, address, state]]: the host's pairings
    remote,   \* [RemoteCodes -> host | None]: the endpoints remote codes name
    devices,  \* the hosts' registries: [host, device, key]
    revoked,  \* the devices revoked in them
    active, consumed,    \* the challenge store: challenges, and used ones
    told,     \* history: [code, host] a secret was sent to
    accepted, \* history: [conn, host, device, key, revoked] authenticated by a host
    harmed,   \* history: has anything happened that ends an authentication?
    turned,   \* history: has a host turned an authentication away?
    conns, serial, faults

vars == <<at, key, vault, mem, job, conn, up, down, code, remote, devices, revoked, active, consumed,
          told, accepted, harmed, turned, conns, serial, faults>>

None == "none"
Slots == 1..MaxConns
NoCredential == [host |-> None, device |-> 0, address |-> None, remote |-> None]
Idle == [task |-> "idle", conn |-> 0, code |-> None, device |-> 0]
Free == [phone |-> None, host |-> None, stage |-> "free", device |-> 0, key |-> 0]
Nothing == [kind |-> None, code |-> None, key |-> 0, device |-> 0, host |-> None, conn |-> 0]

Init ==
    /\ at \in [Addresses -> Hosts] /\ key = [p \in Phones |-> 0]
    /\ vault = [p \in Phones |-> NoCredential] /\ mem = vault
    /\ job = [p \in Phones |-> Idle] /\ conn = [c \in Slots |-> Free]
    /\ up = [c \in Slots |-> Nothing] /\ down = up
    /\ code = [b \in Codes |-> [host |-> None, address |-> None, state |-> "unissued"]]
    /\ remote = [r \in RemoteCodes |-> None]
    /\ devices = {} /\ revoked = {} /\ active = {} /\ consumed = {} /\ told = {} /\ accepted = {}
    /\ harmed = FALSE /\ turned = FALSE /\ conns = 0 /\ serial = 0 /\ faults = 0

Fault(kind) == kind \in FaultKinds /\ faults < MaxFaults /\ faults' = faults + 1

-----------------------------------------------------------------------------
(* Codes *)

\* The secret's digest is in the registry before the code is shown.
IssuePairing(b, a) ==
    /\ code[b].state = "unissued"
    /\ code' = [code EXCEPT ![b] = [host |-> at[a], address |-> a, state |-> "open"]]
    /\ UNCHANGED <<at, key, vault, mem, job, conn, up, down, remote, devices, revoked, active, consumed,
                   told, accepted, harmed, turned, conns, serial, faults>>

\* A remote code names the endpoint of its host; it is shown for a registered device.
IssueRemote(r, h) ==
    /\ remote[r] = None /\ \E d \in devices : d.host = h /\ d.device \notin revoked
    /\ remote' = [remote EXCEPT ![r] = h]
    /\ UNCHANGED <<at, key, vault, mem, job, conn, up, down, code, devices, revoked, active, consumed,
                   told, accepted, harmed, turned, conns, serial, faults>>

\* Time passes: a code that was not used is no longer good for anything at the host.
CodeExpires(b) ==
    /\ code[b].state = "open" /\ Fault("late")
    /\ code' = [code EXCEPT ![b].state = "expired"]
    /\ UNCHANGED <<at, key, vault, mem, job, conn, up, down, remote, devices, revoked, active, consumed,
                   told, accepted, harmed, turned, conns, serial>>

-----------------------------------------------------------------------------
(* The phone: dialling *)

\* Mutant: the certificate's key is not compared with the pin.
PinMatchesAny(h, pin) == TRUE

\* The TLS handshake ends unless the host's public key is the pinned one.
PinMatches(h, pin) == h = pin

\* The key is made on first use and reused from then on.
KeyOf(p) == IF key[p] = 0 THEN serial + 1 ELSE key[p]
UsesKey(p) == key' = [key EXCEPT ![p] = KeyOf(p)] /\ serial' = (IF key[p] = 0 THEN serial + 1 ELSE serial)

Dials(p, h, pin, frame, task, b) ==
    /\ PinMatches(h, pin) /\ conns < MaxConns /\ conns' = conns + 1
    /\ conn' = [conn EXCEPT ![conns'] = [Free EXCEPT !.phone = p, !.host = h, !.stage = "open"]]
    /\ up' = [up EXCEPT ![conns'] = frame]
    /\ job' = [job EXCEPT ![p] = [task |-> task, conn |-> conns', code |-> b, device |-> 0]]

\* A code is scanned while no worker runs: one that has expired by the phone's clock is
\* not used; otherwise the secret goes to whoever answers with the code's pin.
Pair(p, b) ==
    /\ job[p].task = "idle" /\ code[b].state # "unissued"
    /\ UsesKey(p)
    /\ Dials(p, at[code[b].address], code[b].host,
             [Nothing EXCEPT !.kind = "pair", !.code = b, !.key = KeyOf(p)], "pair", b)
    /\ told' = told \cup {[code |-> b, host |-> at[code[b].address]]}
    /\ UNCHANGED <<at, vault, mem, down, code, remote, devices, revoked, active, consumed, accepted,
                   harmed, turned, faults>>

ChallengeFrame(p) == [Nothing EXCEPT !.kind = "challenge", !.device = mem[p].device]

\* The phone connects: the local address first.
ConnectLan(p) ==
    /\ job[p].task = "idle" /\ mem[p] # NoCredential
    /\ Dials(p, at[mem[p].address], mem[p].host, ChallengeFrame(p), "lan", None)
    /\ UNCHANGED <<at, key, vault, mem, down, code, remote, devices, revoked, active, consumed, told,
                   accepted, harmed, turned, serial, faults>>

\* The service must name the endpoint and the relay of the credential, in time.
RouteMatches(p, h) == mem[p].remote # None /\ h = remote[mem[p].remote]

\* The local attempt has failed, or no one answers there: the remote path, when there is one.
ConnectRemote(p) ==
    /\ mem[p].remote # None
    /\ \/ job[p].task = "retry"
       \/ job[p].task = "idle" /\ ~PinMatches(at[mem[p].address], mem[p].host)
    /\ \E h \in Hosts : /\ RouteMatches(p, h)
                        /\ Dials(p, h, mem[p].host, ChallengeFrame(p), "remote", None)
    /\ UNCHANGED <<at, key, vault, mem, down, code, remote, devices, revoked, active, consumed, told,
                   accepted, harmed, turned, serial, faults>>

\* There is no remote path, or it leads elsewhere: the attempt has failed.
GivesUp(p) ==
    /\ job[p].task = "retry"
    /\ \A h \in Hosts : ~(RouteMatches(p, h) /\ PinMatches(h, mem[p].host))
    /\ job' = [job EXCEPT ![p] = Idle]
    /\ UNCHANGED <<at, key, vault, mem, conn, up, down, code, remote, devices, revoked, active, consumed,
                   told, accepted, harmed, turned, conns, serial, faults>>

-----------------------------------------------------------------------------
(* The host: a connection's authentication *)

Send(c, frame) == down' = [down EXCEPT ![c] = frame] /\ up' = [up EXCEPT ![c] = Nothing]

CancelConnection(c) ==
    /\ active' = {a \in active : a.conn # c}
    /\ consumed' = {a \in consumed : a.conn # c}

Refuses(c) ==
    /\ Send(c, [Nothing EXCEPT !.kind = "error"])
    /\ conn' = [conn EXCEPT ![c].stage = "closed"]

Record(c, h) == [host |-> h, device |-> serial + 1, key |-> up[c].key]

\* Mutant: the answer does not wait for the commit.
CommittedAnyway(kept) == TRUE

Committed(kept) == kept

\* The secret is used up and the device recorded in one commit, before the answer.
HandlePair(c) ==
    /\ conn[c].stage = "open" /\ up[c].kind = "pair"
    /\ LET b == up[c].code
           h == conn[c].host
           open == code[b].host = h /\ code[b].state = "open"
       IN \/ /\ open /\ serial' = serial + 1
             /\ \E kept \in BOOLEAN :
                  /\ IF kept THEN UNCHANGED faults ELSE Fault("commit")
                  /\ IF kept THEN /\ code' = [code EXCEPT ![b].state = "used"]
                                  /\ devices' = devices \cup {Record(c, h)}
                             ELSE UNCHANGED <<code, devices>>
                  /\ IF Committed(kept)
                     THEN /\ conn' = [conn EXCEPT ![c].stage = "accepted", ![c].device = serial', ![c].key = up[c].key]
                          /\ Send(c, [Nothing EXCEPT !.kind = "paired", !.device = serial', !.host = h])
                          /\ UNCHANGED <<active, consumed>>
                     ELSE Refuses(c) /\ CancelConnection(c)
          \/ /\ ~open /\ Refuses(c) /\ CancelConnection(c)
             /\ UNCHANGED <<code, devices, serial, faults>>
    /\ UNCHANGED <<at, key, vault, mem, job, remote, revoked, told, accepted, harmed, turned, conns>>

\* What the registry says of a device when a challenge is asked for; 0: nothing.
DeviceForAuth(h, d) ==
    LET found == {r \in devices : r.host = h /\ r.device = d /\ d \notin revoked} IN
    IF found = {} THEN 0 ELSE (CHOOSE r \in found : TRUE).key

\* An unknown device gets a challenge like any other.
HandleChallenge(c) ==
    /\ conn[c].stage = "open" /\ up[c].kind = "challenge"
    /\ active' = active \cup {[conn |-> c, device |-> up[c].device]}
    /\ conn' = [conn EXCEPT ![c].stage = "challenged", ![c].device = up[c].device,
                            ![c].key = DeviceForAuth(conn[c].host, up[c].device)]
    /\ Send(c, [Nothing EXCEPT !.kind = "nonce", !.conn = c])
    /\ UNCHANGED <<at, key, vault, mem, job, code, remote, devices, revoked, consumed, told, accepted,
                   harmed, turned, conns, serial, faults>>

\* The signature is over the host, the device, the connection's exporter and the
\* challenge, and must be by the key that was found for the device.
Verifies(c, proof) ==
    /\ conn[c].key # 0 /\ proof.key = conn[c].key
    /\ proof.host = conn[c].host /\ proof.device = conn[c].device /\ proof.conn = c

\* The challenge is consumed whatever comes of it.
HandleProof(c) ==
    /\ conn[c].stage = "challenged" /\ up[c].kind = "proof"
    /\ LET mine == {a \in active : a.conn = c} IN
       \E late \in BOOLEAN :
         /\ IF late THEN Fault("late") ELSE UNCHANGED faults
         /\ IF mine # {} /\ ~late /\ Verifies(c, up[c])
            THEN /\ conn' = [conn EXCEPT ![c].stage = "accepted"]
                 /\ active' = active \ mine /\ consumed' = consumed \cup mine
                 /\ accepted' = accepted \cup {[conn |-> c, host |-> conn[c].host, device |-> conn[c].device,
                                                key |-> up[c].key, revoked |-> conn[c].device \in revoked]}
                 /\ Send(c, [Nothing EXCEPT !.kind = "accepted"])
                 /\ UNCHANGED <<harmed, turned>>
            ELSE /\ Refuses(c) /\ CancelConnection(c)
                 /\ turned' = TRUE /\ harmed' = (harmed \/ late) /\ UNCHANGED accepted
    /\ UNCHANGED <<at, key, vault, mem, job, code, remote, devices, revoked, told, conns, serial>>

\* The connection's thread ends: the peer has gone, or an accepted one is left.
HostCloses(c) ==
    /\ conn[c].stage \in {"open", "challenged", "accepted"}
    /\ job[conn[c].phone].conn # c
    /\ conn' = [conn EXCEPT ![c].stage = "closed"] /\ CancelConnection(c)
    /\ up' = [up EXCEPT ![c] = Nothing] /\ down' = [down EXCEPT ![c] = Nothing]
    /\ UNCHANGED <<at, key, vault, mem, job, code, remote, devices, revoked, told, accepted, harmed, turned,
                   conns, serial, faults>>

-----------------------------------------------------------------------------
(* The phone: what comes back *)

Hears(p, c, kind) == job[p].conn = c /\ c # 0 /\ down[c].kind = kind
Taken(c) == down' = [down EXCEPT ![c] = Nothing]

\* The answer to a pairing must name the host of the code; the credential is then stored.
ReadPaired(p) ==
    LET c == job[p].conn IN
    /\ job[p].task = "pair" /\ Hears(p, c, "paired") /\ Taken(c)
    /\ job' = [job EXCEPT ![p] = IF down[c].host = code[job[p].code].host
                                 THEN [@ EXCEPT !.task = "store", !.device = down[c].device] ELSE Idle]
    /\ UNCHANGED <<at, key, vault, mem, conn, up, code, remote, devices, revoked, active, consumed, told,
                   accepted, harmed, turned, conns, serial, faults>>

\* A new pairing begins without a remote path.
Credential(p) ==
    [host |-> code[job[p].code].host, device |-> job[p].device, address |-> code[job[p].code].address,
     remote |-> None]

\* The vault first, memory after it.
StorePaired(p) ==
    /\ job[p].task = "store"
    /\ \/ /\ vault' = [vault EXCEPT ![p] = Credential(p)] /\ UNCHANGED faults
          /\ job' = [job EXCEPT ![p].task = "stored"]
       \/ Fault("vault") /\ job' = [job EXCEPT ![p] = Idle] /\ UNCHANGED vault
    /\ UNCHANGED <<at, key, mem, conn, up, down, code, remote, devices, revoked, active, consumed, told,
                   accepted, harmed, turned, conns, serial>>

FinishPaired(p) ==
    /\ job[p].task = "stored"
    /\ mem' = [mem EXCEPT ![p] = Credential(p)] /\ job' = [job EXCEPT ![p] = Idle]
    /\ UNCHANGED <<at, key, vault, conn, up, down, code, remote, devices, revoked, active, consumed, told,
                   accepted, harmed, turned, conns, serial, faults>>

\* The transcript names the credential's host and device and this connection.
Sign(p) ==
    LET c == job[p].conn IN
    /\ job[p].task \in {"lan", "remote"} /\ Hears(p, c, "nonce") /\ Taken(c) /\ UsesKey(p)
    /\ up' = [up EXCEPT ![c] = [kind |-> "proof", code |-> None, key |-> KeyOf(p), device |-> mem[p].device,
                                host |-> mem[p].host, conn |-> c]]
    /\ UNCHANGED <<at, vault, mem, job, conn, code, remote, devices, revoked, active, consumed, told,
                   accepted, harmed, turned, conns, faults>>

\* Mutant: any answer to the proof is taken for an acceptance.
ReadAnyAnswer(p) ==
    LET c == job[p].conn IN
    /\ job[p].task \in {"lan", "remote"} /\ (Hears(p, c, "accepted") \/ Hears(p, c, "error")) /\ Taken(c)
    /\ job' = [job EXCEPT ![p].task = "online"]
    /\ UNCHANGED <<at, key, vault, mem, conn, up, code, remote, devices, revoked, active, consumed, told,
                   accepted, harmed, turned, conns, serial, faults>>

ReadAccepted(p) ==
    LET c == job[p].conn IN
    /\ job[p].task \in {"lan", "remote"} /\ Hears(p, c, "accepted") /\ Taken(c)
    /\ job' = [job EXCEPT ![p].task = "online"]
    /\ UNCHANGED <<at, key, vault, mem, conn, up, code, remote, devices, revoked, active, consumed, told,
                   accepted, harmed, turned, conns, serial, faults>>

\* An error, or the end of the connection: a local attempt goes on to the remote path.
ReadFailure(p) ==
    LET c == job[p].conn IN
    /\ job[p].task \in {"pair", "lan", "remote"}
    /\ Hears(p, c, "error") \/ (down[c] = Nothing /\ conn[c].stage = "closed")
    /\ Taken(c) /\ job' = [job EXCEPT ![p] = IF job[p].task = "lan" THEN [Idle EXCEPT !.task = "retry"] ELSE Idle]
    /\ UNCHANGED <<at, key, vault, mem, conn, up, code, remote, devices, revoked, active, consumed, told,
                   accepted, harmed, turned, conns, serial, faults>>

\* The user disconnects, or closes the pairing's connection.
Disconnect(p) ==
    /\ job[p].task = "online" /\ job' = [job EXCEPT ![p] = Idle]
    /\ UNCHANGED <<at, key, vault, mem, conn, up, down, code, remote, devices, revoked, active, consumed,
                   told, accepted, harmed, turned, conns, serial, faults>>

\* The remote code is written into the credential in memory, then stored; when the vault
\* refuses it, memory has no remote path, whatever the vault still holds.
ConfigureRemote(p, r) ==
    /\ job[p].task = "idle" /\ remote[r] # None /\ mem[p] # NoCredential
    /\ \/ /\ mem' = [mem EXCEPT ![p].remote = r] /\ vault' = [vault EXCEPT ![p] = mem'[p]]
          /\ UNCHANGED faults
       \/ /\ Fault("vault") /\ mem' = [mem EXCEPT ![p].remote = None] /\ UNCHANGED vault
    /\ UNCHANGED <<at, key, job, conn, up, down, code, remote, devices, revoked, active, consumed, told,
                   accepted, harmed, turned, conns, serial>>

-----------------------------------------------------------------------------
(* The environment *)

\* The phone's process dies; the next one reads the vault.
PhoneRestarts(p) ==
    /\ Fault("phone") /\ job[p] # Idle
    /\ mem' = [mem EXCEPT ![p] = vault[p]] /\ job' = [job EXCEPT ![p] = Idle]
    /\ UNCHANGED <<at, key, vault, conn, up, down, code, remote, devices, revoked, active, consumed, told,
                   accepted, harmed, turned, conns, serial>>

\* The host's process dies: its connections and its challenges are gone, its registry is not.
HostRestarts(h) ==
    /\ Fault("host") /\ \E c \in Slots : conn[c].host = h /\ conn[c].stage \notin {"free", "closed"}
    /\ conn' = [c \in Slots |-> IF conn[c].host = h THEN [conn[c] EXCEPT !.stage = "closed"] ELSE conn[c]]
    /\ up' = [c \in Slots |-> IF conn[c].host = h THEN Nothing ELSE up[c]]
    /\ down' = [c \in Slots |-> IF conn[c].host = h THEN Nothing ELSE down[c]]
    /\ active' = {a \in active : conn[a.conn].host # h}
    /\ consumed' = {a \in consumed : conn[a.conn].host # h}
    /\ UNCHANGED <<at, key, vault, mem, job, code, remote, devices, revoked, told, accepted, harmed, turned,
                   conns, serial>>

\* The connection breaks, with what is under way in it.
ConnectionBreaks(c) ==
    /\ conn[c].stage \in {"open", "challenged", "accepted"} /\ Fault("drop")
    /\ conn' = [conn EXCEPT ![c].stage = "closed"] /\ CancelConnection(c)
    /\ up' = [up EXCEPT ![c] = Nothing] /\ down' = [down EXCEPT ![c] = Nothing]
    /\ UNCHANGED <<at, key, vault, mem, job, code, remote, devices, revoked, told, accepted, harmed, turned,
                   conns, serial>>

KeyLost(p) ==
    /\ Fault("key") /\ key[p] # 0 /\ key' = [key EXCEPT ![p] = 0] /\ harmed' = TRUE
    /\ UNCHANGED <<at, vault, mem, job, conn, up, down, code, remote, devices, revoked, active, consumed,
                   told, accepted, turned, conns, serial>>

\* The operator revokes a device; its connections are ended elsewhere.
Revoke(d) ==
    /\ d.device \notin revoked /\ Fault("revoke")
    /\ revoked' = revoked \cup {d.device} /\ harmed' = TRUE
    /\ UNCHANGED <<at, key, vault, mem, job, conn, up, down, code, remote, devices, active, consumed, told,
                   accepted, turned, conns, serial>>

AddressMoves(a, h) ==
    /\ Fault("moved") /\ at[a] # h /\ at' = [at EXCEPT ![a] = h]
    /\ UNCHANGED <<key, vault, mem, job, conn, up, down, code, remote, devices, revoked, active, consumed,
                   told, accepted, harmed, turned, conns, serial>>

Next ==
    \/ \E b \in Codes, a \in Addresses : IssuePairing(b, a)
    \/ \E b \in Codes : CodeExpires(b)
    \/ \E r \in RemoteCodes, h \in Hosts : IssueRemote(r, h)
    \/ \E p \in Phones : \/ \E b \in Codes : Pair(p, b)
                         \/ ConnectLan(p) \/ ConnectRemote(p) \/ GivesUp(p)
                         \/ ReadPaired(p) \/ StorePaired(p) \/ FinishPaired(p) \/ Sign(p) \/ ReadAccepted(p)
                         \/ ReadFailure(p) \/ Disconnect(p) \/ PhoneRestarts(p) \/ KeyLost(p)
                         \/ \E r \in RemoteCodes : ConfigureRemote(p, r)
    \/ \E c \in Slots : \/ HandlePair(c) \/ HandleChallenge(c) \/ HandleProof(c) \/ HostCloses(c)
                        \/ ConnectionBreaks(c)
    \/ \E h \in Hosts : HostRestarts(h) \/ \E a \in Addresses : AddressMoves(a, h)
    \/ \E d \in devices : Revoke(d)

Spec == Init /\ [][Next]_vars

-----------------------------------------------------------------------------
(* Properties *)

\* Types, and the challenge store holds nothing of a connection that is over
\* (ChallengeStore::cancel_connection).
TypeOK ==
    /\ at \in [Addresses -> Hosts] /\ conns \in 0..MaxConns
    /\ \A a \in active \cup consumed : conn[a.conn].stage \in {"challenged", "accepted"}
    /\ active \cap consumed = {}

\* The credential a phone keeps names a device that its host has recorded, whatever was
\* lost between the host's commit and the phone's vault.
PairedIsRegistered ==
    \A p \in Phones : vault[p] # NoCredential =>
        \E d \in devices : d.host = vault[p].host /\ d.device = vault[p].device

\* The secret of a code is told only to the host that showed it, even when the address in
\* the code has come to belong to another host.
SecretStaysHome == \A t \in told : t.host = code[t.code].host

\* A host accepts only a device it has recorded, by that device's key, on the connection
\* of the phone that has this key.
AcceptedIsKnown ==
    \A a \in accepted : [host |-> a.host, device |-> a.device, key |-> a.key] \in devices

\* A phone is online only with the host that it is paired with, and that host takes it for
\* the device the phone's credential names.
EndsAgree ==
    \A p \in Phones : job[p].task = "online" =>
        LET c == job[p].conn IN
        /\ conn[c].host = mem[p].host
        /\ \E a \in accepted : a.conn = c /\ a.host = mem[p].host /\ a.device = mem[p].device

\* A remote path in the vault was configured for the pairing it is stored with: a new
\* pairing leaves none behind.
RemoteOfThisPairing ==
    [][\A p \in Phones : (vault'[p].device # vault[p].device) => vault'[p].remote = None]_vars

\* An authentication is turned away only when a key was lost, the device revoked or the
\* challenge too old: other connections that open, break and close do not matter.
TurnedAwayForCause == turned => harmed

\* A revoked device never authenticates.
RevokedNeverAccepted == \A a \in accepted : ~a.revoked
=============================================================================
