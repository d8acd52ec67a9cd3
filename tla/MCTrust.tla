------------------------------- MODULE MCTrust -------------------------------
(***************************************************************************)
(* Trust between phones and hosts for TLC: pairing and authentication      *)
(* (DeviceAuth), and what makes a host the same host after a restart       *)
(* (HostIdentity).  A behaviour belongs to one scenario, which says what   *)
(* may happen in it.                                                       *)
(***************************************************************************)
EXTENDS DeviceAuth

VARIABLES scenario, dir, file, todo, phase, loaded, tunnel, running, log, route, issued, last, touched,
          fresh, starts, upsets

identityVars == <<dir, file, todo, phase, loaded, tunnel, running, log, route, issued, last, touched,
                  fresh, starts, upsets>>

-----------------------------------------------------------------------------
(* Two hosts and codes of both, at an address that may move; one host and  *)
(* a phone whose key, device or time runs out; remote paths and repeated   *)
(* pairings; two phones.                                                   *)
Pairing == INSTANCE DeviceAuth
  WITH FaultKinds <- {"phone", "host", "drop", "vault", "commit", "moved", "late"}, MaxFaults <- 2
Proving == INSTANCE DeviceAuth
  WITH FaultKinds <- {"key", "revoke", "late", "drop", "host", "phone"}, MaxFaults <- 2
Roaming == INSTANCE DeviceAuth WITH FaultKinds <- {"moved", "vault"}, MaxFaults <- 2
TwoPhones == INSTANCE DeviceAuth WITH FaultKinds <- {"drop", "phone"}, MaxFaults <- 1

\* Only these phones, codes and remote codes are used.
Only(phones, codes, remotes) ==
  /\ \A p \in Phones \ phones : job'[p] = Idle
  /\ \A b \in Codes \ codes : code'[b].state = "unissued"
  /\ \A r \in RemoteCodes \ remotes : remote'[r] = None

AuthNext ==
  \/ scenario = "pairing" /\ Pairing!Next /\ Only({"p1"}, Codes, {}) /\ conns' <= 3
  \/ scenario = "proving" /\ Proving!Next /\ Only({"p1"}, {"b1"}, {"r1"})
  \/ scenario = "roaming" /\ Roaming!Next /\ Only({"p1"}, Codes, {"r1"})
  \/ scenario = "phones" /\ TwoPhones!Next /\ Only(Phones, Codes, {}) /\ conns' <= 3

-----------------------------------------------------------------------------
(* Starts that are killed, lose the power or cannot write; and a host      *)
(* whose files were touched while it was down.                             *)
Restarts == INSTANCE HostIdentity
  WITH mem <- loaded, up <- running, harmed <- touched, faults <- upsets,
       Modes <- {"lan", "remote"}, RemoteFirst <- FALSE, Legacy <- TRUE,
       FaultKinds <- {"crash", "power", "store", "sync", "service"}, Losable <- {},
       MaxFaults <- 3, MaxStarts <- 4
Touched == INSTANCE HostIdentity
  WITH mem <- loaded, up <- running, harmed <- touched, faults <- upsets,
       Modes <- {"lan", "remote"}, RemoteFirst <- FALSE, Legacy <- TRUE,
       FaultKinds <- {"crash", "store", "damage", "expose"},
       Losable <- {"salt", "secret", "control", "registry", "legacy"}, MaxFaults <- 2, MaxStarts <- 5

IdentityNext ==
  \/ scenario = "restarts" /\ Restarts!Next
  \/ scenario = "touched" /\ Touched!Next

-----------------------------------------------------------------------------
MCInit == /\ Init /\ at \in [Addresses -> {"h1"}] /\ Restarts!Init
          /\ scenario \in {"pairing", "proving", "roaming", "phones", "restarts", "touched"}
MCNext == /\ UNCHANGED scenario
          /\ \/ AuthNext /\ UNCHANGED identityVars
             \/ IdentityNext /\ UNCHANGED vars
MCSpec ==
  /\ MCInit /\ [][MCNext]_<<scenario, vars, identityVars>>

-----------------------------------------------------------------------------
(* What is checked besides the properties of DeviceAuth.                   *)

\* A host that serves has its keys on disk, and private.
IdentityTypeOK == Touched!TypeOK

\* A key that exists is never replaced (TlsIdentityStore::load, parse_identity_salt).
NeverReplaced == Touched!NeverReplaced

\* A host that serves is the one its log and its pairings name (LoadBroker, IssuePairing).
SameHost == Touched!SameHost

\* A host that serves remotely listens where its route leads (publish_presence).
RouteIsOurs == scenario = "touched" => Touched!RouteIsOurs

\* A start is refused only when someone has touched its files (PrivateFileStore).
RefusedForCause == Restarts!RefusedForCause
=============================================================================
