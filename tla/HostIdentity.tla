------------------------------ MODULE HostIdentity ------------------------------
(***************************************************************************)
(* What makes a host the same host after a restart: the salt its           *)
(* identifiers are minted from, its TLS key, the key of its remote         *)
(* endpoint, the remote control state and the device registry, each a      *)
(* private file that the start-up makes when it is missing.  A start opens *)
(* them one after the other; it can be killed between any two steps, a     *)
(* write can fail or be lost with the power, and while the host is down    *)
(* the operator may damage, expose or remove a file.  A value is a number, *)
(* drawn afresh for each key that is generated.                            *)
(***************************************************************************)
EXTENDS Integers, Sequences, FiniteSets

CONSTANTS
    Modes,        \* the commands the operator gives: "lan", "remote"
    RemoteFirst,  \* may a remote start be the one that makes the directories?
    Legacy,       \* is there a salt in the place older versions kept it?
    FaultKinds,   \* "crash", "gap", "power", "store", "sync", "service", "damage", "expose"
    Losable,      \* files the operator may remove
    MaxFaults,    \* bound: faults
    MaxStarts     \* bound: starts

VARIABLES
    dir,     \* [Directories -> "absent" | "open" | "private"]
    file,    \* [Files -> [value, mode]]
    todo,    \* what is left of the start, <<>> when the host is down or serves
    phase,   \* where it is in the first of them
    mem,     \* [Files -> value the process has read or made]
    tunnel,  \* the endpoint the tunnel is bound to
    up,      \* "down" | "starting" | "serving"
    log,     \* the host the canonical log is about
    route,   \* the endpoint registered at the service
    issued,  \* history: the pairings shown, each with host and pin
    last,    \* history: how the last start ended
    harmed,  \* history: has the operator touched a file?
    fresh, starts, faults

vars == <<dir, file, todo, phase, mem, tunnel, up, log, route, issued, last, harmed, fresh, starts,
          faults>>

None == 0
Bad == -1
Directories == {"security", "remote"}
Keys == {"salt", "tls", "secret", "control"}
Files == Keys \cup {"registry", "legacy"}
Absent == [value |-> None, mode |-> "private"]
Phases == {"open", "chmod", "load", "store", "sync", "reload", "retire"}

Init ==
    /\ dir = [d \in Directories |-> "absent"]
    /\ file = [f \in Files |-> IF f = "legacy" /\ Legacy THEN [value |-> 1, mode |-> "open"] ELSE Absent]
    /\ todo = <<>> /\ phase = "open" /\ mem = [f \in Files |-> None] /\ tunnel = None
    /\ up = "down" /\ log = None /\ route = None /\ issued = {} /\ last = "none"
    /\ harmed = FALSE /\ fresh = 2 /\ starts = 0 /\ faults = 0

Fault(kind) == kind \in FaultKinds /\ faults < MaxFaults /\ faults' = faults + 1

-----------------------------------------------------------------------------
(* A start and its steps *)

Task == Head(todo)
DirectoryOf(f) == IF f = "secret" THEN "remote" ELSE "security"
\* The tunnel asks for the endpoint's key a second time.
FileOf(task) == IF task = "tunnel" THEN "secret" ELSE task

\* The order of a start; the remote one opens its own state before all else.
Steps(mode) ==
    LET Common == <<"salt", "broker", "tls", "registry">> IN
    IF mode = "lan" THEN Common \o <<"pairing">>
    ELSE <<"secret", "control", "route">> \o Common \o <<"tunnel", "online", "pairing", "presence">>

Start(mode) ==
    /\ up = "down" /\ starts < MaxStarts /\ starts' = starts + 1
    /\ mode = "remote" => RemoteFirst \/ dir["security"] = "private"
    /\ up' = "starting" /\ todo' = Steps(mode) /\ phase' = "open"
    /\ mem' = [f \in Files |-> None] /\ tunnel' = None
    /\ UNCHANGED <<dir, file, log, route, issued, last, harmed, fresh, faults>>

At(ph) == up = "starting" /\ todo # <<>> /\ FileOf(Task) \in Files /\ phase = ph
Proceed == todo' = Tail(todo) /\ phase' = "open" /\ up' = (IF Tail(todo) = <<>> THEN "serving" ELSE up)
           /\ last' = (IF Tail(todo) = <<>> THEN "served" ELSE last)
\* An error ends the start: "refused" for what it found, "failed" for what it could not do.
Ends(how) == todo' = <<>> /\ phase' = "open" /\ up' = "down" /\ last' = how

-----------------------------------------------------------------------------
(* A private file *)

Private(mode) == mode = "private"

\* create_dir_all makes the parent too; only the directory itself is then made private.
MakeDirectory ==
    /\ At("open") /\ dir[DirectoryOf(FileOf(Task))] = "absent"
    /\ dir' = [d \in Directories |->
                 IF dir[d] = "absent" /\ d \in {"security", DirectoryOf(FileOf(Task))}
                 THEN "open" ELSE dir[d]]
    /\ phase' = "chmod"
    /\ UNCHANGED <<file, todo, mem, tunnel, up, log, route, issued, last, harmed, fresh, starts, faults>>

SetPermissions ==
    /\ At("chmod")
    /\ dir' = [dir EXCEPT ![DirectoryOf(FileOf(Task))] = "private"] /\ phase' = "load"
    /\ UNCHANGED <<file, todo, mem, tunnel, up, log, route, issued, last, harmed, fresh, starts, faults>>

Opens(f) == Private(dir[DirectoryOf(f)]) /\ (file[f].value # None => Private(file[f].mode))

OpenFile ==
    /\ At("open") /\ dir[DirectoryOf(FileOf(Task))] # "absent"
    /\ IF Opens(FileOf(Task)) THEN phase' = "load" /\ UNCHANGED <<todo, up, last>>
                              ELSE Ends("refused")
    /\ UNCHANGED <<dir, file, mem, tunnel, log, route, issued, harmed, fresh, starts, faults>>

Parses(value) == value # Bad

Missing(f) == file[f].value = None

\* The control state names the endpoint it was made for.
MatchesConfig(f) == f = "control" => file[f].value = mem["secret"]

Read(f) ==
    IF Task = "tunnel" THEN tunnel' = file[f].value /\ UNCHANGED mem
                       ELSE mem' = [mem EXCEPT ![f] = file[f].value] /\ UNCHANGED tunnel

LoadFile ==
    /\ At("load")
    /\ LET f == FileOf(Task) IN
       \/ /\ ~Missing(f) /\ Parses(file[f].value) /\ MatchesConfig(f) /\ Proceed /\ Read(f)
          /\ UNCHANGED fresh
       \/ /\ ~Missing(f) /\ ~(Parses(file[f].value) /\ MatchesConfig(f)) /\ Ends("refused")
          /\ UNCHANGED <<mem, tunnel, fresh>>
       \/ \* an empty registry is not written before the first pairing
          /\ f = "registry" /\ Missing(f) /\ Proceed /\ UNCHANGED <<mem, tunnel, fresh>>
       \/ /\ f \in Keys /\ Missing(f)
          /\ \/ /\ f = "salt" /\ file["legacy"].value # None /\ Parses(file["legacy"].value)
                /\ mem' = [mem EXCEPT ![f] = file["legacy"].value] /\ phase' = "store"
                /\ UNCHANGED <<todo, up, last, fresh>>
             \/ /\ f = "salt" /\ file["legacy"].value = Bad /\ Ends("refused")
                /\ UNCHANGED <<mem, fresh>>
             \/ /\ f = "control" /\ mem' = [mem EXCEPT ![f] = mem["secret"]] /\ phase' = "store"
                /\ UNCHANGED <<todo, up, last, fresh>>
             \/ /\ f # "control" /\ ~(f = "salt" /\ file["legacy"].value # None)
                /\ mem' = [mem EXCEPT ![f] = fresh] /\ fresh' = fresh + 1 /\ phase' = "store"
                /\ UNCHANGED <<todo, up, last>>
          /\ UNCHANGED tunnel
    /\ UNCHANGED <<dir, file, log, route, issued, harmed, starts, faults>>

\* Mutant: the TLS key is used before it is on disk.
StoredLater(f) == IF f = "tls" THEN file ELSE [file EXCEPT ![f] = [value |-> mem[f], mode |-> "private"]]

Stored(f) == [file EXCEPT ![f] = [value |-> mem[f], mode |-> "private"]]

\* A temporary file, synchronised, takes the place of the file in one step.
StoreFile ==
    /\ At("store")
    /\ \/ file' = Stored(Task) /\ phase' = "sync" /\ UNCHANGED <<todo, up, last, faults>>
       \/ Fault("store") /\ Ends("failed") /\ UNCHANGED file
    /\ UNCHANGED <<dir, mem, tunnel, log, route, issued, harmed, fresh, starts>>

\* The directory is synchronised; when that fails the file is there all the same.
SyncDirectory ==
    /\ At("sync")
    /\ \/ /\ UNCHANGED faults
          /\ CASE Task \in {"secret", "control"} \/ (Task = "salt" /\ file["legacy"].value = None) ->
                    phase' = "reload" /\ UNCHANGED <<todo, up, last>>
               [] Task = "salt" /\ file["legacy"].value # None -> phase' = "retire" /\ UNCHANGED <<todo, up, last>>
               [] OTHER -> Proceed
       \/ Fault("sync") /\ Ends("failed")
    /\ UNCHANGED <<dir, file, mem, tunnel, log, route, issued, harmed, fresh, starts>>

\* What was written is what is used.
ReloadFile ==
    /\ At("reload") /\ Proceed /\ Read(FileOf(Task))
    /\ UNCHANGED <<dir, file, log, route, issued, harmed, fresh, starts, faults>>

\* The salt has moved: the old file goes.
RetireLegacy ==
    /\ At("retire")
    /\ \/ file' = [file EXCEPT !["legacy"] = Absent] /\ Proceed /\ UNCHANGED faults
       \/ Fault("store") /\ Ends("failed") /\ UNCHANGED file
    /\ UNCHANGED <<dir, mem, tunnel, log, route, issued, harmed, fresh, starts>>

-----------------------------------------------------------------------------
(* The other steps of a start *)

LogIsOurs == log \in {None, mem["salt"]}

\* The log is loaded, then the runtimes start and record the host.
LoadBroker ==
    /\ up = "starting" /\ todo # <<>> /\ Task = "broker"
    /\ IF LogIsOurs THEN Proceed /\ log' = mem["salt"] ELSE Ends("refused") /\ UNCHANGED log
    /\ UNCHANGED <<dir, file, mem, tunnel, route, issued, harmed, fresh, starts, faults>>

RegisterRoute ==
    /\ up = "starting" /\ todo # <<>> /\ Task = "route"
    /\ \/ Proceed /\ route' = mem["control"] /\ UNCHANGED faults
       \/ Fault("service") /\ Ends("failed") /\ route' \in {route, mem["control"]}
    /\ UNCHANGED <<dir, file, mem, tunnel, log, issued, harmed, fresh, starts>>

\* The endpoint is bound under the key read for it, and has to reach its relay in time.
GoOnline ==
    /\ up = "starting" /\ todo # <<>> /\ Task = "online"
    /\ \/ Proceed /\ UNCHANGED faults
       \/ Fault("service") /\ Ends("failed")
    /\ UNCHANGED <<dir, file, mem, tunnel, log, route, issued, harmed, fresh, starts>>

\* The registry counts one pairing more, and then the operator sees it.
IssuePairing ==
    /\ up = "starting" /\ todo # <<>> /\ Task = "pairing"
    /\ \/ /\ Proceed /\ UNCHANGED faults
          /\ file' = [file EXCEPT !["registry"] = [value |-> 1, mode |-> "private"]]
          /\ issued' = issued \cup {[host |-> mem["salt"], pin |-> mem["tls"]]}
       \/ /\ Fault("store") /\ Ends("failed") /\ UNCHANGED <<file, issued>>
    /\ UNCHANGED <<dir, mem, tunnel, log, route, harmed, fresh, starts>>

\* The endpoint that is bound must be the one that was registered.
PublishPresence ==
    /\ up = "starting" /\ todo # <<>> /\ Task = "presence"
    /\ \/ tunnel = mem["secret"] /\ Proceed /\ UNCHANGED faults
       \/ tunnel # mem["secret"] /\ Ends("refused") /\ UNCHANGED faults
       \/ Fault("service") /\ Ends("failed")
    /\ UNCHANGED <<dir, file, mem, tunnel, log, route, issued, harmed, fresh, starts>>

Stop ==
    /\ up = "serving" /\ Ends("stopped")
    /\ UNCHANGED <<dir, file, mem, tunnel, log, route, issued, harmed, fresh, starts, faults>>

-----------------------------------------------------------------------------
(* The environment *)

\* The process is killed; with the power goes a rename whose directory was not synchronised.
Crash ==
    /\ up # "down"
    /\ \/ /\ Fault("crash") /\ phase # "chmod" /\ UNCHANGED file
       \/ /\ Fault("gap") /\ phase = "chmod" /\ UNCHANGED file
       \/ /\ Fault("power") /\ At("sync") /\ file' = [file EXCEPT ![Task] = Absent]
    /\ Ends("killed")
    /\ UNCHANGED <<dir, mem, tunnel, log, route, issued, harmed, fresh, starts>>

Operator(f) ==
    /\ up = "down" /\ file[f].value # None /\ harmed' = TRUE
    /\ \/ Fault("damage") /\ file' = [file EXCEPT ![f].value = Bad]
       \/ Fault("expose") /\ f # "legacy" /\ file' = [file EXCEPT ![f].mode = "open"]
       \/ /\ f \in Losable /\ faults < MaxFaults /\ faults' = faults + 1
          /\ file' = [file EXCEPT ![f] = Absent]
    /\ UNCHANGED <<dir, todo, phase, mem, tunnel, up, log, route, issued, last, fresh, starts>>

HostStep ==
    \/ MakeDirectory \/ SetPermissions \/ OpenFile \/ LoadFile \/ StoreFile \/ SyncDirectory
    \/ ReloadFile \/ RetireLegacy \/ LoadBroker \/ RegisterRoute \/ GoOnline \/ IssuePairing \/ PublishPresence

Next ==
    \/ \E mode \in Modes : Start(mode)
    \/ HostStep \/ Stop \/ Crash
    \/ \E f \in Files : Operator(f)

Spec == Init /\ [][Next]_vars

-----------------------------------------------------------------------------
(* Properties *)

\* Types, and a process that serves has read or written every file that it uses.
TypeOK ==
    /\ dir \in [Directories -> {"absent", "open", "private"}]
    /\ DOMAIN file = Files /\ phase \in Phases /\ up \in {"down", "starting", "serving"}
    /\ up = "serving" => \A f \in {"salt", "tls"} : mem[f] = file[f].value /\ Private(file[f].mode)

\* A key that exists is never replaced: what is damaged, or open to others, ends the start
\* and stays as it is (TlsIdentityStore::load, PrivateFileStore::load, parse_identity_salt).
NeverReplaced ==
    [][\A f \in Keys : (file[f].value # None /\ faults' = faults) => file'[f] = file[f]]_vars

\* A host that serves is the one its log is about and the one every pairing it has ever
\* shown names, with the same pin, across restarts, crashes and a salt that was lost.
SameHost ==
    up = "serving" => log = mem["salt"] /\ \A p \in issued : p = [host |-> mem["salt"], pin |-> mem["tls"]]

\* A host that serves remotely listens at the endpoint its route was registered for.
RouteIsOurs == (up = "serving" /\ mem["control"] # None) => (route = tunnel /\ tunnel = file["secret"].value)

\* A start is refused only when someone has touched its files: what an earlier start has
\* left behind, complete or not, is taken up by the next one.
RefusedForCause == last = "refused" => harmed
=============================================================================
