------------------------------ MODULE MCRemote ------------------------------
(***************************************************************************)
(* The public route for TLC: the host's remote control plane with the      *)
(* service it talks to (RemoteRoutes), and that service with all its       *)
(* clients (RelayService).  A behaviour belongs to one scenario, which     *)
(* says what may happen in it.                                             *)
(***************************************************************************)
EXTENDS RemoteRoutes

CONSTANTS d1

VARIABLES scenario, clock, state, file, here, seen, conn, lease, pipe, told, ran, twice, mishaps

relayVars == <<clock, state, file, here, seen, conn, lease, pipe, told, ran, twice, mishaps>>

-----------------------------------------------------------------------------
(* The host: a crash and a lost answer around one device; two devices in   *)
(* the outbox; push addresses and wakes; threads that are fair.            *)
Crashing == INSTANCE RemoteRoutes WITH MaxFid <- 0, MaxCalls <- 2
TwoQueued == INSTANCE RemoteRoutes
  WITH MaxFid <- 0, MaxCalls <- 2, MaxWakes <- 0, MaxFaults <- 0, MaxRelayRestarts <- 0
Waking == INSTANCE RemoteRoutes WITH MaxCrashes <- 0, MaxRelayRestarts <- 0
Served == INSTANCE RemoteRoutes WITH MaxFid <- 0, MaxCalls <- 2, MaxWakes <- 0, MaxRelayRestarts <- 0

\* Nothing is asked for another device.
OneDevice == \A d \in Devices \ {d1} :
  reg'[d] = "active" /\ d \notin token' /\ mem'.dev[d] = "none" /\ fid'[d] = fid[d] /\ \A t \in Threads : thr'[t].d # d

RoutesNext ==
  \/ scenario = "crashing" /\ Crashing!Next /\ OneDevice
  \/ scenario = "queued" /\ TwoQueued!Next
  \/ scenario = "waking" /\ Waking!Next /\ OneDevice
  \/ scenario = "served" /\ Served!Next /\ OneDevice

-----------------------------------------------------------------------------
(* The service: requests that are repeated as the clock moves; commits     *)
(* that fail; a revocation among requests of its slot; connections that    *)
(* compete; byte pipes; a thread that is fair.                             *)
OneRoute == [s \in {"s1", "s2"} |-> "r1"]

Replays == INSTANCE RelayService
  WITH mem <- state, disk <- file, replay <- seen, faults <- mishaps,
       Routes <- {"r1"}, Slots <- {"s1"}, RouteOf <- OneRoute, Conns <- {"c1", "c2"}, Sources <- {"x"},
       Pipes <- {}, Kinds <- {"route"}, Ops <- {"o1", "o2"}, OtherCreds <- {}, Versions <- {"0.1.0"},
       IdSteps <- {1}, Issued <- 0..2, Skew <- 1, Capacity <- 1, MaxFrames <- 3, MaxControl <- 3,
       PerSource <- 2, MaxGrants <- 2, RoutePipes <- 2, DevicePipes <- 1, Ttl <- 2, MaxClock <- 2,
       MaxFaults <- 0, FaultKinds <- {}

Commits == INSTANCE RelayService
  WITH mem <- state, disk <- file, replay <- seen, faults <- mishaps,
       Routes <- {"r1"}, Slots <- {"s1"}, RouteOf <- OneRoute, Conns <- {"c1"}, Sources <- {"x"},
       Pipes <- {}, Kinds <- {"route", "grant", "revoke", "push", "unpush"}, Ops <- {"o1"},
       OtherCreds <- {}, Versions <- {"0.1.0"}, IdSteps <- {1}, Issued <- {0}, Skew <- 1, Capacity <- 9,
       MaxFrames <- 3, MaxControl <- 3, PerSource <- 2, MaxGrants <- 2, RoutePipes <- 2,
       DevicePipes <- 1, Ttl <- 2, MaxClock <- 0, MaxFaults <- 2,
       FaultKinds <- {"clean", "landed", "restart"}

Races == INSTANCE RelayService
  WITH mem <- state, disk <- file, replay <- seen, faults <- mishaps,
       Routes <- {"r1"}, Slots <- {"s1"}, RouteOf <- OneRoute, Conns <- {"c1", "c2"}, Sources <- {"x"},
       Pipes <- {}, Kinds <- {"route", "grant", "revoke", "push", "wake"},
       Ops <- {"o1"}, OtherCreds <- {}, Versions <- {"0.1.0"}, IdSteps <- {1}, Issued <- {0}, Skew <- 1,
       Capacity <- 9, MaxFrames <- 3, MaxControl <- 3, PerSource <- 2, MaxGrants <- 2, RoutePipes <- 2,
       DevicePipes <- 1, Ttl <- 2, MaxClock <- 0, MaxFaults <- 0, FaultKinds <- {}

Admission == INSTANCE RelayService
  WITH mem <- state, disk <- file, replay <- seen, faults <- mishaps,
       Routes <- {"r1"}, Slots <- {"s1"}, RouteOf <- OneRoute, Conns <- {"c1", "c2", "c3"},
       Sources <- {"x", "y"}, Pipes <- {}, Kinds <- {"route"}, Ops <- {"o1"}, OtherCreds <- {"wrong"},
       Versions <- {"0.1.0"}, IdSteps <- {1, 2}, Issued <- {0}, Skew <- 1, Capacity <- 9,
       MaxFrames <- 2, MaxControl <- 2, PerSource <- 1, MaxGrants <- 2, RoutePipes <- 2,
       DevicePipes <- 1, Ttl <- 2, MaxClock <- 0, MaxFaults <- 0, FaultKinds <- {}

Piping == INSTANCE RelayService
  WITH mem <- state, disk <- file, replay <- seen, faults <- mishaps,
       Routes <- {"r1"}, Slots <- {"s1", "s2"}, RouteOf <- OneRoute, Conns <- {"c1"}, Sources <- {"x"},
       Pipes <- 1..3, Kinds <- {"route", "grant", "revoke"}, Ops <- {"o1"}, OtherCreds <- {},
       Versions <- {"0.1.0"}, IdSteps <- {1}, Issued <- {0}, Skew <- 1, Capacity <- 9, MaxFrames <- 3,
       MaxControl <- 3, PerSource <- 2, MaxGrants <- 2, RoutePipes <- 2, DevicePipes <- 1, Ttl <- 2,
       MaxClock <- 0, MaxFaults <- 0, FaultKinds <- {}

Answered == INSTANCE RelayService
  WITH mem <- state, disk <- file, replay <- seen, faults <- mishaps,
       Routes <- {"r1"}, Slots <- {"s1"}, RouteOf <- OneRoute, Conns <- {"c1"}, Sources <- {"x"},
       Pipes <- {}, Kinds <- {"route", "grant", "push", "wake", "presence", "resolve"}, Ops <- {"o1"}, OtherCreds <- {},
       Versions <- {"0.1.0"}, IdSteps <- {1}, Issued <- {0}, Skew <- 1, Capacity <- 9, MaxFrames <- 3,
       MaxControl <- 3, PerSource <- 2, MaxGrants <- 2, RoutePipes <- 2, DevicePipes <- 1, Ttl <- 1,
       MaxClock <- 1, MaxFaults <- 0, FaultKinds <- {}

ServiceNext ==
  \/ scenario = "replays" /\ Replays!Next
  \/ scenario = "commits" /\ Commits!Next
  \/ scenario = "races" /\ Races!Next
  \/ scenario = "admission" /\ Admission!Next
  \/ scenario = "pipes" /\ Piping!Next
  \/ scenario = "answered" /\ Answered!Next

-----------------------------------------------------------------------------
MCInit ==
  /\ Init
  /\ \/ scenario \in {"crashing", "queued", "waking", "served", "commits"} /\ Commits!Init
     \/ scenario = "replays" /\ Replays!Init
     \/ scenario = "races" /\ Races!Init
     \/ scenario = "admission" /\ Admission!Init
     \/ scenario = "pipes" /\ Piping!Init
     \/ scenario = "answered" /\ Answered!Init
MCNext == /\ UNCHANGED scenario
          /\ \/ RoutesNext /\ UNCHANGED relayVars
             \/ ServiceNext /\ UNCHANGED vars

\* Fairness as in FairSpec of the two modules.
Fairly(A) == scenario = "served" /\ A
MCSpec ==
  /\ MCInit /\ [][MCNext]_<<scenario, vars, relayVars>>
  /\ WF_vars(Fairly(HostStart)) /\ WF_vars(Fairly(RouteAnswered)) /\ WF_vars(Fairly(ReconcileLocalRevocations))
  /\ WF_vars(Fairly(MainTop)) /\ WF_vars(Fairly(PresenceAnswered)) /\ WF_vars(Fairly(RefreshPresence(Main)))
  /\ \A t \in Threads : /\ WF_vars(Fairly(FlushNextRevoke(t))) /\ WF_vars(Fairly(RevokeAnswered(t)))
                        /\ WF_vars(Fairly(FlushDone(t)))
  /\ \A c \in Callers : /\ WF_vars(Fairly(EnqueueRevoke(c))) /\ WF_vars(Fairly(RegisterDevice(c)))
                        /\ WF_vars(Fairly(GrantAnswered(c))) /\ WF_vars(Fairly(WakeAnswered(c)))
  /\ WF_vars(Fairly(Service))
  /\ WF_relayVars(scenario = "answered" /\ Answered!ThreadStep("c1"))

-----------------------------------------------------------------------------
(* What is checked besides the properties of RemoteRoutes; the comments in *)
(* the two modules say what each states.                                   *)

\* A queued revocation is acknowledged in the end (flush_next_revoke).
RevocationReachesService == scenario = "served" => RevocationReachesRelay

\* A host that is down serves again (RemoteHostRuntime start).
RestartsServe == scenario = "served" => RestartServes

\* A revoked slot is queued, or about to be, as long as no enqueueing fails.
RevokedIsAlwaysQueued == scenario = "queued" => RevokedIsQueued

\* The replay table never outgrows its capacity (accept_operation).
ReplayTableFits == scenario = "replays" => Replays!TypeOK

\* A request is executed at most once (accept_operation).
ExecutedOnce == scenario = "replays" => Replays!ExecutedOnce

\* Refused operations leave both ends at the same request id (ControlConnection).
HonestIsUnderstood == scenario = "replays" => Replays!HonestIsUnderstood

\* What was acknowledged is in memory and in the file (Registry::commit).
AckedSurvives == scenario = "commits" => Commits!AckedSurvives

\* The file can always be opened again (validate_state).
FileOpens == scenario = "commits" => Commits!FileOpens

\* No request of a slot succeeds after its revocation (Registry, control.rs).
RevokedIsRefused ==
  [][scenario = "races" => \A c \in {"c1", "c2"} : Races!RefusesRevoked(c)]_relayVars

\* No path through a connection thread leaks a lease (ControlAdmission).
LeasesCount == scenario = "admission" => Admission!LeasesCount

\* No route and no device holds more pipes than its limit (AdmissionLimits).
PipesBounded == scenario = "pipes" => Piping!PipesBounded

\* Every frame that was read is answered, or its connection ends (serve_control).
EveryFrameEnds == scenario = "answered" => Answered!EveryFrameEnds
=============================================================================
