-------------------------------- MODULE MCLan --------------------------------
(***************************************************************************)
(* The host's door for TLC: connections, pairing, authentication and       *)
(* revocation (DeviceSessions), and what the host says about its own       *)
(* reachability (HostReachability).  A behaviour belongs to one scenario,  *)
(* which says what may happen in it.                                       *)
(***************************************************************************)
EXTENDS DeviceSessions

CONSTANTS c1, c2, c3, s1, s2

VARIABLES scenario, phase, read, counted, paths, latch, published, changes, lost, server

reachVars == <<phase, read, counted, paths, latch, published, changes, lost, server>>

\* Connections that compete for the limits; sources that fail; a registry that is
\* written, revoked in and read back; the clocks of one session.
Limits == INSTANCE DeviceSessions
  WITH MaxNow <- 0, MaxAccepts <- 3, MaxRestarts <- 0, MaxRevokes <- 0, Faults <- {}
Attempts == INSTANCE DeviceSessions
  WITH MaxNow <- 0, MaxAccepts <- 4, MaxRestarts <- 0, MaxRevokes <- 0, Faults <- {}
Registry == INSTANCE DeviceSessions WITH MaxNow <- 0, MaxAccepts <- 3
Timers == INSTANCE DeviceSessions
  WITH MaxAccepts <- 2, MaxRestarts <- 0, MaxRevokes <- 1, Faults <- {}

\* Only these connections are made, from these sources, by these devices.
Only(conns, sources, devices) ==
  \A c \in Conns : conn'[c].stage # "free" =>
    c \in conns /\ conn'[c].source \in sources /\ conn'[c].device \in devices \cup {None}

\* The device that a first pairing makes.
FirstDevice == CHOOSE d \in Devices : TRUE

SessionsNext ==
  \/ scenario = "limits" /\ Limits!Next /\ Only(Conns, Sources, {FirstDevice})
  \/ scenario = "attempts" /\ Attempts!Next /\ Only({c1, c2}, {s1}, {FirstDevice})
  \/ scenario = "registry" /\ Registry!Next /\ Only({c1, c2}, {s1}, Devices)
  \/ scenario = "timers" /\ Timers!Next /\ Only({c1}, {s1}, {FirstDevice})

\* One connection after the other; the same with commits that fail; connections
\* that overlap, while the host stops.
Single == INSTANCE HostReachability
  WITH Lan <- {"l1", "l2"}, Remote <- {"r1"}, MaxChanges <- 2, MaxFailures <- 0, Overlap <- FALSE,
       failures <- lost
Failing == INSTANCE HostReachability
  WITH Lan <- {"l1", "l2"}, Remote <- {"r1"}, MaxChanges <- 2, MaxFailures <- 1, Overlap <- FALSE,
       failures <- lost
Overlapping == INSTANCE HostReachability
  WITH Lan <- {"l1", "l2"}, Remote <- {"r1"}, MaxChanges <- 1, MaxFailures <- 0, Overlap <- TRUE,
       failures <- lost

ReachNext ==
  \/ scenario = "single" /\ Single!Next
  \/ scenario = "failing" /\ Failing!Next
  \/ scenario = "overlapping" /\ Overlapping!Next

MCInit == /\ Init /\ Single!Init
          /\ scenario \in {"limits", "attempts", "registry", "timers", "single", "failing", "overlapping"}
MCNext == /\ UNCHANGED scenario
          /\ \/ SessionsNext /\ UNCHANGED reachVars
             \/ ReachNext /\ UNCHANGED vars

\* Fairness as in FairSpec of DeviceSessions.
Timed(A) == scenario = "timers" /\ A
MCSpec ==
  /\ MCInit /\ [][MCNext]_<<scenario, vars, reachVars>>
  /\ WF_vars(Timed(LoopTop(c1))) /\ WF_vars(Timed(NoFrame(c1))) /\ WF_vars(Timed(Authenticated(c1)))
  /\ WF_vars(Timed(CancelConnection(c1))) /\ WF_vars(Timed(LimiterClose(c1)))
  /\ \A d \in Devices : WF_vars(Timed(DisconnectRevokedDevice(d)))

-----------------------------------------------------------------------------
(* What is checked besides the properties of DeviceSessions.               *)

\* Every session of a revoked device ends (business_loop).
RevokedSessionsAreEnded == scenario = "timers" => RevokedSessionsEnd

\* Counter and path map describe exactly the connections that hold a guard.
ReachTypeOK == Failing!TypeOK

\* Between publications the latch is the path the connections have, as long as
\* they do not overlap and no commit fails (publish_authenticated_reachability).
QuietMeansTrue == scenario = "single" => Single!QuietMeansTrue

\* A host that stopped says Offline (LanServer::stop).
StoppedMeansOffline == scenario # "failing" => Overlapping!StoppedMeansOffline
=============================================================================
