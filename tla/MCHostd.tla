------------------------------- MODULE MCHostd -------------------------------
(***************************************************************************)
(* The host process for TLC: the input queue of a session with its pumps,  *)
(* and the runtime supervisor.  A behaviour is about one of the two; the   *)
(* other one stays as it started.                                          *)
(***************************************************************************)
EXTENDS InputQueue

CONSTANTS p1, p2

TwoEntries == 1..2

VARIABLES part, host, workers, routes, w, cmd, disp, news, reports

\* Two runtimes, whose starts may both list a third session.
RuntimeNames == <<"claude", "codex">>
OwnSession == [claude |-> "s1", codex |-> "s2"]
MaybeListed == [claude |-> {{}, {"s3"}}, codex |-> {{}, {"s3"}}]
Targets == [c1 |-> "s1", c2 |-> "s3"]

Supervisor == INSTANCE RuntimeSupervisor
  WITH Runtimes <- RuntimeNames, Primary <- OwnSession, Listings <- MaybeListed,
       Commands <- {"c1", "c2"}, Target <- Targets, Leftover <- {"c2"},
       MayFail <- {"runtime", "recover", "bind", "pair", "drain"},
       LifecycleCap <- 1, MaxNews <- 2, None <- "none"

supervisorVars == <<host, workers, routes, w, cmd, disp, news, reports>>

MCInit == part \in {"queue", "supervisor"} /\ Init /\ Supervisor!Init
MCNext ==
  /\ UNCHANGED part
  /\ \/ part = "queue" /\ Next /\ UNCHANGED supervisorVars
     \/ part = "supervisor" /\ Supervisor!Next /\ news'["codex"].said <= 1 /\ UNCHANGED vars

\* Fairness as in FairSpec of either module.
MCSpec ==
  /\ MCInit /\ [][MCNext]_<<part, vars, supervisorVars>>
  /\ WF_vars(part = "queue" /\ BrokerStep) /\ WF_vars(part = "queue" /\ WorkerStep)
  /\ WF_vars(part = "queue" /\ StartupStep)
  /\ \A p \in Pumps : WF_vars(part = "queue" /\ PumpStep(p))
  /\ WF_supervisorVars(part = "supervisor" /\ Supervisor!StartStep)
  /\ WF_supervisorVars(part = "supervisor" /\ Supervisor!StopStep)
  /\ \A c \in {"c1", "c2"} : WF_supervisorVars(part = "supervisor" /\ Supervisor!ThreadStep(c))
  /\ \A r \in {"claude", "codex"} : /\ WF_supervisorVars(part = "supervisor" /\ Supervisor!WorkerStep(r))
                                    /\ WF_supervisorVars(part = "supervisor" /\ Supervisor!RequestDrain(r))

-----------------------------------------------------------------------------
(* The properties of RuntimeSupervisor that are checked here; the comments *)
(* there say what each is about.                                           *)

\* Only running workers are registered and routed to (start_runtime, stop_session).
RoutesLeadToWorkers == Supervisor!TypeOK

\* request_drain's flag is exact.
DrainsCoalesce == Supervisor!DrainsCoalesce

\* recover_all_ready is through before the listener is bound (start_inner).
RecoveredBeforeListening == Supervisor!RecoveredBeforeListening

\* A claimed command is always with someone (dispatch_ticket, run_worker).
ClaimsAreInFlight == Supervisor!ClaimsAreInFlight

\* A failed start and a stop leave no worker and no route (stop_sessions).
NothingOutlivesTheHost == Supervisor!NothingOutlivesTheHost

\* What a provider says is read, unless its worker is stopped (request_drain, run_worker).
NewsIsHeard == Supervisor!NewsIsHeard

\* A host that stops, or fails to start, comes down (stop_session, shutdown).
ShutdownFinishes == Supervisor!ShutdownFinishes
=============================================================================
