------------------------------- MODULE MCMobile -------------------------------
(***************************************************************************)
(* The phone's application and its connection (MobileApp) for TLC.  A      *)
(* behaviour belongs to one scenario, which says what the user, the        *)
(* platform and the network do in it.                                      *)
(***************************************************************************)
EXTENDS MobileApp

CONSTANT Scenarios

VARIABLE scenario

\* The network changes under the connection; the user opens and leaves a session; the user
\* connects and disconnects while the host turns the phone away; a worker left to itself.
Network == INSTANCE MobileApp WITH Tiers <- {"Relay"}, Taps <- {}, MaxTaps <- 0, MaxHead <- 2,
  MaxNetwork <- 2, MaxWakes <- 1, FaultKinds <- {"break", "slow"}, MaxFaults <- 1
Panels == INSTANCE MobileApp WITH Tiers <- {"Relay"}, Taps <- {"select", "unselect"}, MaxTaps <- 2,
  MaxHead <- 2, MaxNetwork <- 0, MaxWakes <- 1, FaultKinds <- {"flip", "gap"}, MaxFaults <- 1
Taken == INSTANCE MobileApp WITH Tiers <- {"Lan"}, Taps <- {"connect", "disconnect", "select"}, MaxTaps <- 2,
  MaxHead <- 1, MaxNetwork <- 0, MaxWakes <- 1, FaultKinds <- {"break", "reject"}, MaxFaults <- 1
Left == INSTANCE MobileApp WITH Tiers <- {"Lan"}, Taps <- {"disconnect"}, MaxTaps <- 1, MaxHead <- 1,
  MaxNetwork <- 1, MaxWakes <- 1, FaultKinds <- {"break", "nodial", "slow"}, MaxFaults <- 1

\* No session is selected, and none of its projections changes.
Unpicked == \A k \in PickedKeys : host'.head[k] = host.head[k]

MCInit == scenario \in Scenarios /\ Init
MCNext ==
  /\ UNCHANGED scenario
  /\ \/ scenario = "network" /\ Network!Next /\ Unpicked
     \/ scenario = "panels" /\ Panels!Next
     \/ scenario = "taken" /\ Taken!Next
     \/ scenario = "left" /\ Left!Next /\ Unpicked

\* The worker thread and the lane's dispatcher run; nothing is assumed of the user, the
\* platform or the host's changes.
MCSpec ==
  /\ MCInit /\ [][MCNext]_<<scenario, vars>>
  /\ WF_vars(scenario = "left" /\ Left!WorkerStep) /\ WF_vars(scenario = "left" /\ Left!LaneStep)

-----------------------------------------------------------------------------
\* Once both sides are at rest on an authenticated wire the screen says so
\* (applyConnectionStatus), unless the host turned a subscription away.
RestIsShown == scenario # "taken" => SettledIsShown

\* The worker holds one subscription for a projection (subscribeKey, resubscribe), unless the
\* host turned one away.
IntentsAreUnique == scenario # "taken" => OneIntentPerKey

\* On a connection at rest every panel is live and shows the newest projection of the host,
\* after a reconnection too (reconcileSubscriptions, handleSubscriptionClosed).
PanelsAreLive == scenario = "panels" => ResumedIsLive

\* Every call of the repository into the core returns (worker_sender, wait_for).
EveryCallReturns == scenario = "left" => CallsReturn

\* Once the host can be dialled, a started worker gets back to it (run_worker, backoff).
WorkerReturns == scenario = "left" => WorkerComesBack
=============================================================================
