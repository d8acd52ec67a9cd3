---------------------------- MODULE MCProjections ----------------------------
(***************************************************************************)
(* The read models for TLC: how they travel to a device (ProjectionSync),  *)
(* and how the host keeps them (ProjectionMatrix).  A behaviour belongs to *)
(* one scenario, which says what may happen in it.                         *)
(***************************************************************************)
EXTENDS ProjectionSync

CONSTANT Scenarios    \* the scenarios of this run

VARIABLES scenario, st, views

TwoKeys == <<"inbox", "queue">>

\* A busy host and a slow device, nothing fails.
Lag == INSTANCE ProjectionSync WITH Faults <- {}, AppOps <- {"unsubscribe"}, MaxVersion <- 5

\* Commits that are cut short, with two keys.
Crash2 == INSTANCE ProjectionSync WITH Faults <- {"journal", "crash", "drop"}, AppOps <- {}

\* The faults that are healed without help.
Healed == INSTANCE ProjectionSync
  WITH Faults <- {"drop", "crash", "timeout", "journal", "restart"}, AppOps <- {}

\* Only one of the keys is written and subscribed to.
OneKey == canon'["queue"] = 0 /\ (call'.op = "sub" => call'.key = "inbox")

SyncNext ==
  \/ scenario = "lag" /\ Lag!Next /\ OneKey
  \/ scenario = "crash" /\ Crash2!Next /\ nextSid' <= 3
  \/ scenario = "faults" /\ Next /\ OneKey
  \/ scenario = "catchup" /\ Healed!Next /\ OneKey

-----------------------------------------------------------------------------
(* ProjectionMatrix with the entities, reports and transitions that each   *)
(* scenario is about.                                                      *)
OneFamily == [r1 |-> "Codex"]
TwoFamilies == [r1 |-> "Codex", r2 |-> "ClaudeCode"]
Message == {<<"Completed", "Message">>}
Forms == {"InProgress", "Completed"} \X {"Message", "Plan"}

\* Sessions that move between projects and runtimes, and what they ask.
Scopes == INSTANCE ProjectionMatrix
  WITH None <- "none", Hosts <- {"h1"}, Runtimes <- {"r1", "r2"}, Family <- TwoFamilies,
       Projects <- {"p1", "p2"}, Sessions <- {"s1"}, Turns <- {}, Items <- {}, Sequence <- <<>>,
       Entries <- {}, Attentions <- {"a1"}, Commands <- {}, Workflows <- {}, Steps <- {}, Artifacts <- {},
       CapSets <- {{}}, LiveBindings <- {"NotBound"}, Subjects <- {"Approval"}, Positions <- {0},
       Reaches <- {"Online"}, Reported <- {}, ItemForms <- Message, Usable <- BOOLEAN,
       Archived <- {FALSE}, StepStates <- {}

\* Turns of two sessions, and the prompts they came from.
Turning == INSTANCE ProjectionMatrix
  WITH None <- "none", Hosts <- {"h1"}, Runtimes <- {"r1"}, Family <- OneFamily,
       Projects <- {"p1"}, Sessions <- {"s1", "s2"}, Turns <- {"t1", "t2"}, Items <- {"i1"},
       Sequence <- [i1 |-> 1], Entries <- {}, Attentions <- {}, Commands <- {"c1"}, Workflows <- {},
       Steps <- {}, Artifacts <- {}, CapSets <- {{}}, LiveBindings <- {"NotBound"},
       Subjects <- {"Approval"}, Positions <- {0}, Reaches <- {"Online"}, Reported <- {},
       ItemForms <- Message, Usable <- {TRUE}, Archived <- {FALSE}, StepStates <- {}

\* The items of a turn, in every form, and the status of the session.
Activity == INSTANCE ProjectionMatrix
  WITH None <- "none", Hosts <- {"h1"}, Runtimes <- {"r1"}, Family <- OneFamily,
       Projects <- {"p1"}, Sessions <- {"s1"}, Turns <- {"t1"}, Items <- {"i1", "i2"},
       Sequence <- [i1 |-> 1, i2 |-> 2], Entries <- {"q1"}, Attentions <- {}, Commands <- {},
       Workflows <- {}, Steps <- {}, Artifacts <- {}, CapSets <- {{}}, LiveBindings <- {"NotBound"},
       Subjects <- {"Approval"}, Positions <- {0}, Reaches <- {"Online"},
       Reported <- {"Running", "Failed"}, ItemForms <- Forms, Usable <- {TRUE},
       Archived <- {FALSE}, StepStates <- {}

\* Queues, archived sessions, hosts out of reach, changing capabilities.
Queues == INSTANCE ProjectionMatrix
  WITH None <- "none", Hosts <- {"h1"}, Runtimes <- {"r1"}, Family <- OneFamily,
       Projects <- {"p1"}, Sessions <- {"s1"}, Turns <- {}, Items <- {}, Sequence <- <<>>,
       Entries <- {"q1", "q2"}, Attentions <- {}, Commands <- {}, Workflows <- {}, Steps <- {},
       Artifacts <- {}, CapSets <- {{}, {"TurnSteer"}}, LiveBindings <- {"NotBound"},
       Subjects <- {"Approval"}, Positions <- {0, 1}, Reaches <- {"Online", "Offline"},
       Reported <- {}, ItemForms <- Message, Usable <- BOOLEAN, Archived <- BOOLEAN, StepStates <- {}

\* Who controls a session.
Controls == INSTANCE ProjectionMatrix
  WITH None <- "none", Hosts <- {"h1"}, Runtimes <- {"r1", "r2"}, Family <- TwoFamilies,
       Projects <- {"p1"}, Sessions <- {"s1", "s2"}, Turns <- {}, Items <- {}, Sequence <- <<>>,
       Entries <- {}, Attentions <- {}, Commands <- {"c1"}, Workflows <- {}, Steps <- {}, Artifacts <- {},
       CapSets <- {{}, {"LiveObserve"}, {"LiveObserve", "LiveControl"}},
       LiveBindings <- {"NotBound", "Controlling"}, Subjects <- {"Approval"}, Positions <- {0},
       Reaches <- {"Online"}, Reported <- {}, ItemForms <- Message, Usable <- {TRUE},
       Archived <- {FALSE}, StepStates <- {}

\* Workflow boards.
Boards == INSTANCE ProjectionMatrix
  WITH None <- "none", Hosts <- {"h1"}, Runtimes <- {"r1"}, Family <- OneFamily,
       Projects <- {"p1"}, Sessions <- {}, Turns <- {}, Items <- {}, Sequence <- <<>>, Entries <- {},
       Attentions <- {"a1"}, Commands <- {}, Workflows <- {"w1"}, Steps <- {"x1", "x2"},
       Artifacts <- {"f1"}, CapSets <- {{}, {"TurnPrompt"}}, LiveBindings <- {"NotBound"},
       Subjects <- {"WorkflowGate"}, Positions <- {0}, Reaches <- {"Online"}, Reported <- {},
       ItemForms <- Message, Usable <- {TRUE}, Archived <- {FALSE}, StepStates <- {"Ready", "Completed"}

ViewsNext ==
  \/ scenario = "scopes" /\ Scopes!Next
  \/ scenario = "turns" /\ Turning!Next
  \/ scenario = "activity" /\ Activity!Next
  \/ scenario = "queues" /\ Queues!Next
  \/ scenario = "controls" /\ Controls!Next
  \/ scenario = "boards" /\ Boards!Next

-----------------------------------------------------------------------------
MCInit == /\ Init /\ Scopes!Init
          /\ scenario \in Scenarios
MCNext == /\ UNCHANGED scenario
          /\ \/ SyncNext /\ UNCHANGED <<st, views>>
             \/ ViewsNext /\ UNCHANGED vars

\* Fairness as in ProjectionSync's FairSpec.
Catch(A) == scenario = "catchup" /\ A
MCSpec ==
  /\ MCInit /\ [][MCNext]_<<scenario, st, views, vars>>
  /\ WF_vars(Catch(Restart)) /\ WF_vars(Catch(WorkerStep)) /\ WF_vars(Catch(Reconnect))
  /\ \A s \in Sids : WF_vars(Catch(HostPublishes(s))) /\ WF_vars(Catch(AppNotified(s)))
  /\ WF_vars(Catch(HostSubscribes \/ HostUnsubscribes \/ HostPongs))
  /\ WF_vars(Catch(AppSubscribe("inbox")))

-----------------------------------------------------------------------------
(* The properties that are checked, with the scenarios they are about; the *)
(* comments in the two modules say what each states.                       *)

\* Every variable has its type, snapshots are promised to live subscriptions, and
\* turns are listed once.
TypesHold == Lag!TypeOK /\ (scenario = "turns" => Turning!TypeOK)

\* See ProjectionSync.  An app that redials, a lost cache write and a commit whose
\* publication fails are exceptions, so it is about the lagging device.
QuietIsCurrent == scenario \in {"lag", "catchup"} => QuietMeansCurrent

\* Where nothing fails and nobody times out, lag and an unsubscribe that crosses a
\* closing event cost no connection (CorrelationState, handle_unsolicited).
HealthyStays == [][scenario = "lag" /\ conn => conn']_vars

\* A faulty path still catches up.
CatchesUp == scenario = "catchup" => EventuallyCurrent

\* Every recorded read model is the one a rebuild gives (affected_keys).
ViewsCurrent ==
  /\ scenario = "scopes" => Scopes!ViewsCurrent
  /\ scenario = "turns" => Turning!ViewsCurrent
  /\ scenario = "activity" => Activity!ViewsCurrent
  /\ scenario = "queues" => Queues!ViewsCurrent
  /\ scenario = "boards" => Boards!ViewsCurrent

\* The two screens a person looks at agree (recompute_derived, attention_inbox).
WaitingIsInTheInbox == scenario = "scopes" => Scopes!WaitingIsInTheInbox

\* An accepted prompt has one turn (TurnUpserted, CommandAcknowledged).
AcceptedPromptHasOneTurn == scenario = "turns" => Turning!AcceptedPromptHasOneTurn

\* Control was accepted by the runtime that is said to have it (SessionUpserted).
ControlWasAccepted == scenario = "controls" => Controls!ControlWasAccepted

\* What a transcript showed stays in its place (TurnUpserted).
TranscriptOnlyGrows == Turning!TranscriptOnlyGrows
=============================================================================
