-------------------------- MODULE MCDeviceCommands --------------------------
(***************************************************************************)
(* DeviceCommands for TLC.  A behaviour belongs to one of three scenarios, *)
(* each of which limits what the devices ask and how much goes wrong:      *)
(* every kind of command, one at a time; replies that compete for one      *)
(* attention; starts that find several commands, where threads are fair.   *)
(***************************************************************************)
EXTENDS DeviceCommands

CONSTANTS c1, c2, s1, nowhere, a1

Body(k, t, ttl) == [kind |-> k, target |-> t, ttl |-> ttl]

\* Every route, the refusals of an unknown session and of a kind without a
\* route included.
AllBodies ==
  {Body("SubmitPrompt", s1, TRUE), Body("SubmitPrompt", nowhere, FALSE),
   Body("RespondAttention", a1, FALSE), Body("InterruptTurn", s1, FALSE),
   Body("ResumeSession", s1, FALSE), Body("EnqueueInput", s1, FALSE),
   Body("Other", nowhere, FALSE), Body("SubmitPrompt", s1, FALSE)}

\* Two replies compete for one attention; a prompt can reuse their keys.
ReplyBodies == {Body("RespondAttention", a1, FALSE), Body("SubmitPrompt", s1, FALSE)}

PromptBodies == {Body("SubmitPrompt", s1, FALSE), Body("InterruptTurn", s1, FALSE)}

VARIABLE scenario

\* The commands that are known after a step, and the bodies that were asked for.
Known == {c \in Commands : Status(c) # "none" \/ (op # Idle /\ op.cmd = c)}
AskedFor(bodies) == /\ op # Idle => op.body \in bodies
                    /\ \A c \in Commands : told[c] # <<>> => told[c][1] \in bodies

\* Only requests, faults and the provider's own attentions are limited.  Commands are
\* alike, so c2 is used only after c1.
Within ==
  /\ c2 \in Known' => c1 \in Known'
  /\   CASE scenario = "routes"  -> AskedFor(AllBodies \ {Body("SubmitPrompt", s1, FALSE)})' /\ c2 \notin Known'
       [] scenario = "replies" -> AskedFor(ReplyBodies)' /\ faults' <= 1
       [] scenario = "startup" -> AskedFor(PromptBodies)' /\ faults' <= 1 /\ UNCHANGED attention

MCInit == Init /\ scenario \in {"routes", "replies", "startup"}
MCNext == Next /\ Within /\ UNCHANGED scenario

\* Fairness as in FairSpec, for the starts.
Starting(A) == scenario = "startup" /\ A
MCSpec ==
  /\ MCInit /\ [][MCNext]_<<vars, scenario>>
  /\ WF_vars(Starting(BrokerStep)) /\ WF_vars(Starting(WorkerStep)) /\ WF_vars(Starting(StartupStep))
  /\ \A c \in Commands : WF_vars(Starting(DispatchStep(c)))

\* A start ends: the store is repaired and the listener goes live, or the
\* process exits.
MCStartupEnds == scenario = "startup" => StartupEnds

\* A Ready command found at startup is sent or rejected by that startup.
MCReadySettles == scenario = "startup" => ReadySettles
=============================================================================
