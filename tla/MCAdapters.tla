------------------------------ MODULE MCAdapters ------------------------------
(***************************************************************************)
(* The runtime adapters for TLC: Claude's sidecar, Codex's app-server,     *)
(* OpenCode's server, and the slice command that runs one Codex turn.  The *)
(* three adapters share the host's side: reducer, worker, call, canonical  *)
(* state.  A behaviour belongs to one scenario, which says which adapter   *)
(* it is about and what may happen in it.                                  *)
(***************************************************************************)
EXTENDS Naturals, Sequences, FiniteSets

CONSTANT Scenarios

VARIABLES scenario, b, stdin, sdk, srv, rd, rt, call, st, cmds, refused, faults, seen, run, disk, past

host == <<rd, rt, call, st, cmds, refused, faults, seen>>
claudeVars == <<b, stdin, sdk, host>>
serverVars == <<srv, host>>
sliceVars == <<run, disk, past>>
MCvars == <<scenario, b, stdin, sdk, srv, host, sliceVars>>

None == "none"
Hosts == {"h"}
Runtimes == {"r"}
Projects == {"p"}
Workflows == {}
Steps == {}
Artifacts == {}

-----------------------------------------------------------------------------
(* Claude: calls that fail, queued entries, and sessions that are resumed. *)
Provisional == "s0"
FreshId == "fresh"
ClaudeFamily == [r \in Runtimes |-> "ClaudeCode"]
OneEach(items) == [i \in items |-> 1]

ClaudeCalls == INSTANCE ClaudeSession WITH Family <- ClaudeFamily, Sequence <- OneEach({"i1", "i2"}),
  Sessions <- {"s0", "s1"}, Turns <- {"t1", "t2", "t3"}, Items <- {"i1", "i2"}, Entries <- {},
  Attentions <- {"q1", "fault"}, Commands <- {"p1", "a1", "x1"}, Prompts <- {"p1"}, Answers <- {"a1"},
  Interrupts <- {"x1"}, Resumes <- {}, Deliveries <- {}, Old <- {},
  Target <- [c \in {"p1", "a1", "x1"} |-> "s0"], Words <- {"allow", "deny", "cancel"},
  AskKinds <- {"Approval", "Question"}, Talk <- {"tool_progress", "auth_failed"},
  FaultKinds <- {"crash", "timeout", "query", "close"}, MaxFaults <- 1
ClaudeQueue == INSTANCE ClaudeSession WITH Family <- ClaudeFamily, Sequence <- OneEach({"i1", "i2"}),
  Sessions <- {"s0", "s1"}, Turns <- {"t1", "t2", "t3"}, Items <- {"i1", "i2"}, Entries <- {},
  Attentions <- {"q1", "fault"}, Commands <- {"d1", "d2"}, Prompts <- {}, Answers <- {},
  Interrupts <- {}, Resumes <- {}, Deliveries <- {"d1", "d2"}, Old <- {},
  Target <- [c \in {"d1", "d2"} |-> "s0"], Words <- {"allow"}, AskKinds <- {}, Talk <- {"text"},
  FaultKinds <- {"crash", "identity"}, MaxFaults <- 2
\* p2 and z1 are for the session Claude listed, p1 for its own.
ClaudeResumes == INSTANCE ClaudeSession WITH Family <- ClaudeFamily, Sequence <- OneEach({"i1", "i2"}),
  Sessions <- {"s0", "s1"}, Turns <- {"t1", "t2", "t3"}, Items <- {"i1", "i2"}, Entries <- {},
  Attentions <- {"q1", "fault"}, Commands <- {"p1", "p2", "z1"}, Prompts <- {"p1", "p2"}, Answers <- {},
  Interrupts <- {}, Resumes <- {"z1"}, Deliveries <- {}, Old <- {"s1"},
  Target <- [c \in {"p1", "p2", "z1"} |-> IF c = "p1" THEN "s0" ELSE "s1"], Words <- {},
  AskKinds <- {}, Talk <- {}, FaultKinds <- {"restart"}, MaxFaults <- 1

ClaudeNext ==
  \/ scenario = "claude_calls" /\ ClaudeCalls!Next
  \/ scenario = "claude_queue" /\ ClaudeQueue!Next
  \/ scenario = "claude_resumes" /\ ClaudeResumes!Next

-----------------------------------------------------------------------------
(* Codex: calls that fail, approvals that may come before their item.      *)
CodexFamily == [r \in Runtimes |-> "Codex"]

CodexCalls == INSTANCE CodexSession WITH Family <- CodexFamily, Sequence <- OneEach({"i1", "i2", "i3"}),
  Sessions <- {"s1", "s2"}, Turns <- {"t1", "t2", "t3"}, Items <- {"i1", "i2", "i3"}, Entries <- {},
  Attentions <- {"q1", "q2", "q3", "fault"}, Commands <- {"p1", "p2", "a1"}, Prompts <- {"p1", "p2"},
  Answers <- {"a1"}, Words <- {"accept"}, AskEarly <- FALSE,
  FaultKinds <- {"timeout", "crash", "close", "restart", "unmodelled"}, MaxFaults <- 1
CodexApprovals == INSTANCE CodexSession WITH Family <- CodexFamily, Sequence <- OneEach({"i1", "i2", "i3"}),
  Sessions <- {"s1", "s2"}, Turns <- {"t1", "t2", "t3"}, Items <- {"i1", "i2", "i3"}, Entries <- {},
  Attentions <- {"q1", "q2", "q3", "fault"}, Commands <- {"p1", "p2", "a1"}, Prompts <- {"p1", "p2"},
  Answers <- {"a1"}, Words <- {"accept", "decline", "cancel"}, AskEarly <- TRUE,
  FaultKinds <- {"crash"}, MaxFaults <- 1

CodexNext ==
  \/ scenario = "codex_calls" /\ CodexCalls!Next
  \/ scenario = "codex_approvals" /\ CodexApprovals!Next

-----------------------------------------------------------------------------
(* The slice command: one approval is decided; a steering input waits.     *)
SliceDecided == INSTANCE SliceRun WITH Family <- CodexFamily, Sequence <- OneEach({"i1", "i2", "i3"}),
  Sessions <- {"s1", "s2"}, Turns <- {"t1", "t2", "t3"}, Items <- {"i1", "i2", "i3"}, Entries <- {},
  Attentions <- {"q1", "q2", "q3", "fault"}, Commands <- {"p1", "p2", "a1"}, Prompts <- {"p1", "p2"},
  Answers <- {"a1"}, Words <- {"accept"}, AskEarly <- TRUE, FaultKinds <- {"crash", "unmodelled"},
  MaxFaults <- 1, Decision <- "decline", Steer <- FALSE, MaxRuns <- 1
SliceSteered == INSTANCE SliceRun WITH Family <- CodexFamily, Sequence <- OneEach({"i1", "i2", "i3"}),
  Sessions <- {"s1", "s2"}, Turns <- {"t1", "t2", "t3"}, Items <- {"i1", "i2", "i3"}, Entries <- {},
  Attentions <- {"q1", "q2", "q3", "fault"}, Commands <- {"p1", "p2", "a1"}, Prompts <- {"p1", "p2"},
  Answers <- {"a1"}, Words <- {"accept"}, AskEarly <- FALSE, FaultKinds <- {"crash"},
  MaxFaults <- 1, Decision <- "accept", Steer <- TRUE, MaxRuns <- 1

SliceNext ==
  \/ scenario = "slice_decided" /\ SliceDecided!SliceNext
  \/ scenario = "slice_steered" /\ SliceSteered!SliceNext

-----------------------------------------------------------------------------
(* OpenCode: requests that fail, sessions shared with other clients, and   *)
(* answers given here or there.                                            *)
OpenCodeFamily == [r \in Runtimes |-> "OpenCode"]
OpenCodeItems == {"u1", "u2", "u3", "x1", "x2", "x3", "i1", "i2", "i3"}

OpenCodeCalls == INSTANCE OpenCodeSession WITH Family <- OpenCodeFamily, Sequence <- OneEach(OpenCodeItems),
  Sessions <- {"s1", "s2", "s3"}, Turns <- {"m1", "m2", "m3", "f1"}, Items <- OpenCodeItems,
  Entries <- {"d1"}, Attentions <- {"q1", "q2", "q3"}, Commands <- {"p1", "n1", "r1"},
  Prompts <- {"p1"}, Answers <- {}, Interrupts <- {"n1"}, Deliveries <- {}, Resumes <- {"r1"}, Words <- {},
  Moves <- {}, MaxMessages <- 2, MaxEventsBeforeUnconfirmed <- 9,
  FaultKinds <- {"lost", "refuse", "old", "drop", "down", "unknown", "restart", "close"}, MaxFaults <- 1
OpenCodeShared == INSTANCE OpenCodeSession WITH Family <- OpenCodeFamily, Sequence <- OneEach(OpenCodeItems),
  Sessions <- {"s1", "s2", "s3"}, Turns <- {"m1", "m2", "m3", "f1"}, Items <- OpenCodeItems,
  Entries <- {"d1"}, Attentions <- {"q1", "q2", "q3"}, Commands <- {"d1"},
  Prompts <- {}, Answers <- {}, Interrupts <- {}, Deliveries <- {"d1"}, Resumes <- {}, Words <- {},
  Moves <- {"foreign", "prompt"}, MaxMessages <- 2, MaxEventsBeforeUnconfirmed <- 9,
  FaultKinds <- {"drop"}, MaxFaults <- 1
OpenCodeAnswers == INSTANCE OpenCodeSession WITH Family <- OpenCodeFamily, Sequence <- OneEach(OpenCodeItems),
  Sessions <- {"s1", "s2", "s3"}, Turns <- {"m1", "m2", "m3", "f1"}, Items <- OpenCodeItems,
  Entries <- {"d1"}, Attentions <- {"q1", "q2", "q3"}, Commands <- {"p1", "a1"},
  Prompts <- {"p1"}, Answers <- {"a1"}, Interrupts <- {}, Deliveries <- {}, Resumes <- {},
  Words <- {"once", "reject"}, Moves <- {"step", "tool", "ask", "answer", "touch", "text"},
  MaxMessages <- 1, MaxEventsBeforeUnconfirmed <- 2,
  FaultKinds <- {"lost", "repeat", "timeout", "drop"}, MaxFaults <- 1

OpenCodeNext ==
  \/ scenario = "opencode_calls" /\ OpenCodeCalls!Next
  \/ scenario = "opencode_shared" /\ OpenCodeShared!Next
  \/ scenario = "opencode_answers" /\ OpenCodeAnswers!Next

-----------------------------------------------------------------------------
Claude == {"claude_calls", "claude_queue", "claude_resumes"}
Slice == {"slice_decided", "slice_steered"}
Codex == {"codex_calls", "codex_approvals"}
OpenCode == {"opencode_calls", "opencode_shared", "opencode_answers"}

NoClaude == b = None /\ stdin = None /\ sdk = None
NoSlice == run = None /\ disk = None /\ past = None

MCInit ==
  /\ scenario \in Scenarios
  /\ \/ scenario = "claude_calls" /\ ClaudeCalls!Init /\ srv = None /\ NoSlice
     \/ scenario = "claude_queue" /\ ClaudeQueue!Init /\ srv = None /\ NoSlice
     \/ scenario = "claude_resumes" /\ ClaudeResumes!Init /\ srv = None /\ NoSlice
     \/ scenario \in Codex /\ CodexCalls!Init /\ NoClaude /\ NoSlice
     \/ scenario \in Slice /\ SliceDecided!SliceInit /\ NoClaude
     \/ scenario = "opencode_calls" /\ OpenCodeCalls!Init /\ NoClaude /\ NoSlice
     \/ scenario = "opencode_shared" /\ OpenCodeShared!Init /\ NoClaude /\ NoSlice
     \/ scenario = "opencode_answers" /\ OpenCodeAnswers!Init /\ NoClaude /\ NoSlice

MCNext ==
  /\ UNCHANGED scenario
  /\ \/ ClaudeNext /\ UNCHANGED <<srv, sliceVars>>
     \/ (CodexNext \/ OpenCodeNext) /\ UNCHANGED <<b, stdin, sdk, sliceVars>>
     \/ SliceNext /\ UNCHANGED <<b, stdin, sdk>>

\* The slice command's own thread keeps running and its clock keeps going; nothing is asked
\* of a provider, of its processes or of the operator.
Running == scenario = "slice_steered" /\ run.pc \notin {"idle", "ended"}
MCSpec ==
  /\ MCInit /\ [][MCNext]_MCvars
  /\ <>[]Running => []<><<scenario = "slice_steered" /\ SliceSteered!SliceStep>>_MCvars

-----------------------------------------------------------------------------
\* What is registered belongs to a call or a request that still waits
\* (cancel_local_turn_start, reduce_approval_reply, reduce_permission_replied).
AdapterTypeOK ==
  /\ scenario = "claude_calls" => ClaudeCalls!TypeOK
  /\ scenario = "claude_queue" => ClaudeQueue!TypeOK
  /\ scenario = "claude_resumes" => ClaudeResumes!TypeOK
  /\ scenario \in Codex => CodexCalls!TypeOK
  /\ scenario \in Slice => SliceDecided!SliceTypeOK
  /\ scenario = "opencode_calls" => OpenCodeCalls!TypeOK
  /\ scenario = "opencode_shared" => OpenCodeShared!TypeOK
  /\ scenario = "opencode_answers" => OpenCodeAnswers!TypeOK

\* An attention item is shown as answered by the command whose answer the SDK's callback got
\* (register_local_attention_answer, reduce_permission_result).
AnswersAreAttributed == scenario \in Claude => ClaudeCalls!AnswersAreAttributed

\* The store never refuses an effect that an adapter builds (ingest_frame, ingest_sse,
\* submit_prompt): what it refers to comes before it.  A host that starts again is excepted.
EffectsAreAccepted == scenario \notin {"claude_resumes", "opencode_calls"} => ~refused

\* Once the frame that answers a command has come, the command is closed (await_kind,
\* finish_dispatch, finish_queue_delivery).
HeardCommandsAreClosed == 
  /\ scenario = "claude_calls" => ClaudeCalls!HeardCommandsAreClosed
  /\ scenario = "claude_queue" => ClaudeQueue!HeardCommandsAreClosed

\* A turn the store shows as completed is one the SDK has ended (currentTurn, reduce_result).
CompletedTurnsHaveEnded == scenario = "claude_calls" => ClaudeCalls!CompletedTurnsHaveEnded

\* PROTOCOL 4.4: a turn carries a command as its origin only if the server started it for
\* that command (reduce_client_response, admit_prompt_turn).
OriginsAreTrue ==
  /\ scenario \in Codex => CodexCalls!OriginsAreTrue
  /\ scenario \in OpenCode => OpenCodeCalls!OriginsAreTrue

\* A command is acknowledged as accepted only if the server has started or admitted it, or
\* Claude's query has consumed it (ADR-0027 D-4), an interrupt only by a successful abort
\* (runtime_acceptance_effects, interrupt_turn, AsyncQueue.push).
AcksAreTrue ==
  /\ scenario \in Claude => ClaudeCalls!PromptAcksAreTrue
  /\ scenario \in Codex => CodexCalls!AcksAreTrue
  /\ scenario \in OpenCode => OpenCodeCalls!AcksAreTrue

\* A joined approval is about an item of the same turn, and none waits for its item once the
\* turn has ended (join_for, upgrade_joins, finish).
JoinsAreTrue == scenario = "codex_approvals" => CodexApprovals!JoinsAreTrue

\* R-P8: what a person declined ends as declined, and nothing else does (item_status).
DeclinedIsDeclined == scenario = "codex_approvals" => CodexApprovals!DeclinedIsDeclined

\* With nothing left to read, a turn the server has ended is not shown as running
\* (await_response, reduce_message_value).
ReadTurnsEnd ==
  /\ scenario = "codex_approvals" => CodexApprovals!ReadTurnsEnd
  /\ scenario = "opencode_answers" => OpenCodeAnswers!ReadTurnsEnd

\* PROTOCOL 4.3: a session is shown as observed or controlled only with the capabilities for
\* it (refresh_live_binding, mark_connection_unavailable).
BindingsAreLive == scenario = "opencode_shared" => OpenCodeShared!BindingsAreLive

\* A request that was settled while the stream was open is not shown as open
\* (reduce_permission_replied, reduce_question_replied).
AnswersAreShown == scenario = "opencode_answers" => OpenCodeAnswers!AnswersAreShown

\* PROTOCOL 4.6: an entry that was answered stays answered, by the same answer (seen_events).
AnswersStay ==
  [][scenario = "opencode_answers" =>
       \A a \in DOMAIN st.attention : ~st.attention[a].open => st'.attention[a] = st.attention[a]]_MCvars

\* Whatever the app-server says and whenever it dies, the session's snapshot is never refused
\* (session_snapshot, SessionSnapshot::validate).
SnapshotsHold == scenario \in Slice => SliceDecided!SnapshotsHold

\* A run answers at most one approval, also when the turn asks again (answer_first_approval).
OneDecision == scenario \in Slice => SliceDecided!OneDecision

\* A command that ended leaves no app-server behind, and its report is of a turn that is over
\* or of an exit (run_with_session).
ReportIsFinal == scenario \in Slice => SliceDecided!ReportIsFinal

\* The report has seen every item that streamed, however frames were batched
\* (apply_live_effects).
StreamingIsSeen == scenario \in Slice => SliceSteered!StreamingIsSeen

\* The report shows control only if the server took the prompt, and the steering input as
\* pending (ADR-0019).
EvidenceIsTrue == scenario = "slice_steered" => SliceSteered!EvidenceIsTrue

\* `slice show` after the run shows what the run ended with (CanonicalStore::load).
ShownAfterRun == scenario \in Slice => SliceSteered!ShownAfterRun

\* The slice command ends, whatever the app-server does (run_with_session's timeouts).
RunEnds == Running ~> (scenario = "slice_steered" /\ run.pc = "ended")
=============================================================================
