------------------------------- MODULE SliceRun -------------------------------
(* `hostd slice run` and `slice show` (kaleido-hostd/src/slice.rs): one command  *)
(* opens a store, starts a Codex app-server, submits one prompt, may queue one    *)
(* steering input and may answer one approval, reads until the turn is over, the  *)
(* process is gone or the time is up, and writes a report.  The store, its log    *)
(* and the validated session snapshot are those of kaleido-state; the app-server  *)
(* and the reducer are those of CodexSession.                                     *)
EXTENDS CodexSession
LOCAL INSTANCE SequencesExt

CONSTANTS Decision,     \* --decide-first-approval: a word, or None
          Steer,          \* --enqueue-steer is given
          MaxRuns         \* bound: runs in the same log directory

VARIABLES run,      \* the command: where it is, what it has seen
          disk,     \* the log directory: the cursors of each stream file
          past      \* what happened, for the properties
sliceVars == <<run, disk, past>>
allVars == <<vars, sliceVars>>

NoEvidence == [observing |-> FALSE, controlling |-> FALSE, caps |-> {}, streaming |-> FALSE,
               steered |-> FALSE]
NewRun == [pc |-> "idle", n |-> 0, outcome |-> None, decided |-> FALSE, late |-> FALSE,
           cursors |-> <<>>, ev |-> NoEvidence]
SliceInit ==
    /\ Init /\ run = NewRun /\ disk = <<>>
    /\ past = [streamed |-> FALSE, replies |-> 0, snapshot |-> TRUE, again |-> FALSE]

(***************************************************************************)
(* The session snapshot, which re-checks every reference it resolves       *)
(***************************************************************************)
BindingPermitted(s, sid) ==
    LET live == s.sessions[sid].live
    IN /\ live \in {"Observing", "Controlling"} => SessionPermits(s, sid, "LiveObserve")
       /\ live = "Controlling" => SessionPermits(s, sid, "LiveControl")
TurnsResolve(s, sid) ==
    LET turns == {t \in DOMAIN s.turns : s.turns[t].session = sid}
        items == ItemsOf(s, sid)
        active == s.sessions[sid].activeTurn
    IN /\ active # None => active \in turns
       /\ \A t \in turns : \A k \in DOMAIN s.turns[t].items :
            LET i == s.turns[t].items[k] IN i \in items /\ s.items[i].turn = t
       /\ \A i \in items : /\ s.items[i].turn \in turns
                           /\ \E k \in DOMAIN s.turns[s.items[i].turn].items :
                                s.turns[s.items[i].turn].items[k] = i
\* An entry shown as steered must have gone into the turn that is active.
QueueResolves(s, sid) ==
    LET pending == {q \in QueueOf(s, sid) : Pending(s, q)}
    IN /\ \A q \in QueueOf(s, sid) : s.queue[q].state = "DeliveredAsSteer" =>
            s.sessions[sid].activeTurn # None /\ SessionPermits(s, sid, "TurnSteer")
       /\ {s.queue[q].position : q \in pending} = 0..(Cardinality(pending) - 1)
AttentionResolves(s, sid) ==
    \A a \in AttentionOf(s, sid) :
        LET e == s.attention[a]
        IN /\ e.project = s.sessions[sid].project
           /\ e.turn # None => Known(s.turns, e.turn) /\ s.turns[e.turn].session = sid
           /\ (e.subject = "Approval" /\ e.join = "Joined") =>
                 e.item \in ItemsOf(s, sid) /\ s.items[e.item].turn = e.turn
SessionSnapshotValid(s, sid) ==
    /\ Known(s.sessions, sid) /\ RuntimeKnown(s, sid)
    /\ BindingPermitted(s, sid) /\ TurnsResolve(s, sid)
    /\ QueueResolves(s, sid) /\ AttentionResolves(s, sid)

(***************************************************************************)
(* One-shot projections: a scope is named, or it is the only one there is  *)
(***************************************************************************)
OnlyOne(ids) == Cardinality(ids) = 1
ScopedSession(s, sid) == IF sid # None THEN Known(s.sessions, sid) ELSE OnlyOne(DOMAIN s.sessions)
ScopedProject(s, sid) == IF sid # None THEN Known(s.sessions, sid) ELSE OnlyOne(DOMAIN s.projects)
ScopedRuntime(s, sid) ==
    IF sid # None THEN Known(s.sessions, sid) /\ (RuntimeKnown(s, sid) \/ OnlyOne(DOMAIN s.runtimes))
    ELSE OnlyOne(DOMAIN s.runtimes)
Projection(s, name, sid) ==
    /\ DOMAIN s.hosts # {}
    /\ CASE name \in {"ProjectIndex", "AttentionInbox"} -> TRUE
         [] name = "SessionIndex" -> ScopedProject(s, sid)
         [] name \in {"Transcript", "LiveActivity", "InputQueue"} -> ScopedSession(s, sid)
         [] name = "RuntimeCapability" -> ScopedRuntime(s, sid)
         [] name = "WorkflowBoard" -> DOMAIN s.workflows # {}
\* A Codex session has no workflow, and the report asks for no board.
R3CodexProjections == {"ProjectIndex", "SessionIndex", "Transcript", "LiveActivity", "InputQueue",
                       "AttentionInbox", "RuntimeCapability"}
RenderRunOutcome(s, sid) == \A name \in R3CodexProjections : Projection(s, name, sid)

(***************************************************************************)
(* The log: every effect goes to one stream, at that stream's next cursor  *)
(***************************************************************************)
StreamFor(e) ==
    CASE e.kind \in {"Host", "Runtime", "Capabilities", "Project", "Ack"} -> "host"
      [] e.kind \in {"Session", "Status"} -> e.id
      [] e.kind = "Turn" -> e.turn.session
      [] e.kind = "Entry" -> e.entry.session
      [] OTHER -> e.item.session
CursorOf(cursors, stream) == IF Known(cursors, stream) THEN cursors[stream] ELSE 0
FileOf(files, stream) == IF Known(files, stream) THEN files[stream] ELSE <<>>
Committed(acc, e) ==
    LET stream == StreamFor(e)
        cursor == CursorOf(acc.cursors, stream)
    IN [acc EXCEPT !.disk = Put(@, stream, Append(FileOf(@, stream), cursor)),
                   !.cursors = Put(@, stream, cursor + 1),
                   !.state = EffectApplied(@, e)]
VerifyContiguous(file) == \A i \in DOMAIN file : i > 1 => file[i] = file[i - 1] + 1
Loads(files) == \A stream \in DOMAIN files : VerifyContiguous(files[stream])

(***************************************************************************)
(* Evidence, sampled after every effect while there is exactly one session *)
(***************************************************************************)
Streaming(s, sid) ==
    LET active == s.sessions[sid].activeTurn
    IN active # None /\ \E i \in ItemsOf(s, sid) :
           s.items[i].turn = active /\ s.items[i].status = "InProgress"
LatchLiveEvidence(ev, s, sid) ==
    LET live == s.sessions[sid].live
        first == ~ev.controlling /\ live = "Controlling"
    IN [observing |-> ev.observing \/ live = "Observing",
        controlling |-> ev.controlling \/ live = "Controlling",
        caps |-> IF first THEN RuntimeOf(s, sid).caps ELSE ev.caps,
        streaming |-> ev.streaming \/ Streaming(s, sid),
        steered |-> ev.steered \/ \E q \in QueueOf(s, sid) : s.queue[q].state = "DeliveredAsSteer"]
OnlySession(s) == CHOOSE sid \in DOMAIN s.sessions : TRUE

Accumulator == [state |-> st, disk |-> disk, cursors |-> run.cursors, ev |-> run.ev, ok |-> TRUE]
ApplyLiveEffects(acc0, es) ==
    LET sampled(acc) ==
          IF Cardinality(DOMAIN acc.state.sessions) # 1 THEN acc
          ELSE [acc EXCEPT !.ev = LatchLiveEvidence(@, acc.state, OnlySession(acc.state))]
        step(acc, e) ==
          IF ~acc.ok THEN acc
          ELSE IF EffectRefused(acc.state, e) THEN [acc EXCEPT !.ok = FALSE]
          ELSE sampled(Committed(acc, e))
    IN FoldLeft(step, acc0, es)
\* An in-progress item went to the store while its turn was the active one.
Streamed(s, es) ==
    \E k \in DOMAIN es : /\ es[k].kind = "Item" /\ es[k].item.status = "InProgress"
                         /\ LET before == ApplyEffects(s, SubSeq(es, 1, k)).state
                            IN Streaming(before, es[k].item.session)

(***************************************************************************)
(* Steps of the command                                                    *)
(***************************************************************************)
PromptName == <<"p1", "p2">>
AnswerName == <<"a1", "a2">>
SteerName == <<"e1", "e2">>
Waits == {"starting", "prompting"}
idleVars == <<cmds, refused, faults, seen>>

\* `?`: the command returns an error; the runtime is dropped and takes the child along.
FailRun(acc) ==
    /\ run' = [run EXCEPT !.pc = "ended", !.outcome = "error", !.cursors = acc.cursors, !.ev = acc.ev]
    /\ st' = acc.state /\ disk' = acc.disk
    /\ srv' = Kill(srv) /\ call' = Idle /\ rt' = [rt EXCEPT !.started = FALSE]

\* Effects go in, the snapshot is built, and the command goes on.
Proceeds(acc, next, server) ==
    LET valid == /\ Cardinality(DOMAIN acc.state.sessions) = 1
                 /\ SessionSnapshotValid(acc.state, OnlySession(acc.state))
    IN /\ IF ~acc.ok \/ ~valid THEN FailRun(acc)
          ELSE /\ run' = [run EXCEPT !.pc = next, !.cursors = acc.cursors, !.ev = acc.ev]
               /\ st' = acc.state /\ disk' = acc.disk /\ srv' = server /\ call' = Idle
               /\ UNCHANGED rt
       /\ past' = [past EXCEPT !.snapshot = @ /\ (acc.ok => valid)]
AfterPrompt == IF Steer THEN "steer" ELSE "loop"

\* The store is opened empty, whatever the directory holds.
OpenRun ==
    /\ run.pc \in {"idle", "ended"} /\ run.n < MaxRuns
    /\ \E f \in {Call(1, "initialize", None)} : \E sent \in {IngestFrame(NewReducer, f)} :
         /\ rd' = sent.rd /\ call' = [Idle EXCEPT !.op = "start", !.id = 1, !.es = sent.es]
         /\ srv' = [srv EXCEPT !.alive = TRUE, !.boots = @ + 1, !.in = <<f>>, !.out = <<>>]
    /\ rt' = [NewRuntime EXCEPT !.started = TRUE] /\ st' = EmptyState
    /\ run' = [NewRun EXCEPT !.pc = "starting", !.n = run.n + 1]
    /\ past' = [past EXCEPT !.streamed = FALSE, !.replies = 0]
    /\ UNCHANGED <<disk, idleVars>>

\* The awaited response is there.
StartReturns(next, es) ==
    IF call.id = 1
    THEN LET f == Call(2, "thread/start", None)
         IN IF ~srv.alive THEN rd' = next /\ FailRun(Accumulator) /\ UNCHANGED past
            ELSE \E sent \in {IngestFrame(next, f)} :
                 /\ srv' = Sent([srv EXCEPT !.out = Tail(@)], f)
                 /\ rd' = sent.rd /\ call' = [call EXCEPT !.id = 2, !.es = es \o sent.es]
                 /\ UNCHANGED <<rt, st, run, disk, past>>
    ELSE /\ rd' = next
         /\ Proceeds(ApplyLiveEffects(Accumulator, es), "submit", [srv EXCEPT !.out = Tail(@)])
PromptReturns(next, es) ==
    /\ rd' = CancelLocalTurnStart(next, call.id)
    /\ Proceeds(ApplyLiveEffects(Accumulator, es), AfterPrompt, [srv EXCEPT !.out = Tail(@)])
SliceAwaitsLine ==
    /\ run.pc \in Waits /\ srv.out # <<>>
    /\ \E f \in {srv.out[1]}, r \in {IngestFrame(rd, srv.out[1])} :
         IF ~r.ok THEN rd' = r.rd /\ FailRun(Accumulator) /\ UNCHANGED past
         ELSE IF f.kind = "response" /\ f.id = call.id
         THEN IF call.op = "start" THEN StartReturns(r.rd, call.es \o r.es)
              ELSE PromptReturns(r.rd, call.es \o r.es)
         ELSE /\ rd' = r.rd /\ call' = [call EXCEPT !.es = @ \o r.es]
              /\ srv' = [srv EXCEPT !.out = Tail(@)] /\ UNCHANGED <<rt, st, run, disk, past>>
    /\ UNCHANGED idleVars
SliceAwaitsEnd ==
    /\ run.pc \in Waits /\ srv.out = <<>> /\ ~srv.alive
    /\ \E exit \in {ProcessExited(rd)} :
       \E acc \in {ApplyLiveEffects(Accumulator, call.es \o exit.es)} :
          IF call.op = "start" THEN rd' = exit.rd /\ FailRun(Accumulator) /\ UNCHANGED past
          ELSE /\ rd' = CancelLocalTurnStart(exit.rd, call.id)
               /\ st' = acc.state /\ disk' = acc.disk /\ call' = Idle
               /\ rt' = [rt EXCEPT !.exit = TRUE]
               /\ run' = [run EXCEPT !.pc = AfterPrompt, !.cursors = acc.cursors, !.ev = acc.ev]
               /\ past' = [past EXCEPT !.snapshot =
                             @ /\ acc.ok /\ SessionSnapshotValid(acc.state, OnlySession(acc.state))]
               /\ UNCHANGED srv
    /\ UNCHANGED idleVars
SliceCallTimesOut ==
    /\ run.pc \in Waits
    /\ rd' = CancelLocalTurnStart(rd, call.id) /\ FailRun(Accumulator)
    /\ UNCHANGED <<past, idleVars>>

\* The broker's own command: no device, one key per run, acknowledged and logged.
SubmitCommand(acc, c, outcome) ==
    Committed(acc, AckEffect([LocalAck(c, rd.sid) EXCEPT !.outcome = outcome]))

SliceSubmitsPrompt ==
    /\ run.pc = "submit"
    /\ LET c == PromptName[run.n]
           id == rt.next
           f == Call(id, "turn/start", c)
           exit == ProcessExited(rd)
       IN \E acc \in {SubmitCommand(Accumulator, c, "AcceptedLocally")} :
          IF srv.alive
          THEN /\ srv' = Sent(srv, f) /\ rd' = IngestFrame(RegisterLocalTurnStart(rd, id, c), f).rd
               /\ call' = [Idle EXCEPT !.op = "prompt", !.c = c, !.id = id]
               /\ st' = acc.state /\ disk' = acc.disk
               /\ run' = [run EXCEPT !.pc = "prompting", !.cursors = acc.cursors]
               /\ rt' = [rt EXCEPT !.next = @ + 1] /\ UNCHANGED past
          ELSE \E all \in {ApplyLiveEffects(acc, exit.es)} :
                  /\ rd' = exit.rd /\ rt' = [rt EXCEPT !.exit = TRUE] /\ call' = Idle /\ srv' = srv
                  /\ st' = all.state /\ disk' = all.disk /\ UNCHANGED past
                  /\ run' = [run EXCEPT !.pc = AfterPrompt, !.cursors = all.cursors, !.ev = all.ev]
    /\ UNCHANGED idleVars

\* Queued by the broker; deliberately no call of the runtime.
SliceEnqueuesSteer ==
    /\ run.pc = "steer"
    /\ LET position == Cardinality({q \in QueueOf(st, rd.sid) : Pending(st, q)})
           entry == [session |-> rd.sid, pending |-> TRUE, position |-> position, state |-> "Pending"]
           queued == Committed(Accumulator, EntryEffect(SteerName[run.n], entry))
       IN \E acc \in {SubmitCommand(queued, SteerName[run.n], "Enqueued")} :
          Proceeds([acc EXCEPT !.ev = LatchLiveEvidence(@, acc.state, rd.sid)], "loop", srv)
    /\ UNCHANGED <<rd, idleVars>>

(***************************************************************************)
(* The loop                                                                *)
(***************************************************************************)
OpenApprovals == {a \in DOMAIN st.attention : Open(st, a) /\ st.attention[a].subject = "Approval"}
ToAnswer == run.pc = "loop" /\ Decision # None /\ ~run.decided /\ OpenApprovals # {}
TurnIsTerminal(s, sid) ==
    LET turns == TurnsOf(s, sid)
    IN turns # <<>> /\ \A k \in DOMAIN turns : Terminal(s.turns[turns[k]])
SessionIsOffline(s, sid) == s.sessions[sid].status = "Offline"
Over == TurnIsTerminal(st, rd.sid) \/ SessionIsOffline(st, rd.sid)

AnswerFirstApproval(a) ==
    /\ ToAnswer /\ a \in OpenApprovals
    /\ LET c == AnswerName[run.n]
           id == CHOOSE x \in RequestIdsFor(rd, a) : TRUE
           f == Reply(id, Decision)
       IN \E submitted \in {SubmitCommand(Accumulator, c, "AcceptedLocally")} :
          \E acc \in {[submitted EXCEPT !.ev = LatchLiveEvidence(@, submitted.state, rd.sid)]} :
          IF ~SessionSnapshotValid(acc.state, rd.sid) \/ ~RequireStarted \/ ~CanRegisterAnswer(rd, a)
          THEN /\ FailRun(acc) /\ UNCHANGED rd
               /\ past' = [past EXCEPT !.snapshot = @ /\ SessionSnapshotValid(acc.state, rd.sid)]
          ELSE \E r \in {IF srv.alive THEN IngestFrame(RegisterLocalAnswer(rd, a, c, Decision), f)
                         ELSE ProcessExited(rd)} :
               \E all \in {ApplyLiveEffects(acc, r.es)} :
               /\ rd' = r.rd
               /\ srv' = (IF srv.alive THEN Sent(srv, f) ELSE srv)
               /\ rt' = [rt EXCEPT !.exit = ~srv.alive]
               /\ st' = all.state /\ disk' = all.disk /\ UNCHANGED call
               /\ run' = [run EXCEPT !.decided = TRUE, !.cursors = all.cursors, !.ev = all.ev]
               /\ past' = [past EXCEPT !.replies = @ + 1]
    /\ UNCHANGED idleVars

Ends(acc, outcome) ==
    /\ run' = [run EXCEPT !.pc = "ended", !.cursors = acc.cursors, !.ev = acc.ev,
                 !.outcome = IF acc.ok /\ SessionSnapshotValid(acc.state, rd.sid) THEN outcome ELSE "error"]
    /\ st' = acc.state /\ disk' = acc.disk /\ rt' = [rt EXCEPT !.started = FALSE]
    /\ past' = [past EXCEPT !.snapshot = @ /\ acc.ok /\ SessionSnapshotValid(acc.state, rd.sid)]

LoopEnds ==
    /\ run.pc = "loop" /\ ~ToAnswer /\ Over
    /\ LET gone == SessionIsOffline(st, rd.sid)
           closed == CleanDisconnected(rd)
       IN \E acc \in {IF gone THEN Accumulator ELSE ApplyLiveEffects(Accumulator, closed.es)} :
          /\ Ends(acc, IF ~RenderRunOutcome(acc.state, rd.sid) THEN "error"
                       ELSE IF gone THEN "exited" ELSE "done")
          /\ rd' = (IF gone THEN rd ELSE closed.rd) /\ srv' = Kill(srv)
    /\ UNCHANGED <<call, idleVars>>
DeadlinePasses ==
    /\ run.pc = "loop" /\ ~run.late /\ run' = [run EXCEPT !.late = TRUE]
    /\ UNCHANGED <<vars, disk, past>>
LoopTimesOut ==
    /\ run.pc = "loop" /\ ~ToAnswer /\ ~Over /\ run.late
    /\ LET closed == CleanDisconnected(rd)
       IN Ends(ApplyLiveEffects(Accumulator, closed.es), "timeout") /\ rd' = closed.rd
    /\ srv' = Kill(srv) /\ UNCHANGED <<call, idleVars>>

\* drain_effects: what the channel holds and, if the process is gone, its end.
LoopDrains(n) ==
    /\ run.pc = "loop" /\ ~ToAnswer /\ ~Over /\ ~run.late
    /\ IF srv.alive THEN srv.out # <<>> /\ n = Len(srv.out) ELSE n \in 0..Len(srv.out)
    /\ \E d \in {Drained(SubSeq(srv.out, 1, n))} : \E exit \in {ProcessExited(d.rd)} :
       \E es \in {IF srv.alive THEN d.es ELSE d.es \o exit.es} :
       \E acc \in {ApplyLiveEffects(Accumulator, es)} :
          IF ~d.ok \/ ~acc.ok
          THEN rd' = d.rd /\ FailRun(IF d.ok THEN acc ELSE Accumulator) /\ UNCHANGED past
          ELSE /\ rd' = (IF srv.alive THEN d.rd ELSE exit.rd)
               /\ srv' = [srv EXCEPT !.out = <<>>] /\ rt' = [rt EXCEPT !.exit = ~srv.alive]
               /\ run' = [run EXCEPT !.cursors = acc.cursors, !.ev = acc.ev]
               /\ st' = acc.state /\ disk' = acc.disk /\ UNCHANGED call
               /\ past' = [past EXCEPT !.streamed = @ \/ Streamed(st, es)]
    /\ UNCHANGED idleVars

\* The server (external) may ask about a second file change of the same turn.
ServerAsksAgain ==
    /\ srv.alive /\ srv.turn = 1 /\ srv.item = "done" /\ ~past.again
    /\ srv' = Says([srv EXCEPT !.item = "asked again"],
                   <<Tells("item/started", TurnName[1], ItemName[2], "inProgress"),
                     ApprovalFrame(2, Thread, TurnName[1], ItemName[2], RequestName[2])>>)
    /\ past' = [past EXCEPT !.again = TRUE]
    /\ UNCHANGED <<host, faults, seen, run, disk>>

ServerStep ==
    /\ \/ \E accepts \in BOOLEAN : ServerReads(accepts)
       \/ ServerShowsItem \/ ServerAsks \/ ServerEndsItem
       \/ \E word \in {"completed", "failed", "interrupted"} : ServerEndsTurn(word)
       \/ ServerSaysUnmodelled \/ ServerExits
    /\ UNCHANGED sliceVars
SliceStep ==
    \/ SliceAwaitsLine \/ SliceAwaitsEnd \/ SliceCallTimesOut
    \/ SliceSubmitsPrompt \/ SliceEnqueuesSteer
    \/ \E a \in Attentions : AnswerFirstApproval(a)
    \/ LoopEnds \/ DeadlinePasses \/ LoopTimesOut
    \/ \E n \in 0..Len(srv.out) : LoopDrains(n)
SliceNext == ServerStep \/ ServerAsksAgain \/ SliceStep \/ OpenRun
SliceSpec == SliceInit /\ [][SliceNext]_allVars
\* The command's own thread keeps running and its clock keeps going; nothing is
\* asked of the app-server or of the operator.  Between its start and its end the
\* command always has a step, so this is the weak fairness of SliceStep.
SliceFairSpec == SliceSpec /\ (<>[](run.pc \notin {"idle", "ended"}) => []<><<SliceStep>>_allVars)

(***************************************************************************)
(* Properties                                                              *)
(***************************************************************************)
\* A call is open exactly while the command waits for its answer, and a command
\* that ended says how (run_with_session).
SliceTypeOK ==
    /\ run.pc \in Waits \cup {"idle", "submit", "steer", "loop", "ended"}
    /\ (call # Idle) = (run.pc \in Waits)
    /\ (run.pc = "ended") = (run.outcome \in {"done", "exited", "timeout", "error"})
    /\ \A stream \in DOMAIN run.cursors : run.cursors[stream] <= Len(FileOf(disk, stream))

\* state.rs: the snapshot "re-checks every reference the snapshot claims to resolve,
\* so a reducer bug becomes a refusal here": whatever the app-server says and
\* whenever it dies, the snapshot is never refused at any of the places where the
\* command builds it (session_snapshot, SessionSnapshot::validate).
SnapshotsHold == past.snapshot

\* apply_live_effects: "an in-progress item can start and finish within one drained
\* batch"; the report has seen every such item, however the frames were batched.
StreamingIsSeen == past.streamed => run.ev.streaming

\* ADR-0019 and T-100 5.3: the report shows control only if the server really took
\* the prompt, together with capabilities that include it, and the queued steering
\* input stays pending and is never reported as delivered.
EvidenceIsTrue ==
    /\ run.ev.controlling => /\ \E x \in seen.created : x.c = PromptName[run.n]
                             /\ "LiveControl" \in run.ev.caps
    /\ ~run.ev.steered
    /\ \A q \in DOMAIN st.queue : st.queue[q].state = "Pending"

\* "the first file-change approval it observes": a run answers at most one approval,
\* also when the turn asks again (answer_first_approval, approval_decided).
OneDecision == past.replies <= 1

\* A command that ended leaves no app-server behind; a report of a finished turn
\* has all turns over, and a report of an exit carries the connection fault (T-100 5.4).
ReportIsFinal ==
    /\ run.pc = "ended" => ~srv.alive
    /\ run.outcome = "done" => TurnIsTerminal(st, rd.sid)
    /\ run.outcome = "exited" => SessionIsOffline(st, rd.sid) /\ "fault" \in DOMAIN st.attention

\* T-100 5.5: `slice show` after the run shows the projections the run ended with:
\* the log loads and every projection of the report has its scope.
ShownAfterRun ==
    run.outcome \in {"done", "exited", "timeout"} => Loads(disk) /\ RenderRunOutcome(st, None)

\* The command ends, whatever the app-server does: every wait has its timeout.
RunEnds == run.pc # "idle" ~> run.pc = "ended"
=============================================================================
