----------------------------- MODULE ClaudeSession -----------------------------
(* A Claude runtime as the host runs it: the runtime worker of the supervisor    *)
(* (kaleido-hostd/src/runtime.rs) with its ClaudeRuntimeSession                  *)
(* (kaleido-adapter-claude/src/runtime.rs), the sidecar process between two      *)
(* pipes, and the Claude SDK inside it, which is external.  The worker is one     *)
(* thread: while a call waits for its frame nothing else of the host runs, but    *)
(* the sidecar and the SDK do.                                                    *)
EXTENDS CanonicalState
LOCAL INSTANCE SequencesExt

-------------------------------------------------------------------------------
(* The reducer of the Claude adapter (kaleido-adapter-claude/src/reduce.rs): a  *)
(* record that takes one sidecar frame at a time and returns the effects of     *)
(* that frame, or refuses it.  Raw provider ids and the canonical ids minted    *)
(* from them are the same names; texts, titles and timestamps are left out, and *)
(* so are diagnostics, which touch no other state.                              *)

CONSTANTS Provisional,   \* the session minted before Claude names one
          FreshId        \* the id Claude gives a session that resumes nothing

(***************************************************************************)
(* Frames of the sidecar                                                   *)
(***************************************************************************)
Frame(kind) ==
    [kind |-> kind, raw |-> None, turn |-> None, item |-> None, req |-> None,
     word |-> None, sessions |-> {}]
ErrorFrame == Frame("error")
ReadyFrame(resume) == [Frame("ready") EXCEPT !.raw = resume]
SessionFrame(raw, resumed) ==
    [Frame(IF resumed THEN "session_resumed" ELSE "session_started") EXCEPT !.raw = raw]
ListFrame(sessions) == [Frame("session_list") EXCEPT !.sessions = sessions]
AcceptedFrame(turn) == [Frame("prompt_accepted") EXCEPT !.turn = turn]
RequestFrame(kind, req, item) == [Frame(kind) EXCEPT !.req = req, !.item = item]
ResultFrame(kind, req, word) == [Frame(kind) EXCEPT !.req = req, !.word = word]
SdkFrame(raw, turn, event, item) ==
    [Frame("sdk_event") EXCEPT !.raw = raw, !.turn = turn, !.word = event, !.item = item]

(***************************************************************************)
(* The reducer's state                                                     *)
(***************************************************************************)
NewReducer ==
    [sid |-> None, raw |-> None, live |-> None, turns |-> <<>>, current |-> None,
     items |-> <<>>, requests |-> <<>>, prompts |-> <<>>, queued |-> {},
     answers |-> <<>>, discovered |-> {}, proven |-> {}, published |-> {},
     bootstrapped |-> FALSE, ended |-> FALSE]

Without(f, id) == [x \in DOMAIN f \ {id} |-> f[x]]
Prove(rd, capability) == [rd EXCEPT !.proven = @ \cup {capability}]
\* A frame's outcome: the reducer after it and its effects, or a refusal.
Reduced(rd, es) == [rd |-> rd, es |-> es, ok |-> TRUE]
RefusedFrame(rd) == [rd |-> rd, es |-> <<>>, ok |-> FALSE]

RegisterLocalPrompt(rd, turn, c) == [rd EXCEPT !.prompts = Put(@, turn, c)]
RegisterQueuedPrompt(rd, turn, c) ==
    [RegisterLocalPrompt(rd, turn, c) EXCEPT !.queued = @ \cup {turn}]
ForgetLocalPrompt(rd, turn) ==
    [rd EXCEPT !.prompts = Without(@, turn), !.queued = @ \ {turn}]

\* One local answer may be registered for a request that is still open.
CanRegisterAnswer(rd, req) ==
    Known(rd.requests, req) /\ rd.requests[req].open /\ ~Known(rd.answers, req)
RegisterLocalAnswer(rd, req, c) == [rd EXCEPT !.answers = Put(@, req, c)]
ForgetLocalAnswer(rd, req) == [rd EXCEPT !.answers = Without(@, req)]

IsActiveTurn(rd, turn) == rd.current = turn

PrepareResume(rd, sid, raw) ==
    [rd EXCEPT !.sid = sid, !.raw = raw, !.live = None, !.ended = FALSE, !.proven = {}]

(***************************************************************************)
(* Effects the reducer builds                                              *)
(***************************************************************************)
SessionOf(rd) == SessionEffect(rd.sid, rd.live, FALSE)
\* Every status the reducer reports comes with the session; without a session
\* nothing is reported.
SessionUpdated(rd) == IF rd.live = None THEN <<>> ELSE <<SessionOf(rd)>>

LiveBindingOf(rd) ==
    IF "LiveObserve" \notin rd.proven THEN "NotBound"
    ELSE IF "LiveControl" \in rd.proven THEN "Controlling" ELSE "Observing"

PublishCapabilities(rd) ==
    Reduced([rd EXCEPT !.published = rd.proven], <<CapabilitiesEffect(rd.proven)>>)
RefreshLiveBinding(rd) ==
    LET next == LiveBindingOf(rd)
    IN IF rd.live \in {None, next} THEN Reduced(rd, <<>>)
       ELSE LET bound == [rd EXCEPT !.live = next] IN Reduced(bound, <<SessionOf(bound)>>)
\* Capabilities first: the store lets a session control only what they allow.
Republished(rd) ==
    LET published == PublishCapabilities(rd)
        bound == RefreshLiveBinding(published.rd)
    IN Reduced(bound.rd, published.es \o bound.es)

\* Mutant: the capabilities go out before the acknowledgement that earns them.
CapabilitiesFirst(rd, c, prompt) ==
    LET rest == Republished(Prove(rd, "LiveControl"))
    IN Reduced(rest.rd, rest.es \o <<AckEffect(RuntimeAck(c, rd.sid, prompt))>>)
\* The runtime took a command: acknowledge, and claim control on the strength
\* of it.
AcceptedCommand(rd, c, prompt) ==
    LET rest == Republished(Prove(rd, "LiveControl"))
    IN Reduced(rest.rd, <<AckEffect(RuntimeAck(c, rd.sid, prompt))>> \o rest.es)

EnsureBootstrapped(rd) ==
    IF rd.bootstrapped THEN Reduced(rd, <<>>)
    ELSE Reduced([rd EXCEPT !.bootstrapped = TRUE],
                 <<HostEffect("LanDirect"), RuntimeEffect(TRUE, rd.proven)>>)

TurnOf(rd, turn) == TurnEffect(turn, rd.turns[turn] @@ [items |-> <<>>])
ItemOf(rd, item) == ItemEffect(item, rd.items[item])
RequestOf(rd, req) ==
    AttentionEffect(req, [host |-> TheHost, project |-> TheProject] @@ rd.requests[req])

(***************************************************************************)
(* The frames                                                              *)
(***************************************************************************)
ReduceReady(rd) ==
    IF rd.sid # None THEN Reduced(rd, <<>>)
    ELSE LET next == [rd EXCEPT !.sid = Provisional, !.live = "NotBound"]
         IN Reduced(next, <<ProjectEffect, SessionOf(next)>>)

ReduceSession(rd, f) ==
    IF rd.raw \notin {None, f.raw} THEN RefusedFrame(rd)
    ELSE LET proven == IF f.kind = "session_resumed" THEN Prove(rd, "HistoryResume") ELSE rd
             next == [proven EXCEPT !.raw = f.raw,
                        !.sid = IF rd.sid = None THEN f.raw ELSE rd.sid,
                        !.live = LiveBindingOf(proven)]
         IN Reduced(next, <<ProjectEffect, SessionOf(next)>>)

ReduceSessionList(rd, f) ==
    LET next == [Prove(rd, "HistoryList") EXCEPT !.discovered = f.sessions]
        offline(sid) == SessionEffect(sid, "NotBound", FALSE)
        found == SetToSeq(f.sessions)
    IN Reduced(next, <<ProjectEffect>> \o [i \in DOMAIN found |-> offline(found[i])])

\* A frame of turn traffic makes its turn the current one, and starts the turn
\* with the local command registered for it, if any.
EnsureTurn(rd, turn) ==
    LET current == [rd EXCEPT !.current = turn]
        origin == IF Known(rd.prompts, turn) THEN rd.prompts[turn] ELSE None
        next == [current EXCEPT !.turns =
                   Put(@, turn, [session |-> rd.sid, status |-> "Running", origin |-> origin])]
    IN IF rd.sid = None THEN RefusedFrame(rd)
       ELSE IF Known(rd.turns, turn) THEN Reduced(current, <<>>)
       ELSE Reduced(next, <<TurnOf(next, turn)>>)

ReducePrompt(rd, f) ==
    LET queued == IF f.turn \in rd.queued THEN {"QueueWrite"} ELSE {}
        proven == [rd EXCEPT !.proven = @ \cup {"TurnPrompt"} \cup queued]
        turn == EnsureTurn(proven, f.turn)
    IN IF rd.sid = None THEN Reduced([proven EXCEPT !.current = f.turn], <<>>)
       ELSE Reduced(turn.rd, turn.es \o SessionUpdated(turn.rd))

ReducePermissionRequest(rd, f) ==
    LET next == [Prove(rd, "InteractionApproval") EXCEPT !.requests =
                   Put(@, f.req, [session |-> rd.sid, subject |-> "Approval", open |-> TRUE,
                                  item |-> f.item, answer |-> None])]
    IN IF rd.sid = None THEN Reduced(rd, <<>>)
       ELSE Reduced(next, <<RequestOf(next, f.req)>> \o SessionUpdated(next))

Answered(rd, req) ==
    LET source == IF Known(rd.answers, req) THEN rd.answers[req] ELSE "external"
    IN [ForgetLocalAnswer(rd, req) EXCEPT !.requests[req].open = FALSE,
                                          !.requests[req].answer = source]

\* A refused permission declines the item it was asked for.
ReducePermissionResult(rd, f) ==
    LET answered == Answered(rd, f.req)
        item == rd.requests[f.req].item
        declines == f.word \in {"deny", "cancel"} /\ Known(rd.items, item)
        next == IF declines THEN [answered EXCEPT !.items[item].status = "Declined"]
                ELSE answered
    IN IF ~Known(rd.requests, f.req) THEN Reduced(rd, <<>>)
       ELSE Reduced(next, <<RequestOf(next, f.req)>>
                            \o (IF declines THEN <<ItemOf(next, item)>> ELSE <<>>)
                            \o SessionUpdated(next))

ReduceQuestionRequest(rd, f) ==
    LET next == [Prove(rd, "InteractionQuestion") EXCEPT !.requests =
                   Put(@, f.req, [session |-> rd.sid, subject |-> "Question", open |-> TRUE,
                                  item |-> f.item, answer |-> None])]
    IN IF rd.sid = None THEN RefusedFrame(rd)
       ELSE Reduced(next, <<RequestOf(next, f.req)>> \o SessionUpdated(next))

ReduceQuestionResult(rd, f) ==
    IF ~Known(rd.requests, f.req) \/ rd.requests[f.req].subject # "Question"
    THEN RefusedFrame(rd)
    ELSE LET next == Answered(rd, f.req)
         IN Reduced(next, <<RequestOf(next, f.req)>> \o SessionUpdated(next))

\* The interrupt names no turn: it cancels whichever one is current.
ReduceInterrupt(rd) ==
    LET proven == Prove(rd, "TurnInterrupt")
        next == [proven EXCEPT !.turns[rd.current].status = "Cancelled"]
    IN IF ~Known(rd.turns, rd.current) THEN Reduced(proven, <<>>)
       ELSE Reduced(next, <<TurnOf(next, rd.current)>> \o SessionUpdated(next))

UpsertItem(rd, turn, item, status) ==
    LET old == IF Known(rd.items, item) THEN rd.items[item].turn ELSE turn
        next == [rd EXCEPT !.items = Put(@, item,
                   [session |-> rd.sid, turn |-> old, status |-> status, body |-> "b"])]
    IN Reduced(next, <<ItemOf(next, item)>>)
\* A message of the turn: the turn, then the item.
TurnItem(rd, turn, item, status) ==
    LET started == EnsureTurn(rd, turn)
        upserted == UpsertItem(started.rd, turn, item, status)
    IN IF ~started.ok THEN started ELSE Reduced(upserted.rd, started.es \o upserted.es)

\* An expired login withdraws everything this connection has shown.
ReduceAuthenticationFailed(rd, turn, item) ==
    TurnItem([rd EXCEPT !.proven = {}], turn, item, "Completed")

\* Progress, summaries and results of a tool move an item already seen.
ToolMoved(rd, item, status) ==
    LET next == [rd EXCEPT !.items[item].status = status]
    IN IF ~Known(rd.items, item) THEN Reduced(rd, <<>>)
       ELSE Reduced(next, <<ItemOf(next, item)>>)
ReduceToolResult(rd, turn, item, failed) ==
    LET started == EnsureTurn(rd, turn)
        moved == ToolMoved(started.rd, item, IF failed THEN "Failed" ELSE "Completed")
    IN IF ~started.ok THEN started ELSE Reduced(moved.rd, started.es \o moved.es)

\* The effect that starts the turn is dropped here: only its end is reported.
ReduceResult(rd, turn, status) ==
    LET started == EnsureTurn(rd, turn)
        next == [started.rd EXCEPT !.turns[turn].status = status]
    IN IF ~started.ok THEN started
       ELSE Reduced(next, <<TurnOf(next, turn)>> \o SessionUpdated(next))

ReduceInit(rd) ==
    IF rd.live = None THEN RefusedFrame(rd) ELSE Reduced(Prove(rd, "LiveObserve"), <<>>)

ReduceSdkEvent(rd, f) ==
    LET turn == IF f.turn # None THEN f.turn ELSE rd.current
    IN IF rd.raw \notin {None, f.raw} THEN RefusedFrame(rd)
       ELSE CASE f.word = "init" -> ReduceInit(rd)
              [] f.word = "text" -> TurnItem(rd, turn, f.item, "Completed")
              [] f.word = "auth_failed" -> ReduceAuthenticationFailed(rd, turn, f.item)
              [] f.word = "stream" -> UpsertItem(rd, turn, f.item, "InProgress")
              [] f.word = "tool_use" -> TurnItem(rd, turn, f.item, "InProgress")
              [] f.word = "tool_progress" -> ToolMoved(rd, f.item, "InProgress")
              [] f.word = "tool_summary" -> ToolMoved(rd, f.item, "Completed")
              [] f.word = "tool_result" -> ReduceToolResult(rd, turn, f.item, FALSE)
              [] f.word = "tool_error" -> ReduceToolResult(rd, turn, f.item, TRUE)
              [] f.word = "success" -> ReduceResult(rd, turn, "Completed")
              [] f.word = "interrupted" -> ReduceResult(rd, turn, "Cancelled")
              [] OTHER -> ReduceResult(rd, turn, "Failed")

DispatchFrame(rd, f) ==
    CASE f.kind = "ready" -> ReduceReady(rd)
      [] f.kind \in {"session_started", "session_resumed"} -> ReduceSession(rd, f)
      [] f.kind = "session_list" -> ReduceSessionList(rd, f)
      [] f.kind = "prompt_accepted" -> ReducePrompt(rd, f)
      [] f.kind = "permission_request" -> ReducePermissionRequest(rd, f)
      [] f.kind = "permission_result" -> ReducePermissionResult(rd, f)
      [] f.kind = "question_request" -> ReduceQuestionRequest(rd, f)
      [] f.kind = "question_result" -> ReduceQuestionResult(rd, f)
      [] f.kind = "interrupt_result" -> ReduceInterrupt(rd)
      [] f.kind = "sdk_event" -> ReduceSdkEvent(rd, f)
      [] OTHER -> Reduced(rd, <<>>)

\* What the frame proved is published after its effects.
Followed(before, frame) ==
    LET news == IF frame.rd.proven = frame.rd.published THEN Reduced(frame.rd, <<>>)
                ELSE Republished(frame.rd)
    IN IF ~frame.ok THEN frame ELSE Reduced(news.rd, before \o frame.es \o news.es)

IngestFrame(rd, f) ==
    LET boot == EnsureBootstrapped(rd) IN Followed(boot.es, DispatchFrame(boot.rd, f))

(***************************************************************************)
(* The end of a connection                                                 *)
(***************************************************************************)
Unbound(rd) == IF rd.live = None THEN rd ELSE [rd EXCEPT !.live = "NotBound"]

ProcessExited(rd) ==
    LET next == [Unbound(rd) EXCEPT !.ended = TRUE, !.proven = {}]
        fault == [host |-> TheHost, project |-> TheProject, session |-> rd.sid,
                  subject |-> "ConnectionFault", open |-> TRUE, item |-> None, answer |-> None]
    IN IF rd.ended THEN Reduced(rd, <<>>)
       ELSE Reduced(next, <<RuntimeEffect(FALSE, {})>> \o SessionUpdated(next)
              \o (IF rd.live = None THEN <<>> ELSE <<AttentionEffect("fault", fault)>>))

CleanDisconnected(rd) ==
    LET next == [Unbound(rd) EXCEPT !.ended = TRUE, !.proven = {}]
    IN IF rd.ended THEN Reduced(rd, <<>>)
       ELSE Reduced(next, <<RuntimeEffect(FALSE, {})>> \o SessionUpdated(next))

MarkConnectionUnavailable(rd) ==
    LET next == [Unbound(rd) EXCEPT !.proven = {}]
    IN Reduced(next, <<CapabilitiesEffect({})>> \o SessionUpdated(next))


-------------------------------------------------------------------------------
(* The sidecar (bridge/index.ts): its globals as a record, what each host command *)
(* does to it, and what it does when the SDK calls back.  Frames for the host are *)
(* appended to out, which is the sidecar's stdout.                                *)

NewBridge ==
    [alive |-> TRUE, started |-> FALSE, resume |-> None, observed |-> None,
     turn |-> None, queue |-> <<>>, permissions |-> {}, questions |-> {},
     query |-> FALSE, suppress |-> FALSE, out |-> <<>>]
DeadBridge == [NewBridge EXCEPT !.alive = FALSE]

Emit(b, f) == [b EXCEPT !.out = Append(@, f)]
Fail(b) == Emit(b, ErrorFrame)

\* Host commands, as the host writes them to the sidecar's stdin.
StartCommand(resume) == [Frame("start") EXCEPT !.raw = resume]
PromptCommand(turn, text) == [Frame("prompt") EXCEPT !.turn = turn, !.word = text]
AnswerCommand(kind, req, word) == [Frame(kind) EXCEPT !.req = req, !.word = word]
InterruptCommand == Frame("interrupt")
CloseCommand == Frame("close")

\* Every waiter is answered with a cancellation, and a prompt still in the
\* queue is reported as not consumed once the handler that pushed it resumes.
ClearSessionState(b) ==
    LET cleared == [b EXCEPT !.started = FALSE, !.resume = None, !.observed = None,
                       !.turn = None, !.queue = <<>>, !.permissions = {},
                       !.questions = {}, !.query = FALSE]
    IN [cleared |-> cleared, rejected |-> Len(b.queue)]
NotConsumed(c) == IF c.rejected > 0 THEN Fail(c.cleared) ELSE c.cleared

Start(b, f) ==
    IF b.started THEN Fail(b)
    ELSE Emit([b EXCEPT !.resume = f.raw, !.suppress = FALSE, !.queue = <<>>,
                        !.query = TRUE, !.started = TRUE],
              ReadyFrame(f.raw))

\* The turn becomes the current one before the SDK has taken the prompt.
Prompt(b, f) ==
    IF ~b.started THEN Fail(b)
    ELSE [b EXCEPT !.turn = f.turn, !.queue = Append(@, f)]
\* query() takes the next prompt from the queue; the push is resolved.
PromptTaken(b) ==
    Emit([b EXCEPT !.queue = Tail(@)], AcceptedFrame(b.queue[1].turn))

PermissionResult(b, f) ==
    IF f.req \notin b.permissions THEN Fail(b)
    ELSE Emit([b EXCEPT !.permissions = @ \ {f.req}],
              ResultFrame("permission_result", f.req, f.word))
QuestionResult(b, f) ==
    IF f.req \notin b.questions THEN Fail(b)
    ELSE Emit([b EXCEPT !.questions = @ \ {f.req}],
              ResultFrame("question_result", f.req, f.word))

Interrupt(b, ok) ==
    IF ~b.query \/ ~ok THEN Fail(b) ELSE Emit(b, Frame("interrupt_result"))

Close(b) ==
    LET c == ClearSessionState([b EXCEPT !.suppress = TRUE])
    IN NotConsumed([c EXCEPT !.cleared = Emit(@, Frame("closed"))])

\* The sidecar's handler for one line of its stdin.
Handle(b, f) ==
    CASE f.kind = "start" -> Start(b, f)
      [] f.kind = "prompt" -> Prompt(b, f)
      [] f.kind = "permission_result" -> PermissionResult(b, f)
      [] f.kind = "question_result" -> QuestionResult(b, f)
      [] f.kind = "interrupt" -> Interrupt(b, TRUE)
      [] f.kind = "close" -> Close(b)

\* canUseTool: ask the host and wait for its answer.
PermissionCallback(b, kind, req, item) ==
    IF kind = "Question"
    THEN [Emit(b, RequestFrame("question_request", req, item)) EXCEPT
            !.questions = @ \cup {req}]
    ELSE [Emit(b, RequestFrame("permission_request", req, item)) EXCEPT
            !.permissions = @ \cup {req}]

\* The query loop failed: say why unless the host is closing, and clear.
ConsumeFailed(b) ==
    NotConsumed(ClearSessionState(IF b.suppress THEN b ELSE Fail(b)))

\* The first message names the session; a message that names another session
\* than the one resumed, or observed before, ends the query.
IdentityRefused(b, raw) ==
    (b.resume # None /\ raw # b.resume) \/ (b.observed # None /\ raw # b.observed)
ObserveSessionIdentity(b, raw) ==
    IF b.observed # None THEN b
    ELSE Emit([b EXCEPT !.observed = raw], SessionFrame(raw, b.resume # None))

\* One message of the SDK, forwarded under the current turn.
Consume(b, raw, event, item) ==
    IF IdentityRefused(b, raw) THEN ConsumeFailed(b)
    ELSE Emit(ObserveSessionIdentity(b, raw), SdkFrame(raw, b.turn, event, item))

-------------------------------------------------------------------------------
(* The runtime and its worker                                                     *)

CONSTANTS Prompts, Answers, Interrupts, Resumes,  \* commands, by kind
          Deliveries,    \* commands of queued entries, named like their entry
          Target,        \* the session each command is for
          Old,           \* sessions Claude lists when the worker starts
          Words,         \* decisions a device may send
          AskKinds,      \* what the SDK asks: subsets of {"Approval", "Question"}
          Talk,          \* SDK messages beyond the life of one tool call
          FaultKinds,    \* which faults may happen
          MaxFaults      \* and how many of them together

VARIABLES b,        \* the sidecar: globals and stdout
          stdin,    \* host commands the sidecar has not read
          sdk,      \* the SDK's query (external)
          rd,       \* the reducer
          rt,       \* the runtime session and its worker
          call,     \* the call the worker is in
          st,       \* the canonical state of the host, which survives a restart
          cmds,     \* what became of each command
          refused,  \* the store refused an effect the adapter built
          faults,
          seen
vars == <<b, stdin, sdk, rd, rt, call, st, cmds, refused, faults, seen>>
wire == <<b, stdin, sdk>>

Idle == [op |-> "idle", c |-> None, turn |-> None, req |-> None, es |-> <<>>]
NewSdk == [work |-> <<>>, inited |-> FALSE, tool |-> "none", stop |-> FALSE, said |-> {}]
NewRuntime == [phase |-> "Down", started |-> FALSE, next |-> 0, resume |-> None, channel |-> <<>>]
TheItem == CHOOSE i \in Items : TRUE
OtherItem == CHOOSE i \in Items : i # TheItem
TheRequest == CHOOSE a \in Attentions \ {"fault"} : TRUE
TurnName == <<"t1", "t2", "t3">>
Conversation == IF b.resume # None THEN b.resume ELSE FreshId
Fault(kind) == kind \in FaultKinds /\ faults < MaxFaults /\ faults' = faults + 1

Init ==
    /\ b = DeadBridge /\ stdin = <<>> /\ sdk = NewSdk
    /\ rd = NewReducer /\ rt = NewRuntime /\ call = Idle
    /\ st = EmptyState /\ cmds = [c \in Commands |-> "New"]
    /\ refused = FALSE /\ faults = 0
    /\ seen = [taken |-> {}, heard |-> {}, answered |-> <<>>, ended |-> {}]

(***************************************************************************)
(* The SDK (external): it takes prompts, runs one tool, asks, and ends     *)
(***************************************************************************)
Querying == b.alive /\ b.query
Said(event, item) == b' = Consume(b, Conversation, event, item)
\* The SDK's state after a message: a refused message ends the query.
SdkIs(next) == sdk' = IF b'.query THEN next ELSE NewSdk

SdkTakesPrompt ==
    /\ Querying /\ b.queue # <<>>
    /\ b' = PromptTaken(b)
    /\ sdk' = [sdk EXCEPT !.work = Append(@, b.queue[1].turn)]
    /\ seen' = [seen EXCEPT !.taken = @ \cup {[c |-> b.queue[1].word, in |-> Conversation]}]
    /\ UNCHANGED <<stdin, rd, rt, call, st, cmds, refused, faults>>

SdkInit ==
    /\ Querying /\ sdk.work # <<>> /\ ~sdk.inited
    /\ Said("init", None) /\ SdkIs([sdk EXCEPT !.inited = TRUE])
    /\ UNCHANGED <<stdin, rd, rt, call, st, cmds, refused, faults, seen>>

SdkUsesTool ==
    /\ Querying /\ sdk.work # <<>> /\ sdk.inited /\ sdk.tool = "none"
    /\ Said("tool_use", TheItem) /\ SdkIs([sdk EXCEPT !.tool = "open"])
    /\ UNCHANGED <<stdin, rd, rt, call, st, cmds, refused, faults, seen>>

SdkAsks(kind) ==
    /\ Querying /\ sdk.tool = "open"
    /\ b' = PermissionCallback(b, kind, TheRequest, TheItem)
    /\ sdk' = [sdk EXCEPT !.tool = "asked"]
    /\ UNCHANGED <<stdin, rd, rt, call, st, cmds, refused, faults, seen>>

\* A tool that was not allowed to run is reported as a failed one.
SdkEndsTool ==
    /\ Querying /\ sdk.tool \in {"allowed", "denied"}
    /\ Said(IF sdk.tool = "allowed" THEN "tool_result" ELSE "tool_error", TheItem)
    /\ SdkIs([sdk EXCEPT !.tool = "done"])
    /\ UNCHANGED <<stdin, rd, rt, call, st, cmds, refused, faults, seen>>

SdkTalks(event) ==
    /\ Querying /\ sdk.inited /\ sdk.work # <<>> /\ event \notin sdk.said
    /\ event \in {"tool_progress", "tool_summary"} => sdk.tool = "allowed"
    /\ Said(event, IF event \in {"tool_progress", "tool_summary"} THEN TheItem ELSE OtherItem)
    /\ SdkIs([sdk EXCEPT !.said = @ \cup {event}])
    /\ UNCHANGED <<stdin, rd, rt, call, st, cmds, refused, faults, seen>>

SdkEndsTurn(status) ==
    /\ Querying /\ sdk.work # <<>> /\ sdk.inited /\ sdk.tool # "asked"
    /\ (status = "interrupted") = sdk.stop
    /\ Said(status, None)
    /\ SdkIs([sdk EXCEPT !.work = Tail(@), !.stop = FALSE])
    /\ seen' = [seen EXCEPT !.ended = @ \cup {sdk.work[1]}]
    /\ UNCHANGED <<stdin, rd, rt, call, st, cmds, refused, faults>>

\* The query throws, or Claude answers with another session than the resumed.
SdkThrows ==
    /\ Fault("query") /\ Querying
    /\ b' = ConsumeFailed(b) /\ sdk' = NewSdk
    /\ UNCHANGED <<stdin, rd, rt, call, st, cmds, refused, seen>>
SdkNamesAnother ==
    /\ Fault("identity") /\ Querying /\ sdk.work # <<>> /\ b.resume # None
    /\ b' = Consume(b, "stranger", "init", None) /\ SdkIs(sdk)
    /\ UNCHANGED <<stdin, rd, rt, call, st, cmds, refused, seen>>

(***************************************************************************)
(* The sidecar reads a command                                             *)
(***************************************************************************)
\* What an answer or an interrupt means to the SDK once the sidecar took it.
SdkTold(f) ==
    CASE f.kind \in {"permission_result", "question_result"} ->
           IF f.req \in b.permissions \cup b.questions
           THEN [sdk EXCEPT !.tool = IF f.word \in {"deny", "cancel"} THEN "denied"
                                     ELSE "allowed",
                            !.stop = @ \/ f.word = "cancel"]
           ELSE sdk
      [] f.kind = "interrupt" -> [sdk EXCEPT !.stop = sdk.work # <<>>,
                                             !.tool = IF @ = "asked" THEN "done" ELSE @]
      [] f.kind \in {"start", "close"} -> NewSdk
      [] OTHER -> sdk

SidecarReads ==
    /\ b.alive /\ stdin # <<>>
    /\ b' = Handle(b, stdin[1]) /\ stdin' = Tail(stdin) /\ sdk' = SdkTold(stdin[1])
    /\ seen' = IF stdin[1].req \in b.permissions \cup b.questions
               THEN [seen EXCEPT !.answered = Put(@, stdin[1].req, call.c)] ELSE seen
    /\ UNCHANGED <<rd, rt, call, st, cmds, refused, faults>>

SidecarCrashes ==
    /\ Fault("crash") /\ b.alive
    /\ b' = [DeadBridge EXCEPT !.out = b.out] /\ stdin' = <<>> /\ sdk' = NewSdk
    /\ UNCHANGED <<rd, rt, call, st, cmds, refused, seen>>

(***************************************************************************)
(* The runtime session: what ends a call                                   *)
(***************************************************************************)
Expected(op) ==
    CASE op \in {"start", "resume", "reconnect"} -> {"ready"}
      [] op \in {"prompt", "deliver"} -> {"prompt_accepted"}
      [] op = "answer" -> {"permission_result", "question_result"}
      [] op = "interrupt" -> {"interrupt_result"}

\* force_terminate_transport: the child is killed, whatever it said is gone.
Terminated == b' = DeadBridge /\ stdin' = <<>> /\ sdk' = NewSdk

Commits(done) == st' = done.state /\ refused' = (refused \/ ~done.ok)
Applies(es) == Commits(ApplyEffects(st, es))

\* The effects of a command's end: committed if they close it.
Ends(c, closes, done) ==
    IF ~closes
    THEN cmds' = [cmds EXCEPT ![c] = "Uncertain"] /\ UNCHANGED <<st, refused>>
    ELSE Commits(done) /\ cmds' = [cmds EXCEPT ![c] = IF done.ok THEN "Done" ELSE "Uncertain"]

FinishDispatch(c, op, es) ==
    Ends(c, ClosesRoute(es, op, c, Target[c], call.req), ApplyEffects(st, es))

FinishQueueDelivery(c, es) ==
    LET entry == [session |-> Target[c], pending |-> FALSE, position |-> 0]
        correlated == \E i \in DOMAIN es : /\ es[i].kind = "Turn" /\ es[i].turn.origin = c
                                           /\ es[i].turn.session = Target[c]
    IN Ends(c, correlated, ApplyEffects(st, Append(es, EntryEffect(c, entry))))

ComesUp(done) ==
    /\ Commits(done)
    /\ rt' = IF call.op = "reconnect" THEN rt
             ELSE [rt EXCEPT !.phase = IF done.ok THEN "Up" ELSE "Failed"]

\* The awaited frame arrived; r: what it left of the reducer, with all the call's effects.
CallReturns(r) ==
    /\ call' = Idle /\ rd' = r.rd
    /\ CASE call.op \in {"prompt", "interrupt", "answer", "resume"} ->
              FinishDispatch(call.c, call.op, r.es) /\ UNCHANGED rt
         [] call.op = "deliver" -> FinishQueueDelivery(call.c, r.es) /\ UNCHANGED rt
         [] call.op \in {"reconnect", "start"} -> ComesUp(ApplyEffects(st, r.es)) /\ UNCHANGED cmds

\* A prompt or an interrupt that was taken is acknowledged.
Acknowledged(r) ==
    LET accepted == AcceptedCommand(r.rd, call.c, call.op = "prompt")
    IN IF call.op \in {"prompt", "interrupt"}
       THEN [rd |-> accepted.rd, es |-> call.es \o r.es \o accepted.es]
       ELSE [rd |-> r.rd, es |-> call.es \o r.es]

\* The call failed: the transport is gone, and so are the effects of the frames
\* it had taken in.  A command that was claimed stays uncertain; only a queued
\* prompt is forgotten by the reducer.
CallFails(next) ==
    /\ Terminated
    /\ call' = Idle
    /\ rt' = [rt EXCEPT !.started = FALSE, !.phase = IF call.op = "start" THEN "Failed" ELSE @]
    /\ rd' = IF call.op = "deliver" THEN ForgetLocalPrompt(next, call.turn) ELSE next
    /\ cmds' = IF call.c = None THEN cmds ELSE [cmds EXCEPT ![call.c] = "Uncertain"]
    /\ UNCHANGED <<st, refused>>

\* One frame while a call waits; r: what the reducer makes of it.
TakesFrame(f, r) ==
    IF f.kind = "error" THEN CallFails(rd)
    ELSE IF ~r.ok THEN CallFails(r.rd)
    ELSE /\ b' = [b EXCEPT !.out = Tail(@)] /\ UNCHANGED <<stdin, sdk>>
         /\ IF f.kind \in Expected(call.op) THEN CallReturns(Acknowledged(r))
            ELSE /\ rd' = r.rd /\ call' = [call EXCEPT !.es = @ \o r.es]
                 /\ UNCHANGED <<rt, st, cmds, refused>>

AwaitFrame ==
    /\ call # Idle /\ b.out # <<>>
    /\ TakesFrame(b.out[1], IngestFrame(rd, b.out[1]))
    /\ seen' = IF call.c # None /\ b.out[1].kind \in Expected(call.op)
               THEN [seen EXCEPT !.heard = @ \cup {call.c}] ELSE seen
    /\ UNCHANGED faults

AwaitEndOfStream ==
    /\ call # Idle /\ b.out = <<>> /\ ~b.alive
    /\ CallFails(ProcessExited(rd).rd)
    /\ UNCHANGED <<faults, seen>>

AwaitTimesOut ==
    /\ Fault("timeout") /\ call # Idle
    /\ CallFails(rd)
    /\ UNCHANGED seen

(***************************************************************************)
(* The worker: start, commands, drains, stop                               *)
(***************************************************************************)
Spawns(resume) ==
    b' = NewBridge /\ stdin' = <<StartCommand(resume)>> /\ sdk' = NewSdk

\* run_worker discovers the sessions Claude knows, then starts its own; if the
\* store refuses the discovery there is no worker.
Discovers(done) == done.ok /\ Commits(done)
StartWorker ==
    /\ rt.phase = "Down" /\ call = Idle
    /\ \E found \in {IngestFrame(rd, ListFrame(Old))} :
         rd' = found.rd /\ Discovers(ApplyEffects(st, found.es))
    /\ Spawns(None)
    /\ rt' = [rt EXCEPT !.started = TRUE, !.resume = None]
    /\ call' = [Idle EXCEPT !.op = "start"]
    /\ UNCHANGED <<cmds, faults, seen>>

\* A command of a device: the broker takes it and the worker claims it.  Any
\* session Claude listed, and the worker's own, leads to this worker.
Routed(c) == rt.phase = "Up" /\ cmds[c] = "New" /\ Known(st.sessions, Target[c])
Claims(c) == st' = CommandAcknowledged(st, LocalAck(c, Target[c])) /\ UNCHANGED refused
Sends(f) == stdin' = Append(stdin, f) /\ UNCHANGED <<b, sdk>>
Begins(op, c, turn, req) ==
    /\ call' = [Idle EXCEPT !.op = op, !.c = c, !.turn = turn, !.req = req]
    /\ cmds' = [cmds EXCEPT ![c] = "Claimed"]
FailsAtOnce(c) ==
    /\ cmds' = [cmds EXCEPT ![c] = "Uncertain"]
    /\ UNCHANGED <<b, stdin, sdk, rd, rt, call>>

\* The session the command names is not looked at: the prompt goes to the
\* conversation this runtime is in.
SubmitPrompt(c) ==
    /\ call = Idle /\ c \in Prompts /\ Routed(c) /\ Claims(c)
    /\ IF ~rt.started THEN FailsAtOnce(c)
       ELSE LET turn == TurnName[rt.next + 1]
            IN /\ rt' = [rt EXCEPT !.next = @ + 1]
               /\ rd' = RegisterLocalPrompt(rd, turn, c)
               /\ Sends(PromptCommand(turn, c)) /\ Begins("prompt", c, turn, None)
    /\ UNCHANGED <<faults, seen>>

RespondAttention(c, word) ==
    /\ call = Idle /\ c \in Answers /\ Routed(c)
    /\ Known(st.attention, TheRequest) /\ Open(st, TheRequest)
    /\ \A o \in Answers : cmds[o] \notin {"Claimed", "Uncertain"}
    /\ Claims(c)
    /\ IF ~rt.started \/ ~CanRegisterAnswer(rd, TheRequest) THEN FailsAtOnce(c)
       ELSE /\ rd' = RegisterLocalAnswer(rd, TheRequest, c)
            /\ Sends(AnswerCommand(IF rd.requests[TheRequest].subject = "Question"
                                   THEN "question_result" ELSE "permission_result",
                                   TheRequest, word))
            /\ Begins("answer", c, None, TheRequest) /\ UNCHANGED rt
    /\ UNCHANGED <<faults, seen>>

\* The device names a turn it saw; it must be the one the reducer has current.
InterruptTurn(c, turn) ==
    /\ call = Idle /\ c \in Interrupts /\ Routed(c) /\ Known(st.turns, turn) /\ Claims(c)
    /\ IF ~rt.started \/ ~IsActiveTurn(rd, turn) THEN FailsAtOnce(c)
       ELSE /\ Sends(InterruptCommand) /\ Begins("interrupt", c, turn, None)
            /\ UNCHANGED <<rd, rt>>
    /\ UNCHANGED <<faults, seen>>

\* The old query is closed with a handshake that throws its last frames away.
ResumeSession(c) ==
    /\ call = Idle /\ c \in Resumes /\ Routed(c) /\ Claims(c)
    /\ IF Target[c] \notin rd.discovered THEN FailsAtOnce(c)
       ELSE IF rt.started /\ \E i \in DOMAIN b.out : b.out[i].kind = "error"
       THEN /\ Terminated /\ rt' = [rt EXCEPT !.started = FALSE]
            /\ cmds' = [cmds EXCEPT ![c] = "Uncertain"] /\ UNCHANGED <<rd, call>>
       ELSE /\ rd' = PrepareResume(rd, Target[c], Target[c])
            /\ Spawns(Target[c]) /\ Begins("resume", c, None, None)
            /\ rt' = [rt EXCEPT !.started = TRUE, !.resume = Target[c]]
    /\ UNCHANGED <<faults, seen>>

\* pump_pending_queue, on the host's timer: while the store shows no active turn
\* the entry is claimed and goes into the worker's channel, whatever call the
\* worker is in.
PumpQueue(c) ==
    /\ c \in Deliveries /\ Routed(c)
    /\ st.sessions[Target[c]].activeTurn = None
    /\ st' = RecomputeDerived(QueueEntryUpserted(st, c,
               [session |-> Target[c], pending |-> FALSE, position |-> 0]))
    /\ cmds' = [cmds EXCEPT ![c] = "Sent"]
    /\ rt' = [rt EXCEPT !.channel = Append(@, c)]
    /\ UNCHANGED <<b, stdin, sdk, rd, call, refused, faults, seen>>
DeliverQueueEntry ==
    /\ call = Idle /\ rt.phase = "Up" /\ rt.channel # <<>>
    /\ LET c == rt.channel[1]
           turn == TurnName[rt.next + 1]
           taken == [rt EXCEPT !.channel = Tail(@)]
       IN IF ~rt.started \/ rd.sid # Target[c]
          THEN /\ rt' = taken /\ cmds' = [cmds EXCEPT ![c] = "Uncertain"]
               /\ UNCHANGED <<b, stdin, sdk, rd, call>>
          ELSE /\ rt' = [taken EXCEPT !.next = @ + 1]
               /\ rd' = RegisterQueuedPrompt(rd, turn, c)
               /\ Sends(PromptCommand(turn, c)) /\ Begins("deliver", c, turn, None)
    /\ UNCHANGED <<st, refused, faults, seen>>

\* Writing to a sidecar that is gone: the pipe breaks.  Only an answer's
\* registration is taken back here.
SendBreaks ==
    /\ call # Idle /\ ~b.alive /\ call.es = <<>>
    /\ CallFails(IF call.op = "answer" THEN ForgetLocalAnswer(rd, call.req) ELSE rd)
    /\ UNCHANGED <<faults, seen>>

\* Everything the sidecar has written so far, frame by frame; an error frame or
\* a refused one drops the effects of all the frames before it.
Joined(acc, r) == [rd |-> r.rd, es |-> acc.es \o r.es, ok |-> r.ok]
Drained ==
    LET step(acc, f) == IF ~acc.ok THEN acc
                        ELSE IF f.kind = "error" THEN [acc EXCEPT !.ok = FALSE]
                        ELSE Joined(acc, IngestFrame(acc.rd, f))
        exited(lines) == IF lines.ok /\ ~b.alive THEN Joined(lines, ProcessExited(lines.rd))
                         ELSE lines
    IN exited(FoldLeft(step, [rd |-> rd, es |-> <<>>, ok |-> rt.started], b.out))

Publishes(drained) == drained.ok /\ Applies(drained.es) /\ rd' = drained.rd
DrainEffects ==
    /\ call = Idle /\ rt.phase = "Up"
    /\ b.out # <<>> \/ ~b.alive
    /\ Publishes(Drained)
    /\ IF b.alive
       THEN b' = [b EXCEPT !.out = <<>>] /\ UNCHANGED <<stdin, sdk, rt>>
       ELSE Terminated /\ rt' = [rt EXCEPT !.started = FALSE]
    /\ UNCHANGED <<call, cmds, faults, seen>>

\* The drain failed: the loss is published, and a session Claude has named is
\* resumed in a new sidecar.
ResumesAfter(lost) ==
    /\ Applies(lost.es)
    /\ IF lost.rd.raw = None
       THEN /\ rd' = lost.rd /\ Terminated
            /\ rt' = [rt EXCEPT !.started = FALSE] /\ UNCHANGED call
       ELSE /\ rd' = PrepareResume(lost.rd, lost.rd.sid, lost.rd.raw)
            /\ Spawns(lost.rd.raw)
            /\ rt' = [rt EXCEPT !.started = TRUE, !.resume = lost.rd.raw]
            /\ call' = [Idle EXCEPT !.op = "reconnect"]
Reconnects ==
    /\ call = Idle /\ rt.phase = "Up"
    /\ \E drained \in {Drained} : ~drained.ok /\ ResumesAfter(MarkConnectionUnavailable(drained.rd))
    /\ UNCHANGED <<cmds, faults, seen>>

\* hostd goes down and comes back: the store has the canonical state, a claimed
\* command is uncertain, and reducer, turn counter and sidecar start over.
HostRestarts ==
    /\ Fault("restart") /\ rt.phase # "Down"
    /\ Terminated
    /\ rd' = NewReducer /\ rt' = NewRuntime /\ call' = Idle
    /\ cmds' = [c \in Commands |-> IF cmds[c] \in {"Claimed", "Sent"} THEN "Uncertain" ELSE cmds[c]]
    /\ UNCHANGED <<st, refused, seen>>

\* The worker is stopped: close handshake, then the disconnect is published;
\* what is still in its channel is never delivered.
CloseWorker ==
    /\ Fault("close") /\ call = Idle /\ rt.phase = "Up" /\ rt.started
    /\ Publishes(CleanDisconnected(rd))
    /\ Terminated /\ rt' = [rt EXCEPT !.started = FALSE, !.phase = "Failed", !.channel = <<>>]
    /\ cmds' = [c \in Commands |-> IF cmds[c] = "Sent" THEN "Uncertain" ELSE cmds[c]]
    /\ UNCHANGED <<call, seen>>

Next ==
    \/ SdkTakesPrompt \/ SdkInit \/ SdkUsesTool \/ SdkEndsTool
    \/ \E kind \in AskKinds : SdkAsks(kind)
    \/ \E event \in Talk : SdkTalks(event)
    \/ \E status \in {"success", "failure", "interrupted"} : SdkEndsTurn(status)
    \/ SdkThrows \/ SdkNamesAnother
    \/ SidecarReads \/ SidecarCrashes
    \/ AwaitFrame \/ AwaitEndOfStream \/ AwaitTimesOut \/ SendBreaks
    \/ StartWorker \/ DrainEffects \/ Reconnects \/ HostRestarts \/ CloseWorker
    \/ DeliverQueueEntry
    \/ \E c \in Commands :
         \/ SubmitPrompt(c) \/ ResumeSession(c) \/ PumpQueue(c)
         \/ \E word \in Words : RespondAttention(c, word)
         \/ \E turn \in Turns : InterruptTurn(c, turn)
Spec == Init /\ [][Next]_vars

(***************************************************************************)
(* Properties                                                              *)
(***************************************************************************)
\* One command at a time is in the worker's hands, a claimed queue entry waits in
\* its channel until it is delivered or given up, and a registered local answer
\* always belongs to a request the reducer has.
TypeOK ==
    /\ rt.phase \in {"Down", "Up", "Failed"} /\ rt.next \in 0..Len(TurnName)
    /\ \A c \in Commands : cmds[c] \in {"New", "Sent", "Claimed", "Done", "Uncertain"}
    /\ {c \in Commands : cmds[c] = "Claimed"} = {call.c} \ {None}
    /\ {c \in Commands : cmds[c] = "Sent"} = {rt.channel[i] : i \in DOMAIN rt.channel}
    /\ DOMAIN rd.answers \subseteq DOMAIN rd.requests
    /\ rd.live \in {None, "NotBound", "Observing", "Controlling"}

\* ADR-0027 D-4: a prompt is acknowledged as accepted by the runtime only after
\* the SDK's query has consumed it, however calls, failures and restarts of the
\* sidecar interleave (prompt handler, AsyncQueue.push, submit_prompt).
PromptAcksAreTrue ==
    \A ack \in st.acks :
        ack.outcome = "AcceptedByRuntime" /\ ack.prompt =>
            \E t \in seen.taken : t.c = ack.command

\* An approval or question the store shows as answered was answered by the
\* command the store names, and that is the answer the SDK's callback got: this
\* sidecar's requests have no other answerer (register_local_attention_answer,
\* reduce_permission_result, reduce_question_result).
AnswersAreAttributed ==
    \A a \in DOMAIN st.attention \ {"fault"} :
        ~st.attention[a].open =>
            Known(seen.answered, a) /\ st.attention[a].answer = seen.answered[a]

\* The store never refuses an effect the adapter builds: an acknowledgement
\* comes before the control it proves, a turn before its items, capabilities
\* before the live binding that needs them (ingest_frame, submit_prompt).
EffectsAreAccepted == ~refused

\* PROTOCOL section 11: once the frame that answers a command has come (query()
\* took the prompt, the callback got the answer, interrupt() returned), it is
\* joined with the command and its session and the command is closed; it does
\* not stay uncertain (await_kind, finish_dispatch, finish_queue_delivery).
HeardCommandsAreClosed ==
    \A c \in seen.heard : cmds[c] # "Claimed" => cmds[c] = "Done"

\* A turn the store shows as completed is one the SDK has ended: the end of one
\* turn is not recorded as the end of another (currentTurn, reduce_result).
CompletedTurnsHaveEnded ==
    \A t \in DOMAIN st.turns : st.turns[t].status \in {"Completed", "Failed"} => t \in seen.ended

\* The prompt of a command enters the conversation of the session the command is
\* for, and no other (dispatch_claim, submit_prompt).
RawOf(sid) == IF sid = Provisional THEN FreshId ELSE sid
PromptsReachTheirSession ==
    \A t \in seen.taken : t.in = RawOf(Target[t.c])

\* PROTOCOL 4.5: Declined is final and never becomes Failed
\* (reduce_permission_result, reduce_tool_result).
DeclinedIsFinal ==
    [][\A i \in DOMAIN st.items :
         st.items[i].status = "Declined" => st'.items[i].status = "Declined"]_vars

\* PROTOCOL 4.3: Offline says that host or runtime cannot be reached; a runtime
\* that has answered its worker and lost nothing since does not look Offline
\* (process_exited, prepare_resume, reduce_session).
Settled == call = Idle /\ b.out = <<>> /\ stdin = <<>>
OfflineIsHonest ==
    (Settled /\ rt.phase = "Up" /\ rt.started /\ b.alive /\ sdk.inited /\ Known(st.sessions, rd.sid))
        => st.sessions[rd.sid].status # "Offline"

\* The comment of reconnect calls a resumed query "the lossless boundary": once
\* the sidecar is resumed, the end of a turn that had already ended is known
\* (await_kind, drain_available, reconnect).
ReconnectIsLossless ==
    (Settled /\ rt.phase = "Up" /\ rt.resume # None /\ rt.started) =>
        \A t \in seen.ended \cap DOMAIN st.turns : Terminal(st.turns[t])
=============================================================================
