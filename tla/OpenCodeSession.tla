---------------------------- MODULE OpenCodeSession ----------------------------
(* An OpenCode runtime as the host runs it: the runtime worker of the supervisor  *)
(* (kaleido-hostd/src/runtime.rs) with its OpenCodeRuntimeSession                 *)
(* (kaleido-adapter-opencode/src/runtime.rs) against a server the host does not   *)
(* own.  The server is external: it does what the recorded conversations show, it *)
(* keeps its history, and other clients use it too.  A request is answered in one *)
(* step; between the requests of one call, and while a call waits for an event,   *)
(* the server goes on.                                                            *)
EXTENDS CanonicalState
LOCAL INSTANCE SequencesExt

-------------------------------------------------------------------------------
(* The reducer of the OpenCode adapter (kaleido-adapter-opencode/src/reduce.rs):  *)
(* server-sent events of one shared server and snapshots of its history become    *)
(* effects.  Raw ids and the canonical ids minted from them are the same names;   *)
(* texts, sequence numbers, timestamps and diffs are left out.                    *)

(***************************************************************************)
(* What the server says                                                    *)
(***************************************************************************)
\* A part of a message; `kind` text, tool or step, `word` the state of a tool.
Part(id, kind, word) == [id |-> id, kind |-> kind, word |-> word]
NoPart == Part(None, None, None)
\* A message of the history; `parent` is the prompt an assistant answers.
Message(id, session, role, parent, done) ==
    [id |-> id, session |-> session, role |-> role, parent |-> parent, done |-> done,
     parts |-> <<>>]
NoMessage == Message(None, None, None, None, FALSE)

\* `id` is there for the events a server may repeat.
Event(type, session) ==
    [type |-> type, id |-> None, session |-> session, msg |-> NoMessage, of |-> None,
     part |-> NoPart, req |-> None, word |-> None]
MessageUpdated(m) == [Event("message.updated", m.session) EXCEPT !.msg = m]
PartUpdated(m, p) == [Event("message.part.updated", m.session) EXCEPT !.of = m.id, !.part = p]
PartDelta(m, p) == [Event("message.part.delta", m.session) EXCEPT !.of = m.id, !.part = p]
Asked(type, session, req, call) ==
    [Event(type, session) EXCEPT !.id = type, !.req = req, !.word = call]
Replied(type, session, req, word) ==
    [Event(type, session) EXCEPT !.id = type, !.req = req, !.word = word]

SessionEvents == {"session.created", "session.updated", "session.deleted"}
StatusEvents == {"session.status", "session.idle"}
MessageEvents == {"message.updated", "message.part.updated", "message.part.delta"}
PermissionAsks == {"permission.asked", "permission.v2.asked"}
PermissionReplies == {"permission.replied", "permission.v2.replied"}
QuestionAsks == {"question.asked", "question.v2.asked"}
QuestionRejections == {"question.rejected", "question.v2.rejected"}
QuestionReplies == {"question.replied", "question.v2.replied"} \cup QuestionRejections
SilentEvents == {"server.connected", "plugin.added", "session.next.prompt.admitted"}
IsSupportedEvent(type) ==
    type \in UNION {SessionEvents, StatusEvents, MessageEvents, PermissionAsks,
                    PermissionReplies, QuestionAsks, QuestionReplies, SilentEvents,
                    {"session.diff"}}

(***************************************************************************)
(* The reducer's state                                                     *)
(***************************************************************************)
NewReducer ==
    [sessions |-> <<>>, turns |-> <<>>, roots |-> <<>>, roles |-> <<>>, bound |-> <<>>,
     items |-> <<>>, attention |-> <<>>, answers |-> <<>>, controlled |-> {},
     seen |-> {}, proven |-> {}, bootstrapped |-> FALSE]

Without(f, id) == [x \in DOMAIN f \ {id} |-> f[x]]
Prove(rd, capabilities) == [rd EXCEPT !.proven = @ \cup capabilities]
Reduced(rd, es) == [rd |-> rd, es |-> es, ok |-> TRUE]
Refused(rd) == [rd |-> rd, es |-> <<>>, ok |-> FALSE]
\* One reduction after another; the first refusal is the result.
After(es, n) == [n EXCEPT !.es = IF n.ok THEN es \o @ ELSE @]
Then(r, next(_)) == IF ~r.ok THEN r ELSE After(r.es, next(r.rd))

SessionOf(rd, sid) == SessionEffect(sid, rd.sessions[sid].live, rd.sessions[sid].archived)
TurnOf(rd, t) == TurnEffect(t, rd.turns[t])
ItemOf(rd, i) ==
    ItemEffect(i, [session |-> rd.items[i].session, turn |-> rd.items[i].turn,
                   status |-> rd.items[i].status])
AttentionOfEntry(rd, a) ==
    AttentionEffect(a, [host |-> TheHost, project |-> TheProject] @@ rd.attention[a])
CapabilitiesOf(rd) == CapabilitiesEffect(rd.proven)

EnsureBootstrapped(rd) ==
    IF rd.bootstrapped THEN Reduced(rd, <<>>)
    ELSE Reduced([rd EXCEPT !.bootstrapped = TRUE],
                 <<HostEffect("LanDirect"), RuntimeEffect(TRUE, rd.proven), ProjectEffect>>)

\* A session is listed, not observed: whatever was known of it starts over.
ReduceSessionValue(rd, sid, archived) ==
    LET next == [rd EXCEPT !.sessions =
                   Put(@, sid, [live |-> "NotBound", archived |-> archived, active |-> None])]
    IN Reduced(next, <<SessionOf(next, sid)>>)

(***************************************************************************)
(* Messages and parts                                                      *)
(***************************************************************************)
ItemStatus(part) ==
    IF part.kind # "tool" THEN "Completed"
    ELSE CASE part.word = "pending" -> "Pending" [] part.word = "running" -> "InProgress"
           [] part.word = "completed" -> "Completed" [] part.word = "error" -> "Failed"

\* Parts without an item of their own are refused here; the live path skips the
\* boundaries of a step before it comes to this.
MakeItemFromPart(rd, part, sid, turn) ==
    LET item == [session |-> sid, turn |-> turn, kind |-> part.kind,
                 status |-> ItemStatus(part)]
        next == [rd EXCEPT !.items = Put(@, part.id, item)]
    IN IF part.kind \in {"text", "reasoning", "tool"}
       THEN Reduced(next, <<ItemOf(next, part.id)>>) ELSE Refused(rd)

\* The prompt a message belongs to, and the session that prompt was first seen in.
RootOf(rd, m) ==
    IF m.role = "user" THEN m.id
    ELSE IF Known(rd.roots, m.parent) THEN rd.roots[m.parent] ELSE m.parent
Bound(rd, root, sid) == [rd EXCEPT !.bound = IF Known(@, root) THEN @ ELSE Put(@, root, sid)]

\* An assistant message with an end ends the turn, and an ended turn stays so.
MessageTurnStatus(old, m) ==
    IF (m.role = "assistant" /\ m.done) \/ old.status = "Completed" THEN "Completed"
    ELSE "Running"

Listed(ids, id) == IF id \in Range(ids) THEN ids ELSE Append(ids, id)
\* A turn is created by the first message of its prompt, as the local surface's
\* unless it was admitted from here before.
MessageReduced(made, root, turn, sid) ==
    LET next == [made.rd EXCEPT
                   !.turns = Put(@, root, turn),
                   !.sessions[sid].active = IF turn.status = "Completed" THEN None ELSE root]
    IN IF ~made.ok THEN made
       ELSE Reduced(next, <<TurnOf(next, root)>> \o made.es \o <<SessionOf(next, sid)>>)
ReduceMessageValue(rd, m, sid) ==
    LET root == RootOf(rd, m)
        named == Bound([rd EXCEPT !.roots = Put(@, m.id, root), !.roles = Put(@, m.id, m.role)],
                       root, sid)
        old == IF Known(rd.turns, root) THEN rd.turns[root]
               ELSE [session |-> sid, status |-> "Running", origin |-> None, items |-> <<>>]
        turn == [old EXCEPT !.status = MessageTurnStatus(old, m),
                            !.items = FoldLeft(LAMBDA ids, p : Listed(ids, p.id), @, m.parts)]
        made == FoldLeft(LAMBDA r, p : Then(r, LAMBDA x : MakeItemFromPart(x, p, sid, root)),
                         Reduced(named, <<>>), m.parts)
    IN IF ~Known(rd.sessions, sid) THEN Refused(rd)
       ELSE IF named.bound[root] # sid THEN Refused(named)
       ELSE MessageReduced(made, root, turn, sid)

\* message.part.updated: the boundary of a step makes no item.
ReducePart(rd, e) ==
    LET root == rd.roots[e.of]
        made == MakeItemFromPart(rd, e.part, e.session, root)
        next == [made.rd EXCEPT !.turns[root].items = Listed(@, e.part.id)]
    IN IF e.part.kind = "step"
       THEN IF Known(rd.sessions, e.session) THEN Reduced(rd, <<>>) ELSE Refused(rd)
       ELSE IF ~Known(rd.roots, e.of) \/ ~Known(rd.roles, e.of) THEN Refused(rd)
       ELSE IF rd.bound[root] # e.session THEN Refused(rd)
       ELSE IF ~made.ok \/ ~Known(rd.turns, root) THEN Refused(made.rd)
       ELSE Reduced(next, <<TurnOf(next, root)>> \o made.es)

\* message.part.delta: more text of an item that is known.
ReduceDelta(rd, e) ==
    LET i == e.part.id
        next == [rd EXCEPT !.items[i].status = "InProgress"]
    IN IF ~Known(rd.sessions, e.session) \/ ~Known(rd.items, i) THEN Refused(rd)
       ELSE IF rd.items[i].session # e.session \/ rd.items[i].kind = "tool" THEN Refused(rd)
       ELSE Reduced(next, <<ItemOf(next, i)>>)

(***************************************************************************)
(* Permissions and questions                                               *)
(***************************************************************************)
\* The tool call an approval names is looked up among the items, which are named
\* by their parts.
ReducePermissionAsked(rd, e) ==
    LET entry == [session |-> e.session, turn |-> None, subject |-> "Approval", item |-> e.word,
                  join |-> IF Known(rd.items, e.word) THEN "Joined" ELSE "NotYetSeen",
                  open |-> TRUE, answer |-> None]
        next == [Prove(rd, {"InteractionApproval"}) EXCEPT !.attention = Put(@, e.req, entry)]
    IN Reduced(next, <<AttentionOfEntry(next, e.req), CapabilitiesOf(next)>>)

ReduceQuestionAsked(rd, e) ==
    LET entry == [session |-> e.session, turn |-> None, subject |-> "Question", item |-> None,
                  join |-> None, open |-> TRUE, answer |-> None]
        next == [Prove(rd, {"InteractionElicitation"}) EXCEPT !.attention = Put(@, e.req, entry)]
    IN Reduced(next, <<AttentionOfEntry(next, e.req), CapabilitiesOf(next)>>)

\* Whose answer it is: the command registered for the request, if there is one.
AnsweredBy(rd, req) == IF Known(rd.answers, req) THEN rd.answers[req] ELSE "external"
ReducePermissionReplied(rd, e) ==
    LET rest == [rd EXCEPT !.answers = Without(@, e.req)]
        next == [rest EXCEPT !.attention[e.req].open = FALSE,
                             !.attention[e.req].answer = AnsweredBy(rd, e.req)]
    IN IF ~Known(rd.sessions, e.session) THEN Refused(rd)
       ELSE IF ~Known(rd.attention, e.req) THEN Refused(rest)
       ELSE Reduced(next, <<AttentionOfEntry(next, e.req)>>)

\* A rejected question is cancelled, not answered.
ReduceQuestionReplied(rd, e) ==
    LET rest == [rd EXCEPT !.answers = Without(@, e.req)]
        next == [rest EXCEPT !.attention[e.req].open = FALSE,
                             !.attention[e.req].answer =
                               IF e.type \in QuestionRejections THEN None
                               ELSE AnsweredBy(rd, e.req)]
    IN IF ~Known(rd.sessions, e.session) \/ ~Known(rd.attention, e.req) THEN Refused(rd)
       ELSE Reduced(next, <<AttentionOfEntry(next, e.req)>>)

CanRegisterAnswer(rd, a) == Known(rd.attention, a) /\ rd.attention[a].open
RegisterLocalAttentionAnswer(rd, a, c) == [rd EXCEPT !.answers = Put(@, a, c)]
ForgetLocalAttentionAnswer(rd, a) == [rd EXCEPT !.answers = Without(@, a)]

(***************************************************************************)
(* One event                                                               *)
(***************************************************************************)
StatusFromValue(word) ==
    CASE word \in {"busy", "running"} -> "Running" [] word = "retry" -> "WaitingUser"
      [] word = "idle" -> "Idle"
ReduceStatus(rd, e) ==
    LET word == IF e.type = "session.idle" THEN "idle" ELSE e.word
        next == [rd EXCEPT !.sessions[e.session].active = IF word = "idle" THEN None ELSE @]
    IN IF ~Known(rd.sessions, e.session) THEN Refused(rd)
       ELSE Reduced(next, <<StatusEffect(e.session, StatusFromValue(word)),
                            SessionOf(next, e.session)>>)

ReduceProperties(rd, e) ==
    CASE e.type \in SilentEvents -> Reduced(rd, <<>>)
      [] e.type = "session.diff" ->
           IF Known(rd.sessions, e.session) THEN Reduced(rd, <<>>) ELSE Refused(rd)
      [] e.type \in SessionEvents ->
           ReduceSessionValue(rd, e.session, e.type = "session.deleted")
      [] e.type \in StatusEvents -> ReduceStatus(rd, e)
      [] e.type = "message.updated" -> ReduceMessageValue(rd, e.msg, e.session)
      [] e.type = "message.part.updated" -> ReducePart(rd, e)
      [] e.type = "message.part.delta" -> ReduceDelta(rd, e)
      [] e.type \in PermissionAsks -> ReducePermissionAsked(rd, e)
      [] e.type \in PermissionReplies -> ReducePermissionReplied(rd, e)
      [] e.type \in QuestionAsks -> ReduceQuestionAsked(rd, e)
      [] e.type \in QuestionReplies -> ReduceQuestionReplied(rd, e)

\* Only an event that was reduced counts as seen.
EventKey(e) == [type |-> e.type, req |-> e.req]
Noted(r, e) ==
    IF r.ok /\ e.id # None THEN [r EXCEPT !.rd.seen = @ \cup {EventKey(e)}] ELSE r
ReduceSseEvent(rd, e) ==
    IF EventKey(e) \in rd.seen THEN Reduced(rd, <<>>)
    ELSE IF ~IsSupportedEvent(e.type) THEN Refused(rd)
    ELSE Noted(Then(EnsureBootstrapped(rd),
                    LAMBDA x : ReduceProperties(Prove(x, {"LiveObserve"}), e)), e)

(***************************************************************************)
(* Live bindings                                                           *)
(***************************************************************************)
\* Observed once an event has come on this connection, controlled if a command
\* was accepted on it as well.
RefreshLiveBinding(rd, sid) ==
    LET live == IF sid \in rd.controlled THEN "Controlling" ELSE "Observing"
        next == [rd EXCEPT !.sessions[sid].live = live]
    IN IF "LiveObserve" \notin rd.proven THEN Reduced(rd, <<CapabilitiesOf(rd)>>)
       ELSE IF ~Known(rd.sessions, sid) THEN Reduced(rd, <<CapabilitiesOf(rd)>>)
       ELSE Reduced(next, <<CapabilitiesOf(next), SessionOf(next, sid)>>)
MarkLiveObserved(rd, sid) == RefreshLiveBinding(Prove(rd, {"LiveObserve"}), sid)

\* Every event of a session is a sign of life of that session.
IngestSse(rd, e) ==
    Then(ReduceSseEvent(rd, e),
         LAMBDA x : IF e.session = None THEN Reduced(x, <<>>)
                    ELSE MarkLiveObserved(x, e.session))

\* The server took a command for a session.
AcceptedCommand(rd, c, sid, prompt) ==
    LET next == [Prove(rd, {"LiveControl"} \cup (IF prompt THEN {"QueueWrite", "TurnPrompt"}
                                                ELSE {"TurnInterrupt"})) EXCEPT
                   !.controlled = @ \cup {sid}]
    IN Reduced(next, <<AckEffect(RuntimeAck(c, sid, prompt)), CapabilitiesOf(next)>>)
AdmitPromptTurn(rd, c, sid, message) ==
    LET next == [Bound(rd, message, sid) EXCEPT
                   !.roots = Put(@, message, message), !.roles = Put(@, message, "user"),
                   !.turns = Put(@, message, [session |-> sid, status |-> "Pending",
                                              origin |-> c, items |-> <<>>])]
    IN Reduced(next, <<TurnOf(next, message)>>)
IsActiveTurn(rd, sid, t) ==
    t # None /\ Known(rd.sessions, sid) /\ rd.sessions[sid].active = t

(***************************************************************************)
(* Snapshots and the end of a connection                                   *)
(***************************************************************************)
\* Sessions and their messages as the server lists them.
ReduceSnapshot(rd, sids, messages) ==
    LET boot == EnsureBootstrapped(rd)
        proven == Prove(boot.rd, {"HistoryList"} \cup
                                 (IF sids = <<>> THEN {} ELSE {"HistoryRead", "HistoryResume"}))
        listed == FoldLeft(LAMBDA r, s : Then(r, LAMBDA x : ReduceSessionValue(x, s, FALSE)),
                           [boot EXCEPT !.rd = proven], sids)
        read == FoldLeft(LAMBDA r, m : Then(r, LAMBDA x : ReduceMessageValue(x, m, m.session)),
                         listed, messages)
    IN Then(read, LAMBDA x : Reduced(x, <<CapabilitiesOf(x)>>))

ResetConnection(rd) == [rd EXCEPT !.proven = {}, !.controlled = {}]
\* Mutant: a connection that ends leaves the sessions bound.
BindingsOutlive(rd) ==
    LET next == ResetConnection(rd)
    IN Reduced(next, <<CapabilitiesOf(next)>>)
MarkConnectionUnavailable(rd) ==
    LET next == [ResetConnection(rd) EXCEPT
                   !.sessions = [s \in DOMAIN @ |-> [@[s] EXCEPT !.live = "NotBound"]]]
        told == SetToSeq(DOMAIN rd.sessions)
    IN Reduced(next, <<CapabilitiesOf(next)>> \o
                     [i \in DOMAIN told |-> SessionOf(next, told[i])])

-------------------------------------------------------------------------------
(* The worker and its runtime session                                            *)

CONSTANTS Prompts, Answers, Interrupts, Deliveries, Resumes,  \* commands, by kind
          Words,              \* decisions a device or another client may make
          Moves,              \* what the server and its other clients do
          MaxMessages,        \* prompts the server takes
          MaxEventsBeforeUnconfirmed,  \* 256 in the code
          FaultKinds,         \* which faults may happen
          MaxFaults           \* and how many of them together

VARIABLES srv,      \* the server: history, queued prompts, the turn it is in, the stream
          rd,       \* the reducer
          rt,       \* the runtime session and its worker
          call,     \* the call the worker waits in
          st,       \* the canonical state of the host, which survives a restart
          cmds,     \* what became of each command
          refused,  \* the store refused an effect the adapter built
          faults,
          seen      \* what the server really did
vars == <<srv, rd, rt, call, st, cmds, refused, faults, seen>>

SessionName == <<"s1", "s2">>
ForeignSession == "s3"
PromptName == <<"m1", "m2", "m3">>
FirstReply == <<"a1", "a2", "a3">>
SecondReply == <<"b1", "b2", "b3">>
PromptPart == <<"u1", "u2", "u3">>
TextPart == <<"x1", "x2", "x3">>
ToolPart == <<"i1", "i2", "i3">>
RequestName == <<"q1", "q2", "q3">>
Idle == [op |-> "idle", c |-> None, req |-> None, word |-> None, sid |-> None, n |-> 0,
         es |-> <<>>]
NewRuntime == [phase |-> "Down", connected |-> FALSE, raw |-> None]
Fault(kind) == kind \in FaultKinds /\ faults < MaxFaults /\ faults' = faults + 1

Init ==
    /\ srv = [sessions |-> <<>>, log |-> <<>>, queue |-> <<>>, turn |-> 0, at |-> "idle",
              sent |-> 0, ask |-> None, touched |-> FALSE, foreign |-> 0, out |-> <<>>,
              open |-> FALSE]
    /\ rd = NewReducer /\ rt = NewRuntime /\ call = Idle /\ st = EmptyState
    /\ cmds = [c \in Commands |-> "New"] /\ refused = FALSE /\ faults = 0
    /\ seen = [admitted |-> {}, aborted |-> {}, ended |-> {}, missed |-> {},
               answered |-> <<>>, failed |-> {}, heard |-> {}]

(***************************************************************************)
(* The server (external)                                                   *)
(***************************************************************************)
host == <<rd, rt, call, st, cmds, refused>>
Emits(s, es) == IF s.open THEN [s EXCEPT !.out = @ \o es] ELSE s
Reply == srv.log[Len(srv.log)]
WithReply(s, m) == [s EXCEPT !.log[Len(s.log)] = m]
AddPart(p) == WithReply(srv, [Reply EXCEPT !.parts = Append(@, p)])
ChangePart(p) ==
    WithReply(srv, [Reply EXCEPT !.parts =
                      [i \in DOMAIN @ |-> IF @[i].id = p.id THEN p ELSE @[i]]])
Bare(m) == [m EXCEPT !.parts = <<>>]

\* A prompt is queued under the name of the message it becomes.
CanQueue == srv.sent < MaxMessages
Queues(sid) == [srv EXCEPT !.sent = @ + 1,
                           !.queue = Append(@, [n |-> srv.sent + 1, session |-> sid])]
OtherClientPrompts ==
    /\ "prompt" \in Moves /\ CanQueue /\ srv.sessions # <<>>
    /\ srv' = Queues(srv.sessions[Len(srv.sessions)])
    /\ UNCHANGED <<host, faults, seen>>

ServerTakesPrompt ==
    /\ srv.turn = 0 /\ srv.queue # <<>>
    /\ LET q == srv.queue[1]
           user == [Message(PromptName[q.n], q.session, "user", None, FALSE) EXCEPT
                      !.parts = <<Part(PromptPart[q.n], "text", None)>>]
           reply == Message(FirstReply[q.n], q.session, "assistant", PromptName[q.n], FALSE)
       IN srv' = Emits([srv EXCEPT !.queue = Tail(@), !.turn = q.n, !.at = "begun",
                                   !.ask = None, !.touched = FALSE,
                                   !.log = @ \o <<user, reply>>],
                       <<Event("session.updated", q.session), MessageUpdated(Bare(user)),
                         PartUpdated(user, user.parts[1]),
                         [Event("session.status", q.session) EXCEPT !.word = "busy"],
                         MessageUpdated(reply)>>)
    /\ UNCHANGED <<host, faults, seen>>

ServerStartsStep ==
    /\ "step" \in Moves /\ srv.at = "begun"
    /\ LET p == Part("z", "step", None)
       IN srv' = Emits([AddPart(p) EXCEPT !.at = "stepped"], <<PartUpdated(Reply, p)>>)
    /\ UNCHANGED <<host, faults, seen>>
ServerStreamsText ==
    /\ "text" \in Moves /\ srv.at = "stepped"
    /\ LET p == Part(TextPart[srv.turn], "text", None)
       IN srv' = Emits([AddPart(p) EXCEPT !.at = "text"],
                       <<PartUpdated(Reply, p), PartDelta(Reply, p)>>)
    /\ UNCHANGED <<host, faults, seen>>
ServerRunsTool ==
    /\ "tool" \in Moves /\ srv.at = "stepped" /\ Reply.id = FirstReply[srv.turn]
    /\ LET p == Part(ToolPart[srv.turn], "tool", "running")
       IN srv' = Emits([AddPart(p) EXCEPT !.at = "tool"], <<PartUpdated(Reply, p)>>)
    /\ UNCHANGED <<host, faults, seen>>
\* The tool call of an approval has a name of its own, not that of the part.
ServerAsks(type) ==
    /\ "ask" \in Moves /\ srv.at = "tool"
    /\ srv' = Emits([srv EXCEPT !.at = "asked", !.ask = type],
                    <<Asked(type, Reply.session, RequestName[srv.turn], "call")>>)
    /\ UNCHANGED <<host, faults, seen>>
Denies(word) == word = "reject"
ReplyType(word) ==
    IF srv.ask = "permission.asked" THEN "permission.replied"
    ELSE IF Denies(word) THEN "question.rejected" ELSE "question.replied"
\* Whoever answers first: the request is settled and everyone is told.
Settles(word) ==
    Emits([srv EXCEPT !.at = IF Denies(word) THEN "denied" ELSE "allowed"],
          <<Replied(ReplyType(word), Reply.session, RequestName[srv.turn], word)>>)
OtherClientAnswers(word) ==
    /\ "answer" \in Moves /\ srv.at = "asked"
    /\ srv' = Settles(word)
    /\ seen' = [seen EXCEPT !.answered = Put(@, RequestName[srv.turn], "external"),
                            !.missed = IF srv.open THEN @ ELSE @ \cup {RequestName[srv.turn]}]
    /\ UNCHANGED <<host, faults>>
ServerEndsTool ==
    /\ srv.at \in {"tool", "allowed", "denied"}
    /\ LET p == Part(ToolPart[srv.turn], "tool",
                     IF srv.at = "denied" THEN "error" ELSE "completed")
       IN /\ srv' = Emits([ChangePart(p) EXCEPT !.at = "worked"], <<PartUpdated(Reply, p)>>)
          /\ seen' = IF p.word = "error" THEN [seen EXCEPT !.failed = @ \cup {p.id}] ELSE seen
    /\ UNCHANGED <<host, faults>>

\* An assistant message ends; after a tool another one may follow in the same turn.
ServerEndsMessage(more) ==
    /\ srv.at \in {"begun", "text", "worked", "aborted"}
    /\ more => "more" \in Moves /\ srv.at = "worked"
    /\ LET done == [Reply EXCEPT !.done = TRUE]
           text == SelectSeq(Reply.parts, LAMBDA p : p.id = TextPart[srv.turn])
           told == [i \in DOMAIN text |-> PartUpdated(Reply, text[i])]
                   \o <<MessageUpdated(Bare(done))>>
           next == Message(SecondReply[srv.turn], Reply.session, "assistant",
                           PromptName[srv.turn], FALSE)
           ended == WithReply(srv, done)
       IN IF more
          THEN /\ srv' = Emits([ended EXCEPT !.log = Append(@, next), !.at = "begun"],
                               Append(told, MessageUpdated(next)))
               /\ UNCHANGED seen
          ELSE /\ srv' = Emits([ended EXCEPT !.turn = 0, !.at = "idle"],
                               Append(told, [Event("session.status", Reply.session) EXCEPT
                                               !.word = "idle"]))
               /\ seen' = [seen EXCEPT !.ended = @ \cup {PromptName[srv.turn]},
                             !.missed = IF srv.open THEN @ ELSE @ \cup {PromptName[srv.turn]}]
    /\ UNCHANGED <<host, faults>>

\* The summary of a prompt is written later, once its turn may be over.
ServerTouchesPrompt ==
    /\ "touch" \in Moves /\ srv.log # <<>> /\ ~srv.touched
    /\ LET users == SelectSeq(srv.log, LAMBDA m : m.role = "user")
       IN srv' = Emits([srv EXCEPT !.touched = TRUE], <<MessageUpdated(Bare(users[Len(users)]))>>)
    /\ UNCHANGED <<host, faults, seen>>

\* Another client opens a session of its own and prompts there.
OtherClientWorks ==
    /\ "foreign" \in Moves /\ srv.sessions # <<>> /\ srv.foreign < 2
    /\ LET m == Message("f1", ForeignSession, "user", None, FALSE)
       IN srv' = IF srv.foreign = 0
                 THEN Emits([srv EXCEPT !.foreign = 1, !.sessions = <<ForeignSession>> \o @],
                            <<Event("session.created", ForeignSession)>>)
                 ELSE Emits([srv EXCEPT !.foreign = 2, !.log = <<m>> \o @], <<MessageUpdated(m)>>)
    /\ UNCHANGED <<host, faults, seen>>

\* The stream: closed by the network, an event twice, or one nobody knows.
StreamBreaks ==
    /\ Fault("drop") /\ srv.open
    /\ srv' = [srv EXCEPT !.open = FALSE]
    /\ UNCHANGED <<host, seen>>
StreamRepeats ==
    /\ Fault("repeat") /\ srv.at \in {"asked", "allowed", "denied"} /\ srv.open
    /\ srv' = Emits(srv, <<Asked(srv.ask, Reply.session, RequestName[srv.turn], "call")>>)
    /\ UNCHANGED <<host, seen>>
StreamSaysUnknown ==
    /\ Fault("unknown") /\ srv.open
    /\ srv' = Emits(srv, <<Event("todo.updated", None)>>)
    /\ UNCHANGED <<host, seen>>

(***************************************************************************)
(* Starting, reading and reconnecting                                      *)
(***************************************************************************)
Commits(done) == st' = done.state /\ refused' = (refused \/ ~done.ok)
Applies(es) == Commits(ApplyEffects(st, es))
MessagesOf(sid) == SelectSeq(srv.log, LAMBDA m : m.session = sid)

\* The session the worker creates for itself.
Opens(sid, own) ==
    /\ rd' = own.rd /\ srv' = [srv EXCEPT !.sessions = Append(@, sid)]
    /\ call' = [Idle EXCEPT !.op = "start", !.sid = sid, !.es = own.es]
    /\ UNCHANGED rt
\* What the server has is discovered and applied, then a session is created and
\* read; the subscription comes after.
StartWorker ==
    /\ rt.phase = "Down" /\ call = Idle
    /\ \E k \in DOMAIN SessionName :
         /\ SessionName[k] \notin Range(srv.sessions)
         /\ \A j \in 1..(k - 1) : SessionName[j] \in Range(srv.sessions)
         /\ \E found \in {ReduceSnapshot(rd, srv.sessions, srv.log)} :
            \E done \in {ApplyEffects(st, found.es)} :
               /\ Commits(done)
               /\ IF ~found.ok \/ ~done.ok
                  THEN rt' = [rt EXCEPT !.phase = "Failed"] /\ rd' = found.rd /\ UNCHANGED <<srv, call>>
                  ELSE Opens(SessionName[k], ReduceSnapshot(found.rd, <<SessionName[k]>>, <<>>))
    /\ seen' = [seen EXCEPT !.missed = {}, !.heard = {}]
    /\ UNCHANGED <<cmds, faults>>

\* resume: one session and its messages are read again.
Resumed(reducer, sid) == ReduceSnapshot(ResetConnection(reducer), <<sid>>, MessagesOf(sid))
ReadAgain(reducer, op, c, sid) ==
    \E r \in {Resumed(reducer, sid)} :
       /\ rd' = r.rd /\ srv' = [srv EXCEPT !.open = FALSE, !.out = <<>>]
       /\ rt' = [rt EXCEPT !.connected = FALSE]
       /\ IF r.ok THEN /\ call' = [Idle EXCEPT !.op = op, !.c = c, !.sid = sid, !.es = r.es]
                       /\ seen' = [seen EXCEPT !.missed = @ \ {m.id : m \in Range(srv.log)},
                                              !.heard = {}]
          ELSE UNCHANGED <<call, seen>>

\* Only now the tail is open; it begins with an event of no session.
Subscribe ==
    /\ call.op \in {"start", "reconnect", "resume"}
    /\ srv' = [srv EXCEPT !.open = TRUE, !.out = <<Event("server.connected", None)>>]
    /\ \E done \in {ApplyEffects(st, call.es)} :
         /\ rt' = [rt EXCEPT !.connected = TRUE, !.raw = call.sid,
                             !.phase = IF call.op = "start" /\ ~done.ok THEN "Failed" ELSE "Up"]
         /\ Commits(done)
    /\ call' = Idle
    /\ cmds' = IF call.op # "resume" THEN cmds
               ELSE [cmds EXCEPT ![call.c] = IF ClosesRoute(call.es, "resume", call.c, call.sid, None)
                                             THEN "Done" ELSE "Uncertain"]
    /\ UNCHANGED <<rd, faults, seen>>
\* The effects of the snapshot are lost with the call.
SubscribeFails ==
    /\ Fault("down") /\ call.op \in {"start", "reconnect", "resume"}
    /\ call' = Idle
    /\ rt' = IF call.op = "start" THEN [rt EXCEPT !.phase = "Failed"] ELSE rt
    /\ cmds' = IF call.op = "resume" THEN [cmds EXCEPT ![call.c] = "Uncertain"] ELSE cmds
    /\ UNCHANGED <<srv, rd, st, refused, seen>>

Hears(e) == seen' = [seen EXCEPT !.heard = @ \cup {e.session}]
\* One event at a time.
DrainEffects ==
    /\ call = Idle /\ rt.phase = "Up" /\ rt.connected /\ srv.out # <<>>
    /\ \E r \in {IngestSse(rd, srv.out[1])} : r.ok /\ rd' = r.rd /\ Applies(r.es)
    /\ srv' = [srv EXCEPT !.out = Tail(@)] /\ Hears(srv.out[1])
    /\ UNCHANGED <<rt, call, cmds, faults>>

\* An event that is refused, the end of the stream, or still no connection: the
\* loss is published and the session read again.
Reconnects ==
    /\ call = Idle /\ rt.phase = "Up"
    /\ rt.connected /\ srv.out = <<>> => ~srv.open
    /\ \E r \in {IF rt.connected /\ srv.out # <<>> THEN IngestSse(rd, srv.out[1]) ELSE Refused(rd)} :
       \E lost \in {MarkConnectionUnavailable(r.rd)} :
         ~r.ok /\ Applies(lost.es) /\ ReadAgain(lost.rd, "reconnect", None, rt.raw)
    /\ UNCHANGED <<cmds, faults>>

(***************************************************************************)
(* Commands                                                                *)
(***************************************************************************)
\* A command of a device for the worker's session: taken, then claimed.
Routed(c) == call = Idle /\ rt.phase = "Up" /\ cmds[c] = "New"
Claimed(c) == CommandAcknowledged(st, LocalAck(c, rt.raw))
Becomes(c, outcome) == cmds' = [cmds EXCEPT ![c] = outcome]
FailsAtOnce(c) ==
    Becomes(c, "Uncertain") /\ st' = Claimed(c) /\ UNCHANGED <<srv, rd, rt, call, refused, seen>>
Concludes(c, done) == Commits(done) /\ Becomes(c, IF done.ok THEN "Done" ELSE "Uncertain")
FinishDispatch(c, op, req, es) ==
    IF ~ClosesRoute(es, op, c, rt.raw, req)
    THEN Becomes(c, "Uncertain") /\ st' = Claimed(c) /\ UNCHANGED refused
    ELSE Concludes(c, ApplyEffects(Claimed(c), es))

\* How a request ends: taken and answered, taken with the answer lost, refused,
\* or not known to an older server.
Outcome(how) == IF how = "ok" THEN UNCHANGED faults ELSE Fault(how)

Admission(c) ==
    LET turn == AdmitPromptTurn(rd, c, rt.raw, PromptName[srv.sent + 1])
    IN Then(turn, LAMBDA x : AcceptedCommand(x, c, rt.raw, TRUE))
\* Admitted under the name of its message, or handed to the older route, which
\* says nothing of what becomes of it.
SubmitPrompt(c, how) ==
    /\ c \in Prompts /\ Routed(c) /\ Outcome(how)
    /\ IF ~rt.connected \/ how = "refuse" THEN FailsAtOnce(c)
       ELSE /\ CanQueue /\ srv' = Queues(rt.raw) /\ UNCHANGED <<rt, call>>
            /\ seen' = [seen EXCEPT !.admitted = IF how = "old" THEN @ ELSE
                          @ \cup {[c |-> c, turn |-> PromptName[srv.sent + 1]]}]
            /\ \E r \in {IF how # "ok" THEN Reduced(rd, <<>>)
                       ELSE Then(Admission(c), LAMBDA x : RefreshLiveBinding(x, rt.raw))} :
                 rd' = r.rd /\ FinishDispatch(c, "prompt", None, r.es)

\* A queued prompt goes out once the store shows no turn; the entry is claimed
\* first, and ends with the turn it became.
DeliverQueueEntry(c, how) ==
    /\ c \in Deliveries /\ Routed(c) /\ Outcome(how)
    /\ st.sessions[rt.raw].activeTurn = None
    /\ LET entry == [session |-> rt.raw, pending |-> FALSE, position |-> 0]
           turn == AdmitPromptTurn(Prove(rd, {"QueueWrite", "TurnPrompt"}), c, rt.raw,
                                   PromptName[srv.sent + 1])
           es == turn.es \o <<EntryEffect(c, entry), CapabilitiesOf(turn.rd)>>
       IN \E claimed \in {RecomputeDerived(QueueEntryUpserted(st, c, entry))} :
          IF ~rt.connected \/ how = "refuse"
          THEN st' = claimed /\ Becomes(c, "Uncertain") /\ UNCHANGED <<srv, rd, refused, seen>>
          ELSE /\ CanQueue /\ srv' = Queues(rt.raw)
               /\ seen' = [seen EXCEPT !.admitted =
                             @ \cup {[c |-> c, turn |-> PromptName[srv.sent + 1]]}]
               /\ IF how = "ok"
                  THEN rd' = turn.rd /\ Concludes(c, ApplyEffects(claimed, es))
                  ELSE st' = claimed /\ Becomes(c, "Uncertain") /\ UNCHANGED <<rd, refused>>
    /\ how # "old" /\ UNCHANGED <<rt, call>>

\* Mutant: the command is acknowledged before the request is answered.
AcksBeforeAbort(c, t, how) ==
    /\ c \in Interrupts /\ Routed(c) /\ Outcome(how) /\ how # "old"
    /\ Known(st.turns, t) /\ st.turns[t].session = rt.raw /\ ~Terminal(st.turns[t])
    /\ LET r == Then(AcceptedCommand(rd, c, rt.raw, FALSE),
                     LAMBDA x : RefreshLiveBinding(x, rt.raw))
       IN IF ~rt.connected \/ ~IsActiveTurn(rd, rt.raw, t) THEN FailsAtOnce(c)
          ELSE /\ srv' = IF srv.turn = 0 THEN srv ELSE [srv EXCEPT !.at = "aborted"]
               /\ seen' = IF how = "refuse" THEN seen
                          ELSE [seen EXCEPT !.aborted = @ \cup {[c |-> c, turn |-> t, hit |-> srv.turn]}]
               /\ rd' = r.rd /\ FinishDispatch(c, "interrupt", None, r.es)
               /\ UNCHANGED <<rt, call>>
\* Whatever the session is doing is aborted, if the turn is the one the reducer
\* takes for the active one.
InterruptTurn(c, t, how) ==
    /\ c \in Interrupts /\ Routed(c) /\ Outcome(how) /\ how # "old"
    /\ Known(st.turns, t) /\ st.turns[t].session = rt.raw /\ ~Terminal(st.turns[t])
    /\ LET r == Then(AcceptedCommand(rd, c, rt.raw, FALSE),
                     LAMBDA x : RefreshLiveBinding(x, rt.raw))
       IN IF ~rt.connected \/ ~IsActiveTurn(rd, rt.raw, t) \/ how = "refuse" THEN FailsAtOnce(c)
          ELSE /\ srv' = IF srv.turn = 0 THEN srv ELSE [srv EXCEPT !.at = "aborted"]
               /\ seen' = [seen EXCEPT !.aborted = @ \cup {[c |-> c, turn |-> t, hit |-> srv.turn]}]
               /\ \E done \in {IF how = "ok" THEN r ELSE Reduced(rd, <<>>)} :
                    rd' = done.rd /\ FinishDispatch(c, "interrupt", None, done.es)
               /\ UNCHANGED <<rt, call>>

ResumeSession(c, sid) ==
    /\ c \in Resumes /\ Routed(c) /\ Known(st.sessions, sid)
    /\ IF ~Known(rd.sessions, sid) THEN FailsAtOnce(c)
       ELSE /\ ReadAgain(rd, "resume", c, sid) /\ st' = Claimed(c) /\ UNCHANGED refused
            /\ Becomes(c, IF call' # Idle THEN "Claimed" ELSE "Uncertain")
    /\ UNCHANGED faults

\* The answer is registered, sent, and then waited for on the stream.  A request
\* that fails, or that somebody else has settled, leaves it registered.
RespondAttention(c, a, word, how) ==
    /\ c \in Answers /\ Routed(c) /\ Outcome(how) /\ how # "old"
    /\ Known(st.attention, a) /\ Open(st, a)
    /\ \A o \in Answers : cmds[o] \notin {"Claimed", "Uncertain"}
    /\ Known(rd.attention, a) /\ rd.attention[a].subject = "Question" => ~Denies(word)
    /\ LET registered == RegisterLocalAttentionAnswer(rd, a, c)
           waits == srv.at = "asked" /\ RequestName[srv.turn] = a
           taken == waits /\ how # "refuse"
       IN IF ~rt.connected \/ ~CanRegisterAnswer(rd, a) \/ rd.attention[a].session # rt.raw
          THEN FailsAtOnce(c)
          ELSE /\ srv' = IF taken THEN Settles(word) ELSE srv
               /\ seen' = IF taken THEN [seen EXCEPT !.answered = Put(@, a, c)] ELSE seen
               /\ rd' = registered /\ st' = Claimed(c) /\ UNCHANGED <<rt, refused>>
               /\ IF taken /\ how = "ok"
                  THEN /\ call' = [Idle EXCEPT !.op = "answer", !.c = c, !.req = a, !.word = word]
                       /\ Becomes(c, "Claimed")
                  ELSE Becomes(c, "Uncertain") /\ UNCHANGED call

\* What was read while waiting is lost with the wait.
WaitFails(reducer) ==
    /\ rd' = ForgetLocalAttentionAnswer(reducer, call.req) /\ call' = Idle
    /\ Becomes(call.c, "Uncertain") /\ UNCHANGED <<st, refused>>
IsReceipt(e) ==
    e.type \in PermissionReplies \cup QuestionReplies /\ e.req = call.req /\ e.session = rt.raw
ConfirmsExactly(e) == e.word = call.word /\ e.type \notin QuestionRejections
AwaitConfirmation ==
    /\ call.op = "answer" /\ srv.out # <<>> /\ call.n < MaxEventsBeforeUnconfirmed
    /\ \E e \in {srv.out[1]} : \E r \in {IngestSse(rd, e)} :
       LET es == call.es \o r.es
           answered == \E i \in DOMAIN r.es : /\ r.es[i].kind = "Attention" /\ r.es[i].id = call.req
                                              /\ r.es[i].item.answer = call.c
       IN IF ~IsSupportedEvent(e.type) \/ (IsReceipt(e) /\ ~ConfirmsExactly(e)) THEN WaitFails(rd)
          ELSE IF ~r.ok \/ (IsReceipt(e) /\ ~answered) THEN WaitFails(r.rd)
          ELSE IF ~IsReceipt(e)
          THEN /\ rd' = r.rd /\ call' = [call EXCEPT !.n = @ + 1, !.es = es]
               /\ UNCHANGED <<st, cmds, refused>>
          ELSE rd' = r.rd /\ call' = Idle /\ Concludes(call.c, ApplyEffects(st, es))
    /\ srv' = [srv EXCEPT !.out = Tail(@)] /\ Hears(srv.out[1])
    /\ UNCHANGED <<rt, faults>>
AwaitEnds ==
    /\ call.op = "answer"
    /\ \/ (srv.out = <<>> /\ ~srv.open) /\ UNCHANGED faults
       \/ call.n = MaxEventsBeforeUnconfirmed /\ UNCHANGED faults
       \/ Fault("timeout")
    /\ WaitFails(rd) /\ UNCHANGED <<srv, rt, seen>>

(***************************************************************************)
(* The host                                                                *)
(***************************************************************************)
HostRestarts ==
    /\ Fault("restart") /\ rt.phase # "Down"
    /\ srv' = [srv EXCEPT !.open = FALSE, !.out = <<>>]
    /\ rd' = NewReducer /\ rt' = NewRuntime /\ call' = Idle
    /\ cmds' = [c \in Commands |-> IF cmds[c] = "Claimed" THEN "Uncertain" ELSE cmds[c]]
    /\ UNCHANGED <<st, refused, seen>>
\* Closing says nothing about the sessions.
CloseWorker ==
    /\ Fault("close") /\ call = Idle /\ rt.phase = "Up" /\ rt.connected
    /\ srv' = [srv EXCEPT !.open = FALSE, !.out = <<>>]
    /\ rt' = [rt EXCEPT !.connected = FALSE, !.phase = "Closed"]
    /\ UNCHANGED <<rd, call, st, cmds, refused, seen>>

Next ==
    \/ OtherClientPrompts \/ ServerTakesPrompt \/ ServerStartsStep \/ ServerStreamsText
    \/ ServerRunsTool \/ ServerEndsTool \/ ServerTouchesPrompt \/ OtherClientWorks
    \/ \E type \in {"permission.asked", "question.asked"} : ServerAsks(type)
    \/ \E word \in Words : OtherClientAnswers(word)
    \/ \E more \in BOOLEAN : ServerEndsMessage(more)
    \/ StreamBreaks \/ StreamRepeats \/ StreamSaysUnknown
    \/ StartWorker \/ Subscribe \/ SubscribeFails \/ DrainEffects \/ Reconnects
    \/ AwaitConfirmation \/ AwaitEnds \/ HostRestarts \/ CloseWorker
    \/ \E c \in Commands, how \in {"ok", "lost", "refuse", "old"} :
         \/ SubmitPrompt(c, how) \/ DeliverQueueEntry(c, how)
         \/ \E t \in Turns : InterruptTurn(c, t, how)
         \/ \E a \in Attentions, word \in Words : RespondAttention(c, a, word, how)
    \/ \E c \in Commands, sid \in Sessions : ResumeSession(c, sid)
Spec == Init /\ [][Next]_vars

(***************************************************************************)
(* Properties                                                              *)
(***************************************************************************)
\* A registered answer belongs to a request the reducer still has open: the
\* receipt that settles the request uses the registration up, whoever answered
\* (reduce_permission_replied, reduce_question_replied).
TypeOK ==
    /\ rt.phase \in {"Down", "Up", "Failed", "Closed"}
    /\ \A c \in Commands : cmds[c] \in {"New", "Claimed", "Done", "Uncertain"}
    /\ {c \in Commands : cmds[c] = "Claimed"} = {call.c} \ {None}
    /\ \A a \in DOMAIN rd.answers : rd.attention[a].open

\* PROTOCOL 4.4: a turn carries a command as its origin only if the server has
\* admitted that command under the name of this message (admit_prompt_turn).
OriginsAreTrue ==
    \A t \in DOMAIN st.turns :
        st.turns[t].origin # None => [c |-> st.turns[t].origin, turn |-> t] \in seen.admitted

\* ADR-0026 D-3: a prompt is acknowledged only by the durable admission and an
\* interrupt only by a successful abort (submit_prompt, interrupt_turn).
AcksAreTrue ==
    \A ack \in st.acks :
        ack.outcome = "AcceptedByRuntime" =>
            IF ack.prompt THEN \E x \in seen.admitted : x.c = ack.command
            ELSE \E x \in seen.aborted : x.c = ack.command

\* An interrupt that the server is said to have accepted has ended the turn it
\* names, not the one after it.
InterruptsHitTheirTurn ==
    \A x \in seen.aborted :
        (\E ack \in st.acks : ack.command = x.c /\ ack.outcome = "AcceptedByRuntime") =>
            x.hit = 0 \/ PromptName[x.hit] = x.turn

\* The store never refuses an effect the adapter builds: a turn comes before its
\* items, capabilities before the binding that needs them (ingest_sse and the
\* effect lists of runtime.rs).
EffectsAreAccepted == ~refused

\* PROTOCOL 4.3: a session is shown as observed or controlled only while this
\* connection lasts, as controlled only with both capabilities, and never from a
\* snapshot alone (refresh_live_binding, mark_connection_unavailable).
Live == {sid \in DOMAIN st.sessions : st.sessions[sid].live # "NotBound"}
BindingsAreLive ==
    (rt.phase = "Up" /\ rt.connected /\ call = Idle) => \A sid \in Live :
        /\ "LiveObserve" \in RuntimeOf(st, sid).caps
        /\ st.sessions[sid].live = "Controlling" => "LiveControl" \in RuntimeOf(st, sid).caps

\* A session is shown as observed only after an event about this session has
\* come on this connection.
LiveIsHeard == (rt.phase = "Up" /\ rt.connected /\ call = Idle) => Live \subseteq seen.heard

\* With everything read, a turn the server has ended is shown as ended and has
\* no item in progress, and a tool that failed is not shown as completed; what
\* ended between a snapshot and the tail is excepted, as ADR-0026 D-4 says
\* (reduce_message_value, make_item_from_part, reduce_snapshot).
Settled == rt.phase = "Up" /\ rt.connected /\ call = Idle /\ srv.open /\ srv.out = <<>>
ReadTurnsEnd ==
    Settled =>
        /\ \A t \in (seen.ended \ seen.missed) \cap DOMAIN st.turns :
             Terminal(st.turns[t]) /\ \A i \in DOMAIN st.items :
                st.items[i].turn = t => st.items[i].status # "InProgress"
        /\ \A i \in seen.failed \cap DOMAIN st.items : st.items[i].status # "Completed"

\* PROTOCOL 4.6: an entry that was answered stays answered, by the same answer,
\* also when the stream repeats an event (seen_events).
AnswersStay ==
    [][\A a \in DOMAIN st.attention :
          ~st.attention[a].open => st'.attention[a] = st.attention[a]]_vars

\* The answer shown is that of whoever answered at the server: the command that
\* did, or somebody else.
AnswersAreTrue ==
    \A a \in DOMAIN st.attention :
        st.attention[a].answer # None => st.attention[a].answer = seen.answered[a]

\* A request that was settled at the server while the stream was open, and whose
\* receipt has been read, is not shown as open.
AnswersAreShown ==
    Settled => \A a \in DOMAIN seen.answered \cap DOMAIN st.attention :
                   a \notin seen.missed => ~st.attention[a].open

\* What the server lists can be read, whatever it has done: the snapshot that a
\* reconnect needs is never refused.
HistoryIsReadable ==
    \A sid \in DOMAIN rd.sessions \cap Range(srv.sessions) : Resumed(rd, sid).ok

\* A turn is shown as completed only when the server is done with it.
CompletedTurnsAreOver ==
    \A t \in DOMAIN st.turns : st.turns[t].status = "Completed" => t \in seen.ended

\* A host that starts again finds what the server has and goes on from there.
HistoryIsDiscovered == rt.phase # "Failed"

\* A session that was closed is not shown as observed or controlled.
ClosedIsNotLive == rt.phase = "Closed" => Live = {}

\* Without a connection no session is shown as anything but offline.
LostIsOffline ==
    (rt.phase = "Up" /\ ~rt.connected) =>
        \A sid \in DOMAIN st.sessions : st.sessions[sid].status = "Offline"
=============================================================================
