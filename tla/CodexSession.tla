----------------------------- MODULE CodexSession -----------------------------
(* A Codex runtime as the host runs it: the runtime worker of the supervisor      *)
(* (kaleido-hostd/src/runtime.rs) with its CodexRuntimeSession                    *)
(* (kaleido-adapter-codex/src/runtime.rs) and the app-server process between two  *)
(* pipes (process.rs).  The server is external: it does what the recorded         *)
(* conversations show.  The worker is one thread, but the server runs while a     *)
(* call waits, and outlives a call that gave up.                                  *)
EXTENDS CanonicalState
LOCAL INSTANCE SequencesExt

-------------------------------------------------------------------------------
(* The reducer of the Codex adapter (kaleido-adapter-codex/src/reduce.rs).  It    *)
(* decodes both directions of one app-server connection: the calls and replies    *)
(* the host writes and the responses, requests and notifications it reads.  Raw   *)
(* ids and the canonical ids minted from them are the same names; texts,          *)
(* sequence numbers and timestamps are left out, and so are diagnostics, which    *)
(* touch no other state.                                                          *)

(***************************************************************************)
(* Frames                                                                  *)
(***************************************************************************)
Frame(kind) ==
    [kind |-> kind, id |-> 0, thread |-> None, turn |-> None, item |-> None,
     req |-> None, word |-> None]
\* Written by the host.
Call(id, method, c) == [Frame("call") EXCEPT !.id = id, !.word = method, !.req = c]
Reply(id, decision) == [Frame("reply") EXCEPT !.id = id, !.word = decision]
\* Read from the server.
Response(id, thread, turn, word) ==
    [Frame("response") EXCEPT !.id = id, !.thread = thread, !.turn = turn, !.word = word]
ApprovalFrame(id, thread, turn, item, req) ==
    [Frame("approval") EXCEPT !.id = id, !.thread = thread, !.turn = turn, !.item = item,
                              !.req = req]
Notification(method, thread, turn, item, word) ==
    [Frame(method) EXCEPT !.thread = thread, !.turn = turn, !.item = item, !.word = word]

(***************************************************************************)
(* The reducer's state                                                     *)
(***************************************************************************)
NewReducer ==
    [calls |-> <<>>, control |-> <<>>, approvals |-> <<>>, sid |-> None, live |-> None,
     origins |-> <<>>, items |-> <<>>, attention |-> <<>>, answers |-> <<>>,
     locally |-> {}, proven |-> {}, published |-> {}, bootstrapped |-> FALSE,
     ended |-> FALSE]

Without(f, id) == [x \in DOMAIN f \ {id} |-> f[x]]
Prove(rd, capabilities) == [rd EXCEPT !.proven = @ \cup capabilities]
Reduced(rd, es) == [rd |-> rd, es |-> es, ok |-> TRUE]
RefusedFrame(rd) == [rd |-> rd, es |-> <<>>, ok |-> FALSE]

\* One command for one request id, and never the same command twice.
CanRegisterTurnStart(rd, id, c) ==
    ~Known(rd.control, id) /\ \A other \in DOMAIN rd.control : rd.control[other] # c
RegisterLocalTurnStart(rd, id, c) == [rd EXCEPT !.control = Put(@, id, c)]
CancelLocalTurnStart(rd, id) == [rd EXCEPT !.control = Without(@, id)]

\* The server's request ids and the host's are different numbers in different maps.
RequestIdsFor(rd, a) == {id \in DOMAIN rd.approvals : rd.approvals[id] = a}
CanRegisterAnswer(rd, a) == RequestIdsFor(rd, a) # {} /\ ~Known(rd.answers, a)
RegisterLocalAnswer(rd, a, c, option) ==
    [rd EXCEPT !.answers = Put(@, a, [c |-> c, option |-> option])]
ForgetLocalAnswer(rd, a) == [rd EXCEPT !.answers = Without(@, a)]

(***************************************************************************)
(* Effects the reducer builds                                              *)
(***************************************************************************)
SessionOf(rd) == SessionEffect(rd.sid, rd.live, FALSE)
AttentionOfEntry(rd, a) ==
    AttentionEffect(a, [host |-> TheHost, project |-> TheProject] @@ rd.attention[a])

EnsureBootstrapped(rd) ==
    IF rd.bootstrapped THEN Reduced(rd, <<>>)
    ELSE Reduced([rd EXCEPT !.bootstrapped = TRUE],
                 <<HostEffect("Offline"), RuntimeEffect(TRUE, rd.proven)>>)

\* thread/start was answered: this is the session, observed live.
BootstrapSession(rd, f) ==
    LET proven == Prove(rd, {"TurnPrompt", "StateToolLifecycle", "LiveObserve"})
        next == [proven EXCEPT !.sid = f.thread, !.live = "Observing",
                               !.published = proven.proven]
    IN Reduced(next, <<CapabilitiesEffect(next.proven), ProjectEffect, SessionOf(next)>>)

TurnStatus(raw) ==
    CASE raw = "inProgress" -> "Running" [] raw = "completed" -> "Completed"
      [] raw = "failed" -> "Failed" [] raw = "interrupted" -> "Cancelled"
ItemStatus(raw) ==
    CASE raw = "inProgress" -> "InProgress" [] raw = "completed" -> "Completed"
      [] raw = "declined" -> "Declined" [] raw = "failed" -> "Failed"
\* Items other than a file change only start and complete.
LifecycleStatus(method) == IF method = "item/started" THEN "InProgress" ELSE "Completed"

DecodeItemBody(f) == IF f.word = None THEN LifecycleStatus(f.kind) ELSE ItemStatus(f.word)

\* What the pinned surface can read, and the thread it has to be about.
Decodable(f) == f.word # "unmodelled"
BoundSession(rd, f) == rd.sid # None /\ f.thread = rd.sid
\* An item keeps the turn it was first seen in.
BoundTurn(rd, f) == IF Known(rd.items, f.item) THEN rd.items[f.item].turn ELSE f.turn

TurnOf(rd, turn, status, origin) ==
    TurnEffect(turn, [session |-> rd.sid, status |-> status, origin |-> origin, items |-> <<>>])

(***************************************************************************)
(* Responses to the host's calls                                           *)
(***************************************************************************)
ReduceTurnCreated(rd, f, origin) ==
    IF rd.sid = None THEN RefusedFrame(rd)
    ELSE Reduced([rd EXCEPT !.origins = Put(@, f.turn, origin)],
                 <<TurnOf(rd, f.turn, TurnStatus(f.word), origin)>>)

\* The runtime took a command: acknowledge it, then control the session.
RuntimeAcceptance(rd, c) ==
    LET proven == Prove(rd, {"LiveControl"})
        next == [proven EXCEPT !.live = "Controlling"]
        ack == AckEffect(RuntimeAck(c, rd.sid, TRUE))
    IN IF rd.live \notin {"Observing", "Controlling"} THEN RefusedFrame(rd)
       ELSE IF rd.live = "Controlling" THEN Reduced(proven, <<ack>>)
       ELSE Reduced(next, <<ack, SessionOf(next)>>)

\* Mutant: an error is an answer too.
ErrorsAccept(rd, f) ==
    LET c == IF Known(rd.control, f.id) THEN rd.control[f.id] ELSE None
        rest == [rd EXCEPT !.calls = Without(@, f.id), !.control = Without(@, f.id)]
        word == IF f.word = "error" THEN "failed" ELSE f.word
        turn == IF f.turn = None THEN "t3" ELSE f.turn
        created == ReduceTurnCreated(rest, [f EXCEPT !.word = word, !.turn = turn], c)
        accepted == RuntimeAcceptance(created.rd, c)
    IN IF c = None \/ ~created.ok THEN created ELSE [accepted EXCEPT !.es = created.es \o @]
\* turn/start was answered.  Without a registered command the turn belongs to
\* the local surface.
ReduceTurnStart(rd, f) ==
    LET c == IF Known(rd.control, f.id) THEN rd.control[f.id] ELSE None
        rest == [rd EXCEPT !.calls = Without(@, f.id), !.control = Without(@, f.id)]
        created == ReduceTurnCreated(rest, f, c)
        accepted == RuntimeAcceptance(created.rd, c)
    IN IF f.word = "error"
       THEN Reduced(rest, IF c = None THEN <<>> ELSE <<AckEffect(RejectedAck(c, rd.sid))>>)
       ELSE IF c = None \/ ~created.ok THEN created
       ELSE [accepted EXCEPT !.es = created.es \o @]

ReduceClientResponse(rd, f) ==
    LET method == IF Known(rd.calls, f.id) THEN rd.calls[f.id] ELSE None
    IN CASE method = "thread/start" ->
              BootstrapSession([rd EXCEPT !.calls = Without(@, f.id)], f)
         [] method = "turn/start" -> ReduceTurnStart(rd, f)
         [] OTHER -> Reduced([rd EXCEPT !.calls = Without(@, f.id)], <<>>)

(***************************************************************************)
(* Approvals: an entry joined to the item it is about, if that was seen    *)
(***************************************************************************)
JoinFor(rd, turn, item) ==
    IF ~Known(rd.items, item) THEN "NotYetSeen"
    ELSE IF rd.items[item].turn # turn THEN "ScopeMismatch" ELSE "Joined"

\* The entries change; those answered from here are not published again.
Joins(rd, changed, join) ==
    LET next == [rd EXCEPT !.attention =
                   [a \in DOMAIN @ |-> IF a \in changed THEN [@[a] EXCEPT !.join = join[a]]
                                       ELSE @[a]]]
        told == SetToSeq(changed \ rd.locally)
    IN Reduced(next, [i \in DOMAIN told |-> AttentionOfEntry(next, told[i])])
Deferred(rd) == {a \in DOMAIN rd.attention : rd.attention[a].join = "NotYetSeen"}
UpgradeJoins(rd, item) ==
    LET waiting == {a \in Deferred(rd) : rd.attention[a].item = item}
    IN Joins(rd, waiting, [a \in waiting |-> JoinFor(rd, rd.attention[a].turn, item)])
\* The observation window closes: what is still deferred has failed.
Finish(rd) == Joins(rd, Deferred(rd), [a \in Deferred(rd) |-> "ItemUnknown"])

ReduceApprovalRequest(rd, f) ==
    LET entry == [session |-> rd.sid, turn |-> f.turn, item |-> f.item,
                  subject |-> "Approval", join |-> JoinFor(rd, f.turn, f.item),
                  open |-> TRUE, answer |-> None]
        next == [Prove(rd, {"InteractionApproval"}) EXCEPT
                   !.attention = Put(@, f.req, entry), !.approvals = Put(@, f.id, f.req)]
    IN IF ~BoundSession(rd, f) THEN RefusedFrame(rd)
       ELSE Reduced(next, <<AttentionOfEntry(next, f.req)>>)

\* The reply the host writes is what records the answer.
ReduceApprovalReply(rd, f) ==
    LET a == rd.approvals[f.id]
        local == Known(rd.answers, a)
        rest == [rd EXCEPT !.approvals = Without(@, f.id), !.answers = Without(@, a)]
        next == [rest EXCEPT
                   !.attention[a].open = FALSE,
                   !.attention[a].answer = IF local THEN rd.answers[a].c ELSE "external",
                   !.locally = IF local THEN @ \cup {a} ELSE @]
    IN IF ~Known(rd.approvals, f.id) THEN Reduced(rd, <<>>)
       ELSE IF f.word \notin {"accept", "acceptForSession", "decline", "cancel"}
               \/ (local /\ rd.answers[a].option # f.word)
       THEN RefusedFrame(rest)
       ELSE Reduced(next, <<AttentionOfEntry(next, a)>>)

(***************************************************************************)
(* Notifications                                                           *)
(***************************************************************************)
SessionStatusOf(raw) ==
    CASE raw = "active" -> "Running" [] raw = "idle" -> "Idle"
      [] raw = "notLoaded" -> "Offline" [] raw = "systemError" -> "Failed"
ReduceStatusChanged(rd, f) == Reduced(rd, <<StatusEffect(rd.sid, SessionStatusOf(f.word))>>)

ReduceTurnTransition(rd, f) ==
    LET origin == IF Known(rd.origins, f.turn) THEN rd.origins[f.turn] ELSE None
        next == [rd EXCEPT !.origins = Put(@, f.turn, origin)]
        last == IF f.kind = "turn/completed" THEN Finish(next) ELSE Reduced(next, <<>>)
    IN Reduced(last.rd, <<TurnOf(rd, f.turn, TurnStatus(f.word), origin)>> \o last.es)

ReduceItem(rd, f) ==
    LET item == [session |-> rd.sid, turn |-> f.turn, status |-> DecodeItemBody(f)]
        next == [rd EXCEPT !.items =
                   Put(@, f.item, [turn |-> BoundTurn(rd, f), item |-> item])]
        joins == UpgradeJoins(next, f.item)
    IN Reduced(joins.rd, <<ItemEffect(f.item, item)>> \o joins.es)

\* A streamed increment changes the text of an item that is known.
ReduceDelta(rd, f) ==
    Reduced(rd, IF Known(rd.items, f.item) THEN <<ItemEffect(f.item, rd.items[f.item].item)>>
                ELSE <<>>)

ReduceNotification(rd, f) ==
    IF f.kind = "undeclared" THEN Reduced(rd, <<>>)
    ELSE IF ~Decodable(f) \/ ~BoundSession(rd, f) THEN RefusedFrame(rd)
    ELSE CASE f.kind = "thread/started" -> Reduced(rd, <<>>)
           [] f.kind = "thread/status/changed" -> ReduceStatusChanged(rd, f)
           [] f.kind \in {"turn/started", "turn/completed"} -> ReduceTurnTransition(rd, f)
           [] f.kind \in {"item/started", "item/completed"} -> ReduceItem(rd, f)
           [] f.kind = "item/agentMessage/delta" -> ReduceDelta(rd, f)

(***************************************************************************)
(* One frame                                                               *)
(***************************************************************************)
DispatchFrame(rd, f) ==
    CASE f.kind = "call" -> Reduced([rd EXCEPT !.calls = Put(@, f.id, f.word)], <<>>)
      [] f.kind = "reply" -> ReduceApprovalReply(rd, f)
      [] f.kind = "approval" -> ReduceApprovalRequest(rd, f)
      [] f.kind = "response" -> ReduceClientResponse(rd, f)
      [] OTHER -> ReduceNotification(rd, f)

IsControlling(e) == e.kind = "Session" /\ e.session.live = "Controlling"
\* Newly proven capabilities go out after the acknowledgement that proves them
\* and just before the binding that needs them, or else last.
Republished(rd, es) ==
    LET at == {i \in DOMAIN es : IsControlling(es[i])}
        first == CHOOSE i \in at : \A j \in at : i <= j
        caps == CapabilitiesEffect(rd.proven)
    IN IF rd.proven = rd.published THEN Reduced(rd, es)
       ELSE Reduced([rd EXCEPT !.published = rd.proven],
                    IF at = {} THEN Append(es, caps) ELSE InsertAt(es, first, caps))

\* A refused frame leaves the reducer where it stopped and loses its effects.
Followed(before, r) ==
    LET all == Republished(r.rd, r.es) IN IF ~r.ok THEN r ELSE Reduced(all.rd, before \o all.es)
IngestFrame(rd, f) ==
    LET boot == EnsureBootstrapped(rd) IN Followed(boot.es, DispatchFrame(boot.rd, f))

(***************************************************************************)
(* The end of the connection, published once                               *)
(***************************************************************************)
RuntimeEnded(rd) == [rd EXCEPT !.ended = TRUE, !.live = IF rd.sid = None THEN None ELSE "NotBound"]
FaultEntry(rd) ==
    [host |-> TheHost, project |-> TheProject, session |-> rd.sid, turn |-> None,
     item |-> None, subject |-> "ConnectionFault", join |-> None, open |-> TRUE,
     answer |-> None]
ProcessExited(rd) ==
    LET next == RuntimeEnded(rd)
    IN IF rd.ended THEN Reduced(rd, <<>>)
       ELSE Reduced(next, <<RuntimeEffect(FALSE, rd.proven)>> \o
              (IF rd.sid = None THEN <<>>
               ELSE <<SessionOf(next), AttentionEffect("fault", FaultEntry(rd))>>))
CleanDisconnected(rd) ==
    LET next == RuntimeEnded(rd)
    IN IF rd.ended THEN Reduced(rd, <<>>)
       ELSE Reduced(next, <<RuntimeEffect(FALSE, rd.proven)>> \o
              (IF rd.sid = None THEN <<>> ELSE <<SessionOf(next)>>))

-------------------------------------------------------------------------------
(* The worker and its runtime session                                            *)

CONSTANTS Prompts, Answers,   \* commands, by kind
          Words,              \* decisions a device may send
          AskEarly,           \* the server may ask before it shows the item
          FaultKinds,         \* which faults may happen
          MaxFaults           \* and how many of them together

VARIABLES srv,      \* the app-server process: pipes, and the turn it is in
          rd,       \* the reducer
          rt,       \* the runtime session and its worker
          call,     \* the call the worker waits in
          st,       \* the canonical state of the host, which survives a restart
          cmds,     \* what became of each command
          refused,  \* the store refused an effect the adapter built
          faults,
          seen      \* what the server really did
vars == <<srv, rd, rt, call, st, cmds, refused, faults, seen>>

ThreadName == <<"s1", "s2">>
TurnName == <<"t1", "t2", "t3">>
ItemName == <<"i1", "i2", "i3">>
RequestName == <<"q1", "q2", "q3">>
Idle == [op |-> "idle", c |-> None, id |-> 0, es |-> <<>>]
NewRuntime == [phase |-> "Down", started |-> FALSE, exit |-> FALSE, next |-> 3]
DeadServer(s) == [s EXCEPT !.alive = FALSE, !.in = <<>>, !.turn = 0, !.item = "none"]
Fault(kind) == kind \in FaultKinds /\ faults < MaxFaults /\ faults' = faults + 1

Init ==
    /\ srv = [alive |-> FALSE, boots |-> 0, in |-> <<>>, out |-> <<>>, turn |-> 0,
              turns |-> 0, item |-> "none", stop |-> FALSE]
    /\ rd = NewReducer /\ rt = NewRuntime /\ call = Idle /\ st = EmptyState
    /\ cmds = [c \in Commands |-> "New"] /\ refused = FALSE /\ faults = 0
    /\ seen = [created |-> {}, ended |-> {}, declined |-> {}, got |-> <<>>]

(***************************************************************************)
(* The app-server (external)                                               *)
(***************************************************************************)
Thread == ThreadName[srv.boots]
Says(s, frames) == [s EXCEPT !.out = @ \o frames]
Tells(method, turn, item, word) == Notification(method, Thread, turn, item, word)
host == <<rd, rt, call, st, cmds, refused>>

\* A call is answered; a prompt starts the next turn, or is refused.
ServerReads(accepts) ==
    /\ srv.alive /\ srv.in # <<>>
    /\ LET f == srv.in[1]
           rest == [srv EXCEPT !.in = Tail(@)]
           n == srv.turns + 1
       IN CASE f.word = "initialize" ->
                 /\ accepts /\ srv' = Says(rest, <<Response(f.id, None, None, None)>>)
                 /\ UNCHANGED seen
            [] f.word = "thread/start" ->
                 /\ accepts
                 /\ srv' = Says(rest, <<Notification("undeclared", None, None, None, None),
                                        Response(f.id, Thread, None, None),
                                        Tells("thread/started", None, None, None)>>)
                 /\ UNCHANGED seen
            [] f.kind = "call" /\ f.word = "turn/start" ->
                 IF accepts
                 THEN /\ srv.turn = 0 /\ n \in DOMAIN TurnName
                      /\ srv' = Says([rest EXCEPT !.turn = n, !.turns = n, !.item = "none"],
                                     <<Response(f.id, Thread, TurnName[n], "inProgress"),
                                       Tells("thread/status/changed", None, None, "active"),
                                       Tells("turn/started", TurnName[n], None, "inProgress")>>)
                      /\ seen' = [seen EXCEPT !.created = @ \cup {[c |-> f.req, turn |-> TurnName[n]]}]
                 ELSE srv' = Says(rest, <<Response(f.id, None, None, "error")>>) /\ UNCHANGED seen
            [] OTHER ->
                 /\ accepts
                 /\ srv' = IF srv.turn # f.id \/ srv.item \notin {"asked", "asked early"} THEN rest
                            ELSE [rest EXCEPT !.stop = f.word = "cancel",
                                    !.item = IF f.word = "accept" THEN "allowed" ELSE "denied"]
                 /\ seen' = [seen EXCEPT !.got = Put(@, RequestName[f.id], f.word)]
    /\ UNCHANGED <<host, faults>>

\* A file change: shown, put to approval (or the other way round), carried out.
ServerShowsItem ==
    /\ srv.alive /\ srv.turn # 0 /\ srv.item \in {"none", "asked early"}
    /\ srv' = Says([srv EXCEPT !.item = IF @ = "none" THEN "shown" ELSE "asked"],
                   <<Tells("item/started", TurnName[srv.turn], ItemName[srv.turn], "inProgress")>>)
    /\ UNCHANGED <<host, faults, seen>>
ServerAsks ==
    /\ srv.alive /\ srv.turn # 0 /\ srv.item \in {"shown"} \cup (IF AskEarly THEN {"none"} ELSE {})
    /\ srv' = Says([srv EXCEPT !.item = IF @ = "none" THEN "asked early" ELSE "asked"],
                   <<ApprovalFrame(srv.turn, Thread, TurnName[srv.turn], ItemName[srv.turn],
                                   RequestName[srv.turn])>>)
    /\ UNCHANGED <<host, faults, seen>>
ServerEndsItem ==
    /\ srv.alive /\ srv.item \in {"allowed", "denied"}
    /\ LET word == IF srv.item = "allowed" THEN "completed" ELSE "declined"
       IN /\ srv' = Says([srv EXCEPT !.item = "done"],
                         <<Tells("item/completed", TurnName[srv.turn], ItemName[srv.turn], word)>>)
          /\ seen' = IF word = "declined"
                     THEN [seen EXCEPT !.declined = @ \cup {ItemName[srv.turn]}] ELSE seen
    /\ UNCHANGED <<host, faults>>
ServerEndsTurn(word) ==
    /\ srv.alive /\ srv.turn # 0
    /\ word = "failed" \/ srv.item \in {"none", "shown", "done"}
    /\ (word = "interrupted") = srv.stop
    /\ srv' = Says([srv EXCEPT !.turn = 0, !.item = "none", !.stop = FALSE],
                   <<Tells("thread/status/changed", None, None, "idle"),
                     Tells("turn/completed", TurnName[srv.turn], None, word)>>)
    /\ seen' = [seen EXCEPT !.ended = @ \cup {TurnName[srv.turn]}]
    /\ UNCHANGED <<host, faults>>

\* A frame whose vocabulary the pinned surface does not have; and the process dies.
ServerSaysUnmodelled ==
    /\ Fault("unmodelled") /\ srv.alive /\ srv.turn # 0
    /\ srv' = Says(srv, <<Tells("thread/status/changed", None, None, "unmodelled")>>)
    /\ UNCHANGED <<host, seen>>
ServerExits ==
    /\ Fault("crash") /\ srv.alive
    /\ srv' = DeadServer(srv)
    /\ UNCHANGED <<host, seen>>

(***************************************************************************)
(* The runtime session                                                     *)
(***************************************************************************)
Commits(done) == st' = done.state /\ refused' = (refused \/ ~done.ok)
Applies(es) == Commits(ApplyEffects(st, es))

Concludes(c, done) ==
    Commits(done) /\ cmds' = [cmds EXCEPT ![c] = IF done.ok THEN "Done" ELSE "Uncertain"]
FinishDispatch(c, op, req, es) ==
    IF ~ClosesRoute(es, op, c, rd.sid, req)
    THEN cmds' = [cmds EXCEPT ![c] = "Uncertain"] /\ UNCHANGED <<st, refused>>
    ELSE Concludes(c, ApplyEffects(st, es))

\* send_value: the pipe takes the frame, and the reducer sees what was sent.
Sent(s, f) == [s EXCEPT !.in = Append(@, f)]
Kill(s) == [DeadServer(s) EXCEPT !.out = <<>>]

\* A call that failed: what it read is gone, the connection stays as it was.
CallFails(next) ==
    /\ rd' = CancelLocalTurnStart(next, call.id)
    /\ call' = Idle
    /\ IF call.op = "start"
       THEN rt' = [rt EXCEPT !.phase = "Failed", !.started = FALSE] /\ UNCHANGED cmds
       ELSE cmds' = [cmds EXCEPT ![call.c] = "Uncertain"] /\ UNCHANGED rt
    /\ UNCHANGED <<st, refused>>

\* The awaited response came: the handshake goes on, or the call returns.
CallReturns(next, es) ==
    CASE call.op = "start" /\ call.id = 1 ->
           LET f == Call(2, "thread/start", None)
           IN IF ~srv.alive THEN CallFails(next) /\ srv' = Kill(srv)
              ELSE \E sent \in {IngestFrame(next, f)} :
                   /\ srv' = Sent([srv EXCEPT !.out = Tail(@)], f)
                   /\ rd' = sent.rd /\ call' = [call EXCEPT !.id = 2, !.es = es \o sent.es]
                   /\ UNCHANGED <<rt, st, cmds, refused>>
      [] call.op = "start" /\ call.id = 2 ->
           \E done \in {ApplyEffects(st, es)} :
           /\ rd' = next /\ Commits(done) /\ call' = Idle
           /\ rt' = [rt EXCEPT !.phase = IF done.ok THEN "Up" ELSE "Failed"]
           /\ srv' = [srv EXCEPT !.out = Tail(@)] /\ UNCHANGED cmds
      [] call.op = "prompt" ->
           /\ rd' = CancelLocalTurnStart(next, call.id)
           /\ FinishDispatch(call.c, "prompt", None, es) /\ call' = Idle
           /\ srv' = [srv EXCEPT !.out = Tail(@)] /\ UNCHANGED rt

AwaitLine ==
    /\ call # Idle /\ srv.out # <<>>
    /\ \E f \in {srv.out[1]}, r \in {IngestFrame(rd, srv.out[1])} :
         IF ~r.ok
         THEN /\ CallFails(r.rd)
              /\ srv' = IF call.op = "start" THEN Kill(srv) ELSE [srv EXCEPT !.out = Tail(@)]
         ELSE IF f.kind = "response" /\ f.id = call.id THEN CallReturns(r.rd, call.es \o r.es)
         ELSE /\ rd' = r.rd /\ call' = [call EXCEPT !.es = @ \o r.es]
              /\ srv' = [srv EXCEPT !.out = Tail(@)] /\ UNCHANGED <<rt, st, cmds, refused>>
    /\ UNCHANGED <<faults, seen>>

\* The reader thread has handed over every line before it reports the end.  A
\* prompt returns what the exit means, without an ending for its command.
AwaitEndOfStream ==
    /\ call # Idle /\ srv.out = <<>> /\ ~srv.alive
    /\ LET exit == ProcessExited(rd)
       IN IF call.op = "start" THEN CallFails(exit.rd)
          ELSE /\ rd' = CancelLocalTurnStart(exit.rd, call.id) /\ call' = Idle
               /\ rt' = [rt EXCEPT !.exit = TRUE]
               /\ FinishDispatch(call.c, "prompt", None, call.es \o exit.es)
    /\ UNCHANGED <<srv, faults, seen>>

AwaitTimesOut ==
    /\ Fault("timeout") /\ call # Idle
    /\ CallFails(rd)
    /\ srv' = IF call.op = "start" THEN Kill(srv) ELSE srv
    /\ UNCHANGED seen

(***************************************************************************)
(* The worker                                                              *)
(***************************************************************************)
StartWorker ==
    /\ rt.phase = "Down" /\ call = Idle /\ srv.boots < Len(ThreadName)
    /\ \E f \in {Call(1, "initialize", None)} : \E sent \in {IngestFrame(rd, f)} :
         /\ rd' = sent.rd /\ call' = [Idle EXCEPT !.op = "start", !.id = 1, !.es = sent.es]
         /\ srv' = [srv EXCEPT !.alive = TRUE, !.boots = @ + 1, !.in = <<f>>, !.out = <<>>]
    /\ rt' = [rt EXCEPT !.started = TRUE]
    /\ UNCHANGED <<st, cmds, refused, faults, seen>>

\* A command of a device for the worker's session: taken, then claimed.
Routed(c) == call = Idle /\ rt.phase = "Up" /\ cmds[c] = "New"
Claimed(c) == CommandAcknowledged(st, LocalAck(c, rd.sid))
RequireStarted == rt.started /\ ~rt.exit
FailsAtOnce(c) ==
    /\ cmds' = [cmds EXCEPT ![c] = "Uncertain"] /\ st' = Claimed(c)
    /\ UNCHANGED <<srv, rd, rt, call, refused>>
\* The pipe is broken: the exit is all the call has to say, and it does not end
\* the command it was made for.
PipeBreaks(c, next) ==
    /\ rd' = ProcessExited(next).rd /\ rt' = [rt EXCEPT !.exit = TRUE, !.next = @ + 1]
    /\ cmds' = [cmds EXCEPT ![c] = "Uncertain"] /\ st' = Claimed(c)
    /\ UNCHANGED <<srv, call, refused>>

SubmitPrompt(c) ==
    /\ c \in Prompts /\ Routed(c)
    /\ LET id == rt.next
           f == Call(id, "turn/start", c)
           registered == RegisterLocalTurnStart(rd, id, c)
       IN IF ~RequireStarted \/ ~CanRegisterTurnStart(rd, id, c) THEN FailsAtOnce(c)
          ELSE IF ~srv.alive THEN PipeBreaks(c, rd)
          ELSE /\ srv' = Sent(srv, f) /\ rd' = IngestFrame(registered, f).rd
               /\ rt' = [rt EXCEPT !.next = @ + 1] /\ st' = Claimed(c)
               /\ call' = [Idle EXCEPT !.op = "prompt", !.c = c, !.id = id]
               /\ cmds' = [cmds EXCEPT ![c] = "Claimed"] /\ UNCHANGED refused
    /\ UNCHANGED <<faults, seen>>

\* The store admits one answer at a time for an entry it shows open.
RespondAttention(c, a, word) ==
    /\ c \in Answers /\ Routed(c)
    /\ Known(st.attention, a) /\ Open(st, a) /\ st.attention[a].subject = "Approval"
    /\ \A o \in Answers : cmds[o] \notin {"Claimed", "Uncertain"}
    /\ IF ~RequireStarted \/ ~CanRegisterAnswer(rd, a) THEN FailsAtOnce(c)
       ELSE IF ~srv.alive THEN PipeBreaks(c, rd)
       ELSE LET id == CHOOSE x \in RequestIdsFor(rd, a) : TRUE
                f == Reply(id, word)
            IN \E r \in {IngestFrame(RegisterLocalAnswer(rd, a, c, word), f)} :
               /\ srv' = Sent(srv, f) /\ UNCHANGED <<rt, call>>
               /\ IF r.ok /\ ClosesRoute(r.es, "answer", c, rd.sid, a)
                  THEN /\ rd' = r.rd
                       /\ Concludes(c, ApplyEffects(Claimed(c), r.es))
                  ELSE /\ rd' = ForgetLocalAnswer(r.rd, a) /\ st' = Claimed(c)
                       /\ cmds' = [cmds EXCEPT ![c] = "Uncertain"] /\ UNCHANGED refused
    /\ UNCHANGED <<faults, seen>>

\* Lines of the channel, frame by frame, up to the first one that is refused.
Drained(lines) ==
    LET joined(acc, r) == [rd |-> r.rd, es |-> acc.es \o r.es, ok |-> r.ok, n |-> acc.n + 1]
        step(acc, f) == IF ~acc.ok THEN acc ELSE joined(acc, IngestFrame(acc.rd, f))
    IN FoldLeft(step, [rd |-> rd, es |-> <<>>, ok |-> TRUE, n |-> 0], lines)

Drains == call = Idle /\ rt.phase = "Up" /\ RequireStarted
DrainEffects ==
    /\ Drains /\ srv.alive /\ srv.out # <<>>
    /\ \E d \in {Drained(srv.out)} :
         /\ rd' = d.rd /\ srv' = [srv EXCEPT !.out = SubSeq(@, d.n + 1, Len(@))]
         /\ IF d.ok THEN Applies(d.es) ELSE UNCHANGED <<st, refused>>
    /\ UNCHANGED <<rt, call, cmds, faults, seen>>
\* The process is gone: try_receive takes an empty channel for the end, although
\* the reader thread may not have handed over the last lines yet.
DrainExit(n) ==
    /\ Drains /\ ~srv.alive
    /\ \E d \in {Drained(SubSeq(srv.out, 1, n))} : \E exit \in {ProcessExited(d.rd)} :
         IF d.ok
         THEN /\ Applies(d.es \o exit.es) /\ rd' = exit.rd /\ rt' = [rt EXCEPT !.exit = TRUE]
              /\ srv' = [srv EXCEPT !.out = <<>>]
         ELSE /\ rd' = d.rd /\ srv' = [srv EXCEPT !.out = SubSeq(@, d.n + 1, Len(@))]
              /\ UNCHANGED <<rt, st, refused>>
    /\ UNCHANGED <<call, cmds, faults, seen>>

\* hostd goes down and comes back: the store keeps the canonical state, the child
\* dies with its parent, and the next start opens a new thread.
HostRestarts ==
    /\ Fault("restart") /\ rt.phase # "Down"
    /\ srv' = Kill(srv) /\ rd' = NewReducer /\ rt' = NewRuntime /\ call' = Idle
    /\ cmds' = [c \in Commands |-> IF cmds[c] = "Claimed" THEN "Uncertain" ELSE cmds[c]]
    /\ UNCHANGED <<st, refused, seen>>

CloseWorker ==
    /\ Fault("close") /\ Drains
    /\ LET closed == CleanDisconnected(rd) IN rd' = closed.rd /\ Applies(closed.es)
    /\ srv' = Kill(srv) /\ rt' = [rt EXCEPT !.started = FALSE, !.phase = "Failed"]
    /\ UNCHANGED <<call, cmds, seen>>

Next ==
    \/ \E accepts \in BOOLEAN : ServerReads(accepts)
    \/ ServerShowsItem \/ ServerAsks \/ ServerEndsItem
    \/ \E word \in {"completed", "failed", "interrupted"} : ServerEndsTurn(word)
    \/ ServerSaysUnmodelled \/ ServerExits
    \/ AwaitLine \/ AwaitEndOfStream \/ AwaitTimesOut
    \/ StartWorker \/ DrainEffects \/ HostRestarts \/ CloseWorker
    \/ \E n \in 0..Len(srv.out) : DrainExit(n)
    \/ \E c \in Commands :
         \/ SubmitPrompt(c)
         \/ \E a \in Attentions, word \in Words : RespondAttention(c, a, word)
Spec == Init /\ [][Next]_vars

(***************************************************************************)
(* Properties                                                              *)
(***************************************************************************)
\* A registered command belongs to the call the worker is in, and a registered
\* answer to a request of the server that has no reply yet: no registration
\* outlives its call and gets somebody else's evidence (cancel_local_turn_start,
\* reduce_approval_reply).
TypeOK ==
    /\ rt.phase \in {"Down", "Up", "Failed"}
    /\ \A c \in Commands : cmds[c] \in {"New", "Claimed", "Done", "Uncertain"}
    /\ {c \in Commands : cmds[c] = "Claimed"} = {call.c} \ {None}
    /\ DOMAIN rd.control \subseteq {call.id}
    /\ DOMAIN rd.answers \subseteq {rd.approvals[id] : id \in DOMAIN rd.approvals}

\* PROTOCOL 4.4: a turn carries a command as its origin only if the server
\* started it for that command, also when the answer to an earlier call that
\* timed out comes while a later one waits (reduce_client_response).
OriginsAreTrue ==
    \A t \in DOMAIN st.turns :
        st.turns[t].origin # None => [c |-> st.turns[t].origin, turn |-> t] \in seen.created

\* ADR-0019: a command is acknowledged as accepted by the runtime only if the
\* server started a turn for it (runtime_acceptance_effects).
AcksAreTrue ==
    \A ack \in st.acks :
        ack.outcome = "AcceptedByRuntime" => \E x \in seen.created : x.c = ack.command

\* The store never refuses an effect the adapter builds: a turn comes before its
\* items, an acknowledgement before the capability it proves, the capability
\* before the binding that needs it (ingest_frame, and PROTOCOL 4.3).
EffectsAreAccepted == ~refused

\* An approval shown as joined is about an item the store has, in the same turn;
\* once its turn is shown as ended an approval that is still open no longer
\* waits for its item (join_for, upgrade_joins, finish).
Approvals == {a \in DOMAIN st.attention : st.attention[a].subject = "Approval"}
JoinsAreTrue ==
    \A a \in Approvals :
        LET e == st.attention[a]
        IN /\ e.join = "Joined" => Known(st.items, e.item) /\ st.items[e.item].turn = e.turn
           /\ (e.open /\ e.join = "NotYetSeen" /\ Known(st.turns, e.turn))
                 => ~Terminal(st.turns[e.turn])

\* R-P8: an operation a person declined ends as declined, never as failed or
\* completed, and only such an operation does (item_status).
DeclinedIsDeclined ==
    \A i \in DOMAIN st.items :
        st.items[i].status \in {"Completed", "Declined", "Failed"} =>
            (st.items[i].status = "Declined") = (i \in seen.declined)

\* T-100: after the process has exited, the runtime is shown as unavailable and
\* its session as offline (process_exited and its callers).
ExitIsShown ==
    (rt.phase = "Up" /\ rt.exit) =>
        st.sessions[rd.sid].status = "Offline" /\ st.sessions[rd.sid].live = "NotBound"

\* PROTOCOL 4.3: a session is shown as controlled only while its runtime has both
\* LiveObserve and LiveControl (bootstrap_session, CanonicalStore::load).
ControlNeedsCapabilities ==
    \A sid \in DOMAIN st.sessions :
        st.sessions[sid].live = "Controlling" =>
            {"LiveObserve", "LiveControl"} \subseteq RuntimeOf(st, sid).caps

\* The comment in reduce_approval_reply calls the reply "the first evidence that
\* the locally requested answer actually took effect": an approval shown as
\* answered has reached a server that is waiting for it, or is on its way.
AnswersTakeEffect ==
    \A a \in Approvals :
        ~st.attention[a].open =>
            \/ Known(seen.got, a)
            \/ srv.alive /\ \E i \in DOMAIN srv.in : srv.in[i].kind = "reply"

\* What the server has said and the worker has read is in the store: with
\* nothing left to read, a turn the server has ended is not shown as running.
ReadTurnsEnd ==
    (rt.phase = "Up" /\ call = Idle /\ srv.alive /\ srv.out = <<>>) =>
        \A t \in seen.ended \cap DOMAIN st.turns : Terminal(st.turns[t])
=============================================================================
