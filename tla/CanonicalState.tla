---------------------------- MODULE CanonicalState ----------------------------
(* The canonical state of the host (kaleido-state/src/state.rs): what each     *)
(* StateEffect does to it, when it is refused, and the fields the store        *)
(* derives after every effect.  Identifiers are members of small sets.  A      *)
(* collection of the code is a function whose domain holds the known ids.      *)
(* Timestamps, titles and content references are left out.                     *)
EXTENDS Integers, Sequences, FiniteSets, TLC
LOCAL INSTANCE SequencesExt

CONSTANTS Hosts, Runtimes, Projects, Sessions, Turns, Items, Entries,
          Attentions, Commands, Workflows, Steps, Artifacts,
          Family,       \* the provider family of each runtime
          Sequence,     \* the session-scoped sequence number of each item
          None

(***************************************************************************)
(* The state, and lookups in it                                            *)
(***************************************************************************)
EmptyState ==
    [hosts |-> <<>>, runtimes |-> <<>>, projects |-> <<>>, sessions |-> <<>>,
     reported |-> <<>>, turns |-> <<>>, turnOrder |-> <<>>, items |-> <<>>,
     queue |-> <<>>, attention |-> <<>>, acks |-> {}, workflows |-> <<>>,
     steps |-> <<>>, artifacts |-> <<>>]

Known(f, id) == id \in DOMAIN f
Put(f, id, value) == (id :> value) @@ f
Appended(seq, id) ==
    IF \E i \in DOMAIN seq : seq[i] = id THEN seq ELSE Append(seq, id)

TurnsOf(s, sid) ==
    LET of(t) == s.turns[t].session = sid IN SelectSeq(s.turnOrder, of)
ItemsOf(s, sid) == {i \in DOMAIN s.items : s.items[i].session = sid}
QueueOf(s, sid) == {q \in DOMAIN s.queue : s.queue[q].session = sid}
AttentionOf(s, sid) == {a \in DOMAIN s.attention : s.attention[a].session = sid}
StepsOf(s, w) == {x \in DOMAIN s.steps : s.steps[x].workflow = w}
ArtifactsOf(s, w) == {x \in DOMAIN s.artifacts : s.artifacts[x].workflow = w}

Terminal(turn) == turn.status \in {"Completed", "Failed", "Cancelled"}
Open(s, a) == s.attention[a].open
Pending(s, q) == s.queue[q].pending

\* The runtime behind a session: every adapter writes it into the session,
\* as the binding handle or as the source of its history.
RuntimeKnown(s, sid) == Known(s.runtimes, s.sessions[sid].runtime)
RuntimeOf(s, sid) == s.runtimes[s.sessions[sid].runtime]
Permits(s, r, capability) == capability \in s.runtimes[r].caps
SessionPermits(s, sid, capability) ==
    RuntimeKnown(s, sid) /\ capability \in RuntimeOf(s, sid).caps

\* An acceptance counts for a runtime while the session it names is still
\* backed by that runtime.
AcceptedRuntimeSession(s, ack, r) ==
    /\ ack.outcome = "AcceptedByRuntime"
    /\ ack.runtime = r
    /\ Known(s.sessions, ack.session)
    /\ RuntimeKnown(s, ack.session)
    /\ s.sessions[ack.session].runtime = r

HasRuntimeAcceptanceFor(s, r) == \E ack \in s.acks : AcceptedRuntimeSession(s, ack, r)

(***************************************************************************)
(* The derived fields                                                      *)
(***************************************************************************)
DeriveSessionStatus(in) ==
    CASE ~in.usable -> "Offline"
      [] in.usable /\ in.approval -> "WaitingApproval"
      [] in.usable /\ ~in.approval /\ in.question -> "WaitingUser"
      [] in.usable /\ ~in.approval /\ ~in.question /\ in.turn -> "Running"
      [] OTHER -> IF in.pending > 0 THEN "Queued"
                  ELSE IF in.reported = "Failed" THEN "Failed" ELSE "Idle"

ActiveTurn(s, sid) ==
    LET live(t) == ~Terminal(s.turns[t])
        open == SelectSeq(TurnsOf(s, sid), live)
    IN IF open = <<>> THEN None ELSE open[Len(open)]

OpenAttentionOf(s, sid) == {a \in AttentionOf(s, sid) : Open(s, a)}

DerivedSession(s, sid) ==
    LET open == OpenAttentionOf(s, sid)
        asked(kind) == \E a \in open : s.attention[a].subject = kind
        pending == Cardinality({q \in QueueOf(s, sid) : Pending(s, q)})
        reported == IF Known(s.reported, sid) THEN s.reported[sid] ELSE None
    IN [s.sessions[sid] EXCEPT
          !.activeTurn = ActiveTurn(s, sid),
          !.queueDepth = pending,
          !.openAttention = Cardinality(open),
          !.status = DeriveSessionStatus(
              [usable |-> RuntimeKnown(s, sid) /\ RuntimeOf(s, sid).usable,
               approval |-> asked("Approval"), question |-> asked("Question"),
               turn |-> ActiveTurn(s, sid) # None \/ reported = "Running",
               pending |-> pending, reported |-> reported])]

DerivedProject(s, p) ==
    LET of == {sid \in DOMAIN s.sessions : s.sessions[sid].project = p}
        with(statuses) == Cardinality({sid \in of : s.sessions[sid].status \in statuses})
    IN [s.projects[p] EXCEPT
          !.total = Cardinality(of),
          !.archived = Cardinality({sid \in of : s.sessions[sid].archived}),
          !.running = with({"Running"}),
          !.failed = with({"Failed"}),
          !.waiting = with({"WaitingUser", "WaitingApproval"}),
          !.attention = Cardinality({a \in DOMAIN s.attention :
                            s.attention[a].project = p /\ Open(s, a)}),
          !.workflows = Cardinality({w \in DOMAIN s.workflows :
                            s.workflows[w].project = p})]

RecomputeDerived(s) ==
    LET derived == [s EXCEPT !.sessions =
                      [sid \in DOMAIN s.sessions |-> DerivedSession(s, sid)]]
    IN [derived EXCEPT !.projects =
          [p \in DOMAIN s.projects |-> DerivedProject(derived, p)]]

(***************************************************************************)
(* The effects: refusal, then result                                       *)
(***************************************************************************)
HostUpserted(s, h, reach) == [s EXCEPT !.hosts = Put(@, h, reach)]

\* Control may be claimed for a runtime only after it accepted a command.
LiveControlUnproven(s, r, caps) ==
    "LiveControl" \in caps /\ ~HasRuntimeAcceptanceFor(s, r)

RuntimeRefused(s, r, host, caps) ==
    \/ Known(s.runtimes, r) /\ s.runtimes[r].host # host
    \/ LiveControlUnproven(s, r, caps)
RuntimeUpserted(s, r, host, usable, caps) ==
    [s EXCEPT !.runtimes = Put(@, r, [host |-> host, usable |-> usable, caps |-> caps])]

CapabilitiesRefused(s, r, caps) ==
    LiveControlUnproven(s, r, caps) \/ ~Known(s.runtimes, r)
CapabilitiesUpdated(s, r, caps) == [s EXCEPT !.runtimes[r].caps = caps]

\* A project keeps the bindings it has and takes over the incoming ones.
ProjectUpserted(s, p, bindings) ==
    LET old == IF Known(s.projects, p) THEN s.projects[p].bindings ELSE {}
    IN [s EXCEPT !.projects = Put(@, p,
          [bindings |-> old \cup bindings, total |-> 0, archived |-> 0, running |-> 0,
           failed |-> 0, waiting |-> 0, attention |-> 0, workflows |-> 0])]

\* A live binding needs the runtime's capability; control needs, besides, a
\* command of this very session that this very runtime accepted.
SessionRefused(s, sid, session) ==
    \/ /\ session.live # "NotBound"
       /\ \/ ~Known(s.runtimes, session.runtime)
          \/ ~Permits(s, session.runtime, "LiveObserve")
    \/ /\ session.live = "Controlling"
       /\ \/ ~Permits(s, session.runtime, "LiveControl")
          \/ ~\E ack \in s.acks : /\ AcceptedRuntimeSession(s, ack, session.runtime)
                                  /\ ack.session = sid
SessionUpserted(s, sid, session) ==
    [s EXCEPT !.sessions = Put(@, sid,
        session @@ [status |-> "Idle", activeTurn |-> None, queueDepth |-> 0,
                    openAttention |-> 0])]

StatusRefused(s, sid) == ~Known(s.sessions, sid)
SessionStatusChanged(s, sid, status) == [s EXCEPT !.reported = Put(@, sid, status)]

RemoteTurns(s, c) == {t \in DOMAIN s.turns : s.turns[t].origin = c}

TurnRefused(s, t, turn) ==
    \/ turn.origin # None /\ RemoteTurns(s, turn.origin) \ {t} # {}
    \/ Known(s.turns, t) /\ (s.turns[t].session # turn.session \/ s.turns[t].origin # turn.origin)

\* A later version of a turn may only extend the accumulated item list.
TurnUpserted(s, t, turn) ==
    LET known == IF Known(s.turns, t) THEN s.turns[t].items ELSE <<>>
        new(i) == \A k \in DOMAIN known : known[k] # i
    IN [s EXCEPT !.turns = Put(@, t, [turn EXCEPT !.items = known \o SelectSeq(@, new)]),
                 !.turnOrder = Appended(@, t)]

ItemRefused(s, item) == ~Known(s.turns, item.turn)
ItemUpserted(s, i, item) ==
    [s EXCEPT !.items = Put(@, i, item), !.turns[item.turn].items = Appended(@, i)]

QueueEntryUpserted(s, q, entry) == [s EXCEPT !.queue = Put(@, q, entry)]
QueueReordered(s, sid, order) ==
    [s EXCEPT !.queue = [q \in DOMAIN @ |->
        IF @[q].session = sid /\ \E k \in DOMAIN order : order[k] = q
        THEN [@[q] EXCEPT !.position = (CHOOSE k \in DOMAIN order : order[k] = q) - 1]
        ELSE @[q]]]

AttentionUpserted(s, a, item) == [s EXCEPT !.attention = Put(@, a, item)]

\* A runtime's acceptance is refused unless the broker accepted the command
\* before, it is the first one, the session is that runtime's, and a prompt
\* has its one turn in that session.
AckRefused(s, ack) ==
    /\ ack.outcome = "AcceptedByRuntime"
    /\ \/ ~\E old \in s.acks : old.command = ack.command /\ old.outcome = "AcceptedLocally"
       \/ \E old \in s.acks : old.command = ack.command /\ old.outcome = "AcceptedByRuntime"
       \/ ~Known(s.sessions, ack.session)
       \/ ~RuntimeKnown(s, ack.session)
       \/ s.sessions[ack.session].runtime # ack.runtime
       \/ ack.prompt /\ ~\E t \in Turns : /\ RemoteTurns(s, ack.command) = {t}
                                          /\ s.turns[t].session = ack.session
CommandAcknowledged(s, ack) == [s EXCEPT !.acks = @ \cup {ack}]

WorkflowUpserted(s, w, workflow) == [s EXCEPT !.workflows = Put(@, w, workflow)]
StepUpserted(s, x, step) == [s EXCEPT !.steps = Put(@, x, step)]
ArtifactUpserted(s, x, artifact) == [s EXCEPT !.artifacts = Put(@, x, artifact)]

(***************************************************************************)
(* The effects a provider adapter hands to the broker, as values, and what *)
(* the broker does with a list of them: Broker::apply_effects and the      *)
(* store's apply_all commit them one after another and stop at the first   *)
(* refusal, with the ones before it in place.  Every adapter produces      *)
(* these values for one runtime of one host and one project.               *)
(***************************************************************************)
TheHost == CHOOSE h \in Hosts : TRUE
TheRuntime == CHOOSE r \in Runtimes : TRUE
TheProject == CHOOSE p \in Projects : TRUE

HostEffect(reach) == [kind |-> "Host", reach |-> reach]
RuntimeEffect(usable, caps) == [kind |-> "Runtime", usable |-> usable, caps |-> caps]
CapabilitiesEffect(caps) == [kind |-> "Capabilities", caps |-> caps]
ProjectEffect == [kind |-> "Project"]
SessionEffect(sid, live, archived) ==
    [kind |-> "Session", id |-> sid,
     session |-> [runtime |-> TheRuntime, project |-> TheProject, live |-> live,
                  archived |-> archived]]
StatusEffect(sid, status) == [kind |-> "Status", id |-> sid, status |-> status]
TurnEffect(t, turn) == [kind |-> "Turn", id |-> t, turn |-> turn]
ItemEffect(i, item) == [kind |-> "Item", id |-> i, item |-> item]
AttentionEffect(a, item) == [kind |-> "Attention", id |-> a, item |-> item]
AckEffect(ack) == [kind |-> "Ack", ack |-> ack]
EntryEffect(q, entry) == [kind |-> "Entry", id |-> q, entry |-> entry]

\* The acknowledgement that closes a claimed command.
RuntimeAck(c, sid, prompt) ==
    [command |-> c, outcome |-> "AcceptedByRuntime", session |-> sid,
     runtime |-> TheRuntime, prompt |-> prompt]
RejectedAck(c, sid) ==
    [command |-> c, outcome |-> "Rejected", session |-> sid, runtime |-> TheRuntime,
     prompt |-> FALSE]
\* The acknowledgement the broker writes when it takes a command.
LocalAck(c, sid) ==
    [command |-> c, outcome |-> "AcceptedLocally", session |-> sid,
     runtime |-> TheRuntime, prompt |-> FALSE]

EffectRefused(s, e) ==
    CASE e.kind = "Runtime" -> RuntimeRefused(s, TheRuntime, TheHost, e.caps)
      [] e.kind = "Capabilities" -> CapabilitiesRefused(s, TheRuntime, e.caps)
      [] e.kind = "Session" -> SessionRefused(s, e.id, e.session)
      [] e.kind = "Status" -> StatusRefused(s, e.id)
      [] e.kind = "Turn" -> TurnRefused(s, e.id, e.turn)
      [] e.kind = "Item" -> ItemRefused(s, e.item)
      [] e.kind = "Ack" -> AckRefused(s, e.ack)
      [] OTHER -> FALSE

EffectApplied(s, e) ==
    RecomputeDerived(
      CASE e.kind = "Host" -> HostUpserted(s, TheHost, e.reach)
        [] e.kind = "Runtime" ->
             RuntimeUpserted(s, TheRuntime, TheHost, e.usable, e.caps)
        [] e.kind = "Capabilities" -> CapabilitiesUpdated(s, TheRuntime, e.caps)
        [] e.kind = "Project" ->
             ProjectUpserted(s, TheProject, {TheRuntime})
        [] e.kind = "Session" -> SessionUpserted(s, e.id, e.session)
        [] e.kind = "Status" -> SessionStatusChanged(s, e.id, e.status)
        [] e.kind = "Turn" -> TurnUpserted(s, e.id, e.turn)
        [] e.kind = "Item" -> ItemUpserted(s, e.id, e.item)
        [] e.kind = "Attention" -> AttentionUpserted(s, e.id, e.item)
        [] e.kind = "Ack" -> CommandAcknowledged(s, e.ack)
        [] e.kind = "Entry" -> QueueEntryUpserted(s, e.id, e.entry))

\* The longest accepted prefix, and whether that is all of the list.
ApplyEffects(s, es) ==
    LET step(acc, e) ==
          IF ~acc.ok THEN acc
          ELSE IF EffectRefused(acc.state, e) THEN [acc EXCEPT !.ok = FALSE]
          ELSE [acc EXCEPT !.state = EffectApplied(@, e)]
    IN FoldLeft(step, [state |-> s, ok |-> TRUE], es)

\* The store closes a claimed command only on evidence that fits it: one ending of
\* this command and of no other, and for an accepted prompt the turn it started;
\* an answer by the answered entry, a resume by the session.
ClosesRoute(es, op, c, sid, req) ==
    LET acked == {i \in DOMAIN es : es[i].kind = "Ack"}
        ended == {i \in acked : es[i].ack.outcome = "Rejected"
                                \/ (es[i].ack.session = sid /\ es[i].ack.prompt = (op = "prompt"))}
        once == Cardinality(acked) = 1 /\ \A i \in acked : es[i].ack.command = c
        turned == \E i \in DOMAIN es : /\ es[i].kind = "Turn" /\ es[i].turn.session = sid
                                       /\ es[i].turn.origin = c
        answered == \E i \in DOMAIN es : /\ es[i].kind = "Attention" /\ es[i].id = req
                                         /\ es[i].item.answer = c
        resumed == \E i \in DOMAIN es : es[i].kind = "Session" /\ es[i].id = sid
    IN CASE op = "prompt" -> once /\ ended # {} /\
                               (turned \/ \A i \in ended : es[i].ack.outcome = "Rejected")
         [] op = "interrupt" -> once /\ ended # {}
         [] op = "answer" -> acked = {} /\ answered
         [] op = "resume" -> acked = {} /\ resumed
=============================================================================
