--------------------------- MODULE ProjectionMatrix ---------------------------
(* The eight read models of the host (kaleido-state/src/projection.rs), the    *)
(* matrix that says which of them an effect refreshes, and the store's commit  *)
(* (store.rs, apply_commit) that applies an effect, rebuilds those and records *)
(* them.  A view that cannot be built refuses the whole commit.                *)
EXTENDS CanonicalState

CONSTANTS CapSets,        \* the capability sets a runtime reports
          LiveBindings,   \* the live bindings sessions are reported with
          Subjects,       \* what an attention entry asks
          Positions,      \* the queue positions of an entry
          Reaches,        \* the reachabilities a host is reported with
          Reported,       \* the statuses a runtime reports of a session
          ItemForms,      \* status and body of the items, as pairs
          Usable,         \* whether a runtime's connection is reported usable
          Archived,       \* whether a session is reported archived
          StepStates      \* the states a workflow step is written with

VARIABLES st,             \* the canonical state
          views           \* the last recorded payload of each projection key
vars == <<st, views>>

Key(view, id) == [view |-> view, id |-> id]
Built(payload) == [ok |-> TRUE, payload |-> payload]
Refused == [ok |-> FALSE]

(***************************************************************************)
(* The read models                                                         *)
(***************************************************************************)
ProjectIndex(s, h) ==
    LET of(f) == {r \in DOMAIN s.runtimes : s.runtimes[r].host = h /\ Family[r] = f}
        group(f) == [family |-> f, runtimes |-> of(f),
                     projects |-> {[s.projects[p] EXCEPT !.bindings = @ \cap of(f)] @@ [id |-> p] :
                         p \in {q \in DOMAIN s.projects : s.projects[q].bindings \cap of(f) # {}}}]
    IN IF Known(s.hosts, h)
       THEN Built([reach |-> s.hosts[h],
                   groups |-> {group(f) : f \in {Family[r] : r \in
                       {x \in DOMAIN s.runtimes : s.runtimes[x].host = h}}}])
       ELSE Refused

Summarise(s, sid) ==
    [id |-> sid, status |-> s.sessions[sid].status, live |-> s.sessions[sid].live,
     queueDepth |-> s.sessions[sid].queueDepth, openAttention |-> s.sessions[sid].openAttention]

SessionIndex(s, p) ==
    LET of == {sid \in DOMAIN s.sessions : s.sessions[sid].project = p}
        archived == {sid \in of : s.sessions[sid].archived}
        active == {sid \in of \ archived : s.sessions[sid].status \in
                      {"Running", "Queued", "WaitingUser", "WaitingApproval"}}
        list(ids) == {Summarise(s, sid) : sid \in ids}
    IN Built([active |-> list(active), history |-> list((of \ archived) \ active),
              archived |-> list(archived)])

\* A transcript whose item lists do not resolve is refused by its validation.
TranscriptValid(s, sid) ==
    \A t \in DOMAIN s.turns : s.turns[t].session = sid =>
        \A k \in DOMAIN s.turns[t].items :
            LET i == s.turns[t].items[k]
            IN Known(s.items, i) /\ s.items[i].turn = t /\ s.items[i].session = sid

Transcript(s, sid) ==
    LET turns == TurnsOf(s, sid)
        entry(t) == [id |-> t, turn |-> s.turns[t],
                     items |-> [k \in DOMAIN s.turns[t].items |-> s.items[s.turns[t].items[k]]]]
    IN IF Known(s.sessions, sid) /\ TranscriptValid(s, sid)
       THEN Built([k \in DOMAIN turns |-> entry(turns[k])])
       ELSE Refused

LiveActivity(s, sid) ==
    LET active == s.sessions[sid].activeTurn
        plans == {i \in ItemsOf(s, sid) : s.items[i].body = "Plan"}
    IN IF Known(s.sessions, sid)
       THEN Built([activeTurn |-> active,
                   streaming |-> {i \in ItemsOf(s, sid) :
                       active # None /\ s.items[i].turn = active /\ s.items[i].status = "InProgress"},
                   plan |-> IF plans = {} THEN None
                            ELSE CHOOSE i \in plans : \A j \in plans : Sequence[j] <= Sequence[i]])
       ELSE Refused

InputQueue(s, sid) ==
    IF Known(s.sessions, sid)
    THEN Built([entries |-> {s.queue[q] @@ [id |-> q] : q \in QueueOf(s, sid)},
                writable |-> ~s.sessions[sid].archived /\ s.sessions[sid].status # "Offline",
                steer |-> SessionPermits(s, sid, "TurnSteer")])
    ELSE Refused

AttentionInbox(s, h) ==
    Built({s.attention[a] @@ [id |-> a] :
              a \in {x \in DOMAIN s.attention : s.attention[x].host = h /\ Open(s, x)}})

\* Why a step is not runnable, given the capabilities it can count on.
Blockers(s, x, caps) ==
    LET step == s.steps[x]
        done(d) == Known(s.steps, d) /\ s.steps[d].state \in {"Completed", "Skipped"}
    IN (IF step.state = "Ready" THEN {} ELSE {<<"NotSchedulable", step.state>>})
       \cup {<<"DependencyIncomplete", d>> : d \in {e \in step.dependsOn : ~done(e)}}
       \cup {<<"CapabilityNotSupported", c>> : c \in step.required \ caps}
       \cup {<<"HumanGateOpen", a>> :
               a \in {b \in {step.gate} : b # None /\ Known(s.attention, b) /\ Open(s, b)}}

\* Without a runtime behind its binding a step can count on no capability.
BlockersOf(s, w, x) ==
    LET p == s.workflows[w].project
        r == s.steps[x].runtime
    IN IF Known(s.projects, p) /\ r \in s.projects[p].bindings /\ Known(s.runtimes, r)
       THEN Blockers(s, x, s.runtimes[r].caps)
       ELSE Blockers(s, x, {})

\* A board whose dependencies or artifacts name steps it does not list is
\* refused by its validation.
ListedSteps(s, w) == {x \in s.workflows[w].steps : Known(s.steps, x)}
WorkflowBoardValid(s, w) ==
    /\ \A x \in ListedSteps(s, w) : s.steps[x].dependsOn \subseteq ListedSteps(s, w)
    /\ \A a \in ArtifactsOf(s, w) : s.artifacts[a].producedBy \in ListedSteps(s, w) \cup {None}

WorkflowBoard(s, w) ==
    IF Known(s.workflows, w) /\ WorkflowBoardValid(s, w)
    THEN Built([steps |-> {[id |-> x, step |-> s.steps[x], blockers |-> BlockersOf(s, w, x)] :
                              x \in ListedSteps(s, w)},
                artifacts |-> {s.artifacts[a] @@ [id |-> a] : a \in ArtifactsOf(s, w)}])
    ELSE Refused

RuntimeCapability(s, r) ==
    IF Known(s.runtimes, r) THEN Built(s.runtimes[r].caps) ELSE Refused

Build(s, k) ==
    CASE k.view = "ProjectIndex" -> ProjectIndex(s, k.id)
      [] k.view = "SessionIndex" -> SessionIndex(s, k.id)
      [] k.view = "Transcript" -> Transcript(s, k.id)
      [] k.view = "LiveActivity" -> LiveActivity(s, k.id)
      [] k.view = "InputQueue" -> InputQueue(s, k.id)
      [] k.view = "AttentionInbox" -> AttentionInbox(s, k.id)
      [] k.view = "WorkflowBoard" -> WorkflowBoard(s, k.id)
      [] k.view = "RuntimeCapability" -> RuntimeCapability(s, k.id)

(***************************************************************************)
(* The fan-out matrix                                                      *)
(***************************************************************************)
ProjectHostIds(s, p) ==
    IF Known(s.projects, p)
    THEN {s.runtimes[r].host : r \in s.projects[p].bindings \cap DOMAIN s.runtimes}
    ELSE {}
PushProject(s, p) == {Key("ProjectIndex", h) : h \in ProjectHostIds(s, p)}

PushSession(s, sid) ==
    IF Known(s.sessions, sid)
    THEN {Key(v, sid) : v \in {"Transcript", "LiveActivity", "InputQueue"}}
         \cup {Key("SessionIndex", s.sessions[sid].project)}
         \cup PushProject(s, s.sessions[sid].project)
    ELSE {}

PushRuntimeSessions(s, r) ==
    UNION {PushSession(s, sid) : sid \in {x \in DOMAIN s.sessions :
               RuntimeKnown(s, x) /\ s.sessions[x].runtime = r}}
PushProjectWorkflows(s, p) ==
    {Key("WorkflowBoard", w) : w \in {x \in DOMAIN s.workflows : s.workflows[x].project = p}}
PushRuntimeWorkflows(s, r) ==
    UNION {PushProjectWorkflows(s, p) : p \in {q \in DOMAIN s.projects : r \in s.projects[q].bindings}}
PushAllWorkflows(s) == {Key("WorkflowBoard", w) : w \in DOMAIN s.workflows}
PushAttention(s, item) ==
    {Key("AttentionInbox", item.host)} \cup PushProject(s, item.project)
    \cup (IF item.session = None THEN {} ELSE PushSession(s, item.session))

HostKeys(h) == {Key("ProjectIndex", h), Key("AttentionInbox", h)}

RuntimeKeys(before, after, r) ==
    {Key("RuntimeCapability", r), Key("ProjectIndex", after.runtimes[r].host)}
    \cup UNION {PushRuntimeSessions(s, r) \cup PushRuntimeWorkflows(s, r) : s \in {before, after}}

CapabilityKeys(after, r) ==
    {Key("RuntimeCapability", r)} \cup PushRuntimeSessions(after, r) \cup PushRuntimeWorkflows(after, r)

ProjectKeys(before, after, p) ==
    {Key("SessionIndex", p)}
    \cup UNION {PushProject(s, p) \cup PushProjectWorkflows(s, p) : s \in {before, after}}

SessionKeys(before, after, sid) == PushSession(before, sid) \cup PushSession(after, sid)

QueueKeys(before, after, q) ==
    UNION {IF Known(s.queue, q) THEN PushSession(s, s.queue[q].session) ELSE {} : s \in {before, after}}

ItemKeys(before, after, i) ==
    UNION {IF Known(s.items, i) THEN PushSession(s, s.items[i].session) ELSE {} : s \in {before, after}}

\* Mutant: an answered gate does not refresh the boards.
AttentionKeysWithoutBoards(before, after, a) ==
    UNION {IF Known(s.attention, a) THEN PushAttention(s, s.attention[a]) ELSE {} : s \in {before, after}}
AttentionKeys(before, after, a) ==
    UNION {IF Known(s.attention, a) THEN PushAttention(s, s.attention[a]) ELSE {} : s \in {before, after}}
    \cup PushAllWorkflows(after)

WorkflowKeys(before, after, w) ==
    {Key("WorkflowBoard", w)} \cup PushProject(after, after.workflows[w].project)
    \cup (IF Known(before.workflows, w) THEN PushProject(before, before.workflows[w].project) ELSE {})
StepKeys(before, after, x) ==
    {Key("WorkflowBoard", s.steps[x].workflow) : s \in {y \in {before, after} : Known(y.steps, x)}}
ArtifactKeys(before, after, x) ==
    {Key("WorkflowBoard", after.artifacts[x].workflow)}
    \cup {Key("WorkflowBoard", w) : w \in {y \in DOMAIN before.workflows : x \in ArtifactsOf(before, y)}}

(***************************************************************************)
(* The store's commit                                                      *)
(***************************************************************************)
\* Every affected view is built from the next state before anything is
\* written; one that does not build refuses the commit.
Commit(next, keys) ==
    /\ \A k \in keys : Build(next, k).ok
    /\ st' = next
    /\ views' = [k \in keys |-> Build(next, k)] @@ views

Init == st = EmptyState /\ views = <<>>

UpsertHost == \E h \in Hosts, reach \in Reaches :
    Commit(RecomputeDerived(HostUpserted(st, h, reach)), HostKeys(h))

UpsertRuntime == \E r \in Runtimes, h \in Hosts, usable \in Usable, caps \in CapSets :
    /\ ~RuntimeRefused(st, r, h, caps)
    /\ LET next == RecomputeDerived(RuntimeUpserted(st, r, h, usable, caps))
       IN Commit(next, RuntimeKeys(st, next, r))

\* The effects of a host-wide stream are refused before a host is known.
UpdateCapabilities == \E r \in Runtimes, caps \in CapSets :
    /\ DOMAIN st.hosts # {} /\ ~CapabilitiesRefused(st, r, caps)
    /\ LET next == RecomputeDerived(CapabilitiesUpdated(st, r, caps))
       IN Commit(next, CapabilityKeys(next, r))

UpsertProject == \E p \in Projects, r \in Runtimes :
    /\ DOMAIN st.hosts # {}
    /\ LET next == RecomputeDerived(ProjectUpserted(st, p, {r}))
       IN Commit(next, ProjectKeys(st, next, p))

UpsertSession == \E sid \in Sessions, p \in Projects, r \in Runtimes, live \in LiveBindings,
                    archived \in Archived :
    LET session == [project |-> p, runtime |-> r, live |-> live, archived |-> archived]
        next == RecomputeDerived(SessionUpserted(st, sid, session))
    IN ~SessionRefused(st, sid, session) /\ Commit(next, SessionKeys(st, next, sid))

ChangeStatus == \E sid \in Sessions, status \in Reported :
    /\ ~StatusRefused(st, sid)
    /\ LET next == RecomputeDerived(SessionStatusChanged(st, sid, status))
       IN Commit(next, PushSession(next, sid))

UpsertTurn == \E t \in Turns, sid \in Sessions, c \in Commands \cup {None},
                 status \in {"InProgress", "Completed"}, items \in {<<>>} \cup {<<i>> : i \in Items} :
    LET turn == [session |-> sid, origin |-> c, status |-> status, items |-> items]
        next == RecomputeDerived(TurnUpserted(st, t, turn))
    IN ~TurnRefused(st, t, turn) /\ Commit(next, PushSession(next, sid))

\* An adapter writes an item into a turn of the session it belongs to.
UpsertItem == \E i \in Items, t \in Turns, form \in ItemForms :
    /\ ~ItemRefused(st, [turn |-> t])
    /\ LET item == [turn |-> t, session |-> st.turns[t].session, status |-> form[1], body |-> form[2]]
           next == RecomputeDerived(ItemUpserted(st, i, item))
       IN Commit(next, ItemKeys(st, next, i))

UpsertEntry == \E q \in Entries, sid \in Sessions, pending \in BOOLEAN, n \in Positions :
    LET next == RecomputeDerived(QueueEntryUpserted(st, q,
                    [session |-> sid, pending |-> pending, position |-> n]))
    IN Commit(next, QueueKeys(st, next, q))

ReorderQueue == \E sid \in Sessions, q1, q2 \in Entries :
    /\ q1 # q2
    /\ LET next == RecomputeDerived(QueueReordered(st, sid, <<q1, q2>>))
       IN Commit(next, PushSession(next, sid))

UpsertAttention == \E a \in Attentions, h \in Hosts, p \in Projects, sid \in Sessions \cup {None},
                      subject \in Subjects, open \in BOOLEAN :
    /\ sid # None \/ DOMAIN st.hosts # {}
    /\ LET next == RecomputeDerived(AttentionUpserted(st, a,
                       [host |-> h, project |-> p, session |-> sid, subject |-> subject, open |-> open]))
       IN Commit(next, AttentionKeys(st, next, a))

\* Only the broker's own submission path may record a local acceptance; it
\* refreshes no view, and neither does the runtime's.
AcceptLocally == \E c \in Commands :
    /\ DOMAIN st.hosts # {}
    /\ Commit(CommandAcknowledged(st, [command |-> c, outcome |-> "AcceptedLocally",
                                       session |-> None, runtime |-> None, prompt |-> FALSE]), {})
AcceptByRuntime == \E c \in Commands, sid \in Sessions, r \in Runtimes, prompt \in BOOLEAN :
    LET ack == [command |-> c, outcome |-> "AcceptedByRuntime",
                session |-> sid, runtime |-> r, prompt |-> prompt]
    IN /\ DOMAIN st.hosts # {}
       /\ ~AckRefused(st, ack)
       /\ Commit(RecomputeDerived(CommandAcknowledged(st, ack)), {})

UpsertWorkflow == \E w \in Workflows, p \in Projects :
    LET next == RecomputeDerived(WorkflowUpserted(st, w, [project |-> p, steps |-> Steps]))
    IN Commit(next, WorkflowKeys(st, next, w))
UpsertStep == \E x \in Steps, w \in Workflows, r \in Runtimes, d \in SUBSET Steps,
                 c \in SUBSET {"TurnPrompt"}, gate \in Attentions \cup {None}, state \in StepStates :
    /\ x \notin d
    /\ LET next == RecomputeDerived(StepUpserted(st, x, [workflow |-> w, runtime |-> r,
                       dependsOn |-> d, required |-> c, gate |-> gate, state |-> state]))
       IN Commit(next, StepKeys(st, next, x))
UpsertArtifact == \E x \in Artifacts, w \in Workflows, by \in Steps \cup {None} :
    LET next == RecomputeDerived(ArtifactUpserted(st, x, [workflow |-> w, producedBy |-> by]))
    IN Commit(next, ArtifactKeys(st, next, x))

Next ==
    \/ UpsertHost \/ UpsertRuntime \/ UpdateCapabilities \/ UpsertProject
    \/ UpsertSession \/ ChangeStatus \/ UpsertTurn \/ UpsertItem
    \/ UpsertEntry \/ ReorderQueue \/ UpsertAttention
    \/ AcceptLocally \/ AcceptByRuntime
    \/ UpsertWorkflow \/ UpsertStep \/ UpsertArtifact

Spec == Init /\ [][Next]_vars

(***************************************************************************)
(* Properties                                                              *)
(***************************************************************************)
\* The order of first observation lists every known turn exactly once, and a
\* recorded session view names a known session (state.rs, turn_order).
TypeOK ==
    /\ {st.turnOrder[k] : k \in DOMAIN st.turnOrder} = DOMAIN st.turns
    /\ Len(st.turnOrder) = Cardinality(DOMAIN st.turns)
    /\ DOMAIN st.turns \subseteq Turns /\ DOMAIN st.sessions \subseteq Sessions
    /\ \A k \in DOMAIN views : k.view = "Transcript" => Known(st.sessions, k.id)

\* Whatever sequence of effects was committed, every recorded read model is the
\* one a rebuild from the current state would give, none has become
\* unbuildable, and every known host, session, runtime and workflow has its
\* views recorded (projection.rs, affected_keys): a phone that follows the
\* journals sees the canonical state.
ViewsCurrent ==
    /\ \A k \in DOMAIN views : views[k] = Build(st, k)
    /\ \A h \in DOMAIN st.hosts : HostKeys(h) \subseteq DOMAIN views
    /\ \A sid \in DOMAIN st.sessions : PushSession(st, sid) \subseteq DOMAIN views
    /\ \A r \in DOMAIN st.runtimes : Key("RuntimeCapability", r) \in DOMAIN views
    /\ PushAllWorkflows(st) \subseteq DOMAIN views

\* A prompt the runtime accepted has exactly one turn, in the session the
\* acceptance names, for as long as the log lives (state.rs, the checks of
\* TurnUpserted and CommandAcknowledged).
AcceptedPromptHasOneTurn ==
    \A ack \in st.acks : (ack.outcome = "AcceptedByRuntime" /\ ack.prompt) =>
        \E t \in Turns : /\ RemoteTurns(st, ack.command) = {t}
                         /\ st.turns[t].session = ack.session

\* A session is shown as controlled only if its own runtime accepted a command
\* of this very session, and a runtime claims control only if it accepted some
\* command (state.rs, SessionUpserted and has_runtime_acceptance_for).
ControlWasAccepted ==
    LET accepted(sid, r) == \E ack \in st.acks : /\ ack.outcome = "AcceptedByRuntime"
                                                 /\ ack.runtime = r
                                                 /\ ack.session \in sid
    IN /\ \A sid \in DOMAIN st.sessions : st.sessions[sid].live = "Controlling" =>
              accepted({sid}, st.sessions[sid].runtime)
       /\ \A r \in DOMAIN st.runtimes : "LiveControl" \in st.runtimes[r].caps =>
              accepted(Sessions, r)

\* A session whose recorded summary says that it waits for a decision has an
\* open entry in a recorded inbox, and an open entry of a session shows in
\* that session's count: the two screens a person looks at never disagree
\* (state.rs, recompute_derived; projection.rs, attention_inbox).
WaitingIsInTheInbox ==
    \A sid \in DOMAIN st.sessions :
        LET index == views[Key("SessionIndex", st.sessions[sid].project)].payload
            mine == CHOOSE x \in index.active \cup index.history \cup index.archived : x.id = sid
            inboxes == {k \in DOMAIN views : k.view = "AttentionInbox"}
            asked == {e \in UNION {views[k].payload : k \in inboxes} : e.session = sid}
        IN /\ mine.openAttention = Cardinality(asked)
           /\ mine.status = "WaitingApproval" => \E e \in asked : e.subject = "Approval"

\* What a recorded transcript showed stays in it, in its place: turns and the
\* items of a turn are only ever added behind the ones shown (state.rs, "a
\* completion payload may not shrink or replace the accumulated list").
ItemIds(turn) == turn.turn.items
TranscriptOnlyGrows ==
    [][\A k \in DOMAIN views : k.view = "Transcript" =>
         LET old == views[k].payload
             new == views'[k].payload
         IN /\ Len(old) <= Len(new)
            /\ \A n \in DOMAIN old :
                 /\ old[n].id = new[n].id
                 /\ Len(ItemIds(old[n])) <= Len(ItemIds(new[n]))
                 /\ \A m \in DOMAIN ItemIds(old[n]) : ItemIds(old[n])[m] = ItemIds(new[n])[m]]_vars

\* docs/PROTOCOL.md:391: a controlled session "requires both LiveObserve and
\* LiveControl" of its runtime.
ControllingIsCapable ==
    \A sid \in DOMAIN st.sessions : st.sessions[sid].live = "Controlling" =>
        /\ SessionPermits(st, sid, "LiveObserve")
        /\ SessionPermits(st, sid, "LiveControl")
=============================================================================
