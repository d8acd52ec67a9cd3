-------------------------- MODULE AttentionReplies --------------------------
(***************************************************************************)
(* Answering one attention item from the phone.  Three parts each decide   *)
(* what an answer may look like: the dialog of the Android application     *)
(* (which button is enabled, what a tap collects), the mobile core         *)
(* (kaleido-core product.rs, which validates before it uploads a body) and *)
(* the host (kaleido-proto attention.rs, check_reply at admission).  The   *)
(* item may be answered elsewhere, cancelled or expire meanwhile, and      *)
(* other devices send replies of their own.                                *)
(* Texts are "text", "long" (above MAX_CONTENT_WRITE_BYTES), "blank" or    *)
(* None; options and keys are model values.                                *)
(***************************************************************************)
EXTENDS Integers, Sequences, FiniteSets

CONSTANTS Options, Keys,
          Prompts,        \* shapes of a question: [options, multi, free]
          Gates,          \* shapes of a workflow gate: [options, free]
          Approvals,      \* option sets of approvals
          MaxQuestions, Expiries, MaxNow,
          Texts,          \* what the user may type
          Phone,          \* whether the modelled phone takes part
          ForeignReplies, \* replies of other devices
          MaxReplies      \* bound on replies sent

VARIABLES
    item,     \* the AttentionItem at the host
    shown,    \* whether the phone's inbox lists the item
    draft,    \* questionDrafts / attentionDrafts of the item
    call,     \* respond_question_text or respond_attention_text under way
    stored,   \* number of bodies the current call has uploaded
    wire,     \* the RespondAttention command on its way, or NoReply
    pending,  \* the reply in the host's outbox, or NoReply
    replies, now

vars == <<item, shown, draft, call, stored, wire, pending, replies, now>>

None == "none"
Answer(k, os, t) == [key |-> k, opts |-> os, free |-> t]
Reply(o, t, as) == [opt |-> o, free |-> t, answers |-> as]
NoReply == Reply(None, None, <<>>)
Idle == [pc |-> "idle", reply |-> NoReply, left |-> 0]
Texting == {None, "blank", "text", "long"}
Range1(s) == {s[i] : i \in 1 .. Len(s)}
Unique(s) == Cardinality(Range1(s)) = Len(s)

(***************************************************************************)
(* Items a provider may ask, after AttentionItem::validate.                *)
(***************************************************************************)
\* validate_options
ValidOptions(options, free) == options # {} \/ free

\* validate_questions
ValidQuestions(qs) ==
    /\ qs # <<>>
    /\ Unique([i \in 1 .. Len(qs) |-> qs[i].key])
    /\ \A i \in 1 .. Len(qs) : ValidOptions(qs[i].options, qs[i].free)

Question(k, p) == [key |-> k, options |-> p.options, multi |-> p.multi, free |-> p.free]
QuestionSets ==
    UNION {{[i \in 1 .. n |-> Question(ks[i], ps[i])] :
               ks \in [1 .. n -> Keys], ps \in [1 .. n -> Prompts]} : n \in 0 .. MaxQuestions}

Item(subject, qs, options, free, e) ==
    [subject |-> subject, questions |-> qs, options |-> options, free |-> free,
     exp |-> e, state |-> "open"]

\* AttentionItem::validate of an open item.
ValidItem(i) ==
    CASE i.subject = "question" -> ValidQuestions(i.questions)
      [] i.subject = "approval" -> ValidOptions(i.options, FALSE)
      [] i.subject = "gate" -> ValidOptions(i.options, i.free)

Items ==
    {Item("question", qs, {}, FALSE, e) : qs \in QuestionSets, e \in Expiries}
    \cup {Item("approval", <<>>, os, FALSE, e) : os \in Approvals, e \in Expiries}
    \cup {Item("gate", <<>>, g.options, g.free, e) : g \in Gates, e \in Expiries}

EmptyDraft == [k \in Keys |-> Answer(k, <<>>, None)]

Init ==
    /\ item \in {i \in Items : ValidItem(i)}
    /\ shown = TRUE /\ draft = EmptyDraft /\ call = Idle /\ stored = 0
    /\ wire = NoReply /\ pending = NoReply /\ replies = 0 /\ now = 0

Open == item.state = "open"
\* expired_at; 0 stands for an item without expiry.
ExpiredAt(i, at) == i.exp # 0 /\ at >= i.exp

(***************************************************************************)
(* The host.                                                               *)
(***************************************************************************)
\* validate_answer_options_shape; a reference to an uploaded body is "text".
AnswerShape(a) == Unique(a.opts) /\ (a.opts # <<>> \/ a.free # None)

\* validate_question_answers_shape
AnswersShape(as) ==
    /\ as # <<>>
    /\ Unique([i \in 1 .. Len(as) |-> as[i].key])
    /\ \A i \in 1 .. Len(as) : AnswerShape(as[i])

\* Mutant: a text beside the option of a single choice counts as a second one.
TextCountsAsChoice(qs, as) ==
    /\ AnswersShape(as)
    /\ \A i \in 1 .. Len(as) : \E j \in 1 .. Len(qs) :
          /\ qs[j].key = as[i].key
          /\ qs[j].multi \/ Len(as[i].opts) <= (IF as[i].free = None THEN 1 ELSE 0)
          /\ Range1(as[i].opts) \subseteq qs[j].options
          /\ as[i].free # None => qs[j].free
    /\ Len(as) = Len(qs)

\* validate_question_answers
AnswersFit(qs, as) ==
    /\ AnswersShape(as)
    /\ \A i \in 1 .. Len(as) : \E j \in 1 .. Len(qs) :
          /\ qs[j].key = as[i].key
          /\ qs[j].multi \/ Len(as[i].opts) <= 1
          /\ Range1(as[i].opts) \subseteq qs[j].options
          /\ as[i].free # None => qs[j].free
    /\ Len(as) = Len(qs)

\* validate_top_level_response: an empty option list matches any option.
TopLevelFits(options, free, o, t) ==
    /\ o # None => options = {} \/ o \in options
    /\ t # None => free
    /\ o # None \/ t # None

\* AttentionResponse::validate, on the frame before any state is looked at.
WellFormed(r) ==
    IF r.answers # <<>>
    THEN r.opt = None /\ r.free = None /\ AnswersShape(r.answers)
    ELSE TopLevelFits({}, TRUE, r.opt, r.free)

\* check_reply; session, request key and expiry are those of the item.
CheckReply(i, r, at) ==
    /\ i.state = "open"
    /\ ~ExpiredAt(i, at)
    /\ CASE i.subject = "question" ->
              r.opt = None /\ r.free = None /\ AnswersFit(i.questions, r.answers)
         [] i.subject = "approval" ->
              r.answers = <<>> /\ TopLevelFits(i.options, FALSE, r.opt, r.free)
         [] i.subject = "gate" ->
              r.answers = <<>> /\ TopLevelFits(i.options, i.free, r.opt, r.free)

\* preview_device_admission: one unfinished reply at a time.
Admits(r) == pending = NoReply /\ CheckReply(item, r, now)

\* The command reaches the host; it is persisted or refused.
AdmitReply ==
    /\ wire # NoReply
    /\ pending' = IF Admits(wire) THEN wire ELSE pending
    /\ wire' = NoReply
    /\ UNCHANGED <<item, shown, draft, call, stored, replies, now>>

\* Any other client of the host; its frames are decoded and validated alike.
ForeignReply(r) ==
    /\ replies < MaxReplies /\ replies' = replies + 1
    /\ WellFormed(r)
    /\ pending' = IF Admits(r) THEN r ELSE pending
    /\ UNCHANGED <<item, shown, draft, call, stored, wire, now>>

\* finish_dispatch: the provider took the answer, or did not.
Delivered ==
    /\ pending # NoReply
    /\ item' = [item EXCEPT !.state = "answered"]
    /\ pending' = NoReply
    /\ UNCHANGED <<shown, draft, call, stored, wire, replies, now>>

DeliveryFails ==
    /\ pending # NoReply
    /\ pending' = NoReply
    /\ UNCHANGED <<item, shown, draft, call, stored, wire, replies, now>>

\* The provider's own surface answers or withdraws the request.
ClosedElsewhere ==
    /\ Open /\ item' = [item EXCEPT !.state = "closed"]
    /\ UNCHANGED <<shown, draft, call, stored, wire, pending, replies, now>>

Tick ==
    /\ now < MaxNow /\ now' = now + 1
    /\ UNCHANGED <<item, shown, draft, call, stored, wire, pending, replies>>

(***************************************************************************)
(* The dialog.                                                             *)
(***************************************************************************)
\* The AttentionInbox projection arrives; drafts of a gone item are dropped.
InboxArrives ==
    /\ Phone /\ shown' = Open
    /\ draft' = IF Open THEN draft ELSE EmptyDraft
    /\ UNCHANGED <<item, call, stored, wire, pending, replies, now>>

AtQuestion == Phone /\ shown /\ item.subject = "question" /\ call.pc = "idle"
AtDecision == Phone /\ shown /\ item.subject # "question" /\ call.pc = "idle"

\* onOptionToggle
Toggled(q, os, o) ==
    IF o \in Range1(os) THEN SelectSeq(os, LAMBDA x : x # o)
    ELSE IF q.multi THEN Append(os, o) ELSE <<o>>

ToggleOption(i, o) ==
    LET q == item.questions[i] IN
    /\ AtQuestion /\ o \in q.options
    /\ draft' = [draft EXCEPT ![q.key].opts = Toggled(q, @, o)]
    /\ UNCHANGED <<item, shown, call, stored, wire, pending, replies, now>>

EditFreeForm(i, t) ==
    LET q == item.questions[i] IN
    /\ AtQuestion /\ q.free
    /\ draft' = [draft EXCEPT ![q.key].free = t]
    /\ UNCHANGED <<item, shown, call, stored, wire, pending, replies, now>>

\* trim().takeIf(String::isNotEmpty)
Trimmed(t) == IF t = "blank" THEN None ELSE t

\* allQuestionsReady
AllQuestionsReady(d) ==
    \A i \in 1 .. Len(item.questions) :
        LET q == item.questions[i]
        IN  d[q.key].opts # <<>> \/ (q.free /\ Trimmed(d[q.key].free) # None)

Collected(d) ==
    [i \in 1 .. Len(item.questions) |->
        LET q == item.questions[i] IN Answer(q.key, d[q.key].opts, Trimmed(d[q.key].free))]

(***************************************************************************)
(* The mobile core.                                                        *)
(***************************************************************************)
Fits(t) == t # "long"

\* validate_mobile_question_answers
MobileAnswersValid(qs, as) ==
    /\ Len(as) = Len(qs)
    /\ Unique([i \in 1 .. Len(as) |-> as[i].key])
    /\ \A i \in 1 .. Len(as) : \E j \in 1 .. Len(qs) :
          /\ qs[j].key = as[i].key
          /\ as[i].opts # <<>> \/ as[i].free # None
          /\ as[i].free # None => as[i].free # "blank" /\ qs[j].free /\ Fits(as[i].free)
          /\ qs[j].multi \/ Len(as[i].opts) <= 1
          /\ Unique(as[i].opts) /\ Range1(as[i].opts) \subseteq qs[j].options

FreeTexts(r) ==
    Cardinality({i \in 1 .. Len(r.answers) : r.answers[i].free # None})
    + (IF r.free # None THEN 1 ELSE 0)

Begin(r) ==
    /\ call' = [pc |-> "upload", reply |-> r, left |-> FreeTexts(r)]
    /\ stored' = 0
ContractError(r) ==
    /\ call' = [pc |-> "contract", reply |-> r, left |-> 0]
    /\ stored' = 0

\* The button "submit all", then respond_question_text up to its first upload.
RespondQuestion ==
    LET r == Reply(None, None, Collected(draft)) IN
    /\ AtQuestion /\ AllQuestionsReady(draft)
    /\ IF MobileAnswersValid(item.questions, r.answers) THEN Begin(r) ELSE ContractError(r)
    /\ UNCHANGED <<item, shown, draft, wire, pending, replies, now>>

\* respond_attention_text: an option button, or the text of a gate.
RespondAttention(o, t) ==
    LET r == Reply(o, t, <<>>)
        freeAllowed == item.subject = "gate" /\ item.free
    IN
    /\ AtDecision
    /\ \/ o \in item.options /\ t = None
       \/ o = None /\ item.subject = "gate" /\ item.free /\ t \notin {None, "blank"}
    /\ IF (o = None \/ o \in item.options) /\ (t = None \/ (freeAllowed /\ Fits(t)))
       THEN Begin(r) ELSE ContractError(r)
    /\ UNCHANGED <<item, shown, draft, wire, pending, replies, now>>

\* upload_sensitive_text of the next body; the host may refuse it.
UploadText ==
    /\ call.pc = "upload" /\ call.left > 0
    /\ \/ call' = [call EXCEPT !.left = @ - 1] /\ stored' = stored + 1
       \/ call' = [call EXCEPT !.pc = "rejected"] /\ UNCHANGED stored
    /\ UNCHANGED <<item, shown, draft, wire, pending, replies, now>>

\* submit_mobile_command
SubmitReply ==
    /\ call.pc = "upload" /\ call.left = 0
    /\ wire = NoReply /\ replies < MaxReplies
    /\ IF WellFormed(call.reply)
       THEN wire' = call.reply /\ call' = Idle /\ replies' = replies + 1
       ELSE call' = [call EXCEPT !.pc = "contract"] /\ UNCHANGED <<wire, replies>>
    /\ UNCHANGED <<item, shown, draft, stored, pending, now>>

\* The message of performCommand is shown and the dialog is usable again.
CallReturns ==
    /\ call.pc \in {"contract", "rejected"}
    /\ call' = Idle
    /\ UNCHANGED <<item, shown, draft, stored, wire, pending, replies, now>>

Next ==
    \/ AdmitReply \/ Delivered \/ DeliveryFails \/ ClosedElsewhere \/ Tick
    \/ \E r \in ForeignReplies : ForeignReply(r)
    \/ InboxArrives
    \/ \E i \in 1 .. Len(item.questions), o \in Options : ToggleOption(i, o)
    \/ \E i \in 1 .. Len(item.questions), t \in Texts : EditFreeForm(i, t)
    \/ RespondQuestion
    \/ \E o \in Options \cup {None}, t \in Texts \cup {None} : RespondAttention(o, t)
    \/ UploadText \/ SubmitReply \/ CallReturns

Spec == Init /\ [][Next]_vars

(***************************************************************************)
(* Properties                                                              *)
(***************************************************************************)
TypeOK ==
    /\ item.state \in {"open", "answered", "closed"} /\ shown \in BOOLEAN
    /\ \A k \in Keys : draft[k].key = k /\ draft[k].free \in Texting
                       /\ Range1(draft[k].opts) \subseteq Options
    /\ call.pc \in {"idle", "upload", "contract", "rejected"}
    /\ call.left \in 0 .. MaxQuestions /\ stored \in 0 .. MaxQuestions
    /\ replies \in 0 .. MaxReplies /\ now \in 0 .. MaxNow
    /\ call.pc = "upload" => stored + call.left = FreeTexts(call.reply)

\* A reply the phone has sent is refused only because the item changed: the
\* host finds nothing wrong with its shape (validate_mobile_question_answers
\* against check_reply).
PhoneAgreesWithHost ==
    (wire # NoReply /\ Open /\ ~ExpiredAt(item, now)) => CheckReply(item, wire, now)

\* An enabled button does something: the core refuses locally only a text
\* that is too long (allQuestionsReady against
\* validate_mobile_question_answers).
EnabledButtonsWork ==
    call.pc = "contract" =>
        \/ ~Fits(call.reply.free)
        \/ \E i \in 1 .. Len(call.reply.answers) : ~Fits(call.reply.answers[i].free)

\* What the host passes on to the provider answers every question, each at
\* most once, with offered options only, one of them where one is asked for,
\* and with free text only where it is allowed (check_reply).
AcceptedIsComplete ==
    (pending # NoReply /\ item.subject = "question") =>
        \A j \in 1 .. Len(item.questions) :
            LET q == item.questions[j]
                mine == {i \in 1 .. Len(pending.answers) : pending.answers[i].key = q.key}
            IN  /\ Cardinality(mine) = 1
                /\ \A i \in mine :
                     LET a == pending.answers[i] IN
                     /\ \A x, y \in 1 .. Len(a.opts) : a.opts[x] = a.opts[y] => x = y
                     /\ \A x \in 1 .. Len(a.opts) : a.opts[x] \in q.options
                     /\ q.multi \/ Len(a.opts) < 2
                     /\ a.free # None => q.free
                     /\ Len(a.opts) > 0 \/ a.free # None

\* A reply enters the outbox only while the item is open and before its
\* expiry, and never beside another unfinished one
\* (preview_device_admission).
AcceptedInTime ==
    [][(pending' # pending /\ pending' # NoReply)
       => Open /\ pending = NoReply /\ (item.exp = 0 \/ now < item.exp)]_vars

\* "This keeps an invalid later answer from leaking an earlier free-form
\* answer into the broker content store" (respond_question_text).
NothingStoredInVain == call.pc = "contract" => stored = 0

\* "it must select an option the runtime actually offered" (check_reply).
OnlyOfferedOptions ==
    (pending # NoReply /\ pending.opt # None) => pending.opt \in item.options
=============================================================================
