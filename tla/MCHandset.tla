------------------------------ MODULE MCHandset ------------------------------
(***************************************************************************)
(* What the phone owes the user, for TLC: its push address reaches the     *)
(* service (PushAddresses), a command is given once however often it is    *)
(* tapped (MobileActions), and an answer to the host's questions is the    *)
(* one the host takes (AttentionReplies).  A behaviour belongs to one      *)
(* scenario, which says what may happen in it.                             *)
(***************************************************************************)
EXTENDS PushAddresses

CONSTANT Scenarios

VARIABLES scenario,
          text, actions, doing, admitted, given, attention, inbox, keys, meant, unsure,
          item, shown, form, asking, stored, sent, pending, replies, now

actionVars == <<text, actions, doing, admitted, given, attention, inbox, keys, meant, unsure>>
replyVars == <<item, shown, form, asking, stored, sent, pending, replies, now>>

-----------------------------------------------------------------------------
(* The push address: failures of every kind; more installation ids than    *)
(* tombstones; operation ids that come twice; the remote path configured   *)
(* again.                                                                  *)
Faulty == INSTANCE PushAddresses WITH Fids <- {"f1", "f2"}, MaxChanges <- 2, MaxWakes <- 1,
  MaxSlots <- 1, FaultKinds <- {"down", "lost", "store", "refused", "vault", "killed"}, MaxFaults <- 1
Rotating == INSTANCE PushAddresses WITH Fids <- {"f1", "f2", "f3"}, MaxTombstones <- 1, MaxChanges <- 3,
  MaxWakes <- 0, MaxSlots <- 1, FaultKinds <- {}, MaxFaults <- 0
Repeated == INSTANCE PushAddresses WITH Fids <- {"f1"}, MaxChanges <- 1, MaxWakes <- 0,
  MaxSlots <- 1, FaultKinds <- {"overlap", "refused", "lost", "killed"}, MaxFaults <- 2
Moved == INSTANCE PushAddresses WITH Fids <- {"f1"}, MaxChanges <- 1, MaxWakes <- 0, MaxSlots <- 2,
  FaultKinds <- {"store", "unregistered", "overlap", "late"}, MaxFaults <- 1

PushInit == IF scenario = "moved" THEN Moved!Init ELSE Faulty!Init
PushNext ==
  \/ scenario = "faulty" /\ Faulty!Next
  \/ scenario = "rotating" /\ Rotating!Next
  \/ scenario = "repeated" /\ Repeated!Next
  \/ scenario = "moved" /\ Moved!Next

-----------------------------------------------------------------------------
(* Commands: answers that are lost, and commands that are refused.         *)
Lost == INSTANCE MobileActions WITH draft <- text, call <- doing,
  Texts <- {"a"}, Slots <- {"prompt", "attention"}, MaxKeys <- 3,
  Lossy <- TRUE, Refusing <- FALSE, Failing <- TRUE
Refused == INSTANCE MobileActions WITH draft <- text, call <- doing,
  Texts <- {"a", "b"}, Slots <- {"prompt"}, MaxKeys <- 3,
  Lossy <- FALSE, Refusing <- TRUE, Failing <- TRUE

ActionInit == IF scenario = "refused" THEN Refused!Init ELSE Lost!Init
ActionNext ==
  \/ scenario = "lost" /\ Lost!Next
  \/ scenario = "refused" /\ Refused!Next

-----------------------------------------------------------------------------
(* Answers: the phone's dialog over questions of three shapes, gates and   *)
(* approvals; and any reply of another device to a question of any shape.  *)
Options == {"o1", "o2"}
Keys == {"k1", "k2"}
P(os, m, f) == [options |-> os, multi |-> m, free |-> f]
AllPrompts == {P(os, m, f) : os \in SUBSET Options, m \in BOOLEAN, f \in BOOLEAN}
ThreePrompts == {P(Options, FALSE, TRUE), P({"o1"}, TRUE, FALSE), P({}, FALSE, TRUE)}
AllGates == [options : SUBSET Options, free : BOOLEAN]

ShortSeqs(S, n) == UNION {[1 .. k -> S] : k \in 0 .. n}
AnyAnswers == [key : Keys, opts : ShortSeqs(Options, 2), free : {"none", "text"}]
\* Every reply of at most two answers, top-level decisions included.
AnyReply ==
    [opt : {"none"}, free : {"none"}, answers : ShortSeqs(AnyAnswers, 2)]
    \cup [opt : Options \cup {"none", "other"}, free : {"none", "text"}, answers : {<<>>}]

Dialog == INSTANCE AttentionReplies WITH draft <- form, call <- asking, wire <- sent,
  Prompts <- ThreePrompts, Gates <- AllGates, Approvals <- SUBSET Options, MaxQuestions <- 2,
  Expiries <- {1}, MaxNow <- 1, Texts <- {"blank", "text", "long"}, Phone <- TRUE,
  ForeignReplies <- {}, MaxReplies <- 1
Others == INSTANCE AttentionReplies WITH draft <- form, call <- asking, wire <- sent,
  Prompts <- AllPrompts, Gates <- AllGates, Approvals <- SUBSET Options, MaxQuestions <- 2,
  Expiries <- {1}, MaxNow <- 1, Texts <- {}, Phone <- FALSE,
  ForeignReplies <- AnyReply, MaxReplies <- 1

\* The item that stands for all of them where no one answers.
SomeApproval == Dialog!Item("approval", <<>>, Options, FALSE, 1)

ReplyInit ==
  /\ IF scenario = "dialog" THEN Dialog!Init ELSE Others!Init
  /\ scenario \notin {"dialog", "others"} => item = SomeApproval
ReplyNext ==
  \/ scenario = "dialog" /\ Dialog!Next
  \/ scenario = "others" /\ Others!Next

-----------------------------------------------------------------------------
MCInit == scenario \in Scenarios /\ PushInit /\ ActionInit /\ ReplyInit
MCNext == /\ UNCHANGED scenario
          /\ \/ PushNext /\ UNCHANGED <<actionVars, replyVars>>
             \/ ActionNext /\ UNCHANGED <<vars, replyVars>>
             \/ ReplyNext /\ UNCHANGED <<vars, actionVars>>
MCvars == <<scenario, vars, actionVars, replyVars>>

\* WorkManager starts what is enqueued, the worker, the lane and the service take their
\* steps; nothing is assumed of Firebase or of the user.
MCSpec ==
  /\ MCInit /\ [][MCNext]_MCvars
  /\ WF_vars(scenario = "faulty" /\ Faulty!StartJob)
  /\ WF_vars(scenario = "faulty" /\ Faulty!LaneStep)
  /\ WF_vars(scenario = "faulty" /\ Faulty!ServiceStep)
  /\ WF_vars(scenario = "faulty" /\ Faulty!WorkerStep("job"))
  /\ WF_vars(scenario = "faulty" /\ Faulty!WorkerStep("old"))

-----------------------------------------------------------------------------
(* What is checked besides UnfinishedIsKept and OutboxIsDurable.           *)

\* The ledger is one the phone can load again (PushRegistrationLedger.loadLocked).
LedgerLoads == CASE scenario = "moved" -> Moved!TypeOK
                 [] scenario = "rotating" -> Rotating!TypeOK
                 [] OTHER -> Faulty!TypeOK

\* When nothing is left to do the service has exactly the address the ledger calls current,
\* unless Firebase or the network overtook it (PushAddressSynchronizer, remote_push.rs).
SettledHasCurrent == scenario # "moved" => SettledIsCurrent

\* A deletion stays owed until the service no longer has the address, or the FID is the
\* phone's again (acknowledgeDeletion).
OwedDeletions ==
  [][scenario # "moved" => \A fid \in ledger.tombs \ ledger'.tombs :
       ledger'.fid = fid \/ mem.slot = 0 \/ service[mem.slot] # fid]_vars

\* The address at the service ends up being the phone's current one (PushRecoveryWorker).
AddressArrives == scenario = "faulty" => EventuallyCurrent

\* A payload reaches the provider no more often than the user meant to send it
\* (performCommand, PendingActionTracker).
DeliveredAsMeant == IF scenario = "refused" THEN Refused!DeliveredAsMeant ELSE Lost!DeliveredAsMeant

\* Two phones answer the same item, with retries: the provider is given one answer
\* (preview_device_admission).
AnsweredOnce == Lost!AnsweredOnce

\* The draft is cleared only after the host has taken exactly that text (performCommand).
DraftKeptUntilTaken == Refused!DraftKeptUntilTaken

\* A reply the phone has sent is refused only because the item changed
\* (validate_mobile_question_answers against check_reply).
PhoneAgreesWithHost == Dialog!PhoneAgreesWithHost

\* An enabled button does something (allQuestionsReady).
EnabledButtonsWork == Dialog!EnabledButtonsWork

\* Nothing is uploaded for a reply that is then refused locally (respond_question_text).
NothingStoredInVain == Dialog!NothingStoredInVain

\* What the host passes on answers every question as it was asked (check_reply).
AcceptedIsComplete == Others!AcceptedIsComplete

\* A reply enters the outbox only in time and never beside another (preview_device_admission).
AcceptedInTime == Others!AcceptedInTime
=============================================================================
