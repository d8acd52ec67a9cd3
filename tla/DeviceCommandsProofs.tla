------------------------ MODULE DeviceCommandsProofs ------------------------
(***************************************************************************)
(* IndInv is an invariant of Spec; with it the type invariant, the         *)
(* at-most-once delivery of a device command, the refinement of            *)
(* CommandLifecycle, and the truth of the verdicts in the log.             *)
(***************************************************************************)
EXTENDS DeviceCommandsSteps

-----------------------------------------------------------------------------
(* IndInv is an invariant of Spec.                                         *)

\* An empty data directory and no process satisfy the invariant.
THEOREM InitInd == Init => IndInv
<1> SUFFICES ASSUME Init PROVE IndInv
  OBVIOUS
<1> USE DEF Init, Status, NoRecord, NoTickets
<1>a. faults \in 0..MaxFaults
  BY FaultAssumption
<1>b. told \in [Commands -> {<<>>} \cup (Bodies \X Replies)]
  OBVIOUS
<1>c. attention \in [Attentions -> [state : {"absent", "open", "answered", "closed"},
                                   by : Commands \cup {NoCommand}]]
  OBVIOUS
<1>d. acks \in [Commands -> Seq(Outcomes)]
  OBVIOUS
<1>e. mailbox \in Seq(Commands)
  OBVIOUS
<1>1. TypeOK
  BY <1>a, <1>b, <1>c, <1>d, <1>e, Zenon DEF TypeOK
<1>2. ASSUME NEW c \in Commands PROVE RecordInv(c) /\ Custody(c)
  BY <1>2 DEF RecordInv, Custody, InMailbox
<1>3. MailboxInv /\ CallInv /\ ProcessInv /\ OpInv
  <2>1. MailboxInv /\ CallInv
    BY DEF MailboxInv, CallInv
  <2>2. ProcessInv
    BY DEF ProcessInv
  <2>3. OpInv
    BY DEF OpInv
  <2>4. QED
    BY <2>1, <2>2, <2>3
<1>4. QED
  BY <1>1, <1>2, <1>3 DEF IndInv

\* An operation takes the mutex and writes nothing yet.
LEMMA BeginInd ==
  ASSUME IndInv, op = Idle, op' \in Operation, OpInv', node # "down",
         UNCHANGED <<durable, node, recovering, unswept, recoveryRequired,
                     tickets, worker, mailbox, call, history>>
  PROVE  IndInv'
<1> USE DEF durable, history, Status
<1>1. TypeOK'
  BY Parts DEF TypeOK
<1>2. ASSUME NEW d \in Commands PROVE RecordInv(d)' /\ Custody(d)'
  BY <1>2, Parts DEF RecordInv, Custody, InMailbox
<1>3. MailboxInv' /\ CallInv'
  BY Parts DEF MailboxInv, CallInv
<1>4. ProcessInv'
  BY Parts DEF ProcessInv, NoTickets
<1>5. QED
  BY <1>1, <1>2, <1>3, <1>4 DEF IndInv

\* The decisions of preview_device_admission and of recovery are outcomes.
LEMMA OutcomeTypes ==
  ASSUME IndInv, NEW b \in Bodies
  PROVE  SubmitOutcome(b) \in Outcomes /\ PreviewOutcomes(b) \subseteq Outcomes
BY BodyAssumption, Parts DEF PreviewOutcomes, SubmitOutcome, CheckReply, Outcomes, Refusals,
   TypeOK

\* An admission takes the mutex with a key that has no record.
LEMMA AdmitNewInd ==
  ASSUME IndInv, NEW c \in Commands, NEW b \in Bodies, AdmitNew(c, b)
  PROVE  IndInv'
<1>1. PICK o \in PreviewOutcomes(b) :
        op' = [name |-> "admit", cmd |-> c, body |-> b, ack |-> o, todo |-> AdmitTodo(o)]
  BY DEF AdmitNew
<1>2. AdmitTodo(o) \subseteq Steps
  BY StepRanks DEF AdmitTodo
<1>3. op' \in Operation
  BY <1>1, <1>2, OutcomeTypes DEF Operation
<1>4. OpInv'
  <2>1. /\ op'.name = "admit" /\ op'.cmd = c /\ op'.body = b /\ op'.ack = o
        /\ "insert" \in op'.todo /\ "claim" \notin op'.todo /\ "answer" \notin op'.todo
        /\ "complete" \in op'.todo => o # "AcceptedLocally"
    BY <1>1 DEF AdmitTodo
  <2>2. /\ Status(c) = "none" /\ node = "serving" /\ RecordInv(c) /\ Custody(c)
        /\ UNCHANGED <<outbox, acks, node, unswept, tickets, call, delivered, mailbox>>
    BY Parts DEF AdmitNew, durable, history
  <2>3. /\ acks'[c] = <<>> /\ delivered'[c] = 0 /\ tickets'[c] # "claimed"
        /\ ~InMailbox(c)' /\ node' = "serving"
    BY <2>2 DEF RecordInv, Custody, InMailbox
  <2>4. Status(c)' = "none"
    BY <2>2 DEF Status
  <2>5. {"insert", "claim"} \cap op'.todo # {}
    BY <2>1
  <2>6. QED
    BY <2>1, <2>3, <2>4, <2>5 DEF OpInv
<1>5. QED
  BY <1>3, <1>4, BeginInd DEF AdmitNew, LockFree

\* claim_dispatch and reject_ready_dispatch start from a Ready record nobody
\* has claimed.
LEMMA DispatchBeginInd ==
  ASSUME IndInv, NEW c \in Commands, RejectReady(c) \/ ClaimDispatch(c)
  PROVE  IndInv'
<1> USE DEF Status
<1>1. /\ outbox[c] \in OutboxRecord /\ outbox[c].status = "Ready"
      /\ tickets[c] \in {"held", "resolved"}
      /\ node \in {"starting", "serving"} /\ op = Idle
  <2>1. /\ outbox[c].status = "Ready" /\ op = Idle /\ tickets[c] \in {"held", "resolved"}
    <3>1. CASE RejectReady(c)
      BY <3>1 DEF RejectReady, Pending, LockFree
    <3>2. CASE ClaimDispatch(c)
      BY <3>2 DEF ClaimDispatch, Pending, LockFree
    <3>3. QED
      BY <3>1, <3>2
  <2>2. /\ outbox \in [Commands -> {NoRecord} \cup OutboxRecord]
        /\ node \in {"down", "loading", "starting", "serving"}
        /\ ProcessInv
    BY Zenon, Parts DEF TypeOK
  <2>3. outbox[c] \in OutboxRecord
    BY <2>1, <2>2 DEF NoRecord
  <2>4. node \in {"starting", "serving"}
    BY <2>1, <2>2 DEF ProcessInv, NoTickets
  <2>5. QED
    BY <2>1, <2>3, <2>4
<1>2. op' \in Operation
  <2>1. outbox[c].body \in Bodies /\ outbox[c].ack \in Outcomes
    BY <1>1 DEF OutboxRecord
  <2>2. "RuntimeUnavailable" \in Outcomes
    BY DEF Outcomes, Refusals
  <2>3. {"claim"} \subseteq Steps /\ {"claim", "ack", "complete"} \subseteq Steps
    BY StepRanks
  <2>4. CASE RejectReady(c)
    BY <2>1, <2>2, <2>3, <2>4 DEF RejectReady, Operation
  <2>5. CASE ClaimDispatch(c)
    BY <2>1, <2>3, <2>5 DEF ClaimDispatch, Operation
  <2>6. QED
    BY <2>4, <2>5
<1>3. UNCHANGED <<durable, node, recovering, unswept, recoveryRequired,
                  tickets, worker, mailbox, call, history>>
  BY DEF RejectReady, ClaimDispatch
<1>4. OpInv'
  <2>1. /\ op'.cmd = c /\ op'.body = outbox[c].body /\ op'.name \in {"claim", "reject"}
        /\ op'.todo = IF op'.name = "claim" THEN {"claim"} ELSE {"claim", "ack", "complete"}
    <3>1. CASE RejectReady(c)
      BY <3>1 DEF RejectReady
    <3>2. CASE ClaimDispatch(c)
      BY <3>2 DEF ClaimDispatch
    <3>3. QED
      BY <3>1, <3>2
  <2>2. /\ outbox[c].ack = "AcceptedLocally" /\ delivered[c] = 0 /\ ~InMailbox(c)
        /\ c \notin unswept
    BY <1>1, Parts DEF RecordInv, Custody, ProcessInv
  <2>3. InMailbox(c)' = InMailbox(c)
    BY <1>3 DEF InMailbox
  <2>4. UNCHANGED <<outbox, acks, delivered, node, unswept, tickets>>
    BY <1>3 DEF durable, history
  <2>5. op'.name # "recover" /\ op'.name # "finish" /\ op'.name # "admit"
        /\ tickets[c] # "claimed"
    BY <1>1, <2>1
  <2>6. QED
    <3>1. /\ outbox'[c].status = "Ready" /\ outbox'[c].ack = "AcceptedLocally"
          /\ outbox'[c].body = op'.body /\ delivered'[c] = 0 /\ ~InMailbox(c)'
          /\ tickets'[c] # "claimed" /\ node' \in {"starting", "serving"}
          /\ c \notin unswept' /\ op'.cmd = c
      BY <1>1, <2>1, <2>2, <2>3, <2>4, <2>5
    <3>2. /\ "claim" \in op'.todo /\ "insert" \notin op'.todo
          /\ "answer" \notin op'.todo
          /\ op'.name = "claim" => op'.todo \subseteq {"claim"}
      BY <2>1
    <3>3. Status(op.cmd)' = "Ready"
      BY <3>1
    <3>4. /\ outbox'[op'.cmd].body = op'.body /\ delivered'[op'.cmd] = 0
          /\ ~InMailbox(op.cmd)' /\ tickets'[op'.cmd] # "claimed"
          /\ outbox'[op'.cmd].ack = "AcceptedLocally" /\ op'.cmd \notin unswept'
          /\ node' \in {"starting", "serving"}
      BY <3>1 DEF InMailbox
    <3>5. {"insert", "claim"} \cap op'.todo # {}
      BY <3>2
    <3>6. QED
      <4> HIDE DEF Status
      <4>1. /\ Status(op.cmd)' # "none"
            /\ "claim" \in op'.todo => op'.name \in {"claim", "reject"}
        BY <2>1, <3>3
      <4>2. QED
        BY <2>1, <2>5, <3>2, <3>3, <3>4, <3>5, <4>1 DEF OpInv
<1>5. QED
  BY <1>1, <1>2, <1>3, <1>4, BeginInd

\* finish_dispatch starts from a Claimed record that was delivered.
LEMMA FinishBeginInd ==
  ASSUME IndInv, FinishDispatch
  PROVE  IndInv'
<1> USE DEF Status
<1>1. /\ call \in Call /\ call.cmd \in Commands /\ op = Idle
      /\ outbox[call.cmd] \in OutboxRecord /\ outbox[call.cmd].status = "Claimed"
      /\ node # "down"
  <2>1. call # NoCall /\ op = Idle /\ outbox[call.cmd].status = "Claimed"
    BY DEF FinishDispatch, LockFree
  <2>2. /\ outbox \in [Commands -> {NoRecord} \cup OutboxRecord]
        /\ call \in {NoCall} \cup Call /\ ProcessInv
    BY Zenon, Parts DEF TypeOK
  <2>3. call \in Call /\ call.cmd \in Commands
    BY <2>1, <2>2 DEF Call
  <2>4. outbox[call.cmd] \in OutboxRecord
    BY <2>1, <2>2, <2>3 DEF NoRecord
  <2>5. node # "down"
    BY <2>1, <2>2 DEF ProcessInv
  <2>6. QED
    BY <2>1, <2>3, <2>4, <2>5
<1>2. /\ op'.name = "finish" /\ op'.cmd = call.cmd /\ op'.body = outbox[call.cmd].body
      /\ op'.ack \in {"AcceptedByRuntime", "RejectedByProvider"}
      /\ op'.todo = FinishTodo(outbox[call.cmd].body, call.result)
      /\ op' = [name |-> op'.name, cmd |-> op'.cmd, body |-> op'.body, ack |-> op'.ack,
                todo |-> op'.todo]
  BY DEF FinishDispatch
<1>3. op' \in Operation
  <2>1. op'.todo \subseteq Steps
    BY <1>2, StepRanks DEF FinishTodo
  <2>2. QED
    BY <1>1, <1>2, <2>1 DEF Operation, OutboxRecord, Outcomes, Refusals
<1>4. UNCHANGED <<durable, node, recovering, unswept, recoveryRequired,
                  tickets, worker, mailbox, call, history>>
  BY Zenon DEF FinishDispatch
<1>5. OpInv'
  BY <1>1, <1>2, <1>4, Zenon DEF OpInv, FinishTodo, durable, FinishDispatch
<1>6. QED
  BY <1>1, <1>3, <1>4, <1>5, BeginInd

\* recover_admission starts from a record that is not Completed.
LEMMA RecoverBeginInd ==
  ASSUME IndInv, NEW c \in Commands, RecoverAdmission(c)
  PROVE  IndInv'
<1> USE DEF Status
<1>1. /\ op = Idle /\ node = "loading" /\ outbox[c].status \in {"Ready", "Claimed"}
      /\ outbox[c] \in OutboxRecord
      /\ UNCHANGED <<durable, node, recovering, unswept, recoveryRequired,
                     tickets, worker, mailbox, call, history>>
      /\ op' = [name |-> "recover", cmd |-> c, body |-> outbox[c].body,
                ack |-> RecoveryAck(c), todo |-> RecoverTodo(c)]
  <2>1. /\ op = Idle /\ node = "loading" /\ c \in recovering
        /\ UNCHANGED <<durable, node, recovering, unswept, recoveryRequired,
                       tickets, worker, mailbox, call, history>>
        /\ op' = [name |-> "recover", cmd |-> c, body |-> outbox[c].body,
                  ack |-> RecoveryAck(c), todo |-> RecoverTodo(c)]
    BY DEF RecoverAdmission, LockFree
  <2>2. outbox \in [Commands -> {NoRecord} \cup OutboxRecord] /\ ProcessInv
    BY Zenon, Parts DEF TypeOK
  <2>3. outbox[c].status \in {"Ready", "Claimed"}
    BY <2>1, <2>2 DEF ProcessInv
  <2>4. outbox[c] \in OutboxRecord
    BY <2>2, <2>3 DEF NoRecord
  <2>5. QED
    BY <2>1, <2>3, <2>4
<1>2. RecoveryAck(c) \in Outcomes /\ outbox[c].body \in Bodies
  BY <1>1, OutcomeTypes DEF RecoveryAck, OutboxRecord
<1>3. RecoverTodo(c) \subseteq {"ack", "entry", "idem", "complete"}
  BY DEF RecoverTodo
<1>4. op' \in Operation
  <2>1. RecoverTodo(c) \in SUBSET Steps
    BY <1>3, StepRanks
  <2>2. op' = [name |-> "recover", cmd |-> c, body |-> outbox[c].body,
               ack |-> RecoveryAck(c), todo |-> RecoverTodo(c)]
    BY <1>1
  <2>3. QED
    BY <1>2, <2>1, <2>2 DEF Operation
<1>5. "complete" \in RecoverTodo(c) => outbox[c].status = "Claimed"
  <2>1. TerminalCommitted(c) => outbox[c].status # "Ready"
    BY Parts DEF TerminalCommitted, RecordInv
  <2>2. outbox[c].ack # "AcceptedLocally" => outbox[c].status # "Ready"
    BY Parts DEF RecordInv
  <2>3. "complete" \in RecoverTodo(c) =>
          outbox[c].ack # "AcceptedLocally" \/ TerminalCommitted(c)
    BY DEF RecoverTodo
  <2>4. QED
    BY <1>1, <2>1, <2>2, <2>3
<1>6. "ack" \in RecoverTodo(c) => acks[c] = <<>>
  BY DEF RecoverTodo
<1>7. OpInv'
  BY <1>1, <1>3, <1>5, <1>6 DEF OpInv, durable, history
<1>8. QED
  BY <1>1, <1>4, <1>7, BeginInd

\* The worker takes a claim out of its channel: from now on no holder is left.
LEMMA ProviderInd ==
  ASSUME IndInv, ProviderErrors \/ \E r \in {"accepted", "rejected", "mismatch"} : ProviderAnswers(r)
  PROVE  IndInv'
<1> USE DEF Status
<1>a. mailbox # <<>> /\ mailbox' = Tail(mailbox) /\ mailbox \in Seq(Commands)
  BY Parts DEF ProviderErrors, ProviderAnswers, TypeOK
<1>b. PICK c \in Commands : c = Head(mailbox) /\ c = mailbox[1]
  BY <1>a
<1>1. /\ UNCHANGED <<outbox, acks, attention, queued, idem, node, recovering, unswept,
                     op, recoveryRequired, tickets, worker, told, expired, refused, faults>>
      /\ delivered' = [delivered EXCEPT ![c] = @ + 1] \/ delivered' = delivered
      /\ \/ call' = call /\ call = NoCall
         \/ /\ call'.cmd = c /\ call' \in Call
            /\ delivered' = [delivered EXCEPT ![c] = @ + 1]
  <2>1. CASE ProviderErrors
    BY <1>b, <2>1 DEF ProviderErrors, durable
  <2>2. ASSUME NEW r \in {"accepted", "rejected", "mismatch"}, ProviderAnswers(r)
        PROVE  /\ call'.cmd = c /\ call' \in Call
               /\ delivered' = [delivered EXCEPT ![c] = @ + 1]
    BY <1>b, <2>2 DEF ProviderAnswers, Call
  <2>3. QED
    BY <2>1, <2>2 DEF ProviderAnswers, durable
<1>2. /\ InMailbox(c) /\ Len(mailbox) \in Nat /\ Len(mailbox) >= 1
      /\ mailbox' \in Seq(Commands)
      /\ DOMAIN mailbox = 1..Len(mailbox) /\ DOMAIN mailbox' = 1..(Len(mailbox) - 1)
      /\ \A i \in 1..(Len(mailbox) - 1) : mailbox'[i] = mailbox[i + 1]
  BY <1>a, <1>b DEF InMailbox
<1>3. ~InMailbox(c)' /\ MailboxInv'
      /\ \A d \in Commands : InMailbox(d)' => InMailbox(d)
  <2>1. ASSUME NEW d \in Commands, InMailbox(d)' PROVE InMailbox(d)
    <3>1. PICK i \in 1..(Len(mailbox) - 1) : mailbox'[i] = d
      BY <1>2, <2>1 DEF InMailbox
    <3>2. i + 1 \in DOMAIN mailbox /\ mailbox[i + 1] = d
      BY <1>2, <3>1
    <3>3. QED
      BY <3>2 DEF InMailbox
  <2>2. MailboxInv
    BY DEF IndInv
  <2>3. ASSUME NEW i \in 1..(Len(mailbox) - 1) PROVE mailbox'[i] # c
    BY <1>b, <1>2, <2>2 DEF MailboxInv
  <2>4. ~InMailbox(c)'
    BY <1>2, <2>3 DEF InMailbox
  <2>5. MailboxInv'
    <3>1. SUFFICES ASSUME NEW i \in 1..(Len(mailbox) - 1), NEW j \in 1..(Len(mailbox) - 1),
                          mailbox'[i] = mailbox'[j]
                   PROVE  i = j
      BY <1>2 DEF MailboxInv
    <3>2. mailbox[i + 1] = mailbox[j + 1] /\ i + 1 \in DOMAIN mailbox /\ j + 1 \in DOMAIN mailbox
      BY <1>2, <3>1
    <3>3. i + 1 = j + 1
      BY <2>2, <3>2 DEF MailboxInv
    <3>4. QED
      BY <3>3
  <2>6. QED
    BY <2>1, <2>4, <2>5
<1>4. /\ outbox[c].status = "Claimed" /\ outbox[c].ack = "AcceptedLocally"
      /\ delivered[c] = 0 /\ tickets[c] # "claimed"
  BY <1>2, Parts DEF Custody
<1>5. /\ delivered' \in [Commands -> Nat]
      /\ \A d \in Commands : d # c => delivered'[d] = delivered[d]
      /\ delivered'[c] \in {0, 1}
      /\ delivered' = [delivered EXCEPT ![c] = @ + 1] => delivered'[c] = 1
  <2>1. delivered \in [Commands -> Nat]
    BY Parts DEF TypeOK
  <2>2. delivered' = [delivered EXCEPT ![c] = @ + 1] \/ delivered' = delivered
    BY <1>1
  <2>3. delivered[c] = 0
    BY <1>4
  <2>4. QED
    BY <2>1, <2>2, <2>3
<1>6. TypeOK'
  BY <1>1, <1>2, <1>5, Zenon, Parts DEF TypeOK, Call
<1>7. ASSUME NEW d \in Commands PROVE RecordInv(d)' /\ Custody(d)'
  <2>a. RecordInv(d) /\ Custody(d)
    BY DEF IndInv
  <2>1. CASE d = c
    <3>1. RecordInv(d)'
      BY <1>1, <2>a DEF RecordInv
    <3>2. Custody(d)'
      <4>1. outbox' = outbox /\ tickets' = tickets /\ ~InMailbox(d)'
        BY <1>1, <1>3, <2>1
      <4>2. /\ outbox[d].status = "Claimed" /\ outbox[d].ack = "AcceptedLocally"
            /\ tickets[d] # "claimed" /\ delivered'[d] \in {0, 1}
        BY <1>4, <1>5, <2>1
      <4>3. QED
        BY <4>1, <4>2 DEF Custody
    <3>3. QED
      BY <3>1, <3>2
  <2>2. CASE d # c
    <3>1. RecordInv(d)'
      BY <1>1, <2>a DEF RecordInv
    <3>2. /\ outbox' = outbox /\ tickets' = tickets /\ delivered'[d] = delivered[d]
          /\ InMailbox(d)' => InMailbox(d)
      BY <1>1, <1>3, <1>5, <2>2
    <3>3. Custody(d)'
      BY <2>a, <3>2 DEF Custody
    <3>4. QED
      BY <3>1, <3>3
  <2>3. QED
    BY <2>1, <2>2
<1>8. CallInv'
  BY <1>1, <1>4, <1>5, Parts DEF CallInv, NoCall, TypeOK, Call
<1>9. ProcessInv'
  <2>1. node \notin {"down", "loading"}
    BY <1>a, Parts DEF ProcessInv
  <2>2. QED
    BY <1>1, <2>1, Parts DEF ProcessInv
<1>10. OpInv'
  <2>1. op # Idle => op.cmd \in Commands
    BY Parts DEF TypeOK, Operation
  <2>2. op # Idle /\ op.name \in {"admit", "claim", "reject"} => op.cmd # c
    <3>1. OpInv
      BY DEF IndInv
    <3>2. op # Idle /\ op.name \in {"admit", "claim", "reject"} => ~InMailbox(op.cmd)
      BY <3>1, Zenon DEF OpInv
    <3>3. QED
      BY <1>2, <3>2, Zenon
  <2>3. op # Idle => op.name # "finish"
    BY Parts DEF OpInv, ProviderErrors, ProviderAnswers
  <2>4. QED
    <3>1. CASE op = Idle
      BY <1>1, <3>1 DEF OpInv
    <3>2. CASE op # Idle
      <4>1. PICK o \in Commands : o = op.cmd
        BY <2>1, <3>2
      <4>2. /\ UNCHANGED <<outbox, acks, node, unswept, op>>
            /\ InMailbox(o)' => InMailbox(o)
            /\ tickets' = tickets
        BY <1>1, <1>3, Zenon
      <4>3. op.name \in {"admit", "claim", "reject"} => delivered'[o] = delivered[o]
        BY <1>5, <2>2, <3>2, <4>1
      <4>4. OpInv
        BY DEF IndInv
      <4>5. op.name # "finish" /\ op.cmd = o /\ op'.cmd = o
        BY <2>3, <3>2, <4>1, <4>2
      <4>6. QED
        BY <3>2, <4>2, <4>3, <4>4, <4>5 DEF OpInv
    <3>3. QED
      BY <3>1, <3>2
<1>11. QED
  BY <1>3, <1>6, <1>7, <1>8, <1>9, <1>10 DEF IndInv

\* The steps that touch neither a record, a ticket nor the channel.
LEMMA QuietInd ==
  ASSUME IndInv,
         UNCHANGED <<outbox, acks, queued, idem, op, tickets, mailbox, delivered>>,
         attention' \in [Attentions -> [state : {"absent", "open", "answered", "closed"},
                                        by : Commands \cup {NoCommand}]],
         node' \in {"loading", "starting", "serving", "down"},
         recoveryRequired' \in BOOLEAN, worker' \in {"none", "up", "closing"},
         call' \in {call, NoCall},
         \/ op = Idle
         \/ call' = call /\ node' = node
         \/ call' = call /\ node = "starting" /\ node' = "serving",
         told' \in [Commands -> {<<>>} \cup (Bodies \X Replies)],
         expired' \subseteq Commands, refused' \in BOOLEAN, faults' \in 0..MaxFaults,
         recovering' \subseteq Commands, unswept' \subseteq Commands,
         op = Idle \/ UNCHANGED <<recovering, unswept>>,
         ProcessInv'
  PROVE  IndInv'
<1> USE DEF Status
<1>a. TypeOK /\ MailboxInv /\ CallInv /\ OpInv
  BY DEF IndInv
<1>1. TypeOK'
  BY <1>a DEF TypeOK
<1>2. ASSUME NEW d \in Commands PROVE RecordInv(d)' /\ Custody(d)'
  <2>1. RecordInv(d) /\ Custody(d)
    BY DEF IndInv
  <2>2. RecordInv(d)'
    BY <2>1 DEF RecordInv
  <2>3. InMailbox(d)' = InMailbox(d)
    BY DEF InMailbox
  <2>4. Custody(d)'
    BY <2>1, <2>3 DEF Custody
  <2>5. QED
    BY <2>2, <2>4
<1>3. MailboxInv' /\ CallInv'
  <2>1. MailboxInv'
    BY <1>a DEF MailboxInv
  <2>2. CallInv'
    BY <1>a DEF CallInv
  <2>3. QED
    BY <2>1, <2>2
<1>4. OpInv'
  <2>1. CASE op = Idle
    BY <2>1 DEF OpInv
  <2>2. CASE op # Idle
    <3>1. /\ call' = call
          /\ node' = node \/ (node = "starting" /\ node' = "serving")
      BY <2>2, Zenon
    <3>2. unswept' = unswept
      BY <2>2
    <3>3. InMailbox(op.cmd)' = InMailbox(op.cmd)
      BY DEF InMailbox
    <3>4. QED
      BY <1>a, <2>2, <3>1, <3>2, <3>3 DEF OpInv
  <2>3. QED
    BY <2>1, <2>2
<1>5. QED
  BY <1>1, <1>2, <1>3, <1>4 DEF IndInv

\* The remaining actions: the worker, a load, the sweep and the environment.
LEMMA OtherInd ==
  ASSUME IndInv,
         \/ \E c \in Commands, b \in Bodies : AdmitRepeat(c, b)
         \/ \E a \in Attentions : ProviderAttention(a)
         \/ \E c \in Commands : Expire(c)
         \/ FinishRefused \/ StopSession \/ Load \/ StartRuntimes \/ Serve \/ LoadRefused
  PROVE  IndInv'
<1> USE DEF durable, volatile, history, Status
<1>0. /\ TypeOK /\ ProcessInv
      /\ attention \in [Attentions -> [state : {"absent", "open", "answered", "closed"},
                                       by : Commands \cup {NoCommand}]]
      /\ node \in {"loading", "starting", "serving", "down"}
      /\ recoveryRequired \in BOOLEAN /\ worker \in {"none", "up", "closing"}
      /\ told \in [Commands -> {<<>>} \cup (Bodies \X Replies)]
      /\ expired \subseteq Commands /\ refused \in BOOLEAN /\ faults \in 0..MaxFaults
      /\ recovering \subseteq Commands /\ unswept \subseteq Commands
  BY Parts DEF TypeOK
<1>1. ASSUME NEW c \in Commands, NEW b \in Bodies, AdmitRepeat(c, b) PROVE IndInv'
  <2>1. /\ UNCHANGED <<outbox, acks, queued, idem, op, tickets, mailbox, delivered>>
        /\ UNCHANGED <<attention, node, recoveryRequired, worker, call, expired, refused, faults, recovering, unswept>>
        /\ told' = [told EXCEPT ![c] =
               <<b, IF outbox[c].body = b THEN "Duplicate" ELSE "IdempotencyConflict">>]
    BY <1>1 DEF AdmitRepeat
  <2>2. ProcessInv'
    BY <1>0, <2>1 DEF ProcessInv, NoTickets
  <2>3. <<b, IF outbox[c].body = b THEN "Duplicate" ELSE "IdempotencyConflict">>
          \in Bodies \X Replies
    BY DEF Replies
  <2>4. told' \in [Commands -> {<<>>} \cup (Bodies \X Replies)]
    BY <1>0, <2>1, <2>3, Zenon
  <2>5. QED
    BY <1>0, <2>1, <2>2, <2>3, <2>4, QuietInd
<1>2. ASSUME NEW a \in Attentions, ProviderAttention(a) PROVE IndInv'
  <2>1. /\ UNCHANGED <<outbox, acks, queued, idem, op, tickets, mailbox, delivered>>
        /\ UNCHANGED <<node, worker, call, told, expired, refused, recovering, unswept>>
        /\ op = Idle
        /\ \E s \in {"open", "answered", "closed"} : attention' = [attention EXCEPT ![a].state = s]
        /\ \/ faults' = faults /\ recoveryRequired' = recoveryRequired
           \/ faults < MaxFaults /\ faults' = faults + 1 /\ recoveryRequired' = TRUE
    BY <1>2, Zenon DEF ProviderAttention, LockFree
  <2>2. ProcessInv'
    BY <1>0, <2>1 DEF ProcessInv, NoTickets
  <2>3. attention' \in [Attentions -> [state : {"absent", "open", "answered", "closed"},
                                       by : Commands \cup {NoCommand}]]
    BY <1>0, <2>1
  <2>4. faults' \in 0..MaxFaults
    BY <1>0, <2>1, FaultAssumption
  <2>5. recoveryRequired' \in BOOLEAN
    BY <1>0, <2>1, Zenon
  <2>6. QED
    BY <1>0, <2>1, <2>2, <2>3, <2>4, <2>5, QuietInd
<1>3. ASSUME NEW c \in Commands, Expire(c) PROVE IndInv'
  <2>1. /\ UNCHANGED <<outbox, acks, queued, idem, op, tickets, mailbox, delivered>>
        /\ UNCHANGED <<attention, node, recoveryRequired, worker, call, told, refused, faults, recovering, unswept>>
        /\ expired' = expired \cup {c}
    BY <1>3 DEF Expire
  <2>2. ProcessInv'
    BY <1>0, <2>1 DEF ProcessInv, NoTickets
  <2>3. expired' \subseteq Commands
    BY <1>0, <2>1
  <2>4. QED
    BY <1>0, <2>1, <2>2, <2>3, QuietInd
<1>4. CASE FinishRefused
  <2>1. /\ UNCHANGED <<outbox, acks, queued, idem, op, tickets, mailbox, delivered>>
        /\ UNCHANGED <<attention, node, recoveryRequired, worker, told, expired, refused, faults, recovering, unswept>>
        /\ op = Idle /\ call' = NoCall
    BY <1>4 DEF FinishRefused, LockFree
  <2>2. ProcessInv'
    BY <1>0, <2>1 DEF ProcessInv, NoTickets
  <2>3. QED
    BY <1>0, <2>1, <2>2, QuietInd
<1>5. CASE StopSession
  <2>1. /\ UNCHANGED <<outbox, acks, queued, idem, op, tickets, mailbox, delivered>>
        /\ UNCHANGED <<attention, node, recoveryRequired, call, told, expired, refused, faults, recovering, unswept>>
        /\ worker' = "closing"
    BY <1>5 DEF StopSession
  <2>2. ProcessInv'
    BY <1>0, <2>1 DEF ProcessInv, NoTickets
  <2>3. QED
    BY <1>0, <2>1, <2>2, QuietInd
<1>6. CASE Load
  <2>1. /\ UNCHANGED <<outbox, acks, queued, idem, op, tickets, mailbox, delivered>>
        /\ UNCHANGED <<attention, recoveryRequired, worker, call, told, expired, faults, unswept>>
        /\ node = "down" /\ node' = "loading" /\ refused' = FALSE
        /\ recovering' = {c \in Commands : Status(c) \in {"Ready", "Claimed"}}
    BY <1>6 DEF Load
  <2>2. ProcessInv'
    BY <1>0, <2>1 DEF ProcessInv, NoTickets
  <2>3. op = Idle
    BY <1>0, <2>1 DEF ProcessInv
  <2>4. recovering' \subseteq Commands
    BY <2>1, Zenon
  <2>5. refused' \in BOOLEAN
    BY <2>1
  <2>6. QED
    BY <1>0, <2>1, <2>2, <2>3, <2>4, <2>5, QuietInd
<1>7. CASE StartRuntimes
  <2>1. /\ UNCHANGED <<outbox, acks, queued, idem, op, tickets, mailbox, delivered>>
        /\ UNCHANGED <<attention, recoveryRequired, call, told, expired, refused, faults, recovering>>
        /\ node = "loading" /\ node' = "starting" /\ recovering = {} /\ op = Idle
        /\ worker' \in {"none", "up"}
        /\ unswept' = {c \in Commands : Status(c) = "Ready"}
    BY <1>7 DEF StartRuntimes, LockFree, Pending
  <2>2. ProcessInv'
    BY <1>0, <2>1 DEF ProcessInv, NoTickets
  <2>3. unswept' \subseteq Commands
    BY <2>1
  <2>4. QED
    BY <1>0, <2>1, <2>2, <2>3, QuietInd
<1>8. CASE Serve
  <2>1. /\ UNCHANGED <<outbox, acks, queued, idem, op, tickets, mailbox, delivered>>
        /\ UNCHANGED <<attention, recoveryRequired, worker, call, told, expired, refused, faults, recovering, unswept>>
        /\ node = "starting" /\ node' = "serving" /\ unswept = {}
    BY <1>8 DEF Serve
  <2>2. ProcessInv'
    BY <1>0, <2>1 DEF ProcessInv, NoTickets
  <2>3. QED
    BY <1>0, <2>1, <2>2, QuietInd
<1>9. CASE LoadRefused
  BY <1>9, DieInd, Zenon, Parts DEF LoadRefused, TypeOK, RecordInv
<1>10. QED
  BY <1>1, <1>2, <1>3, <1>4, <1>5, <1>6, <1>7, <1>8, <1>9

\* Every action preserves the invariant.
LEMMA NextInd ==
  ASSUME IndInv, [Next]_vars
  PROVE  IndInv'
<1>1. CASE UNCHANGED vars
  <2>1. ProcessInv'
    BY <1>1, Zenon, Parts DEF vars, durable, volatile, history, ProcessInv, NoTickets, Status
  <2>2. QED
    <3>1. UNCHANGED <<outbox, acks, queued, idem, op, tickets, mailbox, delivered,
                      attention, node, recoveryRequired, worker, call, told, expired,
                      refused, faults, recovering, unswept>>
      BY <1>1, Zenon DEF vars, durable, volatile, history
    <3>2. TypeOK
      BY DEF IndInv
    <3>3. /\ attention' \in [Attentions -> [state : {"absent", "open", "answered", "closed"},
                                            by : Commands \cup {NoCommand}]]
          /\ node' \in {"loading", "starting", "serving", "down"}
          /\ recoveryRequired' \in BOOLEAN /\ worker' \in {"none", "up", "closing"}
          /\ told' \in [Commands -> {<<>>} \cup (Bodies \X Replies)]
          /\ expired' \subseteq Commands /\ refused' \in BOOLEAN /\ faults' \in 0..MaxFaults
          /\ recovering' \subseteq Commands /\ unswept' \subseteq Commands
      BY <3>1, <3>2, Zenon DEF TypeOK
    <3>4. QED
      BY <2>1, <3>1, <3>3, QuietInd
<1>2. CASE BrokerStep
  <2>1. ASSUME NEW s \in Steps, Write(s) PROVE IndInv'
    BY <2>1, StepRanks, OutboxWrite, TableWrite DEF LogSteps
  <2>2. QED
    BY <1>2, <2>1, ReturnInd DEF BrokerStep
<1>3. ASSUME NEW c \in Commands, DispatchStep(c) PROVE IndInv'
  BY <1>3, TicketInd, DispatchBeginInd DEF DispatchStep
<1>4. CASE WorkerStep
  BY <1>4, ProviderInd, FinishBeginInd, OtherInd DEF WorkerStep
<1>5. CASE StartupStep
  BY <1>5, RecoverBeginInd, TicketInd, OtherInd DEF StartupStep
<1>6. CASE Environment
  BY <1>6, AdmitNewInd, FaultInd, OtherInd DEF Environment
<1>7. QED
  BY <1>1, <1>2, <1>3, <1>4, <1>5, <1>6 DEF Next

\* The strengthened invariant holds in every reachable state.
THEOREM IndInvariant == Spec => []IndInv
<1>1. IndInv /\ [Next]_vars => IndInv'
  BY NextInd
<1>2. QED
  BY InitInd, <1>1, PTL DEF Spec

\* Files, memory and thread positions always have the shape the code gives
\* them.
THEOREM TypeCorrect == Spec => []TypeOK
<1>1. IndInv => TypeOK
  BY DEF IndInv
<1>2. QED
  BY IndInvariant, <1>1, PTL

\* A command reaches the provider at most once.
THEOREM DeliveredAtMostOnce == Spec => []AtMostOnce
<1>1. IndInv => AtMostOnce
  BY Parts DEF AtMostOnce, Custody
<1>2. QED
  BY IndInvariant, <1>1, PTL

-----------------------------------------------------------------------------
(* The outbox lines read back, and DeviceCommands implements               *)
(* CommandLifecycle.                                                       *)

\* What a step can do to the records and to the count of deliveries.
LEMMA VisibleSteps ==
  ASSUME IndInv, [Next]_vars
  PROVE  \/ UNCHANGED <<outbox, delivered>>
         \/ \E s \in {"insert", "claim", "complete"} : Write(s)
         \/ \E r \in {"accepted", "rejected", "mismatch"} : ProviderAnswers(r)
         \/ ProviderErrors
<1>1. CASE UNCHANGED vars
  BY <1>1 DEF vars, durable, history
<1>2. ASSUME NEW s \in Steps, Write(s) PROVE s \in {"insert", "claim", "complete"}
                                             \/ UNCHANGED <<outbox, delivered>>
  BY <1>2, StepRanks DEF Write, Perform, AppendEntry, AppendEffect, AppendAnswer, AppendAck,
         RecordIdempotency, durable, history
<1>3. CASE BrokerStep
  BY <1>2, <1>3 DEF BrokerStep, ReturnAdmit, ReturnReject, ReturnClaim, ReturnFinish,
         ReturnRecover, durable, history
<1>4. ASSUME NEW c \in Commands, DispatchStep(c) PROVE UNCHANGED <<outbox, delivered>>
  BY <1>4 DEF DispatchStep, LookUp, RejectReady, ClaimDispatch, ClaimRefused, Send, durable, history
<1>5. CASE WorkerStep
  BY <1>5 DEF WorkerStep, FinishDispatch, FinishRefused, durable, history
<1>6. CASE StartupStep
  BY <1>6 DEF StartupStep, RecoverAdmission, SweepNext, LoadRefused, StartRuntimes, Serve,
         durable, history
<1>7. CASE Environment
  <2>1. ASSUME NEW s \in Steps, WriteFails(s) \/ JournalFails(s) PROVE UNCHANGED <<outbox, delivered>>
    BY <2>1, LogWrite, Zenon DEF WriteFails, JournalFails, durable
  <2>2. QED
    BY <1>7, <2>1 DEF Environment, AdmitNew, AdmitRepeat, ProviderAttention, Expire, StopSession,
           Load, Crash, durable, history
<1>8. QED
  BY <1>1, <1>3, <1>4, <1>5, <1>6, <1>7 DEF Next

\* Every line appended to the outbox is one that read_records accepts.
THEOREM OutboxLinesReadBack == Spec => LinesReadBack
<1>1. IndInv /\ [Next]_vars => [ReadsBack]_outbox
  <2>1. SUFFICES ASSUME IndInv, [Next]_vars, outbox' # outbox PROVE ReadsBack
    OBVIOUS
  <2>2. PICK s \in {"insert", "claim", "complete"} : Write(s)
    BY <2>1, VisibleSteps DEF ProviderAnswers, ProviderErrors, durable
  <2>3. QED
    BY <2>1, <2>2, RecordMoves DEF ReadsBack
<1>2. QED
  BY IndInvariant, <1>1, PTL DEF Spec, LinesReadBack

\* No command is known to an empty data directory.
LEMMA InitLifecycle == Init => Lifecycle!Init
<1> SUFFICES ASSUME Init PROVE Lifecycle!Init
  OBVIOUS
<1>1. \A c \in Commands : outbox[c].status = "none"
  BY DEF Init, NoRecord
<1>2. \A c \in Commands : PhaseOf(c) = "unknown"
  BY <1>1 DEF PhaseOf, LocallyDecided, Status
<1>3. QED
  BY <1>2 DEF Init, Lifecycle!Init

\* A step of phase bookkeeping: only c moves.
LEMMA OneMoves ==
  ASSUME NEW c \in Commands, NEW from, NEW to, PhaseOf(c) = from, PhaseOf(c)' = to,
         \A d \in Commands : d # c => PhaseOf(d)' = PhaseOf(d)
  PROVE  Lifecycle!Move(c, from, to)
BY Zenon DEF Lifecycle!Move

\* Every step moves at most one command, along the abstract life cycle.
LEMMA StepLifecycle ==
  ASSUME IndInv, [Next]_vars
  PROVE  [Lifecycle!Next]_<<[c \in Commands |-> PhaseOf(c)], delivered>>
<1> USE DEF Status
<1>1. CASE UNCHANGED <<outbox, delivered>>
  BY <1>1 DEF PhaseOf, LocallyDecided
<1>2. ASSUME NEW s \in {"insert", "claim", "complete"}, Write(s)
      PROVE  Lifecycle!Next \/ UNCHANGED <<[c \in Commands |-> PhaseOf(c)], delivered>>
  <2>1. PICK c \in Commands : c = op.cmd
    BY <1>2, RecordMoves
  <2>2. \A d \in Commands : d # c => PhaseOf(d)' = PhaseOf(d)
    BY <1>2, <2>1, RecordMoves DEF PhaseOf, LocallyDecided
  <2>3. delivered' = delivered
    BY <1>2, RecordMoves
  <2>4. CASE s = "insert"
    <3>1. PhaseOf(c) = "unknown" /\ PhaseOf(c)' \in {"waiting", "closed"}
      BY <1>2, <2>1, <2>4, RecordMoves DEF PhaseOf, LocallyDecided
    <3>2. Lifecycle!Accept(c) \/ Lifecycle!Decide(c)
      BY <2>2, <2>3, <3>1, OneMoves DEF Lifecycle!Accept, Lifecycle!Decide
    <3>3. QED
      BY <3>2 DEF Lifecycle!Next
  <2>5. CASE s = "claim"
    <3>1. PhaseOf(c) = "waiting" /\ PhaseOf(c)' = "claimed"
      BY <1>2, <2>1, <2>5, RecordMoves, Parts DEF PhaseOf, LocallyDecided, RecordInv, Custody
    <3>2. QED
      BY <2>2, <2>3, <3>1, OneMoves DEF Lifecycle!Claim, Lifecycle!Next
  <2>6. CASE s = "complete"
    <3>1. PhaseOf(c) \in {"claimed", "sent", "closed"} /\ PhaseOf(c)' = "closed"
      BY <1>2, <2>1, <2>6, RecordMoves DEF PhaseOf, LocallyDecided
    <3>2. CASE PhaseOf(c) = "closed"
      BY <2>2, <2>3, <3>1, <3>2
    <3>3. CASE PhaseOf(c) # "closed"
      <4>1. Lifecycle!Close(c)
        BY <2>2, <2>3, <3>1, <3>3, OneMoves DEF Lifecycle!Close
      <4>2. QED
        BY <4>1 DEF Lifecycle!Next
    <3>4. QED
      BY <3>2, <3>3
  <2>7. QED
    BY <2>4, <2>5, <2>6
<1>3. ASSUME ProviderErrors \/ \E r \in {"accepted", "rejected", "mismatch"} : ProviderAnswers(r)
      PROVE  Lifecycle!Next \/ UNCHANGED <<outbox, delivered>>
  <2>1. mailbox # <<>> /\ mailbox \in Seq(Commands) /\ outbox' = outbox
    BY <1>3, Parts DEF ProviderErrors, ProviderAnswers, durable, TypeOK
  <2>2. PICK c \in Commands : c = Head(mailbox) /\ InMailbox(c)
    BY <2>1 DEF InMailbox
  <2>3. outbox[c].status = "Claimed" /\ outbox[c].ack = "AcceptedLocally" /\ delivered[c] = 0
    BY <2>2, Parts DEF Custody
  <2>4. CASE delivered' = [delivered EXCEPT ![c] = @ + 1]
    <3>1. delivered'[c] = 1 /\ \A d \in Commands : d # c => delivered'[d] = delivered[d]
      BY <2>3, <2>4, Parts DEF TypeOK
    <3>2. PhaseOf(c) = "claimed" /\ PhaseOf(c)' = "sent"
      BY <2>1, <2>3, <3>1 DEF PhaseOf, LocallyDecided
    <3>3. \A d \in Commands : d # c => PhaseOf(d)' = PhaseOf(d)
      BY <2>1, <3>1 DEF PhaseOf, LocallyDecided
    <3>4. Lifecycle!Send(c)
      BY <2>4, <3>2, <3>3, OneMoves DEF Lifecycle!Send
    <3>5. QED
      BY <3>4 DEF Lifecycle!Next
  <2>5. CASE delivered' = delivered
    BY <2>1, <2>5
  <2>6. QED
    BY <1>3, <2>2, <2>4, <2>5 DEF ProviderErrors, ProviderAnswers
<1>4. QED
  BY <1>1, <1>2, <1>3, VisibleSteps

\* The files, threads and restarts implement the abstract life of a command.
THEOREM Refinement == Spec => ImplementsLifecycle
<1>1. IndInv /\ [Next]_vars => [Lifecycle!Next]_<<[c \in Commands |-> PhaseOf(c)], delivered>>
  BY StepLifecycle
<1>2. QED
  BY IndInvariant, InitLifecycle, <1>1, PTL DEF Spec, ImplementsLifecycle, Lifecycle!Spec

-----------------------------------------------------------------------------
(* The verdicts in the log agree with what reached the provider.           *)

LocalOutcomes == {"AcceptedLocally", "Enqueued", "NotFound", "ApprovalAlreadyAnswered",
                  "InvalidCommand", "CapabilityUnavailable"}
ProviderVerdicts == {"AcceptedByRuntime", "RejectedByProvider"}

\* Admission and recovery decide locally, the sweep reports an absent runtime,
\* only the end of a provider call reports the provider's verdict.
OutcomeInv ==
  /\ \A c \in Commands : Status(c) # "none" => outbox[c].ack \in LocalOutcomes
  /\ op # Idle =>
       /\ op.name \in {"admit", "claim", "recover"} => op.ack \in LocalOutcomes
       /\ op.name = "reject" => op.ack = "RuntimeUnavailable"
       /\ op.name = "finish" => op.ack \in ProviderVerdicts

\* After RuntimeUnavailable nobody can send the command any more; a provider's
\* verdict is about a command that was sent.
Unsendable(c) ==
  /\ Status(c) \in {"Claimed", "Completed"} /\ delivered[c] = 0
  /\ tickets[c] # "claimed" /\ ~InMailbox(c) /\ ~Claiming(c)
VerdictInv ==
  \A c \in Commands : \A i \in DOMAIN acks[c] :
    /\ acks[c][i] = "RuntimeUnavailable" => Unsendable(c)
    /\ acks[c][i] \in ProviderVerdicts => delivered[c] = 1

\* Who starts to claim a command finds it Ready.
LEMMA ClaimFlow ==
  ASSUME IndInv, [Next]_vars, NEW c \in Commands, Claiming(c)'
  PROVE  Claiming(c) \/ Status(c) = "Ready"
<1>1. ASSUME NEW s \in Steps, Wrote(s) PROVE Claiming(c)
  BY <1>1, WroteOp DEF Claiming
<1>2. CASE Begun
  <2>1. PICK d \in Commands : ClaimDispatch(d)
    <3>1. op'.name = "claim"
      BY DEF Claiming
    <3>2. QED
      BY <1>2, <3>1, AdmitOp, RejectOp, RecoverOp, FinishOp DEF Begun
  <2>2. op'.cmd = c
    BY DEF Claiming
  <2>3. QED
    BY <2>1, <2>2, ClaimOp
<1>3. CASE Rested
  BY <1>3 DEF Rested, Claiming
<1>4. QED
  BY <1>1, <1>2, <1>3, Shape

\* An empty data directory has no outcomes and no verdicts.
LEMMA InitVerdict == Init => OutcomeInv /\ VerdictInv
<1>1. Init => op = Idle /\ \A c \in Commands : outbox[c] = NoRecord /\ acks[c] = <<>>
  BY DEF Init
<1>2. QED
  BY <1>1 DEF NoRecord, OutcomeInv, VerdictInv, Status

\* What admission and recovery decide is decided locally.
LEMMA LocalDecisions ==
  ASSUME IndInv, NEW b \in Bodies
  PROVE  SubmitOutcome(b) \in LocalOutcomes /\ PreviewOutcomes(b) \subseteq LocalOutcomes
BY BodyAssumption, Parts DEF PreviewOutcomes, SubmitOutcome, CheckReply, LocalOutcomes, TypeOK

\* Every step keeps the outcomes with those who may decide them.
LEMMA OutcomeStep ==
  ASSUME IndInv, OutcomeInv, [Next]_vars
  PROVE  OutcomeInv'
<1> USE DEF Status
<1>1. ASSUME NEW c \in Commands, outbox'[c].status # "none" PROVE outbox'[c].ack \in LocalOutcomes
  <2>1. CASE outbox[c].status # "none"
    BY <2>1, RecordsKeep DEF OutcomeInv
  <2>2. CASE outbox[c].status = "none"
    <3>1. Wrote("insert") /\ op.cmd = c
      BY <1>1, <2>2, NewRecord
    <3>2. "insert" \in Steps
      BY StepRanks
    <3>3. op # Idle /\ op.name = "admit" /\ outbox'[c].ack = op.ack
      BY <3>1, <3>2, WroteOp, WroteOutbox
    <3>4. QED
      BY <3>3 DEF OutcomeInv
  <2>3. QED
    BY <2>1, <2>2
<1>2. ASSUME op' # Idle
      PROVE  /\ op'.name \in {"admit", "claim", "recover"} => op'.ack \in LocalOutcomes
             /\ op'.name = "reject" => op'.ack = "RuntimeUnavailable"
             /\ op'.name = "finish" => op'.ack \in ProviderVerdicts
  <2>1. ASSUME NEW s \in Steps, Wrote(s) PROVE op # Idle /\ op'.name = op.name /\ op'.ack = op.ack
    BY <1>2, <2>1, WroteOp
  <2>2. ASSUME NEW c \in Commands, NEW b \in Bodies, AdmitNew(c, b)
        PROVE  op'.name = "admit" /\ op'.ack \in LocalOutcomes
    BY <2>2, AdmitOp, LocalDecisions
  <2>3. ASSUME NEW c \in Commands, RejectReady(c)
        PROVE  op'.name = "reject" /\ op'.ack = "RuntimeUnavailable"
    BY <2>3, RejectOp
  <2>4. ASSUME NEW c \in Commands, ClaimDispatch(c)
        PROVE  op'.name = "claim" /\ op'.ack \in LocalOutcomes
    BY <2>4, ClaimOp DEF OutcomeInv
  <2>5. ASSUME NEW c \in Commands, RecoverAdmission(c)
        PROVE  op'.name = "recover" /\ op'.ack \in LocalOutcomes
    <3>1. op'.name = "recover" /\ op'.ack = RecoveryAck(c) /\ op = Idle /\ c \in recovering
      BY <2>5, RecoverOp
    <3>2. outbox[c].status \in {"Ready", "Claimed"}
      BY <3>1, Parts DEF ProcessInv
    <3>3. outbox[c].body \in Bodies
      BY <3>2, Parts DEF TypeOK, NoRecord, OutboxRecord
    <3>4. QED
      BY <3>1, <3>2, <3>3, LocalDecisions DEF RecoveryAck, OutcomeInv
  <2>6. CASE FinishDispatch
    BY <2>6, FinishOp DEF ProviderVerdicts
  <2>7. CASE Rested
    BY <1>2, <2>7 DEF Rested, OutcomeInv
  <2>8. QED
    BY <2>1, <2>2, <2>3, <2>4, <2>5, <2>6, <2>7, Shape DEF Begun, OutcomeInv
<1>3. QED
  BY <1>1, <1>2 DEF OutcomeInv

\* A command that nobody can send stays so, and one that was sent once too.
LEMMA SendingStays ==
  ASSUME IndInv, [Next]_vars, NEW c \in Commands
  PROVE  /\ Unsendable(c) => Unsendable(c)'
         /\ delivered[c] = 1 => delivered'[c] = 1
<1>1. ASSUME Unsendable(c) PROVE Unsendable(c)'
  <2>1. Status(c)' \in {"Claimed", "Completed"}
    BY <1>1, RecordsKeep DEF Unsendable
  <2>2. delivered'[c] = 0 /\ tickets'[c] # "claimed" /\ ~InMailbox(c)'
    BY <1>1, Flow DEF Unsendable
  <2>3. ~Claiming(c)'
    BY <1>1, ClaimFlow DEF Unsendable
  <2>4. QED
    BY <2>1, <2>2, <2>3 DEF Unsendable
<1>2. ASSUME delivered[c] = 1 PROVE delivered'[c] = 1
  <2>1. ~InMailbox(c)
    BY <1>2, Parts DEF Custody
  <2>2. QED
    BY <1>2, <2>1, Flow
<1>3. QED
  BY <1>1, <1>2

\* The acknowledgement that is appended is true when it is appended.
LEMMA VerdictWritten ==
  ASSUME IndInv, OutcomeInv, Wrote("ack")
  PROVE  /\ op.ack = "RuntimeUnavailable" => Unsendable(op.cmd)
         /\ op.ack \in ProviderVerdicts => delivered[op.cmd] = 1
<1>1. /\ op # Idle /\ op \in Operation /\ op.cmd \in Commands
      /\ "claim" \notin op.todo
  BY WroteOp, StepRanks
<1>2. op.name \in {"admit", "claim", "reject", "finish", "recover"}
  BY <1>1 DEF Operation
<1>3. ASSUME op.ack = "RuntimeUnavailable" PROVE Unsendable(op.cmd)
  <2>1. op.name = "reject"
    BY <1>1, <1>2, <1>3 DEF OutcomeInv, LocalOutcomes, ProviderVerdicts
  <2>2. QED
    BY <1>1, <2>1, Parts DEF OpInv, Unsendable, Claiming
<1>4. ASSUME op.ack \in ProviderVerdicts PROVE delivered[op.cmd] = 1
  <2>1. op.name = "finish"
    BY <1>1, <1>2, <1>4 DEF OutcomeInv, LocalOutcomes, ProviderVerdicts
  <2>2. QED
    BY <1>1, <2>1, Parts DEF OpInv, CallInv
<1>5. QED
  BY <1>3, <1>4

\* Every step keeps the verdicts of the log true.
LEMMA VerdictStep ==
  ASSUME IndInv, OutcomeInv, VerdictInv, [Next]_vars
  PROVE  VerdictInv'
<1> SUFFICES ASSUME NEW c \in Commands, NEW i \in DOMAIN acks'[c]
             PROVE  /\ acks'[c][i] = "RuntimeUnavailable" => Unsendable(c)'
                    /\ acks'[c][i] \in ProviderVerdicts => delivered'[c] = 1
  BY DEF VerdictInv
<1>1. /\ acks'[c][i] = "RuntimeUnavailable" => Unsendable(c)
      /\ acks'[c][i] \in ProviderVerdicts => delivered[c] = 1
  <2>1. CASE i \in DOMAIN acks[c] /\ acks'[c][i] = acks[c][i]
    BY <2>1 DEF VerdictInv
  <2>2. CASE Wrote("ack") /\ op.cmd = c /\ acks'[c][i] = op.ack
    BY <2>2, VerdictWritten
  <2>3. QED
    <3>1. acks[c] \in Seq(Outcomes)
      BY Parts DEF TypeOK
    <3>2. CASE acks'[c] = acks[c]
      BY <2>1, <3>2
    <3>3. CASE Wrote("ack") /\ op.cmd = c /\ acks'[c] = Append(acks[c], op.ack)
      <4>1. op.ack \in Outcomes
        BY <3>3, WroteOp, StepRanks DEF Operation
      <4>2. \/ i \in DOMAIN acks[c] /\ acks'[c][i] = acks[c][i]
            \/ acks'[c][i] = op.ack
        BY <3>1, <3>3, <4>1
      <4>3. QED
        BY <2>1, <2>2, <3>3, <4>2
    <3>4. QED
      BY <3>2, <3>3, AcksGrow
<1>2. QED
  BY <1>1, SendingStays

\* A command reported RuntimeUnavailable never reaches the provider, and one
\* reported accepted or rejected by it did (reject_ready_dispatch and
\* finish_dispatch of RuntimeSupervisor).
THEOREM VerdictsAreTrue == Spec => []TerminalAcksAreTrue
<1>1. Init => OutcomeInv /\ VerdictInv
  BY InitVerdict
<1>2. IndInv /\ OutcomeInv /\ VerdictInv /\ [Next]_vars => (OutcomeInv /\ VerdictInv)'
  BY OutcomeStep, VerdictStep
<1>3. VerdictInv => TerminalAcksAreTrue
  BY DEF VerdictInv, TerminalAcksAreTrue, Unsendable, ProviderVerdicts
<1>4. QED
  BY <1>1, <1>2, <1>3, IndInvariant, PTL DEF Spec

=============================================================================
