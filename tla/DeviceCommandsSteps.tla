------------------------ MODULE DeviceCommandsSteps ------------------------
(***************************************************************************)
(* The steps of the broker mutex and of dispatch_ticket keep IndInv: the   *)
(* durable writes, the failures, the returns, the moves of a ticket.       *)
(***************************************************************************)
EXTENDS DeviceCommands, TLAPS

\* The conjuncts of the invariant.
LEMMA Parts ==
  ASSUME IndInv
  PROVE  /\ TypeOK /\ MailboxInv /\ CallInv /\ ProcessInv /\ OpInv
         /\ \A c \in Commands : RecordInv(c) /\ Custody(c)
BY DEF IndInv

\* The eight durable writes have a rank, and the log writes are among them.
LEMMA StepRanks ==
  /\ Steps = {"insert", "claim", "entry", "effect", "answer", "ack", "idem", "complete"}
  /\ Rank["insert"] = 1 /\ Rank["claim"] = 2 /\ Rank["entry"] = 3
  /\ Rank["effect"] = 4 /\ Rank["answer"] = 5 /\ Rank["ack"] = 6
  /\ Rank["idem"] = 7 /\ Rank["complete"] = 8
BY DEF Steps, Rank

\* The log writes leave the outbox alone and keep the records in order.
LEMMA LogWrite ==
  ASSUME IndInv, NEW s \in LogSteps, Due(s), Perform(s)
  PROVE  /\ outbox' = outbox
         /\ acks' \in [Commands -> Seq(Outcomes)]
         /\ attention' \in [Attentions -> [state : {"absent", "open", "answered", "closed"},
                                           by : Commands \cup {NoCommand}]]
         /\ queued' \subseteq Commands /\ idem' \subseteq Commands
         /\ \A c \in Commands : RecordInv(c)'
<1> op \in Operation /\ s \in op.todo
  BY Parts DEF TypeOK, Due
<1> USE DEF Status
<1>1. CASE s = "entry"
  BY <1>1, Parts DEF Perform, AppendEntry, TypeOK, RecordInv, Operation
<1>2. CASE s = "effect"
  BY <1>2, Parts DEF Perform, AppendEffect, durable, TypeOK, RecordInv
<1>3. CASE s = "answer"
  <2>1. op.body.target \in Attentions
    BY <1>3, BodyAssumption, Parts DEF OpInv, Due, Operation
  <2>2. attention' = [attention EXCEPT ![op.body.target] =
                        [state |-> "answered", by |-> op.cmd]]
        /\ UNCHANGED <<outbox, acks, queued, idem>>
    BY <1>3 DEF Perform, AppendAnswer
  <2>3. op.cmd \in Commands
    BY DEF Operation
  <2>4. attention' \in [Attentions -> [state : {"absent", "open", "answered", "closed"},
                                       by : Commands \cup {NoCommand}]]
    BY <2>1, <2>2, <2>3, Parts DEF TypeOK
  <2>5. QED
    BY <2>2, <2>4, Parts DEF TypeOK, RecordInv
<1>4. CASE s = "ack"
  <2>1. "insert" \notin op.todo /\ "claim" \notin op.todo
    BY <1>4, StepRanks DEF Due
  <2>a. acks' = [acks EXCEPT ![op.cmd] = Append(acks[op.cmd], op.ack)]
    BY <1>4 DEF Perform, AppendAck
  <2>b. op.cmd \in Commands /\ op.ack \in Outcomes
    BY DEF Operation
  <2>c. Append(acks[op.cmd], op.ack) \in Seq(Outcomes)
    BY <2>b, Parts DEF TypeOK
  <2>2. acks' \in [Commands -> Seq(Outcomes)]
    BY <2>a, <2>c, Zenon, Parts DEF TypeOK
  <2>3. ASSUME NEW c \in Commands PROVE RecordInv(c)'
    <3>1. CASE c # op.cmd
      BY <1>4, <3>1, Parts DEF Perform, AppendAck, TypeOK, RecordInv, Operation
    <3>2. CASE c = op.cmd
      <4>1. acks'[c] = Append(acks[c], op.ack) /\ outbox' = outbox
        BY <1>4, <3>2, Parts DEF Perform, AppendAck, TypeOK, Operation
      <4>2. outbox[c].status # "none"
        BY <1>4, <2>1, <3>2, Parts DEF OpInv, Due
      <4>3. outbox[c].status = "Ready" => acks[c] = <<>>
        BY <1>4, <2>1, <3>2, Parts DEF OpInv, Due, Operation
      <4>4. outbox[c].status = "Ready" => Len(acks'[c]) <= 1
        BY <4>1, <4>3
      <4>5. QED
        BY <4>1, <4>2, <4>4, Parts DEF RecordInv
    <3>3. QED
      BY <3>1, <3>2
  <2>4. QED
    BY <1>4, <2>2, <2>3, Parts DEF Perform, AppendAck, TypeOK
<1>5. QED
  BY <1>1, <1>2, <1>3, <1>4 DEF LogSteps

\* A write of an outbox line: the record of the operation moves, no other.
LEMMA RecordMoves ==
  ASSUME IndInv, NEW s \in {"insert", "claim", "complete"}, Write(s)
  PROVE  /\ op \in Operation /\ op.cmd \in Commands /\ op.body \in Bodies
         /\ op.ack \in Outcomes /\ s \in op.todo
         /\ op' = [op EXCEPT !.todo = @ \ {s}] /\ op' \in Operation
         /\ UNCHANGED <<acks, attention, queued, idem, node, recovering, unswept,
                        recoveryRequired, tickets, worker, mailbox, call,
                        delivered, told, expired, refused, faults>>
         /\ s = "complete" => "insert" \notin op.todo /\ "claim" \notin op.todo
         /\ s = "insert" => op.name = "admit" /\ Status(op.cmd) = "none"
         /\ s = "claim" => op.name \in {"claim", "reject"} /\ Status(op.cmd) = "Ready"
         /\ s = "complete" => Status(op.cmd) = "Claimed"
         /\ outbox' \in [Commands -> {NoRecord} \cup OutboxRecord]
         /\ \A d \in Commands : d # op.cmd => outbox'[d] = outbox[d]
         /\ s = "insert" => outbox'[op.cmd] =
               [status |-> IF op.ack = "AcceptedLocally" THEN "Ready" ELSE "Claimed",
                body |-> op.body, ack |-> op.ack]
         /\ s # "insert" => /\ outbox'[op.cmd].body = outbox[op.cmd].body
                            /\ outbox'[op.cmd].ack = outbox[op.cmd].ack
         /\ s = "claim" => outbox'[op.cmd].status = "Claimed"
         /\ s = "complete" => outbox'[op.cmd].status = "Completed"
<1> USE DEF Status
<1>1. /\ op \in Operation /\ op.cmd \in Commands /\ op.body \in Bodies
      /\ op.ack \in Outcomes /\ s \in op.todo
      /\ op' = [op EXCEPT !.todo = @ \ {s}]
      /\ op' \in Operation
  BY Zenon, Parts DEF TypeOK, Write, Due, Operation
<1>2. /\ UNCHANGED <<acks, attention, queued, idem, node, recovering, unswept,
                     recoveryRequired, tickets, worker, mailbox, call,
                     delivered, told, expired, refused, faults>>
      /\ \/ /\ s = "insert"
            /\ outbox' = [outbox EXCEPT ![op.cmd] =
                 [status |-> IF op.ack = "AcceptedLocally" THEN "Ready" ELSE "Claimed",
                  body |-> op.body, ack |-> op.ack]]
         \/ s = "claim" /\ outbox' = [outbox EXCEPT ![op.cmd].status = "Claimed"]
         \/ s = "complete" /\ outbox' = [outbox EXCEPT ![op.cmd].status = "Completed"]
  BY DEF Write, Perform, InsertRecord, ClaimRecord, CompleteRecord, history
<1>3. s = "complete" => "insert" \notin op.todo /\ "claim" \notin op.todo
  BY StepRanks DEF Write, Due
<1>4. /\ s = "insert" => op.name = "admit" /\ outbox[op.cmd].status = "none"
      /\ s = "claim" => /\ op.name \in {"claim", "reject"}
                        /\ outbox[op.cmd].status = "Ready"
      /\ s = "complete" => outbox[op.cmd].status = "Claimed"
  BY <1>1, <1>3, Parts DEF OpInv, Idle, Operation
<1>5. /\ outbox' \in [Commands -> {NoRecord} \cup OutboxRecord]
      /\ \A d \in Commands : d # op.cmd => outbox'[d] = outbox[d]
      /\ s = "insert" => outbox'[op.cmd] =
                 [status |-> IF op.ack = "AcceptedLocally" THEN "Ready" ELSE "Claimed",
                  body |-> op.body, ack |-> op.ack]
      /\ s # "insert" => /\ outbox'[op.cmd].body = outbox[op.cmd].body
                         /\ outbox'[op.cmd].ack = outbox[op.cmd].ack
      /\ s = "claim" => outbox'[op.cmd].status = "Claimed"
      /\ s = "complete" => outbox'[op.cmd].status = "Completed"
  <2>1. outbox \in [Commands -> {NoRecord} \cup OutboxRecord]
    BY Parts DEF TypeOK
  <2>2. CASE s = "insert"
    <3>1. [status |-> IF op.ack = "AcceptedLocally" THEN "Ready" ELSE "Claimed",
           body |-> op.body, ack |-> op.ack] \in OutboxRecord
      BY <1>1 DEF OutboxRecord
    <3>2. QED
      BY <1>1, <1>2, <2>1, <2>2, <3>1
  <2>3. CASE s # "insert"
    <3>1. outbox[op.cmd] \in OutboxRecord
      BY <1>1, <1>4, <2>1, <2>3 DEF NoRecord
    <3>2. CASE s = "claim"
      <4>1. [outbox[op.cmd] EXCEPT !.status = "Claimed"] \in OutboxRecord
        BY <3>1 DEF OutboxRecord
      <4>2. outbox' = [outbox EXCEPT ![op.cmd] = [outbox[op.cmd] EXCEPT !.status = "Claimed"]]
        BY <1>2, <3>2
      <4>3. QED
        BY <1>1, <2>1, <3>1, <3>2, <4>1, <4>2 DEF OutboxRecord
    <3>3. CASE s = "complete"
      <4>1. [outbox[op.cmd] EXCEPT !.status = "Completed"] \in OutboxRecord
        BY <3>1 DEF OutboxRecord
      <4>2. outbox' = [outbox EXCEPT ![op.cmd] = [outbox[op.cmd] EXCEPT !.status = "Completed"]]
        BY <1>2, <3>3
      <4>3. QED
        BY <1>1, <2>1, <3>1, <3>3, <4>1, <4>2 DEF OutboxRecord
    <3>4. QED
      BY <2>3, <3>2, <3>3
  <2>4. QED
    BY <2>2, <2>3
<1>6. QED
  BY <1>1, <1>2, <1>3, <1>4, <1>5

\* insert, claim and complete preserve the invariant.
LEMMA OutboxWrite ==
  ASSUME IndInv, NEW s \in {"insert", "claim", "complete"}, Write(s)
  PROVE  IndInv'
<1> USE DEF Status
<1>1. /\ op \in Operation /\ op.cmd \in Commands /\ op.body \in Bodies
      /\ op.ack \in Outcomes /\ s \in op.todo
      /\ op' = [op EXCEPT !.todo = @ \ {s}] /\ op' \in Operation
      /\ UNCHANGED <<acks, attention, queued, idem, node, recovering, unswept,
                     recoveryRequired, tickets, worker, mailbox, call,
                     delivered, told, expired, refused, faults>>
      /\ s = "complete" => "insert" \notin op.todo /\ "claim" \notin op.todo
      /\ s = "insert" => op.name = "admit" /\ Status(op.cmd) = "none"
      /\ s = "claim" => op.name \in {"claim", "reject"} /\ Status(op.cmd) = "Ready"
      /\ s = "complete" => Status(op.cmd) = "Claimed"
      /\ outbox' \in [Commands -> {NoRecord} \cup OutboxRecord]
      /\ \A d \in Commands : d # op.cmd => outbox'[d] = outbox[d]
      /\ s = "insert" => outbox'[op.cmd] =
            [status |-> IF op.ack = "AcceptedLocally" THEN "Ready" ELSE "Claimed",
             body |-> op.body, ack |-> op.ack]
      /\ s # "insert" => /\ outbox'[op.cmd].body = outbox[op.cmd].body
                         /\ outbox'[op.cmd].ack = outbox[op.cmd].ack
      /\ s = "claim" => outbox'[op.cmd].status = "Claimed"
      /\ s = "complete" => outbox'[op.cmd].status = "Completed"
  BY RecordMoves
<1>6. TypeOK'
  BY <1>1, Parts DEF TypeOK
<1>7. /\ s = "complete" => ~(tickets[op.cmd] = "claimed" \/ InMailbox(op.cmd))
      /\ s # "complete" => delivered[op.cmd] = 0 /\ tickets[op.cmd] # "claimed"
                           /\ ~InMailbox(op.cmd)
  BY <1>1, Parts DEF OpInv, Custody, CallInv, ProcessInv, NoTickets, InMailbox, Idle,
     Operation, TypeOK
<1>8. ASSUME NEW d \in Commands PROVE RecordInv(d)' /\ Custody(d)'
  BY <1>1, <1>7, Parts DEF RecordInv, Custody, InMailbox
<1>9. MailboxInv' /\ CallInv'
  BY <1>1, Parts DEF MailboxInv, CallInv
<1>10. ProcessInv'
  <2>1. op # Idle /\ op'.name = op.name /\ op'.cmd = op.cmd /\ op' # Idle
    BY <1>1 DEF Operation, Idle
  <2>2. node = "loading" => op.name = "recover"
    BY <1>1, <2>1, Parts DEF OpInv, ProcessInv, Operation
  <2>3. op.cmd \notin unswept
    BY <1>1, <2>1, Parts DEF OpInv, ProcessInv, Operation
  <2>4. \A d \in recovering : \/ outbox'[d].status \in {"Ready", "Claimed"}
                              \/ op'.name = "recover" /\ op'.cmd = d
    BY <1>1, <2>1, <2>2, Parts DEF ProcessInv, TypeOK
  <2>5. \A d \in unswept : outbox'[d].status = "Ready" /\ tickets[d] = "none"
    <3>1. \A d \in unswept : d \in Commands /\ Status(d) = "Ready" /\ tickets[d] = "none"
      BY Parts DEF ProcessInv, TypeOK
    <3>2. QED
      BY <1>1, <2>3, <3>1
  <2>6. QED
    BY <1>1, <2>1, <2>4, <2>5, Parts DEF ProcessInv, NoTickets
<1>11. OpInv'
  <2>1. /\ op'.name = op.name /\ op'.cmd = op.cmd /\ op'.body = op.body
        /\ op'.ack = op.ack /\ op'.todo = op.todo \ {s} /\ op # Idle
    BY <1>1 DEF Operation, Idle
  <2>a. /\ OpInv /\ (InMailbox(op.cmd)' <=> InMailbox(op.cmd))
        /\ UNCHANGED <<acks, node, unswept, tickets, call, delivered>>
    BY <1>1, Parts DEF InMailbox
  <2>2. CASE s = "insert"
    BY <1>1, <2>1, <2>a, <2>2 DEF OpInv
  <2>3. CASE s = "claim"
    BY <1>1, <2>1, <2>a, <2>3 DEF OpInv
  <2>4. CASE s = "complete"
    BY <1>1, <2>1, <2>a, <2>4 DEF OpInv
  <2>5. QED
    BY <2>2, <2>3, <2>4
<1>12. QED
  BY <1>6, <1>8, <1>9, <1>10, <1>11 DEF IndInv

\* A write of the log or of the idempotency table.
LEMMA TableWrite ==
  ASSUME IndInv, NEW s \in LogSteps \cup {"idem"}, Write(s)
  PROVE  IndInv'
<1> USE DEF Status
<1>1. /\ op \in Operation /\ op.cmd \in Commands /\ s \in op.todo /\ op # Idle
      /\ op' = [op EXCEPT !.todo = @ \ {s}] /\ op' \in Operation
      /\ op'.name = op.name /\ op'.cmd = op.cmd /\ op'.body = op.body
      /\ op'.ack = op.ack /\ op'.todo = op.todo \ {s} /\ op' # Idle
  BY Zenon, Parts DEF TypeOK, Write, Due, Operation, Idle
<1>2. UNCHANGED <<node, recovering, unswept, recoveryRequired, tickets, worker,
                  mailbox, call, delivered, told, expired, refused, faults>>
  BY DEF Write, history
<1>3. /\ outbox' = outbox
      /\ acks' \in [Commands -> Seq(Outcomes)]
      /\ attention' \in [Attentions -> [state : {"absent", "open", "answered", "closed"},
                                        by : Commands \cup {NoCommand}]]
      /\ queued' \subseteq Commands /\ idem' \subseteq Commands
      /\ \A c \in Commands : RecordInv(c)'
  <2>1. CASE s \in LogSteps
    BY <2>1, LogWrite DEF Write
  <2>2. CASE s = "idem"
    BY <1>1, <2>2, Parts DEF Write, Perform, RecordIdempotency, TypeOK, RecordInv, LogSteps
  <2>3. QED
    BY <2>1, <2>2
<1>4. s # "ack" => acks' = acks
  BY DEF Write, Perform, AppendEntry, AppendEffect, AppendAnswer, RecordIdempotency,
         durable, LogSteps
<1>5. TypeOK'
  BY <1>1, <1>2, <1>3, Parts DEF TypeOK
<1>6. ASSUME NEW c \in Commands PROVE Custody(c)'
  BY <1>2, <1>3, Parts DEF Custody, InMailbox
<1>7. MailboxInv' /\ CallInv'
  BY <1>2, Parts DEF MailboxInv, CallInv
<1>8. ProcessInv'
  BY <1>1, <1>2, <1>3, Parts DEF ProcessInv, NoTickets
<1>9. OpInv'
  BY <1>1, <1>2, <1>3, <1>4, Parts DEF OpInv, InMailbox, LogSteps
<1>10. QED
  BY <1>3, <1>5, <1>6, <1>7, <1>8, <1>9 DEF IndInv

\* The process dies: what remains is durable, and no claim can be sent.
LEMMA DieInd ==
  ASSUME IndInv, Die, outbox' = outbox,
         UNCHANGED <<delivered, told, expired>>,
         refused' \in BOOLEAN, faults' \in 0..MaxFaults,
         acks' \in [Commands -> Seq(Outcomes)],
         attention' \in [Attentions -> [state : {"absent", "open", "answered", "closed"},
                                        by : Commands \cup {NoCommand}]],
         queued' \subseteq Commands, idem' \subseteq Commands,
         \A c \in Commands : RecordInv(c)'
  PROVE  IndInv'
<1> USE DEF Die, Status
<1>a. tickets' \in [Commands -> {"none", "held", "resolved", "claimed"}]
  BY DEF NoTickets
<1>b. mailbox' \in Seq(Commands)
  OBVIOUS
<1>c. outbox' \in [Commands -> {NoRecord} \cup OutboxRecord]
  BY Parts DEF TypeOK
<1>d. /\ delivered' \in [Commands -> Nat] /\ expired' \subseteq Commands
      /\ told' \in [Commands -> {<<>>} \cup (Bodies \X Replies)]
  BY Parts DEF TypeOK
<1>1. TypeOK'
  BY <1>a, <1>b, <1>c, <1>d, Zenon DEF TypeOK
<1>2. ASSUME NEW c \in Commands PROVE Custody(c)'
  BY Parts DEF Custody, InMailbox, NoTickets
<1>3. MailboxInv' /\ CallInv' /\ ProcessInv' /\ OpInv'
  BY DEF MailboxInv, CallInv, ProcessInv, OpInv, NoTickets
<1>4. QED
  BY <1>1, <1>2, <1>3 DEF IndInv

\* The operation gives up, or takes the process down during a start.
LEMMA FailInd ==
  ASSUME IndInv, op # Idle, NEW flag \in BOOLEAN, Fail(flag), outbox' = outbox,
         UNCHANGED <<delivered, told, expired, refused>>, faults' \in 0..MaxFaults,
         acks' \in [Commands -> Seq(Outcomes)],
         attention' \in [Attentions -> [state : {"absent", "open", "answered", "closed"},
                                        by : Commands \cup {NoCommand}]],
         queued' \subseteq Commands, idem' \subseteq Commands,
         \A c \in Commands : RecordInv(c)'
  PROVE  IndInv'
<1>1. CASE EndsStartup /\ Die
  BY <1>1, DieInd, Parts DEF TypeOK
<1>2. CASE ~EndsStartup /\ ~(EndsStartup /\ Die)
  <2> USE DEF Status
  <2>1. /\ op' = Idle /\ recoveryRequired' = flag
        /\ tickets' = IF op.name = "claim" THEN [tickets EXCEPT ![op.cmd] = "none"]
                                           ELSE tickets
        /\ call' = IF op.name = "finish" THEN NoCall ELSE call
        /\ UNCHANGED <<node, recovering, unswept, worker, mailbox>>
    BY <1>2 DEF Fail
  <2>2. op \in Operation /\ op.cmd \in Commands /\ op.name # "recover"
    BY <1>2, Parts DEF TypeOK, EndsStartup, OpInv, Operation
  <2>3. /\ tickets' \in [Commands -> {"none", "held", "resolved", "claimed"}]
        /\ \A c \in Commands : tickets'[c] = tickets[c] \/ tickets'[c] = "none"
    BY <2>1, <2>2, Parts DEF TypeOK
  <2>4. TypeOK'
    BY <2>1, <2>3, Parts DEF TypeOK
  <2>5. ASSUME NEW c \in Commands PROVE Custody(c)'
    <3>1. Custody(c) /\ (InMailbox(c)' <=> InMailbox(c))
      BY <2>1, Parts DEF InMailbox
    <3>2. outbox' = outbox /\ delivered' = delivered
      OBVIOUS
    <3>3. tickets'[c] = tickets[c] \/ tickets'[c] = "none"
      BY <2>3
    <3>4. QED
      BY <3>1, <3>2, <3>3 DEF Custody
  <2>6. MailboxInv' /\ CallInv' /\ OpInv'
    BY <2>1, Parts DEF MailboxInv, CallInv, OpInv
  <2>7. ProcessInv'
    BY <2>1, <2>2, <2>3, Zenon, Parts DEF ProcessInv, NoTickets, TypeOK
  <2>8. QED
    BY <2>4, <2>5, <2>6, <2>7 DEF IndInv
<1>3. QED
  BY <1>1, <1>2 DEF Fail

\* A failed write, a journal failure and a crash preserve the invariant.
LEMMA FaultInd ==
  ASSUME IndInv, Crash \/ \E s \in Steps : WriteFails(s) \/ JournalFails(s)
  PROVE  IndInv'
<1>1. ASSUME faults < MaxFaults, faults' = faults + 1 PROVE faults' \in 0..MaxFaults
  BY <1>1, FaultAssumption, Parts DEF TypeOK
<1>2. ASSUME UNCHANGED durable
      PROVE  /\ outbox' = outbox
             /\ acks' \in [Commands -> Seq(Outcomes)]
             /\ attention' \in [Attentions -> [state : {"absent", "open", "answered", "closed"},
                                               by : Commands \cup {NoCommand}]]
             /\ queued' \subseteq Commands /\ idem' \subseteq Commands
             /\ \A c \in Commands : RecordInv(c)'
  BY <1>2, Parts DEF durable, TypeOK, RecordInv, Status
<1>3. CASE Crash
  <2>1. /\ UNCHANGED durable /\ Die /\ UNCHANGED <<delivered, told, expired, refused>>
        /\ faults < MaxFaults /\ faults' = faults + 1
    BY <1>3 DEF Crash
  <2>2. faults' \in 0..MaxFaults /\ refused' \in BOOLEAN
    BY <1>1, <2>1, Parts DEF TypeOK
  <2>3. QED
    BY <1>2, <2>1, <2>2, DieInd
<1>4. ASSUME NEW s \in Steps, WriteFails(s) PROVE IndInv'
  <2>1. (recoveryRequired \/ (op.name = "admit" /\ s # "insert")) \in BOOLEAN
    OBVIOUS
  <2>2. QED
    BY <1>1, <1>2, <1>4, <2>1, FailInd, Zenon DEF WriteFails, Due
<1>5. ASSUME NEW s \in Steps, JournalFails(s) PROVE IndInv'
  BY <1>1, <1>5, LogWrite, FailInd, Zenon DEF JournalFails, Due
<1>6. QED
  BY <1>3, <1>4, <1>5

\* An operation that has made its writes releases the mutex: the invariant
\* holds again without it.
LEMMA ReturnInd ==
  ASSUME IndInv, ReturnAdmit \/ ReturnReject \/ ReturnClaim \/ ReturnFinish \/ ReturnRecover
  PROVE  IndInv'
<1> USE DEF Status
<1>1. /\ op \in Operation /\ op # Idle /\ op.cmd \in Commands /\ op.todo = {}
      /\ op.body \in Bodies /\ op.ack \in Outcomes
      /\ op' = Idle
      /\ UNCHANGED <<outbox, acks, attention, queued, idem, node, unswept,
                     recoveryRequired, worker, mailbox, delivered, expired,
                     refused, faults>>
  BY Zenon, Parts DEF TypeOK, Operation, ReturnAdmit, ReturnReject, ReturnClaim, ReturnFinish,
     ReturnRecover, durable, history
<1>2. MailboxInv' /\ OpInv'
  <2>1. op' = Idle /\ mailbox' = mailbox
    BY <1>1
  <2>2. MailboxInv'
    BY <2>1, Zenon, Parts DEF MailboxInv
  <2>3. OpInv'
    BY <2>1, Zenon DEF OpInv
  <2>4. QED
    BY <2>2, <2>3
<1>3. \A c \in Commands : RecordInv(c)'
  BY <1>1, Parts DEF RecordInv
<1>4. ASSUME UNCHANGED <<recovering, call>>,
             told' \in [Commands -> {<<>>} \cup (Bodies \X Replies)],
             tickets' \in [Commands -> {"none", "held", "resolved", "claimed"}],
             \A c \in Commands : c # op.cmd => tickets'[c] = tickets[c],
             tickets'[op.cmd] = "claimed" => op.name = "claim",
             op.name \in {"admit", "claim", "reject"}
      PROVE  IndInv'
  <2>1. TypeOK'
    BY <1>1, <1>4, Zenon, Parts DEF TypeOK
  <2>2. ASSUME NEW c \in Commands PROVE Custody(c)'
    <3>1. Custody(c)
      BY DEF IndInv
    <3>2. (InMailbox(c)' <=> InMailbox(c)) /\ outbox' = outbox /\ delivered' = delivered
      BY <1>1 DEF InMailbox
    <3>3. CASE c # op.cmd
      <4>1. tickets'[c] = tickets[c]
        BY <1>4, <3>3
      <4>2. QED
        BY <3>1, <3>2, <4>1 DEF Custody
    <3>4. CASE c = op.cmd
      <4>1. OpInv
        BY DEF IndInv
      <4>2. /\ delivered[c] = 0 /\ ~InMailbox(c)
            /\ op.name = "claim" => /\ outbox[c].status = "Claimed"
                                    /\ outbox[c].ack = "AcceptedLocally"
        BY <1>1, <1>4, <3>4, <4>1 DEF OpInv
      <4>3. tickets'[c] = "claimed" => op.name = "claim"
        BY <1>4, <3>4
      <4>4. QED
        BY <3>2, <4>2, <4>3 DEF Custody
    <3>5. QED
      BY <3>3, <3>4
  <2>3. op.cmd \notin unswept /\ node \in {"starting", "serving"}
    <3>1. OpInv /\ (node # "starting" => unswept = {})
      BY Zenon, Parts DEF ProcessInv
    <3>2. CASE op.name = "admit"
      <4>1. node = "serving"
        BY <1>1, <3>1, <3>2, Zenon DEF OpInv
      <4> QED
        BY <3>1, <4>1
    <3>3. CASE op.name \in {"claim", "reject"}
      BY <1>1, <3>1, <3>3, Zenon DEF OpInv
    <3> QED
      BY <1>4, <3>2, <3>3
  <2>4. ProcessInv'
    <3>1. ProcessInv /\ unswept \subseteq Commands
      BY Zenon, Parts DEF TypeOK
    <3>2. /\ UNCHANGED <<node, recovering, unswept, outbox>> /\ op' = Idle
          /\ op.name # "recover" /\ node' \notin {"down", "loading"}
      BY <1>1, <1>4, <2>3
    <3>3. \A c \in unswept : tickets'[c] = tickets[c]
      BY <1>4, <2>3, <3>1
    <3>4. QED
      BY <3>1, <3>2, <3>3 DEF ProcessInv
  <2>5. CallInv'
    BY <1>1, <1>4, Parts DEF CallInv
  <2>6. QED
    BY <1>2, <1>3, <2>1, <2>2, <2>4, <2>5 DEF IndInv
<1>5. CASE ReturnAdmit
  <2>1. /\ told' \in [Commands -> {<<>>} \cup (Bodies \X Replies)]
        /\ tickets' \in [Commands -> {"none", "held", "resolved", "claimed"}]
        /\ \A c \in Commands : c # op.cmd => tickets'[c] = tickets[c]
        /\ tickets'[op.cmd] # "claimed"
    <3>1. tickets[op.cmd] # "claimed"
      BY <1>1, <1>5, Parts DEF ReturnAdmit, OpInv
    <3>2. <<op.body, op.ack>> \in Bodies \X Replies
      BY <1>1 DEF Replies
    <3>3. told' \in [Commands -> {<<>>} \cup (Bodies \X Replies)]
      <4>1. told \in [Commands -> {<<>>} \cup (Bodies \X Replies)]
        BY Parts DEF TypeOK
      <4>2. told' = told \/ told' = [told EXCEPT ![op.cmd] = <<op.body, op.ack>>]
        BY <1>5 DEF ReturnAdmit
      <4>3. QED
        BY <1>1, <3>2, <4>1, <4>2
    <3>4. QED
      BY <1>1, <1>5, <3>1, <3>3, Zenon, Parts DEF ReturnAdmit, TypeOK
  <2>2. QED
    BY <1>4, <1>5, <2>1 DEF ReturnAdmit
<1>6. CASE ReturnReject
  <2>1. /\ op.name = "reject" /\ UNCHANGED <<recovering, call, told>>
        /\ tickets' = [tickets EXCEPT ![op.cmd] = "none"]
    BY <1>6, Zenon DEF ReturnReject, history
  <2>2. /\ told' \in [Commands -> {<<>>} \cup (Bodies \X Replies)]
        /\ tickets \in [Commands -> {"none", "held", "resolved", "claimed"}]
    BY <2>1, Zenon, Parts DEF TypeOK
  <2>3. /\ tickets' \in [Commands -> {"none", "held", "resolved", "claimed"}]
        /\ \A c \in Commands : c # op.cmd => tickets'[c] = tickets[c]
        /\ tickets'[op.cmd] = "none"
    BY <1>1, <2>1, <2>2
  <2> QED
    BY <1>4, <2>1, <2>2, <2>3
<1>7. CASE ReturnClaim
  <2>1. /\ op.name = "claim" /\ UNCHANGED <<recovering, call, told>>
        /\ tickets' = [tickets EXCEPT ![op.cmd] = "claimed"]
    BY <1>7, Zenon DEF ReturnClaim, history
  <2>2. /\ told' \in [Commands -> {<<>>} \cup (Bodies \X Replies)]
        /\ tickets \in [Commands -> {"none", "held", "resolved", "claimed"}]
    BY <2>1, Zenon, Parts DEF TypeOK
  <2>3. /\ tickets' \in [Commands -> {"none", "held", "resolved", "claimed"}]
        /\ \A c \in Commands : c # op.cmd => tickets'[c] = tickets[c]
    BY <1>1, <2>1, <2>2
  <2> QED
    BY <1>4, <2>1, <2>2, <2>3
<1>8. CASE ReturnFinish \/ ReturnRecover
  <2>1. /\ UNCHANGED <<tickets, told>> /\ call' \in {call, NoCall}
        /\ recovering' = recovering \/ recovering' = recovering \ {op.cmd}
        /\ op.name = "recover" => recovering' = recovering \ {op.cmd}
    <3>1. CASE ReturnFinish
      BY <1>1, <3>1 DEF ReturnFinish, history
    <3>2. CASE ReturnRecover
      BY <1>1, <3>2 DEF ReturnRecover, history
    <3>3. QED
      BY <1>8, <3>1, <3>2
  <2>2. TypeOK'
    BY <1>1, <2>1, Parts DEF TypeOK
  <2>3. ASSUME NEW c \in Commands PROVE Custody(c)'
    <3>1. Custody(c) /\ (InMailbox(c)' <=> InMailbox(c))
      BY <1>1, <2>1, Parts DEF InMailbox
    <3>2. outbox' = outbox /\ delivered' = delivered /\ tickets' = tickets
      BY <1>1, <2>1
    <3>3. QED
      BY <3>1, <3>2 DEF Custody
  <2>4. ProcessInv'
    BY <1>1, <2>1, Parts DEF ProcessInv, NoTickets
  <2>5. CallInv'
    BY <1>1, <2>1, Parts DEF CallInv
  <2>6. QED
    BY <1>2, <1>3, <2>2, <2>3, <2>4, <2>5 DEF IndInv
<1>9. QED
  BY <1>5, <1>6, <1>7, <1>8

\* The steps of dispatch_ticket that move a ticket without a write.
LEMMA TicketInd ==
  ASSUME IndInv, NEW c \in Commands, LookUp(c) \/ Send(c) \/ ClaimRefused(c) \/ SweepNext(c)
  PROVE  IndInv'
<1> USE DEF Status
<1>1. CASE LookUp(c) \/ SweepNext(c) \/ (ClaimRefused(c) /\ node = "serving" /\ ~Die)
  <2>1. /\ UNCHANGED <<outbox, acks, attention, queued, idem, node, recovering, op,
                       recoveryRequired, worker, mailbox, call, delivered, told,
                       expired, refused, faults>>
        /\ \E t \in {"none", "held", "resolved"} : tickets' = [tickets EXCEPT ![c] = t]
        /\ node \in {"starting", "serving"}
        /\ unswept' = unswept \/ unswept' = unswept \ {c}
        /\ c \notin unswept'
    <3>1. tickets \in [Commands -> {"none", "held", "resolved", "claimed"}] /\ ProcessInv
      BY Parts DEF TypeOK
    <3>2. CASE LookUp(c)
      <4>1. tickets[c] = "held" /\ c \notin unswept /\ node \notin {"down", "loading"}
        BY <3>1, <3>2 DEF LookUp, ProcessInv, NoTickets
      <4>2. node \in {"starting", "serving"}
        BY <4>1, Parts DEF TypeOK
      <4>3. QED
        BY <3>2, <4>1, <4>2 DEF LookUp, durable, history
    <3>3. CASE SweepNext(c)
      BY <3>3 DEF SweepNext, durable, history
    <3>4. CASE ClaimRefused(c) /\ node = "serving" /\ ~Die
      <4>1. c \notin unswept
        BY <3>1, <3>4 DEF ProcessInv
      <4>2. QED
        BY <3>4, <4>1 DEF ClaimRefused, durable, history
    <3>5. QED
      BY <1>1, <3>2, <3>3, <3>4
  <2>2. /\ tickets' \in [Commands -> {"none", "held", "resolved", "claimed"}]
        /\ \A d \in Commands : d # c => tickets'[d] = tickets[d]
        /\ tickets'[c] # "claimed"
    BY <2>1, Parts DEF TypeOK
  <2>3. TypeOK'
    BY <2>1, <2>2, Parts DEF TypeOK
  <2>4. ASSUME NEW d \in Commands PROVE RecordInv(d)' /\ Custody(d)'
    <3>1. RecordInv(d) /\ Custody(d)
      BY DEF IndInv
    <3>2. /\ outbox' = outbox /\ acks' = acks /\ delivered' = delivered
          /\ InMailbox(d)' <=> InMailbox(d)
      BY <2>1 DEF InMailbox
    <3>3. tickets'[d] = "claimed" => tickets[d] = "claimed"
      BY <2>2
    <3>4. QED
      BY <3>1, <3>2, <3>3 DEF RecordInv, Custody
  <2>5. MailboxInv' /\ CallInv'
    BY <2>1, Parts DEF MailboxInv, CallInv
  <2>6. ProcessInv'
    <3>1. ProcessInv /\ recovering \subseteq Commands /\ unswept \subseteq Commands
      BY Parts DEF TypeOK
    <3>2. \A d \in unswept' : Status(d)' = "Ready" /\ tickets'[d] = "none"
      BY <2>1, <2>2, <3>1 DEF ProcessInv
    <3>3. \A d \in recovering' : \/ Status(d)' \in {"Ready", "Claimed"}
                                 \/ op' # Idle /\ op'.name = "recover" /\ op'.cmd = d
      BY <2>1, <3>1 DEF ProcessInv
    <3>4. QED
      BY <2>1, <3>1, <3>2, <3>3 DEF ProcessInv
  <2>7. OpInv'
    <3>1. OpInv /\ op \in {Idle} \cup Operation
      BY Parts DEF TypeOK
    <3>2. op # Idle => op.cmd \in Commands
      BY <3>1 DEF Operation
    <3>3. InMailbox(op.cmd)' <=> InMailbox(op.cmd)
      BY <2>1 DEF InMailbox
    <3>4. op # Idle => (tickets'[op.cmd] = "claimed" => tickets[op.cmd] = "claimed")
      BY <2>2, <3>2
    <3>5. op.cmd \notin unswept => op.cmd \notin unswept'
      BY <2>1
    <3>6. UNCHANGED <<outbox, acks, node, op, delivered, call>>
      BY <2>1
    <3>7. QED
      BY <3>1, <3>3, <3>4, <3>5, <3>6, Zenon DEF OpInv
  <2>8. QED
    BY <2>3, <2>4, <2>5, <2>6, <2>7 DEF IndInv
<1>2. CASE Send(c)
  <2>1. /\ UNCHANGED <<outbox, acks, attention, queued, idem, node, recovering, op,
                       recoveryRequired, worker, call, delivered, told, unswept,
                       expired, refused, faults>>
        /\ tickets' = [tickets EXCEPT ![c] = "none"]
        /\ tickets[c] = "claimed"
        /\ mailbox' = mailbox \/ mailbox' = Append(mailbox, c)
    BY <1>2 DEF Send, durable, history
  <2>2. /\ tickets' \in [Commands -> {"none", "held", "resolved", "claimed"}]
        /\ \A d \in Commands : d # c => tickets'[d] = tickets[d]
        /\ tickets'[c] = "none"
    BY <2>1, Parts DEF TypeOK
  <2>3. ~InMailbox(c) /\ outbox[c].status = "Claimed" /\ outbox[c].ack = "AcceptedLocally"
        /\ delivered[c] = 0
    BY <2>1, Parts DEF Custody
  <2>4. /\ mailbox' \in Seq(Commands)
        /\ \A d \in Commands : d # c => (InMailbox(d)' <=> InMailbox(d))
        /\ MailboxInv'
    <3>1. CASE mailbox' = mailbox
      BY <3>1, Parts DEF TypeOK, InMailbox, MailboxInv
    <3>2. CASE mailbox' = Append(mailbox, c)
      <4>1. /\ mailbox' \in Seq(Commands) /\ Len(mailbox') = Len(mailbox) + 1
            /\ \A i \in 1..Len(mailbox) : mailbox'[i] = mailbox[i]
            /\ mailbox'[Len(mailbox) + 1] = c
            /\ DOMAIN mailbox = 1..Len(mailbox) /\ DOMAIN mailbox' = 1..(Len(mailbox) + 1)
            /\ Len(mailbox) \in Nat
        <5>1. mailbox \in Seq(Commands)
          BY Parts DEF TypeOK
        <5>2. QED
          BY <3>2, <5>1
      <4>2. QED
        BY <4>1, <2>3, Parts DEF InMailbox, MailboxInv
    <3>3. QED
      BY <3>1, <3>2, <2>1
  <2>5. TypeOK'
    BY <2>1, <2>2, <2>4, Parts DEF TypeOK
  <2>6. ASSUME NEW d \in Commands PROVE RecordInv(d)' /\ Custody(d)'
    <3>1. CASE d = c
      <4>1. RecordInv(d)
        BY DEF IndInv
      <4>2. outbox' = outbox /\ acks' = acks /\ delivered' = delivered /\ tickets'[d] = "none"
        BY <2>1, <2>2, <3>1
      <4>3. RecordInv(d)'
        BY <4>1, <4>2 DEF RecordInv
      <4>4. Custody(d)'
        <5>1. /\ outbox'[d].status = "Claimed" /\ outbox'[d].ack = "AcceptedLocally"
              /\ delivered'[d] = 0 /\ tickets'[d] = "none"
          BY <2>3, <3>1, <4>2
        <5>2. /\ outbox'[d].status \notin {"none", "Ready"}
              /\ delivered'[d] <= 1 /\ delivered'[d] # 1 /\ tickets'[d] # "claimed"
          BY <5>1
        <5>3. QED
          BY <5>1, <5>2, Zenon DEF Custody
      <4>5. QED
        BY <4>3, <4>4
    <3>2. CASE d # c
      <4>1. RecordInv(d) /\ Custody(d)
        BY DEF IndInv
      <4>2. /\ outbox' = outbox /\ acks' = acks /\ delivered' = delivered
            /\ tickets'[d] = tickets[d] /\ (InMailbox(d)' <=> InMailbox(d))
        BY <2>1, <2>2, <2>4, <3>2
      <4>3. QED
        BY <4>1, <4>2 DEF RecordInv, Custody
    <3>3. QED
      BY <3>1, <3>2
  <2>7. CallInv'
    BY <2>1, Parts DEF CallInv
  <2>8. ProcessInv'
    <3>1. ProcessInv /\ unswept \subseteq Commands
      BY Parts DEF TypeOK
    <3>2. \A d \in unswept' : Status(d)' = "Ready" /\ tickets'[d] = "none"
      BY <2>1, <2>2, <3>1 DEF ProcessInv
    <3>3. node \notin {"down", "loading"}
      BY <2>1, <3>1 DEF ProcessInv, NoTickets
    <3>4. QED
      BY <2>1, <3>1, <3>2, <3>3 DEF ProcessInv
  <2>9. OpInv'
    <3>1. op # Idle => op.cmd \in Commands
      <4>1. op \in {Idle} \cup Operation
        BY Parts DEF TypeOK
      <4>2. QED
        BY <4>1 DEF Operation
    <3>2. op # Idle /\ op.cmd = c => op.name \notin {"admit", "claim", "reject"}
      <4>1. OpInv
        BY DEF IndInv
      <4>2. op # Idle /\ op.name \in {"admit", "claim", "reject"}
              => tickets[op.cmd] # "claimed"
        BY <4>1, Zenon DEF OpInv
      <4>3. QED
        BY <2>1, <4>2, Zenon
    <3>3. QED
      BY <2>1, <2>2, <2>4, <3>1, <3>2, Zenon, Parts DEF OpInv
  <2>10. QED
    BY <2>4, <2>5, <2>6, <2>7, <2>8, <2>9 DEF IndInv
<1>3. CASE ClaimRefused(c) /\ Die
  <2>1. /\ UNCHANGED <<outbox, acks, attention, queued, idem>> /\ Die
        /\ UNCHANGED <<delivered, told, expired, refused, faults>>
    BY <1>3 DEF ClaimRefused, durable, history
  <2>2. /\ acks \in [Commands -> Seq(Outcomes)]
        /\ attention \in [Attentions -> [state : {"absent", "open", "answered", "closed"},
                                         by : Commands \cup {NoCommand}]]
        /\ queued \subseteq Commands /\ idem \subseteq Commands /\ faults \in 0..MaxFaults
        /\ refused \in BOOLEAN
    BY Parts DEF TypeOK
  <2>3. ASSUME NEW d \in Commands PROVE RecordInv(d)'
    BY <2>1, Parts DEF RecordInv
  <2>4. QED
    BY <2>1, <2>2, <2>3, DieInd
<1>4. QED
  BY <1>1, <1>2, <1>3 DEF ClaimRefused

-----------------------------------------------------------------------------
(* What a step can do.                                                     *)

\* The operation claims c for its thread.
Claiming(c) == op # Idle /\ op.name = "claim" /\ op.cmd = c

\* A write that reached the file, whether its operation goes on or gives up.
Wrote(s) == Write(s) \/ JournalFails(s)

\* An operation takes the mutex.
Begun == \/ \E c \in Commands, b \in Bodies : AdmitNew(c, b)
         \/ \E c \in Commands : RejectReady(c) \/ ClaimDispatch(c) \/ RecoverAdmission(c)
         \/ FinishDispatch

Rested == UNCHANGED <<outbox, acks>> /\ op' \in {op, Idle}

\* Every step writes one line, takes the mutex, or does neither.
LEMMA Shape ==
  ASSUME [Next]_vars
  PROVE  (\E s \in Steps : Wrote(s)) \/ Begun \/ Rested
<1>1. CASE UNCHANGED vars
  BY <1>1 DEF vars, durable, volatile, Rested
<1>2. CASE BrokerStep
  BY <1>2 DEF BrokerStep, Wrote, Rested, ReturnAdmit, ReturnReject, ReturnClaim, ReturnFinish,
         ReturnRecover, durable
<1>3. ASSUME NEW c \in Commands, DispatchStep(c) PROVE Begun \/ Rested
  BY <1>3 DEF DispatchStep, Begun, Rested, LookUp, ClaimRefused, Die, Send, durable
<1>4. CASE WorkerStep
  BY <1>4 DEF WorkerStep, Begun, Rested, ProviderAnswers, ProviderErrors, FinishRefused, durable
<1>5. CASE StartupStep
  BY <1>5 DEF StartupStep, Begun, Rested, SweepNext, LoadRefused, Die, StartRuntimes, Serve, durable
<1>6. CASE Environment
  <2>1. ASSUME NEW s \in Steps, WriteFails(s) PROVE Rested
    BY <2>1 DEF WriteFails, Fail, Die, Rested, durable
  <2>2. QED
    BY <1>6, <2>1 DEF Environment, Begun, Wrote, Rested, AdmitRepeat, ProviderAttention, Expire,
           StopSession, Load, Crash, Die, durable, volatile
<1>7. QED
  BY <1>1, <1>2, <1>3, <1>4, <1>5, <1>6 DEF Next

\* Taking the mutex changes nothing else.
LEMMA BegunFrame ==
  ASSUME Begun
  PROVE  /\ op = Idle
         /\ UNCHANGED <<outbox, acks, attention, node, recovering, recoveryRequired, tickets,
                        mailbox, call, delivered, told>>
BY DEF Begun, AdmitNew, RejectReady, ClaimDispatch, RecoverAdmission, FinishDispatch, LockFree,
   durable, history

\* The operation that takes the mutex, by action.
LEMMA AdmitOp ==
  ASSUME NEW c \in Commands, NEW b \in Bodies, AdmitNew(c, b)
  PROVE  op'.name = "admit" /\ op'.cmd = c /\ op'.body = b /\ op'.ack \in PreviewOutcomes(b)
<1>1. PICK o \in PreviewOutcomes(b) :
        op' = [name |-> "admit", cmd |-> c, body |-> b, ack |-> o, todo |-> AdmitTodo(o)]
  BY Zenon DEF AdmitNew
<1>2. QED
  BY <1>1

LEMMA RejectOp ==
  ASSUME NEW c \in Commands, RejectReady(c)
  PROVE  op'.name = "reject" /\ op'.cmd = c /\ op'.ack = "RuntimeUnavailable"
<1>1. op' = [name |-> "reject", cmd |-> c, body |-> outbox[c].body,
             ack |-> "RuntimeUnavailable", todo |-> {"claim", "ack", "complete"}]
  BY Zenon DEF RejectReady
<1>2. QED
  BY <1>1

LEMMA ClaimOp ==
  ASSUME NEW c \in Commands, ClaimDispatch(c)
  PROVE  Status(c) = "Ready" /\ op'.name = "claim" /\ op'.cmd = c /\ op'.ack = outbox[c].ack
<1>1. /\ c \in Pending
      /\ op' = [name |-> "claim", cmd |-> c, body |-> outbox[c].body, ack |-> outbox[c].ack,
                todo |-> {"claim"}]
  BY Zenon DEF ClaimDispatch
<1>2. QED
  BY <1>1 DEF Pending

LEMMA RecoverOp ==
  ASSUME NEW c \in Commands, RecoverAdmission(c)
  PROVE  /\ op = Idle /\ c \in recovering
         /\ op'.name = "recover" /\ op'.cmd = c /\ op'.body = outbox[c].body
         /\ op'.ack = RecoveryAck(c) /\ op'.todo = RecoverTodo(c)
<1>1. /\ op = Idle /\ c \in recovering
      /\ op' = [name |-> "recover", cmd |-> c, body |-> outbox[c].body, ack |-> RecoveryAck(c),
                todo |-> RecoverTodo(c)]
  BY Zenon DEF RecoverAdmission, LockFree
<1>2. QED
  BY <1>1

LEMMA FinishOp ==
  ASSUME FinishDispatch
  PROVE  /\ op'.name = "finish" /\ op'.cmd = call.cmd
         /\ op'.ack \in {"AcceptedByRuntime", "RejectedByProvider"}
         /\ op'.todo = FinishTodo(op'.body, call.result)
<1>1. op' = [name |-> "finish", cmd |-> call.cmd, body |-> outbox[call.cmd].body,
             ack |-> IF call.result = "accepted" THEN "AcceptedByRuntime"
                                                 ELSE "RejectedByProvider",
             todo |-> FinishTodo(outbox[call.cmd].body, call.result)]
  BY Zenon DEF FinishDispatch
<1>2. QED
  BY <1>1

\* The operation of a write, before and after it.
LEMMA WroteOp ==
  ASSUME IndInv, NEW s \in Steps, Wrote(s)
  PROVE  /\ op # Idle /\ op \in Operation /\ op.cmd \in Commands /\ op.body \in Bodies
         /\ s \in op.todo /\ \A t \in op.todo : Rank[s] <= Rank[t]
         /\ \/ op' = Idle
            \/ /\ op' # Idle /\ op'.name = op.name /\ op'.cmd = op.cmd
               /\ op'.body = op.body /\ op'.ack = op.ack /\ op'.todo = op.todo \ {s}
         /\ delivered' = delivered /\ told' = told
<1>1. Due(s) /\ delivered' = delivered /\ told' = told
  BY Zenon DEF Wrote, Write, JournalFails, history
<1>2. /\ op # Idle /\ op \in Operation /\ s \in op.todo
      /\ \A t \in op.todo : Rank[s] <= Rank[t]
  BY <1>1, Parts DEF Due, TypeOK
<1>3. op.cmd \in Commands /\ op.body \in Bodies
  BY <1>2 DEF Operation
<1>4. CASE Write(s)
  <2>1. op' = [op EXCEPT !.todo = @ \ {s}]
    BY <1>4 DEF Write
  <2>2. /\ op'.name = op.name /\ op'.cmd = op.cmd /\ op'.body = op.body
        /\ op'.ack = op.ack /\ op'.todo = op.todo \ {s}
    BY <1>2, <2>1 DEF Operation
  <2>3. op' # Idle
    BY <1>2, <2>2 DEF Operation, Idle
  <2>4. QED
    BY <1>1, <1>2, <1>3, <2>2, <2>3
<1>5. CASE JournalFails(s)
  <2>1. op' = Idle
    BY <1>5 DEF JournalFails, Fail, Die
  <2>2. QED
    BY <1>1, <1>2, <1>3, <2>1
<1>6. QED
  BY <1>4, <1>5 DEF Wrote

\* What a write does to the log.
LEMMA WroteLog ==
  ASSUME NEW s \in Steps, Wrote(s)
  PROVE  /\ s = "ack" => acks' = [acks EXCEPT ![op.cmd] = Append(@, op.ack)]
         /\ s # "ack" => acks' = acks
         /\ s = "answer" => attention' = [attention EXCEPT ![op.body.target] =
                                            [state |-> "answered", by |-> op.cmd]]
         /\ s # "answer" => attention' = attention
<1>1. Perform(s)
  BY Zenon DEF Wrote, Write, JournalFails
<1>2. QED
  BY <1>1 DEF Perform, InsertRecord, ClaimRecord, AppendEntry, AppendEffect, AppendAnswer,
     AppendAck, RecordIdempotency, CompleteRecord, durable

\* What a write does to the outbox: the record of the operation moves, no other.
LEMMA WroteOutbox ==
  ASSUME IndInv, NEW s \in Steps, Wrote(s)
  PROVE  /\ s \notin {"insert", "claim", "complete"} => outbox' = outbox
         /\ \A c \in Commands : c # op.cmd => outbox'[c] = outbox[c]
         /\ s = "insert" => /\ op.name = "admit" /\ Status(op.cmd) = "none"
                            /\ outbox'[op.cmd].body = op.body /\ outbox'[op.cmd].ack = op.ack
                            /\ outbox'[op.cmd].status \in {"Ready", "Claimed"}
         /\ s \in {"claim", "complete"} =>
               /\ Status(op.cmd) = IF s = "claim" THEN "Ready" ELSE "Claimed"
               /\ outbox'[op.cmd].status = IF s = "claim" THEN "Claimed" ELSE "Completed"
               /\ outbox'[op.cmd].body = outbox[op.cmd].body
               /\ outbox'[op.cmd].ack = outbox[op.cmd].ack
<1>1. CASE s \in {"insert", "claim", "complete"}
  <2>1. Write(s)
    BY <1>1, Zenon DEF Wrote, JournalFails, LogSteps
  <2>2. QED
    BY <1>1, <2>1, RecordMoves
<1>2. CASE s \notin {"insert", "claim", "complete"}
  <2>1. Perform(s)
    BY Zenon DEF Wrote, Write, JournalFails
  <2>2. outbox' = outbox
    BY <1>2, <2>1 DEF Perform, AppendEntry, AppendEffect, AppendAnswer, AppendAck,
       RecordIdempotency, durable
  <2>3. QED
    BY <1>2, <2>2
<1>3. QED
  BY <1>1, <1>2

\* A record keeps its body and the outcome of its admission, and moves forward.
LEMMA RecordsKeep ==
  ASSUME IndInv, [Next]_vars, NEW c \in Commands, Status(c) # "none"
  PROVE  /\ outbox'[c].body = outbox[c].body /\ outbox'[c].ack = outbox[c].ack
         /\ Status(c)' # "none"
         /\ Status(c) \in {"Claimed", "Completed"} => Status(c)' \in {"Claimed", "Completed"}
         /\ Status(c) = "Completed" => Status(c)' = "Completed"
         /\ Status(c)' = Status(c) \/ \E s \in {"claim", "complete"} : Wrote(s) /\ op.cmd = c
<1> USE DEF Status
<1>1. ASSUME NEW s \in Steps, Wrote(s)
      PROVE  \/ outbox'[c] = outbox[c]
             \/ s \in {"claim", "complete"} /\ op.cmd = c
  BY <1>1, WroteOutbox
<1>2. CASE outbox'[c] = outbox[c]
  BY <1>2
<1>3. ASSUME NEW s \in {"claim", "complete"}, Wrote(s), op.cmd = c
      PROVE  /\ outbox'[c].body = outbox[c].body /\ outbox'[c].ack = outbox[c].ack
             /\ outbox[c].status = IF s = "claim" THEN "Ready" ELSE "Claimed"
             /\ outbox'[c].status = IF s = "claim" THEN "Claimed" ELSE "Completed"
  BY <1>3, WroteOutbox, StepRanks
<1>4. QED
  BY <1>1, <1>2, <1>3, Shape, BegunFrame DEF Rested

\* A new record is the insert of the admission that holds the mutex.
LEMMA NewRecord ==
  ASSUME IndInv, [Next]_vars, NEW c \in Commands, Status(c) = "none", Status(c)' # "none"
  PROVE  Wrote("insert") /\ op.cmd = c
<1> USE DEF Status
<1>1. PICK s \in Steps : Wrote(s)
  BY Shape, BegunFrame DEF Rested
<1>2. QED
  BY <1>1, WroteOutbox

\* The log of a command only grows.
LEMMA AcksGrow ==
  ASSUME IndInv, [Next]_vars, NEW c \in Commands
  PROVE  /\ \/ acks'[c] = acks[c]
            \/ Wrote("ack") /\ op.cmd = c /\ acks'[c] = Append(acks[c], op.ack)
         /\ acks[c] # <<>> => acks'[c] # <<>> /\ acks'[c][1] = acks[c][1]
<1>1. acks \in [Commands -> Seq(Outcomes)] /\ acks[c] \in Seq(Outcomes)
  BY Parts DEF TypeOK
<1>2. ASSUME NEW s \in Steps, Wrote(s), acks'[c] # acks[c]
      PROVE  Wrote("ack") /\ op.cmd = c /\ acks'[c] = Append(acks[c], op.ack) /\ op.ack \in Outcomes
  <2>1. op.cmd \in Commands /\ op.ack \in Outcomes
    BY <1>2, WroteOp DEF Operation
  <2>2. s = "ack" /\ acks' = [acks EXCEPT ![op.cmd] = Append(@, op.ack)]
    BY <1>2, WroteLog
  <2>3. QED
    BY <1>1, <1>2, <2>1, <2>2
<1>3. \/ acks'[c] = acks[c]
      \/ /\ Wrote("ack") /\ op.cmd = c /\ acks'[c] = Append(acks[c], op.ack)
         /\ op.ack \in Outcomes
  BY <1>2, Shape, BegunFrame DEF Rested
<1>4. QED
  BY <1>1, <1>3

\* A claim passes from the operation to the ticket to the channel to the provider.
LEMMA Flow ==
  ASSUME IndInv, [Next]_vars, NEW c \in Commands
  PROVE  /\ tickets'[c] = "claimed" => tickets[c] = "claimed" \/ Claiming(c)
         /\ InMailbox(c)' => InMailbox(c) \/ tickets[c] = "claimed"
         /\ \/ delivered'[c] = delivered[c]
            \/ InMailbox(c) /\ delivered'[c] = delivered[c] + 1
<1> DEFINE Goal == /\ tickets'[c] = "claimed" => tickets[c] = "claimed" \/ Claiming(c)
                   /\ InMailbox(c)' => InMailbox(c) \/ tickets[c] = "claimed"
                   /\ \/ delivered'[c] = delivered[c]
                      \/ InMailbox(c) /\ delivered'[c] = delivered[c] + 1
           Let == /\ delivered' = delivered /\ mailbox' \in {mailbox, <<>>}
                  /\ tickets'[c] \in {tickets[c], "none", "held", "resolved"}
<1>0. /\ tickets \in [Commands -> {"none", "held", "resolved", "claimed"}]
      /\ mailbox \in Seq(Commands) /\ delivered \in [Commands -> Nat]
      /\ op # Idle => op \in Operation /\ op.cmd \in Commands
  BY Parts DEF TypeOK, Operation
<1>a. ASSUME Let PROVE Goal
  BY <1>a DEF InMailbox
<1> SUFFICES Goal
  OBVIOUS
<1> HIDE DEF Goal
<1>1. CASE UNCHANGED vars
  BY <1>1, <1>a DEF vars, volatile, history
<1>2. CASE BrokerStep
  <2>1. ASSUME NEW s \in Steps, Write(s) PROVE Let
    BY <2>1 DEF Write, history
  <2>2. ASSUME ReturnAdmit \/ ReturnReject \/ ReturnFinish \/ ReturnRecover PROVE Let
    BY <1>0, <2>2 DEF ReturnAdmit, ReturnReject, ReturnFinish, ReturnRecover, history
  <2>3. CASE ReturnClaim
    <3>1. /\ op # Idle /\ op.name = "claim" /\ mailbox' = mailbox /\ delivered' = delivered
          /\ tickets' = [tickets EXCEPT ![op.cmd] = "claimed"]
      BY <2>3 DEF ReturnClaim, history
    <3>2. tickets'[c] = "claimed" => tickets[c] = "claimed" \/ Claiming(c)
      BY <1>0, <3>1 DEF Claiming
    <3>3. QED
      BY <3>1, <3>2 DEF Goal, InMailbox
  <2>4. QED
    BY <1>2, <1>a, <2>1, <2>2, <2>3 DEF BrokerStep
<1>3. ASSUME NEW d \in Commands, DispatchStep(d) PROVE Goal
  <2>1. CASE Send(d)
    <3>1. /\ tickets[d] = "claimed" /\ tickets' = [tickets EXCEPT ![d] = "none"]
          /\ mailbox' \in {mailbox, Append(mailbox, d)} /\ delivered' = delivered
      BY <2>1 DEF Send, history
    <3>2. InMailbox(c)' => InMailbox(c) \/ c = d
      <4>1. \A i \in DOMAIN mailbox' : (i \in DOMAIN mailbox /\ mailbox'[i] = mailbox[i]) \/ mailbox'[i] = d
        BY <1>0, <3>1
      <4>2. QED
        BY <4>1 DEF InMailbox
    <3>3. QED
      BY <1>0, <3>1, <3>2 DEF Goal
  <2>2. CASE ~Send(d)
    <3>1. Let
      BY <1>0, <1>3, <2>2 DEF DispatchStep, LookUp, RejectReady, ClaimDispatch, ClaimRefused, Die,
             NoTickets, history
    <3>2. QED
      BY <1>a, <3>1
  <2>3. QED
    BY <2>1, <2>2
<1>4. CASE WorkerStep
  <2>1. CASE ProviderErrors \/ \E r \in {"accepted", "rejected", "mismatch"} : ProviderAnswers(r)
    <3>1. /\ mailbox # <<>> /\ mailbox' = Tail(mailbox) /\ tickets' = tickets
          /\ \/ delivered' = [delivered EXCEPT ![Head(mailbox)] = @ + 1]
             \/ delivered' = delivered
      BY <2>1 DEF ProviderErrors, ProviderAnswers
    <3>2. InMailbox(c)' => InMailbox(c)
      BY <1>0, <3>1 DEF InMailbox
    <3>3. InMailbox(Head(mailbox)) /\ Head(mailbox) \in Commands
      BY <1>0, <3>1 DEF InMailbox
    <3>4. delivered'[c] = delivered[c] \/ (InMailbox(c) /\ delivered'[c] = delivered[c] + 1)
      BY <1>0, <3>1, <3>3
    <3>5. QED
      BY <3>1, <3>2, <3>4 DEF Goal
  <2>2. CASE FinishDispatch \/ FinishRefused
    BY <1>a, <2>2 DEF FinishDispatch, FinishRefused, history
  <2>3. QED
    BY <1>4, <2>1, <2>2 DEF WorkerStep
<1>5. CASE StartupStep
  <2>1. Let
    BY <1>0, <1>5 DEF StartupStep, RecoverAdmission, SweepNext, LoadRefused, Die, NoTickets,
           StartRuntimes, Serve, history
  <2>2. QED
    BY <1>a, <2>1
<1>6. CASE Environment
  <2>1. ASSUME NEW s \in Steps, WriteFails(s) \/ JournalFails(s) PROVE Let
    BY <1>0, <2>1 DEF WriteFails, JournalFails, Fail, Die, NoTickets, Due
  <2>2. Let
    BY <1>6, <2>1 DEF Environment, AdmitNew, AdmitRepeat, ProviderAttention, Expire, StopSession,
           Load, Crash, Die, NoTickets, volatile, history
  <2>3. QED
    BY <1>a, <2>2
<1>7. QED
  BY <1>1, <1>2, <1>3, <1>4, <1>5, <1>6 DEF Next, Goal
=============================================================================
