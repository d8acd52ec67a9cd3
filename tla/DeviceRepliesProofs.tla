------------------------- MODULE DeviceRepliesProofs -------------------------
(***************************************************************************)
(* For every set of commands, bodies, attentions and sessions and any      *)
(* number of faults: a reply that a device got survives every crash, and   *)
(* two answers to one attention never both leave.                          *)
(*                                                                         *)
(* Two layers over IndInv and VerdictInv.  AckInv and UnackedInv: a record *)
(* without an acknowledgement is being admitted, or nothing is written     *)
(* until a restart has repaired it.  ReplyInv: one reply to an attention   *)
(* is unfinished at a time, and a finished one that was sent has settled   *)
(* the attention.                                                          *)
(***************************************************************************)
EXTENDS DeviceCommandsProofs

Admitting(c) == op # Idle /\ op.name = "admit" /\ op.cmd = c

\* The log against the operation that holds the mutex: a finished command was
\* acknowledged, and who acts on a command acts on an acknowledged one.
AckInv ==
  /\ \A c \in Commands : Status(c) = "Completed" => acks[c] # <<>>
  /\ op # Idle =>
       /\ op.name = "admit" /\ "insert" \notin op.todo => outbox[op.cmd].body = op.body
       /\ op.name = "admit" /\ "ack" \notin op.todo =>
            acks[op.cmd] # <<>> /\ acks[op.cmd][1] = op.ack
       /\ op.name \in {"claim", "reject", "finish"} => acks[op.cmd] # <<>>
       /\ op.name = "recover" /\ "ack" \notin op.todo => acks[op.cmd] # <<>>

\* An admission that stopped before its acknowledgement: nothing is written
\* until a restart, and the restart repairs it before anything else.
UnackedInv ==
  \A c \in Commands : Status(c) # "none" /\ acks[c] = <<>> =>
    \/ node = "down"
    \/ node = "loading" /\ c \in recovering
    \/ Running /\ recoveryRequired
    \/ Running /\ Admitting(c)

\* An accepted reply to an attention.
Reply(c) == /\ Status(c) # "none" /\ outbox[c].ack = "AcceptedLocally"
            /\ outbox[c].body.kind = "RespondAttention"
Open(c) == Status(c) \in {"Ready", "Claimed"}
Settled == {"answered", "closed"}

\* Accepted replies to one attention: one is unfinished at a time, and none was
\* sent before it.  A finished one that was sent has settled the attention.
ReplyInv ==
  /\ \A c, d \in Commands :
       /\ c # d /\ Reply(c) /\ Reply(d) /\ Open(d)
       /\ outbox[c].body.target = outbox[d].body.target
       => ~Open(c) /\ delivered[c] = 0
  /\ \A c \in Commands :
       Reply(c) /\ Status(c) = "Completed" /\ delivered[c] > 0
       => attention[outbox[c].body.target].state \in Settled
  /\ \A c \in Commands : Reply(c) =>
       \A i \in DOMAIN acks[c] : i > 1 => acks[c][i] = "RuntimeUnavailable"

\* What the holder of the mutex knows of the attention it is about.
ReplyOpInv ==
  op # Idle /\ op.body.kind = "RespondAttention" =>
    /\ op.name = "admit" /\ op.ack = "AcceptedLocally" /\ "insert" \in op.todo =>
         attention[op.body.target].state = "open" /\ ~Unfinished(op.body.target)
    /\ op.name = "finish" => "ack" \notin op.todo
    /\ op.name = "finish" /\ "answer" \notin op.todo =>
         attention[op.body.target].state \in Settled
    /\ op.name = "recover" /\ "complete" \in op.todo =>
         outbox[op.cmd].ack # "AcceptedLocally" \/ delivered[op.cmd] = 0

-----------------------------------------------------------------------------
(* Replies.                                                                *)

\* What a step does to the process, as a record without an acknowledgement
\* sees it.
Proceeds ==
  \/ node' = "down"
  \/ node = "down" /\ node' = "loading" /\ recovering' = {c \in Commands : Open(c)}
  \/ node = "loading" /\ node' = "starting" /\ recovering = {}
  \/ /\ node' = node \/ (node = "starting" /\ node' = "serving")
     /\ recoveryRequired => recoveryRequired'
     /\ \A c \in recovering : c \in recovering' \/ (ReturnRecover /\ op.cmd = c)
     /\ \A c \in Commands : Admitting(c) =>
          Admitting(c)' \/ recoveryRequired' \/ op.todo = {} \/ "insert" \in op.todo

\* Every step lets the process proceed so.
LEMMA ProcessFlow ==
  ASSUME IndInv, [Next]_vars
  PROVE  Proceeds
<1> DEFINE Stays == /\ node' = node /\ (recoveryRequired => recoveryRequired')
                    /\ recovering' = recovering
                    /\ op' = op \/ op = Idle \/ (op.name # "admit") \/ op.todo = {}
<1>0. ASSUME Stays PROVE Proceeds
  BY <1>0 DEF Proceeds, Admitting
<1>1. CASE UNCHANGED vars
  BY <1>0, <1>1 DEF vars, volatile
<1>2. CASE BrokerStep
  <2>1. ASSUME NEW s \in Steps, Write(s) PROVE Proceeds
    <3>1. node' = node /\ recoveryRequired' = recoveryRequired /\ recovering' = recovering
      BY <2>1 DEF Write
    <3>2. \A c \in Commands : Admitting(c) => Admitting(c)' \/ recoveryRequired'
      <4>1. op' # Idle /\ op'.name = op.name /\ op'.cmd = op.cmd
        <5>1. op \in Operation /\ op' = [op EXCEPT !.todo = @ \ {s}]
          BY <2>1, Parts DEF Write, Due, TypeOK
        <5>2. QED
          BY <5>1 DEF Operation, Idle
      <4>2. QED
        BY <4>1 DEF Admitting
    <3>3. QED
      BY <3>1, <3>2 DEF Proceeds
  <2>2. CASE ReturnRecover
    <3>1. /\ node' = node /\ recoveryRequired' = recoveryRequired /\ op.name = "recover"
          /\ recovering' = recovering \ {op.cmd}
      BY <2>2 DEF ReturnRecover
    <3>2. QED
      BY <2>2, <3>1 DEF Proceeds, Admitting
  <2>3. CASE ReturnAdmit \/ ReturnReject \/ ReturnClaim \/ ReturnFinish
    BY <1>0, <2>3 DEF ReturnAdmit, ReturnReject, ReturnClaim, ReturnFinish
  <2>4. QED
    BY <1>2, <2>1, <2>2, <2>3 DEF BrokerStep
<1>3. CASE Begun
  BY <1>0, <1>3, BegunFrame
<1>4. ASSUME NEW c \in Commands, DispatchStep(c) PROVE Proceeds
  <2>1. CASE LookUp(c) \/ Send(c)
    BY <1>0, <2>1 DEF LookUp, Send
  <2>2. CASE ClaimRefused(c)
    BY <1>0, <2>2, Zenon DEF ClaimRefused, Die, Proceeds
  <2>3. QED
    BY <1>3, <1>4, <2>1, <2>2 DEF DispatchStep, Begun
<1>5. CASE WorkerStep
  <2>1. CASE ProviderErrors \/ \E r \in {"accepted", "rejected", "mismatch"} : ProviderAnswers(r)
    BY <1>0, <2>1 DEF ProviderErrors, ProviderAnswers
  <2>2. CASE FinishRefused
    BY <1>0, <2>2 DEF FinishRefused
  <2>3. QED
    BY <1>3, <1>5, <2>1, <2>2 DEF WorkerStep, Begun
<1>6. CASE StartupStep
  <2>1. ASSUME NEW c \in Commands, SweepNext(c) PROVE Proceeds
    BY <1>0, <2>1 DEF SweepNext
  <2>2. CASE LoadRefused \/ StartRuntimes
    BY <2>2 DEF LoadRefused, StartRuntimes, Die, Proceeds
  <2>3. CASE Serve
    BY <2>3 DEF Serve, Proceeds, Admitting
  <2>4. QED
    BY <1>3, <1>6, <2>1, <2>2, <2>3 DEF StartupStep, Begun
<1>7. CASE Environment
  <2>1. ASSUME NEW s \in Steps, WriteFails(s) \/ JournalFails(s) PROVE Proceeds
    <3>1. /\ op # Idle /\ s \in op.todo
          /\ \/ node' = "down"
             \/ /\ node' = node /\ recovering' = recovering
                /\ recoveryRequired => recoveryRequired'
                /\ recoveryRequired' \/ op.name # "admit" \/ s = "insert"
      BY <2>1, Zenon DEF WriteFails, JournalFails, Fail, Die, Due
    <3>2. QED
      BY <3>1 DEF Proceeds, Admitting
  <2>2. CASE Load
    BY <2>2 DEF Load, Proceeds, Open
  <2>3. CASE Crash
    BY <2>3 DEF Crash, Die, Proceeds
  <2>4. ASSUME \/ \E c \in Commands, b \in Bodies : AdmitRepeat(c, b)
               \/ \E a \in Attentions : ProviderAttention(a)
               \/ (\E c \in Commands : Expire(c)) \/ StopSession
        PROVE  Proceeds
    BY <1>0, <2>4 DEF AdmitRepeat, ProviderAttention, Expire, StopSession, volatile
  <2>5. QED
    BY <1>3, <1>7, <2>1, <2>2, <2>3, <2>4 DEF Environment, Begun
<1>8. QED
  BY <1>1, <1>2, <1>4, <1>5, <1>6, <1>7 DEF Next

\* Who takes the mutex to act on a record finds it acknowledged.
LEMMA BegunAcked ==
  ASSUME IndInv, UnackedInv, NEW c \in Commands,
         RejectReady(c) \/ ClaimDispatch(c) \/ (FinishDispatch /\ call.cmd = c)
  PROVE  acks[c] # <<>>
<1>1. op = Idle /\ ~recoveryRequired /\ Status(c) # "none"
  BY DEF RejectReady, ClaimDispatch, FinishDispatch, LockFree, Pending
<1>2. node \notin {"down", "loading"}
  <2>1. tickets[c] # "none" \/ call # NoCall
    BY DEF RejectReady, ClaimDispatch, FinishDispatch
  <2>2. QED
    BY <2>1, Parts DEF ProcessInv, NoTickets
<1>3. QED
  BY <1>1, <1>2 DEF UnackedInv, Admitting

\* Every step keeps the log and the operation in agreement.
LEMMA AckStep ==
  ASSUME IndInv, AckInv, UnackedInv, [Next]_vars
  PROVE  AckInv'
<1> USE DEF Status
<1>1. ASSUME NEW c \in Commands, outbox'[c].status = "Completed" PROVE acks'[c] # <<>>
  <2>1. CASE outbox[c].status = "Completed"
    BY <2>1, AcksGrow DEF AckInv
  <2>2. CASE outbox[c].status # "Completed"
    <3>1. Wrote("complete") /\ op.cmd = c
      <4>1. PICK s \in Steps : Wrote(s)
        BY <1>1, <2>2, Shape, BegunFrame DEF Rested
      <4>2. QED
        BY <1>1, <2>2, <4>1, WroteOutbox
    <3>2. op # Idle /\ op \in Operation /\ "complete" \in op.todo /\ "ack" \notin op.todo
      BY <3>1, WroteOp, StepRanks
    <3>3. acks[c] # <<>>
      BY <3>1, <3>2, Parts DEF AckInv, OpInv, Operation
    <3>4. QED
      BY <3>3, AcksGrow
  <2>3. QED
    BY <2>1, <2>2
<1> DEFINE Goal == /\ op'.name = "admit" /\ "insert" \notin op'.todo => outbox'[op'.cmd].body = op'.body
                   /\ op'.name = "admit" /\ "ack" \notin op'.todo =>
                        acks'[op'.cmd] # <<>> /\ acks'[op'.cmd][1] = op'.ack
                   /\ op'.name \in {"claim", "reject", "finish"} => acks'[op'.cmd] # <<>>
                   /\ op'.name = "recover" /\ "ack" \notin op'.todo => acks'[op'.cmd] # <<>>
<1>2. ASSUME op' # Idle, NEW s \in Steps, Wrote(s) PROVE Goal
  <2>1. /\ op # Idle /\ op.cmd \in Commands /\ s \in op.todo /\ op'.name = op.name
        /\ op'.cmd = op.cmd /\ op'.body = op.body /\ op'.ack = op.ack
        /\ op'.todo = op.todo \ {s} /\ op.ack \in Outcomes
    BY <1>2, WroteOp DEF Operation
  <2>2. acks[op.cmd] # <<>> => acks'[op.cmd] # <<>> /\ acks'[op.cmd][1] = acks[op.cmd][1]
    BY <2>1, AcksGrow
  <2>3. s = "insert" => outbox'[op.cmd].body = op.body
    BY <1>2, WroteOutbox
  <2>4. op.name = "admit" /\ "insert" \notin op.todo => outbox'[op.cmd].body = outbox[op.cmd].body
    BY <2>1, RecordsKeep, Parts DEF OpInv
  <2>5. op.name = "admit" /\ "insert" \notin op'.todo => outbox'[op.cmd].body = op.body
    BY <2>1, <2>3, <2>4 DEF AckInv
  <2>6. s = "ack" => acks'[op.cmd] # <<>> /\ (acks[op.cmd] = <<>> => acks'[op.cmd][1] = op.ack)
    <3>1. acks \in [Commands -> Seq(Outcomes)]
      BY Parts DEF TypeOK
    <3>2. QED
      BY <1>2, <2>1, <3>1, WroteLog
  <2>7. op.name = "admit" /\ "ack" \notin op'.todo =>
          acks'[op.cmd] # <<>> /\ acks'[op.cmd][1] = op.ack
    BY <2>1, <2>2, <2>6, Parts DEF AckInv, OpInv
  <2>8. op.name = "recover" /\ "ack" \notin op'.todo => acks'[op.cmd] # <<>>
    BY <2>1, <2>2, <2>6 DEF AckInv
  <2>9. op.name \in {"claim", "reject", "finish"} => acks'[op.cmd] # <<>>
    BY <2>1, <2>2 DEF AckInv
  <2>10. QED
    BY <2>1, <2>5, <2>7, <2>8, <2>9
<1>3. ASSUME Begun PROVE Goal
  <2>0. acks' = acks
    BY <1>3, BegunFrame
  <2>1. ASSUME NEW c \in Commands, NEW b \in Bodies, AdmitNew(c, b) PROVE Goal
    BY <2>1 DEF AdmitNew, AdmitTodo
  <2>2. ASSUME NEW c \in Commands, RejectReady(c) \/ ClaimDispatch(c) PROVE Goal
    <3>1. op'.name \in {"reject", "claim"} /\ op'.cmd = c
      BY <2>2 DEF RejectReady, ClaimDispatch
    <3>2. QED
      BY <2>0, <2>2, <3>1, BegunAcked
  <2>3. CASE FinishDispatch
    <3>1. op'.name = "finish" /\ op'.cmd = call.cmd /\ call.cmd \in Commands
      BY <2>3, Parts DEF FinishDispatch, TypeOK, Call
    <3>2. acks[call.cmd] # <<>>
      BY <2>3, <3>1, BegunAcked
    <3>3. QED
      BY <2>0, <3>1, <3>2
  <2>4. ASSUME NEW c \in Commands, RecoverAdmission(c) PROVE Goal
    BY <2>0, <2>4 DEF RecoverAdmission, RecoverTodo
  <2> HIDE DEF Goal
  <2>5. QED
    BY <1>3, <2>1, <2>2, <2>3, <2>4 DEF Begun
<1>4. ASSUME Rested, op' # Idle PROVE Goal
  BY <1>4 DEF Rested, AckInv
<1> HIDE DEF Goal
<1>5. op' # Idle => Goal
  BY <1>2, <1>3, <1>4, Shape
<1>6. QED
  BY <1>1, <1>5 DEF AckInv, Goal

\* Every step keeps a record without an acknowledgement where a restart finds
\* it.
LEMMA UnackedStep ==
  ASSUME IndInv, AckInv, UnackedInv, [Next]_vars
  PROVE  UnackedInv'
<1> SUFFICES ASSUME NEW c \in Commands, Status(c)' # "none", acks'[c] = <<>>
             PROVE  \/ node' = "down"
                    \/ node' = "loading" /\ c \in recovering'
                    \/ Running' /\ recoveryRequired'
                    \/ Running' /\ Admitting(c)'
  BY DEF UnackedInv
<1>1. acks[c] = <<>>
  BY AcksGrow
<1>2. CASE Status(c) = "none"
  <2>1. Wrote("insert") /\ op.cmd = c /\ "insert" \in Steps
    BY <1>2, NewRecord, StepRanks
  <2>2. Write("insert")
    BY <2>1 DEF Wrote, JournalFails, LogSteps
  <2>3. op.name = "admit" /\ op # Idle /\ node' = node
    BY <2>1, <2>2, WroteOp, WroteOutbox DEF Write
  <2>4. node = "serving"
    BY <2>3, Parts DEF OpInv
  <2>5. Admitting(c)'
    <3>1. op \in Operation /\ op' = [op EXCEPT !.todo = @ \ {"insert"}]
      BY <2>1, <2>2, WroteOp DEF Write
    <3>2. QED
      BY <2>1, <2>3, <3>1 DEF Admitting, Operation, Idle
  <2>6. QED
    BY <2>3, <2>4, <2>5 DEF Running
<1>3. CASE Status(c) # "none"
  <2>1. Open(c)
    BY <1>1, <1>3, Parts DEF TypeOK, AckInv, Open, Status, NoRecord, OutboxRecord
  <2>2. ~(ReturnRecover /\ op.cmd = c)
    BY <1>1 DEF ReturnRecover, AckInv
  <2>3. Admitting(c) => op.todo # {} /\ "insert" \notin op.todo
    BY <1>1, <1>3, Parts DEF Admitting, AckInv, OpInv
  <2>4. \/ node = "down"
        \/ node = "loading" /\ c \in recovering
        \/ Running /\ recoveryRequired
        \/ Running /\ Admitting(c)
    BY <1>1, <1>3 DEF UnackedInv
  <2>5. QED
    BY <2>1, <2>2, <2>3, <2>4, ProcessFlow DEF Proceeds, Running
<1>4. QED
  BY <1>2, <1>3

\* A device hears only from a repeated request or the end of an admission.
LEMMA ToldFlow ==
  ASSUME [Next]_vars
  PROVE  \/ told' = told
         \/ \E c \in Commands, b \in Bodies : AdmitRepeat(c, b)
         \/ ReturnAdmit
<1>1. CASE UNCHANGED vars
  BY <1>1 DEF vars, history
<1>2. CASE BrokerStep
  BY <1>2 DEF BrokerStep, Write, ReturnReject, ReturnClaim, ReturnFinish, ReturnRecover, history
<1>3. ASSUME NEW c \in Commands, DispatchStep(c) PROVE told' = told
  BY <1>3 DEF DispatchStep, LookUp, RejectReady, ClaimDispatch, ClaimRefused, Send, history
<1>4. CASE WorkerStep
  BY <1>4 DEF WorkerStep, ProviderAnswers, ProviderErrors, FinishDispatch, FinishRefused, history
<1>5. CASE StartupStep
  BY <1>5 DEF StartupStep, RecoverAdmission, SweepNext, LoadRefused, StartRuntimes, Serve, history
<1>6. CASE Environment
  BY <1>6, Zenon DEF Environment, AdmitNew, ProviderAttention, Expire, StopSession, Load, Crash,
     WriteFails, JournalFails, history
<1>7. QED
  BY <1>1, <1>2, <1>3, <1>4, <1>5, <1>6 DEF Next

\* What a device was told stays in the files.
LEMMA RepliesStep ==
  ASSUME IndInv, AckInv, UnackedInv, RepliesAreDurable, [Next]_vars
  PROVE  RepliesAreDurable'
<1> DEFINE Kept(c) == /\ Status(c) # "none" /\ acks[c] # <<>>
                      /\ (outbox[c].body = told'[c][1]) <=> (told'[c][2] # "IdempotencyConflict")
                      /\ told'[c][2] \in Outcomes =>
                           outbox[c].ack = told'[c][2] /\ acks[c][1] = told'[c][2]
<1>1. ASSUME NEW c \in Commands, told'[c] # <<>> PROVE Kept(c)
  <2>0. told \in [Commands -> {<<>>} \cup (Bodies \X Replies)]
    BY Parts DEF TypeOK
  <2>1. CASE told'[c] = told[c]
    BY <1>1, <2>1 DEF RepliesAreDurable
  <2>2. ASSUME NEW d \in Commands, NEW b \in Bodies, AdmitRepeat(d, b), told'[c] # told[c] PROVE Kept(c)
    <3>1. /\ node = "serving" /\ op = Idle /\ ~recoveryRequired /\ Status(c) # "none"
          /\ told'[c] = <<b, IF outbox[c].body = b THEN "Duplicate" ELSE "IdempotencyConflict">>
      BY <2>0, <2>2 DEF AdmitRepeat, LockFree
    <3>2. acks[c] # <<>>
      BY <3>1 DEF UnackedInv, Running, Admitting
    <3>3. told'[c][2] \notin Outcomes
      BY <3>1 DEF Outcomes, Refusals
    <3>4. QED
      BY <3>1, <3>2, <3>3
  <2>3. CASE ReturnAdmit /\ told'[c] # told[c]
    <3>1. /\ op # Idle /\ op.name = "admit" /\ op.todo = {}
          /\ told' = [told EXCEPT ![op.cmd] = <<op.body, op.ack>>]
      BY <2>3 DEF ReturnAdmit
    <3>2. op \in Operation /\ op.cmd \in Commands /\ op.ack \in Outcomes
      BY <3>1, Parts DEF TypeOK, Operation
    <3>3. c = op.cmd /\ told'[c] = <<op.body, op.ack>>
      BY <2>0, <2>3, <3>1, <3>2
    <3>4. /\ Status(c) # "none" /\ outbox[c].ack = op.ack /\ outbox[c].body = op.body
          /\ acks[c] # <<>> /\ acks[c][1] = op.ack
      BY <3>1, <3>3, Parts DEF OpInv, AckInv
    <3>5. op.ack # "IdempotencyConflict"
      BY <3>2 DEF Outcomes, Refusals
    <3>6. QED
      BY <3>3, <3>4, <3>5
  <2>4. QED
    BY <2>1, <2>2, <2>3, ToldFlow
<1>2. ASSUME NEW c \in Commands, Kept(c)
      PROVE  /\ Status(c)' # "none" /\ acks'[c] # <<>>
             /\ (outbox'[c].body = told'[c][1]) <=> (told'[c][2] # "IdempotencyConflict")
             /\ told'[c][2] \in Outcomes =>
                  outbox'[c].ack = told'[c][2] /\ acks'[c][1] = told'[c][2]
  BY <1>2, RecordsKeep, AcksGrow
<1> HIDE DEF Kept
<1>3. QED
  BY <1>1, <1>2 DEF RepliesAreDurable

\* An outcome a device received is the first acknowledgement of the log after
\* every crash and restart, and a Duplicate or an IdempotencyConflict refers to an
\* admission that is in the log (admit_device_command, recover_admission).
THEOREM RepliesSurvive == Spec => []RepliesAreDurable
<1> DEFINE Inv == AckInv /\ UnackedInv /\ RepliesAreDurable
<1>1. Init => Inv
  BY DEF Init, NoRecord, AckInv, UnackedInv, RepliesAreDurable, Status
<1>2. IndInv /\ Inv /\ [Next]_vars => Inv'
  BY AckStep, UnackedStep, RepliesStep
<1>3. QED
  BY <1>1, <1>2, IndInvariant, PTL DEF Spec

-----------------------------------------------------------------------------
(* Answers.                                                                *)

\* The shape of the files.
LEMMA FileShapes ==
  ASSUME IndInv
  PROVE  /\ \A c \in Commands :
              /\ outbox[c].status \in {"none", "Ready", "Claimed", "Completed"}
              /\ outbox[c].status # "none" => outbox[c].body \in Bodies
              /\ acks[c] \in Seq(Outcomes) /\ delivered[c] \in Nat
         /\ \A a \in Attentions : attention[a].state \in {"absent", "open", "answered", "closed"}
BY Parts DEF TypeOK, NoRecord, OutboxRecord

\* An attention changes when no operation runs or by an answer, and what is
\* settled stays settled.
LEMMA AttentionFlow ==
  ASSUME IndInv, [Next]_vars
  PROVE  /\ attention' = attention \/ Wrote("answer") \/ op = Idle
         /\ \A a \in Attentions : attention[a].state \in Settled => attention'[a].state \in Settled
<1>0. attention \in [Attentions -> [state : {"absent", "open", "answered", "closed"},
                                    by : Commands \cup {NoCommand}]]
  BY Parts DEF TypeOK
<1>1. \/ attention' = attention
      \/ \E s \in Steps : Wrote(s)
      \/ \E a \in Attentions : ProviderAttention(a)
  <2>1. CASE UNCHANGED vars
    BY <2>1 DEF vars, durable
  <2>2. CASE BrokerStep
    BY <2>2 DEF BrokerStep, Wrote, ReturnAdmit, ReturnReject, ReturnClaim, ReturnFinish,
       ReturnRecover, durable
  <2>3. ASSUME NEW c \in Commands, DispatchStep(c) PROVE attention' = attention
    BY <2>3 DEF DispatchStep, LookUp, RejectReady, ClaimDispatch, ClaimRefused, Send, durable
  <2>4. CASE WorkerStep
    BY <2>4 DEF WorkerStep, ProviderAnswers, ProviderErrors, FinishDispatch, FinishRefused, durable
  <2>5. CASE StartupStep
    BY <2>5 DEF StartupStep, RecoverAdmission, SweepNext, LoadRefused, StartRuntimes, Serve, durable
  <2>6. CASE Environment
    BY <2>6 DEF Environment, Wrote, AdmitNew, AdmitRepeat, Expire, StopSession, Load, Crash,
       WriteFails, durable
  <2>7. QED
    BY <2>1, <2>2, <2>3, <2>4, <2>5, <2>6 DEF Next
<1>2. ASSUME NEW s \in Steps, Wrote(s), attention' # attention
      PROVE  /\ Wrote("answer")
             /\ \A a \in Attentions : attention'[a] = attention[a] \/ attention'[a].state = "answered"
  <2>1. s = "answer" /\ attention' = [attention EXCEPT ![op.body.target] =
                                        [state |-> "answered", by |-> op.cmd]]
    BY <1>2, WroteLog
  <2>2. QED
    BY <1>0, <1>2, <2>1
<1>3. ASSUME NEW a \in Attentions, ProviderAttention(a)
      PROVE  op = Idle /\ \A e \in Attentions : attention[e].state \in Settled => attention'[e] = attention[e]
  <2>1. op = Idle
    BY <1>3 DEF ProviderAttention, LockFree
  <2>2. PICK s \in {"open", "answered", "closed"} :
          /\ attention[a].state = (IF s = "open" THEN "absent" ELSE "open")
          /\ attention' = [attention EXCEPT ![a].state = s]
    BY <1>3, Zenon DEF ProviderAttention
  <2>3. QED
    BY <1>0, <2>1, <2>2 DEF Settled
<1>4. QED
  BY <1>1, <1>2, <1>3 DEF Settled

\* A command that is not claimed is not sent.
LEMMA SentIsOpen ==
  ASSUME IndInv, [Next]_vars, NEW c \in Commands, delivered'[c] # delivered[c]
  PROVE  Status(c) = "Claimed" /\ outbox[c].ack = "AcceptedLocally" /\ InMailbox(c)
BY Flow, Parts DEF Custody

\* Every step keeps one unfinished reply to an attention, and no reply sent
\* before it.
LEMMA OneOpenStep ==
  ASSUME IndInv, ReplyInv, ReplyOpInv, [Next]_vars, NEW c \in Commands, NEW d \in Commands,
         c # d, Reply(c)', Reply(d)', Open(d)',
         outbox'[c].body.target = outbox'[d].body.target
  PROVE  ~Open(c)' /\ delivered'[c] = 0
<1> USE DEF Status
<1>0. \A e \in Commands : /\ outbox[e].status \in {"none", "Ready", "Claimed", "Completed"}
                           /\ delivered[e] \in Nat
  BY FileShapes
<1>a. ASSUME Wrote("insert")
      PROVE  /\ op # Idle /\ op.name = "admit" /\ "insert" \in op.todo /\ delivered' = delivered
             /\ outbox'[op.cmd].body = op.body /\ outbox'[op.cmd].ack = op.ack
             /\ \A e \in Commands : e # op.cmd => outbox'[e] = outbox[e]
  BY <1>a, StepRanks, WroteOp, WroteOutbox
<1>1. CASE outbox[d].status = "none"
  <2>1. Wrote("insert") /\ op.cmd = d
    BY <1>1, NewRecord DEF Reply
  <2>2. /\ attention[outbox'[d].body.target].state = "open"
        /\ ~Unfinished(outbox'[d].body.target)
    BY <1>a, <2>1 DEF ReplyOpInv, Reply
  <2>3. outbox'[c] = outbox[c] /\ delivered' = delivered
    BY <1>a, <2>1
  <2>4. Reply(c) /\ outbox[c].body.target = outbox'[d].body.target
    BY <2>3 DEF Reply
  <2>5. outbox[c].status = "Completed"
    BY <1>0, <2>2, <2>4 DEF Unfinished, Reply
  <2>6. delivered[c] = 0
    <3>1. attention[outbox[c].body.target].state = "open"
      BY <2>2, <2>4
    <3>2. ~(delivered[c] > 0)
      BY <2>4, <2>5, <3>1 DEF ReplyInv, Settled
    <3>3. QED
      BY <1>0, <3>2
  <2>7. QED
    BY <2>3, <2>5, <2>6 DEF Open
<1>2. CASE outbox[d].status # "none" /\ outbox[c].status = "none"
  <2>1. Wrote("insert") /\ op.cmd = c
    BY <1>2, NewRecord DEF Reply
  <2>2. ~Unfinished(outbox'[c].body.target)
    BY <1>a, <2>1 DEF ReplyOpInv, Reply
  <2>3. outbox'[d] = outbox[d]
    BY <1>a, <2>1
  <2>4. QED
    BY <2>2, <2>3 DEF Unfinished, Reply, Open
<1>3. CASE outbox[d].status # "none" /\ outbox[c].status # "none"
  <2>1. /\ Reply(c) /\ Reply(d)
        /\ outbox[c].body.target = outbox[d].body.target
    BY <1>3, RecordsKeep DEF Reply
  <2>2. Open(d)
    BY <1>0, <1>3, RecordsKeep DEF Open
  <2>3. ~Open(c) /\ delivered[c] = 0
    BY <2>1, <2>2 DEF ReplyInv
  <2>4. outbox[c].status = "Completed"
    BY <1>0, <1>3, <2>3 DEF Open
  <2>5. outbox'[c].status = "Completed" /\ delivered'[c] = delivered[c]
    BY <1>3, <2>4, RecordsKeep, SentIsOpen
  <2>6. QED
    BY <2>3, <2>5 DEF Open
<1>4. QED
  BY <1>1, <1>2, <1>3

\* A reply that was sent is completed after its answer.
LEMMA CompletedIsSettled ==
  ASSUME IndInv, ReplyInv, ReplyOpInv, [Next]_vars, NEW c \in Commands,
         Reply(c)', Status(c)' = "Completed", delivered'[c] > 0
  PROVE  attention'[outbox'[c].body.target].state \in Settled
<1> USE DEF Status
<1>0. delivered[c] \in Nat
  BY FileShapes
<1>1. outbox[c].status # "none"
  BY NewRecord, StepRanks, WroteOutbox
<1>2. Reply(c) /\ outbox'[c].body = outbox[c].body
  BY <1>1, RecordsKeep DEF Reply
<1>3. outbox[c].body.target \in Attentions
  BY <1>1, <1>2, BodyAssumption, FileShapes DEF Reply
<1>4. attention[outbox[c].body.target].state \in Settled
  <2>1. CASE outbox[c].status = "Completed"
    <3>1. delivered'[c] = delivered[c]
      BY <2>1, SentIsOpen
    <3>2. QED
      BY <1>2, <2>1, <3>1 DEF ReplyInv
  <2>2. CASE outbox[c].status # "Completed"
    <3>1. Wrote("complete") /\ op.cmd = c
      <4>1. PICK s \in {"claim", "complete"} : Wrote(s) /\ op.cmd = c
        BY <1>1, <2>2, RecordsKeep
      <4>2. QED
        BY <4>1, StepRanks, WroteOutbox
    <3>2. /\ op # Idle /\ op \in Operation /\ "complete" \in op.todo /\ delivered' = delivered
          /\ "answer" \notin op.todo /\ "insert" \notin op.todo
      BY <3>1, StepRanks, WroteOp
    <3>3. delivered[c] > 0
      BY <3>2
    <3>4. op.name \in {"finish", "recover"}
      <4>1. op.name \in {"admit", "claim", "reject", "finish", "recover"}
        BY <3>2 DEF Operation
      <4>2. OpInv /\ delivered[c] # 0
        BY <1>0, <3>3, Parts
      <4>3. op.name \notin {"admit", "claim", "reject"}
        BY <3>1, <3>2, <4>2 DEF OpInv
      <4>4. QED
        BY <4>1, <4>3
    <3>5. op.body = outbox[c].body
      BY <3>1, <3>2, <3>4, Parts DEF OpInv
    <3>6. op # Idle /\ op.body.kind = "RespondAttention" /\ outbox[op.cmd].ack = "AcceptedLocally"
      BY <1>2, <3>1, <3>2, <3>5 DEF Reply
    <3>7. QED
      BY <3>1, <3>2, <3>3, <3>4, <3>5, <3>6 DEF ReplyOpInv
  <2>3. QED
    BY <2>1, <2>2
<1>5. QED
  BY <1>2, <1>3, <1>4, AttentionFlow

\* Only the sweep acknowledges a reply a second time.
LEMMA SecondAckStep ==
  ASSUME IndInv, OutcomeInv, ReplyInv, ReplyOpInv, [Next]_vars, NEW c \in Commands, Reply(c)',
         NEW i \in DOMAIN acks'[c], i > 1
  PROVE  acks'[c][i] = "RuntimeUnavailable"
<1> USE DEF Status
<1>0. acks[c] \in Seq(Outcomes)
  BY FileShapes
<1>1. CASE outbox[c].status = "none"
  <2>1. Wrote("insert")
    BY <1>1, NewRecord DEF Reply
  <2>2. acks' = acks /\ acks[c] = <<>>
    BY <1>1, <2>1, WroteLog, StepRanks, Parts DEF RecordInv
  <2>3. QED
    BY <2>2
<1>2. CASE outbox[c].status # "none"
  <2>1. Reply(c) /\ outbox'[c].body = outbox[c].body
    BY <1>2, RecordsKeep DEF Reply
  <2>2. CASE acks'[c] = acks[c]
    BY <2>1, <2>2 DEF ReplyInv
  <2>3. CASE Wrote("ack") /\ op.cmd = c /\ acks'[c] = Append(acks[c], op.ack)
    <3>1. op # Idle /\ op \in Operation /\ "ack" \in op.todo /\ op.ack \in Outcomes /\ "insert" \notin op.todo
      BY <2>3, WroteOp, StepRanks DEF Operation
    <3>2. CASE i \in DOMAIN acks[c]
      <4>1. acks'[c][i] = acks[c][i]
        BY <1>0, <2>3, <3>1, <3>2
      <4>2. QED
        BY <2>1, <3>2, <4>1 DEF ReplyInv
    <3>3. CASE i \notin DOMAIN acks[c]
      <4>1. acks[c] # <<>> /\ acks'[c][i] = op.ack
        BY <1>0, <2>3, <3>1, <3>3
      <4>2. op.name \in {"reject", "finish"}
        BY <2>3, <3>1, <4>1, Parts DEF OpInv, Operation
      <4>3. op.body = outbox[c].body
        BY <2>3, <3>1, <4>2, Parts DEF OpInv
      <4>4. op.name = "reject"
        BY <2>1, <3>1, <4>2, <4>3 DEF ReplyOpInv, Reply
      <4>5. QED
        BY <3>1, <4>1, <4>4 DEF OutcomeInv
    <3>4. QED
      BY <3>2, <3>3
  <2>4. QED
    BY <2>2, <2>3, AcksGrow
<1>3. QED
  BY <1>1, <1>2

\* Every step keeps the replies to an attention apart.
LEMMA ReplyStep ==
  ASSUME IndInv, OutcomeInv, ReplyInv, ReplyOpInv, [Next]_vars
  PROVE  ReplyInv'
BY OneOpenStep, CompletedIsSettled, SecondAckStep DEF ReplyInv

\* A reply is accepted for an open attention without an unfinished reply.
LEMMA AdmitKnows ==
  ASSUME IndInv, NEW c \in Commands, NEW b \in Bodies, AdmitNew(c, b), b.kind = "RespondAttention"
  PROVE  /\ op'.name = "admit" /\ op'.body = b
         /\ op'.ack = "AcceptedLocally" =>
              attention'[b.target].state = "open" /\ ~Unfinished(b.target)'
<1>1. op'.name = "admit" /\ op'.body = b /\ op'.ack \in PreviewOutcomes(b)
  BY AdmitOp
<1>2. outbox' = outbox /\ attention' = attention
  BY BegunFrame DEF Begun
<1>3. attention[b.target].state \in {"absent", "open", "answered", "closed"}
  BY BodyAssumption, FileShapes
<1>4. op'.ack = "AcceptedLocally" => ~Unfinished(b.target) /\ CheckReply(b.target) = "AcceptedLocally"
  BY <1>1 DEF PreviewOutcomes, SubmitOutcome
<1>5. CheckReply(b.target) = "AcceptedLocally" => attention[b.target].state = "open"
  BY <1>3 DEF CheckReply
<1>6. ~Unfinished(b.target) => ~Unfinished(b.target)'
  BY <1>2 DEF Unfinished, Status
<1>7. QED
  BY <1>1, <1>2, <1>4, <1>5, <1>6

\* A dispatcher writes no answer.
LEMMA DispatchKnows ==
  ASSUME NEW c \in Commands, RejectReady(c) \/ ClaimDispatch(c)
  PROVE  op'.name \in {"reject", "claim"}
BY RejectOp, ClaimOp

\* The end of a reply's call writes the answer and no acknowledgement.
LEMMA FinishKnows ==
  ASSUME FinishDispatch, op'.body.kind = "RespondAttention"
  PROVE  op'.name = "finish" /\ "answer" \in op'.todo /\ "ack" \notin op'.todo
BY FinishOp DEF FinishTodo

\* Recovery completes an accepted reply only if it was not sent.
LEMMA RecoverKnows ==
  ASSUME IndInv, VerdictInv, ReplyInv, NEW c \in Commands, RecoverAdmission(c),
         op'.body.kind = "RespondAttention"
  PROVE  /\ op'.name = "recover" /\ op'.cmd = c
         /\ "complete" \in op'.todo => outbox'[c].ack # "AcceptedLocally" \/ delivered'[c] = 0
<1>1. /\ op = Idle /\ c \in recovering
      /\ op'.name = "recover" /\ op'.cmd = c /\ op'.body = outbox[c].body
      /\ op'.todo = RecoverTodo(c)
  BY RecoverOp
<1>a. outbox' = outbox /\ delivered' = delivered
  BY BegunFrame DEF Begun
<1>2. Status(c) \in {"Ready", "Claimed"} /\ outbox[c].body.kind = "RespondAttention"
  BY <1>1, Parts DEF ProcessInv
<1>3. "complete" \in op'.todo => outbox[c].ack # "AcceptedLocally" \/ TerminalCommitted(c)
  BY <1>1 DEF RecoverTodo
<1>4. ASSUME outbox[c].ack = "AcceptedLocally", TerminalCommitted(c) PROVE delivered[c] = 0
  <2>1. 2 \in DOMAIN acks[c]
    <3>1. acks[c] \in Seq(Outcomes)
      BY FileShapes
    <3>2. QED
      BY <1>4, <3>1 DEF TerminalCommitted
  <2>2. Reply(c)
    BY <1>2, <1>4 DEF Reply
  <2>3. acks[c][2] = "RuntimeUnavailable"
    <3>1. \A i \in DOMAIN acks[c] : i > 1 => acks[c][i] = "RuntimeUnavailable"
      BY <2>2 DEF ReplyInv
    <3>2. QED
      BY <2>1, <3>1
  <2>4. QED
    BY <2>1, <2>3 DEF VerdictInv, Unsendable
<1>5. QED
  BY <1>1, <1>a, <1>3, <1>4

\* Every step keeps what the holder of the mutex knows of its attention.
LEMMA ReplyOpStep ==
  ASSUME IndInv, VerdictInv, ReplyInv, ReplyOpInv, [Next]_vars
  PROVE  ReplyOpInv'
<1> USE DEF Status
<1> DEFINE Goal == /\ op'.name = "admit" /\ op'.ack = "AcceptedLocally" /\ "insert" \in op'.todo =>
                        attention'[op'.body.target].state = "open" /\ ~Unfinished(op.body.target)'
                   /\ op'.name = "finish" => "ack" \notin op'.todo
                   /\ op'.name = "finish" /\ "answer" \notin op'.todo =>
                        attention'[op'.body.target].state \in Settled
                   /\ op'.name = "recover" /\ "complete" \in op'.todo =>
                        outbox'[op'.cmd].ack # "AcceptedLocally" \/ delivered'[op'.cmd] = 0
<1>1. ASSUME op' # Idle, op'.body.kind = "RespondAttention", NEW s \in Steps, Wrote(s) PROVE Goal
  <2>1. /\ op # Idle /\ op.cmd \in Commands /\ op.body \in Bodies /\ s \in op.todo
        /\ op'.name = op.name /\ op'.cmd = op.cmd /\ op'.body = op.body /\ op'.ack = op.ack
        /\ op'.todo = op.todo \ {s} /\ \A t \in op.todo : Rank[s] <= Rank[t]
        /\ delivered' = delivered
    BY <1>1, WroteOp
  <2>2. op.body.kind = "RespondAttention" /\ op.body.target \in Attentions
    BY <1>1, <2>1, BodyAssumption
  <2>3. "insert" \notin op'.todo
    BY <2>1, StepRanks
  <2>4. op.name = "finish" /\ "answer" \notin op'.todo => attention'[op.body.target].state \in Settled
    <3>1. CASE s = "answer"
      <4>1. attention' = [attention EXCEPT ![op.body.target] = [state |-> "answered", by |-> op.cmd]]
        BY <1>1, <3>1, WroteLog
      <4>2. QED
        BY <2>2, <4>1, Parts DEF TypeOK, Settled
    <3>2. CASE s # "answer"
      BY <2>1, <2>2, <3>2, AttentionFlow DEF ReplyOpInv
    <3>3. QED
      BY <3>1, <3>2
  <2>5. op.name = "recover" => outbox'[op.cmd].ack = outbox[op.cmd].ack
    BY <2>1, RecordsKeep, Parts DEF OpInv
  <2>6. QED
    BY <2>1, <2>2, <2>3, <2>4, <2>5 DEF ReplyOpInv
<1>2. ASSUME NEW c \in Commands, NEW b \in Bodies, AdmitNew(c, b), b.kind = "RespondAttention" PROVE Goal
  <2>1. ~Unfinished(b.target)' => ~Unfinished(op.body.target)'
    BY <1>2, AdmitKnows DEF Unfinished
  <2>2. QED
    BY <1>2, <2>1, AdmitKnows
<1>3. ASSUME NEW c \in Commands, RejectReady(c) \/ ClaimDispatch(c) PROVE Goal
  BY <1>3, DispatchKnows
<1>4. ASSUME FinishDispatch, op'.body.kind = "RespondAttention" PROVE Goal
  BY <1>4, FinishKnows
<1>5. ASSUME NEW c \in Commands, RecoverAdmission(c), op'.body.kind = "RespondAttention" PROVE Goal
  BY <1>5, RecoverKnows
<1>6. ASSUME Rested, op' # Idle, op'.body.kind = "RespondAttention", ~\E s \in Steps : Wrote(s)
      PROVE  Goal
  <2>1. op' = op /\ outbox' = outbox /\ op \in Operation /\ op.cmd \in Commands
    BY <1>6, Parts DEF Rested, TypeOK, Operation
  <2>2. attention' = attention
    BY <1>6, <2>1, AttentionFlow, StepRanks
  <2>3. op.name = "recover" => delivered'[op.cmd] = delivered[op.cmd]
    <3>1. op.name = "recover" => mailbox = <<>>
      BY <1>6, <2>1, Parts DEF OpInv, ProcessInv
    <3>2. op.name = "recover" => ~InMailbox(op.cmd)
      BY <3>1 DEF InMailbox
    <3>3. QED
      BY <2>1, <3>2, SentIsOpen
  <2>4. Unfinished(op.body.target)' => Unfinished(op.body.target)
    BY <2>1 DEF Unfinished
  <2>5. QED
    BY <1>6, <2>1, <2>2, <2>3, <2>4 DEF ReplyOpInv
<1> HIDE DEF Goal
<1>7. ASSUME op' # Idle, op'.body.kind = "RespondAttention" PROVE Goal
  <2>1. ASSUME NEW c \in Commands, NEW b \in Bodies, AdmitNew(c, b) PROVE op'.body = b
    BY <2>1, AdmitOp
  <2>2. CASE \E s \in Steps : Wrote(s)
    BY <1>1, <1>7, <2>2
  <2>3. CASE Begun
    BY <1>2, <1>3, <1>4, <1>5, <1>7, <2>1, <2>3 DEF Begun
  <2>4. CASE Rested /\ ~\E s \in Steps : Wrote(s)
    BY <1>6, <1>7, <2>4
  <2>5. QED
    BY <2>2, <2>3, <2>4, Shape
<1>8. QED
  BY <1>7 DEF ReplyOpInv, Goal

\* Every step that sends a reply sends the first one to its attention.
LEMMA AnswerStep ==
  ASSUME IndInv, ReplyInv, OneAnswerSent, [Next]_vars
  PROVE  OneAnswerSent'
<1> USE DEF Status
<1>0. delivered \in [Commands -> Nat]
  BY Parts DEF TypeOK
<1>1. ASSUME NEW c \in Commands, delivered'[c] > 0, outbox'[c].body.kind = "RespondAttention"
      PROVE  /\ delivered[c] > 0 \/ Open(c)
             /\ Reply(c) /\ outbox'[c].body = outbox[c].body
  <2>1. outbox[c].status # "none" /\ outbox[c].ack = "AcceptedLocally" /\ (delivered[c] > 0 \/ Open(c))
    <3>1. CASE delivered'[c] # delivered[c]
      BY <3>1, SentIsOpen DEF Open
    <3>2. CASE delivered'[c] = delivered[c]
      <4>1. Custody(c) /\ delivered[c] \in Nat /\ delivered[c] > 0
        BY <1>0, <1>1, <3>2, Parts
      <4>2. delivered[c] # 0
        BY <4>1
      <4>3. outbox[c].status # "none" /\ outbox[c].ack = "AcceptedLocally"
        BY <4>1, <4>2 DEF Custody
      <4>4. QED
        BY <4>1, <4>3
    <3>3. QED
      BY <3>1, <3>2
  <2>2. outbox'[c].body = outbox[c].body /\ outbox'[c].ack = outbox[c].ack
    BY <1>1, <2>1, RecordsKeep
  <2>3. QED
    BY <1>1, <2>1, <2>2 DEF Reply
<1>2. ASSUME NEW c \in Commands, NEW d \in Commands, c # d, Reply(c), Reply(d),
             outbox[c].body.target = outbox[d].body.target,
             delivered[c] > 0 \/ Open(c), delivered[d] > 0 \/ Open(d)
      PROVE  FALSE
  <2>0. delivered[c] \in Nat /\ delivered[d] \in Nat
    BY <1>0
  <2>1. CASE Open(d)
    <3>1. ~Open(c) /\ delivered[c] = 0
      BY <1>2, <2>1 DEF ReplyInv
    <3>2. QED
      BY <1>2, <2>0, <3>1
  <2>2. CASE Open(c)
    <3>1. ~Open(d) /\ delivered[d] = 0
      BY <1>2, <2>2 DEF ReplyInv
    <3>2. QED
      BY <1>2, <2>0, <3>1
  <2>3. CASE ~Open(c) /\ ~Open(d)
    BY <1>2, <2>3 DEF OneAnswerSent, Reply
  <2>4. QED
    BY <2>1, <2>2, <2>3
<1>3. QED
  BY <1>1, <1>2 DEF OneAnswerSent

\* Two replies to one approval or question never both reach the provider, though
\* the process may die between any two writes of the first one
\* (has_unfinished_attention, finish_dispatch, recover_admission).
THEOREM OneReplyIsSent == Spec => []OneAnswerSent
<1> DEFINE Inv == OutcomeInv /\ VerdictInv /\ ReplyInv /\ ReplyOpInv /\ OneAnswerSent
<1>1. Init => Inv
  <2>1. Init => OutcomeInv /\ VerdictInv
    BY InitVerdict
  <2>2. Init => \A c \in Commands : ~Reply(c) /\ delivered[c] = 0
    BY DEF Init, NoRecord, Reply, Status
  <2>3. Init => ReplyInv /\ OneAnswerSent
    BY <2>2 DEF ReplyInv, OneAnswerSent
  <2>4. Init => ReplyOpInv
    BY DEF Init, ReplyOpInv
  <2>5. QED
    BY <2>1, <2>3, <2>4
<1>2. IndInv /\ Inv /\ [Next]_vars => Inv'
  BY OutcomeStep, VerdictStep, ReplyStep, ReplyOpStep, AnswerStep
<1>3. QED
  BY <1>1, <1>2, IndInvariant, PTL DEF Spec
=============================================================================
