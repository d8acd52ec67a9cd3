--------------------------- MODULE DeviceCommands ---------------------------
(***************************************************************************)
(* Admission, durable dispatch and crash recovery of the commands a phone  *)
(* sends to hostd.                                                         *)
(*                                                                         *)
(* CanonicalStore (kaleido-state) keeps three files that matter here: the  *)
(* append-only canonical log (acknowledgements, attention answers, queue   *)
(* entries), the device-command outbox and the idempotency side table.     *)
(* Each durable write is one line and one fsync, so an operation is a      *)
(* SEQUENCE of writes between any two of which the process may die.  The   *)
(* broker mutex is held for the whole operation: "op" is its holder, and   *)
(* op.todo the writes it still has to make, in the order of Rank.          *)
(*                                                                         *)
(* RuntimeSupervisor (kaleido-hostd) turns a Ready outbox record into one  *)
(* call of the provider: look the record and the worker up, claim durably, *)
(* send to the worker's channel; the worker calls the provider and reports *)
(* the result with finish_dispatch.                                        *)
(***************************************************************************)
EXTENDS Naturals, Sequences, FiniteSets

CONSTANTS
  Commands,    \* command ids; one per (device, idempotency key) pair
  Bodies,      \* request bodies, see BodyAssumption
  Sessions,    \* sessions the canonical state knows and the worker serves
  Attentions,  \* approvals and questions a provider may raise
  NoCommand,   \* "not answered by a local command"
  MaxFaults    \* bound on crashes and failed writes of a behaviour

Kinds == {"SubmitPrompt", "RespondAttention", "InterruptTurn",
          "ResumeSession", "EnqueueInput", "Other"}

ASSUME BodyAssumption ==
  \A b \in Bodies : /\ DOMAIN b = {"kind", "target", "ttl"}
                    /\ b.kind \in Kinds
                    /\ b.ttl \in BOOLEAN
                    /\ b.kind = "RespondAttention" => b.target \in Attentions

ASSUME NoCommandAssumption == NoCommand \notin Commands

ASSUME FaultAssumption == MaxFaults \in Nat

Refusals == {"NotFound", "ApprovalAlreadyAnswered", "InvalidCommand",
             "CapabilityUnavailable", "RuntimeUnavailable",
             "RejectedByProvider"}
Outcomes == {"AcceptedLocally", "AcceptedByRuntime", "Enqueued"} \cup Refusals
Replies  == Outcomes \cup {"Duplicate", "IdempotencyConflict"}

VARIABLES
  \* -- durable: what a restart reads back --------------------------------
  outbox,     \* per command: NoRecord or its latest outbox line
  acks,       \* per command: the acknowledgements the log holds, in order
  attention,  \* per attention: its canonical state
  queued,     \* commands whose QueueEntryUpserted record is in the log
  idem,       \* commands recorded in the idempotency side table
  \* -- volatile: lost in a crash -----------------------------------------
  node,       \* "down", "loading", "starting" or "serving"
  recovering, \* outbox records CanonicalStore::load has still to repair
  unswept,    \* Ready records recover_all_ready has still to visit
  op,         \* the operation holding the broker mutex, or Idle
  recoveryRequired, \* the store's flag: no write until a reload
  tickets,    \* per command: how far a thread is in dispatch_ticket
  worker,     \* "none", "up" or "closing": the worker of the sessions
  mailbox,    \* the claims in the worker's channel
  call,       \* the provider call whose result is not yet recorded
  \* -- history and environment -------------------------------------------
  delivered,  \* per command: times its bytes may have left for the provider
  told,       \* per command: the last reply a device got, with the body
  expired,    \* commands whose expires_at_ms has passed while they waited
  refused,    \* the last load ended with CommandOutboxDiverged
  faults      \* crashes and write failures so far

durable  == <<outbox, acks, attention, queued, idem>>
volatile == <<node, recovering, unswept, op, recoveryRequired, tickets,
              worker, mailbox, call>>
history  == <<delivered, told, expired, refused, faults>>
vars     == <<durable, volatile, history>>

-----------------------------------------------------------------------------
(* Types and small state predicates.                                       *)

NoRecord == [status |-> "none"]
OutboxRecord == [status : {"Ready", "Claimed", "Completed"},
                 body : Bodies, ack : Outcomes]

\* The durable writes of an operation; every operation makes its writes in
\* increasing Rank.
Rank == [insert |-> 1, claim |-> 2, entry |-> 3, effect |-> 4,
         answer |-> 5, ack |-> 6, idem |-> 7, complete |-> 8]
Steps == DOMAIN Rank
LogSteps == {"entry", "effect", "answer", "ack"}

Idle == [name |-> "idle"]
Operation == [name : {"admit", "claim", "reject", "finish", "recover"},
              cmd : Commands, body : Bodies, ack : Outcomes,
              todo : SUBSET Steps]

NoCall == [result |-> "none"]
Call == [cmd : Commands, result : {"accepted", "rejected", "mismatch"}]

Status(c) == outbox[c].status
Running   == node \in {"starting", "serving"}
LockFree  == op = Idle

\* Mutant: pending() forgets the status filter.
PendingAll == {c \in Commands : Status(c) \in {"Ready", "Claimed"}}

\* device_outbox.pending(): what pending_dispatches returns.
Pending == {c \in Commands : Status(c) = "Ready"}

\* has_unfinished_attention
Unfinished(a) ==
  \E c \in Commands : /\ Status(c) \in {"Ready", "Claimed"}
                      /\ outbox[c].body.kind = "RespondAttention"
                      /\ outbox[c].body.target = a

-----------------------------------------------------------------------------
(* What the store decides about a request.                                 *)

\* AttentionItem::check_reply and reply_rejection_code, for a well-formed
\* reply to attention a.
CheckReply(a) ==
  [absent |-> "NotFound", open |-> "AcceptedLocally",
   answered |-> "ApprovalAlreadyAnswered",
   closed |-> "InvalidCommand"][attention[a].state]

\* CanonicalStore::dispatch, the decision submit_command makes.
SubmitOutcome(b) ==
  CASE b.kind = "RespondAttention" -> CheckReply(b.target)
    [] b.kind \in {"SubmitPrompt", "EnqueueInput"} /\ b.target \notin Sessions
         -> "NotFound"
    [] b.kind = "EnqueueInput" /\ b.target \in Sessions -> "Enqueued"
    [] OTHER -> "AcceptedLocally"

\* Mutant: the unfinished-reply guard is missing.
PreviewUnguarded(b) ==
  CASE b.kind = "Other" -> {"InvalidCommand"}
    [] b.kind \in {"InterruptTurn", "ResumeSession"} /\ b.target \notin Sessions
         -> {"NotFound"}
    [] b.kind = "ResumeSession" /\ b.target \in Sessions
         -> {"AcceptedLocally", "CapabilityUnavailable"}
    [] OTHER -> {SubmitOutcome(b)}

\* preview_device_admission.  Whether the runtime permits HistoryResume is
\* the environment's choice.  request.validate() demands ttl_ms >= 1, so the
\* CommandExpired branch is never taken at the receive instant.
PreviewOutcomes(b) ==
  CASE b.kind = "Other" -> {"InvalidCommand"}
    [] b.kind = "RespondAttention" /\ Unfinished(b.target)
         -> {"ApprovalAlreadyAnswered"}
    [] b.kind \in {"InterruptTurn", "ResumeSession"} /\ b.target \notin Sessions
         -> {"NotFound"}
    [] b.kind = "ResumeSession" /\ b.target \in Sessions
         -> {"AcceptedLocally", "CapabilityUnavailable"}
    [] OTHER -> {SubmitOutcome(b)}

\* device_route_uses_submit
UsesSubmit(b) == b.kind \in {"SubmitPrompt", "RespondAttention", "EnqueueInput"}

\* The writes of admit_device_command once the outcome is known.
AdmitTodo(o) ==
  {"insert", "ack"}
    \cup (IF o = "Enqueued" THEN {"entry"} ELSE {})
    \cup (IF o \in {"AcceptedLocally", "Enqueued"} THEN {"idem"} ELSE {})
    \cup (IF o # "AcceptedLocally" THEN {"complete"} ELSE {})

\* Whether finish_dispatch accepts a result for this command (valid_terminal):
\* a structured rejection closes only prompt and interrupt routes.
ClosesRoute(b, r) ==
  \/ r = "accepted"
  \/ r = "rejected" /\ b.kind \in {"SubmitPrompt", "InterruptTurn"}

\* The effects of a valid result, then the completion of the claim.
FinishTodo(b, r) ==
  {"complete"}
    \cup (IF b.kind \in {"SubmitPrompt", "InterruptTurn"} THEN {"ack"} ELSE {})
    \cup (IF b.kind = "RespondAttention" THEN {"answer"} ELSE {})
    \cup (IF b.kind = "ResumeSession" \/ (b.kind = "SubmitPrompt" /\ r = "accepted")
          THEN {"effect"} ELSE {})

-----------------------------------------------------------------------------
(* The durable writes.                                                     *)

Due(s) == /\ op # Idle
          /\ s \in op.todo
          /\ \A t \in op.todo : Rank[s] <= Rank[t]

\* DeviceCommandOutbox::insert_ready and insert_claimed
InsertRecord ==
  /\ outbox' = [outbox EXCEPT ![op.cmd] =
        [status |-> IF op.ack = "AcceptedLocally" THEN "Ready" ELSE "Claimed",
         body |-> op.body, ack |-> op.ack]]
  /\ UNCHANGED <<acks, attention, queued, idem>>

\* DeviceCommandOutbox::claim
ClaimRecord ==
  /\ outbox' = [outbox EXCEPT ![op.cmd].status = "Claimed"]
  /\ UNCHANGED <<acks, attention, queued, idem>>

\* CanonicalStore::enqueue: the QueueEntryUpserted record
AppendEntry ==
  /\ queued' = queued \cup {op.cmd}
  /\ UNCHANGED <<outbox, acks, attention, idem>>

\* A TurnUpserted or SessionUpserted record; no decision here reads it.
AppendEffect == UNCHANGED durable

\* AttentionUpserted: Answered by this local command
AppendAnswer ==
  /\ attention' = [attention EXCEPT ![op.body.target] =
                     [state |-> "answered", by |-> op.cmd]]
  /\ UNCHANGED <<outbox, acks, queued, idem>>

\* CommandAcknowledged
AppendAck ==
  /\ acks' = [acks EXCEPT ![op.cmd] = Append(@, op.ack)]
  /\ UNCHANGED <<outbox, attention, queued, idem>>

\* record_idempotency
RecordIdempotency ==
  /\ idem' = idem \cup {op.cmd}
  /\ UNCHANGED <<outbox, acks, attention, queued>>

\* Mutant: the completion drops the admission's acknowledgement.
CompleteWithoutAck ==
  /\ outbox' = [outbox EXCEPT ![op.cmd] = [status |-> "Completed", body |-> @.body]]
  /\ UNCHANGED <<acks, attention, queued, idem>>

\* DeviceCommandOutbox::complete
CompleteRecord ==
  /\ outbox' = [outbox EXCEPT ![op.cmd].status = "Completed"]
  /\ UNCHANGED <<acks, attention, queued, idem>>

Perform(s) ==
  \/ s = "insert"   /\ InsertRecord
  \/ s = "claim"    /\ ClaimRecord
  \/ s = "entry"    /\ AppendEntry
  \/ s = "effect"   /\ AppendEffect
  \/ s = "answer"   /\ AppendAnswer
  \/ s = "ack"      /\ AppendAck
  \/ s = "idem"     /\ RecordIdempotency
  \/ s = "complete" /\ CompleteRecord

\* The next write of the operation holding the mutex succeeds.
Write(s) ==
  /\ Due(s)
  /\ Perform(s)
  /\ op' = [op EXCEPT !.todo = @ \ {s}]
  /\ UNCHANGED <<node, recovering, unswept, recoveryRequired, tickets,
                 worker, mailbox, call, history>>

-----------------------------------------------------------------------------
(* The process: death, failed writes.                                      *)

NoTickets == [c \in Commands |-> "none"]

\* Everything volatile is gone.
Die ==
  /\ node' = "down"
  /\ recovering' = {} /\ unswept' = {}
  /\ op' = Idle /\ recoveryRequired' = FALSE
  /\ tickets' = NoTickets
  /\ worker' = "none" /\ mailbox' = <<>> /\ call' = NoCall

\* The process is killed, at any point between two writes.
Crash ==
  /\ node # "down" /\ faults < MaxFaults
  /\ faults' = faults + 1
  /\ Die
  /\ UNCHANGED <<durable, delivered, told, expired, refused>>

\* An error during load or during the startup sweep makes lan.rs give up.
EndsStartup == /\ node # "serving"
               /\ op.name \in {"claim", "reject", "recover"}

\* The operation returns an error.  admit_device_command raises
\* recovery_required for every failure after the outbox insert,
\* apply_trusted_commit for a journal failure after the log append; the
\* other failures leave the flag as it is.
Fail(flag) ==
  \/ /\ EndsStartup
     /\ Die
  \/ /\ ~EndsStartup
     /\ op' = Idle
     /\ recoveryRequired' = flag
     /\ tickets' = IF op.name = "claim" THEN [tickets EXCEPT ![op.cmd] = "none"]
                                        ELSE tickets
     /\ call' = IF op.name = "finish" THEN NoCall ELSE call
     /\ UNCHANGED <<node, recovering, unswept, worker, mailbox>>

\* Mutant: a failed write after the insert does not require recovery.
WriteFailsQuietly(s) ==
  /\ Due(s) /\ faults < MaxFaults
  /\ faults' = faults + 1
  /\ Fail(recoveryRequired)
  /\ UNCHANGED <<durable, delivered, told, expired, refused>>

\* The write leaves nothing on disk.
WriteFails(s) ==
  /\ Due(s) /\ faults < MaxFaults
  /\ faults' = faults + 1
  /\ Fail(recoveryRequired \/ (op.name = "admit" /\ s # "insert"))
  /\ UNCHANGED <<durable, delivered, told, expired, refused>>

\* The log append succeeds and the projection journal write after it fails.
JournalFails(s) ==
  /\ s \in LogSteps /\ Due(s) /\ faults < MaxFaults
  /\ faults' = faults + 1
  /\ Perform(s)
  /\ Fail(TRUE)
  /\ UNCHANGED <<delivered, told, expired, refused>>

-----------------------------------------------------------------------------
(* Admission: Broker::admit_device_command and the connection thread.      *)

\* A request with a new key: the operation takes the mutex.
AdmitNew(c, b) ==
  /\ node = "serving" /\ LockFree /\ ~recoveryRequired
  /\ Status(c) = "none"
  /\ \E o \in PreviewOutcomes(b) :
       op' = [name |-> "admit", cmd |-> c, body |-> b, ack |-> o,
              todo |-> AdmitTodo(o)]
  /\ UNCHANGED <<durable, node, recovering, unswept, recoveryRequired,
                 tickets, worker, mailbox, call, history>>

\* A request whose key the outbox knows: answered from memory, no write.
AdmitRepeat(c, b) ==
  /\ node = "serving" /\ LockFree /\ ~recoveryRequired
  /\ Status(c) # "none"
  /\ told' = [told EXCEPT ![c] =
        <<b, IF outbox[c].body = b THEN "Duplicate" ELSE "IdempotencyConflict">>]
  /\ UNCHANGED <<durable, volatile, delivered, expired, refused, faults>>

\* The admission returns.  handle_business_frame writes the ack to the
\* socket first and gives up on an error: then nobody holds the ticket.
ReturnAdmit ==
  /\ op # Idle /\ op.name = "admit" /\ op.todo = {}
  /\ op' = Idle
  /\ \/ /\ told' = [told EXCEPT ![op.cmd] = <<op.body, op.ack>>]
        /\ tickets' = [tickets EXCEPT ![op.cmd] =
                         IF op.ack = "AcceptedLocally" THEN "held" ELSE @]
     \/ UNCHANGED <<told, tickets>>
  /\ UNCHANGED <<durable, node, recovering, unswept, recoveryRequired, worker,
                 mailbox, call, delivered, expired, refused, faults>>

-----------------------------------------------------------------------------
(* RuntimeSupervisor::dispatch_ticket.                                     *)

\* Mutant: the startup sweep ignores a missing worker, as the server does.
LookUpLossy(c) ==
  /\ tickets[c] = "held" /\ LockFree
  /\ tickets' = [tickets EXCEPT ![c] =
                   IF c \in Pending /\ worker = "up" THEN "resolved" ELSE "none"]
  /\ UNCHANGED <<durable, node, recovering, unswept, op, recoveryRequired,
                 worker, mailbox, call, history>>

\* pending_dispatches, session_routes and workers are consulted.  Without a
\* worker a connection thread drops the ticket (its result is ignored) and
\* the startup sweep rejects the command.
LookUp(c) ==
  /\ tickets[c] = "held" /\ LockFree
  /\ \/ /\ c \in Pending /\ worker = "up"
        /\ tickets' = [tickets EXCEPT ![c] = "resolved"]
        /\ UNCHANGED <<durable, node, recovering, unswept, op,
                       recoveryRequired, worker, mailbox, call, history>>
     \/ /\ ~(c \in Pending /\ worker = "up") /\ node = "serving"
        /\ tickets' = [tickets EXCEPT ![c] = "none"]
        /\ UNCHANGED <<durable, node, recovering, unswept, op,
                       recoveryRequired, worker, mailbox, call, history>>

\* Mutant: a Ready record is completed without its claim.
RejectUnclaimed(c) ==
  /\ node = "starting" /\ tickets[c] = "held" /\ LockFree
  /\ c \in Pending /\ worker # "up" /\ ~recoveryRequired
  /\ op' = [name |-> "reject", cmd |-> c, body |-> outbox[c].body,
            ack |-> "RuntimeUnavailable", todo |-> {"ack", "complete"}]
  /\ UNCHANGED <<durable, node, recovering, unswept, recoveryRequired,
                 tickets, worker, mailbox, call, history>>

\* reject_ready_dispatch, from recover_all_ready: claim, then a terminal
\* Rejected(RuntimeUnavailable), then complete.
RejectReady(c) ==
  /\ node = "starting" /\ tickets[c] = "held" /\ LockFree
  /\ c \in Pending /\ worker # "up" /\ ~recoveryRequired
  /\ op' = [name |-> "reject", cmd |-> c, body |-> outbox[c].body,
            ack |-> "RuntimeUnavailable", todo |-> {"claim", "ack", "complete"}]
  /\ UNCHANGED <<durable, node, recovering, unswept, recoveryRequired,
                 tickets, worker, mailbox, call, history>>

ReturnReject ==
  /\ op # Idle /\ op.name = "reject" /\ op.todo = {}
  /\ op' = Idle
  /\ tickets' = [tickets EXCEPT ![op.cmd] = "none"]
  /\ UNCHANGED <<durable, node, recovering, unswept, recoveryRequired, worker,
                 mailbox, call, history>>

\* claim_dispatch takes the mutex; ensure_writable may refuse.
ClaimDispatch(c) ==
  /\ tickets[c] = "resolved" /\ LockFree /\ ~recoveryRequired
  /\ c \in Pending
  /\ op' = [name |-> "claim", cmd |-> c, body |-> outbox[c].body,
            ack |-> outbox[c].ack, todo |-> {"claim"}]
  /\ UNCHANGED <<durable, node, recovering, unswept, recoveryRequired,
                 tickets, worker, mailbox, call, history>>

ClaimRefused(c) ==
  /\ tickets[c] = "resolved" /\ LockFree /\ recoveryRequired
  /\ \/ node = "starting" /\ Die
     \/ /\ node = "serving"
        /\ tickets' = [tickets EXCEPT ![c] = "none"]
        /\ UNCHANGED <<node, recovering, unswept, op, recoveryRequired,
                       worker, mailbox, call>>
  /\ UNCHANGED <<durable, history>>

ReturnClaim ==
  /\ op # Idle /\ op.name = "claim" /\ op.todo = {}
  /\ op' = Idle
  /\ tickets' = [tickets EXCEPT ![op.cmd] = "claimed"]
  /\ UNCHANGED <<durable, node, recovering, unswept, recoveryRequired, worker,
                 mailbox, call, history>>

\* Mutant: a send is repeated.
SendAgain(c) ==
  /\ tickets[c] = "claimed" /\ Len(mailbox) < 2
  /\ mailbox' = IF worker = "up" THEN Append(mailbox, c) ELSE mailbox
  /\ tickets' = [tickets EXCEPT ![c] = IF mailbox = <<>> THEN "claimed" ELSE "none"]
  /\ UNCHANGED <<durable, node, recovering, unswept, op, recoveryRequired,
                 worker, call, history>>

\* sender.send: a worker that was told to close never reads the message.
Send(c) ==
  /\ tickets[c] = "claimed"
  /\ tickets' = [tickets EXCEPT ![c] = "none"]
  /\ mailbox' = IF worker = "up" THEN Append(mailbox, c) ELSE mailbox
  /\ UNCHANGED <<durable, node, recovering, unswept, op, recoveryRequired,
                 worker, call, history>>

-----------------------------------------------------------------------------
(* The worker thread: run_worker and dispatch_claim.                       *)

\* The worker takes the next claim and the provider answers it.
ProviderAnswers(r) ==
  /\ mailbox # <<>> /\ call = NoCall
  /\ mailbox' = Tail(mailbox)
  /\ call' = [cmd |-> Head(mailbox), result |-> r]
  /\ delivered' = [delivered EXCEPT ![Head(mailbox)] = @ + 1]
  /\ UNCHANGED <<durable, node, recovering, unswept, op, recoveryRequired,
                 tickets, worker, told, expired, refused, faults>>

\* The provider call returns an error, before or after the bytes left; the
\* worker reports RuntimeFailed and leaves the record Claimed.
ProviderErrors ==
  /\ mailbox # <<>> /\ call = NoCall
  /\ mailbox' = Tail(mailbox)
  /\ \/ delivered' = [delivered EXCEPT ![Head(mailbox)] = @ + 1]
     \/ delivered' = delivered
  /\ UNCHANGED <<durable, node, recovering, unswept, op, recoveryRequired,
                 tickets, worker, call, told, expired, refused, faults>>

\* Mutant: a provider's rejection is reported as a retriable absence.
FinishAsUnavailable ==
  /\ call # NoCall /\ LockFree /\ ~recoveryRequired
  /\ Status(call.cmd) = "Claimed"
  /\ ClosesRoute(outbox[call.cmd].body, call.result)
  /\ op' = [name |-> "finish", cmd |-> call.cmd, body |-> outbox[call.cmd].body,
            ack |-> IF call.result = "accepted" THEN "AcceptedByRuntime"
                                                ELSE "RuntimeUnavailable",
            todo |-> FinishTodo(outbox[call.cmd].body, call.result)]
  /\ UNCHANGED <<durable, node, recovering, unswept, recoveryRequired,
                 tickets, worker, mailbox, call, history>>

\* finish_dispatch: ensure_writable, ensure_claimed, valid_terminal; then the
\* effects and the completion.
FinishDispatch ==
  /\ call # NoCall /\ LockFree /\ ~recoveryRequired
  /\ Status(call.cmd) = "Claimed"
  /\ ClosesRoute(outbox[call.cmd].body, call.result)
  /\ op' = [name |-> "finish", cmd |-> call.cmd, body |-> outbox[call.cmd].body,
            ack |-> IF call.result = "accepted" THEN "AcceptedByRuntime"
                                                ELSE "RejectedByProvider",
            todo |-> FinishTodo(outbox[call.cmd].body, call.result)]
  /\ UNCHANGED <<durable, node, recovering, unswept, recoveryRequired,
                 tickets, worker, mailbox, call, history>>

\* finish_dispatch refuses; the record stays Claimed, i.e. uncertain.
FinishRefused ==
  /\ call # NoCall /\ LockFree
  /\ \/ recoveryRequired
     \/ Status(call.cmd) # "Claimed"
     \/ ~ClosesRoute(outbox[call.cmd].body, call.result)
  /\ call' = NoCall
  /\ UNCHANGED <<durable, node, recovering, unswept, op, recoveryRequired,
                 tickets, worker, mailbox, history>>

ReturnFinish ==
  /\ op # Idle /\ op.name = "finish" /\ op.todo = {}
  /\ op' = Idle /\ call' = NoCall
  /\ UNCHANGED <<durable, node, recovering, unswept, recoveryRequired,
                 tickets, worker, mailbox, history>>

\* Drained provider effects raise an attention, or close it without us.  The
\* single append may be followed by a journal failure.
ProviderAttention(a) ==
  /\ Running /\ worker = "up" /\ call = NoCall /\ LockFree /\ ~recoveryRequired
  /\ \E s \in {"open", "answered", "closed"} :
       /\ attention[a].state = (IF s = "open" THEN "absent" ELSE "open")
       /\ attention' = [attention EXCEPT ![a].state = s]
  /\ \/ UNCHANGED <<recoveryRequired, faults>>
     \/ /\ faults < MaxFaults /\ faults' = faults + 1
        /\ recoveryRequired' = TRUE
  /\ UNCHANGED <<outbox, acks, queued, idem, node, recovering, unswept, op,
                 tickets, worker, mailbox, call, delivered, told, expired,
                 refused>>

\* StructuredLanHost::shutdown stops the sessions while the server still
\* serves: the route disappears and the worker closes after what it has.
StopSession ==
  /\ node = "serving" /\ worker = "up"
  /\ worker' = "closing"
  /\ UNCHANGED <<durable, node, recovering, unswept, op, recoveryRequired,
                 tickets, mailbox, call, history>>

\* Time passes the deadline of a command still waiting to be claimed.
Expire(c) ==
  /\ c \in Pending /\ outbox[c].body.ttl /\ c \notin expired
  /\ expired' = expired \cup {c}
  /\ UNCHANGED <<durable, volatile, delivered, told, refused, faults>>

-----------------------------------------------------------------------------
(* CanonicalStore::load, recover_admissions, and the startup sweep.        *)

\* CanonicalStore::open and the replay of the log: memory equals disk again,
\* and every record that is not Completed is an admission to repair.
Load ==
  /\ node = "down"
  /\ node' = "loading" /\ refused' = FALSE
  /\ recovering' = {c \in Commands : Status(c) \in {"Ready", "Claimed"}}
  /\ UNCHANGED <<durable, unswept, op, recoveryRequired, tickets, worker,
                 mailbox, call, delivered, told, expired, faults>>

\* The second acknowledgement recover_admission knows how to explain.
TerminalCommitted(c) ==
  /\ Len(acks[c]) = 2
  /\ \/ /\ outbox[c].body.kind = "SubmitPrompt"
        /\ acks[c][2] \in {"AcceptedByRuntime"} \cup Refusals
     \/ /\ outbox[c].body.kind = "RespondAttention"
        /\ acks[c][2] \in Refusals

\* The reply's own answer is already in the log.
AnsweredBy(c) ==
  /\ outbox[c].ack = "AcceptedLocally"
  /\ outbox[c].body.kind = "RespondAttention"
  /\ attention[outbox[c].body.target] = [state |-> "answered", by |-> c]

\* Without an acknowledgement the decision is taken again by submit_command.
Resubmits(c) == /\ acks[c] = <<>> /\ UsesSubmit(outbox[c].body)
                /\ ~(outbox[c].ack = "Enqueued" /\ c \in queued)
                /\ ~AnsweredBy(c)

\* The ways recover_admission returns CommandOutboxDiverged before a write.
Diverged(c) ==
  \/ acks[c] # <<>> /\ acks[c][1] # outbox[c].ack
  \/ Len(acks[c]) > 1 /\ ~TerminalCommitted(c)
  \/ /\ Resubmits(c) /\ outbox[c].ack = "AcceptedLocally"
     /\ outbox[c].body.kind = "RespondAttention"
     /\ attention[outbox[c].body.target].state # "open"
  \/ Resubmits(c) /\ c \in idem

RecoveryAck(c) == IF Resubmits(c) THEN SubmitOutcome(outbox[c].body)
                                  ELSE outbox[c].ack

RecoverTodo(c) ==
  (IF acks[c] = <<>> THEN {"ack"} ELSE {})
    \cup (IF Resubmits(c) /\ RecoveryAck(c) = "Enqueued" THEN {"entry"} ELSE {})
    \cup (IF UsesSubmit(outbox[c].body) /\ c \notin idem THEN {"idem"} ELSE {})
    \cup (IF /\ RecoveryAck(c) = outbox[c].ack
             /\ outbox[c].ack # "AcceptedLocally" \/ TerminalCommitted(c)
          THEN {"complete"} ELSE {})

RecoverAdmission(c) ==
  /\ node = "loading" /\ LockFree /\ c \in recovering /\ ~Diverged(c)
  /\ op' = [name |-> "recover", cmd |-> c, body |-> outbox[c].body,
            ack |-> RecoveryAck(c), todo |-> RecoverTodo(c)]
  /\ UNCHANGED <<durable, node, recovering, unswept, recoveryRequired,
                 tickets, worker, mailbox, call, history>>

\* load returns an error: hostd cannot start on this data directory.
LoadRefused ==
  /\ node = "loading"
  /\ \/ LockFree /\ \E c \in recovering : Diverged(c)
     \/ op # Idle /\ op.todo = {} /\ op.ack # outbox[op.cmd].ack
  /\ Die
  /\ refused' = TRUE
  /\ UNCHANGED <<durable, delivered, told, expired, faults>>

ReturnRecover ==
  /\ op # Idle /\ op.name = "recover" /\ op.todo = {}
  /\ op.ack = outbox[op.cmd].ack
  /\ op' = Idle /\ recovering' = recovering \ {op.cmd}
  /\ UNCHANGED <<durable, node, unswept, recoveryRequired, tickets, worker,
                 mailbox, call, history>>

\* The runtimes have started; the sessions of waiting commands may be routed
\* again or be gone for good.  recover_all_ready lists the Ready records.
StartRuntimes ==
  /\ node = "loading" /\ recovering = {} /\ LockFree
  /\ node' = "starting"
  /\ worker' \in {"none", "up"}
  /\ unswept' = Pending
  /\ UNCHANGED <<durable, recovering, op, recoveryRequired, tickets, mailbox,
                 call, history>>

SweepNext(c) ==
  /\ node = "starting" /\ c \in unswept /\ tickets = NoTickets
  /\ tickets' = [tickets EXCEPT ![c] = "held"]
  /\ unswept' = unswept \ {c}
  /\ UNCHANGED <<durable, node, recovering, op, recoveryRequired, worker,
                 mailbox, call, history>>

\* LanServer::bind: the listener goes live.
Serve ==
  /\ node = "starting" /\ unswept = {} /\ tickets = NoTickets
  /\ node' = "serving"
  /\ UNCHANGED <<durable, recovering, unswept, op, recoveryRequired, tickets,
                 worker, mailbox, call, history>>

-----------------------------------------------------------------------------
Init ==
  /\ outbox = [c \in Commands |-> NoRecord]
  /\ acks = [c \in Commands |-> <<>>]
  /\ attention = [a \in Attentions |-> [state |-> "absent", by |-> NoCommand]]
  /\ queued = {} /\ idem = {}
  /\ node = "down" /\ recovering = {} /\ unswept = {}
  /\ op = Idle /\ recoveryRequired = FALSE
  /\ tickets = NoTickets
  /\ worker = "none" /\ mailbox = <<>> /\ call = NoCall
  /\ delivered = [c \in Commands |-> 0]
  /\ told = [c \in Commands |-> <<>>]
  /\ expired = {} /\ refused = FALSE /\ faults = 0

\* The thread holding the broker mutex.
BrokerStep ==
  \/ \E s \in Steps : Write(s)
  \/ ReturnAdmit \/ ReturnReject \/ ReturnClaim \/ ReturnFinish \/ ReturnRecover

\* A thread inside dispatch_ticket for command c.
DispatchStep(c) ==
  LookUp(c) \/ RejectReady(c) \/ ClaimDispatch(c) \/ ClaimRefused(c) \/ Send(c)

WorkerStep ==
  \/ \E r \in {"accepted", "rejected", "mismatch"} : ProviderAnswers(r)
  \/ ProviderErrors \/ FinishDispatch \/ FinishRefused

StartupStep ==
  \/ \E c \in Commands : RecoverAdmission(c) \/ SweepNext(c)
  \/ LoadRefused \/ StartRuntimes \/ Serve

Environment ==
  \/ \E c \in Commands, b \in Bodies : AdmitNew(c, b) \/ AdmitRepeat(c, b)
  \/ \E a \in Attentions : ProviderAttention(a)
  \/ \E c \in Commands : Expire(c)
  \/ StopSession \/ Load
  \/ Crash \/ \E s \in Steps : WriteFails(s) \/ JournalFails(s)

Next == \/ BrokerStep
        \/ \E c \in Commands : DispatchStep(c)
        \/ WorkerStep
        \/ StartupStep
        \/ Environment

Spec == Init /\ [][Next]_vars

\* Threads that can run do run; requests, faults, restarts and the passing of
\* deadlines are the environment's and carry no fairness.
Fairness ==
  /\ WF_vars(BrokerStep)
  /\ \A c \in Commands : WF_vars(DispatchStep(c))
  /\ WF_vars(WorkerStep)
  /\ WF_vars(StartupStep)

FairSpec == Spec /\ Fairness

-----------------------------------------------------------------------------
(* Properties.                                                             *)

\* Every file, memory cell and thread position has the shape the code gives it.
TypeOK ==
  /\ outbox \in [Commands -> {NoRecord} \cup OutboxRecord]
  /\ acks \in [Commands -> Seq(Outcomes)]
  /\ attention \in [Attentions -> [state : {"absent", "open", "answered", "closed"},
                                   by : Commands \cup {NoCommand}]]
  /\ queued \subseteq Commands /\ idem \subseteq Commands
  /\ node \in {"down", "loading", "starting", "serving"}
  /\ recovering \subseteq Commands /\ unswept \subseteq Commands
  /\ op \in {Idle} \cup Operation
  /\ recoveryRequired \in BOOLEAN
  /\ tickets \in [Commands -> {"none", "held", "resolved", "claimed"}]
  /\ worker \in {"none", "up", "closing"}
  /\ mailbox \in Seq(Commands)
  /\ call \in {NoCall} \cup Call
  /\ delivered \in [Commands -> Nat]
  /\ told \in [Commands -> {<<>>} \cup (Bodies \X Replies)]
  /\ expired \subseteq Commands
  /\ refused \in BOOLEAN
  /\ faults \in 0..MaxFaults

\* A command reaches the provider at most once, whatever crashes, failed
\* writes, retries and restarts happen ("the command is never auto-replayed",
\* RuntimeSupervisor::dispatch_ticket).
AtMostOnce == \A c \in Commands : delivered[c] <= 1

\* Bytes leave only for a command whose local acceptance is in the log and
\* whose claim is durable.
ClaimedBeforeSent ==
  \A c \in Commands : delivered[c] > 0 =>
     /\ Status(c) \in {"Claimed", "Completed"}
     /\ acks[c] # <<>> /\ acks[c][1] = "AcceptedLocally"

\* What a device was told survives every crash: an outcome it received is the
\* first acknowledgement of the log, and a Duplicate or IdempotencyConflict
\* refers to an admission that is in the log.
RepliesAreDurable ==
  \A c \in Commands : told[c] # <<>> =>
     /\ Status(c) # "none" /\ acks[c] # <<>>
     /\ (outbox[c].body = told[c][1]) <=> (told[c][2] # "IdempotencyConflict")
     /\ told[c][2] \in Outcomes => outbox[c].ack = told[c][2] /\ acks[c][1] = told[c][2]

\* A command reported RuntimeUnavailable (retriable) never reached the
\* provider; one reported accepted or rejected by the provider did.
TerminalAcksAreTrue ==
  \A c \in Commands : \A i \in DOMAIN acks[c] :
     /\ acks[c][i] = "RuntimeUnavailable" => delivered[c] = 0
     /\ acks[c][i] \in {"AcceptedByRuntime", "RejectedByProvider"} => delivered[c] = 1

\* Two replies to the same approval or question never both reach the provider
\* (has_unfinished_attention in preview_device_admission).
OneAnswerSent ==
  \A c, d \in Commands :
     /\ delivered[c] > 0 /\ delivered[d] > 0
     /\ outbox[c].body.kind = "RespondAttention"
     /\ outbox[d].body.kind = "RespondAttention"
     /\ outbox[c].body.target = outbox[d].body.target
     => c = d

\* One step appends only outbox lines that continue the previous line of the
\* same key.
ReadsBack ==
  \A c \in Commands : outbox'[c] # outbox[c] =>
    \/ Status(c) = "none"
    \/ /\ <<Status(c), outbox'[c].status>>
             \in {<<"Ready", "Claimed">>, <<"Claimed", "Completed">>}
       /\ outbox'[c].body = outbox[c].body
       /\ outbox'[c].ack = outbox[c].ack

\* Every line appended to the outbox file is one read_records accepts after
\* the previous line of the same key (valid_transition, equal envelopes).
LinesReadBack == [][ReadsBack]_outbox

\* The listener goes live only when no admitted command is left Ready from an
\* earlier process (recover_all_ready: "before the listener becomes live").
NothingLeftReady ==
  [][node = "starting" /\ node' = "serving" => Pending = {}]_vars

\* A start ends: the store is repaired and the listener goes live, or the
\* process exits.
StartupEnds == node = "loading" ~> node \in {"serving", "down"}

\* A Ready command found at startup is sent or rejected by that startup.
ReadySettles ==
  \A c \in Commands :
    (node = "starting" /\ Status(c) = "Ready") ~> (Status(c) # "Ready" \/ node = "down")

\* CanonicalStore::load accepts what the store itself wrote, whatever the
\* point of the crash.
StoreLoads == ~refused

\* The only data directories load refuses: a terminal acknowledgement of an
\* interrupt or a rejected resume without its completion, and a reply refused
\* because another one was unfinished, decided again without that guard.
RefusalWindows ==
  refused =>
    \E c \in Commands :
       /\ Status(c) \in {"Ready", "Claimed"}
       /\ \/ /\ outbox[c].body.kind \in {"InterruptTurn", "ResumeSession"}
             /\ Len(acks[c]) = 2
          \/ /\ outbox[c].body.kind = "RespondAttention"
             /\ outbox[c].ack = "ApprovalAlreadyAnswered"
             /\ acks[c] # <<>> /\ acks[c][1] # outbox[c].ack

\* A command whose deadline has passed is not claimed for the provider
\* ("expires_at_ms has passed: must be rejected with CommandExpired").
ExpiredNotClaimed ==
  [][op.name # "claim" /\ op'.name = "claim" => op'.cmd \notin expired]_vars

-----------------------------------------------------------------------------
(* Refinement: the life of a command as CommandLifecycle sees it.          *)

LocallyDecided(c) == /\ Status(c) # "none"
                     /\ outbox[c].ack # "AcceptedLocally"

PhaseOf(c) ==
  CASE Status(c) = "none" -> "unknown"
    [] LocallyDecided(c) \/ Status(c) = "Completed" -> "closed"
    [] ~LocallyDecided(c) /\ Status(c) = "Ready" -> "waiting"
    [] OTHER -> IF delivered[c] = 0 THEN "claimed" ELSE "sent"

Lifecycle == INSTANCE CommandLifecycle
               WITH phase <- [c \in Commands |-> PhaseOf(c)], sends <- delivered

\* Every step of the files, threads and restarts is a step of the abstract
\* life of one command, or none.
ImplementsLifecycle == Lifecycle!Spec

-----------------------------------------------------------------------------
(* The inductive invariant behind the theorems of DeviceCommandsProofs.    *)

InMailbox(c) == \E i \in DOMAIN mailbox : mailbox[i] = c

\* The outbox line of a command against the log.
RecordInv(c) ==
  /\ Status(c) = "none" => acks[c] = <<>>
  /\ Status(c) = "Ready" => outbox[c].ack = "AcceptedLocally" /\ Len(acks[c]) <= 1

\* Who may still cause a delivery of c: the thread that claimed it, then the
\* channel, then nobody.  Each holder excludes the others and a delivery.
Custody(c) ==
  /\ Status(c) \in {"none", "Ready"} => /\ delivered[c] = 0
                                        /\ tickets[c] # "claimed"
                                        /\ ~InMailbox(c)
  /\ tickets[c] = "claimed" \/ InMailbox(c) =>
        /\ Status(c) = "Claimed" /\ outbox[c].ack = "AcceptedLocally"
        /\ delivered[c] = 0
  /\ tickets[c] = "claimed" => ~InMailbox(c)
  /\ delivered[c] <= 1
  /\ delivered[c] = 1 => outbox[c].ack = "AcceptedLocally"

MailboxInv == \A i, j \in DOMAIN mailbox : mailbox[i] = mailbox[j] => i = j

CallInv == call # NoCall => delivered[call.cmd] = 1

\* Outside a running process there is no thread and no channel.
ProcessInv ==
  /\ node \in {"down", "loading"} =>
        tickets = NoTickets /\ mailbox = <<>> /\ call = NoCall
  /\ node = "down" => op = Idle
  /\ node # "loading" => recovering = {}
  /\ node # "starting" => unswept = {}
  /\ \A c \in recovering : \/ Status(c) \in {"Ready", "Claimed"}
                           \/ op # Idle /\ op.name = "recover" /\ op.cmd = c
  /\ \A c \in unswept : Status(c) = "Ready" /\ tickets[c] = "none"

\* The operation holding the mutex: which writes it can still make in the
\* present state of its record.
OpInv ==
  op # Idle =>
    /\ op.name # "admit" => /\ Status(op.cmd) # "none"
                            /\ outbox[op.cmd].body = op.body
    /\ "insert" \in op.todo => op.name = "admit" /\ Status(op.cmd) = "none"
    /\ op.name = "admit" /\ "insert" \notin op.todo => Status(op.cmd) # "none"
    /\ "claim" \in op.todo => /\ op.name \in {"claim", "reject"}
                              /\ Status(op.cmd) = "Ready"
    /\ "answer" \in op.todo => op.body.kind = "RespondAttention"
    /\ "complete" \in op.todo /\ {"insert", "claim"} \cap op.todo = {}
          => Status(op.cmd) = "Claimed"
    /\ "ack" \in op.todo /\ op.name \in {"admit", "recover"} => acks[op.cmd] = <<>>
    /\ op.name \in {"admit", "claim", "reject"} =>
          /\ delivered[op.cmd] = 0 /\ ~InMailbox(op.cmd)
          /\ tickets[op.cmd] # "claimed"
    /\ op.name \in {"claim", "reject"} =>
          /\ node \in {"starting", "serving"}
          /\ outbox[op.cmd].ack = "AcceptedLocally"
          /\ op.cmd \notin unswept
          /\ "claim" \notin op.todo => Status(op.cmd) \in {"Claimed", "Completed"}
    /\ op.name = "claim" => /\ op.todo \subseteq {"claim"}
                            /\ "claim" \notin op.todo => Status(op.cmd) = "Claimed"
    /\ op.name = "admit" /\ "insert" \notin op.todo => op.ack = outbox[op.cmd].ack
    /\ op.name = "admit" /\ "complete" \in op.todo => op.ack # "AcceptedLocally"
    /\ op.name = "finish" => /\ call # NoCall /\ call.cmd = op.cmd
                             /\ Status(op.cmd) \in {"Claimed", "Completed"}
    /\ op.name = "recover" => node = "loading"
    /\ op.name = "admit" => node = "serving"

\* What holds between the outbox, the log, the threads and the provider after
\* every step of the broker, the dispatchers, the worker and a restart.
IndInv ==
  /\ TypeOK
  /\ \A c \in Commands : RecordInv(c) /\ Custody(c)
  /\ MailboxInv /\ CallInv /\ ProcessInv /\ OpInv

=============================================================================
