----------------------------- MODULE InputQueue -----------------------------
(***************************************************************************)
(* The input queue of one session: enqueue by a device, delivery as a new  *)
(* turn by pump_pending_queue, and what a crash leaves behind.             *)
(*                                                                         *)
(* Every connection thread and the main thread call pump_pending_queue, so *)
(* several pumps run at once.  A pump lists the next entry under the       *)
(* broker mutex, releases it, looks up the worker, claims the entry under  *)
(* the mutex (one durable write) and sends the claim to the worker, which  *)
(* calls the provider and records the receipt with finish_queue_delivery.  *)
(***************************************************************************)
EXTENDS Naturals, Sequences, FiniteSets

CONSTANTS
  Entries,   \* queue entry ids; their order is the order of the BTreeMap
  Pumps,     \* threads that call pump_pending_queue
  MaxFaults  \* bound on crashes and failed writes of a behaviour

ASSUME EntryAssumption == Entries \subseteq Nat /\ IsFiniteSet(Entries)
ASSUME FaultAssumption == MaxFaults \in Nat

Intents == {"NewTurn", "SteerActiveTurn"}

VARIABLES
  \* -- durable ------------------------------------------------------------
  admitted,  \* entries whose EnqueueInput has an outbox record
  intent,    \* per entry: the intent of its command
  entry,     \* per entry: its canonical state and position
  acked,     \* entries whose Enqueued acknowledgement is in the log
  turn,      \* per entry: the turn its delivery started
  other,     \* a turn that no queue entry started is active
  \* -- volatile -----------------------------------------------------------
  node,      \* "down", "loading" or "up"
  op,        \* the operation holding the broker mutex, or Idle
  recoveryRequired,
  routed,    \* the session has a route to its worker
  open,      \* the worker's channel has not received Close
  pump,      \* per thread: how far it is in pump_pending_queue
  channel,   \* the claims in the worker's channel
  call,      \* the entries (at most one) whose receipt is not yet recorded
  \* -- history ------------------------------------------------------------
  delivered, \* per entry: times its bytes may have left for the provider
  refused,   \* the last load ended with CommandOutboxDiverged
  faults

durable  == <<admitted, intent, entry, acked, turn, other>>
volatile == <<node, op, recoveryRequired, routed, open, pump, channel, call>>
history  == <<delivered, refused, faults>>
vars     == <<durable, volatile, history>>

-----------------------------------------------------------------------------
(* Types and state functions.                                              *)

NoEntry == [state |-> "none", position |-> 0]
Entry   == [state : {"none", "Pending", "Submitting", "DeliveredAsNewTurn"},
            position : Nat]

\* The writes of an operation, in increasing Rank.
Rank  == [insert |-> 1, entry |-> 2, ack |-> 3, turn |-> 4, delivered |-> 5]
Steps == DOMAIN Rank

Idle == [name |-> "idle"]
Operation == [name : {"enqueue", "recover", "finish"}, entry : Entries,
              todo : SUBSET Steps]

NoPump == [at |-> "idle"]
Pump   == [at : {"listed", "resolved", "claimed"}, entry : Entries]

State(e) == entry[e].state
LockFree == op = Idle
Pending  == {e \in Entries : State(e) = "Pending"}

\* session.active_turn_id.is_none()
Free == ~other /\ \A e \in Entries : turn[e] # "active"

\* A pending new-turn entry: what the pump may list and claim.
Deliverable(e) == State(e) = "Pending" /\ intent[e] = "NewTurn"

\* queue_of: a stable sort by position of the entries in id order.
Before(e, f) == \/ entry[e].position < entry[f].position
                \/ entry[e].position = entry[f].position /\ e < f

\* Mutant: the first entry of the queue, deliverable or not.
HeadOfLine(e) == /\ Free /\ Deliverable(e) /\ e \in acked
                 /\ \A f \in Pending \ {e} : Before(e, f)

\* pending_queue_deliveries, for this session.
NextDelivery(e) == /\ Free /\ Deliverable(e) /\ e \in acked
                   /\ \A f \in Entries \ {e} : Deliverable(f) => Before(e, f)

-----------------------------------------------------------------------------
(* Durable writes.                                                         *)

Due(s) == /\ op # Idle
          /\ s \in op.todo
          /\ \A t \in op.todo : Rank[s] <= Rank[t]

\* insert_claimed of the admission's outbox record
InsertRecord == /\ admitted' = admitted \cup {op.entry}
                /\ UNCHANGED <<intent, entry, acked, turn, other>>

\* CanonicalStore::enqueue: the position is the number of pending entries.
AppendEntry == /\ entry' = [entry EXCEPT ![op.entry] =
                     [state |-> "Pending", position |-> Cardinality(Pending)]]
               /\ UNCHANGED <<admitted, intent, acked, turn, other>>

\* CommandAcknowledged, Enqueued
AppendAck == /\ acked' = acked \cup {op.entry}
             /\ UNCHANGED <<admitted, intent, entry, turn, other>>

\* TurnUpserted, with the queue entry's command as its origin
AppendTurn == /\ turn' = [turn EXCEPT ![op.entry] = "active"]
              /\ UNCHANGED <<admitted, intent, entry, acked, other>>

\* QueueEntryUpserted, DeliveredAsNewTurn
AppendDelivered ==
  /\ entry' = [entry EXCEPT ![op.entry].state = "DeliveredAsNewTurn"]
  /\ UNCHANGED <<admitted, intent, acked, turn, other>>

Perform(s) == \/ s = "insert" /\ InsertRecord
              \/ s = "entry" /\ AppendEntry
              \/ s = "ack" /\ AppendAck
              \/ s = "turn" /\ AppendTurn
              \/ s = "delivered" /\ AppendDelivered

Write(s) == /\ Due(s)
            /\ Perform(s)
            /\ op' = [op EXCEPT !.todo = @ \ {s}]
            /\ UNCHANGED <<node, recoveryRequired, routed, open, pump, channel, call,
                           history>>

\* The operation is over and the mutex released; after a finish the worker
\* goes on with its channel.
Return == /\ op # Idle /\ op.todo = {}
          /\ op' = Idle
          /\ call' = IF op.name = "finish" THEN {} ELSE call
          /\ UNCHANGED <<durable, node, recoveryRequired, routed, open, pump, channel,
                         history>>

-----------------------------------------------------------------------------
(* Faults.                                                                 *)

Die == /\ node' = "down" /\ op' = Idle /\ recoveryRequired' = FALSE
       /\ routed' = FALSE /\ open' = FALSE /\ pump' = [p \in Pumps |-> NoPump]
       /\ channel' = <<>> /\ call' = {}

Fault == faults < MaxFaults /\ faults' = faults + 1

Crash == /\ node # "down" /\ Fault
         /\ Die
         /\ UNCHANGED <<durable, delivered, refused>>

\* A write of an operation fails: nothing on disk, or (for a log append) the
\* line is there and the projection journal after it fails.
WriteFails(s) ==
  /\ Due(s) /\ Fault
  /\ \/ UNCHANGED durable
     \/ s # "insert" /\ Perform(s)
  /\ \/ op.name = "recover" /\ Die
     \/ /\ op.name # "recover"
        /\ op' = Idle
        /\ recoveryRequired' = (recoveryRequired \/ durable' # durable
                                 \/ (op.name = "enqueue" /\ s # "insert"))
        /\ call' = IF op.name = "finish" THEN {} ELSE call
        /\ UNCHANGED <<node, routed, open, pump, channel>>
  /\ UNCHANGED <<delivered, refused>>

-----------------------------------------------------------------------------
(* Enqueue, and its recovery at load.                                      *)

\* admit_device_command of an EnqueueInput with a new key.
Enqueue(e, i) ==
  /\ node = "up" /\ LockFree /\ ~recoveryRequired /\ e \notin admitted
  /\ intent' = [intent EXCEPT ![e] = i]
  /\ op' = [name |-> "enqueue", entry |-> e, todo |-> {"insert", "entry", "ack"}]
  /\ UNCHANGED <<admitted, entry, acked, turn, other, node, recoveryRequired,
                 routed, open, pump, channel, call, history>>

Load == /\ node = "down"
        /\ node' = "loading" /\ refused' = FALSE
        /\ UNCHANGED <<durable, op, recoveryRequired, routed, open, pump, channel, call,
                       delivered, faults>>

Unrepaired == admitted \ acked

\* Mutant: the recomputed position counts the entry itself.
AgreesOffByOne(e) ==
  \/ State(e) = "none"
  \/ entry[e] = [state |-> "Pending", position |-> Cardinality(Pending)]

\* The entry found in the log is the one enqueue would write now.
Agrees(e) ==
  \/ State(e) = "none"
  \/ entry[e] = [state |-> "Pending", position |-> Cardinality(Pending \ {e})]

\* recover_admission of an Enqueued record: append what is missing, or refuse
\* the directory with CommandOutboxDiverged.
RecoverEnqueue(e) ==
  /\ node = "loading" /\ LockFree /\ e \in Unrepaired
  /\ refused' = ~Agrees(e)
  /\ IF Agrees(e)
     THEN /\ op' = [name |-> "recover", entry |-> e,
                    todo |-> IF State(e) = "none" THEN {"entry", "ack"} ELSE {"ack"}]
          /\ UNCHANGED <<node, recoveryRequired, routed, open, pump, channel, call>>
     ELSE Die
  /\ UNCHANGED <<durable, delivered, faults>>

\* The runtimes start; the session may come back or not.
Serve == /\ node = "loading" /\ LockFree /\ Unrepaired = {}
         /\ node' = "up" /\ routed' \in BOOLEAN /\ open' = routed'
         /\ UNCHANGED <<durable, op, recoveryRequired, pump, channel, call, history>>

-----------------------------------------------------------------------------
(* pump_pending_queue, one thread p.                                       *)

List(p) ==
  /\ node = "up" /\ LockFree /\ pump[p] = NoPump
  /\ \E e \in Entries : NextDelivery(e) /\ pump' = [pump EXCEPT ![p] = [at |-> "listed", entry |-> e]]
  /\ UNCHANGED <<durable, node, op, recoveryRequired, routed, open, channel, call, history>>

Resolve(p) ==
  /\ pump[p].at = "listed"
  /\ pump' = [pump EXCEPT ![p] = IF routed THEN [@ EXCEPT !.at = "resolved"] ELSE NoPump]
  /\ UNCHANGED <<durable, node, op, recoveryRequired, routed, open, channel, call, history>>

\* Mutant: the claim trusts the listing.
ClaimStale(p) ==
  /\ pump[p].at = "resolved" /\ LockFree /\ ~recoveryRequired
  /\ entry' = [entry EXCEPT ![pump[p].entry].state = "Submitting"]
  /\ pump' = [pump EXCEPT ![p].at = "claimed"]
  /\ UNCHANGED <<admitted, intent, acked, turn, other, node, op,
                 recoveryRequired, routed, open, channel, call, history>>

\* claim_queue_delivery: the entry is checked again under the mutex.
Claim(p) ==
  /\ pump[p].at = "resolved" /\ LockFree /\ ~recoveryRequired
  /\ Deliverable(pump[p].entry)
  /\ entry' = [entry EXCEPT ![pump[p].entry].state = "Submitting"]
  /\ pump' = [pump EXCEPT ![p].at = "claimed"]
  /\ UNCHANGED <<admitted, intent, acked, turn, other, node, op,
                 recoveryRequired, routed, open, channel, call, history>>

\* The claim is refused, or its write fails before or after it is durable.
ClaimRefused(p) ==
  /\ pump[p].at = "resolved" /\ LockFree
  /\ pump' = [pump EXCEPT ![p] = NoPump]
  /\ \/ /\ recoveryRequired \/ ~Deliverable(pump[p].entry)
        /\ UNCHANGED <<entry, recoveryRequired, faults>>
     \/ /\ ~recoveryRequired /\ Deliverable(pump[p].entry) /\ Fault
        /\ \/ UNCHANGED <<entry, recoveryRequired>>
           \/ /\ entry' = [entry EXCEPT ![pump[p].entry].state = "Submitting"]
              /\ recoveryRequired' = TRUE
  /\ UNCHANGED <<admitted, intent, acked, turn, other, node, op, routed, open,
                 channel, call, delivered, refused>>

\* sender.send: a worker whose channel holds Close never reads what follows.
SendClaim(p) ==
  /\ pump[p].at = "claimed"
  /\ channel' = IF open THEN Append(channel, pump[p].entry) ELSE channel
  /\ pump' = [pump EXCEPT ![p] = NoPump]
  /\ UNCHANGED <<durable, node, op, recoveryRequired, routed, open, call, history>>

-----------------------------------------------------------------------------
(* The worker: run_worker, DeliverQueue and Drain.                         *)

\* deliver_queue_entry returns a receipt.
ProviderAccepts ==
  /\ channel # <<>> /\ call = {}
  /\ channel' = Tail(channel)
  /\ call' = {Head(channel)}
  /\ delivered' = [delivered EXCEPT ![Head(channel)] = @ + 1]
  /\ UNCHANGED <<durable, node, op, recoveryRequired, routed, open, pump, refused, faults>>

\* Mutant: a failed delivery goes back to the queue.
ProviderErrorsRequeue ==
  /\ channel # <<>> /\ call = {}
  /\ channel' = Tail(channel)
  /\ entry' = [entry EXCEPT ![Head(channel)].state = "Pending"]
  /\ UNCHANGED <<admitted, intent, acked, turn, other, node, op, recoveryRequired,
                 routed, open, pump, call, history>>

\* It returns an error, before or after the bytes left: the entry stays
\* Submitting.
ProviderErrors ==
  /\ channel # <<>> /\ call = {}
  /\ channel' = Tail(channel)
  /\ \/ delivered' = [delivered EXCEPT ![Head(channel)] = @ + 1]
     \/ UNCHANGED delivered
  /\ UNCHANGED <<durable, node, op, recoveryRequired, routed, open, pump, call, refused,
                 faults>>

\* finish_queue_delivery: the correlated turn, then the receipt.
Finish(e) ==
  /\ e \in call /\ LockFree /\ ~recoveryRequired
  /\ State(e) = "Submitting"
  /\ op' = [name |-> "finish", entry |-> e, todo |-> {"turn", "delivered"}]
  /\ UNCHANGED <<durable, node, recoveryRequired, routed, open, pump, channel, call, history>>

\* The store refuses: recovery is required, the entry was not claimed, or the
\* effects do not carry one exact receipt with its turn.
FinishRefused ==
  /\ call # {} /\ LockFree
  /\ call' = {}
  /\ UNCHANGED <<durable, node, op, recoveryRequired, routed, open, pump, channel, history>>

\* Drained effects, or a prompt of a device: a turn no entry started begins
\* or ends, a delivered turn ends.
Idles == node = "up" /\ open /\ LockFree /\ ~recoveryRequired /\ call = {}

OtherTurn == /\ Idles
             /\ other' = ~other
             /\ UNCHANGED <<admitted, intent, entry, acked, turn, volatile, history>>

TurnEnds(e) == /\ Idles /\ turn[e] = "active"
               /\ turn' = [turn EXCEPT ![e] = "ended"]
               /\ UNCHANGED <<admitted, intent, entry, acked, other, volatile, history>>

\* stop_session: the route disappears, then Close enters the channel.
Unroute == /\ node = "up" /\ routed
           /\ routed' = FALSE
           /\ UNCHANGED <<durable, node, op, recoveryRequired, open, pump, channel,
                          call, history>>

CloseWorker == /\ node = "up" /\ ~routed /\ open
               /\ open' = FALSE
               /\ UNCHANGED <<durable, node, op, recoveryRequired, routed, pump,
                              channel, call, history>>

-----------------------------------------------------------------------------
Init ==
  /\ admitted = {} /\ intent = [e \in Entries |-> "NewTurn"]
  /\ entry = [e \in Entries |-> NoEntry]
  /\ acked = {} /\ turn = [e \in Entries |-> "none"] /\ other = FALSE
  /\ node = "down" /\ op = Idle /\ recoveryRequired = FALSE
  /\ routed = FALSE /\ open = FALSE
  /\ pump = [p \in Pumps |-> NoPump] /\ channel = <<>> /\ call = {}
  /\ delivered = [e \in Entries |-> 0] /\ refused = FALSE /\ faults = 0

BrokerStep == Return \/ \E s \in Steps : Write(s)

PumpStep(p) == List(p) \/ Resolve(p) \/ Claim(p) \/ ClaimRefused(p) \/ SendClaim(p)

WorkerStep == ProviderAccepts \/ ProviderErrors \/ FinishRefused
                \/ \E e \in Entries : Finish(e)

StartupStep == Serve \/ \E e \in Entries : RecoverEnqueue(e)

Environment ==
  \/ \E e \in Entries, i \in Intents : Enqueue(e, i)
  \/ OtherTurn \/ Unroute \/ CloseWorker \/ Load \/ Crash
  \/ \E e \in Entries : TurnEnds(e)
  \/ \E s \in Steps : WriteFails(s)

Next == BrokerStep \/ WorkerStep \/ StartupStep \/ Environment
          \/ \E p \in Pumps : PumpStep(p)

Spec == Init /\ [][Next]_vars

\* Threads that can run do run.
FairSpec == /\ Spec
            /\ WF_vars(BrokerStep) /\ WF_vars(WorkerStep) /\ WF_vars(StartupStep)
            /\ \A p \in Pumps : WF_vars(PumpStep(p))

-----------------------------------------------------------------------------
(* Properties.                                                             *)

\* Every entry, thread and channel has the shape the code gives it.
TypeOK ==
  /\ admitted \subseteq Entries /\ acked \subseteq Entries
  /\ intent \in [Entries -> Intents]
  /\ entry \in [Entries -> Entry]
  /\ turn \in [Entries -> {"none", "active", "ended"}]
  /\ other \in BOOLEAN /\ node \in {"down", "loading", "up"}
  /\ op \in {Idle} \cup Operation
  /\ recoveryRequired \in BOOLEAN /\ routed \in BOOLEAN /\ open \in BOOLEAN
  /\ pump \in [Pumps -> {NoPump} \cup Pump]
  /\ channel \in Seq(Entries) /\ call \subseteq Entries
  /\ delivered \in [Entries -> Nat]
  /\ refused \in BOOLEAN /\ faults \in 0..MaxFaults

\* A queued input reaches the provider at most once, whatever pumps run at
\* once and whatever crashes ("never auto-replayed", claim_queue_delivery).
DeliveredOnce == \A e \in Entries : delivered[e] <= 1

\* A recorded receipt is backed by a turn of the log and by bytes that left.
ReceiptsAreBacked ==
  \A e \in Entries : State(e) = "DeliveredAsNewTurn" =>
     turn[e] # "none" /\ delivered[e] = 1

(* Who holds a claim: the thread that made it, then one slot of the channel, *)
(* then the worker's call.                                                   *)
ClaimedBy(p, e) == pump[p].at = "claimed" /\ pump[p].entry = e
Queued(e)   == \E i \in DOMAIN channel : channel[i] = e
InHand(e)   == Queued(e) \/ \E p \in Pumps : ClaimedBy(p, e)

\* An entry not yet claimed is in nobody's hands and did not leave; one that
\* left is in nobody's hands any more.
Custody ==
  \A e \in Entries :
    /\ State(e) \in {"none", "Pending"} => delivered[e] = 0 /\ ~InHand(e)
    /\ State(e) = "none" \/ e \in admitted
    /\ delivered[e] # 0 => ~InHand(e)
    /\ e \in call => delivered[e] = 1

\* A claim is in one hand only.
OneHand ==
  /\ \A i, j \in DOMAIN channel : channel[i] = channel[j] => i = j
  /\ \A p, q \in Pumps, e \in Entries : ClaimedBy(p, e) /\ ClaimedBy(q, e) => p = q
  /\ \A p \in Pumps, e \in Entries : ClaimedBy(p, e) => ~Queued(e)

\* What the writes still to make say about the entry they are made for.
OpInv ==
  op # Idle =>
    /\ op.name # "finish" => /\ op.todo \subseteq {"insert", "entry", "ack"}
                             /\ "entry" \in op.todo => State(op.entry) = "none"
                             /\ "insert" \in op.todo \/ op.entry \in admitted
    /\ op.name = "finish" => /\ op.todo \subseteq {"turn", "delivered"}
                             /\ State(op.entry) \in {"Submitting", "DeliveredAsNewTurn"}
                             /\ delivered[op.entry] = 1
                             /\ "turn" \in op.todo \/ turn[op.entry] # "none"

\* The inductive invariant: types, custody of the claims, writes in flight.
\* It holds of every reachable state because the claim is durable and is
\* checked again under the mutex.
IndInv == TypeOK /\ DeliveredOnce /\ ReceiptsAreBacked /\ Custody /\ OneHand /\ OpInv

\* A load never finds a queue entry that disagrees with its admission.
RecoveryAgrees == ~refused

\* An input that can be delivered does not wait forever while its session
\* stays free, routed and writable, whatever entries lie before it.
QueueAdvances ==
  \A e \in Entries :
    []<>~(/\ node = "up" /\ routed /\ ~recoveryRequired /\ Free
          /\ Deliverable(e) /\ e \in acked)

\* "Zero-based, contiguous across pending entries" (QueueEntry::position).
PositionsContiguous ==
  node = "up" => {entry[e].position : e \in Pending} = 0 .. (Cardinality(Pending) - 1)

\* "Start a new turn when the session is free" (QueueIntent::NewTurn): bytes
\* of a queued input leave only when the session has no active turn.
NewTurnWhenFree == [][delivered' # delivered => Free]_vars

-----------------------------------------------------------------------------
(* A queued input has the life of a command: CommandLifecycle.             *)

PhaseOf(e) ==
  CASE State(e) = "none" -> "unknown"
    [] State(e) = "Pending" -> "waiting"
    [] State(e) = "Submitting" -> IF delivered[e] = 0 THEN "claimed" ELSE "sent"
    [] OTHER -> "closed"

Lifecycle == INSTANCE CommandLifecycle
               WITH Commands <- Entries, phase <- [e \in Entries |-> PhaseOf(e)],
                    sends <- delivered

\* The pumps, the worker and the restarts implement the abstract life of one
\* input: claimed once, sent at most once and only from its claim.
ImplementsLifecycle == Lifecycle!Spec
=============================================================================
