-------------------------- MODULE InputQueueProofs --------------------------
(***************************************************************************)
(* A queued input reaches the provider at most once, for every set of      *)
(* entries, every set of pump threads and every number of faults.          *)
(***************************************************************************)
EXTENDS InputQueue, FiniteSetTheorems, TLAPS

\* The initial state satisfies the inductive invariant: nothing is queued.
LEMMA InitInd == Init => IndInv
<1> SUFFICES ASSUME Init PROVE IndInv
  OBVIOUS
<1>1. TypeOK
  <2>1. entry \in [Entries -> Entry]
    BY DEF Init, NoEntry, Entry
  <2>2. pump \in [Pumps -> {NoPump} \cup Pump]
    BY DEF Init
  <2>3. channel \in Seq(Entries) /\ faults \in 0..MaxFaults
    BY FaultAssumption DEF Init
  <2> QED
    BY <2>1, <2>2, <2>3 DEF Init, TypeOK, Intents
<1>2. DeliveredOnce /\ ReceiptsAreBacked
  BY DEF Init, DeliveredOnce, ReceiptsAreBacked, State, NoEntry
<1>3. Custody /\ OneHand
  BY DEF Init, Custody, OneHand, InHand, Queued, ClaimedBy, State, NoEntry, NoPump
<1>4. OpInv
  BY DEF Init, OpInv
<1> QED
  BY <1>1, <1>2, <1>3, <1>4 DEF IndInv

\* A step that writes no entry, sends nothing and claims nothing keeps every
\* claim in the hand that holds it, or drops it.
LEMMA Frame ==
  ASSUME IndInv, TypeOK',
         UNCHANGED <<admitted, entry, delivered>>,
         op' \in {op, Idle}, call' \subseteq call, channel' \in {channel, <<>>},
         \A e \in Entries : turn[e] # "none" => turn'[e] # "none",
         \A p \in Pumps, e \in Entries : ClaimedBy(p, e)' => ClaimedBy(p, e)
  PROVE  IndInv'
<1>1. \A e \in Entries : /\ Queued(e)' => Queued(e)
                         /\ InHand(e)' => InHand(e)
                         /\ State(e)' = State(e)
  BY DEF Queued, InHand, State
<1>2. DeliveredOnce' /\ ReceiptsAreBacked'
  BY <1>1 DEF IndInv, DeliveredOnce, ReceiptsAreBacked
<1>3. Custody'
  BY <1>1 DEF IndInv, Custody
<1>4. OneHand'
  <2>1. \A i, j \in DOMAIN channel' : channel'[i] = channel'[j] => i = j
    BY DEF IndInv, OneHand
  <2> QED
    BY <1>1, <2>1 DEF IndInv, OneHand
<1>5. OpInv'
  <2>1. CASE op' = Idle
    BY <2>1 DEF OpInv
  <2>2. CASE op' = op /\ op # Idle
    <3>1. op.entry \in Entries
      BY <2>2 DEF IndInv, TypeOK, Operation
    <3> QED
      BY <1>1, <2>2, <3>1 DEF IndInv, OpInv
  <2> QED
    BY <2>1, <2>2
<1> QED
  BY <1>2, <1>3, <1>4, <1>5 DEF IndInv

\* The number of pending entries is a natural number: entries are finite.
LEMMA PendingCount == Cardinality(Pending) \in Nat
  BY EntryAssumption, FS_Subset, FS_CardinalityType DEF Pending

\* The types of what is on disk, and of what a process holds.
DurableOK ==
  /\ admitted \subseteq Entries /\ acked \subseteq Entries
  /\ intent \in [Entries -> Intents]
  /\ entry \in [Entries -> Entry]
  /\ turn \in [Entries -> {"none", "active", "ended"}]
  /\ other \in BOOLEAN

VolatileOK ==
  /\ node \in {"down", "loading", "up"}
  /\ op \in {Idle} \cup Operation
  /\ recoveryRequired \in BOOLEAN /\ routed \in BOOLEAN /\ open \in BOOLEAN
  /\ pump \in [Pumps -> {NoPump} \cup Pump]
  /\ channel \in Seq(Entries) /\ call \subseteq Entries

HistoryOK ==
  /\ delivered \in [Entries -> Nat]
  /\ refused \in BOOLEAN /\ faults \in 0..MaxFaults

\* The type invariant is the conjunction of these three.
LEMMA TypeParts == /\ TypeOK <=> DurableOK /\ VolatileOK /\ HistoryOK
                   /\ TypeOK' <=> DurableOK' /\ VolatileOK' /\ HistoryOK'
  BY DEF TypeOK, DurableOK, VolatileOK, HistoryOK

\* A write puts typed values on disk.
LEMMA PerformType ==
  ASSUME DurableOK, op.entry \in Entries, NEW s \in Steps, Perform(s)
  PROVE  DurableOK'
<1>1. CASE InsertRecord
  BY <1>1 DEF InsertRecord, DurableOK
<1>2. CASE AppendEntry
  BY <1>2, PendingCount DEF AppendEntry, DurableOK, Entry
<1>3. CASE AppendAck
  BY <1>3 DEF AppendAck, DurableOK
<1>4. CASE AppendTurn
  BY <1>4 DEF AppendTurn, DurableOK
<1>5. CASE AppendDelivered
  BY <1>5 DEF AppendDelivered, DurableOK, Entry
<1> QED
  BY <1>1, <1>2, <1>3, <1>4, <1>5 DEF Perform

\* A process that died holds nothing.
LEMMA DieType == ASSUME Die PROVE VolatileOK'
<1>1. pump' \in [Pumps -> {NoPump} \cup Pump] /\ channel' \in Seq(Entries)
  BY DEF Die
<1> QED
  BY <1>1 DEF Die, VolatileOK

\* A thread past its listing holds an entry.
LEMMA PumpEntry ==
  ASSUME VolatileOK, NEW p \in Pumps, pump[p].at \in {"listed", "resolved", "claimed"}
  PROVE  pump[p] \in Pump /\ pump[p].entry \in Entries
  BY DEF VolatileOK, NoPump, Pump

\* A running operation works on an entry.
LEMMA OpEntry == ASSUME VolatileOK, op # Idle PROVE op \in Operation /\ op.entry \in Entries
  BY DEF VolatileOK, Operation

\* The head and the tail of a non-empty channel.
LEMMA ChannelHead ==
  ASSUME VolatileOK, channel # <<>>
  PROVE  /\ Head(channel) \in Entries /\ Tail(channel) \in Seq(Entries)
         /\ Head(channel) = channel[1] /\ 1 \in DOMAIN channel
         /\ \A i \in DOMAIN Tail(channel) : i + 1 \in DOMAIN channel /\ Tail(channel)[i] = channel[i + 1]
  BY DEF VolatileOK

\* Types are preserved by every step.
LEMMA TypeInd == ASSUME TypeOK, Next PROVE TypeOK'
<1> USE FaultAssumption
<1>0. DurableOK /\ VolatileOK /\ HistoryOK
  BY TypeParts
<1> SUFFICES DurableOK' /\ VolatileOK' /\ HistoryOK'
  BY TypeParts
<1> DEFINE Goal == DurableOK' /\ VolatileOK' /\ HistoryOK'
<1>1. CASE Return
  BY <1>0, <1>1 DEF Return, DurableOK, VolatileOK, HistoryOK, durable, history
<1>2. ASSUME NEW s \in Steps, Write(s) PROVE Goal
  <2>1. op \in Operation /\ op.entry \in Entries
    BY <1>0, <1>2, OpEntry DEF Write, Due
  <2>2. DurableOK'
    BY <1>0, <1>2, <2>1, PerformType DEF Write
  <2>3. op' \in Operation
    BY <1>2, <2>1 DEF Write, Operation
  <2> QED
    BY <1>0, <1>2, <2>2, <2>3 DEF Write, VolatileOK, HistoryOK, history
<1>3. ASSUME NEW e \in Entries, NEW i \in Intents, Enqueue(e, i) PROVE Goal
  BY <1>0, <1>3 DEF Enqueue, Operation, Steps, Rank, history, DurableOK, VolatileOK, HistoryOK
<1>4. CASE Load
  BY <1>0, <1>4 DEF Load, durable, DurableOK, VolatileOK, HistoryOK
<1>5. CASE Crash
  <2>1. VolatileOK'
    BY <1>5, DieType DEF Crash
  <2>2. DurableOK' /\ HistoryOK'
    BY <1>0, <1>5 DEF Crash, Fault, durable, DurableOK, HistoryOK
  <2> QED
    BY <2>1, <2>2
<1>6. ASSUME NEW e \in Entries, RecoverEnqueue(e) PROVE Goal
  <2>1. DurableOK' /\ HistoryOK'
    BY <1>0, <1>6 DEF RecoverEnqueue, durable, DurableOK, HistoryOK
  <2>2. CASE Agrees(e)
    BY <1>0, <1>6, <2>1, <2>2 DEF RecoverEnqueue, Operation, Steps, Rank, VolatileOK
  <2>3. CASE ~Agrees(e)
    BY <1>6, <2>1, <2>3, DieType DEF RecoverEnqueue
  <2> QED
    BY <2>2, <2>3
<1>7. CASE Serve
  BY <1>0, <1>7 DEF Serve, durable, history, DurableOK, VolatileOK, HistoryOK
<1>8. ASSUME NEW p \in Pumps, List(p) PROVE Goal
  BY <1>0, <1>8 DEF List, Pump, durable, history, DurableOK, VolatileOK, HistoryOK
<1>9. ASSUME NEW p \in Pumps, Resolve(p) PROVE Goal
  <2>1. pump[p] \in Pump
    BY <1>0, <1>9, PumpEntry DEF Resolve
  <2>2. pump' \in [Pumps -> {NoPump} \cup Pump]
    BY <1>0, <1>9, <2>1 DEF Resolve, Pump, VolatileOK
  <2> QED
    BY <1>0, <1>9, <2>2 DEF Resolve, durable, history, DurableOK, VolatileOK, HistoryOK
<1>10. ASSUME NEW p \in Pumps, Claim(p) PROVE Goal
  <2>1. pump[p] \in Pump /\ pump[p].entry \in Entries
    BY <1>0, <1>10, PumpEntry DEF Claim
  <2>2. pump' \in [Pumps -> {NoPump} \cup Pump]
    BY <1>0, <1>10, <2>1 DEF Claim, Pump, VolatileOK
  <2>3. entry' \in [Entries -> Entry]
    BY <1>0, <1>10, <2>1 DEF Claim, DurableOK, Entry
  <2> QED
    BY <1>0, <1>10, <2>2, <2>3 DEF Claim, history, DurableOK, VolatileOK, HistoryOK
<1>11. ASSUME NEW p \in Pumps, ClaimRefused(p) PROVE Goal
  <2>1. pump[p].entry \in Entries
    BY <1>0, <1>11, PumpEntry DEF ClaimRefused
  <2>2. pump' \in [Pumps -> {NoPump} \cup Pump]
    BY <1>0, <1>11 DEF ClaimRefused, VolatileOK
  <2>3. entry' \in [Entries -> Entry]
    <3>1. CASE entry' = entry
      BY <1>0, <3>1 DEF DurableOK
    <3>2. CASE entry' = [entry EXCEPT ![pump[p].entry].state = "Submitting"]
      BY <1>0, <2>1, <3>2 DEF DurableOK, Entry
    <3> QED
      BY <1>11, <3>1, <3>2 DEF ClaimRefused
  <2>4. recoveryRequired' \in BOOLEAN /\ faults' \in 0..MaxFaults
    <3>1. faults' = faults \/ Fault
      BY <1>11 DEF ClaimRefused
    <3>2. recoveryRequired' = recoveryRequired \/ recoveryRequired' = TRUE
      BY <1>11, Zenon DEF ClaimRefused
    <3>3. faults' \in 0..MaxFaults
      BY <1>0, <3>1 DEF Fault, HistoryOK
    <3> QED
      BY <1>0, <3>2, <3>3 DEF VolatileOK
  <2> QED
    BY <1>0, <1>11, <2>2, <2>3, <2>4 DEF ClaimRefused, DurableOK, VolatileOK, HistoryOK
<1>12. ASSUME NEW p \in Pumps, SendClaim(p) PROVE Goal
  <2>1. pump[p].entry \in Entries
    BY <1>0, <1>12, PumpEntry DEF SendClaim
  <2>2. channel' \in Seq(Entries)
    BY <1>0, <1>12, <2>1 DEF SendClaim, VolatileOK
  <2> QED
    BY <1>0, <1>12, <2>2 DEF SendClaim, durable, history, DurableOK, VolatileOK, HistoryOK
<1>13. CASE ProviderAccepts
  BY <1>0, <1>13, ChannelHead DEF ProviderAccepts, durable, DurableOK, VolatileOK, HistoryOK
<1>14. CASE ProviderErrors
  BY <1>0, <1>14, ChannelHead DEF ProviderErrors, durable, DurableOK, VolatileOK, HistoryOK
<1>15. CASE FinishRefused
  BY <1>0, <1>15 DEF FinishRefused, durable, history, DurableOK, VolatileOK, HistoryOK
<1>16. ASSUME NEW e \in Entries, Finish(e) PROVE Goal
  BY <1>0, <1>16 DEF Finish, Operation, Steps, Rank, durable, history, DurableOK, VolatileOK, HistoryOK
<1>17. CASE OtherTurn
  BY <1>0, <1>17 DEF OtherTurn, volatile, history, DurableOK, VolatileOK, HistoryOK
<1>18. ASSUME NEW e \in Entries, TurnEnds(e) PROVE Goal
  BY <1>0, <1>18 DEF TurnEnds, volatile, history, DurableOK, VolatileOK, HistoryOK
<1>19. CASE Unroute
  BY <1>0, <1>19 DEF Unroute, durable, history, DurableOK, VolatileOK, HistoryOK
<1>20. CASE CloseWorker
  BY <1>0, <1>20 DEF CloseWorker, durable, history, DurableOK, VolatileOK, HistoryOK
<1>21. ASSUME NEW s \in Steps, WriteFails(s) PROVE Goal
  <2>1. op.entry \in Entries
    BY <1>0, <1>21, OpEntry DEF WriteFails, Due
  <2>2. DurableOK'
    <3>1. CASE UNCHANGED durable
      BY <1>0, <3>1 DEF durable, DurableOK
    <3>2. CASE Perform(s)
      BY <1>0, <2>1, <3>2, PerformType
    <3> QED
      BY <1>21, <3>1, <3>2 DEF WriteFails
  <2>3. HistoryOK'
    BY <1>0, <1>21 DEF WriteFails, Fault, HistoryOK
  <2>4. VolatileOK'
    <3>1. CASE Die
      BY <3>1, DieType
    <3>2. CASE ~Die
      <4>1. recoveryRequired' \in BOOLEAN
        BY <1>21, <3>2 DEF WriteFails
      <4> QED
        BY <1>0, <1>21, <3>2, <4>1 DEF WriteFails, VolatileOK
    <3> QED
      BY <3>1, <3>2
  <2> QED
    BY <2>2, <2>3, <2>4
<1> QED
  BY <1>1, <1>2, <1>3, <1>4, <1>5, <1>6, <1>7, <1>8, <1>9, <1>10, <1>11, <1>12, <1>13,
     <1>14, <1>15, <1>16, <1>17, <1>18, <1>19, <1>20, <1>21
  DEF Next, BrokerStep, WorkerStep, StartupStep, Environment, PumpStep

\* A durable write of an operation keeps every claim where it is: an entry is
\* written only where there is none, a receipt only after its turn.
LEMMA PerformKeeps ==
  ASSUME IndInv, TypeOK', NEW s \in Steps, Due(s), Perform(s),
         delivered' = delivered, call' \subseteq call, channel' \in {channel, <<>>},
         \A p \in Pumps, e \in Entries : ClaimedBy(p, e)' => ClaimedBy(p, e)
  PROVE  DeliveredOnce' /\ ReceiptsAreBacked' /\ Custody' /\ OneHand'
<1>0. /\ op \in Operation /\ op.entry \in Entries /\ DurableOK /\ VolatileOK /\ HistoryOK
      /\ OpInv /\ op # Idle
  BY OpEntry, TypeParts DEF IndInv, Due
<1> PICK o \in Entries : o = op.entry
  BY <1>0
<1>1. \A e \in Entries : (Queued(e)' => Queued(e)) /\ (InHand(e)' => InHand(e))
  BY DEF Queued, InHand
<1>2. DeliveredOnce'
  BY DEF IndInv, DeliveredOnce
<1>3. OneHand'
  <2>1. \A i, j \in DOMAIN channel' : channel'[i] = channel'[j] => i = j
    BY DEF IndInv, OneHand
  <2> QED
    BY <1>1, <2>1 DEF IndInv, OneHand
<1>4. CASE InsertRecord
  <2>1. \A e \in Entries : State(e)' = State(e) /\ (e \in admitted => e \in admitted')
    BY <1>4 DEF InsertRecord, State
  <2>2. Custody'
    BY <1>1, <2>1 DEF IndInv, Custody
  <2>3. ReceiptsAreBacked'
    BY <1>4, <2>1 DEF InsertRecord, IndInv, ReceiptsAreBacked
  <2> QED
    BY <1>2, <1>3, <2>2, <2>3
<1>5. CASE s = "entry" /\ AppendEntry
  <2>1. op.name # "finish" /\ State(op.entry) = "none" /\ op.entry \in admitted
    BY <1>0, <1>5 DEF OpInv, Due, Rank, Steps
  <2>2. /\ State(o)' = "Pending"
        /\ \A e \in Entries \ {o} : State(e)' = State(e)
    BY <1>0, <1>5 DEF AppendEntry, State, DurableOK
  <2>3. Custody'
    BY <1>0, <1>1, <1>5, <2>1, <2>2 DEF AppendEntry, IndInv, Custody
  <2>4. ReceiptsAreBacked'
    BY <1>0, <1>5, <2>2 DEF AppendEntry, IndInv, ReceiptsAreBacked
  <2> QED
    BY <1>2, <1>3, <2>3, <2>4
<1>6. CASE AppendAck
  <2>1. \A e \in Entries : State(e)' = State(e)
    BY <1>6 DEF AppendAck, State
  <2>2. Custody'
    BY <1>1, <1>6, <2>1 DEF AppendAck, IndInv, Custody
  <2>3. ReceiptsAreBacked'
    BY <1>6, <2>1 DEF AppendAck, IndInv, ReceiptsAreBacked
  <2> QED
    BY <1>2, <1>3, <2>2, <2>3
<1>7. CASE AppendTurn
  <2>1. \A e \in Entries : State(e)' = State(e) /\ (turn[e] # "none" => turn'[e] # "none")
    BY <1>0, <1>7 DEF AppendTurn, State, DurableOK
  <2>2. Custody'
    BY <1>1, <1>7, <2>1 DEF AppendTurn, IndInv, Custody
  <2>3. ReceiptsAreBacked'
    BY <1>7, <2>1 DEF AppendTurn, IndInv, ReceiptsAreBacked
  <2> QED
    BY <1>2, <1>3, <2>2, <2>3
<1>8. CASE s = "delivered" /\ AppendDelivered
  <2>1. "turn" \notin op.todo
    BY <1>8 DEF Due, Rank
  <2>2. /\ op.name = "finish" /\ State(op.entry) \in {"Submitting", "DeliveredAsNewTurn"}
        /\ delivered[op.entry] = 1 /\ turn[op.entry] # "none"
    BY <1>0, <1>8, <2>1 DEF OpInv, Due
  <2>3. /\ State(o)' = "DeliveredAsNewTurn"
        /\ \A e \in Entries \ {o} : State(e)' = State(e)
    BY <1>0, <1>8 DEF AppendDelivered, State, DurableOK, Entry
  <2>4. Custody'
    BY <1>0, <1>1, <1>8, <2>2, <2>3 DEF AppendDelivered, IndInv, Custody
  <2>5. ReceiptsAreBacked'
    BY <1>0, <1>8, <2>2, <2>3 DEF AppendDelivered, IndInv, ReceiptsAreBacked
  <2> QED
    BY <1>2, <1>3, <2>4, <2>5
<1> QED
  BY <1>4, <1>5, <1>6, <1>7, <1>8 DEF Perform

\* The step that claims: the entry was Pending, so nobody held it.
LEMMA ClaimInd == ASSUME IndInv, TypeOK', NEW p \in Pumps, Claim(p) PROVE IndInv'
<1>0. DurableOK /\ VolatileOK /\ HistoryOK
  BY TypeParts DEF IndInv
<1>1. pump[p] \in Pump /\ pump[p].entry \in Entries
  BY <1>0, PumpEntry DEF Claim
<1> PICK o \in Entries : o = pump[p].entry
  BY <1>1
<1>2. /\ State(o) = "Pending" /\ State(o)' = "Submitting"
      /\ \A e \in Entries \ {o} : State(e)' = State(e)
  BY <1>0 DEF Claim, Deliverable, State, DurableOK, Entry
<1>3. \A q \in Pumps, e \in Entries :
        ClaimedBy(q, e)' <=> ClaimedBy(q, e) \/ (q = p /\ e = o)
  BY <1>0, <1>1 DEF Claim, ClaimedBy, VolatileOK, Pump
<1>4. \A e \in Entries : /\ Queued(e)' = Queued(e)
                         /\ InHand(e)' => InHand(e) \/ e = o
  BY <1>3 DEF Claim, Queued, InHand
<1>5. delivered[o] = 0 /\ ~InHand(o)
  BY <1>2 DEF IndInv, Custody
<1>6. DeliveredOnce' /\ ReceiptsAreBacked'
  BY <1>2 DEF Claim, history, IndInv, DeliveredOnce, ReceiptsAreBacked
<1>7. Custody'
  BY <1>2, <1>4, <1>5 DEF Claim, history, IndInv, Custody
<1>8. OneHand'
  <2>1. \A q \in Pumps : ~ClaimedBy(q, o)
    BY <1>5 DEF InHand
  <2>2. ~Queued(o)
    BY <1>5 DEF InHand
  <2>3. channel' = channel
    BY DEF Claim
  <2> QED
    BY <1>3, <1>4, <2>1, <2>2, <2>3 DEF IndInv, OneHand
<1>9. OpInv'
  BY DEF Claim, LockFree, OpInv
<1> QED
  BY <1>6, <1>7, <1>8, <1>9 DEF IndInv

\* A claim that is durable and lost: Submitting, in nobody's hand.
LEMMA ClaimRefusedInd ==
  ASSUME IndInv, TypeOK', NEW p \in Pumps, ClaimRefused(p) PROVE IndInv'
<1>0. DurableOK /\ VolatileOK /\ HistoryOK
  BY TypeParts DEF IndInv
<1>1. pump[p].entry \in Entries
  BY <1>0, PumpEntry DEF ClaimRefused
<1>2. \A q \in Pumps, e \in Entries : ClaimedBy(q, e)' => ClaimedBy(q, e)
  BY <1>0 DEF ClaimRefused, ClaimedBy, VolatileOK, NoPump
<1>3. CASE entry' = entry
  BY <1>2, <1>3, Frame DEF ClaimRefused
<1>4. CASE Deliverable(pump[p].entry)
             /\ entry' = [entry EXCEPT ![pump[p].entry].state = "Submitting"]
  <2> PICK o \in Entries : o = pump[p].entry
    BY <1>1
  <2>1. /\ State(o) = "Pending" /\ State(o)' = "Submitting"
        /\ \A e \in Entries \ {o} : State(e)' = State(e)
    BY <1>0, <1>4 DEF Deliverable, State, DurableOK, Entry
  <2>2. \A e \in Entries : Queued(e)' = Queued(e) /\ (InHand(e)' => InHand(e))
    BY <1>2 DEF ClaimRefused, Queued, InHand
  <2>3. DeliveredOnce' /\ ReceiptsAreBacked'
    BY <2>1 DEF ClaimRefused, IndInv, DeliveredOnce, ReceiptsAreBacked
  <2>4. Custody'
    BY <2>1, <2>2 DEF ClaimRefused, IndInv, Custody
  <2>5. OneHand'
    <3>1. channel' = channel
      BY DEF ClaimRefused
    <3> QED
      BY <1>2, <2>2, <3>1 DEF IndInv, OneHand
  <2>6. OpInv'
    BY DEF ClaimRefused, LockFree, OpInv
  <2> QED
    BY <2>3, <2>4, <2>5, <2>6 DEF IndInv
<1> QED
  BY <1>3, <1>4, Zenon DEF ClaimRefused

\* A claim moves from its thread to one slot of the channel.
LEMMA SendClaimInd ==
  ASSUME IndInv, TypeOK', NEW p \in Pumps, SendClaim(p) PROVE IndInv'
<1>0. DurableOK /\ VolatileOK /\ HistoryOK
  BY TypeParts DEF IndInv
<1>1. pump[p].entry \in Entries
  BY <1>0, PumpEntry DEF SendClaim
<1> PICK o \in Entries : o = pump[p].entry
  BY <1>1
<1>2. \A q \in Pumps, e \in Entries : ClaimedBy(q, e)' => ClaimedBy(q, e) /\ q # p
  BY <1>0 DEF SendClaim, ClaimedBy, VolatileOK, NoPump
<1>3. CASE channel' = channel
  BY <1>2, <1>3, Frame DEF SendClaim, durable, history
<1>4. CASE channel' = Append(channel, o)
  <2>1. /\ ClaimedBy(p, o)
        /\ \A q \in Pumps : ClaimedBy(q, o) => q = p
        /\ ~Queued(o)
    BY DEF SendClaim, ClaimedBy, IndInv, OneHand
  <2>2. /\ DOMAIN channel = 1..Len(channel) /\ DOMAIN channel' = 1..(Len(channel) + 1)
        /\ \A i \in 1..Len(channel) : channel'[i] = channel[i]
        /\ channel'[Len(channel) + 1] = o /\ Len(channel) \in Nat
    BY <1>0, <1>4 DEF VolatileOK
  <2>3. \A e \in Entries : /\ Queued(e)' => Queued(e) \/ e = o
                           /\ InHand(e)' => InHand(e)
                           /\ State(e)' = State(e)
    <3>1. \A e \in Entries : Queued(e)' => Queued(e) \/ e = o
      BY <2>2 DEF Queued
    <3>2. \A e \in Entries : InHand(e)' => InHand(e)
      BY <1>2, <2>1, <3>1 DEF InHand
    <3>3. entry' = entry
      BY DEF SendClaim, durable
    <3>4. QED
      BY <3>1, <3>2, <3>3 DEF State
  <2>4. DeliveredOnce' /\ ReceiptsAreBacked'
    BY <2>3 DEF SendClaim, durable, history, IndInv, DeliveredOnce, ReceiptsAreBacked
  <2>5. Custody'
    BY <2>3 DEF SendClaim, durable, history, IndInv, Custody
  <2>6. OneHand'
    <3>1. \A i, j \in DOMAIN channel' : channel'[i] = channel'[j] => i = j
      <4> SUFFICES ASSUME NEW i \in DOMAIN channel', NEW j \in DOMAIN channel',
                          channel'[i] = channel'[j]
                   PROVE  i = j
        OBVIOUS
      <4>1. \A k \in 1..Len(channel) : channel'[k] # o
        BY <2>1, <2>2 DEF Queued
      <4>2. CASE i \in 1..Len(channel) /\ j \in 1..Len(channel)
        BY <2>2, <4>2 DEF IndInv, OneHand
      <4> QED
        BY <2>2, <4>1, <4>2
    <3>2. \A q \in Pumps, e \in Entries : ClaimedBy(q, e)' => ~Queued(e)'
      BY <1>2, <2>1, <2>3 DEF IndInv, OneHand
    <3> QED
      BY <1>2, <3>1, <3>2 DEF IndInv, OneHand
  <2>7. OpInv'
    <3>1. op' = op /\ UNCHANGED <<admitted, entry, turn, delivered>>
      BY DEF SendClaim, durable, history
    <3> QED
      BY <3>1 DEF IndInv, OpInv, State
  <2> QED
    BY <2>4, <2>5, <2>6, <2>7 DEF IndInv
<1> QED
  BY <1>3, <1>4 DEF SendClaim

\* The worker takes the only holder of a claim out of the channel: it may have
\* been sent, or not, and nobody can send it again.
LEMMA TakeInd ==
  ASSUME IndInv, TypeOK', channel # <<>>, call = {}, channel' = Tail(channel),
         \/ delivered' = [delivered EXCEPT ![Head(channel)] = @ + 1]
         \/ delivered' = delivered /\ call' = {},
         call' \in {{}, {Head(channel)}},
         UNCHANGED <<admitted, entry, turn, op, pump>>
  PROVE  IndInv'
<1>0. DurableOK /\ VolatileOK /\ HistoryOK
  BY TypeParts DEF IndInv
<1>1. /\ Head(channel) \in Entries /\ Head(channel) = channel[1] /\ 1 \in DOMAIN channel
      /\ \A i \in DOMAIN Tail(channel) : /\ i + 1 \in DOMAIN channel
                                         /\ Tail(channel)[i] = channel[i + 1]
  BY <1>0, ChannelHead
<1> PICK o \in Entries : o = Head(channel)
  BY <1>1
<1>2. DOMAIN channel' \subseteq Nat \ {0}
  BY <1>0 DEF VolatileOK
<1>3. /\ Queued(o) /\ ~Queued(o)'
      /\ \A e \in Entries : Queued(e)' => Queued(e)
  BY <1>1, <1>2 DEF Queued, IndInv, OneHand
<1>4. /\ \A q \in Pumps, e \in Entries : ClaimedBy(q, e)' <=> ClaimedBy(q, e)
      /\ \A q \in Pumps : ~ClaimedBy(q, o)
      /\ \A e \in Entries : State(e)' = State(e)
  BY <1>3 DEF ClaimedBy, State, IndInv, OneHand
<1>5. \A e \in Entries : (InHand(e)' => InHand(e)) /\ (InHand(e)' => e # o)
  BY <1>3, <1>4 DEF InHand
<1>6. delivered[o] = 0 /\ State(o) \notin {"none", "Pending"}
  BY <1>3 DEF InHand, IndInv, Custody
<1>7. /\ \A e \in Entries \ {o} : delivered'[e] = delivered[e]
      /\ delivered'[o] \in {0, 1}
      /\ \A e \in call' : e = o /\ delivered'[o] = 1
  BY <1>0, <1>6 DEF HistoryOK
<1>8. State(o) # "DeliveredAsNewTurn"
  BY <1>6 DEF IndInv, ReceiptsAreBacked
<1>9. DeliveredOnce'
  BY <1>7 DEF IndInv, DeliveredOnce
<1>10. ReceiptsAreBacked'
  BY <1>4, <1>7, <1>8 DEF IndInv, ReceiptsAreBacked
<1>11. Custody'
  BY <1>4, <1>5, <1>6, <1>7 DEF IndInv, Custody
<1>12. OneHand'
  <2>1. \A i, j \in DOMAIN channel' : channel'[i] = channel'[j] => i = j
    BY <1>1, <1>2 DEF IndInv, OneHand
  <2> QED
    BY <1>3, <1>4, <2>1 DEF IndInv, OneHand
<1>13. OpInv'
  <2>1. CASE op = Idle
    BY <2>1 DEF OpInv
  <2>2. CASE op # Idle
    <3>1. op.entry \in Entries
      BY <1>0, <2>2, OpEntry
    <3>2. op.name = "finish" => op.entry # o
      BY <1>6, <2>2 DEF IndInv, OpInv
    <3> QED
      BY <1>7, <2>2, <3>1, <3>2 DEF IndInv, OpInv, State
  <2> QED
    BY <2>1, <2>2
<1> QED
  BY <1>9, <1>10, <1>11, <1>12, <1>13 DEF IndInv

\* An operation that takes the free mutex keeps the rest of the invariant.
LEMMA TakeMutex ==
  ASSUME IndInv, TypeOK', OpInv',
         UNCHANGED <<admitted, entry, turn, delivered, call, channel, pump>>
  PROVE  IndInv'
<1>1. \A e \in Entries : /\ State(e)' = State(e) /\ Queued(e)' = Queued(e)
                         /\ InHand(e)' = InHand(e)
                         /\ \A p \in Pumps : ClaimedBy(p, e)' = ClaimedBy(p, e)
  BY DEF State, Queued, InHand, ClaimedBy
<1>2. DeliveredOnce' /\ ReceiptsAreBacked' /\ Custody'
  BY <1>1 DEF IndInv, DeliveredOnce, ReceiptsAreBacked, Custody
<1>3. OneHand'
  BY <1>1 DEF IndInv, OneHand
<1> QED
  BY <1>2, <1>3 DEF IndInv

\* A write leaves the operation's remaining writes consistent with its entry.
LEMMA WriteOp == ASSUME IndInv, NEW s \in Steps, Write(s) PROVE OpInv'
<1>0. /\ DurableOK /\ OpInv /\ op # Idle /\ op \in Operation /\ op.entry \in Entries
      /\ s \in op.todo /\ delivered' = delivered
  BY TypeParts, OpEntry DEF IndInv, Write, Due, history
<1>1. /\ op'.name = op.name /\ op'.entry = op.entry /\ op'.todo = op.todo \ {s}
  BY <1>0 DEF Write, Operation
<1>2. CASE op.name # "finish"
  <2>1. s \in {"insert", "entry", "ack"}
    BY <1>0, <1>2 DEF OpInv
  <2>2. CASE s = "insert"
    BY <1>0, <1>1, <1>2, <2>2 DEF Write, Perform, InsertRecord, OpInv, State
  <2>3. CASE s = "entry"
    BY <1>0, <1>1, <1>2, <2>3 DEF Write, Perform, AppendEntry, OpInv
  <2>4. CASE s = "ack"
    BY <1>0, <1>1, <1>2, <2>4 DEF Write, Perform, AppendAck, OpInv, State
  <2> QED
    BY <2>1, <2>2, <2>3, <2>4
<1>3. CASE op.name = "finish"
  <2>1. s \in {"turn", "delivered"}
    BY <1>0, <1>3 DEF OpInv
  <2>2. CASE s = "turn"
    BY <1>0, <1>1, <1>3, <2>2 DEF Write, Perform, AppendTurn, OpInv, State, DurableOK
  <2>3. CASE s = "delivered"
    <3>1. entry'[op.entry].state = "DeliveredAsNewTurn" /\ turn' = turn
      BY <1>0, <2>3 DEF Write, Perform, AppendDelivered, DurableOK, Entry
    <3> QED
      BY <1>0, <1>1, <1>3, <2>3, <3>1 DEF OpInv, State
  <2> QED
    BY <2>1, <2>2, <2>3
<1> QED
  BY <1>2, <1>3

\* Every step preserves the inductive invariant.
LEMMA StepInd == ASSUME IndInv, Next PROVE IndInv'
<1> TypeOK'
  BY TypeInd DEF IndInv
<1>0. DurableOK /\ VolatileOK /\ HistoryOK
  BY TypeParts DEF IndInv
<1>1. CASE Return
  <2>1. \A q \in Pumps, f \in Entries : ClaimedBy(q, f)' => ClaimedBy(q, f)
    BY <1>0, <1>1 DEF Return, durable, history, ClaimedBy, VolatileOK, NoPump
  <2>2. \A f \in Entries : turn[f] # "none" => turn'[f] # "none"
    BY <1>0, <1>1 DEF Return, durable, history, DurableOK
  <2> QED
    BY <1>1, <2>1, <2>2, Frame DEF Return, durable, history
<1>2. CASE Load
  <2>1. \A q \in Pumps, f \in Entries : ClaimedBy(q, f)' => ClaimedBy(q, f)
    BY <1>0, <1>2 DEF Load, durable, ClaimedBy, VolatileOK, NoPump
  <2>2. \A f \in Entries : turn[f] # "none" => turn'[f] # "none"
    BY <1>0, <1>2 DEF Load, durable, DurableOK
  <2> QED
    BY <1>2, <2>1, <2>2, Frame DEF Load, durable
<1>3. CASE Crash
  <2>1. \A q \in Pumps, f \in Entries : ClaimedBy(q, f)' => ClaimedBy(q, f)
    BY <1>0, <1>3 DEF Crash, Die, durable, ClaimedBy, VolatileOK, NoPump
  <2>2. \A f \in Entries : turn[f] # "none" => turn'[f] # "none"
    BY <1>0, <1>3 DEF Crash, Die, durable, DurableOK
  <2> QED
    BY <1>3, <2>1, <2>2, Frame DEF Crash, Die, durable
<1>4. CASE Serve
  <2>1. \A q \in Pumps, f \in Entries : ClaimedBy(q, f)' => ClaimedBy(q, f)
    BY <1>0, <1>4 DEF Serve, durable, history, ClaimedBy, VolatileOK, NoPump
  <2>2. \A f \in Entries : turn[f] # "none" => turn'[f] # "none"
    BY <1>0, <1>4 DEF Serve, durable, history, DurableOK
  <2> QED
    BY <1>4, <2>1, <2>2, Frame DEF Serve, durable, history
<1>5. ASSUME NEW p \in Pumps, List(p) PROVE IndInv'
  <2>0. PICK x \in Entries : pump' = [pump EXCEPT ![p] = [at |-> "listed", entry |-> x]]
    BY <1>5 DEF List
  <2>1. \A q \in Pumps, f \in Entries : ClaimedBy(q, f)' => ClaimedBy(q, f)
    BY <1>0, <2>0 DEF ClaimedBy, VolatileOK
  <2>2. \A f \in Entries : turn[f] # "none" => turn'[f] # "none"
    BY <1>0, <1>5 DEF List, durable, history, DurableOK
  <2> QED
    BY <1>5, <2>1, <2>2, Frame DEF List, durable, history
<1>6. ASSUME NEW p \in Pumps, Resolve(p) PROVE IndInv'
  <2>1. \A q \in Pumps, f \in Entries : ClaimedBy(q, f)' => ClaimedBy(q, f)
    BY <1>0, <1>6 DEF Resolve, durable, history, ClaimedBy, VolatileOK, NoPump
  <2>2. \A f \in Entries : turn[f] # "none" => turn'[f] # "none"
    BY <1>0, <1>6 DEF Resolve, durable, history, DurableOK
  <2> QED
    BY <1>6, <2>1, <2>2, Frame DEF Resolve, durable, history
<1>7. CASE FinishRefused
  <2>1. \A q \in Pumps, f \in Entries : ClaimedBy(q, f)' => ClaimedBy(q, f)
    BY <1>0, <1>7 DEF FinishRefused, durable, history, ClaimedBy, VolatileOK, NoPump
  <2>2. \A f \in Entries : turn[f] # "none" => turn'[f] # "none"
    BY <1>0, <1>7 DEF FinishRefused, durable, history, DurableOK
  <2> QED
    BY <1>7, <2>1, <2>2, Frame DEF FinishRefused, durable, history
<1>8. CASE OtherTurn
  <2>1. \A q \in Pumps, f \in Entries : ClaimedBy(q, f)' => ClaimedBy(q, f)
    BY <1>0, <1>8 DEF OtherTurn, volatile, history, ClaimedBy, VolatileOK, NoPump
  <2>2. \A f \in Entries : turn[f] # "none" => turn'[f] # "none"
    BY <1>0, <1>8 DEF OtherTurn, volatile, history, DurableOK
  <2> QED
    BY <1>8, <2>1, <2>2, Frame DEF OtherTurn, volatile, history
<1>9. ASSUME NEW e \in Entries, TurnEnds(e) PROVE IndInv'
  <2>1. \A q \in Pumps, f \in Entries : ClaimedBy(q, f)' => ClaimedBy(q, f)
    BY <1>0, <1>9 DEF TurnEnds, volatile, history, ClaimedBy, VolatileOK, NoPump
  <2>2. \A f \in Entries : turn[f] # "none" => turn'[f] # "none"
    BY <1>0, <1>9 DEF TurnEnds, volatile, history, DurableOK
  <2> QED
    BY <1>9, <2>1, <2>2, Frame DEF TurnEnds, volatile, history
<1>10. CASE Unroute
  <2>1. \A q \in Pumps, f \in Entries : ClaimedBy(q, f)' => ClaimedBy(q, f)
    BY <1>0, <1>10 DEF Unroute, durable, history, ClaimedBy, VolatileOK, NoPump
  <2>2. \A f \in Entries : turn[f] # "none" => turn'[f] # "none"
    BY <1>0, <1>10 DEF Unroute, durable, history, DurableOK
  <2> QED
    BY <1>10, <2>1, <2>2, Frame DEF Unroute, durable, history
<1>11. CASE CloseWorker
  <2>1. \A q \in Pumps, f \in Entries : ClaimedBy(q, f)' => ClaimedBy(q, f)
    BY <1>0, <1>11 DEF CloseWorker, durable, history, ClaimedBy, VolatileOK, NoPump
  <2>2. \A f \in Entries : turn[f] # "none" => turn'[f] # "none"
    BY <1>0, <1>11 DEF CloseWorker, durable, history, DurableOK
  <2> QED
    BY <1>11, <2>1, <2>2, Frame DEF CloseWorker, durable, history
<1>12. ASSUME NEW p \in Pumps, Claim(p) PROVE IndInv'
  BY <1>12, ClaimInd
<1>13. ASSUME NEW p \in Pumps, ClaimRefused(p) PROVE IndInv'
  BY <1>13, ClaimRefusedInd
<1>14. ASSUME NEW p \in Pumps, SendClaim(p) PROVE IndInv'
  BY <1>14, SendClaimInd
<1>15. CASE ProviderAccepts
  BY <1>15, TakeInd DEF ProviderAccepts, durable
<1>16. CASE ProviderErrors
  BY <1>16, TakeInd DEF ProviderErrors, durable
\* An operation that takes the mutex changes nothing else: only OpInv is new.
<1>17. ASSUME NEW e \in Entries, NEW i \in Intents, Enqueue(e, i) PROVE IndInv'
  <2>1. State(e) = "none"
    BY <1>17 DEF Enqueue, IndInv, Custody
  <2>2. OpInv'
    BY <1>17, <2>1 DEF Enqueue, OpInv, State
  <2> QED
    BY <1>17, <2>2, TakeMutex DEF Enqueue, history
<1>18. ASSUME NEW e \in Entries, Finish(e) PROVE IndInv'
  <2>1. State(e) = "Submitting" /\ delivered[e] = 1
    BY <1>18 DEF Finish, IndInv, Custody
  <2>2. OpInv'
    BY <1>18, <2>1 DEF Finish, OpInv, State, durable, history
  <2> QED
    BY <1>18, <2>2, TakeMutex DEF Finish, durable, history
<1>19. ASSUME NEW e \in Entries, RecoverEnqueue(e) PROVE IndInv'
  <2>1. CASE Agrees(e)
    <3>1. OpInv'
      <4>1. /\ op' = [name |-> "recover", entry |-> e,
                      todo |-> IF State(e) = "none" THEN {"entry", "ack"} ELSE {"ack"}]
            /\ e \in admitted /\ entry' = entry /\ admitted' = admitted
        BY <1>19, <2>1 DEF RecoverEnqueue, Unrepaired, durable
      <4>2. QED
        BY <4>1 DEF OpInv, State
    <3> QED
      BY <1>19, <2>1, <3>1, TakeMutex DEF RecoverEnqueue, durable
  <2>2. CASE ~Agrees(e)
    <3>1. \A q \in Pumps, f \in Entries : ClaimedBy(q, f)' => ClaimedBy(q, f)
      BY <1>19, <2>2 DEF RecoverEnqueue, Die, ClaimedBy, NoPump
    <3> QED
      BY <1>19, <2>2, <3>1, Frame DEF RecoverEnqueue, Die, durable
  <2> QED
    BY <2>1, <2>2
<1>20. ASSUME NEW s \in Steps, Write(s) PROVE IndInv'
  <2>1. \A q \in Pumps, f \in Entries : ClaimedBy(q, f)' => ClaimedBy(q, f)
    BY <1>20 DEF Write, ClaimedBy
  <2>2. DeliveredOnce' /\ ReceiptsAreBacked' /\ Custody' /\ OneHand'
    BY <1>20, <2>1, PerformKeeps DEF Write, history
  <2>3. OpInv'
    BY <1>20, WriteOp
  <2> QED
    BY <2>2, <2>3 DEF IndInv
<1>21. ASSUME NEW s \in Steps, WriteFails(s) PROVE IndInv'
  <2>1. /\ op' = Idle /\ delivered' = delivered
        /\ call' \subseteq call /\ channel' \in {channel, <<>>}
    BY <1>21 DEF WriteFails, Die
  <2>2. \A q \in Pumps, f \in Entries : ClaimedBy(q, f)' => ClaimedBy(q, f)
    BY <1>21 DEF WriteFails, Die, ClaimedBy, NoPump
  <2>3. CASE UNCHANGED durable
    BY <2>1, <2>2, <2>3, Frame DEF durable
  <2>4. CASE Perform(s)
    <3>1. DeliveredOnce' /\ ReceiptsAreBacked' /\ Custody' /\ OneHand'
      BY <1>21, <2>1, <2>2, <2>4, PerformKeeps DEF WriteFails
    <3> QED
      BY <2>1, <3>1 DEF IndInv, OpInv
  <2> QED
    BY <1>21, <2>3, <2>4 DEF WriteFails
<1> QED
  BY <1>1, <1>2, <1>3, <1>4, <1>5, <1>6, <1>7, <1>8, <1>9, <1>10, <1>11, <1>12, <1>13,
     <1>14, <1>15, <1>16, <1>17, <1>18, <1>19, <1>20, <1>21
  DEF Next, BrokerStep, WorkerStep, StartupStep, Environment, PumpStep

\* Steps that leave the state as it is preserve the invariant.
LEMMA StutterInd == ASSUME IndInv, UNCHANGED vars PROVE IndInv'
<1>1. TypeOK'
  BY DEF vars, durable, volatile, history, IndInv, TypeOK
<1>2. \A q \in Pumps, f \in Entries : ClaimedBy(q, f)' => ClaimedBy(q, f)
  BY DEF vars, volatile, ClaimedBy
<1> QED
  BY <1>1, <1>2, Frame DEF vars, durable, volatile, history

\* The inductive invariant holds of every reachable state: a durable claim is
\* in one hand only, and leaves it once.
THEOREM Inductive == Spec => []IndInv
<1>1. IndInv /\ [Next]_vars => IndInv'
  BY StepInd, StutterInd
<1> QED
  BY InitInd, <1>1, PTL DEF Spec

\* Every reachable state is well typed.
THEOREM TypeCorrect == Spec => []TypeOK
<1>1. IndInv => TypeOK
  BY DEF IndInv
<1> QED
  BY <1>1, Inductive, PTL

\* claim_queue_delivery's promise: a queued input reaches the provider at most
\* once, for any number of pump threads, entries, crashes and failed writes.
THEOREM QueueAtMostOnce == Spec => []DeliveredOnce
<1>1. IndInv => DeliveredOnce
  BY DEF IndInv
<1> QED
  BY <1>1, Inductive, PTL

\* finish_queue_delivery's promise: a recorded receipt has its turn in the log
\* and was really sent.
THEOREM QueueReceipts == Spec => []ReceiptsAreBacked
<1>1. IndInv => ReceiptsAreBacked
  BY DEF IndInv
<1> QED
  BY <1>1, Inductive, PTL

=============================================================================
