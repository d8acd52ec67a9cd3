--------------------------- MODULE PushAddresses ---------------------------
(***************************************************************************)
(* How a phone's push address gets to the remote service.                  *)
(*                                                                         *)
(* Firebase tells the application which installation id (FID) the phone    *)
(* has.  PushRegistrationLedger keeps the current FID and the FIDs whose   *)
(* deletion is still owed, in an encrypted vault.  A WorkManager worker    *)
(* (PushRecoveryWorker) reads the vault and hands the state to the         *)
(* repository's serial lane, where PushAddressSynchronizer calls the Rust  *)
(* core: delete, replace, flush.  The core (remote_push.rs) writes each    *)
(* operation into a one-entry outbox in its own vault before it sends it,  *)
(* and clears the entry when the service has acknowledged it.  The service *)
(* remembers operation ids, stores one address per device slot, and        *)
(* deletes the address of a slot when Firebase reports it unregistered.    *)
(***************************************************************************)
EXTENDS Naturals, Sequences, FiniteSets

CONSTANTS
    Fids,           \* installation ids, model values
    MaxTombstones,  \* MAX_DELETION_TOMBSTONES
    MaxChanges,     \* bound: callbacks of Firebase about the FID
    MaxWakes,       \* bound: wake messages delivered
    MaxSlots,       \* bound: times the user configures the remote path
    FaultKinds,     \* the faults that may happen
    MaxFaults       \* bound: their number

None == "none"
Slots == 1 .. MaxSlots
NoOp == [kind |-> None, fid |-> None, id |-> 0, slot |-> 0]
NoState == [fid |-> None, tombs |-> {}]
Unconfigured == [slot |-> 0, pend |-> NoOp]
IdleJob == [pc |-> "idle", state |-> NoState, id |-> 0, cancelled |-> FALSE,
            acks |-> {}, complete |-> FALSE]
NoCall == [pc |-> "idle", state |-> NoState, id |-> 0, deleted |-> FALSE, op |-> NoOp]

VARIABLES
    fcm,      \* the FID Firebase last gave the phone
    ledger,   \* the push vault: current FID and deletion tombstones
    work,     \* TRUE: the unique work request is enqueued
    job,      \* the worker that runs
    old,      \* a replaced worker that has not reached a suspension point yet
    lane,     \* synchronisations waiting in the repository's lane
    call,     \* the synchronisation the lane executes
    mem,      \* the core's paired host: configured slot and outbox entry
    disk,     \* the same in the credential vault
    wire,     \* requests sent and not yet handled by the service
    answer,   \* the service's answer to the request the core waits for
    service,  \* slot -> the address the service keeps
    done,     \* operation ids the service has seen
    closed,   \* those it has carried out, and all of a slot no longer configured
    hit,      \* addresses Firebase has reported unregistered to the service, not yet deleted
    ops,      \* operation ids issued
    owed,     \* TRUE: a wake was accepted and no recovery has been requested since
    runs,     \* workers started
    count     \* numbers of changes, wakes and faults

vars == <<fcm, ledger, work, job, old, lane, call, mem, disk, wire, answer,
          service, done, closed, hit, ops, owed, runs, count>>

phone == <<fcm, ledger, work, job, old, lane, owed, runs>>
core == <<call, mem, disk, ops>>
remote == <<wire, answer, service, done, closed, hit>>

Fault(kind) ==
    /\ kind \in FaultKinds /\ count.faults < MaxFaults
    /\ count' = [count EXCEPT !.faults = @ + 1]

(***************************************************************************)
(* PushRegistrationLedger                                                  *)
(***************************************************************************)

Registered(state, fid) ==
    [fid |-> fid, tombs |-> (state.tombs \cup ({state.fid} \ {None})) \ {fid}]

Unregistered(state, fid) ==
    IF state.fid # fid THEN state
    ELSE [fid |-> None, tombs |-> state.tombs \cup {fid}]

DeletionAcknowledged(state, fid) == [state EXCEPT !.tombs = @ \ {fid}]

\* The ledger throws rather than exceed its limit, and nothing is recorded.
Fits(state) == Cardinality(state.tombs) <= MaxTombstones

(***************************************************************************)
(* PushRecoveryScheduler                                                   *)
(***************************************************************************)

\* ExistingWorkPolicy.REPLACE cancels the worker that runs; the cancellation
\* takes effect where the worker suspends.
ScheduleStateChange ==
    /\ work' = TRUE
    /\ job' = [job EXCEPT !.cancelled = (job.pc # "idle")]

\* ExistingWorkPolicy.KEEP does nothing while the work is enqueued or runs.
ScheduleWake == work' = (work \/ job.pc = "idle")

(***************************************************************************)
(* KaleidoFirebaseMessagingService                                         *)
(***************************************************************************)

Changes ==
    /\ count.changes < MaxChanges
    /\ count' = [count EXCEPT !.changes = @ + 1]

OnRegistered(fid) ==
    LET new == Registered(ledger, fid) IN
    /\ Changes /\ fcm' = fid
    /\ \/ Fits(new) /\ ledger' = new /\ ScheduleStateChange
       \/ ~Fits(new) /\ UNCHANGED <<ledger, work, job>>
    /\ UNCHANGED <<old, lane, runs, owed, core, remote>>

\* Firebase may report the FID the phone has, or late one it had before.
OnUnregistered(fid) ==
    LET new == Unregistered(ledger, fid) IN
    /\ Changes /\ fcm' = IF fcm = fid THEN None ELSE fcm
    /\ \/ Fits(new) /\ ledger' = new /\ ScheduleStateChange
       \/ ~Fits(new) /\ UNCHANGED <<ledger, work, job>>
    /\ UNCHANGED <<old, lane, runs, owed, core, remote>>

\* onMessageReceived with an accepted payload, and onDeletedMessages.
OnWake ==
    /\ count.wakes < MaxWakes /\ count' = [count EXCEPT !.wakes = @ + 1]
    /\ ScheduleWake /\ owed' = TRUE
    /\ UNCHANGED <<fcm, ledger, job, old, lane, runs, core, remote>>

(***************************************************************************)
(* PushRecoveryWorker.doWork                                               *)
(***************************************************************************)

\* WorkManager starts the enqueued request.  A replaced worker has reached its
\* suspension point by then, unless its thread is slow (fault "overlap").
StartJob ==
    /\ work /\ work' = FALSE
    /\ \/ job.pc = "idle" /\ UNCHANGED <<old, count>>
       \/ /\ job.pc # "idle" /\ job.cancelled /\ old.pc = "idle"
          /\ Fault("overlap") /\ old' = job
    /\ runs' = runs + 1 /\ job' = [IdleJob EXCEPT !.pc = "refresh", !.id = runs']
    /\ UNCHANGED <<fcm, ledger, lane, owed, core, remote>>

\* The state of worker `j` after its next step, `r` the record.
Sets(j, r) == IF j = "job" THEN job' = r /\ UNCHANGED old ELSE old' = r /\ UNCHANGED job

Worker(j) == IF j = "job" THEN job ELSE old

\* refreshCurrent registers the current FID again and stores the ledger; a
\* failing vault ends the worker with a retry.
Refresh(j) ==
    LET w == Worker(j) IN
    /\ w.pc = "refresh"
    /\ \/ /\ ledger' = IF ledger.fid = None THEN ledger ELSE Registered(ledger, ledger.fid)
          /\ Sets(j, [w EXCEPT !.pc = "launch", !.state = ledger'])
          /\ UNCHANGED count
       \/ /\ Fault("vault") /\ UNCHANGED ledger
          /\ Sets(j, [w EXCEPT !.pc = "result", !.complete = FALSE])
    /\ UNCHANGED <<fcm, work, lane, runs, owed, core, remote>>

\* synchronizePushAddress launches the synchronisation on the lane and awaits it.
Launch(j) ==
    LET w == Worker(j) IN
    /\ w.pc = "launch"
    /\ lane' = Append(lane, [id |-> w.id, state |-> w.state])
    /\ Sets(j, [w EXCEPT !.pc = "await"])
    /\ UNCHANGED <<fcm, ledger, work, runs, owed, core, remote, count>>

\* The cancelled worker stops where it awaits; its synchronisation goes on.
CancelTakesEffect(j) ==
    /\ Worker(j).pc = "await" /\ Worker(j).cancelled
    /\ Sets(j, IdleJob)
    /\ UNCHANGED <<fcm, ledger, work, lane, runs, owed, core, remote, count>>

\* acknowledgeDeletion of one tombstone of the state the worker read.
Acknowledge(j) ==
    LET w == Worker(j) IN
    /\ w.pc = "acks" /\ w.acks # {}
    /\ \E fid \in w.acks :
        /\ ledger' = DeletionAcknowledged(ledger, fid)
        /\ Sets(j, [w EXCEPT !.acks = @ \ {fid}])
    /\ UNCHANGED <<fcm, work, lane, runs, owed, core, remote, count>>

\* recoverFromPush requests the recovery of the connection.
Recover(j) ==
    LET w == Worker(j) IN
    /\ w.pc = "acks" /\ w.acks = {}
    /\ Sets(j, [w EXCEPT !.pc = "result"])
    /\ owed' = FALSE
    /\ UNCHANGED <<fcm, ledger, work, lane, runs, core, remote, count>>

\* Result.retry enqueues the same work again; the result of a replaced worker
\* is ignored.
Retries(w) == ~w.complete /\ ~w.cancelled

Finish(j) ==
    LET w == Worker(j) IN
    /\ w.pc = "result"
    /\ Sets(j, IdleJob)
    /\ work' = (work \/ Retries(w))
    /\ UNCHANGED <<fcm, ledger, lane, runs, owed, core, remote, count>>

(***************************************************************************)
(* PushAddressSynchronizer.synchronize, on the repository's lane           *)
(***************************************************************************)

\* completion.complete: the worker that awaits this synchronisation goes on.
Answered(outcome) ==
    LET resumed(w) == IF w.pc = "await" /\ w.id = call.id /\ ~w.cancelled
                      THEN [w EXCEPT !.pc = "acks", !.complete = outcome.complete,
                                     !.acks = IF outcome.deleted THEN w.state.tombs ELSE {}]
                      ELSE w
    IN job' = resumed(job) /\ old' = resumed(old)

\* The synchronisation returns its outcome.
Returns(complete) ==
    /\ Answered([deleted |-> call.deleted, complete |-> complete])
    /\ call' = NoCall

\* synchronizePushAddressNow: without a configured service there is nothing to
\* do for now (Deferred).
BeginSync ==
    LET task == Head(lane) IN
    /\ call.pc = "idle" /\ lane # << >> /\ lane' = Tail(lane)
    /\ call' = [NoCall EXCEPT !.id = task.id, !.state = task.state,
                    !.pc = IF mem.slot = 0 THEN "deferred"
                           ELSE IF task.state.tombs # {} THEN "delete"
                           ELSE IF task.state.fid # None THEN "replace" ELSE "flush"]
    /\ UNCHANGED <<fcm, ledger, work, job, old, runs, owed, mem, disk, ops, remote, count>>

Defer ==
    /\ call.pc = "deferred" /\ Returns(TRUE)
    /\ UNCHANGED <<fcm, ledger, work, lane, runs, owed, mem, disk, ops, remote, count>>

\* persist_pending: the vault first, then the memory.
PersistPending(op) ==
    /\ ops' = op.id
    /\ disk' = [mem EXCEPT !.pend = op]
    /\ mem' = disk'

NewOp(kind, fid) == [kind |-> kind, fid |-> fid, id |-> ops + 1, slot |-> mem.slot]

\* queue_delete or queue_replace; a failing vault fails the call.
Queue ==
    /\ call.pc \in {"delete", "replace"}
    /\ \/ /\ PersistPending(IF call.pc = "delete" THEN NewOp("delete", None)
                            ELSE NewOp("replace", call.state.fid))
          /\ call' = [call EXCEPT !.pc = IF @ = "delete" THEN "delete_flush" ELSE "replace_flush"]
          /\ UNCHANGED <<job, old, count>>
       \/ Fault("store") /\ Returns(FALSE) /\ UNCHANGED <<mem, disk, ops>>
    /\ UNCHANGED <<fcm, ledger, work, lane, runs, owed, remote>>

\* What follows a core call that succeeded.
Proceeds ==
    CASE call.pc = "delete_wait" ->
            /\ call' = [call EXCEPT !.pc = IF call.state.fid # None THEN "replace" ELSE "flush",
                                    !.deleted = TRUE, !.op = NoOp]
            /\ UNCHANGED <<job, old>>
      [] call.pc = "replace_wait" ->
            call' = [call EXCEPT !.pc = "flush", !.op = NoOp] /\ UNCHANGED <<job, old>>
      [] OTHER -> Returns(TRUE)

\* flush: nothing is pending, or the request goes out, or the service cannot be
\* reached.
Flush ==
    /\ call.pc \in {"delete_flush", "replace_flush", "flush"}
    /\ \/ /\ mem.pend = NoOp
          /\ Returns(TRUE) /\ UNCHANGED <<wire, answer, count>>
       \/ /\ mem.pend # NoOp
          /\ call' = [call EXCEPT !.op = mem.pend,
                        !.pc = CASE @ = "delete_flush" -> "delete_wait"
                                 [] @ = "replace_flush" -> "replace_wait"
                                 [] OTHER -> "flush_wait"]
          /\ wire' = wire \cup {mem.pend} /\ answer' = None
          /\ UNCHANGED <<job, old, count>>
       \/ /\ mem.pend # NoOp /\ Fault("down")
          /\ Returns(FALSE) /\ UNCHANGED <<wire, answer>>
    /\ UNCHANGED <<fcm, ledger, work, lane, runs, owed, mem, disk, ops, service, done, closed, hit>>

Waiting == call.pc \in {"delete_wait", "replace_wait", "flush_wait"}

RotateOperation == [mem.pend EXCEPT !.id = ops + 1]

\* Mutant: a refused operation leaves the outbox as if it had been done.
ClearsRefused ==
    /\ mem' = [mem EXCEPT !.pend = NoOp] /\ disk' = mem' /\ UNCHANGED ops

\* A replayed operation id is replaced by a new one; any other refusal leaves
\* the entry as it is.
AfterRefusal ==
    IF answer = "replay" THEN PersistPending(RotateOperation)
    ELSE UNCHANGED <<mem, disk, ops>>

\* The core reads the answer.  The entry is cleared in the vault, then in the
\* memory, and a vault that fails leaves both.
ReadAnswer ==
    /\ Waiting /\ answer # None /\ answer' = None
    /\ \/ /\ answer = "ok"
          /\ disk' = [mem EXCEPT !.pend = NoOp] /\ mem' = disk' /\ UNCHANGED ops
          /\ Proceeds /\ UNCHANGED count
       \/ /\ answer = "ok" /\ Fault("store")
          /\ UNCHANGED <<mem, disk, ops>> /\ Returns(FALSE)
       \/ /\ answer # "ok" /\ AfterRefusal /\ Returns(FALSE) /\ UNCHANGED count
    /\ UNCHANGED <<fcm, ledger, work, lane, runs, owed, wire, service, done, closed, hit>>

\* IO_TIMEOUT ends the wait: the answer was lost, or the request was, or the
\* request is still on its way and the service will handle it later.
TimesOut ==
    /\ Waiting /\ answer' = None
    /\ \/ answer # None /\ Fault("lost") /\ UNCHANGED wire
       \/ answer = None /\ Fault("lost") /\ wire' = wire \ {call.op}
       \/ answer = None /\ Fault("late") /\ UNCHANGED wire
    /\ Returns(FALSE)
    /\ UNCHANGED <<fcm, ledger, work, lane, runs, owed, mem, disk, ops, service, done, closed, hit>>

(***************************************************************************)
(* The user configures the remote path; the application's process          *)
(***************************************************************************)

\* configure_remote, on the same lane: a new slot and an empty outbox; when the
\* vault fails the memory forgets the remote path.
ConfigureRemote ==
    /\ call.pc = "idle" /\ disk.slot < MaxSlots
    /\ \/ /\ mem' = [slot |-> disk.slot + 1, pend |-> NoOp] /\ disk' = mem'
          /\ ScheduleStateChange /\ UNCHANGED count
       \/ Fault("store") /\ mem' = Unconfigured /\ UNCHANGED <<disk, work, job>>
    /\ closed' = IF mem'.slot = 0 THEN closed ELSE 1 .. ops
    /\ UNCHANGED <<fcm, ledger, old, lane, runs, owed, call, ops, wire, answer, service, done, hit>>

\* The process ends at any point; the next one starts from the two vaults and
\* enqueues the work (MobileRuntime.start).  A request it had sent is handled
\* before, never, or (fault "late") at some later time.
ProcessRestarts ==
    /\ Fault("killed")
    /\ job' = IdleJob /\ old' = IdleJob /\ lane' = << >> /\ call' = NoCall
    /\ mem' = disk /\ answer' = None /\ work' = TRUE
    /\ wire' = IF "late" \in FaultKinds THEN wire ELSE {}
    /\ UNCHANGED <<fcm, ledger, runs, owed, disk, ops, service, done, closed, hit>>

(***************************************************************************)
(* The service                                                             *)
(***************************************************************************)

Apply(op) ==
    service' = [service EXCEPT ![op.slot] = IF op.kind = "replace" THEN op.fid ELSE None]

ServiceKnows(op) == op.id \in done

ServiceHandles(op) ==
    LET told(a) == answer' = IF Waiting /\ call.op = op THEN a ELSE answer IN
    /\ op \in wire /\ wire' = wire \ {op} /\ done' = done \cup {op.id}
    /\ \/ ServiceKnows(op) /\ told("replay") /\ UNCHANGED <<service, closed, count>>
       \/ /\ ~ServiceKnows(op) /\ Apply(op) /\ told("ok")
          /\ closed' = closed \cup {op.id} /\ UNCHANGED count
       \/ /\ ~ServiceKnows(op) /\ Fault("refused") /\ told("refused")
          /\ UNCHANGED <<service, closed>>
    /\ UNCHANGED <<phone, core, hit>>

\* Firebase answers a wake for the stored address with UNREGISTERED.
FirebaseRefuses(s) ==
    /\ service[s] \notin {None, fcm} /\ hit = 0 /\ Fault("unregistered")
    /\ hit' = s
    /\ UNCHANGED <<phone, core, wire, answer, service, done, closed>>

\* delete_unregistered_push deletes the slot's address, whichever it is by then.
DeleteUnregistered ==
    /\ hit # 0 /\ hit' = 0
    /\ service' = [service EXCEPT ![hit] = None]
    /\ UNCHANGED <<phone, core, wire, answer, done, closed, count>>

(***************************************************************************)
(* The specification                                                       *)
(***************************************************************************)

Init ==
    /\ fcm = None /\ ledger = NoState
    /\ work = TRUE /\ job = IdleJob /\ old = IdleJob
    /\ lane = << >> /\ call = NoCall
    /\ mem = Unconfigured /\ disk = Unconfigured
    /\ wire = {} /\ answer = None
    /\ service = [s \in Slots |-> None] /\ done = {} /\ closed = {} /\ hit = 0
    /\ ops = 0 /\ owed = FALSE /\ runs = 0
    /\ count = [changes |-> 0, wakes |-> 0, faults |-> 0]

WorkerStep(j) ==
    \/ Refresh(j) \/ Launch(j) \/ CancelTakesEffect(j)
    \/ Acknowledge(j) \/ Recover(j) \/ Finish(j)

LaneStep == BeginSync \/ Defer \/ Queue \/ Flush \/ ReadAnswer

ServiceStep == \/ \E op \in wire : ServiceHandles(op)
               \/ DeleteUnregistered

Next ==
    \/ \E fid \in Fids : OnRegistered(fid) \/ OnUnregistered(fid)
    \/ OnWake \/ StartJob
    \/ \E j \in {"job", "old"} : WorkerStep(j)
    \/ LaneStep \/ TimesOut
    \/ ConfigureRemote \/ ProcessRestarts
    \/ ServiceStep \/ \E s \in Slots : FirebaseRefuses(s)

Spec == Init /\ [][Next]_vars

\* WorkManager starts what is enqueued, the worker, the lane and the service
\* take their steps; nothing is assumed of Firebase or of the user.
FairSpec ==
    /\ Spec
    /\ WF_vars(StartJob) /\ WF_vars(LaneStep) /\ WF_vars(ServiceStep)
    /\ \A j \in {"job", "old"} : WF_vars(WorkerStep(j))

(***************************************************************************)
(* Properties                                                              *)
(***************************************************************************)

Ops == [kind : {"delete", "replace"}, fid : Fids \cup {None}, id : 1 .. ops, slot : Slots]

\* Every variable has its type, and the vault never holds what loadLocked would
\* refuse as corrupt: a current FID with a tombstone, or too many tombstones.
TypeOK ==
    /\ fcm \in Fids \cup {None} /\ work \in BOOLEAN /\ owed \in BOOLEAN
    /\ ledger.fid \in (Fids \cup {None}) \ ledger.tombs
    /\ ledger.tombs \subseteq Fids /\ Fits(ledger)
    /\ {mem.pend, disk.pend} \ {NoOp} \subseteq Ops /\ wire \subseteq Ops
    /\ \A s \in Slots : service[s] \in Fids \cup {None}
    /\ answer \in {None, "ok", "replay", "refused"}
    /\ done \subseteq 1 .. ops

\* Nothing is left to do anywhere between the phone's vault and the service.
Settled ==
    /\ ~work /\ job.pc = "idle" /\ old.pc = "idle" /\ lane = << >> /\ call.pc = "idle"
    /\ wire = {} /\ hit = 0 /\ mem.slot # 0

\* When nothing is left to do the service has exactly the address the phone's
\* ledger calls current, or none when there is none: the rotation of a FID, its
\* deletion, every failure on the way and every restart end in the same place.
SettledIsCurrent == Settled => service[mem.slot] = ledger.fid

\* A deletion stays owed until the service no longer has the address, or the FID
\* is the phone's again.
TombstoneKept ==
    [][\A fid \in ledger.tombs \ ledger'.tombs :
           ledger'.fid = fid \/ mem.slot = 0 \/ service[mem.slot] # fid]_vars

\* An operation the service has not carried out stays in the vault's outbox, in
\* any failure and over any restart: the newest one is there until it is done.
UnfinishedIsKept == ops \in 1 .. ops \ closed => disk.pend.id = ops

\* The outbox in the memory is the one in the vault.
OutboxIsDurable == mem.slot # 0 => mem = disk

\* The address at the service ends up being the phone's current one.
EventuallyCurrent == <>[](mem.slot # 0 => service[mem.slot] = ledger.fid)

\* An accepted wake is followed by a request to recover the connection: until
\* then a worker that will make it is enqueued or runs.
WakeRecovers ==
    owed => \/ work \/ job.pc \in {"refresh", "launch", "await", "acks"}
            \/ job.pc = "result" /\ Retries(job)
=============================================================================
