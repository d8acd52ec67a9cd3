---------------------------- MODULE ContentStore ----------------------------
(***************************************************************************)
(* The body directory of kaleido-state (content.rs): bodies named by their *)
(* digest, the journal of device uploads, its rewrite, and the cleanup at  *)
(* start-up.  Three kinds of actors touch the same directory:              *)
(*   - the broker, one call at a time under its lock (uploads of devices,  *)
(*     command admission, start-up);                                       *)
(*   - adapter threads, which hold a clone of the store and install bodies *)
(*     without the broker's lock;                                          *)
(*   - the process itself, which may die between any two file operations.  *)
(* A body is a model value standing for its digest; a file is what its     *)
(* reader makes of it.  Times are ticks; an upload lives Ttl ticks.        *)
(***************************************************************************)
EXTENDS Integers, Sequences, FiniteSets, FiniteSetsExt

CONSTANTS Devices, Bodies, Adapters,
          ByteLen,        \* the length of each body
          Quota, Ttl,     \* DEVICE_CONTENT_QUOTA_BYTES, DEVICE_CONTENT_TTL_MS
          CommandKinds,   \* subset of {"prompt", "enqueue", "answer"}
          MaxNow, MaxPending, MaxUploads, FaultKinds, MaxFaults

VARIABLES
    disk,      \* the directory: bodies, temporary files, journal, ready files
    owned,     \* ContentStore.ownership in memory: expiry, 0 for none
    broker,    \* the call the broker is in, and its step
    adapter,   \* what each adapter thread is doing in store()
    canon,     \* bodies canonical state refers to
    outbox,    \* device commands admitted and not completed
    acked,     \* history: expiry of the last Stored reply of each upload
    uploads,   \* number of uploads begun, bounded by MaxUploads
    now, faults

vars == <<disk, owned, broker, adapter, canon, outbox, acked, uploads, now, faults>>

None == "none"
Owners == Devices \X Bodies
Line(d, b, e) == [dev |-> d, body |-> b, exp |-> e]
Torn == [dev |-> None, body |-> None, exp |-> 0]
Pcs == {"down", "refused", "idle", "rewrite", "swap", "swapAgain", "list",
        "sweep", "check", "append", "prune"}

TypeOK ==
    /\ disk.bodies \subseteq Bodies /\ disk.temps \subseteq Adapters
    /\ \A i \in 1 .. Len(disk.lines) :
          disk.lines[i] = Torn \/ disk.lines[i].dev \in Devices
    /\ owned \in [Owners -> 0 .. (MaxNow + Ttl)]
    /\ broker.pc \in Pcs /\ broker.then \in {"write", "load"}
    /\ \A a \in Adapters : adapter[a].pc \in {"idle", "link", "unlink", "stored", "failed"}
    /\ canon \subseteq Bodies
    /\ outbox \subseteq [kind : CommandKinds, body : Bodies]

Idle == [pc |-> "idle", then |-> "write", dev |-> None, body |-> None,
         fits |-> TRUE, at |-> 0, todo |-> {}]
NoJob == [pc |-> "idle", body |-> None]
Nothing == [o \in Owners |-> 0]

Init ==
    /\ disk = [bodies |-> {}, temps |-> {}, exists |-> FALSE,
               lines |-> <<>>, ready |-> <<>>]
    /\ owned = Nothing /\ acked = Nothing
    /\ broker = Idle
    /\ adapter = [a \in Adapters |-> NoJob]
    /\ canon = {} /\ outbox = {} /\ uploads = 0 /\ now = 0 /\ faults = 0

Fault(kind) == kind \in FaultKinds /\ faults < MaxFaults /\ faults' = faults + 1
Up == broker.pc \notin {"down", "refused"}

(***************************************************************************)
(* The journal of uploads.                                                 *)
(***************************************************************************)
\* A record appended behind half a line becomes part of that line.
AppendLine(lines, line) ==
    IF lines # <<>> /\ lines[Len(lines)] = Torn THEN lines ELSE Append(lines, line)

\* read_ownership: the last line of an owner counts.
ReadOwnership(lines) ==
    [o \in Owners |->
       LET mine == {i \in 1 .. Len(lines) : <<lines[i].dev, lines[i].body>> = o}
       IN  IF mine = {} THEN 0 ELSE lines[Max(mine)].exp]

Malformed(lines) == \E i \in 1 .. Len(lines) : lines[i] = Torn

\* retain(expires_at_ms > now_ms)
Retain(mem, at) == [o \in Owners |-> IF mem[o] > at THEN mem[o] ELSE 0]

\* The lines rewrite_ownership writes, in some fixed order of the owners.
RECURSIVE LinesOf(_, _)
LinesOf(mem, left) ==
    IF left = {} THEN <<>>
    ELSE LET o == CHOOSE x \in left : TRUE
         IN  <<Line(o[1], o[2], mem[o])>> \o LinesOf(mem, left \ {o})
Rewritten(mem) == LinesOf(mem, {o \in Owners : mem[o] > 0})

\* recover_ownership_rewrite: the newest ready file replaces a missing journal.
RecoverRewrite(d) ==
    IF ~d.exists /\ d.ready # <<>>
    THEN [d EXCEPT !.exists = TRUE, !.lines = d.ready[Len(d.ready)], !.ready = <<>>]
    ELSE [d EXCEPT !.ready = <<>>]

(***************************************************************************)
(* Cleanup of expired uploads, shared by an upload and by start-up.        *)
(***************************************************************************)
\* cleanup_expired_ownership up to the first file operation.
StartCleanup(call, mem, at) ==
    LET kept == Retain(mem, at) IN
    /\ owned' = kept
    /\ broker' = [call EXCEPT !.pc = IF kept # mem THEN "rewrite" ELSE "list", !.at = at]

\* An error ends the call: an upload's connection, or the start of the host.
Fails == broker' = IF broker.then = "load" THEN [Idle EXCEPT !.pc = "down"] ELSE Idle

\* rewrite_ownership: temporary file written, synced and renamed to .ready.
RewriteReady ==
    /\ broker.pc = "rewrite"
    /\ \/ /\ disk' = [disk EXCEPT !.ready = Append(@, Rewritten(owned))]
          /\ broker' = [broker EXCEPT !.pc = "swap"]
          /\ UNCHANGED faults
       \/ Fault("write") /\ Fails /\ UNCHANGED disk
    /\ UNCHANGED <<owned, adapter, canon, outbox, acked, now, uploads>>

InstallReady(d) ==
    [d EXCEPT !.exists = TRUE, !.lines = d.ready[Len(d.ready)],
              !.ready = SubSeq(d.ready, 1, Len(d.ready) - 1)]

\* The ready file is renamed over the journal; where that fails the journal
\* is removed first.
SwapJournal ==
    /\ broker.pc = "swap"
    /\ \/ /\ disk' = InstallReady(disk)
          /\ broker' = [broker EXCEPT !.pc = "list"]
          /\ UNCHANGED faults
       \/ /\ Fault("rename")
          /\ IF disk.exists
             THEN /\ disk' = [disk EXCEPT !.exists = FALSE, !.lines = <<>>]
                  /\ broker' = [broker EXCEPT !.pc = "swapAgain"]
             ELSE Fails /\ UNCHANGED disk
    /\ UNCHANGED <<owned, adapter, canon, outbox, acked, now, uploads>>

SwapAgain ==
    /\ broker.pc = "swapAgain"
    /\ \/ /\ disk' = InstallReady(disk)
          /\ broker' = [broker EXCEPT !.pc = "list"]
          /\ UNCHANGED faults
       \/ Fault("rename") /\ Fails /\ UNCHANGED disk
    /\ UNCHANGED <<owned, adapter, canon, outbox, acked, now, uploads>>

\* cleanup_temporary_files lists the directory, then removes what it listed.
ListTemporaries ==
    /\ broker.pc = "list"
    /\ broker' = [broker EXCEPT !.pc = "sweep", !.todo = disk.temps]
    /\ UNCHANGED <<disk, owned, adapter, canon, outbox, acked, now, faults, uploads>>

\* A listed file that is already gone makes remove_file fail.
SweepTemporary ==
    /\ broker.pc = "sweep"
    /\ IF broker.todo = {}
       THEN /\ broker' = [broker EXCEPT !.pc =
                            IF broker.then = "load" THEN "prune" ELSE "check"]
            /\ UNCHANGED disk
       ELSE \E t \in broker.todo :
               IF t \in disk.temps
               THEN /\ disk' = [disk EXCEPT !.temps = @ \ {t}]
                    /\ broker' = [broker EXCEPT !.todo = @ \ {t}]
               ELSE Fails /\ UNCHANGED disk
    /\ UNCHANGED <<owned, adapter, canon, outbox, acked, now, faults, uploads>>

(***************************************************************************)
(* An upload of a device.                                                  *)
(***************************************************************************)
\* write_for_device; fits says whether length and digest match the header.
BeginUpload(d, b, fits) ==
    /\ broker.pc = "idle"
    /\ uploads < MaxUploads /\ uploads' = uploads + 1
    /\ StartCleanup([Idle EXCEPT !.dev = d, !.body = b, !.fits = fits], owned, now)
    /\ UNCHANGED <<disk, adapter, canon, outbox, acked, now, faults>>

UsedBytes(d, at) ==
    MapThenSumSet(LAMBDA b : ByteLen[b], {b \in Bodies : owned[<<d, b>>] > at})

\* A body the device already owns is not counted twice.
WithinQuota(d, b, at) == owned[<<d, b>>] > at \/ UsedBytes(d, at) + ByteLen[b] <= Quota

\* Refused, or the body is installed (or found) and the journal is next.
CheckUpload ==
    /\ broker.pc = "check"
    /\ IF broker.fits /\ WithinQuota(broker.dev, broker.body, broker.at)
       THEN /\ disk' = [disk EXCEPT !.bodies = @ \cup {broker.body}]
            /\ broker' = [broker EXCEPT !.pc = "append"]
       ELSE broker' = Idle /\ UNCHANGED disk
    /\ UNCHANGED <<owned, adapter, canon, outbox, acked, now, faults, uploads>>

\* now_ms + DEVICE_CONTENT_TTL_MS
ExpiresAt(at) == at + Ttl

\* append_ownership, then the record in memory, then the Stored reply.
AppendUpload ==
    LET o == <<broker.dev, broker.body>>
        line == Line(broker.dev, broker.body, ExpiresAt(broker.at))
    IN
    /\ broker.pc = "append"
    /\ broker' = Idle
    /\ \/ /\ disk' = [disk EXCEPT !.exists = TRUE, !.lines = AppendLine(@, line)]
          /\ owned' = [owned EXCEPT ![o] = line.exp]
          /\ acked' = [acked EXCEPT ![o] = line.exp]
          /\ UNCHANGED faults
       \/ /\ Fault("torn")
          /\ disk' = [disk EXCEPT !.exists = TRUE, !.lines = AppendLine(@, Torn)]
          /\ UNCHANGED <<owned, acked>>
       \/ /\ Fault("sync")
          /\ disk' = [disk EXCEPT !.exists = TRUE, !.lines = AppendLine(@, line)]
          /\ UNCHANGED <<owned, acked>>
    /\ UNCHANGED <<adapter, canon, outbox, now, uploads>>

(***************************************************************************)
(* Adapter threads: StoreContentAccess::store on a clone of the store.     *)
(***************************************************************************)
AdapterStore(a, b) ==
    /\ Up /\ broker.then = "write" /\ adapter[a].pc = "idle"
    /\ IF b \in disk.bodies
       THEN /\ adapter' = [adapter EXCEPT ![a] = [pc |-> "stored", body |-> b]]
            /\ UNCHANGED disk
       ELSE /\ adapter' = [adapter EXCEPT ![a] = [pc |-> "link", body |-> b]]
            /\ disk' = [disk EXCEPT !.temps = @ \cup {a}]
    /\ UNCHANGED <<owned, broker, canon, outbox, acked, now, faults, uploads>>

\* hard_link of the temporary file; a body another thread linked is verified.
AdapterLink(a) ==
    /\ adapter[a].pc = "link"
    /\ IF a \in disk.temps
       THEN /\ disk' = [disk EXCEPT !.bodies = @ \cup {adapter[a].body}]
            /\ adapter' = [adapter EXCEPT ![a].pc = "unlink"]
       ELSE adapter' = [adapter EXCEPT ![a].pc = "failed"] /\ UNCHANGED disk
    /\ UNCHANGED <<owned, broker, canon, outbox, acked, now, faults, uploads>>

AdapterUnlink(a) ==
    /\ adapter[a].pc = "unlink"
    /\ IF a \in disk.temps
       THEN /\ disk' = [disk EXCEPT !.temps = @ \ {a}]
            /\ adapter' = [adapter EXCEPT ![a].pc = "stored"]
       ELSE adapter' = [adapter EXCEPT ![a].pc = "failed"] /\ UNCHANGED disk
    /\ UNCHANGED <<owned, broker, canon, outbox, acked, now, faults, uploads>>

\* The effect that carries the reference is applied under the broker's lock.
AdapterApply(a) ==
    /\ adapter[a].pc = "stored" /\ broker.pc = "idle"
    /\ canon' = canon \cup {adapter[a].body}
    /\ adapter' = [adapter EXCEPT ![a] = NoJob]
    /\ UNCHANGED <<disk, owned, broker, outbox, acked, now, faults, uploads>>

AdapterGivesUp(a) ==
    /\ adapter[a].pc = "failed"
    /\ adapter' = [adapter EXCEPT ![a] = NoJob]
    /\ UNCHANGED <<disk, owned, broker, canon, outbox, acked, now, faults, uploads>>

(***************************************************************************)
(* Device commands that carry a body.                                      *)
(***************************************************************************)
\* validate_device_reference
Usable(d, b) == owned[<<d, b>>] > now /\ b \in disk.bodies

\* admit_device_command: an enqueued input is canonical at once, a prompt or
\* an answer waits in the outbox for its adapter.
AdmitCommand(d, kind, b) ==
    /\ broker.pc = "idle" /\ Usable(d, b)
    /\ IF kind = "enqueue"
       THEN canon' = canon \cup {b} /\ UNCHANGED outbox
       ELSE /\ Cardinality(outbox) < MaxPending
            /\ outbox' = outbox \cup {[kind |-> kind, body |-> b]}
            /\ UNCHANGED canon
    /\ UNCHANGED <<disk, owned, broker, adapter, acked, now, faults, uploads>>

\* The adapter loads the body and the outcome makes it canonical; a body that
\* is gone refuses the command.
DispatchCommand(c) ==
    /\ broker.pc = "idle" /\ c \in outbox
    /\ outbox' = outbox \ {c}
    /\ canon' = IF c.body \in disk.bodies THEN canon \cup {c.body} ELSE canon
    /\ UNCHANGED <<disk, owned, broker, adapter, acked, now, faults, uploads>>

(***************************************************************************)
(* Process death and start-up.                                             *)
(***************************************************************************)
Crash ==
    /\ Up /\ Fault("crash")
    /\ broker' = [Idle EXCEPT !.pc = "down"]
    /\ adapter' = [a \in Adapters |-> NoJob]
    /\ owned' = Nothing
    /\ UNCHANGED <<disk, canon, outbox, acked, now, uploads>>

\* ContentStore::open: recover the rewrite, remove temporaries, read the
\* journal; one malformed line refuses the whole store.
OpenStore ==
    LET d == [RecoverRewrite(disk) EXCEPT !.temps = {}] IN
    /\ broker.pc = "down"
    /\ disk' = d
    /\ IF Malformed(d.lines)
       THEN broker' = [Idle EXCEPT !.pc = "refused"] /\ UNCHANGED owned
       ELSE StartCleanup([Idle EXCEPT !.then = "load"], ReadOwnership(d.lines), now)
    /\ UNCHANGED <<adapter, canon, outbox, acked, now, faults, uploads>>

\* referenced_content_ids: answers to questions are not among them.
ReferencedContentIds(commands) == {c.body : c \in {x \in commands : x.kind # "answer"}}

\* Mutant: uploads of devices are left out of the protected set.
ProtectedWithoutUploads == canon \cup ReferencedContentIds(outbox)

\* The set cleanup_after_replay keeps.
Protected ==
    canon \cup ReferencedContentIds(outbox)
          \cup {o[2] : o \in {x \in Owners : owned[x] > 0}}

PruneBodies ==
    /\ broker.pc = "prune"
    /\ disk' = [disk EXCEPT !.bodies = @ \cap Protected]
    /\ broker' = Idle
    /\ UNCHANGED <<owned, adapter, canon, outbox, acked, now, faults, uploads>>

Tick ==
    /\ now < MaxNow /\ now' = now + 1
    /\ UNCHANGED <<disk, owned, broker, adapter, canon, outbox, acked, faults, uploads>>

BrokerStep ==
    \/ RewriteReady \/ SwapJournal \/ SwapAgain \/ ListTemporaries
    \/ SweepTemporary \/ CheckUpload \/ AppendUpload \/ OpenStore \/ PruneBodies

Next ==
    \/ BrokerStep
    \/ \E d \in Devices, b \in Bodies, fits \in BOOLEAN : BeginUpload(d, b, fits)
    \/ \E a \in Adapters, b \in Bodies : AdapterStore(a, b)
    \/ \E a \in Adapters :
          AdapterLink(a) \/ AdapterUnlink(a) \/ AdapterApply(a) \/ AdapterGivesUp(a)
    \/ \E d \in Devices, k \in CommandKinds, b \in Bodies : AdmitCommand(d, k, b)
    \/ \E c \in outbox : DispatchCommand(c)
    \/ Crash \/ Tick

Spec == Init /\ [][Next]_vars

(***************************************************************************)
(* What a device is answered.                                              *)
(***************************************************************************)
\* read_content_for_device: a canonical reference serves any device, else the
\* device's own unexpired upload.
ReadContent(d, b) ==
    IF b \in canon \/ owned[<<d, b>>] > now
    THEN IF b \in disk.bodies THEN "chunk" ELSE "evicted"
    ELSE IF owned[<<d, b>>] > 0 THEN "evicted" ELSE "unauthorized"

(***************************************************************************)
(* Properties                                                              *)
(***************************************************************************)
\* No reference of canonical state dangles: cleanup_after_replay never
\* removes the body of a canonical reference, and an effect is applied only
\* after its body is linked (content.rs "cleanup_after_replay").
CanonicalBodiesExist == canon \subseteq disk.bodies

\* The body of a command that waits in the outbox survives the expiry of its
\* upload and any number of restarts (test
\* pending_outbox_content_survives_ownership_expiry_cleanup).
PendingBodiesExist == \A c \in outbox : c.body \in disk.bodies

\* An upload the device was told is Stored can be read and used in a command
\* until it expires, whatever crashes, rewrites of the journal and failed
\* renames happened in between (write_for_device).  A store that refuses to
\* open, because an append tore a line, serves nobody and is not counted.
AckedUploadsUsable ==
    broker.pc = "idle" =>
        \A o \in Owners :
            acked[o] > now => /\ Usable(o[1], o[2])
                              /\ ReadContent(o[1], o[2]) = "chunk"

\* "Maximum simultaneously unexpired uploaded bytes owned by one device."
QuotaHolds ==
    broker.pc = "idle" => \A d \in Devices : UsedBytes(d, now) <= Quota

\* No command is admitted on an upload that has expired or belongs to another
\* device: at admission the device was told the body is stored, not longer
\* than Ttl ago (validate_device_reference).
AdmittedOnLiveUpload ==
    [][\A c \in outbox' \ outbox : \E d \in Devices : acked[<<d, c.body>>] > now]_vars

\* An upload of a device never makes an adapter's own write fail: the cleanup
\* of temporary files removes files of dead processes only
\* (cleanup_temporary_files).
AdaptersUndisturbed == \A a \in Adapters : adapter[a].pc # "failed"
=============================================================================
