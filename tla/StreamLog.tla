------------------------------- MODULE StreamLog -------------------------------
(***************************************************************************)
(* The canonical log: one append-only file per stream, a cursor per stream *)
(* and a timestamp that orders the records of different streams when they  *)
(* are read back.  A commit is logged, then applied in memory; a load      *)
(* verifies every file and replays the records in timestamp order.  The    *)
(* clock is the wall clock and may stand still or go back.  An effect is   *)
(* the number of the commit it came from.                                  *)
(***************************************************************************)
EXTENDS Naturals, Sequences, FiniteSets

CONSTANTS
    Streams,        \* stream keys
    FileOrder,      \* the streams in the order of their file names, a sequence
    MaxEffects,     \* bound: commits
    MaxClock,       \* bound: clock readings are 1..MaxClock
    MaxLoads,       \* bound: restarts
    Faults          \* how an append may fail: "clean", "landed", "torn"

ASSUME StreamLogAssumption ==
    /\ Streams = {FileOrder[i] : i \in DOMAIN FileOrder}
    /\ MaxEffects \in Nat /\ MaxClock \in Nat \ {0} /\ MaxLoads \in Nat
    /\ Faults \subseteq {"clean", "landed", "torn"}

VARIABLES
    files,      \* [Streams -> Seq(Record)]
    cursors,    \* [Streams -> Nat]: the cursor the next record gets
    lastAt,     \* the greatest timestamp appended or read
    state,      \* the effects applied in memory, in order
    applied,    \* history: the effects a commit reported as applied, in order
    failed,     \* history: the effects whose append was reported as failed
    damage,     \* history: an append failed after some of its bytes were written
    effect,     \* the next effect
    loads, up   \* up: "up", "down", "refused"

vars == <<files, cursors, lastAt, state, applied, failed, damage, effect, loads, up>>

Torn == [cursor |-> 0, at |-> 0, effect |-> 0]
FileRank(s) == CHOOSE i \in DOMAIN FileOrder : FileOrder[i] = s

Init ==
    /\ files = [s \in Streams |-> <<>>]
    /\ cursors = [s \in Streams |-> 0]
    /\ lastAt = 0
    /\ state = <<>> /\ applied = <<>>
    /\ failed = {} /\ damage = FALSE
    /\ effect = 1 /\ loads = 0 /\ up = "up"

\* Mutant: the record carries the clock reading.
WallClock(now) == now

\* Strictly increasing over the whole store, whatever the clock does.
NextTimestamp(now) == IF now > lastAt THEN now ELSE lastAt + 1

NextRecord(s, now) == [cursor |-> cursors[s], at |-> NextTimestamp(now), effect |-> effect]

\* One commit: the record is appended and synced, then applied.
Commit(s, now) ==
    /\ up = "up" /\ effect <= MaxEffects
    /\ files' = [files EXCEPT ![s] = Append(@, NextRecord(s, now))]
    /\ cursors' = [cursors EXCEPT ![s] = @ + 1]
    /\ lastAt' = NextTimestamp(now)
    /\ state' = Append(state, effect) /\ applied' = Append(applied, effect)
    /\ effect' = effect + 1
    /\ UNCHANGED <<failed, damage, loads, up>>

\* What an append that returns an error may leave in the file.
Left(s, now, how) ==
    CASE how = "clean" -> files[s]
      [] how = "landed" -> Append(files[s], NextRecord(s, now))
      [] how = "torn" -> Append(files[s], Torn)

\* The append fails: the caller keeps its cursor, timestamp and state.
AppendFails(s, now, how) ==
    /\ up = "up" /\ effect <= MaxEffects /\ how \in Faults
    /\ files' = [files EXCEPT ![s] = Left(s, now, how)]
    /\ failed' = failed \cup {effect}
    /\ damage' = (damage \/ how # "clean")
    /\ effect' = effect + 1
    /\ UNCHANGED <<cursors, lastAt, state, applied, loads, up>>

\* The process dies, possibly inside an append.
Crash ==
    /\ up = "up" /\ loads < MaxLoads
    /\ up' = "down"
    /\ UNCHANGED <<files, cursors, lastAt, state, applied, failed, damage, effect, loads>>

CrashInAppend(s, now, how) ==
    /\ up = "up" /\ loads < MaxLoads /\ effect <= MaxEffects /\ how \in Faults \ {"clean"}
    /\ files' = [files EXCEPT ![s] = Left(s, now, how)]
    /\ damage' = (damage \/ how = "torn")
    /\ effect' = effect + 1
    /\ up' = "down"
    /\ UNCHANGED <<cursors, lastAt, state, applied, failed, loads>>

\* Every line parses, and the cursors of a file step by one.
Contiguous(f) ==
    /\ \A i \in DOMAIN f : f[i] # Torn
    /\ \A i \in DOMAIN f : i > 1 => f[i].cursor = f[i - 1].cursor + 1

Records == UNION {{<<s, i>> : i \in DOMAIN files[s]} : s \in Streams}

\* The global order of replay: timestamp, file name, cursor.
Before(a, b) ==
    LET x == files[a[1]][a[2]]
        y == files[b[1]][b[2]]
    IN \/ x.at < y.at
       \/ x.at = y.at /\ FileRank(a[1]) < FileRank(b[1])
       \/ x.at = y.at /\ a[1] = b[1] /\ x.cursor < y.cursor

Replayed ==
    [n \in 1..Cardinality(Records) |->
       LET r == CHOOSE r \in Records : Cardinality({q \in Records : Before(q, r)}) = n - 1
       IN files[r[1]][r[2]].effect]

MaxOf(S) == CHOOSE x \in S \cup {0} : \A y \in S \cup {0} : y <= x

\* A start verifies every file before it applies anything.
Load ==
    /\ up = "down" /\ loads' = loads + 1
    /\ IF \A s \in Streams : Contiguous(files[s])
       THEN /\ up' = "up" /\ state' = Replayed
            /\ cursors' = [s \in Streams |-> IF files[s] = <<>> THEN 0
                                             ELSE files[s][Len(files[s])].cursor + 1]
            /\ lastAt' = MaxOf({files[r[1]][r[2]].at : r \in Records})
       ELSE up' = "refused" /\ UNCHANGED <<state, cursors, lastAt>>
    /\ UNCHANGED <<files, applied, failed, damage, effect>>

Next ==
    \/ \E s \in Streams, now \in 1..MaxClock :
          \/ Commit(s, now)
          \/ \E how \in Faults : AppendFails(s, now, how) \/ CrashInAppend(s, now, how)
    \/ Crash \/ Load

Spec == Init /\ [][Next]_vars

-----------------------------------------------------------------------------
\* Every variable has its type; only whole records are ever applied.
TypeOK ==
    /\ files \in [Streams -> Seq([cursor : Nat, at : Nat, effect : Nat])]
    /\ cursors \in [Streams -> Nat] /\ lastAt \in Nat
    /\ state \in Seq(1..MaxEffects) /\ applied \in Seq(1..MaxEffects)
    /\ failed \subseteq 1..MaxEffects /\ damage \in BOOLEAN
    /\ loads \in 0..MaxLoads /\ up \in {"up", "down", "refused"}

\* A host that is up holds every commit it ever reported, in the order in which
\* it reported them, though the streams are separate files and the clock may
\* go back between a crash and the load (next_timestamp, StreamLog::read_all).
ReplayKeepsCommitOrder ==
    up = "up" =>
       /\ \A i \in DOMAIN applied : \E j \in DOMAIN state : state[j] = applied[i]
       /\ \A i, j \in DOMAIN state :
             (i < j /\ {state[i], state[j]} \subseteq {applied[n] : n \in DOMAIN applied})
             => state[i] < state[j]

\* A load refuses a log only when an append was interrupted half-way or failed
\* with its bytes in the file: crashes between appends cost nothing
\* (verify_contiguous, read_stream_file).
RefusedOnlyIfDamaged == up = "refused" => damage

\* The cursor of an append that returned an error was never used: the log loads
\* and the effect is not part of the state (the contract of StreamLog::append).
FailedAppendUnused ==
    up # "refused" /\ {state[i] : i \in DOMAIN state} \cap failed = {}
=============================================================================
