-------------------------- MODULE CommandLifecycle --------------------------
(***************************************************************************)
(* What the store and the runtime supervisor promise about one device      *)
(* command, without files, locks, threads or crashes: a command is decided *)
(* once; an accepted one waits, is claimed once, is handed to the provider *)
(* at most once and only from its claim; nothing ever moves it back.       *)
(***************************************************************************)
EXTENDS Naturals

CONSTANT Commands

VARIABLES
  phase,  \* per command: where it is in its life
  sends   \* per command: how often the provider may have seen it

Phases == {"unknown", "waiting", "claimed", "sent", "closed"}

TypeOK == /\ phase \in [Commands -> Phases]
          /\ sends \in [Commands -> Nat]

Init == /\ phase = [c \in Commands |-> "unknown"]
        /\ sends = [c \in Commands |-> 0]

Move(c, from, to) == /\ phase[c] = from
                     /\ phase' = [phase EXCEPT ![c] = to]

\* Accepted for a runtime route.
Accept(c) == Move(c, "unknown", "waiting") /\ UNCHANGED sends

\* Decided locally: refused, or queued.
Decide(c) == Move(c, "unknown", "closed") /\ UNCHANGED sends

\* From here on a restart must never send the command again.
Claim(c) == Move(c, "waiting", "claimed") /\ UNCHANGED sends

\* The bytes may have left the process.
Send(c) == /\ Move(c, "claimed", "sent")
           /\ sends' = [sends EXCEPT ![c] = @ + 1]

\* The outcome is on record: after a send, or instead of one.
Close(c) == (Move(c, "sent", "closed") \/ Move(c, "claimed", "closed")) /\ UNCHANGED sends

Next == \E c \in Commands :
          Accept(c) \/ Decide(c) \/ Claim(c) \/ Send(c) \/ Close(c)

Spec == Init /\ [][Next]_<<phase, sends>>

=============================================================================
