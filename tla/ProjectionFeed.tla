----------------------------- MODULE ProjectionFeed -----------------------------
(***************************************************************************)
(* What one projection key promises to a device, free of connections,      *)
(* subscriptions and faults: the host's journal of the key only grows, and *)
(* the view a device holds is always an entry of that journal.  The view   *)
(* moves to the next entry, or over entries the journal no longer retains; *)
(* it never goes back and never holds an entry the host has not logged.    *)
(***************************************************************************)
EXTENDS Naturals

CONSTANTS Keys, Retention

VARIABLES
    head,   \* [Keys -> Nat], the newest journal cursor of each key; 0 = none
    view    \* [Keys -> Nat], the cursor of the view the device holds; 0 = none

vars == <<head, view>>

Init ==
    /\ head = [k \in Keys |-> 0]
    /\ view = [k \in Keys |-> 0]

\* One commit extends the journals of any set of keys.
Grow ==
    /\ head' \in [Keys -> Nat]
    /\ \A k \in Keys : head'[k] >= head[k]
    /\ UNCHANGED view

\* The device's view moves forward: its first view may be any entry; a later
\* one is the next entry, or skips entries only when more than the retained
\* number lie between.
Apply(k) ==
    /\ \E c \in (view[k] + 1)..head[k] :
          /\ view[k] = 0 \/ c = view[k] + 1 \/ view[k] + Retention < c
          /\ view' = [view EXCEPT ![k] = c]
    /\ UNCHANGED head

Next == Grow \/ \E k \in Keys : Apply(k)

Spec == Init /\ [][Next]_vars
=============================================================================
