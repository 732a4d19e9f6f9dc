----------------------------- MODULE CaseLedger -----------------------------
(***************************************************************************)
(* What the intake of cases promises, without requests, awaits, crashes or *)
(* a queue: a failed payment opens at most one case, its sender is told to *)
(* stop repeating it only after that, and work is done on open cases only. *)
(***************************************************************************)
CONSTANTS
    Failures,   \* the events that report a failed payment
    CaseIds,
    NoEvent     \* the source of a simulated case

VARIABLES
    opened,     \* the cases: id and source event
    settled,    \* the events whose sender was told to stop
    taken       \* the cases a worker has found

vars == <<opened, settled, taken>>

Ids == {x.id : x \in opened}
HasCase(e) == \E x \in opened : x.event = e

Init == opened = {} /\ settled = {} /\ taken = {}

Open(e) ==
    /\ ~HasCase(e)
    /\ \E c \in CaseIds \ Ids : opened' = opened \cup {[id |-> c, event |-> e]}
    /\ UNCHANGED <<settled, taken>>

Simulate ==
    /\ \E ids \in SUBSET (CaseIds \ Ids) :
         opened' = opened \cup {[id |-> c, event |-> NoEvent] : c \in ids}
    /\ UNCHANGED <<settled, taken>>

Settle(e) ==
    /\ HasCase(e)
    /\ settled' = settled \cup {e}
    /\ UNCHANGED <<opened, taken>>

Take(c) ==
    /\ c \in Ids
    /\ taken' = taken \cup {c}
    /\ UNCHANGED <<opened, settled>>

Next == \/ \E e \in Failures : Open(e) \/ Settle(e)
        \/ Simulate
        \/ \E c \in CaseIds : Take(c)

Spec == Init /\ [][Next]_vars
=============================================================================
