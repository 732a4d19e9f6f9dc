---------------------------- MODULE ApprovalGate ----------------------------
(***************************************************************************)
(* What the human-in-the-loop gate promises, without queue, workers or     *)
(* tables: a high-value case is acted on only while a human's grant for    *)
(* that case is valid.  A grant is for ever on record, for one case, and   *)
(* valid until it expires.                                                 *)
(***************************************************************************)
EXTENDS Integers, Sequences

CONSTANTS Cases, Expiries

VARIABLES
    clock,
    high,     \* the cases above the threshold
    grants,   \* the grants humans have made
    acted     \* the actions executed, in order

vars == <<clock, high, grants, acted>>

Init == /\ clock = 0 /\ high \subseteq Cases
        /\ grants = {} /\ acted = <<>>

Grant(c, e) ==
    /\ e >= clock
    /\ grants' = grants \cup {[case |-> c, expires |-> e]}
    /\ UNCHANGED <<clock, high, acted>>

Act(c) ==
    /\ c \in high => \E g \in grants : g.case = c /\ g.expires > clock
    /\ acted' = Append(acted, [case |-> c, at |-> clock])
    /\ UNCHANGED <<clock, high, grants>>

Advance == /\ clock' > clock
           /\ UNCHANGED <<high, grants, acted>>

Next == \/ \E c \in Cases : Act(c) \/ \E e \in Expiries : Grant(c, e)
        \/ Advance

Spec == Init /\ [][Next]_vars
=============================================================================
