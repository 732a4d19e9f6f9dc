------------------------- MODULE MCRecoveryPipeline -------------------------
(* Profiles for model checking: every side of each policy boundary.        *)
EXTENDS RecoveryPipeline

Base == [amount |-> HighValueThreshold, optedOut |-> FALSE, category |-> "other",
         arm |-> "treatment", phone |-> FALSE, email |-> TRUE, whatsapp |-> TRUE]

HighValue == [Base EXCEPT !.amount = HighValueThreshold + 1]
HighValueControl == [HighValue EXCEPT !.arm = "control"]
Control == [Base EXCEPT !.arm = "control"]

(* Below the approval threshold: the floor, the threshold, consent, the    *)
(* business override, both arms, and two sets of contact data.             *)
LowValueProfiles ==
    {Control, Base,
     [Base EXCEPT !.amount = MinAmount - 1],
     [Base EXCEPT !.amount = MinAmount, !.phone = TRUE, !.email = FALSE],
     [Base EXCEPT !.category = "business"],
     [Control EXCEPT !.optedOut = TRUE]}

(* Above it in both arms, and either side of it.                           *)
GateProfiles == {HighValue, HighValueControl}
RaceProfiles == GateProfiles \cup {Base}
BaseOnly == {Base}
=============================================================================
