------------------------ MODULE MCOfflineEvaluation ------------------------
(* The smallest batch with an event of every bucket, the smallest amount   *)
(* and one above the approval threshold, a score on each side of every     *)
(* boundary.                                                               *)
EXTENDS OfflineEvaluation

DrawnAmounts == {MinAmount, HighValueThreshold + 1}
BoundaryScores == {15, 16, 34, 35, 49, 50}
=============================================================================
