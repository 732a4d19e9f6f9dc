----------------------- MODULE MCExperimentAssignment -----------------------
(* A case that 20 and 21 both put in treatment, and one that 21 moves there. *)
EXTENDS ExperimentAssignment

CONSTANTS c1, c2

Buckets == [c \in {c1, c2} |-> IF c = c1 THEN 19 ELSE 20]
=============================================================================
