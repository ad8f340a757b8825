--------------------------- MODULE MCSecIngestion ---------------------------
(* Small instances of SecIngestion for TLC. *)
EXTENDS SecIngestion, TLC

CONSTANTS attempts, f1, f2

AttemptsOfAll == [r \in Requests |-> attempts]

\* A report in the historical file and its amendment among the recent ones.
AcceptedInOrder == f1 :> 1 @@ f2 :> 2
PagesOfFilings == f1 :> 2 @@ f2 :> 1

\* The report has both inputs of the derived concept, the amendment has one.
ReportedConcepts == f1 :> {"revenue", "cost"} @@ f2 :> {"revenue"}
Inputs == {"revenue", "cost"}

Symmetry == Permutations(Workers) \cup Permutations(Jobs)
=============================================================================
