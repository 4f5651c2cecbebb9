----------------------------- MODULE MCEvaluation -----------------------------
(* Instances of Evaluation for TLC. *)
EXTENDS Evaluation

CONSTANTS gate, plan, report, c1, c2

\* A bound decision, and a System One model of two fields.
MCFields == [d \in {gate, plan} |-> IF d = plan THEN 2 ELSE 1]
MCTokens == report :> 1
MCBounds == <<2, 4>>
MCLatencies == {-1, 7}
MCModels == {plan}
Symmetry == Permutations({c1, c2})
=============================================================================
