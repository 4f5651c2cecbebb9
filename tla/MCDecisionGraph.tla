---------------------------- MODULE MCDecisionGraph ----------------------------
(* Instances of DecisionGraph for TLC. *)
EXTENDS DecisionGraph

\* Every graph over the nodes, cyclic ones too.
All == [Nodes -> SUBSET Nodes]
=============================================================================
