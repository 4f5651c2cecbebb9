-------------------------- MODULE MCKnowledgeGraph --------------------------
(* Instances of KnowledgeGraph and KnowledgeContext for TLC. *)
EXTENDS KnowledgeContext, TLC

CONSTANTS a, b, e1, e2, fact, local, r1, r2

Mixed == fact :> "session" @@ local :> "observation"
Symmetry ==
  Permutations({a, b}) \cup Permutations({e1, e2}) \cup Permutations({r1, r2})

\* A local fact outlives its tick by one; a session fact takes two tokens.
MCPriority == [i \in Ids |-> 1]
MCLife == [i \in Ids |-> 1]
MCCost == [v \in Versions |-> IF v[2] = fact THEN 2 ELSE 1]
=============================================================================
