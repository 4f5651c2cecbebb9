------------------------- MODULE MCRevisionedCache -------------------------
(* Instances of RevisionedCache for TLC. *)
EXTENDS RevisionedCache, TLC

CONSTANTS a, b, c, t1, t2

Symmetry == Permutations({a, b, c}) \cup Permutations({t1, t2})
=============================================================================
