-------------------------------- MODULE MCLaya --------------------------------
(* Instances of Laya for TLC. *)
EXTENDS Laya, TLC

CONSTANTS c1, c2, k1, k2, k3, b1, b2

\* Three heads: two small ones and one that fills the cache.
Sizes == k1 :> 1 @@ k2 :> 1 @@ k3 :> 3
OneByte == [k \in Keys |-> 1]
Pairs == {<<k1, k2>>, <<k3>>, <<k2>>}
=============================================================================
