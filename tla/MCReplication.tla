--------------------------- MODULE MCReplication ----------------------------
(***************************************************************************)
(* Replication for TLC: a master m and a slave s.  Batch y holds two       *)
(* operations, so that sequence numbers and batches differ.                *)
(***************************************************************************)
EXTENDS Replication, TLC

CONSTANTS m, s, x, y

Pair == (m :> m) @@ (s :> m)
OneAndTwo == (x :> 1) @@ (y :> 2)

Symmetric == Permutations(Call)
=============================================================================
