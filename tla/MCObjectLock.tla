---------------------------- MODULE MCObjectLock ----------------------------
(* Two objects that share a bucket, and one with a bucket of its own.      *)
EXTENDS ObjectLock, TLC

CONSTANTS x, y, z, b1, b2

Shared == (x :> b1) @@ (y :> b1) @@ (z :> b2)
Two == (x :> b1) @@ (y :> b1)

Symmetric == Permutations(Thread) \cup Permutations(Node)
=============================================================================
