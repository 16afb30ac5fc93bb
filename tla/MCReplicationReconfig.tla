----------------------- MODULE MCReplicationReconfig ------------------------
(* A failover: m and s swap their roles; or s is added again as it was.    *)
EXTENDS ReplicationReconfig, TLC

CONSTANTS m, s, x, y

Pair == (m :> m) @@ (s :> m)
OneEach == [b \in Batch |-> 1]
Swap == {[node |-> s, role |-> "MASTER", up |-> s],
         [node |-> m, role |-> "SLAVE", up |-> s]}
Rejoin == Swap \cup {[node |-> s, role |-> "SLAVE", up |-> m]}

Symmetric == Permutations(Call)
=============================================================================
