--------------------------- MODULE WriteAheadLog ----------------------------
(***************************************************************************)
(* What the replicator relies on RocksDB for: the write-ahead log of a     *)
(* database.  A log is the sequence of the operations written: sequence    *)
(* number i is entry i, and a write batch of n operations takes the n      *)
(* consecutive entries <<batch, 1>> .. <<batch, n>>.                       *)
(***************************************************************************)
EXTENDS Naturals, Sequences

CONSTANTS
    Batch,        \* the write batches clients send, each once
    Count         \* Count[b]: how many operations batch b holds

ASSUME CountAssumption == Count \in [Batch -> Nat \ {0}]

Op == Batch \X Nat

\* The operations of a batch, and the batches that have operations in ops.
Block(b) == [k \in 1 .. Count[b] |-> <<b, k>>]
Batches(ops) == {ops[i][1] : i \in DOMAIN ops}

\* GetUpdatesSince(seq): where the batch that holds seq begins; 0 for
\* NotFound, beyond the end of the log.
GetUpdatesSince(l, seq) == IF seq > Len(l) THEN 0 ELSE seq + 1 - l[seq][2]

IsPrefixOf(a, b) == Len(a) <= Len(b) /\ \A i \in 1 .. Len(a) : a[i] = b[i]
=============================================================================
