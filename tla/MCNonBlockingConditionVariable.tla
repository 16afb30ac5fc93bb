------------------- MODULE MCNonBlockingConditionVariable -------------------
(* Two or three parked requests, one or two writers, up to two writes.     *)
EXTENDS NonBlockingConditionVariable, TLC

Symmetric == Permutations(Task) \cup Permutations(Notifier)
=============================================================================
