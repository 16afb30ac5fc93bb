--------------------------- MODULE ObjectLockSpec ---------------------------
(***************************************************************************)
(* What common::ObjectLock promises (object_lock.h, lines 35-39): "a       *)
(* thread safe data structure to Lock() and Unlock() objects".  An object  *)
(* is held by one thread at a time.  No buckets, nodes or counts.          *)
(***************************************************************************)
CONSTANTS Thread, Object

VARIABLE held      \* the pairs of a thread and the object it has locked

SpecInit == held = {}

Acquire(t, o) ==
    /\ \A u \in Thread : <<u, o>> \notin held
    /\ \A p \in Object : <<t, p>> \notin held
    /\ held' = held \cup {<<t, o>>}

Release(t, o) ==
    /\ <<t, o>> \in held
    /\ held' = held \ {<<t, o>>}

SpecNext == \E t \in Thread, o \in Object : Acquire(t, o) \/ Release(t, o)

SpecObjectLock == SpecInit /\ [][SpecNext]_held
=============================================================================
