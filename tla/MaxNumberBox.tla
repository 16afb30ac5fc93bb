---------------------------- MODULE MaxNumberBox ----------------------------
(***************************************************************************)
(* rocksdb_replicator/max_number_box.{h,cpp}: the box in which a master    *)
(* keeps the largest sequence number a slave has acknowledged, and in      *)
(* which the client threads of ReplicatedDB::Write() wait for it.          *)
(*                                                                         *)
(* A step is what a thread does between two points where another thread    *)
(* can run: a critical section of mtx_ is one step; going to sleep gives   *)
(* the mutex back and is part of the step before it; waking up (notified,  *)
(* spuriously, or by the timeout) and getting the mutex again are two      *)
(* steps, as are the notify_one() calls, which post() makes with the mutex *)
(* released.                                                               *)
(***************************************************************************)
EXTENDS Naturals

CONSTANTS Thread,   \* the threads that call post() and wait()
          MaxNum    \* bound on the numbers posted and waited for

ASSUME MaxNumAssumption == MaxNum \in Nat \ {0}

Num == 0 .. MaxNum

VARIABLES
    max_number,   \* max_number_
    waiters,      \* waiters[t]: how often t's thread-local Waiter is in waiters_
    num_to_wait,  \* num_to_wait[t]: Waiter::num_to_wait of t's Waiter
    timed,        \* timed[t]: t's wait() has a timeout (timeout_ms # 0)
    to_notify,    \* to_notify[t]: waiters_to_notify of the post() t is in
    pc,           \* where t is
    result        \* result[t]: what t's last wait() returned

vars == <<max_number, waiters, num_to_wait, timed, to_notify, pc, result>>

(***************************************************************************)
(* "asleep": blocked in cv.wait() or cv.wait_for(), mutex released.        *)
(* "awake", "expired": woken, or timed out, and about to take the mutex.   *)
(* "notifying": in post() after the critical section.                      *)
(***************************************************************************)
Waiting == {"asleep", "awake", "expired"}
PC == Waiting \cup {"idle", "notifying"}

TypeOK ==
    /\ max_number \in Num
    /\ waiters \in [Thread -> 0 .. 1]
    /\ num_to_wait \in [Thread -> Num]
    /\ timed \in [Thread -> BOOLEAN]
    /\ to_notify \in [Thread -> SUBSET Thread]
    /\ pc \in [Thread -> PC]
    /\ result \in [Thread -> {"none", "true", "false"}]

Init ==
    /\ max_number = 0
    /\ waiters = [t \in Thread |-> 0]
    /\ num_to_wait = [t \in Thread |-> 0]
    /\ timed = [t \in Thread |-> FALSE]
    /\ to_notify = [t \in Thread |-> {}]
    /\ pc = [t \in Thread |-> "idle"]
    /\ result = [t \in Thread |-> "none"]

-----------------------------------------------------------------------------
(***************************************************************************)
(* post(): the critical section raises the maximum and moves the waiters   *)
(* it satisfies out of waiters_; a number that is not larger than the      *)
(* maximum leaves everything as it is.                                     *)
(***************************************************************************)
Satisfied(num) == {w \in Thread : waiters[w] > 0 /\ num_to_wait[w] <= num}

Post_StrictPartition(t, num) ==
    LET S == {w \in Thread : waiters[w] > 0 /\ num_to_wait[w] < num} IN
    /\ pc[t] = "idle"
    /\ num > max_number
    /\ max_number' = num
    /\ to_notify' = [to_notify EXCEPT ![t] = S]
    /\ waiters' = [w \in Thread |-> IF w \in S THEN 0 ELSE waiters[w]]
    /\ pc' = [pc EXCEPT ![t] = "notifying"]
    /\ UNCHANGED <<num_to_wait, timed, result>>

Post_KeepsWaiters(t, num) ==
    /\ pc[t] = "idle"
    /\ num > max_number
    /\ max_number' = num
    /\ to_notify' = [to_notify EXCEPT ![t] = Satisfied(num)]
    /\ pc' = [pc EXCEPT ![t] = "notifying"]
    /\ UNCHANGED <<waiters, num_to_wait, timed, result>>

Post(t, num) ==
    /\ pc[t] = "idle"
    /\ num > max_number
    /\ max_number' = num
    /\ to_notify' = [to_notify EXCEPT ![t] = Satisfied(num)]
    /\ waiters' = [w \in Thread |-> IF w \in Satisfied(num) THEN 0 ELSE waiters[w]]
    /\ pc' = [pc EXCEPT ![t] = "notifying"]
    /\ UNCHANGED <<num_to_wait, timed, result>>

\* One notify_one() of the loop.  It wakes its waiter if that is asleep; a
\* waiter that has returned by itself meanwhile is not disturbed.
NotifyOne(t) ==
    /\ pc[t] = "notifying"
    /\ \E w \in to_notify[t] :
         /\ to_notify' = [to_notify EXCEPT ![t] = @ \ {w}]
         /\ pc' = IF pc[w] = "asleep" THEN [pc EXCEPT ![w] = "awake"] ELSE pc
    /\ UNCHANGED <<max_number, waiters, num_to_wait, timed, result>>

PostReturn(t) ==
    /\ pc[t] = "notifying"
    /\ to_notify[t] = {}
    /\ pc' = [pc EXCEPT ![t] = "idle"]
    /\ UNCHANGED <<max_number, waiters, num_to_wait, timed, to_notify, result>>

-----------------------------------------------------------------------------
(***************************************************************************)
(* wait()                                                                  *)
(***************************************************************************)
WaitReturnAtOnce(t, num) ==
    /\ pc[t] = "idle"
    /\ num <= max_number
    /\ result' = [result EXCEPT ![t] = "true"]
    /\ UNCHANGED <<max_number, waiters, num_to_wait, timed, to_notify, pc>>

Wait(t, num, tmo) ==
    /\ pc[t] = "idle"
    /\ num > max_number
    /\ num_to_wait' = [num_to_wait EXCEPT ![t] = num]
    /\ waiters' = [waiters EXCEPT ![t] = @ + 1]
    /\ timed' = [timed EXCEPT ![t] = tmo]
    /\ pc' = [pc EXCEPT ![t] = "asleep"]
    /\ UNCHANGED <<max_number, to_notify, result>>

SpuriousWakeup(t) ==
    /\ pc[t] = "asleep"
    /\ pc' = [pc EXCEPT ![t] = "awake"]
    /\ UNCHANGED <<max_number, waiters, num_to_wait, timed, to_notify, result>>

Timeout(t) ==
    /\ pc[t] = "asleep"
    /\ timed[t]
    /\ pc' = [pc EXCEPT ![t] = "expired"]
    /\ UNCHANGED <<max_number, waiters, num_to_wait, timed, to_notify, result>>

\* With the mutex: the predicate holds and wait() returns true.
ReturnTrue(t) ==
    /\ pc[t] \in {"awake", "expired"}
    /\ num_to_wait[t] <= max_number
    /\ pc' = [pc EXCEPT ![t] = "idle"]
    /\ result' = [result EXCEPT ![t] = "true"]
    /\ UNCHANGED <<max_number, waiters, num_to_wait, timed, to_notify>>

\* With the mutex: woken for nothing, cv.wait() sleeps again.
SleepAgain(t) ==
    /\ pc[t] = "awake"
    /\ num_to_wait[t] > max_number
    /\ pc' = [pc EXCEPT ![t] = "asleep"]
    /\ UNCHANGED <<max_number, waiters, num_to_wait, timed, to_notify, result>>

ReturnFalse_NoRecheck(t) ==
    /\ pc[t] = "expired"
    /\ waiters' = [waiters EXCEPT ![t] = 0]
    /\ pc' = [pc EXCEPT ![t] = "idle"]
    /\ result' = [result EXCEPT ![t] = "false"]
    /\ UNCHANGED <<max_number, num_to_wait, timed, to_notify>>

ReturnFalse_NotErased(t) ==
    /\ pc[t] = "expired"
    /\ num_to_wait[t] > max_number
    /\ pc' = [pc EXCEPT ![t] = "idle"]
    /\ result' = [result EXCEPT ![t] = "false"]
    /\ UNCHANGED <<max_number, waiters, num_to_wait, timed, to_notify>>

\* With the mutex: timed out and the predicate does not hold; every entry of
\* this thread leaves waiters_ and wait() returns false.
ReturnFalse(t) ==
    /\ pc[t] = "expired"
    /\ num_to_wait[t] > max_number
    /\ waiters' = [waiters EXCEPT ![t] = 0]
    /\ pc' = [pc EXCEPT ![t] = "idle"]
    /\ result' = [result EXCEPT ![t] = "false"]
    /\ UNCHANGED <<max_number, num_to_wait, timed, to_notify>>

-----------------------------------------------------------------------------
Next ==
    \E t \in Thread :
       \/ \E num \in Num : Post(t, num) \/ WaitReturnAtOnce(t, num)
       \/ \E num \in Num, tmo \in BOOLEAN : Wait(t, num, tmo)
       \/ NotifyOne(t) \/ PostReturn(t)
       \/ SpuriousWakeup(t) \/ Timeout(t)
       \/ ReturnTrue(t) \/ SleepAgain(t) \/ ReturnFalse(t)

Spec == Init /\ [][Next]_vars

\* A thread that can run does run: it makes its notify_one() calls and, once
\* woken, it gets the mutex.  No timer and no spurious wakeup is relied on.
Fairness ==
    \A t \in Thread :
       /\ WF_vars(NotifyOne(t))
       /\ WF_vars(PostReturn(t))
       /\ WF_vars(ReturnTrue(t))
       /\ WF_vars(ReturnFalse(t))

FairSpec == Spec /\ Fairness

-----------------------------------------------------------------------------
(***************************************************************************)
(* Properties                                                              *)
(***************************************************************************)

\* The CHECK of wait() (max_number_box.cpp:99) never fires: a thread that has
\* timed out and finds its number still above the maximum is in waiters_
\* exactly once, whatever posts and wakeups happened in between.
TimeoutCheckHolds ==
    \A t \in Thread :
        pc[t] = "expired" /\ num_to_wait[t] > max_number => waiters[t] = 1

\* No lost wakeup: a thread that sleeps although its number has been reached
\* is one that some post() is still going to notify.
NoLostWakeup ==
    \A t \in Thread :
        pc[t] = "asleep" /\ num_to_wait[t] <= max_number
          => \E p \in Thread : pc[p] = "notifying" /\ t \in to_notify[p]

\* waiters_ holds only threads that are inside wait() and still above the
\* maximum: when no call is pending the CHECK of the destructor
\* (max_number_box.h:51) holds, and post() never touches the Waiter of a
\* thread that may have exited.
WaitersArePending ==
    \A t \in Thread :
        waiters[t] > 0 => pc[t] \in Waiting /\ num_to_wait[t] > max_number

\* A waiter whose number has been reached returns, with no help from its
\* timeout.
ReachedWaiterReturns ==
    \A t \in Thread :
        (pc[t] \in Waiting /\ num_to_wait[t] <= max_number) ~> (pc[t] = "idle")

(***************************************************************************)
(* Refinement: the box implements MaxNumberBoxSpec.                        *)
(***************************************************************************)
Pending ==
    [t \in Thread |->
       IF pc[t] \in Waiting THEN {[num |-> num_to_wait[t], timed |-> timed[t]]}
                            ELSE {}]

Abstract == INSTANCE MaxNumberBoxSpec WITH max <- max_number, call <- Pending

\* Every step of post() and wait(), with their mutex, waiter list and wakeups,
\* is a step of the abstract box or changes nothing of it: true is returned
\* only for a number that was reached, false only to a timed call whose number
\* was not reached at that moment.
ImplementsBox == Abstract!BoxSpec
=============================================================================
