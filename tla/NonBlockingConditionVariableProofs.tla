----------------- MODULE NonBlockingConditionVariableProofs -----------------
(***************************************************************************)
(* Proofs about NonBlockingConditionVariable, for any sets of tasks and    *)
(* notifiers and any number of writes.  The inductive invariant follows a  *)
(* task from its submission to its only run: where the task is linked,     *)
(* when has_done agrees with the number of runs, and why a ready task that *)
(* the caller has left is in the hands of a notifier.                      *)
(***************************************************************************)
EXTENDS NonBlockingConditionVariable, TLAPS

Enlisted(k) == k \in tasks \/ \E n \in Notifier : k \in local_tasks[n]

\* A task that is not pushed yet is known to nobody but its caller.
FreshTasks ==
    \A k \in Task : pc[k] \in {"new", "push"} =>
        runs[k] = 0 /\ ~has_done[k] /\ ~timer[k] /\ ~Enlisted(k)

\* has_done tells whether the task ran; only a task that ran at once, and was
\* never parked, has run without has_done.
RunsAgree ==
    \A k \in Task :
       /\ runs[k] \in {0, 1}
       /\ has_done[k] => runs[k] = 1
       /\ ~has_done[k] /\ runs[k] = 1 =>
             pc[k] = "returned" /\ ~timer[k] /\ ~Enlisted(k)

TimerAfterReturn == \A k \in Task : timer[k] => pc[k] = "returned"

\* A parked task that has not run is linked somewhere.
ParkedAreEnlisted ==
    \A k \in Task : pc[k] \notin {"new", "push"} /\ runs[k] = 0 => Enlisted(k)

OnlyRunnersHoldTasks ==
    \A n \in Notifier : npc[n] # "run" => local_tasks[n] = {}

\* NoMissedNotification, from the moment the recheck has failed.
ReadyAreCovered ==
    \A k \in Task :
        pc[k] \in {"arm", "returned"} /\ runs[k] = 0 /\ Ready(k)
          => \E n \in Notifier : npc[n] = "notify" \/ k \in local_tasks[n]

IInv ==
    /\ TypeOK
    /\ FreshTasks
    /\ RunsAgree
    /\ TimerAfterReturn
    /\ ParkedAreEnlisted
    /\ OnlyRunnersHoldTasks
    /\ ReadyAreCovered

\* The initial state, with no task submitted, satisfies the invariant.
LEMMA InitIInv == Init => IInv
  <1> SUFFICES ASSUME Init PROVE IInv
    OBVIOUS
  <1>1. TypeOK
    <2>1. destroyed \in BOOLEAN /\ tasks \subseteq Task
      BY Zenon DEF Init
    <2>2. level \in 0 .. MaxLevel /\ seq_no \in [Task -> 0 .. MaxLevel]
      BY MaxLevelAssumption DEF Init
    <2>3. QED BY <2>1, <2>2 DEF Init, TypeOK, PC, InCall
  <1>2. FreshTasks /\ RunsAgree /\ TimerAfterReturn
    BY DEF Init, FreshTasks, RunsAgree, TimerAfterReturn, Enlisted
  <1>3. ParkedAreEnlisted /\ OnlyRunnersHoldTasks
    BY DEF Init, ParkedAreEnlisted, OnlyRunnersHoldTasks
  <1>4. ReadyAreCovered
    BY DEF Init, ReadyAreCovered
  <1>5. QED BY <1>1, <1>2, <1>3, <1>4 DEF IInv

\* Every step of a caller, a notifier or a timer keeps the types.
LEMMA NextTypeOK == TypeOK /\ [Next]_vars => TypeOK'
  <1> SUFFICES ASSUME TypeOK, [Next]_vars PROVE TypeOK'
    OBVIOUS
  <1> USE MaxLevelAssumption DEF TypeOK, PC, InCall
  <1>1. ASSUME NEW k \in Task, NEW s \in 0 .. MaxLevel, NEW tmo \in BOOLEAN,
               Submit(k, s, tmo)
        PROVE TypeOK'
    BY <1>1 DEF Submit
  <1>2. ASSUME NEW k \in Task, Push(k) \/ Recheck(k) \/ Arm(k) PROVE TypeOK'
    BY <1>2 DEF Push, Recheck, Arm
  <1>3. ASSUME NEW k \in Task, Exchange(k) \/ Timer(k) PROVE TypeOK'
    <2>1. CASE Exchange(k)
      BY <2>1 DEF Exchange, RunOnce
    <2>2. CASE Timer(k) /\ RunOnce(k)
      BY <2>2 DEF Timer, RunOnce
    <2>3. CASE Timer(k) /\ UNCHANGED <<has_done, runs>>
      BY <2>3 DEF Timer
    <2>4. QED BY <1>3, <2>1, <2>2, <2>3 DEF Timer
  <1>4. ASSUME NEW n \in Notifier, Write(n) \/ Destroy(n) PROVE TypeOK'
    <2>1. CASE Write(n)
      BY <2>1 DEF Write
    <2>2. CASE Destroy(n)
      <3>1. destroyed' \in BOOLEAN
        BY <2>2, Zenon DEF Destroy
      <3>2. QED BY <2>2, <3>1 DEF Destroy
    <2>3. QED BY <1>4, <2>1, <2>2
  <1>5. ASSUME NEW n \in Notifier, NotifyAll(n) \/ RunATaskListReturn(n)
        PROVE TypeOK'
    BY <1>5 DEF NotifyAll, RunATaskListReturn
  <1>6. ASSUME NEW n \in Notifier, RunATask(n) PROVE TypeOK'
    BY <1>6 DEF RunATask, RunOnce
  <1>7. CASE UNCHANGED vars
    BY <1>7 DEF vars
  <1>8. QED
    BY <1>1, <1>2, <1>3, <1>4, <1>5, <1>6, <1>7 DEF Next

\* Every step of a caller, a notifier or a timer keeps the invariant.
LEMMA NextIInv == IInv /\ [Next]_vars => IInv'
  <1> SUFFICES ASSUME IInv, [Next]_vars
               PROVE  /\ (FreshTasks /\ RunsAgree /\ TimerAfterReturn)'
                      /\ (ParkedAreEnlisted /\ OnlyRunnersHoldTasks)'
                      /\ ReadyAreCovered'
    BY NextTypeOK DEF IInv
  <1> USE MaxLevelAssumption
      DEF IInv, TypeOK, PC, InCall, FreshTasks, RunsAgree, TimerAfterReturn,
          ParkedAreEnlisted, OnlyRunnersHoldTasks, ReadyAreCovered, Enlisted, Ready
  <1> DEFINE Goal == /\ (FreshTasks /\ RunsAgree /\ TimerAfterReturn)'
                     /\ (ParkedAreEnlisted /\ OnlyRunnersHoldTasks)'
                     /\ ReadyAreCovered'
  <1>1. ASSUME NEW k \in Task, NEW s \in 0 .. MaxLevel, NEW tmo \in BOOLEAN,
               Submit(k, s, tmo)
        PROVE Goal
    BY <1>1 DEF Submit
  <1>2. ASSUME NEW k \in Task, Push(k) PROVE Goal
    BY <1>2 DEF Push
  <1>3. ASSUME NEW k \in Task, Recheck(k) PROVE Goal
    BY <1>3 DEF Recheck
  <1>4. ASSUME NEW k \in Task, Exchange(k) PROVE Goal
    BY <1>4 DEF Exchange, RunOnce
  <1>5. ASSUME NEW k \in Task, Arm(k) PROVE Goal
    BY <1>5 DEF Arm
  <1>6. ASSUME NEW k \in Task, Timer(k) PROVE Goal
    BY <1>6 DEF Timer, RunOnce, Alive
  <1>7. ASSUME NEW n \in Notifier, Write(n) PROVE Goal
    BY <1>7 DEF Write
  <1>8. ASSUME NEW n \in Notifier, Destroy(n) PROVE Goal
    BY <1>8 DEF Destroy
  <1>9. ASSUME NEW n \in Notifier, NotifyAll(n) PROVE Goal
    BY <1>9 DEF NotifyAll
  <1>10. ASSUME NEW n \in Notifier, RunATask(n) PROVE Goal
    BY <1>10 DEF RunATask, RunOnce
  <1>11. ASSUME NEW n \in Notifier, RunATaskListReturn(n) PROVE Goal
    BY <1>11 DEF RunATaskListReturn
  <1>12. ASSUME UNCHANGED vars PROVE Goal
    BY <1>12 DEF vars
  <1> HIDE MaxLevelAssumption
      DEF Goal, IInv, TypeOK, PC, InCall, FreshTasks, RunsAgree, TimerAfterReturn,
          ParkedAreEnlisted, OnlyRunnersHoldTasks, ReadyAreCovered, Enlisted, Ready
  <1>13. Goal
    BY <1>1, <1>2, <1>3, <1>4, <1>5, <1>6, <1>7, <1>8, <1>9, <1>10, <1>11,
       <1>12 DEF Next
  <1>14. QED BY <1>13 DEF Goal

\* Every reachable state of the condition variable satisfies the inductive
\* invariant.
LEMMA AlwaysIInv == Spec => []IInv
  BY InitIInv, NextIInv, PTL DEF Spec

\* No task is handed to the executor twice, whichever of the recheck, the
\* notifiers, the timer and the destructor race for it.
THEOREM RunsAtMostOnce == Spec => []AtMostOnce
  <1>1. IInv => \A k \in Task : runs[k] \in {0, 1}
    BY Zenon DEF IInv, RunsAgree
  <1>2. IInv => AtMostOnce
    <2>1. ASSUME NEW r \in {0, 1} PROVE r <= 1
      OBVIOUS
    <2>2. QED BY <1>1, <2>1, Zenon DEF AtMostOnce
  <1>3. QED BY <1>2, AlwaysIInv, PTL

\* No notification is missed between the first check of the predicate and the
\* push to the list.
THEOREM NotificationsAreNotMissed == Spec => []NoMissedNotification
  <1>1. IInv => NoMissedNotification
    BY DEF IInv, ReadyAreCovered, NoMissedNotification
  <1>2. QED BY <1>1, AlwaysIInv, PTL

\* A timer whose weak_ptr is dead belongs to a task that has run.
THEOREM TimersLoseNothing == Spec => []TimerLosesNothing
  <1>1. IInv => TimerLosesNothing
    BY DEF IInv, TimerAfterReturn, ParkedAreEnlisted, RunsAgree, Enlisted, Alive,
           TimerLosesNothing
  <1>2. QED BY <1>1, AlwaysIInv, PTL
=============================================================================
