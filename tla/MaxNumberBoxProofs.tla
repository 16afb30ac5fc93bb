------------------------- MODULE MaxNumberBoxProofs -------------------------
(***************************************************************************)
(* Proofs about MaxNumberBox, for any set of threads and any bound on the  *)
(* numbers.  The inductive invariant adds two facts to the properties:     *)
(* every thread inside wait() whose number is above the maximum is in      *)
(* waiters_ exactly once, and only a call with a timeout expires.          *)
(***************************************************************************)
EXTENDS MaxNumberBox, TLAPS

\* A thread inside wait() whose number has not been reached is listed once.
UnreachedAreListed ==
    \A t \in Thread :
        pc[t] \in Waiting /\ num_to_wait[t] > max_number => waiters[t] = 1

ExpiredAreTimed == \A t \in Thread : pc[t] = "expired" => timed[t]

IInv ==
    /\ TypeOK
    /\ WaitersArePending
    /\ UnreachedAreListed
    /\ ExpiredAreTimed
    /\ NoLostWakeup

\* The initial state, an empty box with no call pending, satisfies the
\* inductive invariant.
LEMMA InitIInv == Init => IInv
  BY MaxNumAssumption
  DEF Init, IInv, TypeOK, WaitersArePending, UnreachedAreListed,
      ExpiredAreTimed, NoLostWakeup,
      Num, PC, Waiting

\* Every step of post() and wait() keeps the types.
LEMMA NextTypeOK == TypeOK /\ WaitersArePending /\ [Next]_vars => TypeOK'
  <1> SUFFICES ASSUME TypeOK, WaitersArePending, [Next]_vars PROVE TypeOK'
    OBVIOUS
  <1> USE MaxNumAssumption DEF TypeOK, Num, PC, Waiting
  <1>1. ASSUME NEW t \in Thread, NEW num \in Num, Post(t, num) PROVE TypeOK'
    BY <1>1 DEF Post, Satisfied
  <1>2. ASSUME NEW t \in Thread, NEW num \in Num, WaitReturnAtOnce(t, num)
        PROVE TypeOK'
    BY <1>2 DEF WaitReturnAtOnce
  <1>3. ASSUME NEW t \in Thread, NEW num \in Num, NEW tmo \in BOOLEAN,
               Wait(t, num, tmo)
        PROVE TypeOK'
    <2>1. waiters[t] = 0
      BY <1>3 DEF Wait, WaitersArePending
    <2>2. QED BY <1>3, <2>1 DEF Wait
  <1>4. ASSUME NEW t \in Thread, NotifyOne(t) PROVE TypeOK'
    BY <1>4 DEF NotifyOne
  <1>5. ASSUME NEW t \in Thread, PostReturn(t) PROVE TypeOK'
    BY <1>5 DEF PostReturn
  <1>6. ASSUME NEW t \in Thread, SpuriousWakeup(t) \/ Timeout(t) PROVE TypeOK'
    BY <1>6 DEF SpuriousWakeup, Timeout
  <1>7. ASSUME NEW t \in Thread, ReturnTrue(t) PROVE TypeOK'
    BY <1>7 DEF ReturnTrue
  <1>8. ASSUME NEW t \in Thread, SleepAgain(t) PROVE TypeOK'
    BY <1>8 DEF SleepAgain
  <1>9. ASSUME NEW t \in Thread, ReturnFalse(t) PROVE TypeOK'
    BY <1>9 DEF ReturnFalse
  <1>10. CASE UNCHANGED vars
    BY <1>10 DEF vars
  <1>11. QED
    BY <1>1, <1>2, <1>3, <1>4, <1>5, <1>6, <1>7, <1>8, <1>9, <1>10 DEF Next

\* Every step of post() and wait() keeps the inductive invariant.
LEMMA NextIInv == IInv /\ [Next]_vars => IInv'
  <1> SUFFICES ASSUME IInv, [Next]_vars
               PROVE  (WaitersArePending /\ UnreachedAreListed /\ ExpiredAreTimed
                         /\ NoLostWakeup)'
    BY NextTypeOK DEF IInv
  <1> USE DEF IInv, TypeOK, WaitersArePending, UnreachedAreListed,
      ExpiredAreTimed, NoLostWakeup,
              Num, PC, Waiting
  <1> DEFINE Goal == (WaitersArePending /\ UnreachedAreListed /\ ExpiredAreTimed
                         /\ NoLostWakeup)'
  <1>1. ASSUME NEW t \in Thread, NEW num \in Num, Post(t, num) PROVE Goal
    <2>1. WaitersArePending' /\ UnreachedAreListed' /\ ExpiredAreTimed'
      BY <1>1, MaxNumAssumption DEF Post, Satisfied
    <2>2. ASSUME NEW w \in Thread, (pc[w] = "asleep")', num_to_wait[w] <= num
          PROVE  \E p \in Thread : (pc[p] = "notifying" /\ w \in to_notify[p])'
      <3>1. w # t /\ pc[w] = "asleep"
        BY <1>1, <2>2 DEF Post
      <3>2. CASE num_to_wait[w] > max_number
        <4>1. w \in Satisfied(num)
          BY <3>1, <3>2, <2>2 DEF Satisfied
        <4>2. (pc[t] = "notifying" /\ w \in to_notify[t])'
          BY <1>1, <4>1 DEF Post
        <4>3. QED BY <4>2
      <3>3. CASE ~(num_to_wait[w] > max_number)
        <4>1. num_to_wait[w] <= max_number
          BY <3>3, MaxNumAssumption
        <4>2. PICK p \in Thread : pc[p] = "notifying" /\ w \in to_notify[p]
          BY <3>1, <4>1
        <4>3. (pc[p] = "notifying" /\ w \in to_notify[p])'
          BY <1>1, <4>2 DEF Post
        <4>4. QED BY <4>3
      <3>4. QED BY <3>2, <3>3
    <2>3. NoLostWakeup'
      BY <1>1, <2>2 DEF Post
    <2>4. QED BY <2>1, <2>3
  <1>2. ASSUME NEW t \in Thread, NEW num \in Num, WaitReturnAtOnce(t, num)
        PROVE Goal
    BY <1>2 DEF WaitReturnAtOnce
  <1>3. ASSUME NEW t \in Thread, NEW num \in Num, NEW tmo \in BOOLEAN,
               Wait(t, num, tmo)
        PROVE Goal
    <2>1. WaitersArePending' /\ UnreachedAreListed' /\ ExpiredAreTimed'
      BY <1>3, MaxNumAssumption DEF Wait
    <2>2. NoLostWakeup'
      BY <1>3, MaxNumAssumption DEF Wait
    <2>3. QED BY <2>1, <2>2
  <1>4. ASSUME NEW t \in Thread, NotifyOne(t) PROVE Goal
    BY <1>4 DEF NotifyOne
  <1>5. ASSUME NEW t \in Thread, PostReturn(t) PROVE Goal
    BY <1>5 DEF PostReturn
  <1>6. ASSUME NEW t \in Thread, SpuriousWakeup(t) \/ Timeout(t) PROVE Goal
    BY <1>6 DEF SpuriousWakeup, Timeout
  <1>7. ASSUME NEW t \in Thread, ReturnTrue(t) PROVE Goal
    BY <1>7, MaxNumAssumption DEF ReturnTrue
  <1>8. ASSUME NEW t \in Thread, SleepAgain(t) PROVE Goal
    BY <1>8, MaxNumAssumption DEF SleepAgain
  <1>9. ASSUME NEW t \in Thread, ReturnFalse(t) PROVE Goal
    BY <1>9, MaxNumAssumption DEF ReturnFalse
  <1>10. CASE UNCHANGED vars
    BY <1>10 DEF vars
  <1>11. QED
    BY <1>1, <1>2, <1>3, <1>4, <1>5, <1>6, <1>7, <1>8, <1>9, <1>10 DEF Next

\* Every reachable state of post() and wait() satisfies the inductive invariant.
LEMMA AlwaysIInv == Spec => []IInv
  BY InitIInv, NextIInv, PTL DEF Spec

\* The CHECK in the timeout path of wait() (max_number_box.cpp:99) never fires.
THEOREM TimeoutCheck == Spec => []TimeoutCheckHolds
  <1>1. IInv => TimeoutCheckHolds
    BY DEF IInv, UnreachedAreListed, TimeoutCheckHolds, Waiting
  <1>2. QED BY <1>1, AlwaysIInv, PTL

\* post() misses no waiter although it notifies outside the mutex.
THEOREM WakeupsAreNotLost == Spec => []NoLostWakeup
  <1>1. IInv => NoLostWakeup
    BY DEF IInv
  <1>2. QED BY <1>1, AlwaysIInv, PTL

\* waiters_ lists only threads inside wait() whose number is not reached, so
\* that it is empty when no call is pending (max_number_box.h:51).
THEOREM ListedWaitersArePending == Spec => []WaitersArePending
  <1>1. IInv => WaitersArePending
    BY DEF IInv
  <1>2. QED BY <1>1, AlwaysIInv, PTL

-----------------------------------------------------------------------------
\* A step of the box is a step of the abstract box, or leaves its maximum, its
\* pending calls and its results alone.
LEMMA StepRefines ==
    TypeOK /\ ExpiredAreTimed /\ [Next]_vars
      => [Abstract!SpecNext]_(Abstract!specVars)
  <1> SUFFICES ASSUME TypeOK, ExpiredAreTimed, [Next]_vars
               PROVE  [Abstract!SpecNext]_(Abstract!specVars)
    OBVIOUS
  <1> USE DEF TypeOK, PC, Waiting
  <1> DEFINE Goal == [Abstract!SpecNext]_(Abstract!specVars)
  <1>1. ASSUME NEW t \in Thread, NEW num \in Num, Post(t, num) PROVE Goal
    <2>1. Pending' = Pending
      BY <1>1 DEF Post, Pending
    <2>2. Abstract!SpecPost(num)
      BY <1>1, <2>1 DEF Post, Abstract!SpecPost
    <2>3. QED BY <2>2 DEF Abstract!SpecNext
  <1>2. ASSUME NEW t \in Thread, NEW num \in Num, WaitReturnAtOnce(t, num)
        PROVE Goal
    <2>1. Pending' = Pending /\ Pending[t] = {}
      BY <1>2 DEF WaitReturnAtOnce, Pending
    <2>2. Abstract!SpecReturnAtOnce(t, num)
      BY <1>2, <2>1 DEF WaitReturnAtOnce, Abstract!SpecReturnAtOnce
    <2>3. QED BY <2>2 DEF Abstract!SpecNext
  <1>3. ASSUME NEW t \in Thread, NEW num \in Num, NEW tmo \in BOOLEAN,
               Wait(t, num, tmo)
        PROVE Goal
    <2> DEFINE c == [num |-> num, timed |-> tmo]
    <2>1. Pending[t] = {} /\ Pending' = [Pending EXCEPT ![t] = {c}]
      BY <1>3 DEF Wait, Pending
    <2>2. Abstract!SpecBlock(t, c)
      BY <1>3, <2>1 DEF Wait, Abstract!SpecBlock
    <2>3. c \in Abstract!Call
      BY DEF Abstract!Call
    <2>4. QED BY <2>2, <2>3 DEF Abstract!SpecNext
  <1>4. ASSUME NEW t \in Thread, NotifyOne(t) PROVE Goal
    <2>1. Pending' = Pending
      BY <1>4 DEF NotifyOne, Pending
    <2>2. QED BY <1>4, <2>1 DEF NotifyOne, Abstract!specVars
  <1>5. ASSUME NEW t \in Thread,
               PostReturn(t) \/ SpuriousWakeup(t) \/ Timeout(t) \/ SleepAgain(t)
        PROVE Goal
    <2>1. Pending' = Pending
      BY <1>5 DEF PostReturn, SpuriousWakeup, Timeout, SleepAgain, Pending
    <2>2. QED
      BY <1>5, <2>1
      DEF PostReturn, SpuriousWakeup, Timeout, SleepAgain, Abstract!specVars
  <1>6. ASSUME NEW t \in Thread, ReturnTrue(t) \/ ReturnFalse(t) PROVE Goal
    <2> DEFINE c == [num |-> num_to_wait[t], timed |-> timed[t]]
    <2>1. Pending[t] = {c} /\ Pending' = [Pending EXCEPT ![t] = {}]
      BY <1>6 DEF ReturnTrue, ReturnFalse, Pending
    <2>2. Abstract!SpecReturn(t, c)
      BY <1>6, <2>1 DEF ReturnTrue, ReturnFalse, ExpiredAreTimed, Abstract!SpecReturn
    <2>3. c \in Abstract!Call
      BY DEF Abstract!Call
    <2>4. QED BY <2>2, <2>3 DEF Abstract!SpecNext
  <1>7. CASE UNCHANGED vars
    BY <1>7 DEF vars, Pending, Abstract!specVars
  <1>8. QED
    BY <1>1, <1>2, <1>3, <1>4, <1>5, <1>6, <1>7 DEF Next

\* max_number_box.cpp, with its mutex, waiter list and wakeups, implements the
\* box that max_number_box.h describes.
THEOREM Refinement == Spec => ImplementsBox
  <1>1. Init => Abstract!SpecInit
    BY DEF Init, Pending, Waiting, Abstract!SpecInit
  <1>2. IInv => TypeOK /\ ExpiredAreTimed
    BY DEF IInv
  <1>3. QED
    BY <1>1, <1>2, StepRefines, AlwaysIInv, PTL
    DEF Spec, ImplementsBox, Abstract!BoxSpec
=============================================================================
