-------------------------- MODULE MaxNumberBoxSpec --------------------------
(***************************************************************************)
(* What MaxNumberBox promises its callers (max_number_box.h, lines 29-69): *)
(* a box that keeps the maximum of the numbers posted to it, and a wait()  *)
(* that returns true only once the maximum has reached the number asked    *)
(* for, and false only to a caller that gave a timeout and whose number is *)
(* still above the maximum.  No mutex, no waiter list, no wakeups.         *)
(***************************************************************************)
EXTENDS Naturals

CONSTANTS Thread,   \* the threads that call post() and wait()
          Num       \* the numbers they use

VARIABLES max,      \* the largest number received so far
          call,     \* call[t]: the wait() thread t is blocked in, a subset of Call
          result    \* result[t]: what t's last wait() returned

specVars == <<max, call, result>>

Call == [num : Num, timed : BOOLEAN]

SpecInit ==
    /\ max = 0
    /\ call = [t \in Thread |-> {}]
    /\ result = [t \in Thread |-> "none"]

SpecPost(n) ==
    /\ n > max
    /\ max' = n
    /\ UNCHANGED <<call, result>>

SpecBlock(t, c) ==
    /\ call[t] = {}
    /\ call' = [call EXCEPT ![t] = {c}]
    /\ UNCHANGED <<max, result>>

\* A wait() that finds its number reached returns at once.
SpecReturnAtOnce(t, n) ==
    /\ call[t] = {}
    /\ n <= max
    /\ result' = [result EXCEPT ![t] = "true"]
    /\ UNCHANGED <<max, call>>

SpecReturn(t, c) ==
    /\ call[t] = {c}
    /\ \/ c.num <= max /\ result' = [result EXCEPT ![t] = "true"]
       \/ c.num > max /\ c.timed /\ result' = [result EXCEPT ![t] = "false"]
    /\ call' = [call EXCEPT ![t] = {}]
    /\ UNCHANGED max

SpecNext ==
    \/ \E n \in Num : SpecPost(n)
    \/ \E t \in Thread, n \in Num : SpecReturnAtOnce(t, n)
    \/ \E t \in Thread, c \in Call : SpecBlock(t, c) \/ SpecReturn(t, c)

BoxSpec == SpecInit /\ [][SpecNext]_specVars
=============================================================================
