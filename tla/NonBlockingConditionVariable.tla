-------------------- MODULE NonBlockingConditionVariable --------------------
(***************************************************************************)
(* rocksdb_replicator/non_blocking_condition_variable.h: a replicate       *)
(* request that finds nothing to send is parked as a task, which is handed *)
(* to the executor by whichever comes first of the recheck of its          *)
(* predicate, a notifyAll(), its timer, and the destructor.                *)
(*                                                                         *)
(* The predicate is the one ReplicatedDB passes: the sequence number of    *)
(* the database (level) is above the one in the request.  A notifier is a  *)
(* thread in ReplicatedDB::Write() or in the pull callback: it raises the  *)
(* level and then calls notifyAll().  Each evaluation of the predicate,    *)
(* each critical section of tasks_mutex_ and each exchange of has_done is  *)
(* a step of its own.                                                      *)
(***************************************************************************)
EXTENDS Naturals

CONSTANTS Task,       \* the tasks, each submitted by a thread of its own
          Notifier,   \* the threads that write and notify
          MaxLevel    \* bound on the number of writes

ASSUME MaxLevelAssumption == MaxLevel \in Nat

VARIABLES
    level,       \* GetLatestSequenceNumber() of the database
    tasks,       \* the tasks linked in tasks_
    has_done,    \* has_done[k]: the atomic flag of the task
    runs,        \* runs[k]: how often k was handed to the executor
    pc,          \* where the thread that submits k is
    seq_no,      \* seq_no[k]: the number k's predicate compares with
    timed,       \* timed[k]: timeout_ms > 0
    timer,       \* timer[k]: the timer of k is armed
    npc,         \* where the notifier is
    local_tasks, \* the list a notifier has swapped out and not yet run
    destroyed    \* the destructor has been entered

vars == <<level, tasks, has_done, runs, pc, seq_no, timed, timer, npc,
          local_tasks, destroyed>>

InCall == {"push", "recheck", "exchange", "arm"}
PC == InCall \cup {"new", "returned"}

TypeOK ==
    /\ level \in 0 .. MaxLevel
    /\ tasks \subseteq Task
    /\ has_done \in [Task -> BOOLEAN]
    /\ runs \in [Task -> Nat]
    /\ pc \in [Task -> PC]
    /\ seq_no \in [Task -> 0 .. MaxLevel]
    /\ timed \in [Task -> BOOLEAN]
    /\ timer \in [Task -> BOOLEAN]
    /\ npc \in [Notifier -> {"idle", "notify", "run"}]
    /\ local_tasks \in [Notifier -> SUBSET Task]
    /\ destroyed \in BOOLEAN

Init ==
    /\ level = 0
    /\ tasks = {}
    /\ has_done = [k \in Task |-> FALSE]
    /\ runs = [k \in Task |-> 0]
    /\ pc = [k \in Task |-> "new"]
    /\ seq_no = [k \in Task |-> 0]
    /\ timed = [k \in Task |-> FALSE]
    /\ timer = [k \in Task |-> FALSE]
    /\ npc = [n \in Notifier |-> "idle"]
    /\ local_tasks = [n \in Notifier |-> {}]
    /\ destroyed = FALSE

-----------------------------------------------------------------------------
Ready(k) == level > seq_no[k]

RunOnce_NoExchange(k) ==
    /\ has_done' = [has_done EXCEPT ![k] = TRUE]
    /\ runs' = [runs EXCEPT ![k] = @ + 1]

\* should_i_run() and, when it says so, executor_->add().
RunOnce(k) ==
    /\ has_done' = [has_done EXCEPT ![k] = TRUE]
    /\ runs' = IF has_done[k] THEN runs ELSE [runs EXCEPT ![k] = @ + 1]

(***************************************************************************)
(* runIfConditionOrWaitForNotify(f, p, timeout_ms)                         *)
(***************************************************************************)
Submit(k, s, tmo) ==
    /\ pc[k] = "new"
    /\ ~destroyed
    /\ seq_no' = [seq_no EXCEPT ![k] = s]
    /\ timed' = [timed EXCEPT ![k] = tmo]
    /\ IF level > s
         THEN /\ runs' = [runs EXCEPT ![k] = @ + 1]
              /\ pc' = [pc EXCEPT ![k] = "returned"]
         ELSE /\ pc' = [pc EXCEPT ![k] = "push"]
              /\ UNCHANGED runs
    /\ UNCHANGED <<level, tasks, has_done, timer, npc, local_tasks, destroyed>>

Push(k) ==
    /\ pc[k] = "push"
    /\ tasks' = tasks \cup {k}
    /\ pc' = [pc EXCEPT ![k] = "recheck"]
    /\ UNCHANGED <<level, has_done, runs, seq_no, timed, timer, npc,
                   local_tasks, destroyed>>

Recheck_Missing(k) ==
    /\ pc[k] = "recheck"
    /\ pc' = [pc EXCEPT ![k] = "arm"]
    /\ UNCHANGED <<level, tasks, has_done, runs, seq_no, timed, timer, npc,
                   local_tasks, destroyed>>

Recheck(k) ==
    /\ pc[k] = "recheck"
    /\ pc' = [pc EXCEPT ![k] = IF Ready(k) THEN "exchange" ELSE "arm"]
    /\ UNCHANGED <<level, tasks, has_done, runs, seq_no, timed, timer, npc,
                   local_tasks, destroyed>>

\* A task that somebody else has run meanwhile still gets its timer.
Exchange(k) ==
    /\ pc[k] = "exchange"
    /\ RunOnce(k)
    /\ pc' = [pc EXCEPT ![k] = IF has_done[k] THEN "arm" ELSE "returned"]
    /\ UNCHANGED <<level, tasks, seq_no, timed, timer, npc, local_tasks,
                   destroyed>>

Arm(k) ==
    /\ pc[k] = "arm"
    /\ timer' = [timer EXCEPT ![k] = timed[k]]
    /\ pc' = [pc EXCEPT ![k] = "returned"]
    /\ UNCHANGED <<level, tasks, has_done, runs, seq_no, timed, npc,
                   local_tasks, destroyed>>

\* The task of a weak_ptr is alive while the list, a list being run, or the
\* submitting call holds it.
Alive(k) ==
    \/ k \in tasks
    \/ \E n \in Notifier : k \in local_tasks[n]
    \/ pc[k] \in InCall

Timer(k) ==
    /\ timer[k]
    /\ timer' = [timer EXCEPT ![k] = FALSE]
    /\ IF Alive(k) THEN RunOnce(k) ELSE UNCHANGED <<has_done, runs>>
    /\ UNCHANGED <<level, tasks, pc, seq_no, timed, npc, local_tasks,
                   destroyed>>

-----------------------------------------------------------------------------
(***************************************************************************)
(* A write to the database followed by notifyAll(), and the destructor.    *)
(***************************************************************************)
Write_OffByOne(n) ==
    /\ npc[n] = "idle"
    /\ ~destroyed
    /\ level <= MaxLevel
    /\ level' = level + 1
    /\ npc' = [npc EXCEPT ![n] = "notify"]
    /\ UNCHANGED <<tasks, has_done, runs, pc, seq_no, timed, timer,
                   local_tasks, destroyed>>

Write(n) ==
    /\ npc[n] = "idle"
    /\ ~destroyed
    /\ level < MaxLevel
    /\ level' = level + 1
    /\ npc' = [npc EXCEPT ![n] = "notify"]
    /\ UNCHANGED <<tasks, has_done, runs, pc, seq_no, timed, timer,
                   local_tasks, destroyed>>

NotifyAll(n) ==
    /\ npc[n] = "notify"
    /\ local_tasks' = [local_tasks EXCEPT ![n] = tasks]
    /\ tasks' = {}
    /\ npc' = [npc EXCEPT ![n] = "run"]
    /\ UNCHANGED <<level, has_done, runs, pc, seq_no, timed, timer, destroyed>>

RunATask_Skip(n) ==
    /\ npc[n] = "run"
    /\ \E k \in local_tasks[n] :
         /\ IF timed[k] THEN UNCHANGED <<has_done, runs>> ELSE RunOnce(k)
         /\ local_tasks' = [local_tasks EXCEPT ![n] = @ \ {k}]
    /\ UNCHANGED <<level, tasks, pc, seq_no, timed, timer, npc, destroyed>>

RunATask(n) ==
    /\ npc[n] = "run"
    /\ \E k \in local_tasks[n] :
         /\ RunOnce(k)
         /\ local_tasks' = [local_tasks EXCEPT ![n] = @ \ {k}]
    /\ UNCHANGED <<level, tasks, pc, seq_no, timed, timer, npc, destroyed>>

RunATaskListReturn(n) ==
    /\ npc[n] = "run"
    /\ local_tasks[n] = {}
    /\ npc' = [npc EXCEPT ![n] = "idle"]
    /\ UNCHANGED <<level, tasks, has_done, runs, pc, seq_no, timed, timer,
                   local_tasks, destroyed>>

Destroy_DropsTasks(n) ==
    /\ ~destroyed
    /\ \A k \in Task : pc[k] \notin InCall
    /\ \A m \in Notifier : npc[m] = "idle"
    /\ destroyed' = TRUE
    /\ tasks' = {}
    /\ UNCHANGED <<level, has_done, runs, pc, seq_no, timed, timer, npc,
                   local_tasks>>

\* The destructor runs when no thread is inside a call (the callers hold a
\* shared_ptr to the ReplicatedDB); timers may still be armed.
Destroy(n) ==
    /\ ~destroyed
    /\ \A k \in Task : pc[k] \notin InCall
    /\ \A m \in Notifier : npc[m] = "idle"
    /\ destroyed' = TRUE
    /\ local_tasks' = [local_tasks EXCEPT ![n] = tasks]
    /\ tasks' = {}
    /\ npc' = [npc EXCEPT ![n] = "run"]
    /\ UNCHANGED <<level, has_done, runs, pc, seq_no, timed, timer>>

-----------------------------------------------------------------------------
CallStep(k) == Push(k) \/ Recheck(k) \/ Exchange(k) \/ Arm(k)
NotifyStep(n) == NotifyAll(n) \/ RunATask(n) \/ RunATaskListReturn(n)

Next ==
    \/ \E k \in Task, s \in 0 .. MaxLevel, tmo \in BOOLEAN : Submit(k, s, tmo)
    \/ \E k \in Task : Push(k) \/ Recheck(k) \/ Exchange(k) \/ Arm(k) \/ Timer(k)
    \/ \E n \in Notifier : Write(n) \/ Destroy(n)
    \/ \E n \in Notifier : NotifyAll(n) \/ RunATask(n) \/ RunATaskListReturn(n)

Spec == Init /\ [][Next]_vars

\* A thread inside a call goes on, and an armed timer fires.  Nothing obliges
\* anybody to write, to submit or to destroy.
Fairness ==
    /\ \A k \in Task : WF_vars(CallStep(k)) /\ WF_vars(Timer(k))
    /\ \A n \in Notifier : WF_vars(NotifyStep(n))

FairSpec == Spec /\ Fairness

-----------------------------------------------------------------------------
(***************************************************************************)
(* Properties                                                              *)
(***************************************************************************)

\* "f() will run in the executor exactly once" (lines 78-79), the safety half:
\* the immediate run, the recheck, the notifiers, the timer and the destructor
\* never hand the same task out twice.
AtMostOnce == \A k \in Task : runs[k] <= 1

\* The recheck closes the race with notifyAll() (line 102): when the call has
\* returned and the predicate holds, a task that has not run is one that a
\* notifier is about to collect or is about to run.
NoMissedNotification ==
    \A k \in Task :
        pc[k] = "returned" /\ runs[k] = 0 /\ Ready(k)
          => \E n \in Notifier : npc[n] = "notify" \/ k \in local_tasks[n]

\* A timer finds its task gone only if the task has run: the weak_ptr in the
\* timer loses nothing (lines 109-111).
TimerLosesNothing ==
    \A k \in Task : timer[k] /\ ~Alive(k) => runs[k] = 1

\* "exactly once", the liveness half: a submitted task with a timeout is run
\* by its timer at the latest, one whose predicate holds is run by the caller
\* or by a notifier, and the destructor leaves no task behind.
EventuallyRuns ==
    \A k \in Task :
        (pc[k] # "new" /\ (timed[k] \/ Ready(k) \/ destroyed)) ~> (runs[k] = 1)
=============================================================================
