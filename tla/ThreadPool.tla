----------------------------- MODULE ThreadPool -----------------------------
(***************************************************************************)
(* detail::ThreadPool and to_thread (include/coro/thread.hpp): a queue of  *)
(* jobs, a mutex and a condition variable, worker threads, and the threads *)
(* that submit jobs and stop the pool.                                     *)
(*                                                                         *)
(* A critical section of the mutex is a step; notify_one and notify_all,   *)
(* which the code calls outside it, are steps of their own.  The future    *)
(* that carries the answer to the coroutine is the module Future's.        *)
(***************************************************************************)
EXTENDS Integers, Sequences, FiniteSets

CONSTANTS Jobs,       \* the calls of to_thread, one job each
          Workers,    \* workers_
          Limits,     \* the values of max_pending_ to try; 0: no limit
          None        \* no job

ASSUME ThreadPoolAssumption ==
    /\ IsFiniteSet(Workers) /\ Workers # {}
    /\ Limits \subseteq Nat /\ None \notin Jobs

VARIABLES max_pending, \* max_pending_: chosen once
          tasks,       \* tasks_
          stopping,    \* stopping_
          at,          \* where each worker is: "run" its loop, "sleep" in cv_, "task", "exit"
          task,        \* the job each worker has taken
          job,         \* where the submission of each job is
          stopper,     \* where stop_and_join is
          promise      \* the outcome set in each job's Promise

pool == <<max_pending, tasks, stopping>>
poolVars == <<pool, at, task, job, stopper, promise>>

-----------------------------------------------------------------------------
(* submit_to_pool, try_submit                                              *)

Full == max_pending # 0 /\ Len(tasks) >= max_pending

try_submit(j) ==
    /\ job[j] = "new" /\ ~stopping /\ ~Full
    /\ tasks' = Append(tasks, j)
    /\ job' = [job EXCEPT ![j] = "notify"]
    /\ UNCHANGED <<max_pending, stopping, at, task, stopper, promise>>

\* try_submit returns false; an OverloadError is the outcome
Rejected(j) ==
    /\ job[j] = "new" /\ (stopping \/ Full)
    /\ job' = [job EXCEPT ![j] = "submitted"]
    /\ promise' = [promise EXCEPT ![j] = "overload"]
    /\ UNCHANGED <<pool, at, task, stopper>>

Asleep == {w \in Workers : at[w] = "sleep"}

\* Mutant: nobody is told of a job.
NotifyNobody(j) ==
    /\ job[j] = "notify"
    /\ job' = [job EXCEPT ![j] = "submitted"]
    /\ UNCHANGED <<pool, at, task, stopper, promise>>

\* cv_.notify_one()
Notify(j) ==
    /\ job[j] = "notify"
    /\ job' = [job EXCEPT ![j] = "submitted"]
    /\ IF Asleep = {} THEN UNCHANGED at
                      ELSE \E w \in Asleep : at' = [at EXCEPT ![w] = "run"]
    /\ UNCHANGED <<pool, task, stopper, promise>>

-----------------------------------------------------------------------------
(* worker_loop: one pass through the critical section.                     *)

WorkerSleep(w) ==
    /\ at[w] = "run" /\ ~stopping /\ tasks = <<>>
    /\ at' = [at EXCEPT ![w] = "sleep"]
    /\ UNCHANGED <<pool, task, job, stopper, promise>>

\* cv_.wait may return for no reason; the predicate is evaluated again
WorkerSpurious(w) ==
    /\ at[w] = "sleep"
    /\ at' = [at EXCEPT ![w] = "run"]
    /\ UNCHANGED <<pool, task, job, stopper, promise>>

WorkerTake(w) ==
    /\ at[w] = "run" /\ tasks # <<>>
    /\ tasks' = Tail(tasks) /\ task' = [task EXCEPT ![w] = Head(tasks)]
    /\ at' = [at EXCEPT ![w] = "task"]
    /\ UNCHANGED <<max_pending, stopping, job, stopper, promise>>

\* Mutant: a worker leaves as soon as it sees stopping_.
WorkerExitEarly(w) ==
    /\ at[w] = "run" /\ stopping
    /\ at' = [at EXCEPT ![w] = "exit"]
    /\ UNCHANGED <<pool, task, job, stopper, promise>>

WorkerExit(w) ==
    /\ at[w] = "run" /\ stopping /\ tasks = <<>>
    /\ at' = [at EXCEPT ![w] = "exit"]
    /\ UNCHANGED <<pool, task, job, stopper, promise>>

\* task(): the callable's value or exception goes into the Promise
RunTask(w) ==
    /\ at[w] = "task"
    /\ \E a \in {"value", "exception"} : promise' = [promise EXCEPT ![task[w]] = a]
    /\ task' = [task EXCEPT ![w] = None]
    /\ at' = [at EXCEPT ![w] = "run"]
    /\ UNCHANGED <<pool, job, stopper>>

-----------------------------------------------------------------------------
(* stop_and_join, of shutdown() or of the destructor                       *)

stop ==
    /\ stopper = "no"
    /\ stopping' = TRUE
    /\ stopper' = "notify"
    /\ UNCHANGED <<max_pending, tasks, at, task, job, promise>>

NotifyAll ==
    /\ stopper = "notify"
    /\ stopper' = "join"
    /\ at' = [w \in Workers |-> IF at[w] = "sleep" THEN "run" ELSE at[w]]
    /\ UNCHANGED <<pool, task, job, promise>>

Join ==
    /\ stopper = "join" /\ \A w \in Workers : at[w] = "exit"
    /\ stopper' = "joined"
    /\ UNCHANGED <<pool, at, task, job, promise>>

-----------------------------------------------------------------------------
PoolInit ==
    /\ max_pending \in Limits /\ tasks = <<>> /\ stopping = FALSE
    /\ at = [w \in Workers |-> "run"] /\ task = [w \in Workers |-> None]
    /\ job = [j \in Jobs |-> "new"] /\ stopper = "no"
    /\ promise = [j \in Jobs |-> "none"]

Work(w) == WorkerSleep(w) \/ WorkerTake(w) \/ WorkerExit(w) \/ RunTask(w)

PoolNext ==
    \/ stop \/ NotifyAll \/ Join
    \/ \E j \in Jobs : try_submit(j) \/ Rejected(j) \/ Notify(j)
    \/ \E w \in Workers : Work(w) \/ WorkerSpurious(w)

PoolSpec == PoolInit /\ [][PoolNext]_poolVars

\* The threads go on, and a job ends.  No spurious wake-up is relied on.
PoolFairness ==
    /\ WF_poolVars(NotifyAll) /\ WF_poolVars(Join)
    /\ \A j \in Jobs : WF_poolVars(Notify(j))
    /\ \A w \in Workers : WF_poolVars(Work(w))

PoolFairSpec == PoolSpec /\ PoolFairness

-----------------------------------------------------------------------------
(* Properties                                                              *)

PoolTypeOK ==
    /\ max_pending \in Limits /\ tasks \in Seq(Jobs) /\ stopping \in BOOLEAN
    /\ at \in [Workers -> {"run", "sleep", "task", "exit"}]
    /\ task \in [Workers -> Jobs \cup {None}]
    /\ job \in [Jobs -> {"new", "notify", "submitted"}]
    /\ stopper \in {"no", "notify", "join", "joined"}
    /\ promise \in [Jobs -> {"none", "value", "exception", "overload"}]

Taken == {task[w] : w \in {v \in Workers : at[v] = "task"}}

E == INSTANCE Executor WITH
        Size <- Cardinality(Workers), queue <- tasks, busy <- Taken, answer <- promise,
        gate <- IF stopper = "joined" THEN "closed" ELSE IF stopping THEN "closing" ELSE "open"

\* The mutex and the condition variable implement the executor: jobs in order,
\* each once, none accepted after the stop, and the stop returns after the last.
IsExecutor == E!Spec

\* Whoever has handed over a job gets an answer: no notification is lost, with or
\* without a stop in between.
Answered == \A j \in Jobs : (job[j] # "new") ~> (promise[j] # "none")

=============================================================================
