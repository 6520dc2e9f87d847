----------------------------- MODULE Scheduler -----------------------------
(***************************************************************************)
(* coro::Scheduler (include/coro/scheduler.hpp): the start of the workers, *)
(* spawn_any, the runner coroutine run_factory, join, wait_all and         *)
(* ~Scheduler.                                                             *)
(*                                                                         *)
(* The owner's thread, one thread for each worker and one for each caller  *)
(* of join() share atomic counters and an Event.  A step is one access to  *)
(* them: at[th] is the next access of a call in progress on thread th.  A  *)
(* worker whose at is <<"free">> runs the next dispatched callback or the  *)
(* next turn of one of its tasks; a task may call spawn_any itself.  The   *)
(* choice of a worker reads its counters without a lock, so that any       *)
(* worker may come out as the least loaded.                                *)
(***************************************************************************)
EXTENDS Integers, Sequences, FiniteSets

CONSTANTS MaxTasks,   \* bound on the calls of spawn_any()
          Joiners,
          NumWorkers, \* workers_.size()
          Owner       \* the thread that owns the scheduler

Workers == 1..NumWorkers
Tasks == 1..MaxTasks  \* in the order of the calls

ASSUME SchedulerAssumption ==
    /\ NumWorkers \in Nat \ {0} /\ MaxTasks \in Nat
    /\ Owner \notin Workers \cup Joiners /\ Workers \cap Joiners = {}

VARIABLES stopped,    \* control::stopped
          running,    \* control::running
          idle,       \* control::idle: TRUE once join() has created it
          set,        \* its flag
          event_waiters,    \* its wait list
          pending,    \* pending_dispatches_
          active,     \* active_coroutines_ of each worker's loop
          looping,    \* running_ of each worker's loop
          started,    \* workers whose started is set
          status,     \* of each task
          place,      \* the worker of each task
          by,         \* the thread that spawned each task
          at,         \* what each thread does next
          before      \* history: the tasks that join() has to wait for

control == <<stopped, running, idle, set, event_waiters>>
loops == <<looping, started>>
schedVars == <<control, loops, pending, active, status, place, by, at, before>>

Threads == Workers \cup Joiners \cup {Owner}
NoCall(th) == at[th] = <<"free">>
Goes(th, next) == at' = [at EXCEPT ![th] = next]
Moves(th, next) ==
    /\ Goes(th, next)
    /\ UNCHANGED <<control, loops, pending, active, status, place, by, before>>

\* ~Scheduler has got to its workers.
Stopping == at[Owner][1] \in {"stop", "join", "destroyed"}

\* Counted in running: not done.
Live == {t \in Tasks : status[t] \in {"counted", "queued", "body"}}

-----------------------------------------------------------------------------
(* The constructor.                                                        *)

\* Mutant: a worker says it is ready before it runs its loop.
EnterLate(w) ==
    /\ \/ at[w] = <<"enter">> /\ started' = started \cup {w} /\ UNCHANGED looping
          /\ Goes(w, <<"publish">>)
       \/ at[w] = <<"publish">> /\ looping' = looping \cup {w} /\ UNCHANGED started
          /\ Goes(w, <<"free">>)
    /\ UNCHANGED <<control, pending, active, status, place, by, before>>

\* run_until_stopped sets running_; the first callback it runs publishes started.
Enter(w) ==
    /\ \/ at[w] = <<"enter">> /\ looping' = looping \cup {w} /\ UNCHANGED started
          /\ Goes(w, <<"publish">>)
       \/ at[w] = <<"publish">> /\ started' = started \cup {w} /\ UNCHANGED looping
          /\ Goes(w, <<"free">>)
    /\ UNCHANGED <<control, pending, active, status, place, by, before>>

\* The constructor returns when every worker has started.
Constructed ==
    /\ at[Owner] = <<"construct">> /\ started = Workers
    /\ Moves(Owner, <<"free">>)

-----------------------------------------------------------------------------
(* spawn_any, by the owner or by a task that runs on a worker.             *)

Callers == {Owner} \cup {w \in Workers : \E t \in Tasks : status[t] = "body" /\ place[t] = w}

\* accepting() is TRUE, or the call throws
spawn_any(th, t) ==
    /\ th \in Callers /\ NoCall(th)
    /\ status[t] = "new" /\ \A u \in 1..(t - 1) : status[u] # "new"
    /\ ~stopped
    /\ status' = [status EXCEPT ![t] = "called"] /\ by' = [by EXCEPT ![t] = th]
    /\ Goes(th, <<"pending", t>>)
    /\ UNCHANGED <<control, loops, pending, active, place, before>>

CountPending(th) ==
    /\ at[th][1] = "pending"
    /\ pending' = pending + 1
    /\ Goes(th, <<"running", at[th][2]>>)
    /\ UNCHANGED <<control, loops, active, status, place, by, before>>

CountRunning(th) ==
    /\ at[th][1] = "running"
    /\ running' = running + 1
    /\ status' = [status EXCEPT ![at[th][2]] = "counted"]
    /\ Goes(th, <<"dispatch", at[th][2]>>)
    /\ UNCHANGED <<loops, stopped, idle, set, event_waiters, pending, active, place, by, before>>

\* pick_least_loaded_index, EventLoop::dispatch
Dispatch(th) ==
    /\ at[th][1] = "dispatch"
    /\ LET t == at[th][2] IN
       /\ \E w \in Workers : place' = [place EXCEPT ![t] = w]
       /\ status' = [status EXCEPT ![t] = "queued"]
    /\ Goes(th, <<"free">>)
    /\ UNCHANGED <<control, loops, pending, active, by, before>>

-----------------------------------------------------------------------------
(* A worker: the dispatched callback, then the task.                       *)

\* run_factory, start(): on_coroutine_started counts the task.
StartTask(w, t) ==
    /\ NoCall(w) /\ status[t] = "queued" /\ place[t] = w
    /\ active' = [active EXCEPT ![w] = @ + 1]
    /\ status' = [status EXCEPT ![t] = "body"]
    /\ Goes(w, <<"started", t>>)
    /\ UNCHANGED <<control, loops, pending, place, by, before>>

Started(w) ==
    /\ at[w][1] = "started"
    /\ pending' = pending - 1
    /\ Goes(w, <<"free">>)
    /\ UNCHANGED <<control, loops, active, status, place, by, before>>

\* The task ends, however: ~scope takes it off running; the last one goes on to
\* the notification.
End(w, t) ==
    /\ NoCall(w) /\ status[t] = "body" /\ place[t] = w
    /\ running' = running - 1
    /\ status' = [status EXCEPT ![t] = "done"]
    /\ Goes(w, IF running = 1 THEN <<"notify">> ELSE <<"finish">>)
    /\ UNCHANGED <<loops, stopped, idle, set, event_waiters, pending, active, place, by, before>>

\* the Event is read under the lock ...
ReadIdle(w) ==
    /\ at[w] = <<"notify">>
    /\ Moves(w, IF idle THEN <<"set">> ELSE <<"finish">>)

\* ... and set(): the flag,
Set(w) ==
    /\ at[w] = <<"set">>
    /\ set' = TRUE
    /\ Goes(w, <<"swap">>)
    /\ UNCHANGED <<loops, stopped, running, idle, event_waiters, pending, active, status, place, by, before>>

\* Mutant: a joiner that is woken returns at once.
SwapReturns(w) ==
    /\ at[w] = <<"swap">>
    /\ event_waiters' = {}
    /\ at' = [th \in Threads |-> IF th = w THEN <<"finish">>
                                 ELSE IF th \in event_waiters THEN <<"joined">> ELSE at[th]]
    /\ UNCHANGED <<loops, stopped, running, idle, set, pending, active, status, place, by, before>>

\* then the wait list, whose members are scheduled
Swap(w) ==
    /\ at[w] = <<"swap">>
    /\ event_waiters' = {}
    /\ at' = [th \in Threads |-> IF th = w THEN <<"finish">>
                                 ELSE IF th \in event_waiters THEN <<"check">> ELSE at[th]]
    /\ UNCHANGED <<loops, stopped, running, idle, set, pending, active, status, place, by, before>>

\* on_coroutine_finished
Finished(w) ==
    /\ at[w] = <<"finish">>
    /\ active' = [active EXCEPT ![w] = @ - 1]
    /\ Goes(w, <<"free">>)
    /\ UNCHANGED <<control, loops, pending, status, place, by, before>>

-----------------------------------------------------------------------------
(* join()                                                                  *)

\* idle_event()
join(j) ==
    /\ NoCall(j) /\ started = Workers /\ ~Stopping
    /\ idle' = TRUE
    /\ before' = [before EXCEPT ![j] = Live]
    /\ Goes(j, <<"check">>)
    /\ UNCHANGED <<loops, stopped, running, set, event_waiters, pending, active, status, place, by>>

Check(j) ==
    /\ at[j] = <<"check">>
    /\ Moves(j, IF running > 0 THEN <<"clear">> ELSE <<"joined">>)

Clear(j) ==
    /\ at[j] = <<"clear">>
    /\ set' = FALSE
    /\ Goes(j, <<"recheck">>)
    /\ UNCHANGED <<loops, stopped, running, idle, event_waiters, pending, active, status, place, by, before>>

Recheck(j) ==
    /\ at[j] = <<"recheck">>
    /\ Moves(j, IF running = 0 THEN <<"joined">> ELSE <<"suspend">>)

\* Event::wait: the flag, read under the lock.  An earlier look in await_ready
\* only saves the lock.
Suspend(j) ==
    /\ at[j] = <<"suspend">>
    /\ IF set THEN Goes(j, <<"check">>) /\ UNCHANGED event_waiters
              ELSE Goes(j, <<"wait">>) /\ event_waiters' = event_waiters \cup {j}
    /\ UNCHANGED <<loops, stopped, running, idle, set, pending, active, status, place, by, before>>

-----------------------------------------------------------------------------
(* The owner: wait_all() and ~Scheduler.                                   *)

\* stop_accepting, the first step of ~Scheduler
stop_accepting ==
    /\ NoCall(Owner) /\ ~stopped
    /\ stopped' = TRUE
    /\ Goes(Owner, <<"wait_all">>)
    /\ UNCHANGED <<loops, running, idle, set, event_waiters, pending, active, status, place, by, before>>

wait_all ==
    /\ NoCall(Owner)
    /\ Moves(Owner, <<"wait_all">>)

\* Mutant: only the loops are asked, not the dispatches on their way.
RoundBlind ==
    /\ at[Owner] = <<"wait_all">>
    /\ Moves(Owner, <<"scan", 1>>)

\* A round: pending_dispatches_ first ...
Round ==
    /\ at[Owner] = <<"wait_all">> /\ pending = 0
    /\ Moves(Owner, <<"scan", 1>>)

\* ... then the workers, one by one; a busy one starts a new round.
Scan ==
    /\ at[Owner][1] = "scan"
    /\ LET w == at[Owner][2] IN
       Moves(Owner, IF active[w] > 0 THEN <<"wait_all">>
                   ELSE IF w + 1 \in Workers THEN <<"scan", w + 1>> ELSE <<"returned">>)

\* ~Scheduler goes on: the workers are stopped and joined, one by one.
StopWorker ==
    /\ \/ at[Owner] = <<"returned">> /\ stopped /\ Goes(Owner, <<"stop", 1>>)
          /\ UNCHANGED looping
       \/ /\ at[Owner][1] = "stop"
          /\ looping' = looping \ {at[Owner][2]}
          /\ Goes(Owner, <<"join", at[Owner][2]>>)
       \/ /\ at[Owner][1] = "join" /\ at[at[Owner][2]] = <<"exit">>
          /\ LET w == at[Owner][2] + 1
             IN  Goes(Owner, IF w \in Workers THEN <<"stop", w>> ELSE <<"destroyed">>)
          /\ UNCHANGED looping
    /\ UNCHANGED <<control, started, pending, active, status, place, by, before>>

\* The loop sees running_ lowered, at the end of a batch: its thread ends.
Exit(w) ==
    /\ NoCall(w) /\ w \notin looping
    /\ Moves(w, <<"exit">>)

-----------------------------------------------------------------------------
SchedulerInit ==
    /\ stopped = FALSE /\ running = 0 /\ idle = FALSE /\ set = FALSE /\ event_waiters = {}
    /\ pending = 0 /\ active = [w \in Workers |-> 0]
    /\ status = [t \in Tasks |-> "new"]
    /\ place = [t \in Tasks |-> 1] /\ by = [t \in Tasks |-> Owner]
    /\ looping = {} /\ started = {}
    /\ at = [th \in Threads |-> IF th \in Workers THEN <<"enter">>
                                ELSE IF th = Owner THEN <<"construct">> ELSE <<"free">>]
    /\ before = [j \in Joiners |-> {}]

Spawning(th) == CountPending(th) \/ CountRunning(th) \/ Dispatch(th)
Working(w) ==
    \/ Enter(w) \/ Exit(w) \/ Started(w) \/ ReadIdle(w) \/ Set(w) \/ Swap(w) \/ Finished(w)
    \/ \E t \in Tasks : StartTask(w, t) \/ End(w, t)
Joining(j) == Check(j) \/ Clear(j) \/ Recheck(j) \/ Suspend(j)

SchedulerNext ==
    \/ Constructed \/ stop_accepting \/ wait_all \/ Round \/ Scan \/ StopWorker
    \/ \E th \in Workers \cup {Owner} : Spawning(th) \/ \E t \in Tasks : spawn_any(th, t)
    \/ \E w \in Workers : Working(w)
    \/ \E j \in Joiners : join(j) \/ Joining(j)

SchedulerSpec == SchedulerInit /\ [][SchedulerNext]_schedVars

\* Every thread goes on, every task comes to its end, and wait_all polls until
\* it may return.
SchedulerFairness ==
    /\ WF_schedVars(Constructed) /\ WF_schedVars(Round) /\ WF_schedVars(Scan) /\ WF_schedVars(StopWorker)
    /\ \A th \in Workers \cup {Owner} : WF_schedVars(Spawning(th))
    /\ \A w \in Workers : WF_schedVars(Working(w))
    /\ \A j \in Joiners : WF_schedVars(Joining(j))

SchedulerFairSpec == SchedulerSpec /\ SchedulerFairness

-----------------------------------------------------------------------------
(* Properties                                                              *)

Ops == {"free", "pending", "running", "dispatch", "started", "notify", "set", "swap",
        "finish", "check", "clear", "recheck", "suspend", "wait", "joined", "wait_all",
        "scan", "returned", "construct", "enter", "publish", "stop", "join", "destroyed",
        "exit"}

SchedulerTypeOK ==
    /\ stopped \in BOOLEAN /\ idle \in BOOLEAN /\ set \in BOOLEAN
    /\ running \in 0..Cardinality(Tasks) /\ pending \in 0..Cardinality(Tasks)
    /\ event_waiters \subseteq Joiners /\ looping \subseteq Workers /\ started \subseteq Workers
    /\ active \in [Workers -> 0..Cardinality(Tasks)]
    /\ status \in [Tasks -> {"new", "called", "counted", "queued", "body", "done"}]
    /\ place \in [Tasks -> Workers] /\ by \in [Tasks -> Workers \cup {Owner}]
    /\ \A th \in Threads : at[th][1] \in Ops
    /\ before \in [Joiners -> SUBSET Tasks]

Unfinished == {t \in Tasks : status[t] \notin {"new", "done"}}

\* wait_all, ~Scheduler: when it returns, every task its thread has dispatched is
\* over, whatever tasks spawn meanwhile.
WaitAllExact ==
    at[Owner] = <<"returned">> => \A t \in Unfinished : by[t] # Owner

\* join() returns only when every task that was counted when it was called has
\* ended; a late notification about earlier tasks does not end it.
JoinExact == \A j \in Joiners : at[j] = <<"joined">> => before[j] \cap Live = {}

JoinEnds(j) == at[j] = <<"check">> ~> (at[j] = <<"joined">> \/ Stopping)

\* The join() of a program that has one coroutine that joins returns, unless the
\* scheduler goes away: the notification of the last task is not lost.  ~Scheduler
\* comes to its end: no worker misses its stop().
WaitsEnd ==
    /\ \A j \in Joiners : Joiners = {j} => JoinEnds(j)
    /\ stopped ~> at[Owner] = <<"destroyed">>

\* join() returns once the tasks are over, whichever other coroutines join too.
EveryJoinEnds == \A j \in Joiners : JoinEnds(j)

\* wait_all() blocks until all the tasks that have been dispatched are over.
AllDone == at[Owner] = <<"returned">> => Unfinished = {}

=============================================================================
