------------------------------ MODULE EventLoop ------------------------------
(***************************************************************************)
(* coro::EventLoop::run_impl and the calls other threads make into it      *)
(* (include/coro/event_loop.hpp): the ready queue and its batch, the       *)
(* dispatched functions, the timer heap, the "going to sleep" protocol on  *)
(* awake_, stop(), and the wait primitive behind it (event_source.hpp).    *)
(*                                                                         *)
(* One loop thread runs run_impl; every other thread calls schedule(),     *)
(* dispatch() and stop() at any moment.  Each critical section of          *)
(* queue_mutex_ and each access to an atomic is a step of its own, so the  *)
(* steps of the threads interleave exactly where the code lets them.       *)
(*                                                                         *)
(* A coroutine body is arbitrary: each time it is resumed it finishes,     *)
(* yields, sleeps, starts an I/O operation, or parks until another thread  *)
(* schedules it.  Frame addresses are never reused here; generations,      *)
(* wait epochs and abandoned frames are the subject of module Frames.      *)
(***************************************************************************)
EXTENDS Integers, Sequences, FiniteSets

CONSTANTS Parkers,   \* coroutines that wait for a notification of another thread
          IoCoros,   \* coroutines that wait for I/O of this loop
          Fns,       \* functions other threads pass to dispatch()
          Threads,   \* the threads other than the loop's
          Stay,      \* TRUE: run_until_stopped(); FALSE: run()
          MaxTime,   \* bound on the clock
          NoCoro     \* no coroutine is being resumed

ASSUME LoopAssumption ==
    /\ Parkers \cap IoCoros = {}
    /\ NoCoro \notin Parkers \cup IoCoros
    /\ Stay \in BOOLEAN
    /\ MaxTime \in Nat

Coros == Parkers \cup IoCoros

VARIABLES pc,          \* where the loop thread is in run_impl
          cur,         \* the coroutine popped from the batch
          ready,       \* ready_queue_
          batch,       \* batch_
          live,        \* frames_.live_frames_ (active_coroutines_ is its size)
          scheduled,   \* the live frames whose FrameState::scheduled is set
          parked,      \* coroutines another thread may schedule
          timers,      \* timer_heap_
          now,         \* steady_clock
          fnq,         \* fn_queue_
          fnb,         \* fn_batch_
          pendfn,      \* has_pending_fn_
          running,     \* running_
          awake,       \* awake_
          woken,       \* a wake() the event source has not delivered yet
          io,          \* I/O operations in the kernel
          cq,          \* completed operations not yet reaped
          tpc,         \* where each other thread is in its call
          sent,        \* history: functions in the order dispatch() queued them
          ran          \* history: functions in the order they were called

loopVars  == <<pc, cur>>
queueVars == <<ready, batch, scheduled>>
fnVars    == <<fnq, fnb, pendfn, sent, ran>>
flagVars  == <<running, awake, woken>>
ioVars    == <<io, cq>>
vars == <<pc, cur, ready, batch, live, scheduled, parked, timers, now, fnq, fnb,
          pendfn, running, awake, woken, io, cq, tpc, sent, ran>>

TimerEntry == [deadline : 0..MaxTime, h : Coros, token : BOOLEAN]

LoopPC == {"idle", "start", "top", "work", "fnchk", "fnswap", "fn", "fncall",
           "timers", "due", "poll", "pollreap", "sleep", "check", "wait", "waitT",
           "waitreap", "woke", "quit", "swap", "batch", "resume", "exit", "caught", "exited"}

ThreadPC == {"idle", "chk", "xchg", "wake"}

Elems(s) == {s[i] : i \in DOMAIN s}

-----------------------------------------------------------------------------
(* Operations on the ready queue and the frames.                           *)

\* Mutant: FrameState::scheduled is not consulted.
CanReserveTwice(h) == h \in live

\* schedule() and the timer path: a frame that is live and not queued yet
\* is queued; any other handle is dropped.
CanReserve(h) == h \in live /\ h \notin scheduled

\* FrameTracker::try_reserve and the push, in one critical section
Schedule(h) ==
    /\ ready' = IF CanReserve(h) THEN Append(ready, h) ELSE ready
    /\ scheduled' = IF CanReserve(h) THEN scheduled \cup {h} ELSE scheduled

HasPending == io \cup cq # {}

\* Mutant: has_work() forgets the active coroutines.
HasQueuedWork == \/ ready # <<>> \/ batch # <<>> \/ fnq # <<>> \/ fnb # <<>>
                 \/ timers # {} \/ HasPending

HasWork == \/ ready # <<>> \/ batch # <<>> \/ fnq # <<>> \/ fnb # <<>>
           \/ timers # {} \/ HasPending \/ live # {}

-----------------------------------------------------------------------------
(* The loop thread: run_impl.                                              *)

Goto(from, to) == pc = from /\ pc' = to

\* run()/run_until_stopped(): a nested call throws, so the loop is idle.
RunStart ==
    /\ Goto("idle", "start")
    /\ ~running
    /\ running' = TRUE
    /\ UNCHANGED <<cur, queueVars, live, parked, timers, now, fnVars, awake,
                   woken, ioVars, tpc>>

RunBind ==
    /\ Goto("start", "top")
    /\ awake' = TRUE
    /\ UNCHANGED <<cur, queueVars, live, parked, timers, now, fnVars, running,
                   woken, ioVars, tpc>>

\* while (running_)
LoopTop ==
    /\ pc = "top"
    /\ pc' = IF running THEN "work" ELSE "exit"
    /\ UNCHANGED <<cur, queueVars, live, parked, timers, now, fnVars, flagVars,
                   ioVars, tpc>>

\* if (!stay && !has_work()) break
LoopWork ==
    /\ pc = "work"
    /\ pc' = IF ~Stay /\ ~HasWork THEN "exit" ELSE "fnchk"
    /\ UNCHANGED <<cur, queueVars, live, parked, timers, now, fnVars, flagVars,
                   ioVars, tpc>>

\* The flag is cleared before the queue is drained.
FnCheck ==
    /\ pc = "fnchk"
    /\ IF fnb = <<>> /\ pendfn
       THEN pc' = "fnswap" /\ pendfn' = FALSE
       ELSE pc' = "fn" /\ pendfn' = pendfn
    /\ UNCHANGED <<cur, queueVars, live, parked, timers, now, fnq, fnb, sent,
                   ran, flagVars, ioVars, tpc>>

FnSwap ==
    /\ Goto("fnswap", "fn")
    /\ fnb' = fnq
    /\ fnq' = fnb
    /\ UNCHANGED <<cur, queueVars, live, parked, timers, now, pendfn, sent, ran,
                   flagVars, ioVars, tpc>>

\* Mutant: has_pending_fn_ is cleared after the queue is drained.
FnPopClearsFlag ==
    /\ pc = "fn"
    /\ IF fnb = <<>>
       THEN pc' = "timers" /\ pendfn' = FALSE /\ UNCHANGED <<fnb, ran>>
       ELSE /\ pc' = "fncall" /\ ran' = Append(ran, Head(fnb)) /\ fnb' = Tail(fnb)
            /\ UNCHANGED pendfn
    /\ UNCHANGED <<cur, queueVars, live, parked, timers, now, fnq, sent, flagVars,
                   ioVars, tpc>>

\* The function leaves fn_batch_ before it is called.
FnPop ==
    /\ pc = "fn"
    /\ IF fnb = <<>>
       THEN pc' = "timers" /\ UNCHANGED <<fnb, ran>>
       ELSE pc' = "fncall" /\ ran' = Append(ran, Head(fnb)) /\ fnb' = Tail(fnb)
    /\ UNCHANGED <<cur, queueVars, live, parked, timers, now, fnq, pendfn, sent,
                   flagVars, ioVars, tpc>>

FnReturn ==
    /\ Goto("fncall", "fn")
    /\ UNCHANGED <<cur, queueVars, live, parked, timers, now, fnVars, flagVars,
                   ioVars, tpc>>

\* Mutant: the exception discards the rest of fn_batch_.
FnThrowDropsBatch ==
    /\ Goto("fncall", "caught")
    /\ fnb' = <<>>
    /\ UNCHANGED <<cur, queueVars, live, parked, timers, now, fnq, pendfn, sent, ran,
                   flagVars, ioVars, tpc>>

\* The callback throws: run_impl restores its state and rethrows.
FnThrow ==
    /\ Goto("fncall", "caught")
    /\ UNCHANGED <<cur, queueVars, live, parked, timers, now, fnVars, flagVars,
                   ioVars, tpc>>

Earliest(e) == e \in timers /\ \A o \in timers : e.deadline <= o.deadline

\* process_timers, one heap entry per step.  TimerHeap::drain first drops the
\* consumed entries from the top of the heap, due or not ...
TimerStale ==
    /\ pc = "timers"
    /\ \E e \in timers : Earliest(e) /\ e.token /\ timers' = timers \ {e}
    /\ UNCHANGED <<loopVars, queueVars, live, parked, now, fnVars, flagVars, ioVars, tpc>>

TimersFresh ==
    /\ Goto("timers", "due")
    /\ timers # {} => \E e \in timers : Earliest(e) /\ ~e.token
    /\ UNCHANGED <<cur, queueVars, live, parked, timers, now, fnVars, flagVars,
                   ioVars, tpc>>

\* ... then moves the due ones to the ready queue, except consumed ones.
TimerDue ==
    /\ pc = "due"
    /\ \E e \in timers :
        /\ Earliest(e)
        /\ e.deadline <= now
        /\ timers' = timers \ {e}
        /\ IF e.token THEN UNCHANGED <<ready, scheduled>> ELSE Schedule(e.h)
    /\ UNCHANGED <<loopVars, batch, live, parked, now, fnVars, flagVars, ioVars, tpc>>

TimersDone ==
    /\ Goto("due", "poll")
    /\ \A e \in timers : e.deadline > now
    /\ UNCHANGED <<cur, queueVars, live, parked, timers, now, fnVars, flagVars,
                   ioVars, tpc>>

\* The fairness poll: with ready work and pending I/O, wait_for(0).
Poll ==
    /\ pc = "poll"
    /\ IF (ready # <<>> \/ batch # <<>>) /\ HasPending
       THEN pc' = "pollreap" /\ woken' = FALSE
       ELSE pc' = "sleep" /\ woken' = woken
    /\ UNCHANGED <<cur, queueVars, live, parked, timers, now, fnVars, running,
                   awake, ioVars, tpc>>

\* wait_for hands each completed operation's coroutine to schedule().
Reap ==
    /\ pc \in {"pollreap", "waitreap"}
    /\ \E h \in cq : cq' = cq \ {h} /\ Schedule(h)
    /\ UNCHANGED <<pc, cur, batch, live, parked, timers, now, fnVars, flagVars,
                   io, tpc>>

ReapDone ==
    /\ cq = {}
    /\ Goto("pollreap", "sleep") \/ Goto("waitreap", "woke")
    /\ UNCHANGED <<cur, queueVars, live, parked, timers, now, fnVars, flagVars,
                   ioVars, tpc>>

\* The sleep protocol: declare first ...
DeclareSleep ==
    /\ Goto("sleep", "check")
    /\ awake' = FALSE
    /\ UNCHANGED <<cur, queueVars, live, parked, timers, now, fnVars, running,
                   woken, ioVars, tpc>>

\* Mutant: the check under the lock forgets fn_queue_.
CheckReadyOnly ==
    /\ pc = "check"
    /\ pc' = IF ready # <<>> \/ batch # <<>> THEN "woke"
             ELSE IF timers # {} THEN "waitT"
             ELSE IF Stay \/ HasPending \/ live # {} THEN "wait"
             ELSE "quit"
    /\ UNCHANGED <<cur, queueVars, live, parked, timers, now, fnVars, flagVars,
                   ioVars, tpc>>

\* ... then look at the queues again under the lock.
CheckQueues ==
    /\ pc = "check"
    /\ pc' = IF ready # <<>> \/ batch # <<>> \/ fnq # <<>> THEN "woke"
             ELSE IF timers # {} THEN "waitT"
             ELSE IF Stay \/ HasPending \/ live # {} THEN "wait"
             ELSE "quit"
    /\ UNCHANGED <<cur, queueVars, live, parked, timers, now, fnVars, flagVars,
                   ioVars, tpc>>

\* The event source returns: woken, a completion, or the earliest deadline.
WaitReturn ==
    /\ pc \in {"wait", "waitT"}
    /\ woken \/ cq # {} \/ (pc = "waitT" /\ \E e \in timers : e.deadline <= now)
    /\ pc' = "waitreap"
    /\ woken' = FALSE
    /\ UNCHANGED <<cur, queueVars, live, parked, timers, now, fnVars, running,
                   awake, ioVars, tpc>>

\* CVEventSource adds milliseconds::max() to the clock without clamping it: the
\* deadline overflows and the unlimited wait may return at once.
WaitOverflow ==
    /\ Goto("wait", "waitreap")
    /\ woken' = FALSE
    /\ UNCHANGED <<cur, queueVars, live, parked, timers, now, fnVars, running,
                   awake, ioVars, tpc>>

DeclareAwake ==
    /\ Goto("woke", "swap") \/ Goto("quit", "exit")
    /\ awake' = TRUE
    /\ UNCHANGED <<cur, queueVars, live, parked, timers, now, fnVars, running,
                   woken, ioVars, tpc>>

SwapBatch ==
    /\ Goto("swap", "batch")
    /\ IF batch = <<>> THEN batch' = ready /\ ready' = <<>>
                       ELSE UNCHANGED <<batch, ready>>
    /\ UNCHANGED <<cur, live, scheduled, parked, timers, now, fnVars, flagVars,
                   ioVars, tpc>>

\* Pop one entry; FrameTracker::release clears scheduled before the resume and
\* refuses a frame that is gone.
BatchPop ==
    /\ pc = "batch"
    /\ batch # <<>>
    /\ batch' = Tail(batch)
    /\ IF Head(batch) \in live
       THEN /\ pc' = "resume" /\ cur' = Head(batch)
            /\ scheduled' = scheduled \ {Head(batch)}
       ELSE UNCHANGED <<pc, cur, scheduled>>
    /\ UNCHANGED <<ready, live, parked, timers, now, fnVars, flagVars, ioVars, tpc>>

BatchDone ==
    /\ Goto("batch", "top")
    /\ batch = <<>>
    /\ UNCHANGED <<cur, queueVars, live, parked, timers, now, fnVars, flagVars,
                   ioVars, tpc>>

\* running_ = false; awake_ = true, after break and after an exception
Exit ==
    /\ Goto("exit", "exited") \/ Goto("caught", "exited")
    /\ running' = FALSE
    /\ UNCHANGED <<cur, queueVars, live, parked, timers, now, fnVars, awake,
                   woken, ioVars, tpc>>

Exited ==
    /\ Goto("exited", "idle")
    /\ awake' = TRUE
    /\ UNCHANGED <<cur, queueVars, live, parked, timers, now, fnVars, running,
                   woken, ioVars, tpc>>

-----------------------------------------------------------------------------
(* The coroutine being resumed, up to its next suspension.                 *)

\* sleep_awaiter::await_resume marks the entry of the sleep that just ended.
Consume(h) == {IF e.h = h THEN [e EXCEPT !.token = TRUE] ELSE e : e \in timers}

Suspend(h) ==
    /\ pc = "resume" /\ cur = h
    /\ pc' = "batch" /\ cur' = NoCoro
    /\ UNCHANGED <<batch, now, fnVars, flagVars, cq, tpc>>

Finish(h) ==
    /\ Suspend(h)
    /\ live' = live \ {h}
    /\ scheduled' = scheduled \ {h}
    /\ parked' = parked \ {h}
    /\ timers' = Consume(h)
    /\ UNCHANGED <<ready, io>>

Park(h) ==
    /\ Suspend(h)
    /\ h \in Parkers
    /\ parked' = parked \cup {h}
    /\ timers' = Consume(h)
    /\ UNCHANGED <<ready, live, scheduled, io>>

Yield(h) ==
    /\ Suspend(h)
    /\ Schedule(h)
    /\ parked' = parked \ {h}
    /\ timers' = Consume(h)
    /\ UNCHANGED <<live, io>>

Sleep(h) ==
    /\ Suspend(h)
    /\ \E d \in now..MaxTime :
        timers' = Consume(h) \cup {[deadline |-> d, h |-> h, token |-> FALSE]}
    /\ parked' = parked \ {h}
    /\ UNCHANGED <<ready, live, scheduled, io>>

StartIo(h) ==
    /\ Suspend(h)
    /\ h \in IoCoros
    /\ io' = io \cup {h}
    /\ timers' = Consume(h)
    /\ UNCHANGED <<ready, live, scheduled, parked>>

\* Task::start on the loop thread: before run(), in a dispatched function, or
\* in a coroutine; the frame is registered and queued.
Start(h) ==
    /\ pc \in {"idle", "fncall", "resume"}
    /\ h \notin live \cup Elems(ready) \cup Elems(batch) \cup {e.h : e \in timers}
    /\ h # cur
    /\ live' = live \cup {h}
    /\ ready' = Append(ready, h)
    /\ scheduled' = scheduled \cup {h}
    /\ UNCHANGED <<loopVars, batch, parked, timers, now, fnVars, flagVars, ioVars, tpc>>

-----------------------------------------------------------------------------
(* The other threads, the kernel and the clock.                            *)

\* schedule(h): the queueing under the lock; a dropped handle returns at once.
ThreadSchedule(t, h) ==
    /\ tpc[t] = "idle"
    /\ h \in parked
    /\ Schedule(h)
    /\ tpc' = [tpc EXCEPT ![t] = IF CanReserve(h) THEN "chk" ELSE "idle"]
    /\ UNCHANGED <<loopVars, batch, live, parked, timers, now, fnVars, flagVars, ioVars>>

ThreadDispatch(t, f) ==
    /\ tpc[t] = "idle"
    /\ f \notin Elems(sent)
    /\ fnq' = Append(fnq, f)
    /\ sent' = Append(sent, f)
    /\ pendfn' = TRUE
    /\ tpc' = [tpc EXCEPT ![t] = "chk"]
    /\ UNCHANGED <<loopVars, queueVars, live, parked, timers, now, fnb, ran,
                   flagVars, ioVars>>

\* Mutant: stop() without wake().
StopWithoutWake(t) ==
    /\ tpc[t] = "idle"
    /\ running' = FALSE
    /\ UNCHANGED <<loopVars, queueVars, live, parked, timers, now, fnVars, awake,
                   woken, ioVars, tpc>>

\* stop(): running_ = false, then wake()
ThreadStop(t) ==
    /\ tpc[t] = "idle"
    /\ running' = FALSE
    /\ tpc' = [tpc EXCEPT ![t] = "wake"]
    /\ UNCHANGED <<loopVars, queueVars, live, parked, timers, now, fnVars, awake,
                   woken, ioVars>>

\* cross_thread_wake_if_asleep: running_.load() && !awake_.exchange(true)
ThreadCheckRunning(t) ==
    /\ tpc[t] = "chk"
    /\ tpc' = [tpc EXCEPT ![t] = IF running THEN "xchg" ELSE "idle"]
    /\ UNCHANGED <<loopVars, queueVars, live, parked, timers, now, fnVars,
                   flagVars, ioVars>>

\* Mutant: the exchange never asks for a wake-up.
ExchangeWithoutWake(t) ==
    /\ tpc[t] = "xchg"
    /\ awake' = TRUE
    /\ tpc' = [tpc EXCEPT ![t] = "idle"]
    /\ UNCHANGED <<loopVars, queueVars, live, parked, timers, now, fnVars,
                   running, woken, ioVars>>

ThreadExchange(t) ==
    /\ tpc[t] = "xchg"
    /\ awake' = TRUE
    /\ tpc' = [tpc EXCEPT ![t] = IF awake THEN "idle" ELSE "wake"]
    /\ UNCHANGED <<loopVars, queueVars, live, parked, timers, now, fnVars,
                   running, woken, ioVars>>

\* EventSource::wake()
ThreadWake(t) ==
    /\ tpc[t] = "wake"
    /\ woken' = TRUE
    /\ tpc' = [tpc EXCEPT ![t] = "idle"]
    /\ UNCHANGED <<loopVars, queueVars, live, parked, timers, now, fnVars,
                   running, awake, ioVars>>

IoComplete(h) ==
    /\ h \in io
    /\ io' = io \ {h}
    /\ cq' = cq \cup {h}
    /\ UNCHANGED <<loopVars, queueVars, live, parked, timers, now, fnVars,
                   flagVars, tpc>>

Tick ==
    /\ now < MaxTime
    /\ now' = now + 1
    /\ UNCHANGED <<loopVars, queueVars, live, parked, timers, fnVars, flagVars,
                   ioVars, tpc>>

-----------------------------------------------------------------------------

Init ==
    /\ pc = "idle" /\ cur = NoCoro
    /\ ready = <<>> /\ batch = <<>> /\ live = {} /\ scheduled = {} /\ parked = {}
    /\ timers = {} /\ now = 0
    /\ fnq = <<>> /\ fnb = <<>> /\ pendfn = FALSE /\ sent = <<>> /\ ran = <<>>
    /\ running = FALSE /\ awake = TRUE /\ woken = FALSE
    /\ io = {} /\ cq = {}
    /\ tpc = [t \in Threads |-> "idle"]

Body(h) == Finish(h) \/ Park(h) \/ Yield(h) \/ Sleep(h) \/ StartIo(h)

\* The steps run_impl takes by itself once it has been called.
RunStep == \/ RunBind \/ LoopTop \/ LoopWork \/ FnCheck \/ FnSwap \/ FnPop
           \/ TimerStale \/ TimersFresh \/ TimerDue \/ TimersDone \/ Poll \/ Reap \/ ReapDone
           \/ DeclareSleep \/ CheckQueues \/ WaitReturn \/ DeclareAwake
           \/ SwapBatch \/ BatchPop \/ BatchDone \/ Exit \/ Exited

CallStep(t) == ThreadCheckRunning(t) \/ ThreadExchange(t) \/ ThreadWake(t)

Next == \/ RunStart \/ RunStep \/ FnReturn \/ FnThrow \/ WaitOverflow
        \/ \E h \in Coros : Body(h) \/ Start(h) \/ IoComplete(h)
        \/ \E t \in Threads : \/ CallStep(t) \/ ThreadStop(t)
                              \/ \E h \in Coros : ThreadSchedule(t, h)
                              \/ \E f \in Fns : ThreadDispatch(t, f)
        \/ Tick

Spec == Init /\ [][Next]_vars

\* The loop thread is never descheduled for ever while it has a step to take;
\* bodies and callbacks reach their next suspension or return; a thread inside
\* schedule/dispatch/stop leaves it; time passes.  Nobody has to call run(),
\* stop() or dispatch(), to complete an I/O or to schedule a parked coroutine,
\* and the overflow of the unlimited wait is not relied on.
Fairness ==
    /\ WF_vars(RunStep)
    /\ WF_vars(FnReturn)
    /\ WF_vars(\E h \in Coros : Body(h))
    /\ \A t \in Threads : WF_vars(CallStep(t))
    /\ WF_vars(Tick)

FairSpec == Spec /\ Fairness

-----------------------------------------------------------------------------
(* Properties.                                                             *)

TypeOK ==
    /\ pc \in LoopPC /\ cur \in Coros \cup {NoCoro}
    /\ ready \in Seq(Coros) /\ batch \in Seq(Coros)
    /\ live \subseteq Coros /\ scheduled \subseteq live /\ parked \subseteq live
    /\ timers \subseteq TimerEntry /\ now \in 0..MaxTime
    /\ fnq \in Seq(Fns) /\ fnb \in Seq(Fns) /\ sent \in Seq(Fns) /\ ran \in Seq(Fns)
    /\ pendfn \in BOOLEAN
    /\ running \in BOOLEAN /\ awake \in BOOLEAN /\ woken \in BOOLEAN
    /\ io \subseteq Coros /\ cq \subseteq Coros
    /\ tpc \in [Threads -> ThreadPC]

\* Some thread is bound to deliver a wake-up, or one is already pending.
WakeComing ==
    \/ woken
    \/ \E t \in Threads : \/ tpc[t] = "wake"
                          \/ tpc[t] = "xchg" /\ ~awake
                          \/ tpc[t] = "chk" /\ running /\ ~awake

\* The sleep protocol loses no wake-up: whenever the loop is blocked in the
\* event source while a coroutine or a function is queued, or after stop(),
\* a wake-up is pending or on its way (event_loop.hpp, "入睡协议").
NoLostWakeup ==
    pc \in {"wait", "waitT"} /\ (ready # <<>> \/ fnq # <<>> \/ ~running) => WakeComing

\* Dispatched functions are called in the order of dispatch(), each once, and
\* none is lost, across exceptions and later run() calls: what was sent is what
\* ran, then what the batch holds, then what the queue holds.
FnFifo == sent = ran \o fnb \o fnq

\* The has_pending_fn_ shortcut hides no queued function: it is down only while
\* the loop is about to drain the queue.
FnFlag == fnq # <<>> => pendfn \/ pc = "fnswap"

\* A live frame is in the ready queue or the batch exactly when its scheduled
\* flag is set, and never twice: no double resume from a double entry.
NoDuplicate(q) == \A i, j \in DOMAIN q : q[i] = q[j] => i = j

QueuedOnce ==
    /\ NoDuplicate(ready) /\ NoDuplicate(batch)
    /\ \A i \in DOMAIN ready : \A j \in DOMAIN batch : ready[i] # batch[j]
    /\ \A h \in live : h \in scheduled <=> \/ \E i \in DOMAIN ready : ready[i] = h
                                          \/ \E i \in DOMAIN batch : batch[i] = h

\* What run() leaves when it returns by itself: no coroutine, timer, I/O or
\* completion, nothing in the ready queue, and no function taken but not called.
NothingLeft ==
    /\ live = {} /\ timers = {} /\ io = {} /\ cq = {}
    /\ ready = <<>> /\ batch = <<>> /\ fnb = <<>>

\* The return of run_impl that no stop() and no exception asked for.
ReturnsByItself == pc = "exit" /\ pc' = "exited" /\ running

\* At the moment run_impl returns by itself, and not only when it decided to,
\* nothing is left but functions other threads dispatch meanwhile: whatever they
\* call between has_work() and "running_ = false", no coroutine comes back, no
\* completion stays unreaped.  run_until_stopped() never returns by itself.
ReturnsIdle == [][ReturnsByItself => ~Stay /\ NothingLeft]_vars

\* The same without the exception for functions: "run() 方法驱动整个循环，直到没有
\* 待处理的工作为止" (event_loop.hpp:32).
LeavesNothing == [][ReturnsByItself => NothingLeft /\ fnq = <<>>]_vars

\* A queued coroutine is resumed (or dropped with its frame), whatever the
\* other coroutines do, unless run() returns.
QueuedIsResumed == \A h \in Coros : h \in scheduled ~> (h \notin scheduled \/ pc = "idle")

\* A dispatched function is called, even if the loop was just falling asleep,
\* unless run() returns first.
DispatchedIsCalled ==
    \A f \in Fns : (pc # "idle" /\ f \in Elems(fnq)) ~> (f \in Elems(ran) \/ pc = "idle")

\* A completed I/O is reaped even when the loop's coroutines yield for ever (the
\* fairness poll), unless run() returns or other threads keep calling in: one
\* that queues a coroutine between each poll and the check that follows it
\* would keep the loop from ever waiting.
CompletionIsReaped ==
    \A h \in Coros : (pc # "idle" /\ h \in cq)
        ~> (h \notin cq \/ pc = "idle" \/ \E t \in Threads : tpc[t] # "idle")

\* Nothing handed to the loop is forgotten: coroutine, function or completion.
NothingForgotten == QueuedIsResumed /\ DispatchedIsCalled /\ CompletionIsReaped

\* stop() makes a running loop return, wherever the loop is when it comes.
StopStops == (pc # "idle" /\ ~running) ~> pc = "idle"

=============================================================================
