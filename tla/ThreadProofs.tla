----------------------------- MODULE ThreadProofs -----------------------------
(***************************************************************************)
(* Theorems about the two components that several threads enter: EventLoop *)
(* (any coroutines, functions and threads, for both run() and              *)
(* run_until_stopped()) and ThreadPool (any jobs, workers and limits).     *)
(* Each group of EventLoop's invariants is shown to be preserved by every  *)
(* step in a lemma of its own, one proof step per action.                  *)
(***************************************************************************)
EXTENDS EventLoop, ThreadPool, TLAPS, FiniteSetTheorems, SequenceTheorems

USE DEF Goto, loopVars, queueVars, fnVars, flagVars, ioVars

-----------------------------------------------------------------------------
(* The inductive invariant.                                                *)

\* The coroutine being resumed is a live frame.
CurLive == pc = "resume" => cur \in live

\* A wake-up is in the event source or inside EventSource::wake().
WakeSure == woken \/ \E t \in Threads : tpc[t] = "wake"

\* Somebody who set awake_ after the loop declared its sleep is waking it.
AsleepInv == pc \in {"check", "wait", "waitT"} /\ awake => WakeSure

\* After stop() the wake-up is kept until the loop looks at running_ again.  Only
\* the fairness poll may consume it, and then there is ready work, which keeps
\* the loop from sleeping.
Iterating == {"work", "fnchk", "fnswap", "fn", "fncall", "timers", "due", "poll",
              "pollreap", "sleep", "check", "wait", "waitT"}
StoppedInv ==
    ~running /\ pc \in Iterating
      => \/ WakeSure
         \/ pc \in {"pollreap", "sleep", "check"} /\ (ready # <<>> \/ batch # <<>>)

\* The function batch is empty whenever it is refilled and once it is drained.
FnDrained ==
    pc \in {"fnswap", "timers", "due", "poll", "pollreap", "sleep", "check"} => fnb = <<>>

TypeInv  == TypeOK /\ CurLive
SleepInv == AsleepInv /\ StoppedInv /\ NoLostWakeup
FnInv    == FnDrained /\ FnFlag /\ FnFifo

\* A loop on its way out that nobody stopped has nothing left but functions.
LeavingInv == pc \in {"quit", "exit"} /\ running => ~Stay /\ NothingLeft

IInv == TypeInv /\ SleepInv /\ FnInv /\ QueuedOnce /\ LeavingInv

-----------------------------------------------------------------------------
(* Operators.                                                              *)

\* Schedule only appends, and only a live handle that is not scheduled.
LEMMA ScheduleTypes ==
    ASSUME TypeOK, NEW h \in Coros, Schedule(h)
    PROVE  /\ ready' \in Seq(Coros)
           /\ scheduled' \subseteq live
           /\ ready # <<>> => ready' # <<>>
<1>1. CASE CanReserve(h)
  <2>1. ready' = Append(ready, h) /\ scheduled' = scheduled \cup {h}
    BY <1>1 DEF Schedule
  <2>2. ready' \in Seq(Coros) /\ ready' # <<>>
    BY <2>1, AppendProperties DEF TypeOK
  <2>3. QED
    BY <1>1, <2>1, <2>2 DEF TypeOK, CanReserve
<1>2. CASE ~CanReserve(h)
  BY <1>2 DEF TypeOK, Schedule
<1>3. QED
  BY <1>1, <1>2

\* Marking an entry consumed keeps it a timer entry.
LEMMA ConsumeTypes ==
    ASSUME timers \subseteq TimerEntry, NEW h \in Coros
    PROVE  Consume(h) \subseteq TimerEntry
BY DEF Consume, TimerEntry

-----------------------------------------------------------------------------
\* Every step keeps the types and resumes only live frames.
LEMMA TypeStep ==
    ASSUME TypeInv, [Next]_vars
    PROVE  TypeInv'
<1>1. CASE RunBind
  BY <1>1 DEF TypeInv, TypeOK, CurLive, RunBind, LoopPC
<1>2. CASE LoopTop
  BY <1>2 DEF TypeInv, TypeOK, CurLive, LoopTop, LoopPC
<1>3. CASE LoopWork
  BY <1>3 DEF TypeInv, TypeOK, CurLive, LoopWork, LoopPC
<1>4. CASE FnCheck
  BY <1>4 DEF TypeInv, TypeOK, CurLive, FnCheck, LoopPC
<1>5. CASE FnSwap
  BY <1>5 DEF TypeInv, TypeOK, CurLive, FnSwap, LoopPC
<1>6. CASE FnPop
  <2>1. CASE fnb = <<>>
    BY <1>6, <2>1 DEF TypeInv, TypeOK, CurLive, FnPop, LoopPC
  <2>2. CASE fnb # <<>>
    <3>1. Head(fnb) \in Fns /\ Tail(fnb) \in Seq(Fns)
      BY <2>2, HeadTailProperties DEF TypeInv, TypeOK
    <3>2. ran' = Append(ran, Head(fnb)) /\ fnb' = Tail(fnb)
      BY <1>6, <2>2 DEF FnPop
    <3>3. ran \in Seq(Fns)
      BY DEF TypeInv, TypeOK
    <3>4. ran' \in Seq(Fns) /\ fnb' \in Seq(Fns)
      BY <3>1, <3>2, <3>3
    <3>5. QED
      BY <1>6, <2>2, <3>4 DEF TypeInv, TypeOK, CurLive, FnPop, LoopPC
  <2>3. QED
    BY <2>1, <2>2
<1>7. CASE TimerStale
  BY <1>7 DEF TypeInv, TypeOK, CurLive, TimerStale, LoopPC
<1>8. CASE TimersFresh
  BY <1>8 DEF TypeInv, TypeOK, CurLive, TimersFresh, LoopPC
<1>9. CASE TimerDue
  <2>1. PICK e \in timers :
            /\ timers' = timers \ {e}
            /\ IF e.token THEN UNCHANGED <<ready, scheduled>> ELSE Schedule(e.h)
    BY <1>9 DEF TimerDue
  <2>2. e.h \in Coros
    BY DEF TypeInv, TypeOK, TimerEntry
  <2>3. ready' \in Seq(Coros) /\ scheduled' \subseteq live
    BY <2>1, <2>2, ScheduleTypes DEF TypeInv, TypeOK
  <2>4. QED
    BY <1>9, <2>1, <2>3 DEF TypeInv, TypeOK, CurLive, TimerDue
<1>10. CASE TimersDone
  BY <1>10 DEF TypeInv, TypeOK, CurLive, TimersDone, LoopPC
<1>11. CASE Poll
  BY <1>11 DEF TypeInv, TypeOK, CurLive, Poll, LoopPC
<1>12. CASE Reap
  <2>1. PICK h \in cq : cq' = cq \ {h} /\ Schedule(h)
    BY <1>12 DEF Reap
  <2>2. ready' \in Seq(Coros) /\ scheduled' \subseteq live
    BY <2>1, ScheduleTypes DEF TypeInv, TypeOK
  <2>3. QED
    BY <1>12, <2>1, <2>2 DEF TypeInv, TypeOK, CurLive, Reap
<1>13. CASE ReapDone
  BY <1>13 DEF TypeInv, TypeOK, CurLive, ReapDone, LoopPC
<1>14. CASE DeclareSleep
  BY <1>14 DEF TypeInv, TypeOK, CurLive, DeclareSleep, LoopPC
<1>15. CASE CheckQueues
  BY <1>15 DEF TypeInv, TypeOK, CurLive, CheckQueues, LoopPC
<1>16. CASE WaitReturn
  BY <1>16 DEF TypeInv, TypeOK, CurLive, WaitReturn, LoopPC
<1>17. CASE DeclareAwake
  BY <1>17 DEF TypeInv, TypeOK, CurLive, DeclareAwake, LoopPC
<1>18. CASE SwapBatch
  BY <1>18 DEF TypeInv, TypeOK, CurLive, SwapBatch, LoopPC
<1>19. CASE BatchPop
  BY <1>19 DEF TypeInv, TypeOK, CurLive, BatchPop, LoopPC
<1>20. CASE BatchDone
  BY <1>20 DEF TypeInv, TypeOK, CurLive, BatchDone, LoopPC
<1>21. CASE Exit
  BY <1>21 DEF TypeInv, TypeOK, CurLive, Exit, LoopPC
<1>22. CASE Exited
  BY <1>22 DEF TypeInv, TypeOK, CurLive, Exited, LoopPC
<1>23. CASE RunStart
  BY <1>23 DEF TypeInv, TypeOK, CurLive, RunStart, LoopPC
<1>24. CASE FnReturn
  BY <1>24 DEF TypeInv, TypeOK, CurLive, FnReturn, LoopPC
<1>25. CASE FnThrow
  BY <1>25 DEF TypeInv, TypeOK, CurLive, FnThrow, LoopPC
<1>26. CASE WaitOverflow
  BY <1>26 DEF TypeInv, TypeOK, CurLive, WaitOverflow, LoopPC
<1>27. ASSUME NEW h \in Coros, Body(h) \/ Start(h) \/ IoComplete(h)
      PROVE  TypeInv'
  <2>1. CASE Finish(h)
    BY <2>1, ConsumeTypes DEF TypeInv, TypeOK, CurLive, Finish, Suspend, LoopPC
  <2>2. CASE Park(h)
    BY <2>2, ConsumeTypes DEF TypeInv, TypeOK, CurLive, Park, Suspend, LoopPC
  <2>3. CASE Yield(h)
    BY <2>3, ConsumeTypes, ScheduleTypes DEF TypeInv, TypeOK, CurLive, Yield, Suspend, LoopPC
  <2>4. CASE Sleep(h)
    <3>1. PICK d \in now..MaxTime :
              timers' = Consume(h) \cup {[deadline |-> d, h |-> h, token |-> FALSE]}
      BY <2>4 DEF Sleep
    <3>2. d \in 0..MaxTime
      BY LoopAssumption DEF TypeInv, TypeOK, LoopAssumption
    <3>3. [deadline |-> d, h |-> h, token |-> FALSE] \in TimerEntry
      BY <3>2 DEF TimerEntry
    <3>4. timers' \subseteq TimerEntry
      BY <3>1, <3>3, ConsumeTypes DEF TypeInv, TypeOK
    <3>5. QED
      BY <2>4, <3>4 DEF TypeInv, TypeOK, CurLive, Sleep, Suspend, LoopPC
  <2>5. CASE StartIo(h)
    BY <2>5, ConsumeTypes DEF TypeInv, TypeOK, CurLive, StartIo, Suspend, LoopPC
  <2>6. CASE Start(h)
    BY <2>6 DEF TypeInv, TypeOK, CurLive, Start
  <2>7. CASE IoComplete(h)
    BY <2>7 DEF TypeInv, TypeOK, CurLive, IoComplete
  <2>8. QED
    BY <1>27, <2>1, <2>2, <2>3, <2>4, <2>5, <2>6, <2>7 DEF Body
<1>28. ASSUME NEW t \in Threads, CallStep(t) \/ ThreadStop(t)
      PROVE  TypeInv'
  <2>1. CASE ThreadCheckRunning(t)
    BY <2>1 DEF TypeInv, TypeOK, CurLive, ThreadCheckRunning, ThreadPC
  <2>2. CASE ThreadExchange(t)
    BY <2>2 DEF TypeInv, TypeOK, CurLive, ThreadExchange, ThreadPC
  <2>3. CASE ThreadWake(t)
    BY <2>3 DEF TypeInv, TypeOK, CurLive, ThreadWake, ThreadPC
  <2>4. CASE ThreadStop(t)
    BY <2>4 DEF TypeInv, TypeOK, CurLive, ThreadStop, ThreadPC
  <2>5. QED
    BY <1>28, <2>1, <2>2, <2>3, <2>4 DEF CallStep
<1>29. ASSUME NEW t \in Threads, NEW h \in Coros, ThreadSchedule(t, h)
      PROVE  TypeInv'
  BY <1>29, ScheduleTypes DEF TypeInv, TypeOK, CurLive, ThreadSchedule, ThreadPC
<1>30. ASSUME NEW t \in Threads, NEW f \in Fns, ThreadDispatch(t, f)
      PROVE  TypeInv'
  BY <1>30 DEF TypeInv, TypeOK, CurLive, ThreadDispatch, ThreadPC
<1>31. CASE Tick
  BY <1>31, LoopAssumption DEF TypeInv, TypeOK, CurLive, Tick, LoopAssumption
<1>32. CASE UNCHANGED vars
  BY <1>32 DEF TypeInv, TypeOK, CurLive, vars
<1>33. QED
  BY <1>1, <1>2, <1>3, <1>4, <1>5, <1>6, <1>7, <1>8, <1>9, <1>10, <1>11, <1>12, <1>13, <1>14, <1>15, <1>16, <1>17, <1>18, <1>19, <1>20, <1>21, <1>22, <1>23, <1>24, <1>25, <1>26, <1>27, <1>28, <1>29, <1>30, <1>31, <1>32 DEF Next, RunStep

-----------------------------------------------------------------------------
\* No step loses a wake-up.
LEMMA SleepStep ==
    ASSUME TypeInv, SleepInv, [Next]_vars
    PROVE  SleepInv'
<1>1. CASE RunBind
  BY <1>1 DEF SleepInv, AsleepInv, StoppedInv, NoLostWakeup, WakeComing, WakeSure, Iterating, RunBind
<1>2. CASE LoopTop
  BY <1>2 DEF SleepInv, AsleepInv, StoppedInv, NoLostWakeup, WakeComing, WakeSure, Iterating, LoopTop
<1>3. CASE LoopWork
  BY <1>3 DEF SleepInv, AsleepInv, StoppedInv, NoLostWakeup, WakeComing, WakeSure, Iterating, LoopWork
<1>4. CASE FnCheck
  BY <1>4 DEF SleepInv, AsleepInv, StoppedInv, NoLostWakeup, WakeComing, WakeSure, Iterating, FnCheck
<1>5. CASE FnSwap
  BY <1>5 DEF SleepInv, AsleepInv, StoppedInv, NoLostWakeup, WakeComing, WakeSure, Iterating, FnSwap
<1>6. CASE FnPop
  BY <1>6 DEF SleepInv, AsleepInv, StoppedInv, NoLostWakeup, WakeComing, WakeSure, Iterating, FnPop
<1>7. CASE TimerStale
  BY <1>7 DEF SleepInv, AsleepInv, StoppedInv, NoLostWakeup, WakeComing, WakeSure, Iterating, TimerStale
<1>8. CASE TimersFresh
  BY <1>8 DEF SleepInv, AsleepInv, StoppedInv, NoLostWakeup, WakeComing, WakeSure, Iterating, TimersFresh
<1>9. CASE TimerDue
  <2>1. ready # <<>> => ready' # <<>>
    BY <1>9, ScheduleTypes DEF TypeInv, TypeOK, TimerDue, TimerEntry
  <2>2. QED
    BY <1>9, <2>1 DEF SleepInv, AsleepInv, StoppedInv, NoLostWakeup, WakeComing, WakeSure, Iterating, TimerDue
<1>10. CASE TimersDone
  BY <1>10 DEF SleepInv, AsleepInv, StoppedInv, NoLostWakeup, WakeComing, WakeSure, Iterating, TimersDone
<1>11. CASE Poll
  BY <1>11 DEF SleepInv, AsleepInv, StoppedInv, NoLostWakeup, WakeComing, WakeSure, Iterating, Poll
<1>12. CASE Reap
  <2>1. ready # <<>> => ready' # <<>>
    BY <1>12, ScheduleTypes DEF TypeInv, TypeOK, Reap, TimerEntry
  <2>2. QED
    BY <1>12, <2>1 DEF SleepInv, AsleepInv, StoppedInv, NoLostWakeup, WakeComing, WakeSure, Iterating, Reap
<1>13. CASE ReapDone
  BY <1>13 DEF SleepInv, AsleepInv, StoppedInv, NoLostWakeup, WakeComing, WakeSure, Iterating, ReapDone
<1>14. CASE DeclareSleep
  BY <1>14 DEF SleepInv, AsleepInv, StoppedInv, NoLostWakeup, WakeComing, WakeSure, Iterating, DeclareSleep
<1>15. CASE CheckQueues
  BY <1>15 DEF SleepInv, AsleepInv, StoppedInv, NoLostWakeup, WakeComing, WakeSure, Iterating, CheckQueues
<1>16. CASE WaitReturn
  BY <1>16 DEF SleepInv, AsleepInv, StoppedInv, NoLostWakeup, WakeComing, WakeSure, Iterating, WaitReturn
<1>17. CASE DeclareAwake
  BY <1>17 DEF SleepInv, AsleepInv, StoppedInv, NoLostWakeup, WakeComing, WakeSure, Iterating, DeclareAwake
<1>18. CASE SwapBatch
  BY <1>18 DEF SleepInv, AsleepInv, StoppedInv, NoLostWakeup, WakeComing, WakeSure, Iterating, SwapBatch
<1>19. CASE BatchPop
  BY <1>19 DEF SleepInv, AsleepInv, StoppedInv, NoLostWakeup, WakeComing, WakeSure, Iterating, BatchPop
<1>20. CASE BatchDone
  BY <1>20 DEF SleepInv, AsleepInv, StoppedInv, NoLostWakeup, WakeComing, WakeSure, Iterating, BatchDone
<1>21. CASE Exit
  BY <1>21 DEF SleepInv, AsleepInv, StoppedInv, NoLostWakeup, WakeComing, WakeSure, Iterating, Exit
<1>22. CASE Exited
  BY <1>22 DEF SleepInv, AsleepInv, StoppedInv, NoLostWakeup, WakeComing, WakeSure, Iterating, Exited
<1>23. CASE RunStart
  BY <1>23 DEF SleepInv, AsleepInv, StoppedInv, NoLostWakeup, WakeComing, WakeSure, Iterating, RunStart
<1>24. CASE FnReturn
  BY <1>24 DEF SleepInv, AsleepInv, StoppedInv, NoLostWakeup, WakeComing, WakeSure, Iterating, FnReturn
<1>25. CASE FnThrow
  BY <1>25 DEF SleepInv, AsleepInv, StoppedInv, NoLostWakeup, WakeComing, WakeSure, Iterating, FnThrow
<1>26. CASE WaitOverflow
  BY <1>26 DEF SleepInv, AsleepInv, StoppedInv, NoLostWakeup, WakeComing, WakeSure, Iterating, WaitOverflow
<1>27. ASSUME NEW h \in Coros, Body(h) \/ Start(h) \/ IoComplete(h)
      PROVE  SleepInv'
  <2>1. CASE Finish(h)
    BY <2>1 DEF SleepInv, AsleepInv, StoppedInv, NoLostWakeup, WakeComing, WakeSure, Iterating, Finish, Suspend
  <2>2. CASE Park(h)
    BY <2>2 DEF SleepInv, AsleepInv, StoppedInv, NoLostWakeup, WakeComing, WakeSure, Iterating, Park, Suspend
  <2>3. CASE Yield(h)
    BY <2>3 DEF SleepInv, AsleepInv, StoppedInv, NoLostWakeup, WakeComing, WakeSure, Iterating, Yield, Suspend
  <2>4. CASE Sleep(h)
    BY <2>4 DEF SleepInv, AsleepInv, StoppedInv, NoLostWakeup, WakeComing, WakeSure, Iterating, Sleep, Suspend
  <2>5. CASE StartIo(h)
    BY <2>5 DEF SleepInv, AsleepInv, StoppedInv, NoLostWakeup, WakeComing, WakeSure, Iterating, StartIo, Suspend
  <2>6. CASE Start(h)
    BY <2>6 DEF TypeInv, TypeOK, SleepInv, AsleepInv, StoppedInv, NoLostWakeup, WakeComing, WakeSure, Iterating, Start
  <2>7. CASE IoComplete(h)
    BY <2>7 DEF SleepInv, AsleepInv, StoppedInv, NoLostWakeup, WakeComing, WakeSure, Iterating, IoComplete
  <2>8. QED
    BY <1>27, <2>1, <2>2, <2>3, <2>4, <2>5, <2>6, <2>7 DEF Body
<1>28. ASSUME NEW t \in Threads, CallStep(t) \/ ThreadStop(t)
      PROVE  SleepInv'
  <2>1. CASE ThreadCheckRunning(t)
    BY <2>1 DEF TypeInv, TypeOK, SleepInv, AsleepInv, StoppedInv, NoLostWakeup, WakeComing, WakeSure, Iterating, ThreadCheckRunning
  <2>2. CASE ThreadExchange(t)
    BY <2>2 DEF TypeInv, TypeOK, SleepInv, AsleepInv, StoppedInv, NoLostWakeup, WakeComing, WakeSure, Iterating, ThreadExchange
  <2>3. CASE ThreadWake(t)
    BY <2>3 DEF TypeInv, TypeOK, SleepInv, AsleepInv, StoppedInv, NoLostWakeup, WakeComing, WakeSure, Iterating, ThreadWake
  <2>4. CASE ThreadStop(t)
    BY <2>4 DEF TypeInv, TypeOK, SleepInv, AsleepInv, StoppedInv, NoLostWakeup, WakeComing, WakeSure, Iterating, ThreadStop
  <2>5. QED
    BY <1>28, <2>1, <2>2, <2>3, <2>4 DEF CallStep
<1>29. ASSUME NEW t \in Threads, NEW h \in Coros, ThreadSchedule(t, h)
      PROVE  SleepInv'
  <2>1. ready # <<>> => ready' # <<>>
    BY <1>29, ScheduleTypes DEF TypeInv, ThreadSchedule
  <2>2. tpc \in [Threads -> ThreadPC]
    BY DEF TypeInv, TypeOK
  <2>3. WakeSure => WakeSure'
    BY <1>29, <2>2 DEF WakeSure, ThreadSchedule
  <2>4. AsleepInv' /\ StoppedInv'
    BY <1>29, <2>1, <2>3 DEF SleepInv, AsleepInv, StoppedInv, Iterating, ThreadSchedule
  <2>5. NoLostWakeup'
    <3>1. CASE CanReserve(h)
      <4>1. tpc'[t] = "chk"
        BY <1>29, <2>2, <3>1 DEF ThreadSchedule
      <4>2. WakeSure' => WakeComing'
        BY DEF WakeSure, WakeComing
      <4>3. QED
        BY <2>4, <4>1, <4>2 DEF NoLostWakeup, WakeComing, AsleepInv, StoppedInv, Iterating
    <3>2. CASE ~CanReserve(h)
      <4>1. tpc' = tpc /\ ready' = ready
        BY <1>29, <2>2, <3>2 DEF ThreadSchedule, Schedule
      <4>2. QED
        BY <1>29, <4>1 DEF SleepInv, NoLostWakeup, WakeComing, ThreadSchedule
    <3>3. QED
      BY <3>1, <3>2
  <2>6. QED
    BY <2>4, <2>5 DEF SleepInv
<1>30. ASSUME NEW t \in Threads, NEW f \in Fns, ThreadDispatch(t, f)
      PROVE  SleepInv'
  BY <1>30 DEF TypeInv, TypeOK, SleepInv, AsleepInv, StoppedInv, NoLostWakeup, WakeComing, WakeSure, Iterating, ThreadDispatch
<1>31. CASE Tick
  BY <1>31 DEF SleepInv, AsleepInv, StoppedInv, NoLostWakeup, WakeComing, WakeSure, Iterating, Tick
<1>32. CASE UNCHANGED vars
  BY <1>32 DEF SleepInv, AsleepInv, StoppedInv, NoLostWakeup, WakeComing, WakeSure, Iterating, vars
<1>33. QED
  BY <1>1, <1>2, <1>3, <1>4, <1>5, <1>6, <1>7, <1>8, <1>9, <1>10, <1>11, <1>12, <1>13, <1>14, <1>15, <1>16, <1>17, <1>18, <1>19, <1>20, <1>21, <1>22, <1>23, <1>24, <1>25, <1>26, <1>27, <1>28, <1>29, <1>30, <1>31, <1>32 DEF Next, RunStep

-----------------------------------------------------------------------------
(* Concatenations of the three function queues.                            *)

\* Moving the head of the batch to what ran changes no order.
LEMMA PopConcat ==
    ASSUME NEW S, NEW r \in Seq(S), NEW b \in Seq(S), NEW q \in Seq(S), b # <<>>
    PROVE  Append(r, Head(b)) \o Tail(b) \o q = r \o b \o q
<1>1. Head(b) \in S /\ Tail(b) \in Seq(S)
  BY HeadTailProperties
<1>2. <<Head(b)>> \in Seq(S)
  BY <1>1
<1>3. <<Head(b)>> \o Tail(b) = b
  BY <1>1
<1>4. Append(r, Head(b)) \o Tail(b) = r \o b
  BY <1>1, <1>2, <1>3, AppendIsConcat, ConcatAssociative
<1>5. QED
  BY <1>4

\* Queueing a function last extends the whole order by it.
LEMMA PushConcat ==
    ASSUME NEW S, NEW r \in Seq(S), NEW b \in Seq(S), NEW q \in Seq(S), NEW x \in S
    PROVE  r \o b \o Append(q, x) = Append(r \o b \o q, x)
<1>1. r \o b \in Seq(S) /\ r \o b \o q \in Seq(S) /\ <<x>> \in Seq(S)
  BY ConcatProperties
<1>2. Append(q, x) = q \o <<x>>
  BY AppendIsConcat
<1>3. Append(r \o b \o q, x) = (r \o b \o q) \o <<x>>
  BY <1>1, AppendIsConcat
<1>4. QED
  BY <1>1, <1>2, <1>3, ConcatAssociative

\* Swapping an empty batch with the queue changes no order.
LEMMA SwapConcat ==
    ASSUME NEW S, NEW r \in Seq(S), NEW q \in Seq(S)
    PROVE  r \o q \o <<>> = r \o <<>> \o q
<1>1. r \o q \in Seq(S)
  BY ConcatProperties
<1>2. QED
  BY <1>1, ConcatEmptySeq

-----------------------------------------------------------------------------
\* No step loses, repeats or reorders a dispatched function.
LEMMA FnStep ==
    ASSUME TypeInv, FnInv, [Next]_vars
    PROVE  FnInv'
<1>1. CASE RunBind
  BY <1>1 DEF FnInv, FnDrained, FnFlag, FnFifo, RunBind
<1>2. CASE LoopTop
  BY <1>2 DEF FnInv, FnDrained, FnFlag, FnFifo, LoopTop
<1>3. CASE LoopWork
  BY <1>3 DEF FnInv, FnDrained, FnFlag, FnFifo, LoopWork
<1>4. CASE FnCheck
  BY <1>4 DEF FnInv, FnDrained, FnFlag, FnFifo, FnCheck
<1>5. CASE FnSwap
  <2>1. fnb = <<>>
    BY <1>5 DEF FnInv, FnDrained, FnSwap
  <2>2. FnFifo'
    BY <1>5, <2>1, SwapConcat DEF TypeInv, TypeOK, FnInv, FnFifo, FnSwap
  <2>3. QED
    BY <1>5, <2>1, <2>2 DEF FnInv, FnDrained, FnFlag, FnSwap
<1>6. CASE FnPop
  <2>1. ran \in Seq(Fns) /\ fnb \in Seq(Fns) /\ fnq \in Seq(Fns)
    BY DEF TypeInv, TypeOK
  <2>2. CASE fnb = <<>>
    BY <1>6, <2>2 DEF FnInv, FnDrained, FnFlag, FnFifo, FnPop
  <2>3. CASE fnb # <<>>
    <3>1. /\ ran' = Append(ran, Head(fnb)) /\ fnb' = Tail(fnb)
          /\ UNCHANGED <<fnq, sent>>
      BY <1>6, <2>3 DEF FnPop
    <3>2. FnFifo'
      BY <2>1, <2>3, <3>1, PopConcat DEF FnInv, FnFifo
    <3>3. QED
      BY <1>6, <2>3, <3>2 DEF FnInv, FnDrained, FnFlag, FnPop
  <2>4. QED
    BY <2>2, <2>3
<1>7. CASE TimerStale
  BY <1>7 DEF FnInv, FnDrained, FnFlag, FnFifo, TimerStale
<1>8. CASE TimersFresh
  BY <1>8 DEF FnInv, FnDrained, FnFlag, FnFifo, TimersFresh
<1>9. CASE TimerDue
  BY <1>9 DEF FnInv, FnDrained, FnFlag, FnFifo, TimerDue
<1>10. CASE TimersDone
  BY <1>10 DEF FnInv, FnDrained, FnFlag, FnFifo, TimersDone
<1>11. CASE Poll
  BY <1>11 DEF FnInv, FnDrained, FnFlag, FnFifo, Poll
<1>12. CASE Reap
  BY <1>12 DEF FnInv, FnDrained, FnFlag, FnFifo, Reap
<1>13. CASE ReapDone
  BY <1>13 DEF FnInv, FnDrained, FnFlag, FnFifo, ReapDone
<1>14. CASE DeclareSleep
  BY <1>14 DEF FnInv, FnDrained, FnFlag, FnFifo, DeclareSleep
<1>15. CASE CheckQueues
  BY <1>15 DEF FnInv, FnDrained, FnFlag, FnFifo, CheckQueues
<1>16. CASE WaitReturn
  BY <1>16 DEF FnInv, FnDrained, FnFlag, FnFifo, WaitReturn
<1>17. CASE DeclareAwake
  BY <1>17 DEF FnInv, FnDrained, FnFlag, FnFifo, DeclareAwake
<1>18. CASE SwapBatch
  BY <1>18 DEF FnInv, FnDrained, FnFlag, FnFifo, SwapBatch
<1>19. CASE BatchPop
  BY <1>19 DEF FnInv, FnDrained, FnFlag, FnFifo, BatchPop
<1>20. CASE BatchDone
  BY <1>20 DEF FnInv, FnDrained, FnFlag, FnFifo, BatchDone
<1>21. CASE Exit
  BY <1>21 DEF FnInv, FnDrained, FnFlag, FnFifo, Exit
<1>22. CASE Exited
  BY <1>22 DEF FnInv, FnDrained, FnFlag, FnFifo, Exited
<1>23. CASE RunStart
  BY <1>23 DEF FnInv, FnDrained, FnFlag, FnFifo, RunStart
<1>24. CASE FnReturn
  BY <1>24 DEF FnInv, FnDrained, FnFlag, FnFifo, FnReturn
<1>25. CASE FnThrow
  BY <1>25 DEF FnInv, FnDrained, FnFlag, FnFifo, FnThrow
<1>26. CASE WaitOverflow
  BY <1>26 DEF FnInv, FnDrained, FnFlag, FnFifo, WaitOverflow
<1>27. ASSUME NEW h \in Coros, Body(h) \/ Start(h) \/ IoComplete(h)
      PROVE  FnInv'
  <2>1. CASE Finish(h)
    BY <2>1 DEF FnInv, FnDrained, FnFlag, FnFifo, Finish, Suspend
  <2>2. CASE Park(h)
    BY <2>2 DEF FnInv, FnDrained, FnFlag, FnFifo, Park, Suspend
  <2>3. CASE Yield(h)
    BY <2>3 DEF FnInv, FnDrained, FnFlag, FnFifo, Yield, Suspend
  <2>4. CASE Sleep(h)
    BY <2>4 DEF FnInv, FnDrained, FnFlag, FnFifo, Sleep, Suspend
  <2>5. CASE StartIo(h)
    BY <2>5 DEF FnInv, FnDrained, FnFlag, FnFifo, StartIo, Suspend
  <2>6. CASE Start(h)
    BY <2>6 DEF FnInv, FnDrained, FnFlag, FnFifo, Start
  <2>7. CASE IoComplete(h)
    BY <2>7 DEF FnInv, FnDrained, FnFlag, FnFifo, IoComplete
  <2>8. QED
    BY <1>27, <2>1, <2>2, <2>3, <2>4, <2>5, <2>6, <2>7 DEF Body
<1>28. ASSUME NEW t \in Threads, CallStep(t) \/ ThreadStop(t)
      PROVE  FnInv'
  <2>1. CASE ThreadCheckRunning(t)
    BY <2>1 DEF FnInv, FnDrained, FnFlag, FnFifo, ThreadCheckRunning
  <2>2. CASE ThreadExchange(t)
    BY <2>2 DEF FnInv, FnDrained, FnFlag, FnFifo, ThreadExchange
  <2>3. CASE ThreadWake(t)
    BY <2>3 DEF FnInv, FnDrained, FnFlag, FnFifo, ThreadWake
  <2>4. CASE ThreadStop(t)
    BY <2>4 DEF FnInv, FnDrained, FnFlag, FnFifo, ThreadStop
  <2>5. QED
    BY <1>28, <2>1, <2>2, <2>3, <2>4 DEF CallStep
<1>29. ASSUME NEW t \in Threads, NEW h \in Coros, ThreadSchedule(t, h)
      PROVE  FnInv'
  BY <1>29 DEF FnInv, FnDrained, FnFlag, FnFifo, ThreadSchedule
<1>30. ASSUME NEW t \in Threads, NEW f \in Fns, ThreadDispatch(t, f)
      PROVE  FnInv'
  <2>1. ran \in Seq(Fns) /\ fnb \in Seq(Fns) /\ fnq \in Seq(Fns)
    BY DEF TypeInv, TypeOK
  <2>2. /\ fnq' = Append(fnq, f) /\ sent' = Append(sent, f)
        /\ UNCHANGED <<fnb, ran>>
    BY <1>30 DEF ThreadDispatch
  <2>3. FnFifo'
    BY <2>1, <2>2, PushConcat DEF FnInv, FnFifo
  <2>4. QED
    BY <1>30, <2>3 DEF FnInv, FnDrained, FnFlag, ThreadDispatch
<1>31. CASE Tick
  BY <1>31 DEF FnInv, FnDrained, FnFlag, FnFifo, Tick
<1>32. CASE UNCHANGED vars
  BY <1>32 DEF FnInv, FnDrained, FnFlag, FnFifo, vars
<1>33. QED
  BY <1>1, <1>2, <1>3, <1>4, <1>5, <1>6, <1>7, <1>8, <1>9, <1>10, <1>11, <1>12, <1>13, <1>14, <1>15, <1>16, <1>17, <1>18, <1>19, <1>20, <1>21, <1>22, <1>23, <1>24, <1>25, <1>26, <1>27, <1>28, <1>29, <1>30, <1>31, <1>32 DEF Next, RunStep

-----------------------------------------------------------------------------
\* Once the loop has decided to leave, no step of another thread brings it
\* anything but a function: whom they may schedule has finished, and no I/O is
\* in the kernel.
LEMMA LeavingStep ==
    ASSUME TypeInv, FnInv, LeavingInv, [Next]_vars
    PROVE  LeavingInv'
<1>1. CASE RunBind
  BY <1>1 DEF LeavingInv, NothingLeft, RunBind
<1>2. CASE LoopTop
  BY <1>2 DEF LeavingInv, NothingLeft, LoopTop
<1>3. CASE LoopWork
  BY <1>3 DEF LeavingInv, NothingLeft, HasWork, HasPending, LoopWork
<1>4. CASE FnCheck
  BY <1>4 DEF LeavingInv, NothingLeft, FnCheck
<1>5. CASE FnSwap
  BY <1>5 DEF LeavingInv, NothingLeft, FnSwap
<1>6. CASE FnPop
  BY <1>6 DEF LeavingInv, NothingLeft, FnPop
<1>7. CASE TimerStale
  BY <1>7 DEF LeavingInv, NothingLeft, TimerStale
<1>8. CASE TimersFresh
  BY <1>8 DEF LeavingInv, NothingLeft, TimersFresh
<1>9. CASE TimerDue
  BY <1>9 DEF LeavingInv, NothingLeft, TimerDue
<1>10. CASE TimersDone
  BY <1>10 DEF LeavingInv, NothingLeft, TimersDone
<1>11. CASE Poll
  BY <1>11 DEF LeavingInv, NothingLeft, Poll
<1>12. CASE Reap
  BY <1>12 DEF LeavingInv, NothingLeft, Reap
<1>13. CASE ReapDone
  BY <1>13 DEF LeavingInv, NothingLeft, ReapDone
<1>14. CASE DeclareSleep
  BY <1>14 DEF LeavingInv, NothingLeft, DeclareSleep
<1>15. CASE CheckQueues
  BY <1>15 DEF LeavingInv, NothingLeft, HasPending, FnInv, FnDrained, CheckQueues
<1>16. CASE WaitReturn
  BY <1>16 DEF LeavingInv, NothingLeft, WaitReturn
<1>17. CASE DeclareAwake
  BY <1>17 DEF LeavingInv, NothingLeft, DeclareAwake
<1>18. CASE SwapBatch
  BY <1>18 DEF LeavingInv, NothingLeft, SwapBatch
<1>19. CASE BatchPop
  BY <1>19 DEF LeavingInv, NothingLeft, BatchPop
<1>20. CASE BatchDone
  BY <1>20 DEF LeavingInv, NothingLeft, BatchDone
<1>21. CASE Exit
  BY <1>21 DEF LeavingInv, NothingLeft, Exit
<1>22. CASE Exited
  BY <1>22 DEF LeavingInv, NothingLeft, Exited
<1>23. CASE RunStart
  BY <1>23 DEF LeavingInv, NothingLeft, RunStart
<1>24. CASE FnReturn
  BY <1>24 DEF LeavingInv, NothingLeft, FnReturn
<1>25. CASE FnThrow
  BY <1>25 DEF LeavingInv, NothingLeft, FnThrow
<1>26. CASE WaitOverflow
  BY <1>26 DEF LeavingInv, NothingLeft, WaitOverflow
<1>27. CASE Tick
  BY <1>27 DEF LeavingInv, NothingLeft, Tick
<1>28. ASSUME NEW h \in Coros, Body(h) \/ Start(h) \/ IoComplete(h)
      PROVE  LeavingInv'
  <2>1. CASE Finish(h)
    BY <2>1 DEF LeavingInv, NothingLeft, Finish, Suspend
  <2>2. CASE Park(h)
    BY <2>2 DEF LeavingInv, NothingLeft, Park, Suspend
  <2>3. CASE Yield(h)
    BY <2>3 DEF LeavingInv, NothingLeft, Yield, Suspend
  <2>4. CASE Sleep(h)
    BY <2>4 DEF LeavingInv, NothingLeft, Sleep, Suspend
  <2>5. CASE StartIo(h)
    BY <2>5 DEF LeavingInv, NothingLeft, StartIo, Suspend
  <2>6. CASE Start(h)
    BY <2>6 DEF LeavingInv, NothingLeft, Start
  <2>7. CASE IoComplete(h)
    BY <2>7 DEF LeavingInv, NothingLeft, IoComplete
  <2>8. QED
    BY <1>28, <2>1, <2>2, <2>3, <2>4, <2>5, <2>6, <2>7 DEF Body
<1>29. ASSUME NEW t \in Threads, CallStep(t) \/ ThreadStop(t)
      PROVE  LeavingInv'
  <2>1. CASE ThreadCheckRunning(t)
    BY <2>1 DEF LeavingInv, NothingLeft, ThreadCheckRunning
  <2>2. CASE ThreadExchange(t)
    BY <2>2 DEF LeavingInv, NothingLeft, ThreadExchange
  <2>3. CASE ThreadWake(t)
    BY <2>3 DEF LeavingInv, NothingLeft, ThreadWake
  <2>4. CASE ThreadStop(t)
    BY <2>4 DEF LeavingInv, NothingLeft, ThreadStop
  <2>5. QED
    BY <1>29, <2>1, <2>2, <2>3, <2>4 DEF CallStep
<1>30. ASSUME NEW t \in Threads, NEW h \in Coros, ThreadSchedule(t, h)
      PROVE  LeavingInv'
  BY <1>30 DEF LeavingInv, NothingLeft, ThreadSchedule, TypeInv, TypeOK
<1>31. ASSUME NEW t \in Threads, NEW f \in Fns, ThreadDispatch(t, f)
      PROVE  LeavingInv'
  BY <1>31 DEF LeavingInv, NothingLeft, ThreadDispatch
<1>32. CASE UNCHANGED vars
  BY <1>32 DEF LeavingInv, NothingLeft, vars
<1>33. QED
  BY <1>1, <1>2, <1>3, <1>4, <1>5, <1>6, <1>7, <1>8, <1>9, <1>10, <1>11, <1>12, <1>13, <1>14, <1>15, <1>16, <1>17, <1>18, <1>19, <1>20, <1>21, <1>22, <1>23, <1>24, <1>25, <1>26, <1>27, <1>28, <1>29, <1>30, <1>31, <1>32 DEF Next, RunStep

-----------------------------------------------------------------------------
(* The ready queue and the batch.                                          *)

\* What appending h to the ready queue leaves: each entry once, and h added.
AppendedOnce(h) ==
    /\ NoDuplicate(ready') /\ NoDuplicate(batch')
    /\ \A i \in DOMAIN ready' : \A j \in DOMAIN batch' : ready'[i] # batch'[j]
    /\ \A x : (\E i \in DOMAIN ready' : ready'[i] = x)
               <=> x = h \/ \E i \in DOMAIN ready : ready[i] = x

\* Appending a handle that is in neither queue keeps every entry single.
LEMMA AppendOnce ==
    ASSUME TypeOK, QueuedOnce, NEW h \in Coros,
           ready' = Append(ready, h), batch' = batch,
           \A i \in DOMAIN ready : ready[i] # h,
           \A i \in DOMAIN batch : batch[i] # h
    PROVE  AppendedOnce(h)
<1>1. /\ DOMAIN ready = 1..Len(ready) /\ Len(ready) \in Nat
      /\ DOMAIN ready' = 1..(Len(ready) + 1)
      /\ \A i \in DOMAIN ready : ready'[i] = ready[i]
      /\ ready'[Len(ready) + 1] = h
  BY DEF TypeOK
<1>2. \A i \in DOMAIN ready' : i \in DOMAIN ready \/ i = Len(ready) + 1
  BY <1>1
<1>3. NoDuplicate(ready')
  BY <1>1, <1>2 DEF QueuedOnce, NoDuplicate
<1>4. \A i \in DOMAIN ready' : \A j \in DOMAIN batch' : ready'[i] # batch'[j]
  BY <1>1, <1>2 DEF QueuedOnce
<1>5. ASSUME NEW x
      PROVE  (\E i \in DOMAIN ready' : ready'[i] = x)
               <=> x = h \/ \E i \in DOMAIN ready : ready[i] = x
  <2>1. Len(ready) + 1 \in DOMAIN ready' /\ \A i \in DOMAIN ready : i \in DOMAIN ready'
    BY <1>1
  <2>2. QED
    BY <1>1, <1>2, <2>1
<1>6. QED
  BY <1>3, <1>4, <1>5 DEF AppendedOnce, QueuedOnce

\* schedule() keeps every entry single.
LEMMA ScheduleOnce ==
    ASSUME TypeOK, QueuedOnce, NEW h \in Coros, Schedule(h), batch' = batch, live' = live
    PROVE  QueuedOnce'
<1>1. CASE CanReserve(h)
  <2>1. ready' = Append(ready, h) /\ scheduled' = scheduled \cup {h}
    BY <1>1 DEF Schedule
  <2>2. /\ \A i \in DOMAIN ready : ready[i] # h
        /\ \A i \in DOMAIN batch : batch[i] # h
    BY <1>1 DEF CanReserve, QueuedOnce
  <2>3. AppendedOnce(h)
    BY <2>1, <2>2, AppendOnce
  <2>4. QED
    BY <2>1, <2>2, <2>3 DEF AppendedOnce, QueuedOnce
<1>2. CASE ~CanReserve(h)
  BY <1>2 DEF Schedule, QueuedOnce, NoDuplicate
<1>3. QED
  BY <1>1, <1>2

-----------------------------------------------------------------------------
\* No step queues a frame twice or drops one that is scheduled.
LEMMA QueueStep ==
    ASSUME TypeInv, QueuedOnce, [Next]_vars
    PROVE  QueuedOnce'
<1>1. CASE RunBind
  BY <1>1 DEF QueuedOnce, NoDuplicate, RunBind
<1>2. CASE LoopTop
  BY <1>2 DEF QueuedOnce, NoDuplicate, LoopTop
<1>3. CASE LoopWork
  BY <1>3 DEF QueuedOnce, NoDuplicate, LoopWork
<1>4. CASE FnCheck
  BY <1>4 DEF QueuedOnce, NoDuplicate, FnCheck
<1>5. CASE FnSwap
  BY <1>5 DEF QueuedOnce, NoDuplicate, FnSwap
<1>6. CASE FnPop
  BY <1>6 DEF QueuedOnce, NoDuplicate, FnPop
<1>7. CASE TimerStale
  BY <1>7 DEF QueuedOnce, NoDuplicate, TimerStale
<1>8. CASE TimersFresh
  BY <1>8 DEF QueuedOnce, NoDuplicate, TimersFresh
<1>9. CASE TimerDue
  <2>1. CASE UNCHANGED <<ready, scheduled>>
    BY <1>9, <2>1 DEF QueuedOnce, NoDuplicate, TimerDue
  <2>2. ASSUME NEW e \in timers, Schedule(e.h)
        PROVE  QueuedOnce'
    <3>1. e.h \in Coros
      BY DEF TypeInv, TypeOK, TimerEntry
    <3>2. QED
      BY <1>9, <2>2, <3>1, ScheduleOnce DEF TypeInv, TimerDue
  <2>3. QED
    BY <1>9, <2>1, <2>2 DEF TimerDue
<1>10. CASE TimersDone
  BY <1>10 DEF QueuedOnce, NoDuplicate, TimersDone
<1>11. CASE Poll
  BY <1>11 DEF QueuedOnce, NoDuplicate, Poll
<1>12. CASE Reap
  BY <1>12, ScheduleOnce DEF TypeInv, TypeOK, Reap
<1>13. CASE ReapDone
  BY <1>13 DEF QueuedOnce, NoDuplicate, ReapDone
<1>14. CASE DeclareSleep
  BY <1>14 DEF QueuedOnce, NoDuplicate, DeclareSleep
<1>15. CASE CheckQueues
  BY <1>15 DEF QueuedOnce, NoDuplicate, CheckQueues
<1>16. CASE WaitReturn
  BY <1>16 DEF QueuedOnce, NoDuplicate, WaitReturn
<1>17. CASE DeclareAwake
  BY <1>17 DEF QueuedOnce, NoDuplicate, DeclareAwake
<1>18. CASE SwapBatch
  BY <1>18 DEF QueuedOnce, NoDuplicate, SwapBatch
<1>19. CASE BatchPop
  <2>1. batch \in Seq(Coros) /\ batch # <<>> /\ batch' = Tail(batch)
    BY <1>19 DEF TypeInv, TypeOK, BatchPop
  <2>2. /\ Len(batch) \in Nat /\ DOMAIN batch = 1..Len(batch) /\ 1 \in DOMAIN batch
        /\ DOMAIN batch' = 1..(Len(batch) - 1)
        /\ \A i \in DOMAIN batch' : i + 1 \in DOMAIN batch /\ batch'[i] = batch[i + 1]
        /\ Head(batch) = batch[1]
    BY <2>1, HeadTailProperties
  <2>3. \A i \in DOMAIN batch : i = 1 \/ (i - 1 \in DOMAIN batch' /\ batch'[i - 1] = batch[i])
    BY <2>2
  <2>4. \A i \in DOMAIN batch' : batch'[i] # Head(batch)
    BY <2>2 DEF QueuedOnce, NoDuplicate
  <2>5. NoDuplicate(batch')
    BY <2>2 DEF QueuedOnce, NoDuplicate
  <2>6. ASSUME NEW h, h # Head(batch)
        PROVE  (\E i \in DOMAIN batch' : batch'[i] = h) <=> \E i \in DOMAIN batch : batch[i] = h
    BY <2>2, <2>3, <2>6
  <2>7. \A i \in DOMAIN ready : ready[i] # Head(batch)
    BY <2>2 DEF QueuedOnce
  <2>8. ready' = ready /\ live' = live
    BY <1>19 DEF BatchPop
  <2>9. \A i \in DOMAIN ready' : \A j \in DOMAIN batch' : ready'[i] # batch'[j]
    BY <2>2, <2>8 DEF QueuedOnce
  <2>10. scheduled' = scheduled \ {Head(batch)}
    BY <1>19 DEF TypeInv, TypeOK, BatchPop
  <2>11. \A h \in live' : h \in scheduled' <=> \/ \E i \in DOMAIN ready' : ready'[i] = h
                                             \/ \E i \in DOMAIN batch' : batch'[i] = h
    BY <2>4, <2>6, <2>7, <2>8, <2>10 DEF QueuedOnce
  <2>12. QED
    BY <2>5, <2>8, <2>9, <2>11 DEF QueuedOnce, NoDuplicate
<1>20. CASE BatchDone
  BY <1>20 DEF QueuedOnce, NoDuplicate, BatchDone
<1>21. CASE Exit
  BY <1>21 DEF QueuedOnce, NoDuplicate, Exit
<1>22. CASE Exited
  BY <1>22 DEF QueuedOnce, NoDuplicate, Exited
<1>23. CASE RunStart
  BY <1>23 DEF QueuedOnce, NoDuplicate, RunStart
<1>24. CASE FnReturn
  BY <1>24 DEF QueuedOnce, NoDuplicate, FnReturn
<1>25. CASE FnThrow
  BY <1>25 DEF QueuedOnce, NoDuplicate, FnThrow
<1>26. CASE WaitOverflow
  BY <1>26 DEF QueuedOnce, NoDuplicate, WaitOverflow
<1>27. ASSUME NEW h \in Coros, Body(h) \/ Start(h) \/ IoComplete(h)
      PROVE  QueuedOnce'
  <2>1. CASE Finish(h)
    BY <2>1 DEF TypeInv, CurLive, QueuedOnce, NoDuplicate, Finish, Suspend
  <2>2. CASE Park(h)
    BY <2>2 DEF TypeInv, CurLive, QueuedOnce, NoDuplicate, Park, Suspend
  <2>3. CASE Yield(h)
    BY <2>3, ScheduleOnce DEF TypeInv, Yield, Suspend
  <2>4. CASE Sleep(h)
    BY <2>4 DEF TypeInv, CurLive, QueuedOnce, NoDuplicate, Sleep, Suspend
  <2>5. CASE StartIo(h)
    BY <2>5 DEF TypeInv, CurLive, QueuedOnce, NoDuplicate, StartIo, Suspend
  <2>6. CASE Start(h)
    <3>1. ready' = Append(ready, h) /\ batch' = batch
      BY <2>6 DEF Start
    <3>2. \A i \in DOMAIN ready : ready[i] # h
      BY <2>6 DEF Start, Elems
    <3>3. \A i \in DOMAIN batch : batch[i] # h
      BY <2>6 DEF Start, Elems
    <3>4. AppendedOnce(h)
      BY <3>1, <3>2, <3>3, AppendOnce DEF TypeInv
    <3>5. QED
      BY <2>6, <3>1, <3>3, <3>4 DEF QueuedOnce, AppendedOnce, Start
  <2>7. CASE IoComplete(h)
    BY <2>7 DEF QueuedOnce, NoDuplicate, IoComplete
  <2>8. QED
    BY <1>27, <2>1, <2>2, <2>3, <2>4, <2>5, <2>6, <2>7 DEF Body
<1>28. ASSUME NEW t \in Threads, CallStep(t) \/ ThreadStop(t)
      PROVE  QueuedOnce'
  <2>1. CASE ThreadCheckRunning(t)
    BY <2>1 DEF QueuedOnce, NoDuplicate, ThreadCheckRunning
  <2>2. CASE ThreadExchange(t)
    BY <2>2 DEF QueuedOnce, NoDuplicate, ThreadExchange
  <2>3. CASE ThreadWake(t)
    BY <2>3 DEF QueuedOnce, NoDuplicate, ThreadWake
  <2>4. CASE ThreadStop(t)
    BY <2>4 DEF QueuedOnce, NoDuplicate, ThreadStop
  <2>5. QED
    BY <1>28, <2>1, <2>2, <2>3, <2>4 DEF CallStep
<1>29. ASSUME NEW t \in Threads, NEW h \in Coros, ThreadSchedule(t, h)
      PROVE  QueuedOnce'
  BY <1>29, ScheduleOnce DEF TypeInv, ThreadSchedule
<1>30. ASSUME NEW t \in Threads, NEW f \in Fns, ThreadDispatch(t, f)
      PROVE  QueuedOnce'
  BY <1>30 DEF QueuedOnce, NoDuplicate, ThreadDispatch
<1>31. CASE Tick
  BY <1>31 DEF QueuedOnce, NoDuplicate, Tick
<1>32. CASE UNCHANGED vars
  BY <1>32 DEF QueuedOnce, NoDuplicate, vars
<1>33. QED
  BY <1>1, <1>2, <1>3, <1>4, <1>5, <1>6, <1>7, <1>8, <1>9, <1>10, <1>11, <1>12, <1>13, <1>14, <1>15, <1>16, <1>17, <1>18, <1>19, <1>20, <1>21, <1>22, <1>23, <1>24, <1>25, <1>26, <1>27, <1>28, <1>29, <1>30, <1>31, <1>32 DEF Next, RunStep

-----------------------------------------------------------------------------
(* The theorems.                                                           *)

\* The initial state satisfies the inductive invariant.
LEMMA InitHolds == Init => IInv
<1> SUFFICES ASSUME Init PROVE IInv
  OBVIOUS
<1>1. TypeInv
  <2>1. /\ ready \in Seq(Coros) /\ batch \in Seq(Coros)
        /\ fnq \in Seq(Fns) /\ fnb \in Seq(Fns) /\ sent \in Seq(Fns) /\ ran \in Seq(Fns)
    BY EmptySeq DEF Init
  <2>2. now \in 0..MaxTime
    BY LoopAssumption DEF Init, LoopAssumption
  <2>3. tpc \in [Threads -> ThreadPC]
    BY DEF Init, ThreadPC
  <2>4. QED
    BY <2>1, <2>2, <2>3 DEF Init, TypeInv, TypeOK, CurLive, LoopPC
<1>2. SleepInv
  BY DEF Init, SleepInv, AsleepInv, StoppedInv, NoLostWakeup, Iterating
<1>3. FnInv
  BY DEF Init, FnInv, FnDrained, FnFlag, FnFifo
<1>4. QueuedOnce
  BY DEF Init, QueuedOnce, NoDuplicate
<1>5. LeavingInv
  BY DEF Init, LeavingInv
<1>6. QED
  BY <1>1, <1>2, <1>3, <1>4, <1>5 DEF IInv

\* Every step, and stuttering, preserves it.
LEMMA StepHolds == IInv /\ [Next]_vars => IInv'
BY TypeStep, SleepStep, FnStep, QueueStep, LeavingStep DEF IInv

\* IInv is an invariant of run_impl with any threads around it.
THEOREM Inductive == Spec => []IInv
BY InitHolds, StepHolds, PTL DEF Spec

\* Type correctness of the loop's state (event_loop.hpp, members of EventLoop).
THEOREM TypeCorrect == Spec => []TypeOK
<1>1. IInv => TypeOK
  BY DEF IInv, TypeInv
<1>2. QED
  BY <1>1, Inductive, PTL

\* The sleep protocol of run_impl never loses a wake-up, for any number of
\* threads inside schedule(), dispatch() and stop().
THEOREM WakeupNeverLost == Spec => []NoLostWakeup
<1>1. IInv => NoLostWakeup
  BY DEF IInv, SleepInv
<1>2. QED
  BY <1>1, Inductive, PTL

\* Dispatched functions run in dispatch() order, each at most once, none lost,
\* through callback exceptions and repeated run() calls.
THEOREM DispatchFifo == Spec => []FnFifo
<1>1. IInv => FnFifo
  BY DEF IInv, FnInv
<1>2. QED
  BY <1>1, Inductive, PTL

\* The has_pending_fn_ shortcut never hides a queued function.
THEOREM FlagCovers == Spec => []FnFlag
<1>1. IInv => FnFlag
  BY DEF IInv, FnInv
<1>2. QED
  BY <1>1, Inductive, PTL

\* A live frame is queued exactly when it is marked scheduled, and only once.
THEOREM NeverQueuedTwice == Spec => []QueuedOnce
<1>1. IInv => QueuedOnce
  BY DEF IInv
<1>2. QED
  BY <1>1, Inductive, PTL

\* When run() returns by itself nothing is left but functions dispatched while
\* it was leaving, and run_until_stopped() does not return by itself, for any
\* number of threads, coroutines and functions.
THEOREM ReturnLeavesNoCoroutine == Spec => ReturnsIdle
<1>1. IInv /\ [Next]_vars => [ReturnsByItself => ~Stay /\ NothingLeft]_vars
  BY DEF IInv, LeavingInv, ReturnsByItself
<1>2. QED
  BY <1>1, Inductive, PTL DEF Spec, ReturnsIdle

-----------------------------------------------------------------------------
(***************************************************************************)
(* ThreadPool implements Executor: the critical sections of worker_loop,   *)
(* try_submit and stop_and_join hand every accepted job to one worker, in  *)
(* order, and stop_and_join returns when the last of them is answered.     *)
(***************************************************************************)

-----------------------------------------------------------------------------
(* The inductive invariant.                                                *)

Busy(w) == at[w] = "task"
Queued(j) == \E i \in 1..Len(tasks) : tasks[i] = j

\* A job that nobody has handed over is nowhere.
NewIsFresh ==
    \A j \in Jobs : job[j] = "new"
        => promise[j] = "none" /\ ~Queued(j) /\ \A w \in Workers : Busy(w) => task[w] # j

\* A job waits in one place of the queue and only there.
QueueDistinct ==
    /\ \A i, k \in 1..Len(tasks) : tasks[i] = tasks[k] => i = k
    /\ \A i \in 1..Len(tasks), w \in Workers : Busy(w) => task[w] # tasks[i]

\* A worker that runs a job has taken it, and it alone.
TakenByOne ==
    /\ \A w \in Workers : Busy(w) => task[w] \in Jobs
    /\ \A w, v \in Workers : Busy(w) /\ Busy(v) /\ task[w] = task[v] => w = v

\* A worker leaves when nothing can come any more.
LeavesLast == \A w \in Workers : at[w] = "exit" => stopping /\ tasks = <<>>

StopBegun == stopping <=> stopper # "no"

PoolIInv == PoolTypeOK /\ NewIsFresh /\ QueueDistinct /\ TakenByOne /\ LeavesLast /\ StopBegun

-----------------------------------------------------------------------------
(* The queue's operators.                                                  *)

LEMMA TasksAppend ==
    ASSUME PoolTypeOK, NEW j \in Jobs
    PROVE  /\ Append(tasks, j) \in Seq(Jobs)
           /\ Len(Append(tasks, j)) = Len(tasks) + 1
           /\ \A i \in 1..Len(tasks) : Append(tasks, j)[i] = tasks[i]
           /\ Append(tasks, j)[Len(tasks) + 1] = j
           /\ Len(tasks) \in Nat
BY AppendProperties, LenProperties DEF PoolTypeOK

LEMMA TasksTail ==
    ASSUME PoolTypeOK, tasks # <<>>
    PROVE  /\ Head(tasks) \in Jobs /\ Tail(tasks) \in Seq(Jobs)
           /\ Head(tasks) = tasks[1] /\ 1 \in 1..Len(tasks)
           /\ Len(Tail(tasks)) = Len(tasks) - 1
           /\ \A i \in 1..Len(Tail(tasks)) : Tail(tasks)[i] = tasks[i + 1]
           /\ Len(tasks) \in Nat \ {0}
<1>1. Len(tasks) \in Nat \ {0} /\ Head(tasks) = tasks[1]
  BY EmptySeq, LenProperties DEF PoolTypeOK
<1>2. QED
  BY <1>1, HeadTailProperties DEF PoolTypeOK

-----------------------------------------------------------------------------
(* The invariant is inductive: one step per action.                        *)

LEMMA PoolInitHolds == PoolInit => PoolIInv
<1> SUFFICES ASSUME PoolInit PROVE PoolIInv
  OBVIOUS
<1>1. tasks = <<>> /\ Len(tasks) = 0 /\ tasks \in Seq(Jobs)
  BY EmptySeq DEF PoolInit
<1>2. \A i \in 1..Len(tasks) : FALSE
  BY <1>1
<1>3. PoolTypeOK
  BY <1>1 DEF PoolInit, PoolTypeOK
<1>4. \A w \in Workers : at[w] = "run"
  BY DEF PoolInit
<1>5. QED
  BY <1>2, <1>3, <1>4 DEF PoolInit, PoolIInv, NewIsFresh, QueueDistinct, TakenByOne, LeavesLast,
                          StopBegun, Busy, Queued

LEMMA PoolStepHolds == ASSUME PoolIInv, [PoolNext]_poolVars PROVE PoolIInv'
<1> USE DEF pool
<1>1. CASE \E j \in Jobs : try_submit(j)
  <2>1. PICK j \in Jobs : try_submit(j)
    BY <1>1
  <2>2. tasks' = Append(tasks, j) /\ job[j] = "new" /\ ~stopping
    BY <2>1 DEF try_submit
  <2>3. /\ tasks' \in Seq(Jobs) /\ Len(tasks') = Len(tasks) + 1 /\ Len(tasks) \in Nat
        /\ \A i \in 1..Len(tasks) : tasks'[i] = tasks[i]
        /\ tasks'[Len(tasks) + 1] = j
    BY <2>2, TasksAppend DEF PoolIInv
  <2>4. \A i \in 1..Len(tasks') : i \in 1..Len(tasks) \/ i = Len(tasks) + 1
    BY <2>3
  <2>5. /\ UNCHANGED <<max_pending, stopping, at, task, stopper, promise>>
        /\ job' = [job EXCEPT ![j] = "notify"]
    BY <2>1 DEF try_submit
  <2>6. PoolTypeOK'
    BY <2>3, <2>5 DEF PoolIInv, PoolTypeOK
  <2>7. ~Queued(j) /\ \A w \in Workers : Busy(w) => task[w] # j
    BY <2>2 DEF PoolIInv, NewIsFresh
  <2>8. NewIsFresh'
    BY <2>3, <2>4, <2>5 DEF PoolIInv, PoolTypeOK, NewIsFresh, Queued, Busy
  <2>9. QueueDistinct'
    BY <2>3, <2>4, <2>5, <2>7 DEF PoolIInv, QueueDistinct, Queued, Busy
  <2>10. TakenByOne' /\ LeavesLast' /\ StopBegun'
    BY <2>2, <2>5 DEF PoolIInv, TakenByOne, LeavesLast, StopBegun, Busy
  <2>11. QED
    BY <2>6, <2>8, <2>9, <2>10 DEF PoolIInv
<1>2. CASE \E j \in Jobs : Rejected(j)
  BY <1>2 DEF Rejected, PoolIInv, PoolTypeOK, NewIsFresh, QueueDistinct, TakenByOne, LeavesLast,
              StopBegun, Busy, Queued
<1>3. CASE \E j \in Jobs : Notify(j)
  <2>1. PICK j \in Jobs : Notify(j)
    BY <1>3
  <2>2. /\ UNCHANGED <<max_pending, tasks, stopping, task, stopper, promise>>
        /\ job' = [job EXCEPT ![j] = "submitted"]
    BY <2>1 DEF Notify
  <2>3. at' = at \/ \E v \in Workers : at[v] = "sleep" /\ at' = [at EXCEPT ![v] = "run"]
    BY <2>1 DEF Notify, Asleep
  <2>4. /\ PoolTypeOK'
        /\ \A w \in Workers : (Busy(w)' <=> Busy(w)) /\ (at'[w] = "exit" <=> at[w] = "exit")
    BY <2>2, <2>3 DEF PoolIInv, PoolTypeOK, Busy
  <2>5. QED
    BY <2>2, <2>4 DEF PoolIInv, PoolTypeOK, NewIsFresh, QueueDistinct, TakenByOne, LeavesLast,
                      StopBegun, Queued
<1>4. CASE \E w \in Workers : WorkerSleep(w) \/ WorkerSpurious(w)
  BY <1>4 DEF WorkerSleep, WorkerSpurious, PoolIInv, PoolTypeOK, NewIsFresh, QueueDistinct, TakenByOne,
              LeavesLast, StopBegun, Busy, Queued
<1>5. CASE \E w \in Workers : WorkerTake(w)
  <2>1. PICK w \in Workers : WorkerTake(w)
    BY <1>5
  <2>2. /\ at[w] = "run" /\ tasks # <<>> /\ tasks' = Tail(tasks)
        /\ task' = [task EXCEPT ![w] = Head(tasks)] /\ at' = [at EXCEPT ![w] = "task"]
        /\ UNCHANGED <<max_pending, stopping, job, stopper, promise>>
    BY <2>1 DEF WorkerTake
  <2>3. /\ Head(tasks) \in Jobs /\ tasks' \in Seq(Jobs) /\ Head(tasks) = tasks[1]
        /\ Len(tasks') = Len(tasks) - 1 /\ Len(tasks) \in Nat \ {0}
        /\ \A i \in 1..Len(tasks') : tasks'[i] = tasks[i + 1]
    BY <2>2, TasksTail DEF PoolIInv
  <2>4. 1 \in 1..Len(tasks) /\ \A i \in 1..Len(tasks') : i + 1 \in 1..Len(tasks) /\ i + 1 # 1
    BY <2>3
  <2>5. PoolTypeOK'
    BY <2>2, <2>3 DEF PoolIInv, PoolTypeOK
  <2>6. /\ \A v \in Workers : v # w => (Busy(v)' <=> Busy(v)) /\ task'[v] = task[v]
        /\ task'[w] = Head(tasks) /\ Busy(w)'
    BY <2>2 DEF PoolIInv, PoolTypeOK, Busy
  <2>7. NewIsFresh'
    <3>1. \A j \in Jobs : Queued(j)' => Queued(j)
      BY <2>3, <2>4 DEF Queued
    <3>2. Queued(Head(tasks))
      BY <2>3, <2>4 DEF Queued
    <3>3. QED
      BY <2>2, <2>6, <3>1, <3>2 DEF PoolIInv, NewIsFresh
  <2>8. QueueDistinct'
    <3>1. \A i, k \in 1..Len(tasks') : tasks'[i] = tasks'[k] => i + 1 = k + 1
      BY <2>3, <2>4 DEF PoolIInv, QueueDistinct
    <3>2. \A i, k \in 1..Len(tasks') : i + 1 = k + 1 => i = k
      BY <2>3
    <3>3. \A i \in 1..Len(tasks') : Head(tasks) # tasks'[i]
      BY <2>3, <2>4 DEF PoolIInv, QueueDistinct
    <3>4. \A i \in 1..Len(tasks'), v \in Workers : v # w /\ Busy(v)' => task'[v] # tasks'[i]
      BY <2>3, <2>4, <2>6 DEF PoolIInv, QueueDistinct
    <3>5. QED
      BY <2>6, <3>1, <3>2, <3>3, <3>4 DEF QueueDistinct
  <2>9. TakenByOne'
    <3>1. \A v \in Workers : Busy(v) => task[v] # Head(tasks)
      BY <2>3, <2>4 DEF PoolIInv, QueueDistinct
    <3>2. QED
      BY <2>3, <2>6, <3>1 DEF PoolIInv, TakenByOne
  <2>10. LeavesLast' /\ StopBegun'
    BY <2>2 DEF PoolIInv, PoolTypeOK, LeavesLast, StopBegun
  <2>11. QED
    BY <2>5, <2>7, <2>8, <2>9, <2>10 DEF PoolIInv
<1>6. CASE \E w \in Workers : WorkerExit(w)
  BY <1>6 DEF WorkerExit, PoolIInv, PoolTypeOK, NewIsFresh, QueueDistinct, TakenByOne, LeavesLast,
              StopBegun, Busy, Queued
<1>7. CASE \E w \in Workers : RunTask(w)
  BY <1>7 DEF RunTask, PoolIInv, PoolTypeOK, NewIsFresh, QueueDistinct, TakenByOne, LeavesLast,
              StopBegun, Busy, Queued
<1>8. CASE stop
  BY <1>8 DEF stop, PoolIInv, PoolTypeOK, NewIsFresh, QueueDistinct, TakenByOne, LeavesLast,
              StopBegun, Busy, Queued
<1>9. CASE NotifyAll
  <2>1. /\ UNCHANGED <<max_pending, tasks, stopping, task, job, promise>>
        /\ stopper = "notify" /\ stopper' = "join"
    BY <1>9 DEF NotifyAll
  <2>2. /\ PoolTypeOK'
        /\ \A w \in Workers : (Busy(w)' <=> Busy(w)) /\ (at'[w] = "exit" <=> at[w] = "exit")
    BY <1>9, <2>1 DEF NotifyAll, PoolIInv, PoolTypeOK, Busy
  <2>3. QED
    BY <2>1, <2>2 DEF PoolIInv, PoolTypeOK, NewIsFresh, QueueDistinct, TakenByOne, LeavesLast,
                      StopBegun, Queued
<1>10. CASE Join
  BY <1>10 DEF Join, PoolIInv, PoolTypeOK, NewIsFresh, QueueDistinct, TakenByOne, LeavesLast,
               StopBegun, Busy, Queued
<1>11. CASE UNCHANGED poolVars
  BY <1>11 DEF poolVars, PoolIInv, PoolTypeOK, NewIsFresh, QueueDistinct, TakenByOne, LeavesLast,
               StopBegun, Busy, Queued
<1>12. QED
  BY <1>1, <1>2, <1>3, <1>4, <1>5, <1>6, <1>7, <1>8, <1>9, <1>10, <1>11 DEF PoolNext, Work

LEMMA PoolInductive == PoolSpec => []PoolIInv
BY PoolInitHolds, PoolStepHolds, PTL DEF PoolSpec

\* Type correctness of the pool's state (thread.hpp, members of ThreadPool).
THEOREM PoolTypeCorrect == PoolSpec => []PoolTypeOK
<1>1. PoolIInv => PoolTypeOK
  BY DEF PoolIInv
<1>2. QED
  BY <1>1, PoolInductive, PTL

-----------------------------------------------------------------------------
(* Refinement: every step is a step of Executor or changes nothing of it.  *)

\* As long as a worker is free, fewer jobs run than there are workers.
LEMMA RoomForOne ==
    ASSUME PoolIInv, NEW w \in Workers, ~Busy(w)
    PROVE  IsFiniteSet(Taken) /\ Cardinality(Taken) < Cardinality(Workers)
<1> DEFINE S == {v \in Workers : at[v] = "task"}
           f == [v \in S |-> task[v]]
<1>1. S \subseteq Workers \ {w}
  BY DEF Busy
<1>2. IsFiniteSet(Workers \ {w}) /\ Cardinality(Workers \ {w}) = Cardinality(Workers) - 1
  BY ThreadPoolAssumption, FS_RemoveElement
<1>3. IsFiniteSet(S) /\ Cardinality(S) <= Cardinality(Workers \ {w})
  BY <1>1, <1>2, FS_Subset
<1>4. Taken = {f[v] : v \in S}
  BY DEF Taken
<1>5. f \in Surjection(S, Taken)
  BY <1>4 DEF Surjection
<1>6. IsFiniteSet(Taken) /\ Cardinality(Taken) <= Cardinality(S)
  BY <1>3, <1>5, FS_Surjection
<1>7. /\ Cardinality(S) \in Nat /\ Cardinality(Taken) \in Nat
      /\ Cardinality(Workers) \in Nat
  BY <1>3, <1>6, FS_CardinalityType, ThreadPoolAssumption
<1>8. QED
  BY <1>2, <1>3, <1>6, <1>7

\* The jobs that run are known from where the workers are.
LEMMA TakenSame ==
    ASSUME PoolTypeOK, task' \in [Workers -> Jobs \cup {None}],
           \A w \in Workers : /\ at'[w] = "task" <=> at[w] = "task"
                              /\ at[w] = "task" => task'[w] = task[w]
    PROVE  Taken' = Taken
BY DEF Taken

LEMMA PoolStepRefines == ASSUME PoolIInv, [PoolNext]_poolVars PROVE [E!Next]_(E!vars)
<1> USE DEF pool
<1> PoolTypeOK
  BY DEF PoolIInv
<1>1. ASSUME NEW j \in Jobs, try_submit(j) PROVE E!Accept(j)
  <2>1. /\ job[j] = "new" /\ ~stopping /\ tasks' = Append(tasks, j)
        /\ UNCHANGED <<stopping, stopper, at, task, promise>>
    BY <1>1 DEF try_submit
  <2>2. Taken' = Taken
    BY <2>1 DEF Taken
  <2>3. stopper = "no"
    BY <2>1 DEF PoolIInv, StopBegun
  <2>4. DOMAIN tasks = 1..Len(tasks)
    BY LenProperties DEF PoolTypeOK
  <2>5. E!Fresh(j)
    BY <2>1, <2>4 DEF E!Fresh, PoolIInv, NewIsFresh, Queued, Busy, Taken
  <2>6. QED
    BY <2>1, <2>2, <2>3, <2>5 DEF E!Accept
<1>2. ASSUME NEW j \in Jobs, Rejected(j) PROVE E!Refuse(j)
  <2>1. /\ job[j] = "new" /\ promise' = [promise EXCEPT ![j] = "overload"]
        /\ UNCHANGED <<tasks, stopping, stopper, at, task>>
    BY <1>2 DEF Rejected
  <2>2. Taken' = Taken
    BY <2>1 DEF Taken
  <2>4. DOMAIN tasks = 1..Len(tasks)
    BY LenProperties DEF PoolTypeOK
  <2>5. E!Fresh(j)
    BY <2>1, <2>4 DEF E!Fresh, PoolIInv, NewIsFresh, Queued, Busy, Taken
  <2>6. QED
    BY <2>1, <2>2, <2>5 DEF E!Refuse
<1>3. ASSUME NEW j \in Jobs, Notify(j) PROVE UNCHANGED E!vars
  <2>1. UNCHANGED <<tasks, stopping, task, stopper, promise>>
    BY <1>3 DEF Notify
  <2>2. at' = at \/ \E v \in Workers : at[v] = "sleep" /\ at' = [at EXCEPT ![v] = "run"]
    BY <1>3 DEF Notify, Asleep
  <2>3. Taken' = Taken
    BY <2>1, <2>2, TakenSame DEF PoolTypeOK
  <2>4. QED
    BY <2>1, <2>3 DEF E!vars
<1>4. ASSUME NEW w \in Workers, WorkerSleep(w) \/ WorkerSpurious(w) \/ WorkerExit(w) PROVE UNCHANGED E!vars
  <2>1. UNCHANGED <<tasks, stopping, task, stopper, promise>>
    BY <1>4 DEF WorkerSleep, WorkerSpurious, WorkerExit
  <2>2. \E to \in {"sleep", "run", "exit"} :
            at[w] \in {"sleep", "run"} /\ at' = [at EXCEPT ![w] = to]
    BY <1>4 DEF WorkerSleep, WorkerSpurious, WorkerExit
  <2>3. Taken' = Taken
    BY <2>1, <2>2, TakenSame DEF PoolTypeOK
  <2>4. QED
    BY <2>1, <2>3 DEF E!vars
<1>5. ASSUME NEW w \in Workers, WorkerTake(w) PROVE E!Begin
  <2>1. /\ at[w] = "run" /\ tasks # <<>> /\ tasks' = Tail(tasks)
        /\ task' = [task EXCEPT ![w] = Head(tasks)] /\ at' = [at EXCEPT ![w] = "task"]
        /\ UNCHANGED <<stopping, stopper, promise>>
    BY <1>5 DEF WorkerTake
  <2>2. Cardinality(Taken) < Cardinality(Workers)
    BY <2>1, RoomForOne DEF Busy
  <2>3. /\ task'[w] = Head(tasks) /\ at'[w] = "task"
        /\ \A v \in Workers : v # w => task'[v] = task[v] /\ at'[v] = at[v]
    BY <2>1 DEF PoolTypeOK
  <2>4. Taken' = Taken \cup {Head(tasks)}
    BY <2>1, <2>3 DEF Taken
  <2>5. E!Cardinality(Taken) = Cardinality(Taken)
    BY DEF E!Cardinality, Cardinality
  <2>6. QED
    BY <2>1, <2>2, <2>4, <2>5 DEF E!Begin
<1>6. ASSUME NEW w \in Workers, RunTask(w) PROVE E!Finish(task[w]) /\ task[w] \in Jobs
  <2>1. /\ at[w] = "task" /\ task' = [task EXCEPT ![w] = None]
        /\ at' = [at EXCEPT ![w] = "run"] /\ UNCHANGED <<tasks, stopping, stopper>>
        /\ \E a \in {"value", "exception"} : promise' = [promise EXCEPT ![task[w]] = a]
    BY <1>6 DEF RunTask
  <2>2. /\ at'[w] = "run"
        /\ \A v \in Workers : v # w => task'[v] = task[v] /\ at'[v] = at[v]
    BY <2>1 DEF PoolTypeOK
  <2>3. \A v \in Workers : at[v] = "task" /\ task[v] = task[w] => v = w
    BY <2>1 DEF PoolIInv, TakenByOne, Busy
  <2>4. task[w] \in Taken
    BY <2>1 DEF Taken
  <2>5. Taken' = Taken \ {task[w]}
    BY <2>2, <2>3 DEF Taken
  <2>6. QED
    BY <2>1, <2>4, <2>5 DEF E!Finish, PoolIInv, TakenByOne, Busy
<1>7. ASSUME stop PROVE E!Close
  <2>1. /\ stopper = "no" /\ stopper' = "notify" /\ stopping'
        /\ UNCHANGED <<tasks, at, task, promise>>
    BY <1>7 DEF stop
  <2>2. ~stopping /\ Taken' = Taken
    BY <2>1 DEF PoolIInv, StopBegun, Taken
  <2>3. QED
    BY <2>1, <2>2 DEF E!Close
<1>8. ASSUME NotifyAll PROVE UNCHANGED E!vars
  <2>1. /\ UNCHANGED <<tasks, stopping, task, promise>>
        /\ stopper = "notify" /\ stopper' = "join"
        /\ at' = [w \in Workers |-> IF at[w] = "sleep" THEN "run" ELSE at[w]]
    BY <1>8 DEF NotifyAll
  <2>2. Taken' = Taken
    BY <2>1, TakenSame DEF PoolTypeOK
  <2>3. QED
    BY <2>1, <2>2 DEF E!vars
<1>9. ASSUME Join PROVE E!Closed
  <2>1. /\ stopper = "join" /\ stopper' = "joined" /\ \A w \in Workers : at[w] = "exit"
        /\ UNCHANGED <<tasks, stopping, at, task, promise>>
    BY <1>9 DEF Join
  <2>2. stopping /\ tasks = <<>>
    BY <2>1, ThreadPoolAssumption DEF PoolIInv, LeavesLast
  <2>3. Taken = {} /\ Taken' = Taken
    BY <2>1 DEF Taken
  <2>4. QED
    BY <2>1, <2>2, <2>3 DEF E!Closed
<1>10. ASSUME UNCHANGED poolVars PROVE UNCHANGED E!vars
  <2>1. Taken' = Taken
    BY <1>10 DEF poolVars, Taken
  <2>2. QED
    BY <1>10, <2>1 DEF poolVars, E!vars
<1>11. QED
  BY <1>1, <1>2, <1>3, <1>4, <1>5, <1>6, <1>7, <1>8, <1>9, <1>10 DEF PoolNext, Work, E!Next

LEMMA PoolInitRefines == PoolInit => E!Init
<1> SUFFICES ASSUME PoolInit PROVE E!Init
  OBVIOUS
<1>1. Taken = {}
  BY DEF PoolInit, Taken
<1>2. QED
  BY <1>1 DEF PoolInit, E!Init

\* The pool implements the executor (thread.hpp, worker_loop, try_submit,
\* stop_and_join): accepted jobs start in order, each once, never more at a time
\* than there are workers, and the stop returns after the last.
THEOREM ImplementsExecutor == PoolSpec => IsExecutor
<1>1. PoolIInv /\ [PoolNext]_poolVars => [E!Next]_(E!vars)
  BY PoolStepRefines
<1>2. QED
  BY <1>1, PoolInitRefines, PoolInductive, PTL DEF PoolSpec, IsExecutor, E!Spec

=============================================================================
