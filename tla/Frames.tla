------------------------------- MODULE Frames -------------------------------
(***************************************************************************)
(* The life of coroutine frames: EventLoop::FrameTracker and the paths of  *)
(* Task that start, suspend, resume, cancel, abandon and free a frame      *)
(* (include/coro/event_loop.hpp, include/coro/task.hpp).                   *)
(*                                                                         *)
(* A frame is an address and a generation: an address is reused as soon as *)
(* its frame is freed, and handles to the old frame may still be in the    *)
(* ready queue, in the wait lists of sync.hpp and in the timer heap.       *)
(*                                                                         *)
(* The ready queue and the batch are one FIFO here.  Between popping an    *)
(* entry (which clears scheduled) and the end of the awaiter's             *)
(* await_resume the loop holds no lock; another thread may notify the same *)
(* frame in between (foreign).                                             *)
(***************************************************************************)
EXTENDS Integers, Sequences, FiniteSets

CONSTANTS Addrs,      \* addresses frames are allocated at
          NoAddr,     \* no frame is being resumed
          MaxGen,     \* bound on the frames started
          MaxWait     \* bound on the waits begun

ASSUME FramesAssumption ==
    /\ NoAddr \notin Addrs
    /\ MaxGen \in Nat /\ MaxWait \in Nat

VARIABLES alloc,      \* generation of the frame allocated at each address, 0: none
          live,       \* live_frames_: the registered generation, 0: none
          scheduled,  \* FrameState::scheduled
          wait_epoch, \* FrameState::wait_epoch
          abandoned,  \* abandoned_handles_, by address
          nextgen,    \* next_generation_
          nextwait,   \* next_wait_epoch_
          queue,      \* batch_ followed by ready_queue_
          waiters,    \* <<address, epoch>> in the wait lists of sync.hpp
          timers,     \* <<address, generation, wait>> in timer_heap_, not consumed
          io,         \* frames whose awaiter is in the hands of the kernel
          st,         \* what the frame at each address is doing
          wait,       \* the wait the frame is suspended in, 0: none
          cancelled,  \* addresses with promise.cancelled_ set
          tasks,      \* addresses whose frame is owned by a Task
          pc, cur,    \* the batch loop: "idle", "popped" or "body", on which entry
          foreign     \* TRUE: other threads notify the waiters of sync.hpp; chosen once

vars == <<alloc, live, scheduled, wait_epoch, abandoned, nextgen, nextwait, queue,
          waiters, timers, io, st, wait, cancelled, tasks, pc, cur,
          foreign>>

\* An entry carries the handle and the generation.  why is a history field: the
\* wait the frame was in when the entry was made.
Entry == [h : Addrs, generation : 1..MaxGen, why : 0..MaxWait]
NoEntry == [h |-> NoAddr, generation |-> 0, why |-> 0]

\* promise.suspended_
Suspended(h) == st[h] \in {"yield", "wait", "sleep", "io"}

-----------------------------------------------------------------------------
(* FrameTracker, under queue_mutex_.                                       *)

\* try_reserve: the frame is registered and not in the queue yet.
try_reserve(h) == live[h] # 0 /\ ~scheduled[h]

\* schedule(h), and the same for the other ways in, once they may reserve.
Queue(h, may, why) ==
    /\ scheduled' = [scheduled EXCEPT ![h] = @ \/ may]
    /\ queue' = IF may
                THEN Append(queue, [h |-> h, generation |-> live[h], why |-> why])
                ELSE queue

schedule(h) == Queue(h, try_reserve(h), wait[h])

try_reserve_if_current(h, epoch) == wait_epoch[h] = epoch /\ try_reserve(h)

\* Mutant: the generation is not compared.
ReleaseLive(entry) == live[entry.h] # 0

\* release: refuses an entry of an earlier frame at the same address.
release(entry) == live[entry.h] = entry.generation

\* on_coroutine_started: add() and the first schedule()
Start(h) ==
    /\ pc \in {"idle", "body"}
    /\ alloc[h] = 0
    /\ nextgen < MaxGen
    /\ nextgen' = nextgen + 1
    /\ alloc' = [alloc EXCEPT ![h] = nextgen + 1]
    /\ live' = [live EXCEPT ![h] = IF @ = 0 THEN nextgen + 1 ELSE @]
    /\ scheduled' = [scheduled EXCEPT ![h] = TRUE]
    /\ queue' = IF scheduled[h] THEN queue
                ELSE Append(queue, [h |-> h, generation |-> live'[h], why |-> 0])
    /\ st' = [st EXCEPT ![h] = "new"]
    /\ tasks' = tasks \cup {h}
    /\ UNCHANGED <<wait_epoch, abandoned, nextwait, waiters, timers, io, wait,
                   cancelled, pc, cur>>

-----------------------------------------------------------------------------
(* The batch loop.                                                         *)

Pop ==
    /\ pc = "idle"
    /\ queue # <<>>
    /\ queue' = Tail(queue)
    /\ IF release(Head(queue))
       THEN /\ pc' = "popped" /\ cur' = Head(queue)
            /\ scheduled' = [scheduled EXCEPT ![Head(queue).h] = FALSE]
       ELSE UNCHANGED <<pc, cur, scheduled>>
    /\ UNCHANGED <<alloc, live, wait_epoch, abandoned, nextgen, nextwait, waiters,
                   timers, io, st, wait, cancelled, tasks>>

\* Mutants: the wait list keeps the handle; the timer's token is not set.
EndWaitKeepsWaiter(h) ==
    /\ timers' = {t \in timers : t[1] # h}
    /\ wait' = [wait EXCEPT ![h] = 0]
    /\ UNCHANGED waiters

EndWaitKeepsTimer(h) ==
    /\ waiters' = {w \in waiters : w[1] # h}
    /\ wait' = [wait EXCEPT ![h] = 0]
    /\ UNCHANGED timers

\* The awaiter the frame is suspended in ends its wait: await_resume, or its
\* on_waiter_destroyed / destructor on the way of a CancelledError or a destroy.
EndWait(h) ==
    /\ waiters' = {w \in waiters : w[1] # h}
    /\ timers' = {t \in timers : t[1] # h}
    /\ wait' = [wait EXCEPT ![h] = 0]

\* Resume: the wait ends, a pending cancellation is thrown into the body.
Resume ==
    LET h == cur.h IN
    /\ pc = "popped"
    /\ h \notin abandoned
    /\ pc' = "body"
    /\ EndWait(h)
    /\ wait_epoch' = [wait_epoch EXCEPT ![h] = 0]
    /\ st' = [st EXCEPT ![h] = "run"]
    /\ cancelled' = IF Suspended(h) THEN cancelled \ {h} ELSE cancelled
    /\ UNCHANGED <<alloc, live, scheduled, abandoned, nextgen, nextwait, queue, io,
                   tasks, cur>>

\* on_coroutine_finished, then the frame's memory is freed.
Free(h) ==
    /\ live' = [live EXCEPT ![h] = 0]
    /\ scheduled' = [scheduled EXCEPT ![h] = FALSE]
    /\ wait_epoch' = [wait_epoch EXCEPT ![h] = 0]
    /\ alloc' = [alloc EXCEPT ![h] = 0]
    /\ st' = [st EXCEPT ![h] = "free"]
    /\ cancelled' = cancelled \ {h}
    /\ tasks' = tasks \ {h}

\* The batch loop frees an abandoned frame instead of resuming it.
CleanupAbandoned ==
    LET h == cur.h IN
    /\ pc = "popped"
    /\ h \in abandoned
    /\ pc' = "idle" /\ cur' = NoEntry
    /\ abandoned' = abandoned \ {h}
    /\ EndWait(h)
    /\ Free(h)
    /\ UNCHANGED <<nextgen, nextwait, queue, io>>

-----------------------------------------------------------------------------
(* The body of the frame being resumed, up to its next suspension.         *)

Leave(h) == pc = "body" /\ cur.h = h /\ pc' = "idle" /\ cur' = NoEntry

\* Every co_await throws at once if a cancellation is pending.
MaySuspend(h) == Leave(h) /\ h \notin cancelled

\* final_suspend does not suspend: the frame is freed at once.
Finish(h) ==
    /\ Leave(h)
    /\ Free(h)
    /\ UNCHANGED <<abandoned, nextgen, nextwait, queue, waiters, timers, io, wait>>

Yield(h) ==
    /\ MaySuspend(h)
    /\ st' = [st EXCEPT ![h] = "yield"]
    /\ schedule(h)
    /\ UNCHANGED <<alloc, live, wait_epoch, abandoned, nextgen, nextwait, waiters,
                   timers, io, wait, cancelled, tasks>>

\* A wait of sync.hpp: begin_wait() and the registration in the wait list.
BeginWait(h) ==
    /\ MaySuspend(h)
    /\ nextwait < MaxWait
    /\ nextwait' = nextwait + 1
    /\ wait_epoch' = [wait_epoch EXCEPT ![h] = nextwait + 1]
    /\ waiters' = waiters \cup {<<h, nextwait + 1>>}
    /\ wait' = [wait EXCEPT ![h] = nextwait + 1]
    /\ st' = [st EXCEPT ![h] = "wait"]
    /\ UNCHANGED <<alloc, live, scheduled, abandoned, nextgen, queue, timers, io,
                   cancelled, tasks>>

\* sleep_awaiter: the heap entry carries the generation.
Sleep(h) ==
    /\ MaySuspend(h)
    /\ nextwait < MaxWait
    /\ nextwait' = nextwait + 1
    /\ timers' = timers \cup {<<h, live[h], nextwait + 1>>}
    /\ wait' = [wait EXCEPT ![h] = nextwait + 1]
    /\ st' = [st EXCEPT ![h] = "sleep"]
    /\ UNCHANGED <<alloc, live, scheduled, wait_epoch, abandoned, nextgen, queue,
                   waiters, io, cancelled, tasks>>

StartIo(h) ==
    /\ MaySuspend(h)
    /\ nextwait < MaxWait
    /\ nextwait' = nextwait + 1
    /\ io' = io \cup {h}
    /\ wait' = [wait EXCEPT ![h] = nextwait + 1]
    /\ st' = [st EXCEPT ![h] = "io"]
    /\ UNCHANGED <<alloc, live, scheduled, wait_epoch, abandoned, nextgen, queue,
                   waiters, timers, cancelled, tasks>>

-----------------------------------------------------------------------------
(* What wakes a frame.                                                     *)

\* release/set/notify of a primitive: pop a waiter and schedule_if_current().
Notify(h, epoch) ==
    /\ foreign \/ pc \in {"idle", "body"}
    /\ <<h, epoch>> \in waiters
    /\ waiters' = waiters \ {<<h, epoch>>}
    /\ Queue(h, try_reserve_if_current(h, epoch), epoch)
    /\ UNCHANGED <<alloc, live, wait_epoch, abandoned, nextgen, nextwait, timers, io,
                   st, wait, cancelled, tasks, pc, cur>>

\* process_timers: try_reserve with the entry's generation
Expire(h, g, w) ==
    /\ pc = "idle"
    /\ <<h, g, w>> \in timers
    /\ timers' = timers \ {<<h, g, w>>}
    /\ Queue(h, live[h] = g /\ try_reserve(h), w)
    /\ UNCHANGED <<alloc, live, wait_epoch, abandoned, nextgen, nextwait, waiters, io,
                   st, wait, cancelled, tasks, pc, cur>>

\* A completion, natural or forced by cancel_op, is reaped.
IoDone(h) ==
    /\ pc = "idle"
    /\ h \in io
    /\ io' = io \ {h}
    /\ schedule(h)
    /\ UNCHANGED <<alloc, live, wait_epoch, abandoned, nextgen, nextwait, waiters,
                   timers, st, wait, cancelled, tasks, pc, cur>>

-----------------------------------------------------------------------------
(* The Task that owns the frame, on the loop's thread.                     *)

\* Mutant: cancel() sets the flag and leaves the frame suspended.
CancelFlagOnly(h) ==
    /\ pc \in {"idle", "body"}
    /\ h \in tasks
    /\ cancelled' = cancelled \cup {h}
    /\ UNCHANGED <<alloc, live, scheduled, queue, wait_epoch, abandoned, nextgen,
                   nextwait, waiters, timers, io, st, wait, tasks, pc, cur>>

\* Task::cancel: with I/O pending only the I/O is cancelled; a suspended frame
\* is scheduled; a running or new one meets the flag at its next co_await.
Cancel(h) ==
    /\ pc \in {"idle", "body"}
    /\ h \in tasks
    /\ cancelled' = cancelled \cup {h}
    /\ IF Suspended(h) /\ st[h] # "io" THEN schedule(h) ELSE UNCHANGED <<scheduled, queue>>
    /\ UNCHANGED <<alloc, live, wait_epoch, abandoned, nextgen, nextwait, waiters,
                   timers, io, st, wait, tasks, pc, cur>>

\* Mutant: mark_abandoned does not ask whether the frame is in the ready queue.
DestroyLater(h) ==
    /\ pc \in {"idle", "body"}
    /\ h \in tasks /\ h # cur.h
    /\ abandoned' = abandoned \cup {h}
    /\ tasks' = tasks \ {h}
    /\ UNCHANGED <<alloc, live, scheduled, wait_epoch, waiters, timers, st, wait,
                   cancelled, nextgen, nextwait, queue, io, pc, cur>>

\* ~Task of an unfinished coroutine (not the running one): with I/O pending the
\* frame is left to the completion; in the ready queue it is left to the batch
\* loop; otherwise it is freed now.
Destroy(h) ==
    /\ pc \in {"idle", "body"}
    /\ h \in tasks /\ h # cur.h
    /\ IF st[h] = "io" \/ scheduled[h]
       THEN /\ abandoned' = abandoned \cup {h}
            /\ tasks' = tasks \ {h}
            /\ UNCHANGED <<alloc, live, scheduled, wait_epoch, waiters, timers, st,
                           wait, cancelled>>
       ELSE EndWait(h) /\ Free(h) /\ UNCHANGED abandoned
    /\ UNCHANGED <<nextgen, nextwait, queue, io, pc, cur>>

\* Task::detach: the frame runs on by itself.
Detach(h) ==
    /\ pc \in {"idle", "body"}
    /\ h \in tasks
    /\ tasks' = tasks \ {h}
    /\ UNCHANGED <<alloc, live, scheduled, wait_epoch, abandoned, nextgen, nextwait,
                   queue, waiters, timers, io, st, wait, cancelled, pc, cur>>

-----------------------------------------------------------------------------

Init ==
    /\ alloc = [h \in Addrs |-> 0] /\ live = [h \in Addrs |-> 0]
    /\ scheduled = [h \in Addrs |-> FALSE] /\ wait_epoch = [h \in Addrs |-> 0]
    /\ abandoned = {} /\ nextgen = 0 /\ nextwait = 0
    /\ queue = <<>> /\ waiters = {} /\ timers = {} /\ io = {}
    /\ st = [h \in Addrs |-> "free"] /\ wait = [h \in Addrs |-> 0]
    /\ cancelled = {} /\ tasks = {}
    /\ pc = "idle" /\ cur = NoEntry /\ foreign \in BOOLEAN

BodyStep(h) == Finish(h) \/ Yield(h) \/ BeginWait(h) \/ Sleep(h) \/ StartIo(h)
TaskStep(h) == Start(h) \/ Cancel(h) \/ Destroy(h) \/ Detach(h)
LoopStep == Pop \/ Resume \/ CleanupAbandoned

Same == UNCHANGED foreign

Next ==
    \/ LoopStep /\ Same
    \/ \E h \in Addrs : (BodyStep(h) \/ TaskStep(h) \/ IoDone(h)) /\ Same
    \/ \E w \in waiters : Notify(w[1], w[2]) /\ Same
    \/ \E t \in timers : Expire(t[1], t[2], t[3]) /\ Same

Spec == Init /\ [][Next]_vars

\* The loop keeps running, bodies reach their next suspension, and the kernel
\* completes every operation (cancel_op forces the ones of a cancelled frame).
Fairness ==
    /\ WF_vars(LoopStep /\ Same)
    /\ WF_vars(\E h \in Addrs : BodyStep(h) /\ Same)
    /\ \A h \in Addrs : SF_vars(IoDone(h) /\ Same)

FairSpec == Spec /\ Fairness

-----------------------------------------------------------------------------
(* Properties.                                                             *)

TypeOK ==
    /\ alloc \in [Addrs -> 0..MaxGen] /\ live \in [Addrs -> 0..MaxGen]
    /\ scheduled \in [Addrs -> BOOLEAN] /\ wait_epoch \in [Addrs -> 0..MaxWait]
    /\ abandoned \subseteq Addrs /\ nextgen \in 0..MaxGen /\ nextwait \in 0..MaxWait
    /\ queue \in Seq(Entry)
    /\ waiters \subseteq Addrs \X (1..MaxWait)
    /\ timers \subseteq Addrs \X (1..MaxGen) \X (1..MaxWait)
    /\ io \subseteq Addrs
    /\ st \in [Addrs -> {"free", "new", "run", "yield", "wait", "sleep", "io"}]
    /\ wait \in [Addrs -> 0..MaxWait]
    /\ cancelled \subseteq Addrs /\ tasks \subseteq Addrs
    /\ pc \in {"idle", "popped", "body"} /\ cur \in Entry \cup {NoEntry}
    /\ foreign \in BOOLEAN

\* No use after free: the frame the loop is about to resume is the very frame
\* its entry was made for, never freed memory or a newer frame at its address.
ResumesItsFrame == pc = "popped" => alloc[cur.h] = cur.generation

\* Wait lists, timers and the kernel only hold frames that still exist and still
\* are in that wait: no awaiter is touched after its frame is gone, as long as
\* notifications come from the loop's own thread.
NoDanglingWaiter ==
    foreign \/
    /\ \A w \in waiters : alloc[w[1]] # 0 /\ wait[w[1]] = w[2]
    /\ \A t \in timers : alloc[t[1]] = t[2] /\ wait[t[1]] = t[3]
    /\ \A h \in io : alloc[h] # 0 /\ st[h] = "io"

\* An abandoned frame cannot leak, nor its mark pass to the next frame at that
\* address: the frame exists and the loop still has an entry or an operation
\* that leads to it.
AbandonedIsReclaimed ==
    \A h \in abandoned : alloc[h] # 0 /\ (scheduled[h] \/ h \in io \/ cur.h = h)

\* A notification of an earlier wait never ends a later one: schedule_if_current
\* drops it ("取消后 catch 再等, 不会被上一条迟到通知提前唤醒").
NoLateNotification ==
    pc = "popped" /\ cur.h \notin abandoned /\ st[cur.h] = "wait"
        => cur.why = wait[cur.h]

\* schedule_if_current keeps that promise as long as notifications come from the
\* loop's own thread.
ResumesItsWait == ~foreign => NoLateNotification

\* cancel() reaches every suspended coroutine: it is resumed with CancelledError
\* or its frame is freed, whatever it was waiting for.
CancelDelivered ==
    \A h \in Addrs : (h \in cancelled /\ Suspended(h)) ~> h \notin cancelled

=============================================================================
