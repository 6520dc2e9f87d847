# A TLA+ verification of std_coro

std_coro is a C++20 coroutine runtime in the style of asyncio: one event loop per
thread, tasks, synchronisation primitives, queues and channels on top of it, and
I/O through io_uring, IOCP or a condition variable.  This directory holds TLA+
models of its core, the TLC runs that check them on small instances, and TLAPS
proofs for every instance.

## Inventory

| component | state | operations | what is hard | module |
|---|---|---|---|---|
| event loop (`event_loop.hpp`, `event_source.hpp`, `sleep.hpp`) | ready queue and batch, timer heap, function queue and batch, `running_`, `awake_`, `has_pending_fn_` | `run`, `schedule`, `dispatch`, `stop`, timers, the event source's `wait_for`/`wake` | calls of other threads at any point of the loop; the sleep protocol; exceptions; starvation | EventLoop |
| frames and tasks (`FrameTracker`, `task.hpp`) | live frames with generation, `scheduled`, wait epoch; abandoned handles; cancellation flags | start, suspend, resume, await, cancel, destroy, detach | reuse of addresses, frames freed while queued or held by the kernel, late notifications | Frames, Tasks |
| queue (`queue.hpp`) | elements, reservations, three wait lists, unfinished count | get, put, task_done, join, shutdown | the gap between waking a waiter and resuming it | Queue |
| sync (`sync.hpp`) | owners, permits, wait lists | acquire, release, wait, notify | release from other threads, cancellation of a chosen waiter | Lock, Semaphore, Event |
| future (`future.hpp`) | result, waiters | set, await, abandon | set and await on different threads | Future |
| channel, select | buffer, sender and receiver lists, selection gates | send, receive, close, select | one winner among several registrations; a served waiter that is cancelled | Channel |
| pool | idle resources, slots, wait list | acquire, release, close | a wake-up is not a resource; an asynchronous factory that fails | Pool |
| task group | monitors, remaining count, exceptions | spawn, wait, cancel | a barrier under cancellation | Group |
| gather, wait_for, wait_tasks | shared state with a count and the first outcome; a timer with a pointer to the task | call, monitor, expire | expiry against completion against cancellation; a caller that has gone | Combinators |
| scheduler | atomic counters, an Event, worker loops | spawn_any, join, wait_all, destruction | counters read one after the other by another thread; stop before the loop runs | Scheduler |
| thread offload (`thread.hpp`) | job queue, condition variable | submit, stop, work | notification outside the lock, stop with jobs queued | ThreadPool |
| timer, context, rate limiter, task registry, signal | deadlines, trees, counters | wait, cancel, reset, acquire | cancellation from other threads | none |
| streams, files, processes, network, HTTP, TLS, router, servers | buffers and descriptors | system calls and parsing | outside the scope: I/O and data | none |

The components meet in three calls.  Everything that wakes a coroutine ends in
`EventLoop::schedule`, `schedule_if_current` or a timer entry, all of which pass
`FrameTracker`.  Every `co_await` is wrapped in `cancel_check_awaiter`, which is
where a cancellation is thrown and where a waiter learns that it was dropped
(`on_waiter_destroyed`, or the awaiter's destructor).  And `~Task` decides who frees
a frame.  What makes every one of these components hard is the same gap: a waiter
that has been chosen, given something and queued has not run yet, and may be
cancelled or destroyed before it does.

What makes each component correct is stated by the properties in the table of runs.

## Modules

**EventLoop** models `run_impl` with one action for each critical section of
`queue_mutex_` and each access to an atomic; `pc` is the place in the loop.  The
other threads (`tpc`) are between calls or inside `cross_thread_wake_if_asleep`.
A coroutine body is arbitrary up to its next suspension: `Finish`, `Park` (a wait
that another thread ends), `Yield`, `Sleep`, `StartIo`.  `woken` is the event
source's latch (`woken_`, the eventfd counter, or the posted packet).  Frame
addresses are not reused here.

**Frames** models `FrameTracker` and the paths of `Task` and of
`cancel_check_awaiter` through it.  A frame is an address and a generation; an
address is free again as soon as its frame is.  The ready queue and the batch are
one FIFO, and the loop is `idle`, has `popped` an entry (its `scheduled` flag is
clear, its wait has not ended yet), or runs a `body`.  `foreign`, chosen once, says
whether notifications also come from other threads, that is also in `popped`.  The
field `why` of an entry is a history variable: the wait the entry was made for.  A
consumed timer entry disappears at once; the heap that drops it lazily is in
EventLoop.

**Queue** models `coro::Queue`.  It belongs to one loop, so an operation is one
step; the ready queue holds the waiters that were woken and not yet resumed.
Elements are counted.  `reserved` is `reserved_` of the awaiters; `inflight` and
`starved` are history variables.

**Waiting** is the common base of the primitives that may be used from several
threads: coroutines on loops, the ready queue of each loop, epochs, cancellation and
destruction of waiters (what Frames shows in detail for one loop, without reuse of
addresses).  `prog[l]` is the rest of the call that the thread of loop `l` is in, one
instruction for each critical section; other threads run between any two.  `home`,
the loop of each coroutine, is chosen in the initial state, and so is the program:
which coroutines there are and which primitives they use.  Waiters are
cancelled and destroyed at any moment.  One race the primitives do not survive: a
coroutine is cancelled on its loop while the thread of another is notifying it.
`Primitives!Unraced` names it; the passing run and the theorems exclude the behaviours
with it, and the run lock_leak shows what happens in them.

**Lock** (with Condition), **Semaphore**, **Event** and **Future** model the
primitives as parts, and **Primitives** composes them: a coroutine uses them in any
order, and a late notification of one may meet a wait for another.  In Lock `holds`
is a history variable: how often a coroutine's body believes to hold the lock.
Coroutines that wait for the condition hold the lock once, through a Guard.  A
Future has no epoch; its notification is a plain `schedule`.

**Local** is the base of the primitives that are used on one loop only: coroutines,
the ready queue, cancellation, destruction.  **Channel** models channel and select
on it.  A pending operation is a list of branches, one for send and recv, several
for a select; a node in a wait list is a coroutine, a branch number and a value, and
`winner` is the gate.  A value that is accepted and never received is in `excused` when
a receiver that returned it found the buffer full, which the code intends, and in
`lost` when it went with a select.  **Pool** models the pool.  **Locals** puts the two
side by side on the frames of Local: `calls`, chosen once, is what the coroutines of
a program do, operations on channels or, when there are none, leases of the pool.  No
program uses both; their only contact would be the ready queue.

**Tasks** is the base of the combinators of tasks: children that suspend, fail, or
catch a cancellation and clean up, and the coroutines that await them.  A step is a
resumption.  **Group** models TaskGroup with its monitors, **Combinators** models
gather, wait_for and wait_tasks.  **Scopes** puts them together: `mode`, chosen
once, is the combinator in use.

**Scheduler** models the worker threads, the owner's thread and the threads that
join: one step for each access to a shared counter, to the Event or to a loop's
queue.  Which worker is least loaded is left open.  The loop itself is reduced to
`running_` and its count of active coroutines.

**ThreadPool** models the job queue, its mutex and its condition variable with
spurious wake-ups.  **Executor** is the abstract specification: jobs are accepted in
order, each is run once by one of a number of workers, and the executor closes when
nothing is left.  `ThreadPool!IsExecutor` states that the pool implements it.

**ReadyQueue** holds what Queue, Waiting, Local and Tasks do to lists of handles: `Scheduled`
(append the handles that are not queued yet) and `Filtered` (erase the ones that no
longer count), as recursive functions.

**ThreadProofs** holds the theorems about EventLoop and ThreadPool, which threads
enter, **TaskProofs** those about Frames and Scheduler, the frame of a task and its end;
the names of ThreadPool's and of Scheduler's own definitions carry a prefix where the
two would share one.  **QueueProofs**, **LocalsProofs**, **ScopesProofs** and
**PrimitivesProofs** hold the theorems about the modules they are named for,
**LockProofs** the first half of the last one's lemmas, and **ReadyQueueProofs** the
lemmas about lists and ready queues that these cite.  **MCEventLoop**, **MCFrames**, **MCQueue**,
**MCPrimitives**, **MCLocals**, **MCScopes**, **MCScheduler** and **MCThreadPool** are
the modules TLC is started on.

In every module a definition commented "Mutant" is a plausible mistake in the
definition after it; no specification uses it.  Replacing the definition by its
mutant makes TLC report the property named in `PROJECT.json`, which shows that the
property can fail.  The modules also define type invariants (`TypeOK`), for the
proofs and for whoever changes a module.

## Runs

| run | instance | shows |
|---|---|---|
| event_loop_safe | `run()`; a parking and an I/O coroutine, two functions, two threads, two clock values | `NoLostWakeup`, `QueuedOnce`, `FnFifo`, `FnFlag`, `ReturnsIdle` (a run() that returns by itself leaves no coroutine, timer or operation, whatever is called after it decided to), with throwing callbacks and repeated runs |
| event_loop_live | `run_until_stopped()`, one thread, one function, a parking and an I/O coroutine | `NothingForgotten` (resumption, dispatch and reaping happen), `StopStops` |
| frames | two addresses, three frames, two waits, with and without foreign notifications | no use after free (`ResumesItsFrame`), abandoned frames are reclaimed, a wait is only ended by its own notification, nothing dangles, cancellation is delivered |
| queue_safe | capacity 1, four coroutines, three elements, both shutdowns | reservations with the capacity, no starvation, no lost element, exact unfinished count; an immediate shutdown releases everybody |
| sync_safe | three coroutines and the lock, two and lock and event, two and each pair of semaphore, event and future; two waits each; one loop and two, with cancellation and destruction; constraint `Unraced` | `MutualExclusion`, `NeverLeaked`, `Conservation`, `NoMissedSignal`, `ReturnsForReason` |
| sync_live | the lock, and the other three together, on one loop, one wait each | `EveryWaitEnds` |
| lock_leak | violation; as sync_safe for the lock, without `Unraced` | the lock ends with an owner that never releases it |
| local_safe | three coroutines, a channel of capacity 2 and a rendezvous, three values, selects that receive twice, send twice on one channel, send or receive, have a timer or a default; a pool of 1, 2 or unlimited resources with one idle | `OnePlace`, `InOrder`, `Matched`, `OneBranchCommits`, `PoolExact`, `WakeUpsSuffice` |
| select_loses | violation | a value handed to a select that is then cancelled is lost |
| scopes | three children (one for wait_for), all six combinators, two cancellations | `ScopeOutlivesKids`, `FailuresReported`, `Drains`; `OutcomeExact`, `NoLateTouch`, `Settles` |
| scheduler | two workers, three tasks, one joiner, the owner | `WaitAllExact`, `JoinExact`, `WaitsEnd` (~Scheduler, and join() of the only coroutine that joins) |
| thread_pool | two workers, three jobs, queue limit 1 and none, a stop at any point | `IsExecutor` (refinement of Executor), `Answered` |

Why the bounds are enough.  Two threads are needed so that one is inside
`cross_thread_wake_if_asleep` while another calls; a third would repeat what the
second can do, and the proofs cover any number.  Two clock values give a due and a
pending timer.  Two functions make an order; after an exception one is left in the
batch while the other arrives.  Two addresses and three frames reuse an address
while the other frame is alive; two waits are one wait and the one after it.  On
the queue, three coroutines are a reserved getter, a newcomer and a producer; the
fourth is cancelled or destroyed meanwhile.  On the lock, three coroutines are an
owner, a waiter of the condition and one of the lock; two waits are one that is
cancelled and the next.  The other primitives need two coroutines and two threads
for every gap between a test, a registration and a notification, and two of them at a
time are enough: with two waits, a late notification of the first meets the second.  On a channel,
three coroutines are two of one side and one of the other, and three values fill the
buffer of two and leave a sender waiting; in the pool they are a holder, a woken
waiter and a newcomer.  Three children are one that fails, one that is cancelled for
it and one that has not started; two cancellations are the one that is forwarded and
the one that arrives during the clean-up.  Two workers make the order of a scan
matter, and three tasks are one that is spawned by another while a third was counted
before.  Three jobs fill two workers and a queue of one.

Deadlock is checked in the EventLoop runs.  The other instances may
stop: their bounds on frames, waits, elements and calls run out, and coroutines may
all be suspended with nobody left to wake them.

Fairness.  `EventLoop!Fairness` asks that the loop thread runs while it has a
step, that bodies and callbacks come to their next suspension or return, that a
thread inside a call leaves it, and that time passes: nobody needs to call
anything, and no I/O needs to complete.  `Frames!Fairness` adds that the kernel
answers each operation, which `cancel_op` forces for the cancelled ones; strong
fairness, because the loop is not always at the point where it reaps.
`CompletionIsReaped` is weakened by one thing TLC showed: a thread that queues a
coroutine in each window between the fairness poll and the check before the wait can
keep the loop from ever reaping, so it excludes executions with calls in progress
for ever.  In Primitives the loops run, critical sections and permits end (strong
fairness: the loop may be busy with other coroutines whenever the holder wants to
leave), and in a program with futures every Promise is destroyed at last, as its
destructor and `abandon_pending` guarantee; a holder that waits for ever for
something else is excluded by `EveryWaitEnds` itself.  In Scopes the loop runs,
clean-ups come to their end and time passes, but what else a child waits for may
never happen.  In Scheduler every thread goes on and tasks come to their end; in
ThreadPool the threads go on and jobs end, and nothing relies on a spurious wake-up.

## Disagreements with the code

The code does other than its comments say in fourteen places that the models reach.
Where a property of a passing run is stated for less than a comment claims, the rest is
here, as a property of its own that TLC reports as violated.  Two have a run.

* lock_leak (`NeverLeaked`; `sync.hpp:170` "取消不得泄漏锁"): a waiter is cancelled on its
  loop while another loop hands the lock to it.  The wake-up is accepted between the pop
  of the waiter and its `await_resume`, because `scheduled` is clear and the epoch is
  still current; it ends the coroutine's next `acquire()` without the lock, and the
  release() that follows hands the lock to the coroutine's own entry, whose wait has
  ended.  This is what `Unraced` excludes.
* select_loses (`ExactlyOnce`; `channel.hpp:35` "已交接的值不得丢"): a value handed to a
  select that is cancelled or destroyed before it is resumed goes with its frame.
  `OnePlace` counts it in `lost`.

The others are violated on the instance of the passing run that is named, with the
property in place of those of its cfg, most within seconds.

* event_loop_safe: `LeavesNothing` (`event_loop.hpp:32` "直到没有待处理的工作为止"): `has_work()`
  and the return of `run()` are not one step, and a function that another thread
  dispatches in between stays in the queue.  `ReturnsIdle` speaks of coroutines, timers
  and operations.
* frames: `NoLateNotification` (`event_loop.hpp:451` "不会被上一条迟到通知提前唤醒"):
  a notification from another thread that arrives between the pop of a cancelled waiter
  and its `await_resume` is accepted, because `scheduled` is clear and the epoch is
  still current, and ends the coroutine's next wait.  `ResumesItsWait` is about
  notifications of the loop's own thread.
* sync_safe, without `Unraced`, with `Programs <- FutureOnly` and two futures:
  `ReturnsForReason` (`future.hpp:169`, which says the window does not exist).  The window
  of lock_leak with a Future, whose notification carries no epoch: an await returns
  without a result.
* queue_safe: `JoinWoken` (`queue.hpp:219` "graceful 可升级为 immediate", `:192`
  "挂起直到计数归零"): `shutdown(true)` wakes join() only when the queue was not shut down
  before.
* queue_safe: `NoWaitAfterDrain` (`queue.hpp:212`, `:216` "排空后的 get 抛
  QueueShutDown"): a get() that finds the last element reserved for another getter
  suspends, and nobody wakes it afterwards.  `NobodyLeftBehind` speaks of queues that
  were shut down immediately at once.
* local_safe, `Programs <- SelectSend`: `AlwaysMeet` (`channel.hpp:151` "交接必须是双向可达的"):
  `channel_take_pending_sender` and `channel_promote_senders` look at the head of the
  sender list only.  While the head belongs to a select that another branch has decided
  and that has not been resumed, a recv suspends although a sender waits behind it; when
  the select removes its node, senders are only promoted into the buffer, which a
  rendezvous does not have.  `Matched` is about the channels that no select sends to.
* local_safe, `Programs <- Plain`: `OldestFirst` (`channel.hpp:168`): each returned
  value goes to the front of the buffer, so two come back in the wrong order.  `InOrder` allows it.
* scopes: `CleanUpAwaited` (`task_group.hpp:191` "取消也要等清理"): a second
  cancel() while a child cleans up ends the monitor's second await, and the child's frame
  is destroyed in the middle of its clean-up.  These children are in `twice`, which
  `ScopeOutlivesKids` leaves out.
* scopes: `FailureThrown` (`task_group.hpp:27` "有失败 → 抛 ExceptionGroup"): a
  second cancel() in the turn in which the child fails replaces its exception.
  `FailuresReported` leaves these out too.
* scopes: `TimeoutWaits` (`gather.hpp:25` "超时先 cancel 再等它退出"): a caller that
  is cancelled after the deadline, while the task cleans up, gets a TimeoutError, and the
  task is destroyed.
* scheduler: `AllDone` (`scheduler.hpp:174` "阻塞等待所有已分发任务完成"): `wait_all()`
  reads `pending_dispatches_` and then the workers; a running task can spawn another
  after the first read and end before the second.  `WaitAllExact` is about the tasks that
  the owner dispatched.
* scheduler, `Joiners = {j1, j2}` and one task: `EveryJoinEnds`
  (`scheduler.hpp:120` "所有已分发任务退出后返回"): of two concurrent join() calls, the clear() of one may follow the last set() and lose the
  wake-up of the other.  `WaitsEnd` is stated for a single joiner.

Others were met and have no property of their own.

* Lock: `has_waiter` is meant to keep a waiter from being queued twice
  (`sync.hpp:293`); a waiter that notify() of another thread has taken from the
  condition's queue and not yet handed over is in no queue.  This is another way to
  violate `NeverLeaked` without `Unraced`.
* Channel: a closed and drained channel may report EOF and a returned value may then be
  put into its buffer.  The scan of a select always starts with branch 0
  (`select.hpp:195` "不总偏向第 0 个"), and a select whose only branch sends to a channel
  that is closed already never returns.
* Timer, by reading: cancel() of another thread that reads `waiting` before the
  waiter registers and claims the outcome after the waiter's check wakes nobody
  (`timer.hpp:271`); cancel() and then reset() before the waiter is resumed make
  wait() return true (`timer.hpp:25` "cancel() 唤醒等待者并令其返回 false").
* `CVEventSource::wait_for` passes `milliseconds::max()` to the condition variable,
  where the deadline overflows; `event_loop.hpp:863` says it is clamped
  (`WaitOverflow`).

## Proofs

Each theorem holds for every value of the constants that satisfies the `ASSUME` of the
module that declares them: natural numbers where the code counts, a finite and non-empty
set of workers or of children, roles that do not overlap, and dummy values (`NoCoro`,
`NoAddr`, `Nobody`, `None`) that are none of the real ones.  The
bounds that TLC needs (`MaxGen`, `MaxWait`, `MaxCancels` and the like) are constants
too, so the theorems hold however far they are raised.  Each component has one
inductive invariant (`IInv`, `PoolIInv`, `SchedulerIInv`) that TLC also checked on the instance of the module's run
before it was proved; the theorems follow from it.

**ThreadProofs**, EventLoop: `TypeOK`, `NoLostWakeup`, `FnFifo`, `FnFlag`, `QueuedOnce` and
`ReturnsIdle`.

* `NoLostWakeup` speaks only of a blocked loop, so it is not inductive.
  `AsleepInv` says that `awake_` is true between the declaration of sleep and the
  end of the wait only because somebody set it who is about to call `wake()`.
  `StoppedInv` says that the wake-up of `stop()` survives until the loop looks at
  `running_` again.  Its exception is the interesting part: the fairness poll may
  swallow that wake-up, but only with ready work, which the check before the wait
  then finds.
* `FnFifo` needs `FnDrained`: the function batch is empty when it is swapped.
* `QueuedOnce` is inductive with the types and `CurLive`, which says that the
  coroutine being resumed is live.
* `ReturnsIdle` is about the return, not about the tests before it.  `LeavingInv`
  carries what `has_work()` found through the steps between them: no coroutine is left
  that another thread could schedule, so all that the others can add is a function.

**ThreadProofs**, ThreadPool: `PoolTypeOK`, and the refinement `IsExecutor`.  A job is in one
place: not handed over (`NewIsFresh`), queued once (`QueueDistinct`), or with one
worker (`TakenByOne`); and a worker leaves only when the pool is stopping and the
queue is empty (`LeavesLast`), which is why stop_and_join returns after the last job.
Every step is then matched with a step of Executor, or shown to change nothing of it.

**TaskProofs**, Frames: `ResumesItsFrame`, `AbandonedIsReclaimed`, `ResumesItsWait`,
`NoDanglingWaiter`.  `Entries` says that a stale entry of an address stays stale,
because generations only grow, and that a live frame has one entry at most, which its
`scheduled` flag shows.  `Registered`, `OnItsFrame` and `Owned` tie the registry to the
allocator, to the loop's place and to `Task`.  What holds only without notifications of
other threads is `OwnThread`; the window in `popped` (see above) is where it fails
with them.

**TaskProofs**, Scheduler: `WaitAllExact`, `JoinExact`.  `Counts` says what the counters
count: `running_` the live tasks, `pending_dispatches_` the tasks between the counting
of a dispatch and its first step, `active_coroutines_` of a worker the bodies on it and
the one that it is finishing.  `Scanned` is what a scan of wait_all has found out so
far: a task of the owner is over, or in the body on a worker that has not been looked
at.  It is kept because a dispatched task never changes its worker.  For tasks that
tasks spawn it is not an invariant, which is why `AllDone` fails.

**QueueProofs**: `ReservationsHeld`, `NeverStarved`, `NoLostElement`,
`UnfinishedExact`, `NobodyLeftBehind`.  The invariant adds who may be in which list
(`Places`) and why somebody is in the ready queue (`Called`): cancelled, abandoned,
reserved, or let go by a shutdown or by the end of a join.  Without `Called`, a getter
could be resumed with nothing reserved, and `NeverStarved` would not be inductive.

**LockProofs** and **PrimitivesProofs**: `MutualExclusion`, `NeverLeaked`,
`Conservation`, `NoMissedSignal` and `ReturnsForReason`, for any coroutines, loops and
programs, any number of permits and futures, with Lock, Condition, Semaphore, Event and
Future used in any order on any number of loops.  The theorems assume
`[]Unraced`, as the run does; without it `NeverLeaked` and `ReturnsForReason` are false
(see above).  Everything else the threads can do to each other is in: a waiter cancelled
or destroyed on its loop before another loop chooses it or after that loop has woken it,
and destroyed while the other loop is notifying it.

* Calls are lists of instructions, one list for each loop, and nearly every property
  speaks of what is left to do of a call.  `Calling` therefore says what such a list may
  look like (`Form`): an instruction, what may follow it (`Later`), and for a frame that
  is being destroyed the Guards still to run, one `scope` for each time it holds the
  lock.  Each step is then described by what it takes from the list of one loop and what
  it adds (`Moves`).
* `Epochs` says that an epoch is the coroutine's current wait or none, and `Wakes` that a
  wake-up which carries the current epoch, or an entry of a ready queue, belongs to a
  coroutine that is suspended; a coroutine with one is `Roused`, and one that is in its
  ready queue has no further wake-up on the way from another loop.  That part is kept
  because of `Unraced`.  A Future's
  notification carries no epoch, which is why `Wakes` and the part of Future need each
  other.
* `LockInv` has who owns the lock and how often (`Owning`), who is in which list
  (`LockLists`), and where a waiter that is in none is (`LockWaits`): owner and roused,
  in the hands of a notify(), or in its own cancellation.  `MutualExclusion` alone is not
  inductive, because the owner of a lock that is being handed over is not inside yet:
  that it is roused, and is in no list, is what keeps a second hand-over away.
* `SemInv`, `EventInv` and `FutureInv` say the same of the others: a roused waiter was
  given a permit by name, has seen a set() since it began, or finds its result.
  `ReturnsForReason` follows, since only a roused coroutine is resumed.
* A step of one primitive leaves the parts of the others as they are because it touches
  neither their instructions nor their waiters (`Spares`); that is one lemma for each
  shape of a step (an instruction, a coroutine's turn, entries into ready queues), and
  the reason why the five primitives can be treated one after the other although
  coroutines mix them.

**LocalsProofs**: `PoolExact`, `WakeUpsSuffice`, `OnePlace`, `OneBranchCommits`,
`Matched`, `InOrder`.

* For the pool, `Enough` counts: as long as somebody waits, there are as many woken
  waiters as free slots.  It needs `Places`: a waiter that is both in the pool's list
  and in the ready queue was cancelled, so that it is not counted as woken, and passing
  its wake-up on is not required.
* For the channels, `ChanInv` adds to `OnePlace` what the lists hold: each node is
  a branch of an operation under way, with an offered value of its own that is not
  accepted yet (`Nodes`), and an operation without a select is out of the lists when
  it is decided (`Decided`), which is why it cannot be served twice although nobody
  asks its gate.  One step of the code changes the channels many times
  (channel_promote_senders and ~settle_guard are loops), so the argument is about the
  channels in the middle of a step: `Reached` is what every change keeps, and from it
  `OneBranchCommits` follows at once; `Kept` says that the values which entered the
  buffers are those of the senders served.  `Books` is the account of
  `OnePlace`, closed by one lemma for each way a value moves.
* `Matched` and `InOrder` follow from `FlowInv`, on the channels that no select sends
  to.  `Meets` is `Matched` without the gates: where there is a value, any sender or the
  end of the channel, nobody waits to receive, and where somebody waits to send there is
  no room.  It is stronger because on such a channel every sender in the list can still
  be served (`OpenSenders`); with a select that sends it fails (`AlwaysMeet`, above).  `Ordered` says that returned values come first and the others
  in the order of their offers; to be inductive it needs `Ahead`: a value that a receiver
  holds and may return is older than everything in the line that was not returned
  itself.  `Ahead` holds because a value is handed to a waiting receiver only when the
  line is empty.  The loops are covered by relations that their rounds keep:
  `Eased` for channel_promote_senders, `Settles` for the whole of ~settle_guard.

**ScopesProofs**: `ScopeOutlivesKids`, `FailuresReported`, `OutcomeExact`,
`NoLateTouch`, and the types.  For the TaskGroup, `remaining_` is the number of
monitors that have not completed (`GroupCounts`), and a monitor that has completed has
seen its child end, unless a second cancellation took it away (`GroupKids`).  For the
others, the caller of wait_tasks and gather gets the first outcome because monitors
complete in the order in which children end (`InOrder`, a fact about places in the
ready queue); wait_for reports a timeout only for a deadline that came before the
cancellation, because a caller that was cancelled first is in the ready queue before the
timer (`DeadlineInv`).

**ReadyQueueProofs** shows what `Scheduled` and `Filtered` return: which handles, in
which order, and none twice; and that a recursion over the members of a list is well
defined (`IterationExists`).  The library's induction theorems cannot be used with the
provers at hand, since they take an operator as a parameter; these lemmas go by way of
a set of natural numbers instead (`Induct`), and build the recursive function whose
existence they need.  `Precedes` and `Part` give the order of a list as a relation on its
members, which is how `InOrder` is proved without counting positions.

What stays with TLC is liveness: `NothingForgotten`, `StopStops`, `CancelDelivered` and the
other temporal properties under fairness, which are out of the reach of the provers.
Every safety property that a passing run checks is a theorem.

## Plan

1. Done: EventLoop, Frames, Queue, the primitives of sync and future, channel with
   select, pool, task group, gather and wait, scheduler, thread offload; proofs of all
   of them.
2. Next the timer, whose state is shared between threads without a lock, and the
   submission ring of io_uring.

## Not modelled

Heap compaction, `swap_event_source` and the arbitration word of timer entries; the
io_uring submission ring; a join() of the scheduler that is cancelled; one Task
awaited from several loops; memory orders weaker than sequential consistency (the
code relies on `seq_cst` and on mutexes where the order matters); allocation failure.
Timer, context, rate limiter, task registry and signal, for the reasons given in
`PROJECT.json`.  Streams, files, processes, network, HTTP, TLS, the router and the
servers are I/O or pure data and are seen only as I/O waits.  The repository also
carries third-party sources (OpenSSL, SQLite, llhttp, HFSM2 and others), which make up
nearly all of its lines and are not part of this verification.
