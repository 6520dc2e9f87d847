------------------------------- MODULE Queue -------------------------------
(***************************************************************************)
(* coro::Queue (include/coro/queue.hpp), the bounded producer/consumer     *)
(* queue of one event loop: get, put, the nowait forms, task_done, join    *)
(* and shutdown, with waiters that are cancelled or destroyed at any time. *)
(*                                                                         *)
(* The queue is loop-local, so an operation runs to its suspension in one  *)
(* step.  What makes it hard is the gap between the moment a waiter is     *)
(* woken and the moment the loop resumes it: until then the element or the *)
(* free slot it was woken for is only reserved, and the coroutine may be   *)
(* cancelled, its Task destroyed, the queue shut down.                     *)
(*                                                                         *)
(* Elements are counted, not named.                                        *)
(***************************************************************************)
EXTENDS ReadyQueue

CONSTANTS Coros,       \* the coroutines that use the queue
          maxsize,     \* capacity; 0 is unlimited
          Shutdowns,   \* the arguments shutdown(immediate) is called with
          MaxItems     \* bound on the elements queued and in flight together

ASSUME QueueAssumption ==
    /\ maxsize \in Nat /\ MaxItems \in Nat
    /\ Shutdowns \subseteq BOOLEAN

VARIABLES st,               \* what each coroutine is suspended in, or "run"
          ready,            \* the loop's ready queue, this queue's waiters only
          cancelled,        \* waiters with a pending cancellation
          abandoned,        \* waiters whose Task was destroyed while scheduled
          items,            \* number of elements in items_
          reserved,         \* waiters whose reserved_ is set
          reserved_getters, reserved_putters,
          get_waiters, put_waiters, join_waiters,
          unfinished,       \* unfinished_tasks_
          shut,             \* shut_down_
          graceful,         \* history: shutdown(false) was called
          inflight,         \* history: elements got and not yet task_done
          starved           \* history: a getter was resumed with nothing to take

closing == <<shut, graceful>>
vars == <<st, ready, cancelled, abandoned, items, reserved, reserved_getters,
          reserved_putters, get_waiters, put_waiters, join_waiters, unfinished,
          closing, inflight, starved>>

Smaller(a, b) == IF a < b THEN a ELSE b
AtLeast0(n) == IF n < 0 THEN 0 ELSE n

-----------------------------------------------------------------------------
(* Waking waiters.  Each operator is given the values its caller has       *)
(* already computed: n elements, rest of the ready queue, waiters, and the *)
(* set and the number of reservations.                                     *)

full(n, rp) == maxsize > 0 /\ n + rp >= maxsize

\* How many waiters of gw are handed an element, of pw a free slot.
GettersToWake(n, gw, rg) == Smaller(Len(gw), AtLeast0(n - rg))
PuttersToWake(n, pw, rp) ==
    IF maxsize = 0 THEN Len(pw) ELSE Smaller(Len(pw), AtLeast0(maxsize - n - rp))

notify_getters(n, rest, gw, rs, rg) ==
    LET k == GettersToWake(n, gw, rg)
        woken == SubSeq(gw, 1, k)
    IN  /\ get_waiters' = SubSeq(gw, k + 1, Len(gw))
        /\ reserved' = rs \cup ToSet(woken)
        /\ reserved_getters' = rg + k
        /\ ready' = Scheduled(rest, woken)

notify_putters(n, rest, pw, rs, rp) ==
    LET k == PuttersToWake(n, pw, rp)
        woken == SubSeq(pw, 1, k)
    IN  /\ put_waiters' = SubSeq(pw, k + 1, Len(pw))
        /\ reserved' = rs \cup ToSet(woken)
        /\ reserved_putters' = rp + k
        /\ ready' = Scheduled(rest, woken)

\* Mutant: the counter is not decremented.
NeverLess(c, n) == n

\* remove_get_waiter / remove_put_waiter on the two counters
LessReserved(c, n) == IF c \in reserved THEN n - 1 ELSE n

-----------------------------------------------------------------------------
(* get                                                                     *)

\* Mutant: a new get overtakes the getters already woken.
GetReadyBarging == get_waiters = <<>> /\ (items > 0 \/ shut)

GetReady == reserved_getters = 0 /\ get_waiters = <<>> /\ (items > 0 \/ shut)

\* Take the front element and let producers in.
Take(rest, rs) ==
    /\ items' = items - 1
    /\ inflight' = inflight + 1
    /\ notify_putters(items - 1, rest, put_waiters, rs, reserved_putters)

\* get_awaiter: the element is there (get_nowait takes the same path).
Get(c) ==
    /\ st[c] = "run"
    /\ GetReady
    /\ items > 0
    /\ Take(ready, reserved)
    /\ UNCHANGED <<st, cancelled, abandoned, reserved_getters, get_waiters,
                   join_waiters, unfinished, closing, starved>>

\* get_awaiter::await_suspend; a queue that is shut and empty throws instead.
GetWait(c) ==
    /\ st[c] = "run"
    /\ ~GetReady
    /\ ~(shut /\ items = 0)
    /\ st' = [st EXCEPT ![c] = "get"]
    /\ notify_getters(items, ready, Append(get_waiters, c), reserved, reserved_getters)
    /\ UNCHANGED <<cancelled, abandoned, items, reserved_putters, put_waiters,
                   join_waiters, unfinished, closing, inflight, starved>>

\* get_awaiter::await_resume.  With no element it throws QueueShutDown; the code
\* calls that unreachable unless the queue is shut.
GetResume(c) ==
    /\ st' = [st EXCEPT ![c] = "run"]
    /\ reserved_getters' = LessReserved(c, reserved_getters)
    /\ get_waiters' = RemoveFirst(get_waiters, c)
    /\ IF items > 0
       THEN Take(Tail(ready), reserved \ {c}) /\ UNCHANGED starved
       ELSE /\ starved' = (starved \/ ~shut)
            /\ ready' = Tail(ready)
            /\ reserved' = reserved \ {c}
            /\ UNCHANGED <<items, inflight, reserved_putters, put_waiters>>
    /\ UNCHANGED <<join_waiters, unfinished, closing>>

\* Mutant: a dropped getter does not pass its element on.
GetDroppedQuietly(c, rest) ==
    /\ get_waiters' = RemoveFirst(get_waiters, c)
    /\ reserved' = reserved \ {c}
    /\ reserved_getters' = LessReserved(c, reserved_getters)
    /\ ready' = rest
    /\ UNCHANGED <<items, reserved_putters, put_waiters, join_waiters,
                   unfinished, closing, inflight, starved>>

\* get_awaiter::on_waiter_destroyed: the reservation goes to the next waiter.
GetDropped(c, rest) ==
    /\ notify_getters(items, rest, RemoveFirst(get_waiters, c), reserved \ {c},
                      LessReserved(c, reserved_getters))
    /\ UNCHANGED <<items, reserved_putters, put_waiters, join_waiters,
                   unfinished, closing, inflight, starved>>

-----------------------------------------------------------------------------
(* put                                                                     *)

\* Bounds the elements of an execution that are put and not task_done.
BelowBound == unfinished + reserved_putters + Len(put_waiters) < MaxItems

PutItem(rest, rs) ==
    /\ items' = items + 1
    /\ unfinished' = unfinished + 1
    /\ notify_getters(items + 1, rest, get_waiters, rs, reserved_getters)

Put(c) ==
    /\ st[c] = "run"
    /\ ~shut /\ ~full(items, reserved_putters)
    /\ BelowBound
    /\ PutItem(ready, reserved)
    /\ UNCHANGED <<st, cancelled, abandoned, reserved_putters, put_waiters,
                   join_waiters, closing, inflight, starved>>

PutWait(c) ==
    /\ st[c] = "run"
    /\ ~shut /\ full(items, reserved_putters)
    /\ BelowBound
    /\ st' = [st EXCEPT ![c] = "put"]
    /\ notify_putters(items, ready, Append(put_waiters, c), reserved, reserved_putters)
    /\ UNCHANGED <<cancelled, abandoned, items, reserved_getters, get_waiters,
                   join_waiters, unfinished, closing, inflight, starved>>

\* put_awaiter::await_resume: after a shutdown it throws QueueShutDown.
PutResume(c) ==
    /\ st' = [st EXCEPT ![c] = "run"]
    /\ reserved_putters' = LessReserved(c, reserved_putters)
    /\ put_waiters' = RemoveFirst(put_waiters, c)
    /\ IF shut
       THEN /\ ready' = Tail(ready)
            /\ reserved' = reserved \ {c}
            /\ UNCHANGED <<items, unfinished, reserved_getters, get_waiters>>
       ELSE PutItem(Tail(ready), reserved \ {c})
    /\ UNCHANGED <<join_waiters, closing, inflight, starved>>

PutDropped(c, rest) ==
    /\ notify_putters(items, rest, RemoveFirst(put_waiters, c), reserved \ {c},
                      LessReserved(c, reserved_putters))
    /\ UNCHANGED <<items, reserved_getters, get_waiters, join_waiters,
                   unfinished, closing, inflight, starved>>

-----------------------------------------------------------------------------
(* task_done, join, shutdown                                               *)

\* Only a consumer that got an element calls it; an excess call throws.
task_done ==
    /\ inflight > 0 /\ unfinished > 0
    /\ inflight' = inflight - 1
    /\ unfinished' = unfinished - 1
    /\ IF unfinished = 1
       THEN join_waiters' = <<>> /\ ready' = Scheduled(ready, join_waiters)
       ELSE UNCHANGED <<join_waiters, ready>>
    /\ UNCHANGED <<st, cancelled, abandoned, items, reserved, reserved_getters,
                   reserved_putters, get_waiters, put_waiters, closing, starved>>

join(c) ==
    /\ st[c] = "run"
    /\ unfinished > 0
    /\ st' = [st EXCEPT ![c] = "join"]
    /\ join_waiters' = Append(join_waiters, c)
    /\ UNCHANGED <<ready, cancelled, abandoned, items, reserved, reserved_getters,
                   reserved_putters, get_waiters, put_waiters, unfinished, closing,
                   inflight, starved>>

JoinResume(c) ==
    /\ st' = [st EXCEPT ![c] = "run"]
    /\ ready' = Tail(ready)
    /\ UNCHANGED <<items, reserved, reserved_getters, reserved_putters, get_waiters,
                   put_waiters, join_waiters, unfinished, closing, inflight, starved>>

JoinDropped(c, rest) ==
    /\ join_waiters' = RemoveFirst(join_waiters, c)
    /\ ready' = rest
    /\ UNCHANGED <<items, reserved, reserved_getters, reserved_putters, get_waiters,
                   put_waiters, unfinished, closing, inflight, starved>>

\* Mutant: an immediate shutdown forgets the elements in flight.
NothingLeft == 0

\* What is left of unfinished_tasks_ once the queued elements are discarded.
Undiscarded == IF items >= unfinished THEN 0 ELSE unfinished - items

\* Mutant: shutdown never looks at the join waiters.
ShutdownWithoutJoin(immediate) ==
    /\ shut' = TRUE /\ graceful' = (graceful \/ ~immediate)
    /\ items' = IF immediate THEN 0 ELSE items
    /\ unfinished' = IF immediate THEN Undiscarded ELSE unfinished
    /\ put_waiters' = <<>> /\ get_waiters' = <<>>
    /\ ready' = Scheduled(ready, put_waiters \o get_waiters)
    /\ UNCHANGED <<st, cancelled, abandoned, reserved, reserved_getters,
                   reserved_putters, join_waiters, inflight, starved>>

\* shutdown(immediate): every waiter still in a wait list is scheduled; those
\* already woken keep their reservation.  Join waiters are looked at only by
\* the first call.
shutdown(immediate) ==
    /\ shut' = TRUE /\ graceful' = (graceful \/ ~immediate)
    /\ items' = IF immediate THEN 0 ELSE items
    /\ unfinished' = IF immediate THEN Undiscarded ELSE unfinished
    /\ put_waiters' = <<>> /\ get_waiters' = <<>>
    /\ LET joins == IF ~shut /\ unfinished' = 0 THEN join_waiters ELSE <<>>
       IN  /\ ready' = Scheduled(ready, put_waiters \o get_waiters \o joins)
           /\ join_waiters' = IF joins # <<>> THEN <<>> ELSE join_waiters
    /\ UNCHANGED <<st, cancelled, abandoned, reserved, reserved_getters,
                   reserved_putters, inflight, starved>>

-----------------------------------------------------------------------------
(* The loop and the tasks around the queue.                                *)

\* The loop resumes the front of its ready queue.
Resume(c) ==
    /\ ready # <<>> /\ c = Head(ready)
    /\ c \notin cancelled \cup abandoned
    /\ \/ st[c] = "get"  /\ GetResume(c)
       \/ st[c] = "put"  /\ PutResume(c)
       \/ st[c] = "join" /\ JoinResume(c)
    /\ UNCHANGED <<cancelled, abandoned>>

\* on_waiter_destroyed, by what the frame was waiting for
Dropped(c, rest) == \/ st[c] = "get"  /\ GetDropped(c, rest)
                    \/ st[c] = "put"  /\ PutDropped(c, rest)
                    \/ st[c] = "join" /\ JoinDropped(c, rest)

\* cancel_check_awaiter throws CancelledError instead of the await_resume; the
\* batch loop destroys an abandoned frame instead of resuming it.
ResumeDropped(c) ==
    /\ ready # <<>> /\ c = Head(ready)
    /\ c \in cancelled \cup abandoned
    /\ Dropped(c, Tail(ready))
    /\ st' = [st EXCEPT ![c] = IF c \in abandoned THEN "gone" ELSE "run"]
    /\ cancelled' = cancelled \ {c}
    /\ abandoned' = abandoned \ {c}

\* Task::cancel on a suspended waiter
Cancel(c) ==
    /\ st[c] \in {"get", "put", "join"}
    /\ c \notin abandoned
    /\ cancelled' = cancelled \cup {c}
    /\ ready' = Scheduled(ready, <<c>>)
    /\ UNCHANGED <<st, abandoned, items, reserved, reserved_getters,
                   reserved_putters, get_waiters, put_waiters, join_waiters,
                   unfinished, closing, inflight, starved>>

\* ~Task of a suspended waiter: destroyed at once, or by the loop if scheduled
Destroy(c) ==
    /\ st[c] \in {"get", "put", "join"}
    /\ c \notin abandoned
    /\ IF c \in ToSet(ready)
       THEN /\ abandoned' = abandoned \cup {c}
            /\ UNCHANGED <<st, cancelled, items, reserved, reserved_getters,
                           reserved_putters, get_waiters, put_waiters, join_waiters,
                           unfinished, closing, inflight, starved, ready>>
       ELSE /\ Dropped(c, ready)
            /\ st' = [st EXCEPT ![c] = "gone"]
            /\ UNCHANGED <<cancelled, abandoned>>

Init ==
    /\ st = [c \in Coros |-> "run"]
    /\ ready = <<>> /\ cancelled = {} /\ abandoned = {}
    /\ items = 0 /\ reserved = {} /\ reserved_getters = 0 /\ reserved_putters = 0
    /\ get_waiters = <<>> /\ put_waiters = <<>> /\ join_waiters = <<>>
    /\ unfinished = 0 /\ shut = FALSE /\ graceful = FALSE
    /\ inflight = 0 /\ starved = FALSE

Next ==
    \/ \E c \in Coros : \/ Get(c) \/ GetWait(c) \/ Put(c) \/ PutWait(c) \/ join(c)
                        \/ Resume(c) \/ ResumeDropped(c) \/ Cancel(c) \/ Destroy(c)
    \/ task_done
    \/ \E immediate \in Shutdowns : shutdown(immediate)

Spec == Init /\ [][Next]_vars

-----------------------------------------------------------------------------
(* Properties.                                                             *)

TypeOK ==
    /\ st \in [Coros -> {"run", "get", "put", "join", "gone"}]
    /\ ready \in Seq(Coros) /\ cancelled \subseteq Coros /\ abandoned \subseteq Coros
    /\ items \in Nat /\ reserved \subseteq Coros
    /\ reserved_getters \in Nat /\ reserved_putters \in Nat
    /\ get_waiters \in Seq(Coros) /\ put_waiters \in Seq(Coros)
    /\ join_waiters \in Seq(Coros)
    /\ unfinished \in Nat /\ inflight \in Nat
    /\ shut \in BOOLEAN /\ graceful \in BOOLEAN /\ starved \in BOOLEAN

\* The counters agree with the waiters: every reservation is held by exactly one
\* woken waiter that has not been resumed, cancelled or destroyed yet; with the
\* reserved slots counted, the capacity is never exceeded.
ReservationsHeld ==
    /\ reserved_getters = Cardinality({c \in reserved : st[c] = "get"})
    /\ reserved_putters = Cardinality({c \in reserved : st[c] = "put"})
    /\ reserved \subseteq ToSet(ready)
    /\ maxsize > 0 => items + reserved_putters <= maxsize

\* An element handed to a waiting getter is still there when it resumes, so the
\* throw await_resume calls unreachable ("不可达状态") is.
NeverStarved == ~starved

\* No consumer sleeps while an element nobody reserved is in the queue, and no
\* producer while a slot is free, whoever was cancelled or destroyed before.
NoLostElement ==
    /\ get_waiters # <<>> => items <= reserved_getters
    /\ put_waiters # <<>> => full(items, reserved_putters)

\* unfinished_tasks_ counts the queued elements and the ones in flight, through
\* cancelled puts and both kinds of shutdown: join() never returns early.
UnfinishedExact == unfinished = items + inflight

\* join() waits for the counter to reach 0 ("挂起直到计数归零") and no longer.
JoinWoken == unfinished = 0 => join_waiters = <<>>

\* Once the queue is shut down and drained nobody waits for an element any
\* more: a get then throws ("排空后的 get 抛 QueueShutDown").
NoWaitAfterDrain == shut /\ items = 0 => get_waiters = <<>>

\* Both hold of a queue that is only ever shut down with immediate = true.
NobodyLeftBehind == ~graceful => JoinWoken /\ NoWaitAfterDrain

=============================================================================
