-------------------------------- MODULE Lock --------------------------------
(***************************************************************************)
(* coro::Lock and coro::Condition (include/coro/sync.hpp): a recursive,    *)
(* FIFO lock that release() hands directly to the next waiter, and a       *)
(* condition variable whose notify() moves a waiter to the lock's queue.   *)
(*                                                                         *)
(* Coroutines that wait for the condition hold the lock through a Guard,   *)
(* once, as the code's documentation asks.                                 *)
(* The module Primitives composes it with the other primitives.            *)
(***************************************************************************)
EXTENDS Waiting

CONSTANTS NoCoro,
          MaxHold         \* bound on the recursion of one coroutine

ASSUME LockAssumption ==
    /\ NoCoro \notin Coros
    /\ MaxHold \in Nat

VARIABLES holds,      \* history: how often the body of c believes to hold the lock
          locked, owner, recursion, waiters,    \* Lock
          cwaiters    \* Condition::waiters_

lock == <<locked, owner, recursion>>
lockVars == <<holds, lock, waiters, cwaiters>>

-----------------------------------------------------------------------------
(* The instructions, as their effect on the lock and the rest of the call. *)

\* unlock_locked_: the lock passes to the first waiter, who is then scheduled.
unlock_locked(l, rest) ==
    IF waiters = <<>>
    THEN owner' = NoCoro /\ locked' = FALSE /\ UNCHANGED waiters /\ Then(l, rest)
    ELSE /\ owner' = Head(waiters)[1]
         /\ waiters' = Tail(waiters)
         /\ UNCHANGED locked
         /\ Then(l, <<<<"schedule", Head(waiters)>>>> \o rest)

release(l, rest) ==
    \/ /\ recursion > 0
       /\ recursion' = recursion - 1
       /\ Then(l, rest) /\ UNCHANGED <<locked, owner, waiters>>
    \/ /\ recursion = 0 /\ ~locked
       /\ Then(l, rest) /\ UNCHANGED <<lock, waiters>>
    \/ /\ recursion = 0 /\ locked
       /\ unlock_locked(l, rest) /\ UNCHANGED recursion

\* ~Guard: nothing if the lock has passed to somebody else.
release_if_owner(l, c, rest) ==
    \/ owner = c /\ release(l, rest)
    \/ owner # c /\ Then(l, rest) /\ UNCHANGED <<lock, waiters>>

\* Mutant: a dropped waiter that was handed the lock keeps it.
DroppedKeepsLock(l, c, rest) ==
    /\ waiters' = erase_waiter(waiters, c)
    /\ Then(l, rest)
    /\ UNCHANGED lock

\* Lock::on_waiter_destroyed: a lock handed to the dropped waiter is passed on.
on_waiter_destroyed(l, c, rest) ==
    /\ waiters' = erase_waiter(waiters, c)
    /\ Then(l, IF owner = c THEN <<<<"release">>>> \o rest ELSE rest)
    /\ UNCHANGED lock

\* hand_off: a waiter that has ended its wait is dropped.
hand_off(l, w, rest) ==
    IF epoch[w[1]] # w[2]
    THEN Then(l, rest) /\ UNCHANGED <<lock, waiters>>
    ELSE IF locked
    THEN waiters' = Append(waiters, w) /\ Then(l, rest) /\ UNCHANGED lock
    ELSE /\ locked' = TRUE /\ owner' = w[1]
         /\ Then(l, <<<<"schedule", w>>>> \o rest)
         /\ UNCHANGED <<recursion, waiters>>

\* notify / notify_all
notify(l, all, rest) ==
    IF cwaiters = <<>> THEN Then(l, rest) /\ UNCHANGED cwaiters
    ELSE /\ cwaiters' = Tail(cwaiters)
         /\ Then(l, <<<<"hand_off", Head(cwaiters)>>>>
                    \o (IF all THEN <<<<"notify", TRUE>>>> ELSE <<>>) \o rest)

-----------------------------------------------------------------------------
(* Coroutines and threads.                                                 *)

\* acquire() and guard(): recursive, free, or queued, in one critical section.
AcquireNow(c) ==
    /\ Calls(c) /\ holds[c] < MaxHold
    /\ \/ owner = c /\ recursion' = recursion + 1 /\ UNCHANGED <<locked, owner>>
       \/ owner # c /\ ~locked /\ locked' = TRUE /\ owner' = c /\ UNCHANGED recursion
    /\ holds' = [holds EXCEPT ![c] = @ + 1]
    /\ UNCHANGED <<frames, ready, prog, waiters, cwaiters>>

AcquireWait(c) ==
    /\ Calls(c)
    /\ locked /\ owner # c
    /\ begin_wait(c)
    /\ st' = [st EXCEPT ![c] = "lock"]
    /\ waiters' = Append(waiters, <<c, waits[c] + 1>>)
    /\ UNCHANGED <<home, holds, ready, prog, cancelled, abandoned, lock, cwaiters>>

\* lock.release(), or the end of a Guard's scope
LockRelease(c) ==
    /\ Calls(c) /\ holds[c] > 0
    /\ holds' = [holds EXCEPT ![c] = @ - 1]
    /\ \/ Then(home[c], <<<<"release">>>>)
       \/ Then(home[c], <<<<"guard", c>>>>)
    /\ UNCHANGED <<frames, ready, lock, waiters, cwaiters>>

\* Mutant: wait() releases the lock before it is in the queue.
WaitReleasesFirst(c) ==
    /\ Calls(c) /\ holds[c] = 1
    /\ begin_wait(c)
    /\ st' = [st EXCEPT ![c] = "cond"]
    /\ holds' = [holds EXCEPT ![c] = 0]
    /\ Then(home[c], <<<<"release">>, <<"push", <<c, waits[c] + 1>>>>>>)
    /\ UNCHANGED <<home, ready, cancelled, abandoned, lock, waiters, cwaiters>>

\* Condition::wait: queued first, then the lock is released.
CondWait(c) ==
    /\ Calls(c) /\ holds[c] = 1
    /\ begin_wait(c)
    /\ st' = [st EXCEPT ![c] = "cond"]
    /\ holds' = [holds EXCEPT ![c] = 0]
    /\ Then(home[c], <<<<"push", <<c, waits[c] + 1>>>>, <<"release">>>>)
    /\ UNCHANGED <<home, ready, cancelled, abandoned, lock, waiters, cwaiters>>

\* notify() or notify_all(), with or without the lock, from any thread
CondNotify(l, all) ==
    /\ Idle(l) /\ cwaiters # <<>>
    /\ Then(l, <<<<"notify", all>>>>)
    /\ UNCHANGED <<frames, ready, holds, lock, waiters, cwaiters>>

\* Mutant: a cancelled wait() is woken like any other.
NeverTaken(c) == FALSE

\* A cancelled waiter of the condition is not woken: it first gets the lock back
\* (on_cancel_requested).
TakesCancel(c) == st[c] = "cond"
\* Its await_resume runs even so, and throws afterwards.
ThrowsLate(c) == st[c] = "cond"
OnCancel(c) == <<<<"erase_cond", c>>, <<"is_owned_by", c>>>>

\* What dropping a waiter runs: on_waiter_destroyed of the awaiter and, where the
\* frame is destroyed in wait(), the Guard of the surrounding scope.
LockUnwind(c) ==
    CASE st[c] = "cond" -> <<<<"erase_cond", c>>, <<"erase_lock", c>>, <<"guard", c>>>>
      [] st[c] = "lock" -> <<<<"erase_lock", c>>>>
      [] OTHER          -> <<>>

\* await_resume: the body now believes to hold the lock, in a wait() also when it
\* throws CancelledError.
LockReturned(c) ==
    /\ holds' = [holds EXCEPT ![c] = 1]
    /\ UNCHANGED <<lock, waiters, cwaiters>>

-----------------------------------------------------------------------------
(* One instruction of the call in progress on l.                           *)

\* release() and the Guards, "scope" for one in a frame that is destroyed
Unlock(l) ==
    /\ \/ At(l, "release") /\ release(l, Rest(l)) /\ UNCHANGED holds
       \/ At(l, "guard") /\ release_if_owner(l, Arg(l), Rest(l)) /\ UNCHANGED holds
       \/ /\ At(l, "scope") /\ release_if_owner(l, Arg(l), Rest(l))
          /\ holds' = [holds EXCEPT ![Arg(l)] = @ - 1]
    /\ UNCHANGED <<frames, ready, cwaiters>>

EraseLock(l) ==
    /\ At(l, "erase_lock")
    /\ on_waiter_destroyed(l, Arg(l), Rest(l))
    /\ UNCHANGED <<frames, ready, holds, cwaiters>>

\* The Condition's own queue
CondQueue(l) ==
    /\ \/ /\ At(l, "push") /\ cwaiters' = Append(cwaiters, Arg(l))
          /\ Then(l, Rest(l))
       \/ /\ At(l, "erase_cond") /\ cwaiters' = erase_waiter(cwaiters, Arg(l))
          /\ Then(l, Rest(l))
       \/ At(l, "notify") /\ notify(l, Arg(l), Rest(l))
    /\ UNCHANGED <<frames, ready, holds, lock, waiters>>

HandOff(l) ==
    /\ At(l, "hand_off")
    /\ hand_off(l, Arg(l), Rest(l))
    /\ UNCHANGED <<frames, ready, holds, cwaiters>>

\* Mutant: a cancelled wait leaves the condition's queue and asks for nothing.
RequestNothing(l) ==
    /\ At(l, "is_owned_by")
    /\ LET c == Arg(l) IN
       Then(l, IF owner = c THEN <<<<"schedule", <<c, epoch[c]>>>>>> ELSE <<>>)
    /\ UNCHANGED <<frames, ready, holds, lock, waiters, cwaiters>>

\* on_cancel_requested after the erase: is_owned_by, then has_waiter, then
\* hand_off, each a critical section of its own.
RequestLock(l) ==
    /\ LET c == Arg(l) w == <<c, epoch[c]>> IN
       \/ /\ At(l, "is_owned_by")
          /\ Then(l, IF owner = c THEN <<<<"schedule", w>>>> ELSE <<<<"has_waiter", c>>>>)
       \/ /\ At(l, "has_waiter")
          /\ Then(l, IF \E v \in ToSet(waiters) : v[1] = c THEN <<>> ELSE <<<<"hand_off", w>>>>)
    /\ UNCHANGED <<frames, ready, holds, lock, waiters, cwaiters>>

LockStep(l) ==
    Unlock(l) \/ EraseLock(l) \/ CondQueue(l) \/ HandOff(l) \/ RequestLock(l)
LockCall(c) == AcquireNow(c) \/ AcquireWait(c) \/ LockRelease(c) \/ CondWait(c)

LockInit ==
    /\ holds = [c \in Coros |-> 0]
    /\ locked = FALSE /\ owner = NoCoro /\ recursion = 0
    /\ waiters = <<>> /\ cwaiters = <<>>

LockTypeOK ==
    /\ holds \in [Coros -> 0..MaxHold]
    /\ locked \in BOOLEAN /\ owner \in Coros \cup {NoCoro} /\ recursion \in Nat
    /\ waiters \in Seq(Waiter) /\ cwaiters \in Seq(Waiter)

-----------------------------------------------------------------------------
(* Properties.                                                             *)

\* A coroutine whose body is inside the critical section owns the lock: after
\* acquire(), after wait(), and in the handler of a wait() that was cancelled.
\* Two coroutines are never inside together.
MutualExclusion ==
    \A c \in Coros : holds[c] > 0 =>
        /\ locked /\ owner = c
        /\ Idle(home[c]) => recursion = holds[c] - 1

\* The calls in progress that will release the lock in c's name or resume c.
Serves(c) ==
    \/ Queued(c)
    \/ \E l \in Loops : \E i \in ToSet(prog[l]) :
          \/ i[1] \in {"resume", "erase_lock"} /\ i[2] = c
          \/ i[1] = "release" /\ l = home[c]
          \/ i[1] = "schedule" /\ i[2] = <<c, epoch[c]>>
          \/ i[1] = "guard" /\ i[2] = c

\* The lock is never left with nobody to release it: its owner is inside the
\* critical section, or on the way to be resumed, or passing it on.
NeverLeaked == owner # NoCoro => holds[owner] > 0 \/ Serves(owner)

\* A coroutine in wait() that has given the lock away is in one of the queues, or
\* in the hands of a notify() or of its own cancellation: a notification sent by
\* whoever gets the lock next cannot miss it.
NoMissedNotify ==
    \A c \in Coros : st[c] = "cond" /\ owner # c =>
        \/ <<c, epoch[c]>> \in ToSet(waiters) \cup ToSet(cwaiters)
        \/ \E l \in Loops : \E i \in ToSet(prog[l]) :
              \/ i = <<"hand_off", <<c, epoch[c]>>>>
              \/ i[1] \in {"is_owned_by", "has_waiter"} /\ i[2] = c

=============================================================================
