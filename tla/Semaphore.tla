----------------------------- MODULE Semaphore -----------------------------
(***************************************************************************)
(* coro::Semaphore (include/coro/sync.hpp).  release() gives the permit to *)
(* the first waiter by name (reserved) and schedules it afterwards; until  *)
(* that waiter runs it may be cancelled or destroyed, and then has to pass *)
(* the permit on.  acquire() and guard() behave alike.                     *)
(* The module Primitives composes it with the other primitives.            *)
(***************************************************************************)
EXTENDS Waiting

CONSTANTS Permits,    \* Semaphore(permits)
          MaxPosts    \* bound on the releases by threads that hold no permit

ASSUME SemaphoreAssumption == Permits \in Nat /\ MaxPosts \in Nat

VARIABLES permits,    \* permits_
          semWaiters, \* waiters_, as <<coroutine, epoch>>
          reserved,   \* coroutines whose waiter has reserved set
          inside,     \* history: coroutines that were granted a permit
          posts       \* history: releases that gave back no permit

semVars == <<permits, semWaiters, reserved, inside, posts>>

-----------------------------------------------------------------------------

\* release(): handle and epoch are copied under the lock, the waiter is
\* scheduled outside.
sem_release(l, rest) ==
    IF semWaiters = <<>>
    THEN /\ permits' = permits + 1
         /\ Then(l, rest) /\ UNCHANGED <<semWaiters, reserved>>
    ELSE /\ semWaiters' = Tail(semWaiters)
         /\ reserved' = reserved \cup {Head(semWaiters)[1]}
         /\ Then(l, <<<<"schedule", Head(semWaiters)>>>> \o rest)
         /\ UNCHANGED permits

\* Mutant: a dropped waiter does not pass its permit on.
RemoveOnly(l, c, rest) ==
    /\ semWaiters' = erase_waiter(semWaiters, c)
    /\ reserved' = reserved \ {c}
    /\ Then(l, rest)
    /\ UNCHANGED permits

\* remove_waiter, from on_waiter_destroyed
remove_waiter(l, c, rest) ==
    /\ semWaiters' = erase_waiter(semWaiters, c)
    /\ reserved' = reserved \ {c}
    /\ Then(l, IF c \in reserved THEN <<<<"sem_release">>>> \o rest ELSE rest)
    /\ UNCHANGED permits

-----------------------------------------------------------------------------

Take(c) ==
    /\ permits > 0
    /\ permits' = permits - 1
    /\ inside' = inside \cup {c}

\* await_ready takes a permit, or the caller goes on to await_suspend.
SemAcquire(c) ==
    /\ Calls(c) /\ c \notin inside /\ waits[c] < MaxWait
    /\ IF permits > 0 THEN Take(c) /\ UNCHANGED prog
       ELSE Then(home[c], <<<<"sem_suspend", c>>>>) /\ UNCHANGED <<permits, inside>>
    /\ UNCHANGED <<frames, ready, semWaiters, reserved, posts>>

\* await_suspend: the permits again, or queued
SemSuspend(l) ==
    /\ At(l, "sem_suspend")
    /\ Then(l, Rest(l))
    /\ LET c == Arg(l) IN
       \/ Take(c) /\ UNCHANGED <<st, epoch, waits, semWaiters>>
       \/ /\ permits = 0
          /\ begin_wait(c)
          /\ st' = [st EXCEPT ![c] = "acquire"]
          /\ semWaiters' = Append(semWaiters, <<c, waits[c] + 1>>)
          /\ UNCHANGED <<permits, inside>>
    /\ UNCHANGED <<home, cancelled, abandoned, ready, reserved, posts>>

\* release() by a coroutine that holds a permit, or ~Guard
SemRelease(c) ==
    /\ Calls(c) /\ c \in inside
    /\ inside' = inside \ {c}
    /\ sem_release(home[c], <<>>)
    /\ UNCHANGED <<frames, ready, posts>>

\* release() by anybody else: one permit more
SemPost(l) ==
    /\ Idle(l) /\ posts < MaxPosts
    /\ posts' = posts + 1
    /\ sem_release(l, <<>>)
    /\ UNCHANGED <<frames, ready, inside>>

\* remove_waiter, its second half, and ~Guard of a frame that is destroyed
SemPassOn(l) ==
    /\ \/ At(l, "sem_remove") /\ remove_waiter(l, Arg(l), Rest(l)) /\ UNCHANGED inside
       \/ At(l, "sem_release") /\ sem_release(l, Rest(l)) /\ UNCHANGED inside
       \/ At(l, "sem_guard") /\ sem_release(l, Rest(l)) /\ inside' = inside \ {Arg(l)}
    /\ UNCHANGED <<frames, ready, posts>>

\* await_resume: the permit is the caller's; nothing looks at reserved, which
\* goes with the awaiter.
SemReturned(c) ==
    /\ inside' = inside \cup {c}
    /\ reserved' = reserved \ {c}
    /\ UNCHANGED <<permits, semWaiters, posts>>

SemStep(l) == SemSuspend(l) \/ SemPassOn(l)
SemCall(c) == SemAcquire(c) \/ SemRelease(c)

SemInit ==
    /\ permits = Permits /\ semWaiters = <<>> /\ reserved = {}
    /\ inside = {} /\ posts = 0

SemTypeOK ==
    /\ permits \in Nat /\ semWaiters \in Seq(Waiter)
    /\ reserved \subseteq Coros /\ inside \subseteq Coros /\ posts \in 0..MaxPosts

-----------------------------------------------------------------------------
(* Properties.                                                             *)

\* Calls that owe the semaphore a permit: a dropped waiter that held one by name
Owed == {l \in Loops : \E i \in ToSet(prog[l]) : i[1] = "sem_release"}

\* No permit is lost or made up, whoever is cancelled or destroyed at whatever
\* moment ("否则一次取消就永久损失一个许可").
Conservation ==
    permits + Cardinality(inside) + Cardinality(reserved) + Cardinality(Owed)
        = Permits + posts

\* Nobody is queued while a permit is free: a release between await_ready and
\* await_suspend is not missed.
NoIdlePermit == permits > 0 => semWaiters = <<>>

=============================================================================
