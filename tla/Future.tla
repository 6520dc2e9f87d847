------------------------------- MODULE Future -------------------------------
(***************************************************************************)
(* coro::Promise and coro::Future (include/coro/future.hpp): one result,   *)
(* set by any thread, awaited by coroutines of several loops.  set_value   *)
(* and set_exception store the result in one critical section and notify   *)
(* the waiters in a second one; ~Promise does the same with a broken       *)
(* promise.  A Future has no wait epoch: the notification is a plain       *)
(* schedule() under the lock.                                              *)
(* The module Primitives composes it with the other primitives.            *)
(***************************************************************************)
EXTENDS Waiting

CONSTANTS Futures,
          MoveOnly    \* the futures whose result can be taken only once

ASSUME FutureAssumption == Futures # {} /\ MoveOnly \subseteq Futures

VARIABLES result,     \* result / exception of the shared state; "none": not ready
          promise,    \* futures whose Promise still exists
          consumed,   \* futures whose move-only result was taken
          futWaiters, \* waiters, per future
          on,         \* the future each coroutine awaited last
          got         \* history: what each coroutine's last await returned

futVars == <<result, promise, consumed, futWaiters, on, got>>

Outcomes == {"value", "exception", "broken"}
fready(f) == result[f] # "none"

-----------------------------------------------------------------------------
(* The producer.                                                           *)

\* Store a result once, then notify.
Store(l, f, r) ==
    /\ ~fready(f)
    /\ result' = [result EXCEPT ![f] = r]
    /\ Then(l, <<<<"future_notify", f>>>>)

\* set_value, set_exception; a second call throws
PromiseSet(l, f, r) ==
    /\ Idle(l) /\ f \in promise
    /\ Store(l, f, r)
    /\ UNCHANGED <<frames, ready, promise, consumed, futWaiters, on, got>>

\* ~Promise, or an assignment to it: a result that is missing becomes
\* BrokenPromiseError (abandon_pending).
DropPromise(l, f) ==
    /\ Idle(l) /\ f \in promise
    /\ promise' = promise \ {f}
    /\ IF fready(f) THEN UNCHANGED <<result, prog>> ELSE Store(l, f, "broken")
    /\ UNCHANGED <<frames, ready, consumed, futWaiters, on, got>>

\* Waiters woken on each loop, in order, unless queued already
Woken(l, ws) == Filtered(ws, {c \in Coros : home[c] = l /\ ~Queued(c) /\ st[c] # "gone"})

\* notify(): schedules everybody and clears the list under the lock
PromiseNotify(l) ==
    /\ At(l, "future_notify")
    /\ LET f == Arg(l) IN
       /\ ready' = [k \in Loops |-> ready[k] \o Woken(k, futWaiters[f])]
       /\ futWaiters' = [futWaiters EXCEPT ![f] = <<>>]
    /\ Then(l, Rest(l))
    /\ UNCHANGED <<frames, result, promise, consumed, on, got>>

-----------------------------------------------------------------------------
(* The consumer.                                                           *)

\* await_resume: the result as it is now.  A move-only value is given away once;
\* the next one to ask gets a logic_error.  "none": an empty optional is read.
await_resume(c, f) ==
    /\ consumed' = consumed \cup
           {g \in MoveOnly : g = f /\ result[f] \in {"value", "none"}}
    /\ got' = [got EXCEPT ![c] = IF f \in consumed THEN "logic_error" ELSE result[f]]

\* await_ready: the result is there already, or await_suspend follows.
Await(c, f) ==
    /\ Calls(c) /\ waits[c] < MaxWait
    /\ waits' = [waits EXCEPT ![c] = @ + 1]
    /\ on' = [on EXCEPT ![c] = f]
    /\ IF fready(f) THEN await_resume(c, f) /\ UNCHANGED prog
       ELSE /\ Then(home[c], <<<<"future_suspend", c>>>>)
            /\ got' = [got EXCEPT ![c] = "nothing"] /\ UNCHANGED consumed
    /\ UNCHANGED <<home, st, epoch, cancelled, abandoned, ready, result, promise, futWaiters>>

\* await_suspend always suspends; if the result came meanwhile the coroutine
\* schedules itself.
AwaitSuspend(l) ==
    /\ At(l, "future_suspend")
    /\ LET c == Arg(l) IN
       /\ st' = [st EXCEPT ![c] = "await"]
       /\ IF fready(on[c])
          THEN Then(l, <<<<"future_schedule", c>>>>) /\ UNCHANGED futWaiters
          ELSE /\ futWaiters' = [futWaiters EXCEPT ![on[c]] = Append(@, c)]
               /\ Then(l, Rest(l))
    /\ UNCHANGED <<home, epoch, waits, cancelled, abandoned, ready, result, promise,
                   consumed, on, got>>

AwaitSchedule(l) ==
    /\ At(l, "future_schedule")
    /\ Reserve(Arg(l), TRUE)
    /\ Then(l, Rest(l))
    /\ UNCHANGED <<frames, futVars>>

\* Mutant: a dropped waiter stays in the list.
AwaitEraseNothing(l) ==
    /\ At(l, "future_erase")
    /\ Then(l, Rest(l))
    /\ UNCHANGED <<frames, ready, futVars>>

\* on_waiter_destroyed
AwaitErase(l) ==
    /\ At(l, "future_erase")
    /\ LET c == Arg(l) IN
       futWaiters' = [futWaiters EXCEPT ![on[c]] = Filtered(@, Coros \ {c})]
    /\ Then(l, Rest(l))
    /\ UNCHANGED <<frames, ready, result, promise, consumed, on, got>>

AwaitReturned(c) ==
    /\ await_resume(c, on[c])
    /\ UNCHANGED <<result, promise, futWaiters, on>>

FutureStep(l) ==
    AwaitSuspend(l) \/ AwaitSchedule(l) \/ AwaitErase(l) \/ PromiseNotify(l)

Produce(l, f) == DropPromise(l, f) \/ \E r \in {"value", "exception"} : PromiseSet(l, f, r)

FutureInit ==
    /\ result = [f \in Futures |-> "none"] /\ promise = Futures /\ consumed = {}
    /\ futWaiters = [f \in Futures |-> <<>>]
    /\ on = [c \in Coros |-> CHOOSE f \in Futures : TRUE]
    /\ got = [c \in Coros |-> "nothing"]

FutureTypeOK ==
    /\ result \in [Futures -> Outcomes \cup {"none"}]
    /\ promise \subseteq Futures /\ consumed \subseteq Futures
    /\ futWaiters \in [Futures -> Seq(Coros)]
    /\ on \in [Coros -> Futures]
    /\ got \in [Coros -> Outcomes \cup {"none", "nothing", "logic_error"}]

-----------------------------------------------------------------------------
(* Properties.                                                             *)

\* Nobody is left waiting for a result that is there: whoever stored it is about
\* to notify.
NoLostResult ==
    \A f \in Futures : fready(f) /\ futWaiters[f] # <<>> =>
        \E l \in Loops : <<"future_notify", f>> \in ToSet(prog[l])

=============================================================================
