------------------------------- MODULE Event -------------------------------
(***************************************************************************)
(* coro::Event (include/coro/sync.hpp): set() raises a lock-free flag,     *)
(* takes the whole wait list under the lock and schedules it outside;      *)
(* clear() lowers the flag at any time.                                    *)
(* The module Primitives composes it with the other primitives.            *)
(***************************************************************************)
EXTENDS Waiting

CONSTANT MaxSets      \* bound on the calls of set()

ASSUME EventAssumption == MaxSets \in Nat

VARIABLES set,        \* set_
          setWaiters, \* waiters_
          sets,       \* history: calls of set() that have taken the wait list
          since       \* history: sets at the time the coroutine's wait began

eventVars == <<set, setWaiters, sets, since>>

-----------------------------------------------------------------------------

\* wait() on a raised event returns at once; otherwise await_suspend starts with
\* begin_wait, before it takes the lock.
EventWait(c) ==
    /\ Calls(c) /\ ~set
    /\ begin_wait(c)
    /\ since' = [since EXCEPT ![c] = sets]
    /\ Then(home[c], <<<<"event_suspend", c>>>>)
    /\ UNCHANGED <<home, st, cancelled, abandoned, ready, set, setWaiters, sets>>

\* Mutant: the flag is not read again under the lock.
EventSuspendBlindly(l) ==
    /\ At(l, "event_suspend")
    /\ Then(l, Rest(l))
    /\ LET c == Arg(l) IN
       /\ setWaiters' = Append(setWaiters, <<c, epoch[c]>>)
       /\ st' = [st EXCEPT ![c] = "wait"]
    /\ UNCHANGED <<home, epoch, waits, cancelled, abandoned, ready, set, sets, since>>

\* The flag again, under the lock: queued, or await_resume at once.
EventSuspend(l) ==
    /\ At(l, "event_suspend")
    /\ Then(l, Rest(l))
    /\ LET c == Arg(l) IN
       IF set
       THEN epoch' = [epoch EXCEPT ![c] = 0] /\ UNCHANGED <<st, setWaiters>>
       ELSE /\ setWaiters' = Append(setWaiters, <<c, epoch[c]>>)
            /\ st' = [st EXCEPT ![c] = "wait"]
            /\ UNCHANGED epoch
    /\ UNCHANGED <<home, waits, cancelled, abandoned, ready, set, sets, since>>

Setting == {l \in Loops : <<"event_swap">> \in ToSet(prog[l])}
MaySet(l) == Idle(l) /\ sets + Cardinality(Setting) < MaxSets

\* set(): the flag first
EventSet(l) ==
    /\ MaySet(l)
    /\ set' = TRUE
    /\ Then(l, <<<<"event_swap">>>>)
    /\ UNCHANGED <<frames, ready, setWaiters, sets, since>>

\* ... then the list, under the lock
EventSwap(l) ==
    /\ At(l, "event_swap")
    /\ setWaiters' = <<>>
    /\ sets' = sets + 1
    /\ Then(l, [i \in DOMAIN setWaiters |-> <<"schedule", setWaiters[i]>>] \o Rest(l))
    /\ UNCHANGED <<frames, ready, set, since>>

EventClear ==
    /\ set /\ set' = FALSE
    /\ UNCHANGED <<frames, ready, prog, setWaiters, sets, since>>

\* wait_awaiter::on_waiter_destroyed
EventErase(l) ==
    /\ At(l, "event_erase")
    /\ setWaiters' = erase_waiter(setWaiters, Arg(l))
    /\ Then(l, Rest(l))
    /\ UNCHANGED <<frames, ready, set, sets, since>>

EventStep(l) == EventSuspend(l) \/ EventSwap(l) \/ EventErase(l)

EventInit ==
    /\ set = FALSE /\ setWaiters = <<>>
    /\ sets = 0 /\ since = [c \in Coros |-> 0]

EventTypeOK ==
    /\ set \in BOOLEAN /\ setWaiters \in Seq(Waiter) /\ sets \in 0..MaxSets
    /\ since \in [Coros -> 0..MaxSets]

-----------------------------------------------------------------------------
(* Properties.                                                             *)

\* Nobody is queued on a raised event, unless the set() that raised it is about
\* to take the list: the second look at the flag leaves no gap.
NobodyQueuedOnSet == set /\ setWaiters # <<>> => Setting # {}

=============================================================================
