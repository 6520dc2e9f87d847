-------------------------------- MODULE Pool --------------------------------
(***************************************************************************)
(* coro::Pool (include/coro/pool.hpp): resources made by an asynchronous   *)
(* factory, lent out and cached up to a limit.  A waiter is only woken: it *)
(* has to compete for the resource again, and may be cancelled before it   *)
(* does.  Resources are counted, not named; a coroutine has one lease.     *)
(* The module Locals puts it beside the channels.                          *)
(***************************************************************************)
EXTENDS Local

CONSTANTS Limits,      \* the values of max_agents
          max_idle     \* limit on the resources kept idle

ASSUME PoolAssumption == Limits \subseteq Nat /\ max_idle \in Nat

VARIABLES max_agents,  \* limit on the resources, 0: none; chosen once
          idle,        \* number of idle resources
          in_use,      \* resources lent out or being made
          poolWaiters, \* waiters
          poolClosed,  \* closed
          holding      \* coroutines with a valid lease

poolVars == <<max_agents, idle, in_use, poolWaiters, poolClosed, holding>>

can_create == ~poolClosed /\ (max_agents = 0 \/ in_use < max_agents)

\* wake_one: whom it wakes, and who still waits then
First(q) == IF q = <<>> THEN <<>> ELSE <<Head(q)>>
AfterFirst(q) == IF q = <<>> THEN <<>> ELSE Tail(q)

-----------------------------------------------------------------------------

\* Mutant: the slot is taken only when the resource has been made.
AcquireLate(c, what) ==
    \/ /\ what = "run" /\ poolClosed
       /\ UNCHANGED <<idle, in_use, poolWaiters, holding>>
    \/ /\ what = "run" /\ ~poolClosed /\ idle > 0
       /\ idle' = idle - 1 /\ in_use' = in_use + 1 /\ holding' = holding \cup {c}
       /\ UNCHANGED poolWaiters
    \/ /\ what = "acquire" /\ ~poolClosed /\ idle = 0 /\ ~can_create
       /\ poolWaiters' = Append(poolWaiters, c)
       /\ UNCHANGED <<idle, in_use, holding>>
    \/ /\ what = "create" /\ idle = 0 /\ can_create
       /\ UNCHANGED in_use
       /\ UNCHANGED <<idle, poolWaiters, holding>>

\* acquire_impl, from the top of its loop to where it goes on or suspends: an
\* invalid lease, an idle resource, a place in the queue, or a slot and the
\* factory.
acquire_impl(c, what) ==
    \/ /\ what = "run" /\ poolClosed
       /\ UNCHANGED <<idle, in_use, poolWaiters, holding>>
    \/ /\ what = "run" /\ ~poolClosed /\ idle > 0
       /\ idle' = idle - 1 /\ in_use' = in_use + 1 /\ holding' = holding \cup {c}
       /\ UNCHANGED poolWaiters
    \/ /\ what = "acquire" /\ ~poolClosed /\ idle = 0 /\ ~can_create
       /\ poolWaiters' = Append(poolWaiters, c)
       /\ UNCHANGED <<idle, in_use, holding>>
    \/ /\ what = "create" /\ idle = 0 /\ can_create
       /\ in_use' = in_use + 1
       /\ UNCHANGED <<idle, poolWaiters, holding>>

Steps == {"run", "acquire", "create"}

PoolAcquire(c) ==
    /\ c \notin holding
    /\ \E what \in Steps : acquire_impl(c, what) /\ Proceeds(c, what, <<>>)
    /\ UNCHANGED <<max_agents, poolClosed>>

\* A woken waiter is back at the top of the loop.
PoolRetry(c) ==
    /\ st[c] = "acquire"
    /\ \E what \in Steps : acquire_impl(c, what) /\ Resumes(c, what, <<>>)
    /\ UNCHANGED <<max_agents, poolClosed>>

\* The Task of the factory ends.
FactoryEnds(c) ==
    /\ st[c] = "create" /\ ~Contains(ready, c)
    /\ ready' = Append(ready, c)
    /\ UNCHANGED <<st, cancelled, abandoned, poolVars>>

\* ~pool_reservation: the slot goes to the next waiter.
Unreserve(ws) ==
    /\ in_use' = in_use - 1
    /\ ws = First(poolWaiters) /\ poolWaiters' = AfterFirst(poolWaiters)

\* The resource is there; or the factory threw, or the pool was closed meanwhile.
Created(c) ==
    /\ st[c] = "create"
    /\ \/ ~poolClosed /\ Resumes(c, "run", <<>>) /\ holding' = holding \cup {c}
          /\ UNCHANGED <<in_use, poolWaiters>>
       \/ \E ws \in {First(poolWaiters)} :
             Unreserve(ws) /\ Resumes(c, "run", ws) /\ UNCHANGED holding
    /\ UNCHANGED <<max_agents, idle, poolClosed>>

\* Mutant: a waiter dropped after it was woken keeps the wake-up.
PoolDropQuietly(c) ==
    \/ /\ st[c] = "acquire"
       /\ Unwinds(c, <<>>) /\ poolWaiters' = RemoveFirst(poolWaiters, c)
       /\ UNCHANGED <<max_agents, idle, in_use, poolClosed, holding>>
    \/ /\ st[c] = "create"
       /\ \E ws \in {First(poolWaiters)} : Unreserve(ws) /\ Unwinds(c, ws)
       /\ UNCHANGED <<max_agents, idle, poolClosed, holding>>

\* The wait is cancelled or its frame destroyed: ~pool_acquire_awaiter passes the
\* wake-up on if there is something to get, ~pool_reservation gives the slot back.
PoolDrop(c) ==
    \/ /\ st[c] = "acquire"
       /\ LET rest == RemoveFirst(poolWaiters, c)
              wake == idle > 0 \/ can_create
          IN  /\ Unwinds(c, IF wake THEN First(rest) ELSE <<>>)
              /\ poolWaiters' = IF wake THEN AfterFirst(rest) ELSE rest
       /\ UNCHANGED <<max_agents, idle, in_use, poolClosed, holding>>
    \/ /\ st[c] = "create"
       /\ \E ws \in {First(poolWaiters)} : Unreserve(ws) /\ Unwinds(c, ws)
       /\ UNCHANGED <<max_agents, idle, poolClosed, holding>>

\* ~PoolLease caches the resource if it may; discard() never does.
Release(c, keep) ==
    /\ c \in holding
    /\ holding' = holding \ {c}
    /\ idle' = IF keep /\ ~poolClosed /\ idle < max_idle THEN idle + 1 ELSE idle
    /\ in_use' = in_use - 1
    /\ ready' = Scheduled(ready, First(poolWaiters))
    /\ poolWaiters' = AfterFirst(poolWaiters)
    /\ UNCHANGED <<st, cancelled, abandoned, max_agents, poolClosed>>

PoolClose ==
    /\ ~poolClosed /\ poolClosed' = TRUE
    /\ idle' = 0
    /\ ready' = Scheduled(ready, poolWaiters) /\ poolWaiters' = <<>>
    /\ UNCHANGED <<st, cancelled, abandoned, max_agents, in_use, holding>>

PoolStep(c) ==
    \/ PoolAcquire(c) \/ PoolRetry(c) \/ FactoryEnds(c) \/ Created(c) \/ PoolDrop(c)
    \/ \E keep \in BOOLEAN : Release(c, keep)

PoolInit ==
    /\ max_agents \in Limits
    /\ idle = 0 /\ in_use = 0 /\ poolWaiters = <<>>
    /\ poolClosed = FALSE /\ holding = {}

-----------------------------------------------------------------------------
(* Properties.                                                             *)

\* in_use counts the leases and the resources being made, through failed and
\* cancelled factories and a pool closed meanwhile, and there are never more
\* resources than allowed, the idle ones included ("不超发").
PoolExact ==
    /\ in_use = Cardinality(holding) + Cardinality({c \in Coros : st[c] = "create"})
    /\ max_agents > 0 => idle + in_use <= max_agents
    /\ idle <= max_idle

\* Nobody is left in the queue while there is something to get: enough waiters
\* have been woken and not been resumed yet, whoever was cancelled or overtaken.
WakeUpsSuffice ==
    poolWaiters # <<>> =>
        /\ ~poolClosed /\ max_agents > 0
        /\ Cardinality({c \in Coros : st[c] = "acquire" /\ ~Contains(poolWaiters, c)})
              >= max_agents - in_use

=============================================================================
