------------------------------- MODULE Tasks -------------------------------
(***************************************************************************)
(* What the combinators of Tasks (task_group.hpp, gather.hpp, wait.hpp)    *)
(* build on: the children, as Tasks of one loop (task.hpp).  A step is one *)
(* resumption, up to the next suspension.  The bodies of the children are  *)
(* arbitrary: they suspend, end or fail, and may catch a cancellation and  *)
(* clean up.  The module Scopes composes the combinators.                  *)
(***************************************************************************)
EXTENDS ReadyQueue

CONSTANT Kids         \* the children

\* The arguments are a list of Tasks; with none the combinators do not suspend.
ASSUME KidsAssumption == IsFiniteSet(Kids) /\ Kids # {}

VARIABLES mode,       \* the combinator in use
          ready,      \* the loop's ready queue
          kid,        \* where each child is suspended
          result,     \* the Task's outcome of each child that has ended
          cont,       \* continuation_ of each child, <<>>: none
          cancelled,  \* the coroutines with promise.cancelled_ set
          mon,        \* where the monitor of each child is suspended
          remaining,  \* remaining: monitors that have not completed
          order       \* history, without a group: the children in the order of their ends

kidVars == <<kid, result, order>>
monVars == <<mode, mon, remaining>>
taskVars == <<monVars, ready, kidVars, cont, cancelled>>

Mon(k) == <<"mon", k>>
Kid(k) == <<"kid", k>>
MonsOf(ks) == [i \in DOMAIN ks |-> Mon(ks[i])]

\* The loop resumes h next.
Turn(h) == ready # <<>> /\ Head(ready) = h

Suspended(k) == kid[k] \in {"wait", "cleanup"}

\* Task::cancel of a child that has started: it is woken if it is suspended.
WokenByCancel(k) == IF Suspended(k) THEN <<Kid(k)>> ELSE <<>>

\* ~Task: a child that has not ended is destroyed, or left for the loop to destroy
\* if it is in the ready queue.
Destroyed(k) == [kid EXCEPT ![k] = IF @ = "ended" THEN @ ELSE "killed"]

\* Task::await_suspend of a child that h awaits first: it is started.
Awaited(k, h, rest) ==
    /\ kid' = [kid EXCEPT ![k] = "queued"]
    /\ cont' = [cont EXCEPT ![k] = h]
    /\ ready' = Append(rest, Kid(k))

\* The child is over; r: its outcome.
Ends(k, r) ==
    /\ kid' = [kid EXCEPT ![k] = "ended"]
    /\ result' = [result EXCEPT ![k] = r]
    /\ order' = IF mode = "group" THEN order ELSE Append(order, k)

\* final_suspend schedules whoever awaits the child.
KidEnds(k, r) ==
    /\ Ends(k, r)
    /\ ready' = Scheduled(Tail(ready), IF cont[k] = <<>> THEN <<>> ELSE <<cont[k]>>)
    /\ cont' = [cont EXCEPT ![k] = <<>>]

\* The body runs to its next suspension or its end.  A CancelledError is passed
\* on, answered with another exception, or caught, for a clean-up that suspends.
RunKid(k) ==
    /\ Turn(Kid(k)) /\ kid[k] # "killed"
    /\ cancelled' = cancelled \ {Kid(k)}
    /\ \/ \E r \in {"ok", "failed", "cancelled"} : KidEnds(k, r)
       \/ /\ kid[k] # "cleanup"
          /\ kid' = [kid EXCEPT ![k] = IF Kid(k) \in cancelled THEN "cleanup" ELSE "wait"]
          /\ ready' = Tail(ready)
          /\ UNCHANGED <<result, order, cont>>
    /\ UNCHANGED monVars

\* An abandoned frame is destroyed when its turn comes.
Reclaim(k) ==
    /\ Turn(Kid(k)) /\ kid[k] = "killed"
    /\ ready' = Tail(ready)
    /\ UNCHANGED <<monVars, kidVars, cont, cancelled>>

\* What the child waits for has happened.
KidWake(k) ==
    /\ Suspended(k) /\ ~Contains(ready, Kid(k))
    /\ ready' = Append(ready, Kid(k))
    /\ UNCHANGED <<monVars, kidVars, cont, cancelled>>

TasksInit ==
    /\ mon = [k \in Kids |-> "none"] /\ remaining = 0
    /\ kid = [k \in Kids |-> "none"] /\ result = [k \in Kids |-> "none"]
    /\ cont = [k \in Kids |-> <<>>] /\ cancelled = {} /\ order = <<>>

=============================================================================
