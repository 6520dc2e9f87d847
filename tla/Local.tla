------------------------------- MODULE Local -------------------------------
(***************************************************************************)
(* Coroutines of one event loop, for the primitives that are used on that  *)
(* loop only (channel.hpp, select.hpp, pool.hpp).  An operation runs to    *)
(* its suspension in one step.  A waiter is woken by a plain schedule();   *)
(* until the loop resumes it, it may be cancelled or its Task destroyed,   *)
(* as the module Frames models it in full.  A coroutine in state "run" is  *)
(* running, or suspended in something else.                                *)
(*                                                                         *)
(* The frame of a coroutine and those of the Tasks it awaits (select(),    *)
(* Pool::acquire()) are one here.                                          *)
(***************************************************************************)
EXTENDS ReadyQueue

CONSTANT Coros

VARIABLES st,         \* "run", "gone", or what the coroutine is suspended in
          ready,      \* the loop's ready queue, these coroutines only
          cancelled,  \* promise.cancelled_
          abandoned   \* abandoned_handles_

frames == <<st, ready, cancelled, abandoned>>

Waits(c) == st[c] \notin {"run", "gone"}

\* c goes on, or suspends in what, after it woke ws.
Proceeds(c, what, ws) ==
    /\ st[c] = "run"
    /\ st' = [st EXCEPT ![c] = what]
    /\ ready' = Scheduled(ready, ws)
    /\ UNCHANGED <<cancelled, abandoned>>

\* The loop resumes c, which goes on to what.
Resumes(c, what, ws) ==
    /\ ready # <<>> /\ c = Head(ready)
    /\ c \notin cancelled \cup abandoned
    /\ st' = [st EXCEPT ![c] = what]
    /\ ready' = Scheduled(Tail(ready), ws)
    /\ UNCHANGED <<cancelled, abandoned>>

\* The wait is abandoned: the loop resumes c with a CancelledError, or destroys a
\* frame left to it, or ~Task destroys a frame that is not scheduled.  ws: who is
\* woken by the destructors that run.
Unwinds(c, ws) ==
    /\ cancelled' = cancelled \ {c}
    /\ abandoned' = abandoned \ {c}
    /\ \/ /\ ready # <<>> /\ c = Head(ready)
          /\ c \in cancelled \cup abandoned
          /\ st' = [st EXCEPT ![c] = IF c \in abandoned THEN "gone" ELSE "run"]
          /\ ready' = Scheduled(Tail(ready), ws)
       \/ /\ Waits(c) /\ ~Contains(ready, c)
          /\ st' = [st EXCEPT ![c] = "gone"]
          /\ ready' = Scheduled(ready, ws)

\* Task::cancel of a suspended coroutine
Cancel(c) ==
    /\ Waits(c) /\ c \notin abandoned
    /\ cancelled' = cancelled \cup {c}
    /\ ready' = Scheduled(ready, <<c>>)
    /\ UNCHANGED <<st, abandoned>>

\* ~Task of a suspended coroutine that is scheduled: left to the loop
Abandon(c) ==
    /\ Waits(c) /\ Contains(ready, c)
    /\ abandoned' = abandoned \cup {c}
    /\ UNCHANGED <<st, ready, cancelled>>

LocalInit ==
    /\ st = [c \in Coros |-> "run"] /\ ready = <<>>
    /\ cancelled = {} /\ abandoned = {}

=============================================================================
