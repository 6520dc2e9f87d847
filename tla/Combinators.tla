---------------------------- MODULE Combinators ----------------------------
(***************************************************************************)
(* wait_for and wait_tasks (include/coro/wait.hpp), gather                 *)
(* (include/coro/gather.hpp).                                              *)
(*                                                                         *)
(* wait_for awaits its Task itself while a timer coroutine that holds a    *)
(* pointer to the Task sleeps.  The others start a detached monitor for    *)
(* each Task and suspend until the shared state lets them go.  The caller  *)
(* may be cancelled, or its frame destroyed, at any time.                  *)
(***************************************************************************)
EXTENDS Tasks

VARIABLES caller,           \* start, await, killed (destroyed while queued), left
          registered,       \* TRUE: state->caller is set
          first_exception,  \* the child whose exception was stored first
          early_done,       \* early_done
          first_done,       \* first_done_index
          timer,            \* where the timer of wait_for is
          timed_out,        \* timed_out
          outcome,          \* what the caller got, and of which child
          first             \* history: which came first, the deadline or a cancellation

state == <<registered, first_exception, early_done, first_done>>
combVars == <<caller, state, timer, timed_out, outcome, first>>

Caller == <<"caller">>
Timer == <<"timer">>

Nobody == "nobody"

\* Nobody is none of the children.
ASSUME NobodyAssumption == Nobody \notin Kids

Modes == {"wait_for", "gather", "all", "first", "exception"}

\* The arguments in their order; wait_for has one.
Args == IF mode = "wait_for" THEN <<SetToSeq(Kids)[1]>> ELSE SetToSeq(Kids)
Arg == Args[1]

-----------------------------------------------------------------------------
(* The caller: start and suspension.                                       *)

StartTimer ==
    /\ mode = "wait_for"
    /\ timer' = "new"
    /\ Awaited(Arg, Caller, Append(Tail(ready), Timer))
    /\ caller' = "await"
    /\ UNCHANGED <<result, order, mon, remaining, state>>

\* The monitors are started and detached, the caller is registered.
StartMonitors ==
    /\ mode # "wait_for"
    /\ mon' = [k \in Kids |-> "new"] /\ remaining' = Len(Args)
    /\ ready' = Tail(ready) \o MonsOf(Args)
    /\ registered' = TRUE
    /\ caller' = "await"
    /\ UNCHANGED <<kidVars, cont, first_exception, early_done, first_done, timer>>

Call ==
    /\ Turn(Caller) /\ caller = "start" /\ Caller \notin cancelled
    /\ StartTimer \/ StartMonitors
    /\ UNCHANGED <<mode, cancelled, timed_out, outcome, first>>

\* The caller was cancelled before its first run.  The await of wait_for throws when
\* the timer is started already, the one of gather before anything is, the one of
\* wait_tasks when the monitors are.
CallCancelled ==
    /\ Turn(Caller) /\ caller = "start" /\ Caller \in cancelled
    /\ cancelled' = cancelled \ {Caller}
    /\ caller' = "left" /\ outcome' = <<"cancelled", Nobody>>
    /\ \/ /\ mode = "wait_for"
          /\ timer' = "killed" /\ ready' = Append(Tail(ready), Timer)
          /\ UNCHANGED <<mon, remaining>>
       \/ mode = "gather" /\ ready' = Tail(ready) /\ UNCHANGED <<mon, remaining, timer>>
       \/ /\ mode \in {"all", "first", "exception"}
          /\ mon' = [k \in Kids |-> "new"] /\ remaining' = Len(Args)
          /\ ready' = Tail(ready) \o MonsOf(Args)
          /\ UNCHANGED timer
    /\ UNCHANGED <<mode, kidVars, cont, state, timed_out, first>>

-----------------------------------------------------------------------------
(* The caller leaves.                                                      *)

\* ~Task of the timer: abandoned if it is queued, gone otherwise.
TimerDestroyed == IF timer = "ended" THEN timer ELSE "killed"

\* Mutant: the caller of gather leaves its children alone.
AbandonOnly(rest) ==
    /\ ready' = rest
    /\ cancelled' = cancelled \ {Caller}
    /\ UNCHANGED kidVars

\* gather_shared_state::cancel_remaining.  A child that has not started is over at
\* once.
Unstarted == {k \in Kids : kid[k] = "none"}

CancelRemaining(rest) ==
    /\ kid' = [k \in Kids |-> IF k \in Unstarted THEN "ended" ELSE kid[k]]
    /\ result' = [k \in Kids |-> IF k \in Unstarted THEN "cancelled" ELSE result[k]]
    /\ order' = order \o Filtered(Args, Unstarted)
    /\ LET woken == Filtered(Args, {k \in Kids : Suspended(k)})
       IN  ready' = Scheduled(rest, [i \in DOMAIN woken |-> Kid(woken[i])])
    /\ cancelled' = (cancelled \ {Caller})
                       \cup {Kid(k) : k \in {j \in Kids : kid[j] \in {"queued", "wait", "cleanup"}}}

\* The awaiter and the locals of a caller that has suspended are destroyed.
Unwind(rest) ==
    /\ registered' = FALSE
    /\ cont' = [k \in Kids |-> IF cont[k] = Caller THEN <<>> ELSE cont[k]]
    /\ timer' = IF mode = "wait_for" THEN TimerDestroyed ELSE timer
    /\ \/ mode = "gather" /\ CancelRemaining(rest)
       \/ /\ mode # "gather"
          /\ kid' = IF mode = "wait_for" THEN Destroyed(Arg) ELSE kid
          /\ ready' = rest
          /\ cancelled' = cancelled \ {Caller}
          /\ UNCHANGED <<result, order>>
    /\ UNCHANGED <<monVars, first_exception, early_done, first_done, timed_out, first>>

\* Mutant: every CancelledError is taken for the deadline's.
AlwaysTimeout == IF mode = "wait_for" THEN <<"timeout", Nobody>> ELSE <<"cancelled", Nobody>>

\* catch (const CancelledError&)
Cancelled ==
    IF mode = "wait_for" /\ timed_out THEN <<"timeout", Nobody>> ELSE <<"cancelled", Nobody>>

\* The caller is resumed and its cancellation thrown.
ResumeCancelled ==
    /\ Turn(Caller) /\ caller = "await" /\ Caller \in cancelled
    /\ caller' = "left" /\ outcome' = Cancelled
    /\ Unwind(Tail(ready))

\* Mutant: the timer is detached and not cancelled.
DetachTimer == ready' = Tail(ready) /\ UNCHANGED cancelled

\* timer.cancel(), timer.detach()
CancelTimer ==
    /\ cancelled' = IF timer = "ended" THEN cancelled ELSE cancelled \cup {Timer}
    /\ ready' = Scheduled(Tail(ready), IF timer = "ended" THEN <<>> ELSE <<Timer>>)

\* co_await task returns, or throws and the timer is destroyed with the frame.
Answered ==
    /\ mode = "wait_for"
    /\ \/ /\ result[Arg] = "ok"
          /\ outcome' = <<"ok", Arg>>
          /\ CancelTimer
          /\ UNCHANGED timer
       \/ /\ result[Arg] # "ok"
          /\ outcome' = IF result[Arg] = "failed" THEN <<"failed", Arg>> ELSE Cancelled
          /\ timer' = TimerDestroyed
          /\ ready' = Tail(ready)
          /\ UNCHANGED cancelled

\* take_first_completed, take_all_results, await_resume of gather.
Collected ==
    /\ mode # "wait_for"
    /\ outcome' = CASE mode = "first" -> <<result[first_done], first_done>>
                    [] mode # "first" /\ first_exception # Nobody
                         -> <<result[first_exception], first_exception>>
                    [] OTHER -> <<"ok", Nobody>>
    /\ ready' = Tail(ready)
    /\ UNCHANGED <<cancelled, timer>>

\* The caller is resumed and takes what it was waiting for.
Resumed ==
    /\ Turn(Caller) /\ caller = "await" /\ Caller \notin cancelled
    /\ caller' = "left"
    /\ Answered \/ Collected
    /\ UNCHANGED <<monVars, kidVars, cont, state, timed_out, first>>

\* Task::cancel of the caller.
CancelCaller ==
    /\ caller \in {"start", "await"} /\ Caller \notin cancelled
    /\ cancelled' = cancelled \cup {Caller}
    /\ ready' = Scheduled(ready, <<Caller>>)
    /\ first' = IF first = Nobody THEN "cancel" ELSE first
    /\ UNCHANGED <<monVars, kidVars, cont, caller, state, timer, timed_out, outcome>>

\* ~Task of the caller (one that has not run yet takes its unstarted Tasks along):
\* at once if it is suspended, else when its turn comes.
DestroyCaller ==
    /\ caller = "await"
    /\ outcome' = <<"destroyed", Nobody>>
    /\ \/ /\ ~Contains(ready, Caller)
          /\ caller' = "left"
          /\ Unwind(ready)
       \/ /\ Contains(ready, Caller)
          /\ caller' = "killed"
          /\ UNCHANGED <<taskVars, state, timer, timed_out, first>>

ReclaimCaller ==
    /\ Turn(Caller) /\ caller = "killed"
    /\ caller' = "left"
    /\ Unwind(Tail(ready))
    /\ UNCHANGED outcome

-----------------------------------------------------------------------------
(* wait_for_timer_impl                                                     *)

\* The first run: the timer sleeps.  It was queued before the child, so it runs
\* before anything can cancel it.
TimerStarts ==
    /\ Turn(Timer) /\ timer = "new"
    /\ timer' = "sleep" /\ ready' = Tail(ready)
    /\ UNCHANGED <<monVars, kidVars, cont, cancelled, caller, state, timed_out, outcome, first>>

\* The deadline passes.
TimerExpires ==
    /\ timer = "sleep" /\ ~Contains(ready, Timer)
    /\ ready' = Append(ready, Timer)
    /\ first' = IF first = Nobody THEN "deadline" ELSE first
    /\ UNCHANGED <<monVars, kidVars, cont, cancelled, caller, state, timer, timed_out, outcome>>

\* sleep() returns and the Task is cancelled, unless the timer is.
TimerFires ==
    /\ Turn(Timer) /\ timer = "sleep"
    /\ timer' = "ended"
    /\ \/ /\ Timer \in cancelled
          /\ cancelled' = cancelled \ {Timer} /\ ready' = Tail(ready)
          /\ UNCHANGED timed_out
       \/ /\ Timer \notin cancelled
          /\ timed_out' = TRUE
          /\ cancelled' = IF kid[Arg] = "ended" THEN cancelled ELSE cancelled \cup {Kid(Arg)}
          /\ ready' = Scheduled(Tail(ready), WokenByCancel(Arg))
    /\ UNCHANGED <<monVars, kidVars, cont, caller, state, outcome, first>>

\* An abandoned timer is destroyed by the loop.
ReclaimTimer ==
    /\ Turn(Timer) /\ timer = "killed"
    /\ ready' = Tail(ready)
    /\ UNCHANGED <<monVars, kidVars, cont, cancelled, combVars>>

-----------------------------------------------------------------------------
(* gather_monitor, wait_tasks_monitor                                      *)

\* Is the caller notified by the completion of k?
Notifies(k) ==
    LET last == remaining = 1
    IN  CASE mode \in {"gather", "all"} -> last
          [] mode = "first" -> ~early_done
          [] mode = "exception" -> ~early_done /\ (last \/ result[k] # "ok")

\* complete()
Complete(k) ==
    /\ mon' = [mon EXCEPT ![k] = "done"]
    /\ remaining' = remaining - 1
    /\ first_exception' = IF result[k] # "ok" /\ first_exception = Nobody
                          THEN k ELSE first_exception
    /\ early_done' = (early_done \/ (mode \in {"first", "exception"} /\ Notifies(k)))
    /\ first_done' = IF mode = "first" /\ Notifies(k) THEN k ELSE first_done
    /\ LET wakes == Notifies(k) /\ registered
       IN  /\ registered' = (registered /\ ~wakes)
           /\ ready' = Scheduled(Tail(ready), IF wakes THEN <<Caller>> ELSE <<>>)

\* The monitor runs for the first time, or its child has ended.
RunMonitor(k) ==
    /\ Turn(Mon(k))
    /\ \/ /\ kid[k] = "none"
          /\ mon' = [mon EXCEPT ![k] = "first"]
          /\ Awaited(k, Mon(k), Tail(ready))
          /\ UNCHANGED <<remaining, result, order, state>>
       \/ kid[k] = "ended" /\ Complete(k) /\ UNCHANGED <<kidVars, cont>>
    /\ UNCHANGED <<mode, cancelled, caller, timer, timed_out, outcome, first>>

-----------------------------------------------------------------------------
CombInit ==
    /\ caller = "start" /\ registered = FALSE /\ first_exception = Nobody
    /\ early_done = FALSE /\ first_done = Nobody
    /\ timer = "none" /\ timed_out = FALSE /\ outcome = <<"none", Nobody>> /\ first = Nobody

CombResume ==
    \/ Call \/ CallCancelled \/ Resumed \/ ResumeCancelled \/ ReclaimCaller
    \/ TimerStarts \/ TimerFires \/ ReclaimTimer
    \/ \E k \in Kids : RunMonitor(k) \/ ((RunKid(k) \/ Reclaim(k)) /\ UNCHANGED combVars)

CombNext ==
    \/ CombResume \/ CancelCaller \/ DestroyCaller \/ TimerExpires
    \/ \E k \in Kids : KidWake(k) /\ UNCHANGED combVars

-----------------------------------------------------------------------------
(* Properties                                                              *)

AllEnded == \A k \in Kids : kid[k] = "ended"

\* The children whose exception comes first: the ones before k ended well.
FirstFailure(k) ==
    \E i \in DOMAIN order : /\ order[i] = k /\ result[k] # "ok"
                            /\ \A j \in 1..(i - 1) : result[order[j]] = "ok"

\* What the caller gets is what happened.  wait_for throws TimeoutError only if the
\* deadline passed before the caller was cancelled (catch at wait.hpp:91), and else
\* returns what its Task did.  gather and wait_tasks return when the mode says so,
\* with all results or with the exception that really came first; in FirstCompleted
\* the child that ended first, although others end before the caller is resumed.
OutcomeExact ==
    LET what == outcome[1]
        who == outcome[2]
    IN  /\ what = "timeout" => mode = "wait_for" /\ first = "deadline"
        /\ who # Nobody => kid[who] = "ended" /\ result[who] = what
        /\ mode = "first" /\ who # Nobody => who = order[1]
        /\ mode \in {"gather", "all"} /\ who # Nobody => AllEnded
        /\ mode \in {"gather", "all", "exception"} =>
             /\ what = "ok" => AllEnded /\ \A k \in Kids : result[k] = "ok"
             /\ who # Nobody => FirstFailure(who)

\* wait_for that throws TimeoutError has waited for the Task it cancelled ("超时先
\* cancel 再等它退出").
TimeoutWaits == outcome[1] = "timeout" => \A k \in Kids : kid[k] \in {"none", "ended"}

\* Nobody touches a caller that is gone: it is not in the ready queue, not
\* registered in the shared state and not the continuation of a child, and no timer
\* is left that would use the pointer to its Task.
NoLateTouch ==
    caller = "left" =>
        /\ ~Contains(ready, Caller) /\ ~registered
        /\ \A k \in Kids : cont[k] # Caller
        /\ timer \in {"new", "sleep"} => Timer \in cancelled

\* The caller may be let go.
Due ==
    CASE mode \in {"gather", "all"} -> AllEnded
      [] mode = "first" -> order # <<>>
      [] mode = "exception" -> AllEnded \/ \E k \in Kids : FirstFailure(k)
      [] OTHER -> TRUE

\* A caller that may go, goes; wait_for always does, with its deadline.  The children
\* of a gather that was cancelled or destroyed come to their end.
Settles ==
    /\ (mode # "group" /\ caller = "await" /\ Due) ~> caller # "await"
    /\ (mode = "gather" /\ caller = "left")
          ~> \A k \in Kids : kid[k] = "ended" \/ mon[k] = "none"

=============================================================================
