------------------------------- MODULE Group -------------------------------
(***************************************************************************)
(* coro::TaskGroup (include/coro/task_group.hpp).                          *)
(*                                                                         *)
(* A child runs under a monitor coroutine that awaits it, reports its      *)
(* failure and, when the monitor is cancelled, cancels the child and       *)
(* awaits it a second time.  wait() returns when the last monitor has      *)
(* completed.                                                              *)
(***************************************************************************)
EXTENDS Tasks

CONSTANT MaxCancels   \* bound on the calls of cancel(), on the group or the parent

ASSUME GroupAssumption == MaxCancels \in Nat

VARIABLES parent,     \* the coroutine that owns the group
          phase,      \* open, closing, finished
          monitors,   \* monitors
          exceptions, \* exceptions: the children they are of
          failing,    \* cancel_requested
          waiter,     \* TRUE: waiter is set
          doomed,     \* TRUE: the parent was cancelled before its first run
          cancels,    \* calls of cancel() so far
          reported,   \* history: what wait() threw as ExceptionGroup
          twice       \* history: children whose monitor was cancelled a second time

group == <<phase, monitors, exceptions, failing, waiter>>
groupVars == <<parent, group, doomed, cancels, reported, twice>>

Parent == <<"parent">>

-----------------------------------------------------------------------------
(* Task::cancel of monitors.                                               *)

\* The monitors among ks that have not ended; the ones that are suspended are
\* scheduled, one that has not run yet is in the queue.
Live(ks) == Filtered(ks, {k \in Kids : mon[k] # "done"})

CancelMons(rest, ks) ==
    /\ cancelled' = cancelled \cup ToSet(MonsOf(Live(ks)))
    /\ ready' = Scheduled(rest, MonsOf(Live(ks)))

-----------------------------------------------------------------------------
(* The parent.                                                             *)

spawn(k) ==
    /\ parent = "body" /\ phase = "open" /\ mon[k] = "none"
    /\ monitors' = Append(monitors, k) /\ remaining' = remaining + 1
    /\ mon' = [mon EXCEPT ![k] = "new"]
    /\ ready' = Append(ready, Mon(k))
    /\ UNCHANGED <<mode, parent, phase, exceptions, failing, waiter, kidVars, cont,
                   cancelled, doomed, cancels, reported, twice>>

\* wait_awaiter::await_resume, and what follows it in the parent.
WaitReturns ==
    /\ parent' = "returned" /\ phase' = "finished" /\ waiter' = FALSE
    /\ reported' = exceptions /\ exceptions' = {}
    /\ UNCHANGED <<monVars, monitors, failing, kidVars, cont, cancels, twice>>

\* co_await wait(): returns at once if nothing is left, else the parent is
\* suspended.
wait ==
    /\ parent = "body" /\ ~doomed
    /\ \/ remaining = 0 /\ WaitReturns
       \/ /\ remaining # 0
          /\ parent' = "wait" /\ phase' = "closing" /\ waiter' = TRUE
          /\ UNCHANGED <<monVars, monitors, exceptions, failing, kidVars, cont, cancels,
                         reported, twice>>
    /\ UNCHANGED <<ready, cancelled, doomed>>

\* The pending cancellation ends the wait before it starts; ~TaskGroup follows.
WaitDoomed ==
    /\ parent = "body" /\ doomed
    /\ WaitReturns
    /\ doomed' = FALSE
    /\ CancelMons(ready, monitors)

\* TaskGroup::cancel(), by anybody; Task::cancel of the parent in wait(), which
\* stays suspended (on_cancel_requested).
cancel ==
    /\ parent \in {"body", "wait"} /\ cancels < MaxCancels
    /\ cancels' = cancels + 1
    /\ phase' = IF phase = "open" THEN "closing" ELSE phase
    /\ CancelMons(ready, monitors)
    /\ UNCHANGED <<monVars, parent, monitors, exceptions, failing, waiter, kidVars,
                   cont, doomed, reported, twice>>

\* ~TaskGroup without wait(), or the parent's frame is destroyed in wait()
\* (on_waiter_destroyed, then ~TaskGroup): the children are only cancelled.
Leave ==
    /\ parent \in {"body", "wait"}
    /\ parent' = "gone" /\ waiter' = FALSE /\ doomed' = FALSE
    /\ CancelMons(RemoveFirst(ready, Parent), monitors)
    /\ UNCHANGED <<monVars, phase, monitors, exceptions, failing, kidVars, cont,
                   cancels, reported, twice>>

\* The loop resumes the parent.
Return ==
    /\ Turn(Parent)
    /\ ready' = Tail(ready)
    /\ WaitReturns
    /\ UNCHANGED <<cancelled, doomed>>

-----------------------------------------------------------------------------
(* The monitor.                                                            *)

\* complete(): the last one clears the table and wakes the parent.  The child's
\* Task goes with the monitor: a child that has not ended is destroyed, or left
\* for the loop to destroy if it is in the ready queue.
complete(k, rest) ==
    /\ mon' = [mon EXCEPT ![k] = "done"]
    /\ remaining' = remaining - 1
    /\ monitors' = IF remaining = 1 THEN <<>> ELSE monitors
    /\ waiter' = (waiter /\ remaining # 1)
    /\ ready' = Scheduled(rest, IF waiter /\ remaining = 1 THEN <<Parent>> ELSE <<>>)
    /\ cont' = [cont EXCEPT ![k] = <<>>]
    /\ UNCHANGED mode

\* Mutant: a monitor cancelled before its first run returns without complete().
SkipsQuietly(k) ==
    /\ Turn(Mon(k)) /\ mon[k] = "new" /\ Mon(k) \in cancelled
    /\ cancelled' = cancelled \ {Mon(k)}
    /\ Ends(k, "cancelled")
    /\ mon' = [mon EXCEPT ![k] = "done"]
    /\ ready' = Tail(ready)
    /\ UNCHANGED <<mode, remaining, parent, group, cont, doomed, cancels, reported, twice>>

\* The first run: the child is started and awaited.  If the monitor has been
\* cancelled already, the child never starts.
MonitorStarts(k) ==
    /\ Turn(Mon(k)) /\ mon[k] = "new" /\ Mon(k) \notin cancelled
    /\ mon' = [mon EXCEPT ![k] = "first"]
    /\ Awaited(k, Mon(k), Tail(ready))
    /\ UNCHANGED <<mode, remaining, result, order, cancelled>>
    /\ UNCHANGED groupVars

MonitorSkips(k) ==
    /\ Turn(Mon(k)) /\ mon[k] = "new" /\ Mon(k) \in cancelled
    /\ cancelled' = cancelled \ {Mon(k)}
    /\ Ends(k, "cancelled")
    /\ complete(k, Tail(ready))
    /\ UNCHANGED <<parent, phase, exceptions, failing, doomed, cancels, reported, twice>>

\* Mutant: once it has cancelled the child, the monitor does not wait for it.
ForwardOnly(k) ==
    /\ Turn(Mon(k)) /\ mon[k] = "first" /\ Mon(k) \in cancelled
    /\ kid[k] # "ended"
    /\ cancelled' = (cancelled \ {Mon(k)}) \cup {Kid(k)}
    /\ kid' = Destroyed(k)
    /\ complete(k, Tail(ready))
    /\ UNCHANGED <<parent, phase, exceptions, failing, result, order, doomed, cancels,
                   reported, twice>>

\* The first await ends with a CancelledError: the child is cancelled and awaited
\* again.
MonitorForwards(k) ==
    /\ Turn(Mon(k)) /\ mon[k] = "first" /\ Mon(k) \in cancelled
    /\ kid[k] # "ended"
    /\ cancelled' = (cancelled \ {Mon(k)}) \cup {Kid(k)}
    /\ ready' = Scheduled(Tail(ready), WokenByCancel(k))
    /\ mon' = [mon EXCEPT ![k] = "second"]
    /\ cont' = [cont EXCEPT ![k] = Mon(k)]
    /\ UNCHANGED <<mode, remaining, kidVars>>
    /\ UNCHANGED groupVars

\* Mutant: an exception met by the second await is not kept.
FailureKept(k) ==
    IF result[k] = "failed" /\ mon[k] = "first" /\ Mon(k) \notin cancelled
    THEN exceptions \cup {k} ELSE exceptions

\* record_failure, record_exception: not if a CancelledError ends the second await.
Failures(k) ==
    IF result[k] = "failed" /\ ~(mon[k] = "second" /\ Mon(k) \in cancelled)
    THEN exceptions \cup {k} ELSE exceptions

\* The first failure that the first await meets cancels the other monitors.
Fails(k) == mon[k] = "first" /\ Mon(k) \notin cancelled /\ result[k] = "failed"

\* The monitor has seen the end of its child, or takes a second cancellation for
\* it.
MonitorEnds(k) ==
    /\ Turn(Mon(k))
    /\ \/ mon[k] \in {"first", "second"} /\ kid[k] = "ended"
       \/ mon[k] = "second" /\ Mon(k) \in cancelled
    /\ exceptions' = Failures(k)
    /\ phase' = IF Fails(k) /\ phase = "open" THEN "closing" ELSE phase
    /\ failing' = (failing \/ Fails(k))
    /\ LET others == IF Fails(k) /\ ~failing THEN Filtered(Live(monitors), Kids \ {k}) ELSE <<>>
       IN  /\ cancelled' = (cancelled \ {Mon(k)}) \cup ToSet(MonsOf(others))
           /\ complete(k, Scheduled(Tail(ready), MonsOf(others)))
    /\ kid' = Destroyed(k)
    /\ twice' = IF mon[k] = "second" /\ Mon(k) \in cancelled THEN twice \cup {k} ELSE twice
    /\ UNCHANGED <<parent, result, order, doomed, cancels, reported>>

-----------------------------------------------------------------------------
GroupInit ==
    /\ parent = "body" /\ doomed \in {FALSE, mode = "group"}
    /\ phase = "open" /\ monitors = <<>> /\ exceptions = {}
    /\ failing = FALSE /\ waiter = FALSE
    /\ cancels = 0 /\ reported = {} /\ twice = {}

\* One resumption.  A parent that was cancelled before its first run reaches wait()
\* without a suspension: nothing runs before it.
GroupResume ==
    /\ ~doomed
    /\ \/ Return
       \/ \E k \in Kids :
            \/ MonitorStarts(k) \/ MonitorSkips(k) \/ MonitorForwards(k) \/ MonitorEnds(k)
            \/ (RunKid(k) \/ Reclaim(k)) /\ UNCHANGED groupVars

GroupNext ==
    \/ wait \/ WaitDoomed \/ cancel \/ Leave \/ GroupResume
    \/ \E k \in Kids : spawn(k) \/ (KidWake(k) /\ UNCHANGED groupVars)

-----------------------------------------------------------------------------
(* Properties                                                              *)

\* Structured concurrency (task_group_wait_awaiter, monitor): when wait() has
\* returned, by the end of the children, a failure or a cancellation, every child
\* that started has run to its end, clean-up included, unless its monitor was
\* cancelled twice.
ScopeOutlivesKids ==
    parent = "returned" =>
        \A k \in Kids : \/ kid[k] \in {"none", "ended"}
                        \/ kid[k] = "killed" /\ k \in twice

\* The same of on_cancel_requested and of every further cancel(): the barrier holds
\* until the last child has cleaned up ("取消也要等清理").
CleanUpAwaited ==
    parent = "returned" => \A k \in Kids : kid[k] \in {"none", "ended"}

\* record_failure, record_exception: wait() throws the exception of every child
\* that failed, the ones that failed while they were being cancelled included,
\* unless a second cancellation of the monitor took its place.
FailuresReported ==
    parent = "returned" =>
        \A k \in Kids : result[k] = "failed" => k \in reported \cup twice

\* wait() throws an ExceptionGroup whenever a child failed ("有失败 → 抛
\* ExceptionGroup").
FailureThrown ==
    parent = "returned" /\ (\E k \in Kids : result[k] = "failed") => reported # {}

\* A group that is cancelled, or has a child that failed, lets its parent go.
Drains == (parent = "wait" /\ (failing \/ cancels > 0)) ~> parent # "wait"

=============================================================================
