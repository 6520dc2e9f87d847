------------------------------- MODULE Scopes -------------------------------
(***************************************************************************)
(* The combinators of Tasks, one at a time: a TaskGroup (Group), or one of *)
(* wait_for, gather and wait_tasks (Combinators).                          *)
(***************************************************************************)
EXTENDS Group, Combinators

vars == <<taskVars, groupVars, combVars>>

Init ==
    /\ mode \in Modes \cup {"group"}
    /\ ready = IF mode = "group" THEN <<>> ELSE <<Caller>>
    /\ TasksInit /\ GroupInit /\ CombInit

Resume ==
    \/ mode = "group" /\ GroupResume /\ UNCHANGED combVars
    \/ mode # "group" /\ CombResume /\ UNCHANGED groupVars

Next ==
    \/ mode = "group" /\ GroupNext /\ UNCHANGED combVars
    \/ mode # "group" /\ CombNext /\ UNCHANGED groupVars

Spec == Init /\ [][Next]_vars

\* A clean-up that the child awaits ends.
CleanUp(k) ==
    kid[k] = "cleanup" /\ KidWake(k) /\ UNCHANGED <<groupVars, combVars>>

\* The loop keeps running, an asynchronous clean-up comes to its end, and time
\* passes.  What else a child waits for may never happen.
Fairness ==
    /\ WF_vars(Resume)
    /\ \A k \in Kids : WF_vars(CleanUp(k))
    /\ WF_vars(TimerExpires /\ UNCHANGED groupVars)

FairSpec == Spec /\ Fairness

-----------------------------------------------------------------------------
TypeOK ==
    /\ mode \in Modes \cup {"group"}
    /\ ToSet(ready) \subseteq {Parent, Caller, Timer} \cup {Mon(k) : k \in Kids}
                                  \cup {Kid(k) : k \in Kids}
    /\ kid \in [Kids -> {"none", "queued", "wait", "cleanup", "ended", "killed"}]
    /\ result \in [Kids -> {"none", "ok", "failed", "cancelled"}]
    /\ mon \in [Kids -> {"none", "new", "first", "second", "done"}]
    /\ remaining \in 0..Cardinality(Kids) /\ cancels \in 0..MaxCancels
    /\ parent \in {"body", "wait", "returned", "gone"}
    /\ phase \in {"open", "closing", "finished"}
    /\ ToSet(monitors) \subseteq Kids /\ ToSet(order) \subseteq Kids
    /\ exceptions \cup reported \cup twice \subseteq Kids
    /\ {failing, waiter, doomed, registered, early_done, timed_out} \subseteq BOOLEAN
    /\ caller \in {"start", "await", "killed", "left"}
    /\ timer \in {"none", "new", "sleep", "ended", "killed"}
    /\ {first_exception, first_done} \subseteq Kids \cup {Nobody}

=============================================================================
