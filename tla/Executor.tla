------------------------------ MODULE Executor ------------------------------
(***************************************************************************)
(* What a thread pool promises (include/coro/thread.hpp): a job that is    *)
(* handed to it is accepted or refused at once; accepted jobs start in the *)
(* order of their acceptance, at most Size at a time, and each runs once;  *)
(* whoever gave it learns the outcome; stopping returns when every         *)
(* accepted job has run, and nothing is accepted after it began.           *)
(***************************************************************************)
EXTENDS Integers, Sequences, FiniteSets

CONSTANTS Jobs, Size

VARIABLES queue,      \* jobs accepted and not started
          busy,       \* jobs that run
          answer,     \* what the giver of each job has learned
          gate        \* "open", "closing", "closed"

vars == <<queue, busy, answer, gate>>

Fresh(j) ==
    answer[j] = "none" /\ j \notin busy /\ \A i \in DOMAIN queue : queue[i] # j

Init ==
    /\ queue = <<>> /\ busy = {} /\ gate = "open"
    /\ answer = [j \in Jobs |-> "none"]

Accept(j) ==
    /\ gate = "open" /\ Fresh(j)
    /\ queue' = Append(queue, j)
    /\ UNCHANGED <<busy, answer, gate>>

Refuse(j) ==
    /\ Fresh(j)
    /\ answer' = [answer EXCEPT ![j] = "overload"]
    /\ UNCHANGED <<queue, busy, gate>>

Begin ==
    /\ queue # <<>> /\ Cardinality(busy) < Size
    /\ queue' = Tail(queue) /\ busy' = busy \cup {Head(queue)}
    /\ UNCHANGED <<answer, gate>>

Finish(j) ==
    /\ j \in busy
    /\ busy' = busy \ {j}
    /\ \E a \in {"value", "exception"} : answer' = [answer EXCEPT ![j] = a]
    /\ UNCHANGED <<queue, gate>>

Close ==
    /\ gate = "open"
    /\ gate' = "closing"
    /\ UNCHANGED <<queue, busy, answer>>

Closed ==
    /\ gate = "closing" /\ queue = <<>> /\ busy = {}
    /\ gate' = "closed"
    /\ UNCHANGED <<queue, busy, answer>>

Next ==
    \/ Begin \/ Close \/ Closed
    \/ \E j \in Jobs : Accept(j) \/ Refuse(j) \/ Finish(j)

Spec == Init /\ [][Next]_vars

=============================================================================
