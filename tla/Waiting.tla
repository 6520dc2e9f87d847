------------------------------ MODULE Waiting ------------------------------
(***************************************************************************)
(* What the primitives whose waiters may be woken from other threads have  *)
(* in common: coroutines on loops, the loop's ready queue, the identity    *)
(* (epoch) of a wait, cancellation and abandoned frames, as the module     *)
(* Frames models them for one loop.  Frames are not reused here.           *)
(*                                                                         *)
(* A call is a list of instructions, prog[l], one for each critical        *)
(* section of a mutex; the threads of other loops run between any two of   *)
(* them.  A loop resumes its next coroutine when its list is empty.  A     *)
(* coroutine in state "run" is running, or suspended in something else.    *)
(* Every thread that calls a primitive is the thread of some loop.         *)
(***************************************************************************)
EXTENDS ReadyQueue

CONSTANTS Coros, Loops,
          Homes,          \* the ways the coroutines may be spread over the loops
          MaxWait         \* bound on the waits of one coroutine

ASSUME WaitingAssumption ==
    /\ IsFiniteSet(Loops) /\ Homes \subseteq [Coros -> Loops]
    /\ MaxWait \in Nat

VARIABLES home,       \* the loop of each coroutine: chosen once
          st,         \* "run", "gone", or the wait the coroutine is suspended in
          ready,      \* the ready queue of each loop, these coroutines only
          prog,       \* the rest of the call in progress on each loop
          epoch,      \* FrameState::wait_epoch
          waits,      \* waits begun: epochs of different frames are not compared
          cancelled,  \* promise.cancelled_
          abandoned   \* abandoned_handles_

Active == {home[c] : c \in Coros}

frames == <<home, st, epoch, waits, cancelled, abandoned>>

Idle(l) == prog[l] = <<>>
Then(l, is) == prog' = [prog EXCEPT ![l] = is]
At(l, op) == prog[l] # <<>> /\ Head(prog[l])[1] = op
Arg(l) == Head(prog[l])[2]
Rest(l) == Tail(prog[l])

\* c makes its next call
Calls(c) == st[c] = "run" /\ Idle(home[c])
Suspended(c) == st[c] \notin {"run", "gone"}

\* A waiter is <<coroutine, epoch>> (sync_waiter); erased by handle.
erase_waiter(s, c) == Filtered(s, {w \in ToSet(s) : w[1] # c})

begin_wait(c) ==
    /\ waits[c] < MaxWait
    /\ waits' = [waits EXCEPT ![c] = @ + 1]
    /\ epoch' = [epoch EXCEPT ![c] = waits[c] + 1]

Queued(c) == c \in ToSet(ready[home[c]])

\* EventLoop::schedule: into the queue, unless there already or finished
Reserve(c, may) ==
    ready' = IF may /\ st[c] # "gone" /\ ~Queued(c)
             THEN [ready EXCEPT ![home[c]] = Append(@, c)] ELSE ready

\* schedule_waiter / schedule_if_current, outside the primitive's lock
schedule_waiter(l) ==
    /\ At(l, "schedule")
    /\ Reserve(Arg(l)[1], epoch[Arg(l)[1]] = Arg(l)[2])
    /\ Then(l, Rest(l))
    /\ UNCHANGED frames

\* The batch loop takes the next entry of its ready queue.
Pop(l) ==
    /\ Idle(l) /\ ready[l] # <<>>
    /\ ready' = [ready EXCEPT ![l] = Tail(@)]
    /\ Then(l, <<<<"resume", Head(ready[l])>>>>)
    /\ UNCHANGED frames

\* ... and resumes it.  The wait ends normally, or with a CancelledError after
\* the awaiter's on_waiter_destroyed (unwind), or the abandoned frame is
\* destroyed, which runs on_waiter_destroyed too.  deferred: the awaiter takes a
\* cancellation itself and ends as usual.
Returns(c, deferred) ==
    Suspended(c) /\ c \notin abandoned /\ (deferred \/ c \notin cancelled)

ResumeNext(l, deferred, unwind, returned) ==
    /\ At(l, "resume")
    /\ LET c == Arg(l) IN
       /\ epoch' = [epoch EXCEPT ![c] = IF Suspended(c) THEN 0 ELSE @]
       /\ cancelled' = IF Suspended(c) THEN cancelled \ {c} ELSE cancelled
       /\ abandoned' = abandoned \ {c}
       /\ st' = [st EXCEPT ![c] = IF c \in abandoned THEN "gone"
                                  ELSE IF @ = "gone" THEN @ ELSE "run"]
       /\ Then(l, IF Returns(c, deferred) THEN returned
                  ELSE IF Suspended(c) THEN unwind ELSE <<>>)
    /\ UNCHANGED <<home, ready, waits>>

\* Task::cancel of a suspended coroutine, on its loop: the flag and a wake-up,
\* or, where the awaiter takes the cancellation (deferred), its hook.
Cancel(c, deferred, hook) ==
    /\ Idle(home[c]) /\ Suspended(c) /\ c \notin abandoned
    /\ cancelled' = cancelled \cup {c}
    /\ IF deferred THEN Then(home[c], hook) /\ UNCHANGED ready
                   ELSE Reserve(c, TRUE) /\ UNCHANGED prog
    /\ UNCHANGED <<home, st, epoch, waits, abandoned>>

\* ~Task of a suspended coroutine: a scheduled frame is left to the loop, another
\* is destroyed now.
Destroy(c, unwind) ==
    /\ Idle(home[c]) /\ Suspended(c) /\ c \notin abandoned
    /\ IF Queued(c)
       THEN abandoned' = abandoned \cup {c} /\ UNCHANGED <<st, epoch, prog>>
       ELSE /\ st' = [st EXCEPT ![c] = "gone"]
            /\ epoch' = [epoch EXCEPT ![c] = 0]
            /\ Then(home[c], unwind)
            /\ UNCHANGED abandoned
    /\ UNCHANGED <<home, ready, waits, cancelled>>

WaitingInit(cast) ==
    /\ home \in Homes
    /\ st = [c \in Coros |-> IF c \in cast THEN "run" ELSE "gone"]
    /\ ready = [l \in Loops |-> <<>>] /\ prog = [l \in Loops |-> <<>>]
    /\ epoch = [c \in Coros |-> 0] /\ waits = [c \in Coros |-> 0]
    /\ cancelled = {} /\ abandoned = {}

Waiter == Coros \X (1..MaxWait)

WaitingTypeOK ==
    /\ home \in Homes
    /\ ready \in [Loops -> Seq(Coros)]
    /\ \A l \in Loops : \A c \in ToSet(ready[l]) : home[c] = l
    /\ epoch \in [Coros -> 0..MaxWait] /\ waits \in [Coros -> 0..MaxWait]
    /\ cancelled \subseteq Coros /\ abandoned \subseteq Coros

=============================================================================
