----------------------------- MODULE Primitives -----------------------------
(***************************************************************************)
(* Coroutines that use a Lock with its Condition, a Semaphore, an Event    *)
(* and Futures, in any order.  What the primitives share is the frame of   *)
(* the waiter: its one entry in the ready queue and the epoch of its       *)
(* current wait.  A notification by one primitive may therefore arrive     *)
(* when the coroutine already waits for another.                           *)
(***************************************************************************)
EXTENDS Lock, Semaphore, Event, Future

\* Programs: the coroutines (cast) and the primitives they use (uses).
CONSTANT Programs

ASSUME ProgramsAssumption ==
    \A p \in Programs : /\ p.cast \subseteq Coros
                        /\ p.uses \subseteq {"lock", "semaphore", "event", "future"}

VARIABLE program      \* chosen once

vars == <<program, frames, ready, prog, lockVars, semVars, eventVars, futVars>>

\* A step of one primitive leaves the others alone.
OnLock == UNCHANGED <<program, semVars, eventVars, futVars>>
OnSemaphore == UNCHANGED <<program, lockVars, eventVars, futVars>>
OnEvent == UNCHANGED <<program, lockVars, semVars, futVars>>
OnFuture == UNCHANGED <<program, lockVars, semVars, eventVars>>
OnFrames == UNCHANGED <<program, lockVars, semVars, eventVars, futVars>>

\* on_waiter_destroyed of the awaiter that c is suspended in
Unwind(c) ==
    CASE st[c] = "acquire" -> <<<<"sem_remove", c>>>>
      [] st[c] = "wait"    -> <<<<"event_erase", c>>>>
      [] st[c] = "await"   -> <<<<"future_erase", c>>>>
      [] OTHER             -> LockUnwind(c)

\* ... and the Guards in the frame, when the frame is destroyed
Destroyed(c) ==
    Unwind(c) \o (IF c \in inside THEN <<<<"sem_guard", c>>>> ELSE <<>>)
              \o [i \in 1..holds[c] |-> <<"scope", c>>]

ResumeWaiter(l) ==
    /\ At(l, "resume")
    /\ LET c == Arg(l)
           returns(s) == st[c] \in s /\ Returns(c, ThrowsLate(c)) IN
       /\ ResumeNext(l, ThrowsLate(c),
                     IF c \in abandoned THEN Destroyed(c) ELSE Unwind(c), <<>>)
       /\ IF returns({"lock", "cond"}) THEN LockReturned(c) ELSE UNCHANGED lockVars
       /\ IF returns({"acquire"}) THEN SemReturned(c) ELSE UNCHANGED semVars
       /\ IF returns({"await"}) THEN AwaitReturned(c) ELSE UNCHANGED futVars
    /\ UNCHANGED <<program, eventVars>>

PopNext(l) == Pop(l) /\ OnFrames

\* The steps of the loops' threads
LoopStep(l) ==
    \/ ResumeWaiter(l) \/ PopNext(l)
    \/ schedule_waiter(l) /\ OnFrames
    \/ LockStep(l) /\ OnLock
    \/ SemStep(l) /\ OnSemaphore
    \/ EventStep(l) /\ OnEvent
    \/ FutureStep(l) /\ OnFuture

Uses(primitive) == primitive \in program.uses

\* Somebody calls: notify(), release(), set(), clear(), a Promise
Signal(l) ==
    \/ Uses("lock") /\ OnLock /\ \E all \in BOOLEAN : CondNotify(l, all)
    \/ Uses("semaphore") /\ OnSemaphore /\ SemPost(l)
    \/ Uses("event") /\ OnEvent /\ (EventSet(l) \/ EventClear)
    \/ Uses("future") /\ OnFuture /\ \E f \in Futures : Produce(l, f)

Call(c) ==
    \/ Uses("lock") /\ OnLock /\ LockCall(c)
    \/ Uses("semaphore") /\ OnSemaphore /\ SemCall(c)
    \/ Uses("event") /\ OnEvent /\ EventWait(c)
    \/ Uses("future") /\ OnFuture /\ \E f \in Futures : Await(c, f)

End(c) ==
    /\ Cancel(c, TakesCancel(c), OnCancel(c)) \/ Destroy(c, Destroyed(c))
    /\ OnFrames

Init ==
    /\ program \in Programs
    /\ WaitingInit(program.cast)
    /\ LockInit /\ SemInit /\ EventInit /\ FutureInit

Next ==
    \/ \E l \in Active : LoopStep(l) \/ Signal(l)
    \/ \E c \in Coros : Call(c) \/ End(c)

Spec == Init /\ [][Next]_vars

\* The loops keep running, every Promise is destroyed at last, and locks and
\* permits are given back (strong: the loop may be busy whenever the holder wants
\* to).
Fairness ==
    /\ \A l \in Loops : WF_vars(l \in Active /\ LoopStep(l)) /\ SF_vars(l \in Active /\ PopNext(l))
    /\ \A n \in 1..MaxHold : SF_vars(\E c \in Coros : holds[c] = n /\ LockRelease(c) /\ OnLock)
    /\ SF_vars(\E c \in Coros : SemRelease(c) /\ OnSemaphore)
    /\ \A f \in Futures : SF_vars(\E l \in Active : Uses("future") /\ DropPromise(l, f) /\ OnFuture)

FairSpec == Spec /\ Fairness

-----------------------------------------------------------------------------
(* Properties.                                                             *)

TypeOK ==
    /\ program \in Programs
    /\ WaitingTypeOK /\ LockTypeOK /\ SemTypeOK /\ EventTypeOK /\ FutureTypeOK
    /\ st \in [Coros -> {"run", "lock", "cond", "acquire", "wait", "await", "gone"}]

\* c is on its way out of a wait that was cancelled.
Escaping(c) == c \in cancelled \/ (st[c] = "run" /\ <<"future_erase", c>> \in ToSet(prog[home[c]]))

\* The thread of l has chosen c from a wait list, or is about to go through the
\* list, and has not woken it yet.
Notifying(l, c) ==
    \E i \in ToSet(prog[l]) :
        \/ i \in {<<"schedule", <<c, epoch[c]>>>>, <<"hand_off", <<c, epoch[c]>>>>}
        \/ i = <<"future_notify", on[c]>> /\ c \in ToSet(futWaiters[on[c]])

\* The one race the primitives do not survive, left out: a coroutine that is
\* cancelled on its loop while the thread of another is notifying it.
Unraced == \A c \in Coros : Escaping(c) => \A l \in Loops : Notifying(l, c) => l = home[c]

\* A wait returns only for what was waited for: acquire() with the lock or with a
\* permit given to this coroutine by name, Condition::wait with the lock, Event
\* wait() after a set() since it began, an await with the result there.  No
\* notification meant for an earlier wait, of the same or of another primitive,
\* ends a later one.
ReturnsForReason ==
    [][\A c \in Coros :
          Suspended(c) /\ st'[c] = "run" /\ c \notin cancelled =>
              /\ st[c] \in {"lock", "cond"} => owner = c
              /\ st[c] = "acquire" => c \in reserved
              /\ st[c] = "wait" => since[c] < sets
              /\ st[c] = "await" => fready(on[c])]_vars

\* No signal is missed: nobody is queued on a semaphore with a permit free, on an
\* event that is set, or on a future that has its result, unless the call that
\* will wake them is in progress; and whoever waits for a condition is where the
\* next notify() finds it from the moment the lock is free for others.
NoMissedSignal == NoIdlePermit /\ NobodyQueuedOnSet /\ NoLostResult /\ NoMissedNotify

Holds(c) == holds[c] > 0 \/ c \in inside

\* What c waits for will come: somebody has the lock or the permit, a Promise is
\* destroyed at last, set() has been called, or c is cancelled.
Due(c) ==
    \/ st[c] \in {"lock", "acquire", "await"}
    \/ st[c] = "wait" /\ since[c] < sets
    \/ Suspended(c) /\ c \in cancelled

\* No wake-up is lost on the way to the waiter: whoever is due returns, is
\* cancelled or is destroyed, as long as no holder of a lock or permit waits for
\* ever for something else; even if clear() follows set() at once, and a
\* cancelled Condition::wait whether or not anybody notifies.
EveryWaitEnds ==
    []<>(\A d \in Coros : ~(Holds(d) /\ Suspended(d))) =>
        \A c \in Coros : Due(c) ~> ~Due(c)

=============================================================================
