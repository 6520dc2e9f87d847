------------------------------ MODULE TaskProofs ------------------------------
(***************************************************************************)
(* Theorems about a task's frame and about the end of a task.              *)
(*                                                                         *)
(* Frames, for any addresses, any number of frames and of waits: no entry  *)
(* of the ready queue resumes another frame than the one it was made for,  *)
(* an abandoned frame is always reclaimed, and without notifications from  *)
(* other threads no wait list, timer or operation outlives its wait.       *)
(*                                                                         *)
(* Scheduler, for any number of tasks, workers and joiners: what the       *)
(* counters count, and from it what join() and wait_all() may conclude     *)
(* when they find them at zero.                                            *)
(***************************************************************************)
EXTENDS Frames, Scheduler, TLAPS, FiniteSetTheorems, SequenceTheorems

-----------------------------------------------------------------------------
(* The inductive invariant.                                                *)

\* The registry and the allocator agree about which frames exist.
Registered ==
    \A h \in Addrs : /\ live[h] = alloc[h] /\ alloc[h] <= nextgen
                     /\ alloc[h] = 0 <=> st[h] = "free"

\* From the pop to the next suspension the loop is on an existing frame, which
\* nobody else abandons once its body runs.
OnItsFrame ==
    /\ pc = "idle" => cur = NoEntry
    /\ pc # "idle" => cur \in Entry /\ alloc[cur.h] = cur.generation
    /\ pc = "body" => st[cur.h] = "run" /\ cur.h \notin abandoned

\* A Task owns an existing frame, an abandoned one has no Task, and a frame that
\* waits for the kernel is in its hands or on the way to be resumed.
Owned ==
    /\ tasks \cap abandoned = {}
    /\ \A h \in tasks : alloc[h] # 0
    /\ \A h \in Addrs : st[h] = "io" => h \in io \/ scheduled[h] \/ cur.h = h

\* The entry at place i is one of the frame that lives at its address now.
Current(i) == queue[i].generation = live[queue[i].h]

\* An existing frame has one entry at most, and then it is marked scheduled; an
\* entry of an earlier frame will never be current again.
Entries ==
    /\ \A i \in 1..Len(queue) : queue[i].generation <= nextgen
    /\ \A i \in 1..Len(queue) : Current(i) => scheduled[queue[i].h]
    /\ \A i, k \in 1..Len(queue) :
           Current(i) /\ Current(k) /\ queue[i].h = queue[k].h => i = k

\* Without other threads: whoever holds a frame holds it for the wait it is in,
\* and the entry that will resume it was made for that wait.
Held ==
    /\ \A w \in waiters : st[w[1]] = "wait" /\ wait[w[1]] = w[2]
    /\ \A t \in timers : st[t[1]] = "sleep" /\ alloc[t[1]] = t[2] /\ wait[t[1]] = t[3]
    /\ \A h \in io : st[h] = "io" /\ ~scheduled[h] /\ cur.h # h
RightWait ==
    \A i \in 1..Len(queue) :
        Current(i) /\ st[queue[i].h] = "wait" => queue[i].why = wait[queue[i].h]
Resumed ==
    /\ pc # "idle" => ~scheduled[cur.h]
    /\ RightWait
    /\ pc = "popped" /\ st[cur.h] = "wait" => cur.why = wait[cur.h]
OwnThread == ~foreign => Held /\ Resumed

FrameInv == Registered /\ OnItsFrame /\ Owned /\ AbandonedIsReclaimed
IInv == TypeOK /\ FrameInv /\ Entries /\ OwnThread

-----------------------------------------------------------------------------
(* The ready queue's operators.                                            *)

\* The queue has got the entry e at its end.
Appended(e) ==
    /\ queue' \in Seq(Entry) /\ Len(queue) \in Nat /\ Len(queue') = Len(queue) + 1
    /\ \A i \in 1..Len(queue') : \/ i \in 1..Len(queue) /\ queue'[i] = queue[i]
                                 \/ i = Len(queue) + 1 /\ queue'[i] = e

LEMMA AppendEntry ==
    ASSUME queue \in Seq(Entry), NEW e \in Entry, queue' = Append(queue, e)
    PROVE  Appended(e)
<1>1. /\ queue' \in Seq(Entry) /\ Len(queue') = Len(queue) + 1 /\ Len(queue) \in Nat
      /\ \A i \in 1..Len(queue) : queue'[i] = queue[i]
      /\ queue'[Len(queue) + 1] = e
  BY AppendProperties, LenProperties
<1>2. \A i \in 1..Len(queue') : i \in 1..Len(queue) \/ i = Len(queue) + 1
  BY <1>1
<1>3. QED
  BY <1>1, <1>2 DEF Appended

LEMMA TailEntries ==
    ASSUME queue \in Seq(Entry), queue # <<>>, queue' = Tail(queue)
    PROVE  /\ Head(queue) \in Entry /\ Head(queue) = queue[1] /\ 1 \in 1..Len(queue)
           /\ queue' \in Seq(Entry)
           /\ \A i \in 1..Len(queue') : i \in Nat /\ i + 1 \in 1..Len(queue)
                                        /\ i + 1 # 1 /\ queue'[i] = queue[i + 1]
<1>1. Len(queue) \in Nat \ {0} /\ Head(queue) = queue[1]
  BY EmptySeq, LenProperties
<1>2. /\ Head(queue) \in Entry /\ queue' \in Seq(Entry) /\ Len(queue') = Len(queue) - 1
      /\ \A i \in 1..Len(queue') : queue'[i] = queue[i + 1]
  BY HeadTailProperties
<1>3. QED
  BY <1>1, <1>2

\* An entry of the queue is well formed.
LEMMA EntryFields ==
    ASSUME queue \in Seq(Entry), NEW i \in 1..Len(queue)
    PROVE  /\ queue[i].h \in Addrs /\ queue[i].generation \in 1..MaxGen
           /\ queue[i].why \in 0..MaxWait
<1>1. queue[i] \in Entry
  BY ElementOfSeq
<1>2. QED
  BY <1>1 DEF Entry

\* schedule() and its like either change nothing, or mark an existing frame that
\* was not marked and put the only entry for it at the end of the queue.
LEMMA QueueGrows ==
    ASSUME TypeOK, NEW h \in Addrs, NEW may \in BOOLEAN, NEW why \in 0..MaxWait,
           may => try_reserve(h), Queue(h, may, why)
    PROVE  /\ queue' \in Seq(Entry) /\ scheduled' \in [Addrs -> BOOLEAN]
           /\ \/ ~may /\ UNCHANGED <<queue, scheduled>>
              \/ /\ may /\ live[h] # 0 /\ ~scheduled[h]
                 /\ scheduled' = [scheduled EXCEPT ![h] = TRUE]
                 /\ Appended([h |-> h, generation |-> live[h], why |-> why])
<1>1. CASE ~may
  <2>1. scheduled' = scheduled
    BY <1>1 DEF Queue, TypeOK
  <2>2. QED
    BY <1>1, <2>1 DEF Queue, TypeOK
<1>2. CASE may
  <2>1. live[h] # 0 /\ ~scheduled[h]
    BY <1>2 DEF try_reserve
  <2>2. scheduled' = [scheduled EXCEPT ![h] = TRUE]
    BY <1>2 DEF Queue, TypeOK
  <2>3. [h |-> h, generation |-> live[h], why |-> why] \in Entry
    BY <2>1 DEF TypeOK, Entry
  <2>4. Appended([h |-> h, generation |-> live[h], why |-> why])
    BY <1>2, <2>3, AppendEntry DEF Queue, TypeOK
  <2>5. QED
    BY <1>2, <2>1, <2>2, <2>4 DEF TypeOK, Appended
<1>3. QED
  BY <1>1, <1>2

\* An awaiter that ends its wait, a frame that is freed: what is left is well formed.
LEMMA EndWaitTypes ==
    ASSUME TypeOK, NEW h \in Addrs, EndWait(h)
    PROVE  /\ waiters' \subseteq Addrs \X (1..MaxWait)
           /\ timers' \subseteq Addrs \X (1..MaxGen) \X (1..MaxWait)
           /\ wait' \in [Addrs -> 0..MaxWait]
<1>1. 0 \in 0..MaxWait
  BY FramesAssumption
<1>2. waiters' \subseteq waiters /\ timers' \subseteq timers
  BY DEF EndWait
<1>3. QED
  BY <1>1, <1>2 DEF EndWait, TypeOK

LEMMA FreeTypes ==
    ASSUME TypeOK, NEW h \in Addrs, Free(h)
    PROVE  /\ alloc' \in [Addrs -> 0..MaxGen] /\ live' \in [Addrs -> 0..MaxGen]
           /\ scheduled' \in [Addrs -> BOOLEAN] /\ wait_epoch' \in [Addrs -> 0..MaxWait]
           /\ st' \in [Addrs -> {"free", "new", "run", "yield", "wait", "sleep", "io"}]
           /\ cancelled' \subseteq Addrs /\ tasks' \subseteq Addrs
<1>1. 0 \in 0..MaxWait /\ 0 \in 0..MaxGen
  BY FramesAssumption
<1>2. QED
  BY <1>1 DEF Free, TypeOK
-----------------------------------------------------------------------------
\* Every step keeps the types.
LEMMA TypeStep == ASSUME TypeOK, FrameInv, [Next]_vars PROVE TypeOK'
<1>1. ASSUME Pop, Same PROVE TypeOK'
  <2>1. queue' \in Seq(Entry) /\ Head(queue) \in Entry
    BY <1>1, TailEntries DEF Pop, TypeOK
  <2>2. Head(queue).h \in Addrs
    BY <2>1 DEF Entry
  <2>3. QED
    BY <1>1, <2>1, <2>2 DEF Pop, Same, TypeOK
<1>2. ASSUME Resume, Same PROVE TypeOK'
  <2>1. cur.h \in Addrs
    BY <1>2 DEF Resume, FrameInv, OnItsFrame, Entry
  <2>2. 0 \in 0..MaxWait
    BY FramesAssumption
  <2>3. QED
    BY <1>2, <2>1, <2>2, EndWaitTypes DEF Resume, Same, TypeOK
<1>3. ASSUME CleanupAbandoned, Same PROVE TypeOK'
  <2>1. cur.h \in Addrs
    BY <1>3 DEF CleanupAbandoned, FrameInv, OnItsFrame, Entry
  <2>2. QED
    BY <1>3, <2>1, EndWaitTypes, FreeTypes DEF CleanupAbandoned, Same, TypeOK
<1>4. ASSUME NEW h \in Addrs, Finish(h), Same PROVE TypeOK'
  BY <1>4, FreeTypes DEF Finish, Leave, Same, TypeOK
<1>5. ASSUME NEW h \in Addrs, Yield(h), Same PROVE TypeOK'
  <2>1. schedule(h) /\ wait[h] \in 0..MaxWait
    BY <1>5 DEF Yield, TypeOK
  <2>2. queue' \in Seq(Entry) /\ scheduled' \in [Addrs -> BOOLEAN]
    BY <2>1, QueueGrows DEF schedule, try_reserve
  <2>3. QED
    BY <1>5, <2>2 DEF Yield, MaySuspend, Leave, Same, TypeOK
<1>6. ASSUME NEW h \in Addrs, BeginWait(h), Same PROVE TypeOK'
  <2>1. nextwait + 1 \in 1..MaxWait
    BY <1>6, FramesAssumption DEF BeginWait, TypeOK
  <2>2. QED
    BY <1>6, <2>1 DEF BeginWait, MaySuspend, Leave, Same, TypeOK
<1>7. ASSUME NEW h \in Addrs, Sleep(h), Same PROVE TypeOK'
  <2>1. live[h] \in 1..MaxGen /\ nextwait + 1 \in 1..MaxWait
    BY <1>7, FramesAssumption DEF Sleep, MaySuspend, Leave, TypeOK, FrameInv, OnItsFrame,
                                 Registered, Entry
  <2>2. <<h, live[h], nextwait + 1>> \in Addrs \X (1..MaxGen) \X (1..MaxWait)
    BY <2>1
  <2>3. QED
    BY <1>7, <2>1, <2>2 DEF Sleep, MaySuspend, Leave, Same, TypeOK
<1>8. ASSUME NEW h \in Addrs, StartIo(h), Same PROVE TypeOK'
  <2>1. nextwait + 1 \in 1..MaxWait
    BY <1>8, FramesAssumption DEF StartIo, TypeOK
  <2>2. QED
    BY <1>8, <2>1 DEF StartIo, MaySuspend, Leave, Same, TypeOK
<1>9. ASSUME NEW h \in Addrs, Start(h), Same PROVE TypeOK'
  <2>1. nextgen + 1 \in 1..MaxGen /\ nextgen + 1 \in 0..MaxGen /\ live[h] = 0
    BY <1>9, FramesAssumption DEF Start, TypeOK, FrameInv, Registered
  <2>2. live' = [live EXCEPT ![h] = nextgen + 1]
    BY <1>9, <2>1 DEF Start, TypeOK
  <2>3. [h |-> h, generation |-> live'[h], why |-> 0] \in Entry
    BY <2>1, <2>2, FramesAssumption DEF Entry, TypeOK
  <2>4. queue' \in Seq(Entry)
    <3>1. CASE scheduled[h]
      BY <1>9, <3>1 DEF Start, TypeOK
    <3>2. CASE ~scheduled[h]
      BY <1>9, <3>2, <2>3, AppendProperties DEF Start, TypeOK
    <3>3. QED
      BY <3>1, <3>2
  <2>5. QED
    BY <1>9, <2>1, <2>2, <2>4 DEF Start, Same, TypeOK
<1>10. ASSUME NEW h \in Addrs, Cancel(h), Same PROVE TypeOK'
  <2>1. CASE Suspended(h) /\ st[h] # "io"
    <3>1. schedule(h) /\ wait[h] \in 0..MaxWait
      BY <1>10, <2>1 DEF Cancel, TypeOK
    <3>2. queue' \in Seq(Entry) /\ scheduled' \in [Addrs -> BOOLEAN]
      BY <3>1, QueueGrows DEF schedule, try_reserve
    <3>3. QED
      BY <1>10, <3>2 DEF Cancel, Same, TypeOK
  <2>2. CASE ~(Suspended(h) /\ st[h] # "io")
    BY <1>10, <2>2 DEF Cancel, Same, TypeOK
  <2>3. QED
    BY <2>1, <2>2
<1>11. ASSUME NEW h \in Addrs, Destroy(h), Same PROVE TypeOK'
  <2>1. CASE st[h] = "io" \/ scheduled[h]
    BY <1>11, <2>1 DEF Destroy, Same, TypeOK
  <2>2. CASE ~(st[h] = "io" \/ scheduled[h])
    BY <1>11, <2>2, EndWaitTypes, FreeTypes DEF Destroy, Same, TypeOK
  <2>3. QED
    BY <2>1, <2>2
<1>12. ASSUME NEW h \in Addrs, Detach(h), Same PROVE TypeOK'
  BY <1>12 DEF Detach, Same, TypeOK
<1>13. ASSUME NEW h \in Addrs, IoDone(h), Same PROVE TypeOK'
  <2>1. schedule(h) /\ wait[h] \in 0..MaxWait
    BY <1>13 DEF IoDone, TypeOK
  <2>2. queue' \in Seq(Entry) /\ scheduled' \in [Addrs -> BOOLEAN]
    BY <2>1, QueueGrows DEF schedule, try_reserve
  <2>3. QED
    BY <1>13, <2>2 DEF IoDone, Same, TypeOK
<1>14. ASSUME NEW w \in waiters, Notify(w[1], w[2]), Same PROVE TypeOK'
  <2>1. w[1] \in Addrs /\ w[2] \in 0..MaxWait
    BY DEF TypeOK
  <2>2. Queue(w[1], try_reserve_if_current(w[1], w[2]), w[2])
    BY <1>14 DEF Notify
  <2>3. queue' \in Seq(Entry) /\ scheduled' \in [Addrs -> BOOLEAN]
    BY <2>1, <2>2, QueueGrows DEF try_reserve_if_current, try_reserve
  <2>4. QED
    BY <1>14, <2>3 DEF Notify, Same, TypeOK
<1>15. ASSUME NEW t \in timers, Expire(t[1], t[2], t[3]), Same PROVE TypeOK'
  <2>1. t[1] \in Addrs /\ t[3] \in 0..MaxWait
    BY DEF TypeOK
  <2>2. Queue(t[1], live[t[1]] = t[2] /\ try_reserve(t[1]), t[3])
    BY <1>15 DEF Expire
  <2>3. queue' \in Seq(Entry) /\ scheduled' \in [Addrs -> BOOLEAN]
    BY <2>1, <2>2, QueueGrows DEF try_reserve
  <2>4. QED
    BY <1>15, <2>3 DEF Expire, Same, TypeOK
<1>16. ASSUME UNCHANGED vars PROVE TypeOK'
  BY <1>16 DEF vars, Same, TypeOK
<1>17. QED
  BY <1>1, <1>2, <1>3, <1>4, <1>5, <1>6, <1>7, <1>8, <1>9, <1>10, <1>11, <1>12, <1>13, <1>14, <1>15, <1>16
     DEF Next, LoopStep, BodyStep, TaskStep

-----------------------------------------------------------------------------
\* schedule() leaves every mark and marks an existing frame.
LEMMA ScheduleMarks ==
    ASSUME TypeOK, Registered, NEW h \in Addrs, schedule(h)
    PROVE  /\ \A k \in Addrs : scheduled[k] => scheduled'[k]
           /\ alloc[h] # 0 => scheduled'[h]
<1>1. scheduled' = [scheduled EXCEPT ![h] = scheduled[h] \/ try_reserve(h)]
  BY DEF schedule, Queue
<1>2. scheduled'[h] <=> scheduled[h] \/ try_reserve(h)
  BY <1>1 DEF TypeOK
<1>3. \A k \in Addrs : k # h => scheduled'[k] = scheduled[k]
  BY <1>1 DEF TypeOK
<1>4. QED
  BY <1>2, <1>3 DEF try_reserve, Registered

\* Every step keeps the frames, their owners and the batch loop's place in them.
LEMMA FrameStep == ASSUME TypeOK, FrameInv, [Next]_vars PROVE FrameInv'
<1>1. ASSUME Pop, Same PROVE FrameInv'
  <2>1. CASE ~release(Head(queue))
    BY <1>1, <2>1 DEF Pop, TypeOK, FrameInv, Registered, OnItsFrame, Owned, AbandonedIsReclaimed, NoEntry, Entry
  <2>2. CASE release(Head(queue))
    <3> DEFINE e == Head(queue)
    <3>1. e \in Entry /\ e.h \in Addrs
      BY <1>1, TailEntries DEF Pop, TypeOK, Entry
    <3>2. /\ pc = "idle" /\ cur = NoEntry /\ pc' = "popped" /\ cur' = e
          /\ scheduled' = [scheduled EXCEPT ![e.h] = FALSE]
          /\ UNCHANGED <<alloc, live, nextgen, st, abandoned, io, tasks>>
      BY <1>1, <2>2 DEF Pop, FrameInv, OnItsFrame
    <3>3. alloc[e.h] = e.generation
      BY <2>2, <3>1 DEF release, FrameInv, Registered
    <3>4. cur.h \notin Addrs
      BY <3>2, FramesAssumption DEF NoEntry
    <3> HIDE DEF e
    <3>5. Registered' /\ OnItsFrame'
      BY <3>1, <3>2, <3>3 DEF FrameInv, Registered, OnItsFrame
    <3>6. Owned' /\ AbandonedIsReclaimed'
      BY <3>1, <3>2, <3>4 DEF TypeOK, FrameInv, Owned, AbandonedIsReclaimed
    <3>7. QED
      BY <3>5, <3>6 DEF FrameInv
  <2>3. QED
    BY <2>1, <2>2
<1>2. ASSUME Resume, Same PROVE FrameInv'
  BY <1>2 DEF Resume, EndWait, TypeOK, FrameInv, Registered, OnItsFrame, Owned, AbandonedIsReclaimed, NoEntry, Entry
<1>3. ASSUME CleanupAbandoned, Same PROVE FrameInv'
  BY <1>3 DEF CleanupAbandoned, EndWait, Free, TypeOK, FrameInv, Registered, OnItsFrame, Owned, AbandonedIsReclaimed, NoEntry, Entry
<1>4. ASSUME NEW h \in Addrs, Finish(h), Same PROVE FrameInv'
  BY <1>4 DEF Finish, Leave, Free, TypeOK, FrameInv, Registered, OnItsFrame, Owned, AbandonedIsReclaimed, NoEntry, Entry
<1>5. ASSUME NEW h \in Addrs, Yield(h), Same PROVE FrameInv'
  <2>1. /\ \A k \in Addrs : scheduled[k] => scheduled'[k]
        /\ alloc[h] # 0 => scheduled'[h]
    BY <1>5, ScheduleMarks DEF Yield, FrameInv
  <2>2. QED
    BY <1>5, <2>1 DEF Yield, MaySuspend, Leave, TypeOK, FrameInv, Registered, OnItsFrame, Owned, AbandonedIsReclaimed, NoEntry, Entry
<1>6. ASSUME NEW h \in Addrs, BeginWait(h), Same PROVE FrameInv'
  BY <1>6 DEF BeginWait, MaySuspend, Leave, TypeOK, FrameInv, Registered, OnItsFrame, Owned, AbandonedIsReclaimed, NoEntry, Entry
<1>7. ASSUME NEW h \in Addrs, Sleep(h), Same PROVE FrameInv'
  BY <1>7 DEF Sleep, MaySuspend, Leave, TypeOK, FrameInv, Registered, OnItsFrame, Owned, AbandonedIsReclaimed, NoEntry, Entry
<1>8. ASSUME NEW h \in Addrs, StartIo(h), Same PROVE FrameInv'
  BY <1>8 DEF StartIo, MaySuspend, Leave, TypeOK, FrameInv, Registered, OnItsFrame, Owned, AbandonedIsReclaimed, NoEntry, Entry
<1>9. ASSUME NEW h \in Addrs, Start(h), Same PROVE FrameInv'
  BY <1>9 DEF Start, TypeOK, FrameInv, Registered, OnItsFrame, Owned, AbandonedIsReclaimed, NoEntry, Entry
<1>10. ASSUME NEW h \in Addrs, Cancel(h), Same PROVE FrameInv'
  <2>1. \A k \in Addrs : scheduled[k] => scheduled'[k]
    BY <1>10, ScheduleMarks DEF Cancel, FrameInv
  <2>2. QED
    BY <1>10, <2>1 DEF Cancel, TypeOK, FrameInv, Registered, OnItsFrame, Owned, AbandonedIsReclaimed, NoEntry, Entry
<1>11. ASSUME NEW h \in Addrs, Destroy(h), Same PROVE FrameInv'
  <2>1. CASE st[h] = "io" \/ scheduled[h]
    BY <1>11, <2>1 DEF Destroy, TypeOK, FrameInv, Registered, OnItsFrame, Owned, AbandonedIsReclaimed, NoEntry, Entry
  <2>2. CASE ~(st[h] = "io" \/ scheduled[h])
    <3>1. /\ h \in tasks /\ h # cur.h /\ h \notin abandoned
          /\ Free(h) /\ UNCHANGED <<abandoned, nextgen, io, pc, cur>>
      BY <1>11, <2>2 DEF Destroy, FrameInv, Owned
    <3>2. Registered'
      BY <3>1 DEF Free, TypeOK, FrameInv, Registered
    <3>3. OnItsFrame'
      BY <3>1 DEF Free, TypeOK, FrameInv, OnItsFrame, Entry
    <3>4. Owned' /\ AbandonedIsReclaimed'
      BY <3>1 DEF Free, TypeOK, FrameInv, Owned, AbandonedIsReclaimed
    <3>5. QED
      BY <3>2, <3>3, <3>4 DEF FrameInv
  <2>3. QED
    BY <2>1, <2>2
<1>12. ASSUME NEW h \in Addrs, Detach(h), Same PROVE FrameInv'
  BY <1>12 DEF Detach, TypeOK, FrameInv, Registered, OnItsFrame, Owned, AbandonedIsReclaimed, NoEntry, Entry
<1>13. ASSUME NEW h \in Addrs, IoDone(h), Same PROVE FrameInv'
  <2>1. /\ \A k \in Addrs : scheduled[k] => scheduled'[k]
        /\ alloc[h] # 0 => scheduled'[h]
    BY <1>13, ScheduleMarks DEF IoDone, FrameInv
  <2>2. QED
    BY <1>13, <2>1 DEF IoDone, TypeOK, FrameInv, Registered, OnItsFrame, Owned, AbandonedIsReclaimed, NoEntry, Entry
<1>14. ASSUME NEW w \in waiters, Notify(w[1], w[2]), Same PROVE FrameInv'
  <2>1. w[1] \in Addrs
    BY DEF TypeOK
  <2>2. \A k \in Addrs : scheduled[k] => scheduled'[k]
    BY <1>14, <2>1 DEF Notify, Queue, TypeOK
  <2>3. QED
    BY <1>14, <2>2 DEF Notify, TypeOK, FrameInv, Registered, OnItsFrame, Owned, AbandonedIsReclaimed, NoEntry, Entry
<1>15. ASSUME NEW t \in timers, Expire(t[1], t[2], t[3]), Same PROVE FrameInv'
  <2>1. t[1] \in Addrs
    BY DEF TypeOK
  <2>2. \A k \in Addrs : scheduled[k] => scheduled'[k]
    BY <1>15, <2>1 DEF Expire, Queue, TypeOK
  <2>3. QED
    BY <1>15, <2>2 DEF Expire, TypeOK, FrameInv, Registered, OnItsFrame, Owned, AbandonedIsReclaimed, NoEntry, Entry
<1>16. ASSUME UNCHANGED vars PROVE FrameInv'
  BY <1>16 DEF vars, TypeOK, FrameInv, Registered, OnItsFrame, Owned, AbandonedIsReclaimed, NoEntry, Entry
<1>17. QED
  BY <1>1, <1>2, <1>3, <1>4, <1>5, <1>6, <1>7, <1>8, <1>9, <1>10, <1>11, <1>12, <1>13, <1>14, <1>15, <1>16
     DEF Next, LoopStep, BodyStep, TaskStep

-----------------------------------------------------------------------------
\* What the queue's entries may rely on, through each way of changing it.
LEMMA EntriesSame ==
    ASSUME Entries, UNCHANGED <<queue, live, scheduled, nextgen>>
    PROVE  Entries'
BY DEF Entries, Current

LEMMA EntriesFree ==
    ASSUME TypeOK, Entries, NEW h \in Addrs, Free(h), UNCHANGED <<queue, nextgen>>
    PROVE  Entries'
<1>1. \A i \in 1..Len(queue) : queue[i].h \in Addrs /\ queue[i].generation # 0
  BY EntryFields DEF TypeOK
<1>2. /\ live'[h] = 0
      /\ \A k \in Addrs : k # h => live'[k] = live[k] /\ scheduled'[k] = scheduled[k]
  BY DEF Free, TypeOK
<1>3. \A i \in 1..Len(queue) : Current(i)' => Current(i) /\ queue[i].h # h
  BY <1>1, <1>2 DEF Current
<1>4. QED
  BY <1>1, <1>2, <1>3 DEF Entries

LEMMA EntriesQueue ==
    ASSUME TypeOK, FrameInv, Entries, NEW h \in Addrs, NEW may \in BOOLEAN,
           NEW why \in 0..MaxWait, may => try_reserve(h), Queue(h, may, why),
           UNCHANGED <<live, nextgen>>
    PROVE  Entries'
<1> DEFINE e == [h |-> h, generation |-> live[h], why |-> why]
<1>1. \/ UNCHANGED <<queue, scheduled>>
      \/ ~scheduled[h] /\ scheduled' = [scheduled EXCEPT ![h] = TRUE] /\ Appended(e)
  BY QueueGrows
<1>2. CASE UNCHANGED <<queue, scheduled>>
  BY <1>2, EntriesSame
<1>3. CASE ~scheduled[h] /\ scheduled' = [scheduled EXCEPT ![h] = TRUE] /\ Appended(e)
  <2>1. \A i \in 1..Len(queue) : queue[i].h \in Addrs
    BY EntryFields DEF TypeOK
  <2>2. live[h] <= nextgen /\ e.h = h /\ e.generation = live[h]
    BY DEF FrameInv, Registered
  <2>3. scheduled'[h] /\ \A k \in Addrs : scheduled[k] => scheduled'[k]
    BY <1>3 DEF TypeOK
  <2> HIDE DEF e
  <2>4. \A i \in 1..Len(queue) : Current(i) => queue[i].h # h
    BY <1>3 DEF Entries
  <2>5. QED
    BY <1>3, <2>1, <2>2, <2>3, <2>4 DEF Entries, Current, Appended
<1>4. QED
  BY <1>1, <1>2, <1>3

LEMMA EntriesStep == ASSUME TypeOK, FrameInv, Entries, [Next]_vars PROVE Entries'
<1>1. ASSUME Pop, Same PROVE Entries'
  <2>1. /\ Head(queue) \in Entry /\ Head(queue) = queue[1] /\ 1 \in 1..Len(queue)
        /\ \A i \in 1..Len(queue') : i \in Nat /\ i + 1 \in 1..Len(queue)
                                     /\ i + 1 # 1 /\ queue'[i] = queue[i + 1]
    BY <1>1, TailEntries DEF Pop, TypeOK
  <2>2. UNCHANGED <<live, nextgen>>
    BY <1>1 DEF Pop
  <2>3. \A i \in 1..Len(queue') : Current(i)' <=> Current(i + 1)
    BY <2>1, <2>2 DEF Current
  <2>4. \A i, k \in Nat : i + 1 = k + 1 => i = k
    OBVIOUS
  <2>5. \A i \in 1..Len(queue') : Current(i)' => scheduled'[queue'[i].h]
    <3>1. CASE ~release(Head(queue))
      BY <1>1, <2>1, <2>3, <3>1 DEF Pop, Entries
    <3>2. CASE release(Head(queue))
      <4>1. Current(1) /\ scheduled' = [scheduled EXCEPT ![queue[1].h] = FALSE]
        BY <1>1, <2>1, <3>2 DEF Pop, Current, release
      <4>2. SUFFICES ASSUME NEW i \in 1..Len(queue'), Current(i)'
                     PROVE  scheduled'[queue'[i].h]
        OBVIOUS
      <4>3. Current(i + 1) /\ queue'[i].h # queue[1].h /\ queue[i + 1].h \in Addrs
        BY <2>1, <2>3, <4>1, <4>2, EntryFields DEF Entries, TypeOK
      <4>4. QED
        BY <2>1, <4>1, <4>3 DEF Entries, TypeOK
    <3>3. QED
      BY <3>1, <3>2
  <2>6. ASSUME NEW i \in 1..Len(queue'), NEW k \in 1..Len(queue'),
               Current(i)', Current(k)', queue'[i].h = queue'[k].h
        PROVE  i = k
    <3>1. i + 1 = k + 1
      BY <2>1, <2>3, <2>6 DEF Entries
    <3>2. QED
      BY <2>1, <2>4, <3>1
  <2>7. \A i \in 1..Len(queue') : queue'[i].generation <= nextgen'
    BY <2>1, <2>2 DEF Entries
  <2>8. QED
    BY <2>5, <2>6, <2>7 DEF Entries
<1>2. ASSUME Resume, Same PROVE Entries'
  BY <1>2, EntriesSame DEF Resume
<1>3. ASSUME CleanupAbandoned, Same PROVE Entries'
  <2>1. cur.h \in Addrs
    BY <1>3 DEF CleanupAbandoned, FrameInv, OnItsFrame, Entry
  <2>2. QED
    BY <1>3, <2>1, EntriesFree DEF CleanupAbandoned
<1>4. ASSUME NEW h \in Addrs, Finish(h), Same PROVE Entries'
  BY <1>4, EntriesFree DEF Finish
<1>5. ASSUME NEW h \in Addrs, Yield(h), Same PROVE Entries'
  <2>1. schedule(h) /\ wait[h] \in 0..MaxWait /\ UNCHANGED <<live, nextgen>>
    BY <1>5 DEF Yield, TypeOK
  <2>2. QED
    BY <2>1, EntriesQueue DEF schedule, try_reserve
<1>6. ASSUME NEW h \in Addrs, BeginWait(h), Same PROVE Entries'
  BY <1>6, EntriesSame DEF BeginWait
<1>7. ASSUME NEW h \in Addrs, Sleep(h), Same PROVE Entries'
  BY <1>7, EntriesSame DEF Sleep
<1>8. ASSUME NEW h \in Addrs, StartIo(h), Same PROVE Entries'
  BY <1>8, EntriesSame DEF StartIo
<1>9. ASSUME NEW h \in Addrs, Start(h), Same PROVE Entries'
  <2>1. /\ live[h] = 0 /\ nextgen' = nextgen + 1 /\ nextgen \in Nat
        /\ \A k \in Addrs : live[k] <= nextgen /\ live[k] \in Nat
    BY <1>9 DEF Start, TypeOK, FrameInv, Registered
  <2>2. live' = [live EXCEPT ![h] = nextgen + 1] /\ scheduled' = [scheduled EXCEPT ![h] = TRUE]
    BY <1>9, <2>1 DEF Start
  <2>3. nextgen + 1 \in 1..MaxGen
    BY <1>9, <2>1, FramesAssumption DEF Start, TypeOK
  <2> DEFINE e == [h |-> h, generation |-> nextgen + 1, why |-> 0]
  <2>4. e \in Entry /\ live'[h] = nextgen + 1
    BY <2>2, <2>3, FramesAssumption DEF Entry, TypeOK
  <2>5. \/ queue' = queue
        \/ Appended(e)
    BY <1>9, <2>4, AppendEntry DEF Start, TypeOK
  <2>6. \A i \in 1..Len(queue) : /\ queue[i].h \in Addrs
                                 /\ queue[i].generation \in Nat
                                 /\ queue[i].generation <= nextgen
                                 /\ queue[i].generation # nextgen + 1
    BY <2>1, EntryFields DEF TypeOK, Entries
  <2>7. \A i \in 1..Len(queue) : \/ queue[i].h = h /\ queue[i].generation # live'[h]
                                 \/ queue[i].h # h /\ live'[queue[i].h] = live[queue[i].h]
    BY <2>2, <2>4, <2>6 DEF TypeOK
  <2>8. e.h = h /\ e.generation = nextgen + 1
    OBVIOUS
  <2> HIDE DEF e
  <2>9. CASE queue' = queue
    BY <2>1, <2>2, <2>6, <2>7, <2>9 DEF Entries, Current, TypeOK
  <2>10. CASE Appended(e)
    <3>1. \A i \in 1..Len(queue') : queue'[i].generation <= nextgen'
      BY <2>1, <2>6, <2>8, <2>10 DEF Appended
    <3>2. \A i \in 1..Len(queue') : Current(i)' => scheduled'[queue'[i].h]
      BY <2>2, <2>6, <2>7, <2>8, <2>10 DEF Appended, Entries, Current, TypeOK
    <3>3. ASSUME NEW i \in 1..Len(queue'), NEW k \in 1..Len(queue'),
                 Current(i)', Current(k)', queue'[i].h = queue'[k].h
          PROVE  i = k
      <4>1. ASSUME NEW n \in 1..Len(queue'), Current(n)'
            PROVE  \/ /\ n \in 1..Len(queue) /\ Current(n) /\ queue[n].h # h
                      /\ queue'[n] = queue[n]
                   \/ n = Len(queue) + 1 /\ queue'[n].h = h
        BY <2>7, <2>8, <2>10, <4>1 DEF Appended, Current
      <4>2. QED
        BY <3>3, <4>1 DEF Entries
    <3>4. QED
      BY <3>1, <3>2, <3>3 DEF Entries
  <2>11. QED
    BY <2>5, <2>9, <2>10
<1>10. ASSUME NEW h \in Addrs, Cancel(h), Same PROVE Entries'
  <2>1. CASE Suspended(h) /\ st[h] # "io"
    <3>1. schedule(h) /\ wait[h] \in 0..MaxWait /\ UNCHANGED <<live, nextgen>>
      BY <1>10, <2>1 DEF Cancel, TypeOK
    <3>2. QED
      BY <3>1, EntriesQueue DEF schedule, try_reserve
  <2>2. CASE ~(Suspended(h) /\ st[h] # "io")
    BY <1>10, <2>2, EntriesSame DEF Cancel
  <2>3. QED
    BY <2>1, <2>2
<1>11. ASSUME NEW h \in Addrs, Destroy(h), Same PROVE Entries'
  <2>1. CASE st[h] = "io" \/ scheduled[h]
    BY <1>11, <2>1, EntriesSame DEF Destroy
  <2>2. CASE ~(st[h] = "io" \/ scheduled[h])
    BY <1>11, <2>2, EntriesFree DEF Destroy
  <2>3. QED
    BY <2>1, <2>2
<1>12. ASSUME NEW h \in Addrs, Detach(h), Same PROVE Entries'
  BY <1>12, EntriesSame DEF Detach
<1>13. ASSUME NEW h \in Addrs, IoDone(h), Same PROVE Entries'
  <2>1. schedule(h) /\ wait[h] \in 0..MaxWait /\ UNCHANGED <<live, nextgen>>
    BY <1>13 DEF IoDone, TypeOK
  <2>2. QED
    BY <2>1, EntriesQueue DEF schedule, try_reserve
<1>14. ASSUME NEW w \in waiters, Notify(w[1], w[2]), Same PROVE Entries'
  <2>1. w[1] \in Addrs /\ w[2] \in 0..MaxWait /\ UNCHANGED <<live, nextgen>>
    BY <1>14 DEF Notify, TypeOK
  <2>2. Queue(w[1], try_reserve_if_current(w[1], w[2]), w[2])
    BY <1>14 DEF Notify
  <2>3. QED
    BY <2>1, <2>2, EntriesQueue DEF try_reserve_if_current, try_reserve
<1>15. ASSUME NEW t \in timers, Expire(t[1], t[2], t[3]), Same PROVE Entries'
  <2>1. t[1] \in Addrs /\ t[3] \in 0..MaxWait /\ UNCHANGED <<live, nextgen>>
    BY <1>15 DEF Expire, TypeOK
  <2>2. Queue(t[1], live[t[1]] = t[2] /\ try_reserve(t[1]), t[3])
    BY <1>15 DEF Expire
  <2>3. QED
    BY <2>1, <2>2, EntriesQueue DEF try_reserve
<1>16. ASSUME UNCHANGED vars PROVE Entries'
  BY <1>16, EntriesSame DEF vars
<1>17. QED
  BY <1>1, <1>2, <1>3, <1>4, <1>5, <1>6, <1>7, <1>8, <1>9, <1>10, <1>11, <1>12, <1>13, <1>14, <1>15, <1>16
     DEF Next, LoopStep, BodyStep, TaskStep

-----------------------------------------------------------------------------
\* schedule() and its like keep every entry's wait right, and touch one mark.
LEMMA RightWaitQueue ==
    ASSUME TypeOK, Resumed, NEW h \in Addrs, NEW may \in BOOLEAN, NEW why \in 0..MaxWait,
           may => try_reserve(h), Queue(h, may, why), UNCHANGED <<live, wait>>,
           \A k \in Addrs : st'[k] = "wait" => st[k] = "wait",
           st'[h] = "wait" => why = wait[h]
    PROVE  RightWait' /\ \A k \in Addrs : k # h => scheduled'[k] = scheduled[k]
<1> DEFINE e == [h |-> h, generation |-> live[h], why |-> why]
<1>1. \/ UNCHANGED <<queue, scheduled>>
      \/ scheduled' = [scheduled EXCEPT ![h] = TRUE] /\ Appended(e)
  BY QueueGrows
<1>2. \A i \in 1..Len(queue') : \/ i \in 1..Len(queue) /\ queue'[i] = queue[i]
                                \/ queue'[i].h = h /\ queue'[i].why = why
  BY <1>1 DEF Appended
<1>3. \A i \in 1..Len(queue) : queue[i].h \in Addrs
  BY EntryFields DEF TypeOK
<1>4. RightWait'
  BY <1>2, <1>3 DEF Resumed, RightWait, Current
<1>5. QED
  BY <1>1, <1>4 DEF TypeOK

\* A frame that is freed while nobody waits for the kernel on its behalf leaves
\* nothing behind.
LEMMA FreedLeaves ==
    ASSUME TypeOK, FrameInv, Held, Resumed, NEW h \in Addrs, Free(h), h \notin io,
           waiters' = {w \in waiters : w[1] # h}, timers' = {t \in timers : t[1] # h},
           wait' = wait \/ wait' = [wait EXCEPT ![h] = 0], UNCHANGED <<queue, io>>,
           \/ pc' = "idle" /\ cur' = NoEntry
           \/ UNCHANGED <<pc, cur>> /\ h # cur.h
    PROVE  Held' /\ Resumed'
<1>1. /\ live'[h] = 0 /\ st'[h] = "free"
      /\ \A k \in Addrs : k # h => /\ live'[k] = live[k] /\ alloc'[k] = alloc[k]
                                   /\ st'[k] = st[k] /\ scheduled'[k] = scheduled[k]
                                   /\ wait'[k] = wait[k]
  BY DEF Free, TypeOK
<1>2. pc # "idle" => cur.h \in Addrs
  BY DEF FrameInv, OnItsFrame, Entry
<1>3. /\ \A w \in waiters' : w \in waiters /\ w[1] \in Addrs /\ w[1] # h
      /\ \A t \in timers' : t \in timers /\ t[1] \in Addrs /\ t[1] # h
  BY DEF TypeOK
<1>4. \A k \in Addrs : cur.h # k => cur'.h # k
  BY FramesAssumption DEF NoEntry
<1>5. \A k \in io' : k \in io /\ k \in Addrs /\ k # h
  BY DEF TypeOK
<1>6. Held'
  BY <1>1, <1>3, <1>4, <1>5 DEF Held
<1>7. \A i \in 1..Len(queue) : queue[i].h \in Addrs
  BY EntryFields DEF TypeOK
<1>8. RightWait'
  BY <1>1, <1>7 DEF Resumed, RightWait, Current
<1>9. QED
  BY <1>1, <1>2, <1>6, <1>8 DEF Resumed

LEMMA OwnThreadStep ==
    ASSUME TypeOK, FrameInv, Entries, Held, Resumed, ~foreign, [Next]_vars
    PROVE  Held' /\ Resumed'
<1>1. ASSUME Pop, Same PROVE Held' /\ Resumed'
  <2>1. /\ Head(queue) \in Entry /\ Head(queue) = queue[1] /\ 1 \in 1..Len(queue)
        /\ \A i \in 1..Len(queue') : i + 1 \in 1..Len(queue) /\ queue'[i] = queue[i + 1]
    BY <1>1, TailEntries DEF Pop, TypeOK
  <2>2. /\ pc = "idle" /\ cur = NoEntry
        /\ UNCHANGED <<live, alloc, st, wait, waiters, timers, io>>
    BY <1>1 DEF Pop, FrameInv, OnItsFrame
  <2>3. RightWait'
    BY <2>1, <2>2 DEF Resumed, RightWait, Current
  <2>4. CASE ~release(Head(queue))
    BY <1>1, <2>2, <2>3, <2>4 DEF Pop, Held, Resumed
  <2>5. CASE release(Head(queue))
    <3> DEFINE e == Head(queue)
    <3>1. /\ Current(1) /\ e.h \in Addrs /\ e = queue[1]
          /\ pc' = "popped" /\ cur' = e /\ scheduled' = [scheduled EXCEPT ![e.h] = FALSE]
      BY <1>1, <2>1, <2>5 DEF Pop, Current, release, Entry
    <3>2. scheduled[e.h] /\ (st[e.h] = "wait" => e.why = wait[e.h])
      BY <2>1, <3>1 DEF Entries, Resumed, RightWait
    <3> HIDE DEF e
    <3>3. ~scheduled'[e.h] /\ \A k \in Addrs : k # e.h => scheduled'[k] = scheduled[k]
      BY <3>1 DEF TypeOK
    <3>4. Held'
      BY <2>2, <3>1, <3>2, <3>3 DEF Held, TypeOK
    <3>5. QED
      BY <2>2, <2>3, <3>1, <3>2, <3>3, <3>4 DEF Resumed
  <2>6. QED
    BY <2>4, <2>5
<1>2. ASSUME Resume, Same PROVE Held' /\ Resumed'
  <2>1. /\ pc = "popped" /\ pc' = "body" /\ cur.h \in Addrs /\ ~scheduled[cur.h]
        /\ UNCHANGED <<cur, queue, live, alloc, scheduled, io>>
        /\ EndWait(cur.h) /\ st' = [st EXCEPT ![cur.h] = "run"]
    BY <1>2 DEF Resume, FrameInv, OnItsFrame, Entry, Resumed
  <2>2. \A k \in Addrs : k # cur.h => st'[k] = st[k] /\ wait'[k] = wait[k]
    BY <2>1 DEF EndWait, TypeOK
  <2>3. Held'
    BY <2>1, <2>2 DEF Held, EndWait, TypeOK
  <2>4. \A i \in 1..Len(queue) : queue[i].h \in Addrs
    BY EntryFields DEF TypeOK
  <2>5. st'[cur.h] = "run"
    BY <2>1 DEF TypeOK
  <2>6. RightWait'
    BY <2>1, <2>2, <2>4, <2>5 DEF Resumed, RightWait, Current
  <2>7. QED
    BY <2>1, <2>3, <2>5, <2>6 DEF Resumed
<1>3. ASSUME CleanupAbandoned, Same PROVE Held' /\ Resumed'
  <2>1. /\ pc = "popped" /\ pc' = "idle" /\ cur.h \in Addrs /\ cur' = NoEntry
        /\ EndWait(cur.h) /\ Free(cur.h) /\ UNCHANGED <<queue, io>>
    BY <1>3 DEF CleanupAbandoned, FrameInv, OnItsFrame, Entry
  <2>2. cur.h \notin io
    BY DEF Held
  <2>3. QED
    BY <2>1, <2>2, FreedLeaves DEF EndWait
<1>4. ASSUME NEW h \in Addrs, Finish(h), Same PROVE Held' /\ Resumed'
  <2>1. /\ pc = "body" /\ pc' = "idle" /\ cur.h = h /\ cur' = NoEntry /\ st[h] = "run"
        /\ Free(h) /\ UNCHANGED <<queue, io, waiters, timers, wait>>
    BY <1>4 DEF Finish, Leave, FrameInv, OnItsFrame
  <2>2. /\ waiters = {w \in waiters : w[1] # h} /\ timers = {t \in timers : t[1] # h}
        /\ h \notin io
    BY <2>1 DEF Held
  <2>3. QED
    BY <2>1, <2>2, FreedLeaves
<1>5. ASSUME NEW h \in Addrs, Yield(h), Same PROVE Held' /\ Resumed'
  <2>1. /\ pc = "body" /\ pc' = "idle" /\ cur.h = h /\ cur' = NoEntry /\ st[h] = "run"
        /\ UNCHANGED <<live, alloc, wait, waiters, timers, io>>
        /\ st' = [st EXCEPT ![h] = "yield"] /\ schedule(h) /\ wait[h] \in 0..MaxWait
    BY <1>5 DEF Yield, MaySuspend, Leave, FrameInv, OnItsFrame, TypeOK
  <2>2. st'[h] = "yield" /\ \A k \in Addrs : k # h => st'[k] = st[k]
    BY <2>1 DEF TypeOK
  <2>3. RightWait' /\ \A k \in Addrs : k # h => scheduled'[k] = scheduled[k]
    BY <2>1, <2>2, RightWaitQueue DEF schedule, try_reserve
  <2>4. Held'
    BY <2>1, <2>2, <2>3, FramesAssumption DEF Held, NoEntry, TypeOK
  <2>5. QED
    BY <2>1, <2>3, <2>4 DEF Resumed
<1>6. ASSUME NEW h \in Addrs, BeginWait(h), Same PROVE Held' /\ Resumed'
  <2>1. /\ pc = "body" /\ pc' = "idle" /\ cur.h = h /\ cur' = NoEntry /\ st[h] = "run"
        /\ ~scheduled[h] /\ live[h] = alloc[h]
        /\ UNCHANGED <<queue, live, alloc, scheduled>>
        /\ st' = [st EXCEPT ![h] = "wait"] /\ wait' = [wait EXCEPT ![h] = nextwait + 1]
    BY <1>6 DEF BeginWait, MaySuspend, Leave, FrameInv, Registered, OnItsFrame, Resumed
  <2>2. /\ st'[h] = "wait" /\ wait'[h] = nextwait + 1
        /\ \A k \in Addrs : k # h => st'[k] = st[k] /\ wait'[k] = wait[k]
    BY <2>1 DEF TypeOK
  <2>3. /\ \A w \in waiters : w[1] \in Addrs /\ w[1] # h
        /\ \A t \in timers : t[1] \in Addrs /\ t[1] # h
        /\ \A k \in io : k \in Addrs /\ k # h
    BY <2>1 DEF Held, TypeOK
  <2>4. Held'
    BY <1>6, <2>1, <2>2, <2>3, FramesAssumption DEF BeginWait, Held, NoEntry
  <2>5. RightWait'
    BY <2>1, <2>2, EntryFields DEF Resumed, RightWait, Entries, Current, TypeOK
  <2>6. QED
    BY <2>1, <2>4, <2>5 DEF Resumed
<1>7. ASSUME NEW h \in Addrs, Sleep(h), Same PROVE Held' /\ Resumed'
  <2>1. /\ pc = "body" /\ pc' = "idle" /\ cur.h = h /\ cur' = NoEntry /\ st[h] = "run"
        /\ ~scheduled[h] /\ live[h] = alloc[h]
        /\ UNCHANGED <<queue, live, alloc, scheduled>>
        /\ st' = [st EXCEPT ![h] = "sleep"] /\ wait' = [wait EXCEPT ![h] = nextwait + 1]
    BY <1>7 DEF Sleep, MaySuspend, Leave, FrameInv, Registered, OnItsFrame, Resumed
  <2>2. /\ st'[h] = "sleep" /\ wait'[h] = nextwait + 1
        /\ \A k \in Addrs : k # h => st'[k] = st[k] /\ wait'[k] = wait[k]
    BY <2>1 DEF TypeOK
  <2>3. /\ \A w \in waiters : w[1] \in Addrs /\ w[1] # h
        /\ \A t \in timers : t[1] \in Addrs /\ t[1] # h
        /\ \A k \in io : k \in Addrs /\ k # h
    BY <2>1 DEF Held, TypeOK
  <2>4. Held'
    BY <1>7, <2>1, <2>2, <2>3, FramesAssumption DEF Sleep, Held, NoEntry
  <2>5. RightWait'
    BY <2>1, <2>2, EntryFields DEF Resumed, RightWait, Entries, Current, TypeOK
  <2>6. QED
    BY <2>1, <2>4, <2>5 DEF Resumed
<1>8. ASSUME NEW h \in Addrs, StartIo(h), Same PROVE Held' /\ Resumed'
  <2>1. /\ pc = "body" /\ pc' = "idle" /\ cur.h = h /\ cur' = NoEntry /\ st[h] = "run"
        /\ ~scheduled[h] /\ live[h] = alloc[h]
        /\ UNCHANGED <<queue, live, alloc, scheduled>>
        /\ st' = [st EXCEPT ![h] = "io"] /\ wait' = [wait EXCEPT ![h] = nextwait + 1]
    BY <1>8 DEF StartIo, MaySuspend, Leave, FrameInv, Registered, OnItsFrame, Resumed
  <2>2. /\ st'[h] = "io" /\ wait'[h] = nextwait + 1
        /\ \A k \in Addrs : k # h => st'[k] = st[k] /\ wait'[k] = wait[k]
    BY <2>1 DEF TypeOK
  <2>3. /\ \A w \in waiters : w[1] \in Addrs /\ w[1] # h
        /\ \A t \in timers : t[1] \in Addrs /\ t[1] # h
        /\ \A k \in io : k \in Addrs /\ k # h
    BY <2>1 DEF Held, TypeOK
  <2>4. Held'
    BY <1>8, <2>1, <2>2, <2>3, FramesAssumption DEF StartIo, Held, NoEntry
  <2>5. RightWait'
    BY <2>1, <2>2, EntryFields DEF Resumed, RightWait, Entries, Current, TypeOK
  <2>6. QED
    BY <2>1, <2>4, <2>5 DEF Resumed
<1>9. ASSUME NEW h \in Addrs, Start(h), Same PROVE Held' /\ Resumed'
  <2>1. /\ alloc[h] = 0 /\ live[h] = 0 /\ st[h] = "free" /\ h \notin io
        /\ nextgen \in Nat /\ pc # "popped"
        /\ (pc # "idle" => cur.h # h /\ cur.h \in Addrs)
    BY <1>9 DEF Start, TypeOK, FrameInv, Registered, OnItsFrame, Held, Entry
  <2>2. /\ live' = [live EXCEPT ![h] = nextgen + 1]
        /\ alloc' = [alloc EXCEPT ![h] = nextgen + 1]
        /\ scheduled' = [scheduled EXCEPT ![h] = TRUE] /\ st' = [st EXCEPT ![h] = "new"]
        /\ UNCHANGED <<pc, cur, wait, waiters, timers, io>>
    BY <1>9, <2>1 DEF Start
  <2>3. /\ live'[h] = nextgen + 1 /\ st'[h] = "new" /\ scheduled'[h]
        /\ \A k \in Addrs : k # h => /\ live'[k] = live[k] /\ alloc'[k] = alloc[k]
                                     /\ st'[k] = st[k] /\ scheduled'[k] = scheduled[k]
    BY <2>2 DEF TypeOK
  <2>4. \A i \in 1..Len(queue') : \/ i \in 1..Len(queue) /\ queue'[i] = queue[i]
                                  \/ queue'[i].h = h
    <3>1. CASE scheduled[h]
      BY <1>9, <3>1 DEF Start
    <3>2. CASE ~scheduled[h]
      <4>1. nextgen + 1 \in 1..MaxGen
        BY <1>9, <2>1, FramesAssumption DEF Start, TypeOK
      <4>2. [h |-> h, generation |-> nextgen + 1, why |-> 0] \in Entry
        BY <4>1, FramesAssumption DEF Entry
      <4>3. queue' = Append(queue, [h |-> h, generation |-> nextgen + 1, why |-> 0])
        BY <1>9, <3>2, <2>3 DEF Start
      <4>4. Appended([h |-> h, generation |-> nextgen + 1, why |-> 0])
        BY <4>2, <4>3, AppendEntry DEF TypeOK
      <4>5. QED
        BY <4>4 DEF Appended
    <3>3. QED
      BY <3>1, <3>2
  <2>5. \A i \in 1..Len(queue) : queue[i].h \in Addrs
    BY EntryFields DEF TypeOK
  <2>6. RightWait'
    BY <2>2, <2>3, <2>4, <2>5 DEF Resumed, RightWait, Current
  <2>7. Held'
    BY <2>1, <2>2, <2>3 DEF Held, TypeOK
  <2>8. QED
    BY <2>1, <2>2, <2>3, <2>6, <2>7 DEF Resumed
<1>10. ASSUME NEW h \in Addrs, Cancel(h), Same PROVE Held' /\ Resumed'
  <2>1. CASE Suspended(h) /\ st[h] # "io"
    <3>1. /\ h \notin io /\ (pc # "idle" => h # cur.h /\ pc # "popped")
          /\ UNCHANGED <<pc, cur, st, live, alloc, wait, waiters, timers, io>>
          /\ schedule(h) /\ wait[h] \in 0..MaxWait
      BY <1>10, <2>1 DEF Cancel, Held, Suspended, FrameInv, OnItsFrame, TypeOK
    <3>2. RightWait' /\ \A k \in Addrs : k # h => scheduled'[k] = scheduled[k]
      BY <3>1, RightWaitQueue DEF schedule, try_reserve
    <3>3. Held'
      BY <3>1, <3>2 DEF Held, TypeOK
    <3>4. pc # "idle" => cur.h \in Addrs
      BY DEF FrameInv, OnItsFrame, Entry
    <3>5. QED
      BY <3>1, <3>2, <3>3, <3>4 DEF Resumed
  <2>2. CASE ~(Suspended(h) /\ st[h] # "io")
    BY <1>10, <2>2 DEF Cancel, Held, Resumed, RightWait, Current
  <2>3. QED
    BY <2>1, <2>2
<1>11. ASSUME NEW h \in Addrs, Destroy(h), Same PROVE Held' /\ Resumed'
  <2>1. CASE st[h] = "io" \/ scheduled[h]
    BY <1>11, <2>1 DEF Destroy, Held, Resumed, RightWait, Current
  <2>2. CASE ~(st[h] = "io" \/ scheduled[h])
    <3>1. /\ h # cur.h /\ h \notin io
          /\ EndWait(h) /\ Free(h) /\ UNCHANGED <<queue, io, pc, cur>>
      BY <1>11, <2>2 DEF Destroy, Held
    <3>2. QED
      BY <3>1, FreedLeaves DEF EndWait
  <2>3. QED
    BY <2>1, <2>2
<1>12. ASSUME NEW h \in Addrs, Detach(h), Same PROVE Held' /\ Resumed'
  BY <1>12 DEF Detach, Held, Resumed, RightWait, Current
<1>13. ASSUME NEW h \in Addrs, IoDone(h), Same PROVE Held' /\ Resumed'
  <2>1. /\ pc = "idle" /\ h \in io /\ io' = io \ {h}
        /\ UNCHANGED <<pc, cur, st, live, alloc, wait, waiters, timers>>
        /\ schedule(h) /\ wait[h] \in 0..MaxWait
    BY <1>13 DEF IoDone, TypeOK
  <2>2. RightWait' /\ \A k \in Addrs : k # h => scheduled'[k] = scheduled[k]
    BY <2>1, RightWaitQueue DEF schedule, try_reserve
  <2>3. Held'
    BY <2>1, <2>2 DEF Held, TypeOK
  <2>4. QED
    BY <2>1, <2>2, <2>3 DEF Resumed
<1>14. ASSUME NEW w \in waiters, Notify(w[1], w[2]), Same PROVE Held' /\ Resumed'
  <2> DEFINE h == w[1]
  <2>1. /\ h \in Addrs /\ w[2] \in 0..MaxWait /\ st[h] = "wait" /\ wait[h] = w[2]
        /\ h \notin io
    BY DEF TypeOK, Held
  <2>2. /\ pc \in {"idle", "body"} /\ waiters' \subseteq waiters
        /\ UNCHANGED <<pc, cur, st, live, alloc, wait, timers, io>>
        /\ Queue(h, try_reserve_if_current(h, w[2]), w[2])
    BY <1>14 DEF Notify
  <2>3. pc # "idle" => h # cur.h /\ pc # "popped" /\ cur.h \in Addrs
    BY <2>1, <2>2 DEF FrameInv, OnItsFrame, Entry
  <2> HIDE DEF h
  <2>4. RightWait' /\ \A k \in Addrs : k # h => scheduled'[k] = scheduled[k]
    BY <2>1, <2>2, RightWaitQueue DEF try_reserve_if_current, try_reserve
  <2>5. Held'
    BY <2>1, <2>2, <2>4 DEF Held, TypeOK
  <2>6. QED
    BY <2>2, <2>3, <2>4, <2>5 DEF Resumed
<1>15. ASSUME NEW t \in timers, Expire(t[1], t[2], t[3]), Same PROVE Held' /\ Resumed'
  <2> DEFINE h == t[1]
  <2>1. /\ h \in Addrs /\ t[3] \in 0..MaxWait /\ st[h] = "sleep" /\ h \notin io
    BY DEF TypeOK, Held
  <2>2. /\ pc = "idle" /\ timers' \subseteq timers
        /\ UNCHANGED <<pc, cur, st, live, alloc, wait, waiters, io>>
        /\ Queue(h, live[h] = t[2] /\ try_reserve(h), t[3])
    BY <1>15 DEF Expire
  <2> HIDE DEF h
  <2>3. RightWait' /\ \A k \in Addrs : k # h => scheduled'[k] = scheduled[k]
    BY <2>1, <2>2, RightWaitQueue DEF try_reserve
  <2>4. Held'
    BY <2>1, <2>2, <2>3 DEF Held, TypeOK
  <2>5. QED
    BY <2>2, <2>3, <2>4 DEF Resumed
<1>16. ASSUME UNCHANGED vars PROVE Held' /\ Resumed'
  BY <1>16 DEF vars, Held, Resumed, RightWait, Current
<1>17. QED
  BY <1>1, <1>2, <1>3, <1>4, <1>5, <1>6, <1>7, <1>8, <1>9, <1>10, <1>11, <1>12, <1>13, <1>14, <1>15, <1>16
     DEF Next, LoopStep, BodyStep, TaskStep

-----------------------------------------------------------------------------
LEMMA InitHolds == Init => IInv
<1> SUFFICES ASSUME Init PROVE IInv
  OBVIOUS
<1>1. 0 \in 0..MaxGen /\ 0 \in 0..MaxWait
  BY FramesAssumption
<1>2. queue = <<>> /\ queue \in Seq(Entry) /\ \A i \in 1..Len(queue) : FALSE
  BY EmptySeq DEF Init
<1>3. TypeOK
  BY <1>1, <1>2 DEF Init, TypeOK
<1>4. FrameInv
  BY DEF Init, FrameInv, Registered, OnItsFrame, Owned, AbandonedIsReclaimed
<1>5. Entries /\ OwnThread
  BY <1>2 DEF Init, Entries, OwnThread, Held, Resumed, RightWait
<1>6. QED
  BY <1>3, <1>4, <1>5 DEF IInv

LEMMA Inductive == Spec => []IInv
<1>1. IInv /\ [Next]_vars => IInv'
  <2> SUFFICES ASSUME IInv, [Next]_vars PROVE IInv'
    OBVIOUS
  <2>1. TypeOK' /\ FrameInv' /\ Entries'
    BY TypeStep, FrameStep, EntriesStep DEF IInv
  <2>2. foreign' = foreign
    BY DEF Next, Same, vars
  <2>3. OwnThread'
    BY <2>2, OwnThreadStep DEF IInv, OwnThread
  <2>4. QED
    BY <2>1, <2>3 DEF IInv
<1>2. QED
  BY <1>1, InitHolds, PTL DEF Spec

\* Type correctness of the frame registry and the batch loop (event_loop.hpp,
\* FrameTracker).
THEOREM TypeCorrect == Spec => []TypeOK
<1>1. IInv => TypeOK
  BY DEF IInv
<1>2. QED
  BY <1>1, Inductive, PTL

\* No use after free (FrameTracker::release): however addresses are reused and
\* whichever thread notifies, the loop resumes the frame the entry was made for.
THEOREM NoUseAfterFree == Spec => []ResumesItsFrame
<1>1. IInv => ResumesItsFrame
  BY DEF IInv, FrameInv, OnItsFrame, ResumesItsFrame
<1>2. QED
  BY <1>1, Inductive, PTL

\* ~Task of a scheduled frame or of one with I/O pending (mark_abandoned): the
\* frame is still there and something still leads the loop to it.
THEOREM AbandonedNotLeaked == Spec => []AbandonedIsReclaimed
<1>1. IInv => AbandonedIsReclaimed
  BY DEF IInv, FrameInv
<1>2. QED
  BY <1>1, Inductive, PTL

\* With notifications from the loop's own thread only, no wait list, timer or
\* operation holds a frame that is gone or in another wait.
THEOREM WaitersHoldTheirFrames == Spec => []NoDanglingWaiter
<1>1. IInv => NoDanglingWaiter
  BY DEF IInv, TypeOK, FrameInv, Registered, OwnThread, Held, NoDanglingWaiter
<1>2. QED
  BY <1>1, Inductive, PTL

\* With notifications from the loop's own thread only, a frame in a wait of
\* sync.hpp is resumed by an entry of that very wait (schedule_if_current).
THEOREM NoLateWakeUp == Spec => []ResumesItsWait
<1>1. IInv => ResumesItsWait
  BY DEF IInv, OwnThread, Resumed, ResumesItsWait, NoLateNotification
<1>2. QED
  BY <1>1, Inductive, PTL

-----------------------------------------------------------------------------
(***************************************************************************)
(* Scheduler                                                               *)
(***************************************************************************)

USE DEF Threads, control, loops

-----------------------------------------------------------------------------
(* The inductive invariant.                                                *)

Spawners == Workers \cup {Owner}
Spawn == {"pending", "running", "dispatch"}
OwnerOps == Spawn \cup {"construct", "free", "wait_all", "scan", "returned", "stop", "join",
                        "destroyed"}
WorkerOps == Spawn \cup {"enter", "publish", "free", "started", "notify", "set", "swap",
                         "finish", "exit"}
JoinerOps == {"free", "check", "clear", "recheck", "suspend", "wait", "joined"}

\* The steps of a call that carries a task.
Carrying(th) == at[th][1] \in Spawn \cup {"started"}

\* A worker that has taken a task off running and not yet off active.
Finishing(w) == at[w][1] \in {"notify", "set", "swap", "finish"}

Types ==
    /\ stopped \in BOOLEAN /\ idle \in BOOLEAN /\ set \in BOOLEAN
    /\ running \in Int /\ pending \in Int /\ active \in [Workers -> Int]
    /\ event_waiters \subseteq Joiners /\ looping \subseteq Workers /\ started \subseteq Workers
    /\ status \in [Tasks -> {"new", "called", "counted", "queued", "body", "done"}]
    /\ place \in [Tasks -> Workers] /\ by \in [Tasks -> Spawners]
    /\ before \in [Joiners -> SUBSET Tasks]

\* Each kind of thread stays in its own calls.
Roles ==
    /\ DOMAIN at = Threads
    /\ at[Owner][1] \in OwnerOps /\ (at[Owner][1] = "scan" => at[Owner][2] \in Workers)
    /\ \A w \in Workers : at[w][1] \in WorkerOps
    /\ \A j \in Joiners : at[j][1] \in JoinerOps

\* A call knows its task, and the task its call.
Carries ==
    /\ \A th \in Spawners : at[th][1] \in {"pending", "running"}
         => at[th][2] \in Tasks /\ status[at[th][2]] = "called" /\ by[at[th][2]] = th
    /\ \A th \in Spawners : at[th][1] = "dispatch"
         => at[th][2] \in Tasks /\ status[at[th][2]] = "counted" /\ by[at[th][2]] = th
    /\ \A w \in Workers : at[w][1] = "started"
         => at[w][2] \in Tasks /\ status[at[w][2]] = "body" /\ place[at[w][2]] = w
    /\ \A t \in Tasks : status[t] = "called"
         => at[by[t]][1] \in {"pending", "running"} /\ at[by[t]][2] = t

\* The dispatches that pending_dispatches_ stands for, and the tasks that
\* active_coroutines_ of a worker stands for.
OnTheWay ==
    {t \in Tasks : \/ status[t] = "called" /\ at[by[t]][1] = "running"
                   \/ status[t] \in {"counted", "queued"}
                   \/ status[t] = "body" /\ at[place[t]][1] = "started" /\ at[place[t]][2] = t}
InBody(w) == {t \in Tasks : status[t] = "body" /\ place[t] = w}

Counts ==
    /\ running = Cardinality(Live)
    /\ pending = Cardinality(OnTheWay)
    /\ \A w \in Workers :
           active[w] = IF Finishing(w) THEN Cardinality(InBody(w)) + 1 ELSE Cardinality(InBody(w))
    /\ \A w \in Workers : Finishing(w) => \E t \in Tasks : status[t] = "done"

\* What wait_all has found out: no task of its own thread is on its way, nor in
\* the workers it has looked at.
Over(t) == status[t] \in {"new", "done"}
Scanned ==
    /\ at[Owner][1] = "scan" => \A t \in Tasks : by[t] = Owner
         => Over(t) \/ (status[t] = "body" /\ place[t] >= at[Owner][2])
    /\ at[Owner][1] = "returned" => \A t \in Tasks : by[t] = Owner => Over(t)

\* What a join() waits for was counted, and is over when it has returned.
Joined ==
    /\ \A j \in Joiners : \A t \in before[j] : status[t] \notin {"new", "called"}
    /\ \A j \in Joiners : at[j][1] = "joined" => before[j] \cap Live = {}

SchedulerIInv == Types /\ Roles /\ Carries /\ Counts /\ Scanned /\ Joined

-----------------------------------------------------------------------------
(* Threads, and sets of tasks.                                             *)

LEMMA ThreadsDiffer ==
    /\ Owner \notin Workers /\ Owner \notin Joiners
    /\ \A w \in Workers : w \notin Joiners
BY SchedulerAssumption

LEMMA TasksFinite == IsFiniteSet(Tasks) /\ Cardinality(Tasks) = MaxTasks
BY SchedulerAssumption, FS_Interval DEF Tasks

LEMMA Subsets ==
    ASSUME NEW S \in SUBSET Tasks
    PROVE  /\ IsFiniteSet(S) /\ Cardinality(S) \in Nat /\ Cardinality(S) <= MaxTasks
           /\ (Cardinality(S) = 0 <=> S = {})
<1>1. IsFiniteSet(S) /\ Cardinality(S) <= MaxTasks
  BY TasksFinite, FS_Subset
<1>2. QED
  BY <1>1, FS_CardinalityType, FS_EmptySet

LEMMA OneMore ==
    ASSUME NEW S \in SUBSET Tasks, NEW t \in Tasks, t \notin S
    PROVE  Cardinality(S \cup {t}) = Cardinality(S) + 1
BY Subsets, FS_AddElement

LEMMA OneLess ==
    ASSUME NEW S \in SUBSET Tasks, NEW t \in S
    PROVE  Cardinality(S \ {t}) = Cardinality(S) - 1
BY Subsets, FS_RemoveElement

\* A thread that goes to its next step leaves the others where they are.
LEMMA GoesTo ==
    ASSUME DOMAIN at = Threads, NEW th \in Threads, NEW next, Goes(th, next)
    PROVE  /\ DOMAIN at' = Threads /\ at'[th] = next
           /\ \A o \in Threads : o # th => at'[o] = at[o]
BY DEF Goes

-----------------------------------------------------------------------------
\* A step that moves threads outside the calls that carry a task, and counts
\* nothing, keeps what the calls and the counters say.
LEMMA PlainStep ==
    ASSUME Types, Carries, Counts, UNCHANGED <<status, place, by, running, pending, active>>,
           \A th \in Spawners : at'[th] = at[th] \/ (~Carrying(th) /\ ~Carrying(th)'),
           \A w \in Workers : Finishing(w)' <=> Finishing(w)
    PROVE  Carries' /\ Counts'
<1>1. Carries'
  BY DEF Types, Carries, Carrying, Spawn, Spawners
<1>2. Live' = Live
  BY DEF Live
<1>3. OnTheWay' = OnTheWay
  BY DEF OnTheWay, Types, Carrying, Spawn, Spawners
<1>4. \A w \in Workers : InBody(w)' = InBody(w)
  BY DEF InBody
<1>5. QED
  BY <1>1, <1>2, <1>3, <1>4 DEF Counts

-----------------------------------------------------------------------------
\* Every step keeps the types and each thread in its calls.
LEMMA SchedulerTypeStep == ASSUME Types, Roles, Carries, [SchedulerNext]_schedVars PROVE Types' /\ Roles'
<1>1. ASSUME Constructed PROVE Types' /\ Roles'
  BY <1>1, ThreadsDiffer, SchedulerAssumption
     DEF Constructed, Moves, Goes, NoCall, Types, Roles, Spawners, Spawn, OwnerOps, WorkerOps,
         JoinerOps
<1>2. ASSUME stop_accepting PROVE Types' /\ Roles'
  BY <1>2, ThreadsDiffer, SchedulerAssumption
     DEF stop_accepting, Moves, Goes, NoCall, Types, Roles, Spawners, Spawn, OwnerOps, WorkerOps,
         JoinerOps
<1>3. ASSUME wait_all PROVE Types' /\ Roles'
  BY <1>3, ThreadsDiffer, SchedulerAssumption
     DEF wait_all, Moves, Goes, NoCall, Types, Roles, Spawners, Spawn, OwnerOps, WorkerOps,
         JoinerOps
<1>4. ASSUME Round PROVE Types' /\ Roles'
  <2>1. 1 \in Workers
    BY SchedulerAssumption DEF Workers
  <2>2. /\ DOMAIN at' = Threads /\ at'[Owner] = <<"scan", 1>>
        /\ \A o \in Threads : o # Owner => at'[o] = at[o]
    BY <1>4, GoesTo DEF Round, Moves, Roles
  <2>3. Roles'
    BY <2>1, <2>2, ThreadsDiffer DEF Roles, Spawn, OwnerOps, WorkerOps, JoinerOps
  <2>4. QED
    BY <1>4, <2>3 DEF Round, Moves, Types
<1>5. ASSUME Scan PROVE Types' /\ Roles'
  BY <1>5, ThreadsDiffer, SchedulerAssumption
     DEF Scan, Moves, Goes, NoCall, Types, Roles, Spawners, Spawn, OwnerOps, WorkerOps,
         JoinerOps
<1>6. ASSUME StopWorker PROVE Types' /\ Roles'
  BY <1>6, ThreadsDiffer, SchedulerAssumption
     DEF StopWorker, Moves, Goes, NoCall, Types, Roles, Spawners, Spawn, OwnerOps, WorkerOps,
         JoinerOps
<1>7. ASSUME NEW th \in Spawners, CountPending(th) PROVE Types' /\ Roles'
  BY <1>7, ThreadsDiffer, SchedulerAssumption
     DEF CountPending, Moves, Goes, NoCall, Types, Roles, Spawners, Spawn, OwnerOps, WorkerOps,
         JoinerOps
<1>8. ASSUME NEW th \in Spawners, CountRunning(th) PROVE Types' /\ Roles'
  <2>1. /\ DOMAIN at' = Threads /\ at'[th] = <<"dispatch", at[th][2]>>
        /\ \A o \in Threads : o # th => at'[o] = at[o]
    BY <1>8, GoesTo DEF CountRunning, Roles, Spawners
  <2>2. Roles'
    BY <2>1, ThreadsDiffer DEF Roles, Spawn, OwnerOps, WorkerOps, JoinerOps, Spawners
  <2>3. QED
    BY <1>8, <2>2 DEF CountRunning, Types, Carries
<1>9. ASSUME NEW th \in Spawners, Dispatch(th) PROVE Types' /\ Roles'
  <2>1. /\ DOMAIN at' = Threads /\ at'[th] = <<"free">>
        /\ \A o \in Threads : o # th => at'[o] = at[o]
    BY <1>9, GoesTo DEF Dispatch, Roles, Spawners
  <2>2. Roles'
    BY <2>1, ThreadsDiffer DEF Roles, Spawn, OwnerOps, WorkerOps, JoinerOps, Spawners
  <2>3. at[th][2] \in Tasks
    BY <1>9 DEF Dispatch, Carries
  <2>4. QED
    BY <1>9, <2>2, <2>3 DEF Dispatch, Types
<1>10. ASSUME NEW th \in Spawners, NEW t \in Tasks, spawn_any(th, t) PROVE Types' /\ Roles'
  BY <1>10, ThreadsDiffer, SchedulerAssumption
     DEF spawn_any, Moves, Goes, NoCall, Types, Roles, Spawners, Spawn, OwnerOps, WorkerOps,
         JoinerOps
<1>11. ASSUME NEW w \in Workers, Enter(w) PROVE Types' /\ Roles'
  BY <1>11, ThreadsDiffer, SchedulerAssumption
     DEF Enter, Moves, Goes, NoCall, Types, Roles, Spawners, Spawn, OwnerOps, WorkerOps,
         JoinerOps
<1>12. ASSUME NEW w \in Workers, Exit(w) PROVE Types' /\ Roles'
  BY <1>12, ThreadsDiffer, SchedulerAssumption
     DEF Exit, Moves, Goes, NoCall, Types, Roles, Spawners, Spawn, OwnerOps, WorkerOps,
         JoinerOps
<1>13. ASSUME NEW w \in Workers, Started(w) PROVE Types' /\ Roles'
  BY <1>13, ThreadsDiffer, SchedulerAssumption
     DEF Started, Moves, Goes, NoCall, Types, Roles, Spawners, Spawn, OwnerOps, WorkerOps,
         JoinerOps
<1>14. ASSUME NEW w \in Workers, ReadIdle(w) PROVE Types' /\ Roles'
  BY <1>14, ThreadsDiffer, SchedulerAssumption
     DEF ReadIdle, Moves, Goes, NoCall, Types, Roles, Spawners, Spawn, OwnerOps, WorkerOps,
         JoinerOps
<1>15. ASSUME NEW w \in Workers, Set(w) PROVE Types' /\ Roles'
  BY <1>15, ThreadsDiffer, SchedulerAssumption
     DEF Set, Moves, Goes, NoCall, Types, Roles, Spawners, Spawn, OwnerOps, WorkerOps,
         JoinerOps
<1>16. ASSUME NEW w \in Workers, Swap(w) PROVE Types' /\ Roles'
  BY <1>16, ThreadsDiffer, SchedulerAssumption
     DEF Swap, Moves, Goes, NoCall, Types, Roles, Spawners, Spawn, OwnerOps, WorkerOps,
         JoinerOps
<1>17. ASSUME NEW w \in Workers, Finished(w) PROVE Types' /\ Roles'
  BY <1>17, ThreadsDiffer, SchedulerAssumption
     DEF Finished, Moves, Goes, NoCall, Types, Roles, Spawners, Spawn, OwnerOps, WorkerOps,
         JoinerOps
<1>18. ASSUME NEW w \in Workers, NEW t \in Tasks, StartTask(w, t) PROVE Types' /\ Roles'
  BY <1>18, ThreadsDiffer, SchedulerAssumption
     DEF StartTask, Moves, Goes, NoCall, Types, Roles, Spawners, Spawn, OwnerOps, WorkerOps,
         JoinerOps
<1>19. ASSUME NEW w \in Workers, NEW t \in Tasks, End(w, t) PROVE Types' /\ Roles'
  BY <1>19, ThreadsDiffer, SchedulerAssumption
     DEF End, Moves, Goes, NoCall, Types, Roles, Spawners, Spawn, OwnerOps, WorkerOps,
         JoinerOps
<1>20. ASSUME NEW j \in Joiners, join(j) PROVE Types' /\ Roles'
  <2>1. /\ DOMAIN at' = Threads /\ at'[j] = <<"check">>
        /\ \A o \in Threads : o # j => at'[o] = at[o]
    BY <1>20, GoesTo DEF join, Roles
  <2>2. Roles'
    BY <2>1, ThreadsDiffer DEF Roles, Spawn, OwnerOps, WorkerOps, JoinerOps
  <2>3. Live \subseteq Tasks
    BY DEF Live
  <2>4. QED
    BY <1>20, <2>2, <2>3 DEF join, Types
<1>21. ASSUME NEW j \in Joiners, Check(j) PROVE Types' /\ Roles'
  BY <1>21, ThreadsDiffer, SchedulerAssumption
     DEF Check, Moves, Goes, NoCall, Types, Roles, Spawners, Spawn, OwnerOps, WorkerOps,
         JoinerOps
<1>22. ASSUME NEW j \in Joiners, Clear(j) PROVE Types' /\ Roles'
  <2>1. /\ DOMAIN at' = Threads /\ at'[j] = <<"recheck">>
        /\ \A o \in Threads : o # j => at'[o] = at[o]
    BY <1>22, GoesTo DEF Clear, Roles
  <2>2. Roles'
    BY <2>1, ThreadsDiffer DEF Roles, Spawn, OwnerOps, WorkerOps, JoinerOps
  <2>3. QED
    BY <1>22, <2>2 DEF Clear, Types
<1>23. ASSUME NEW j \in Joiners, Recheck(j) PROVE Types' /\ Roles'
  BY <1>23, ThreadsDiffer, SchedulerAssumption
     DEF Recheck, Moves, Goes, NoCall, Types, Roles, Spawners, Spawn, OwnerOps, WorkerOps,
         JoinerOps
<1>24. ASSUME NEW j \in Joiners, Suspend(j) PROVE Types' /\ Roles'
  BY <1>24, ThreadsDiffer, SchedulerAssumption
     DEF Suspend, Moves, Goes, NoCall, Types, Roles, Spawners, Spawn, OwnerOps, WorkerOps,
         JoinerOps
<1>25. ASSUME UNCHANGED schedVars PROVE Types' /\ Roles'
  BY <1>25, ThreadsDiffer, SchedulerAssumption
     DEF schedVars, Moves, Goes, NoCall, Types, Roles, Spawners, Spawn, OwnerOps, WorkerOps,
         JoinerOps
<1>26. QED
  BY <1>1, <1>2, <1>3, <1>4, <1>5, <1>6, <1>7, <1>8, <1>9, <1>10, <1>11, <1>12,
     <1>13, <1>14, <1>15, <1>16, <1>17, <1>18, <1>19, <1>20, <1>21, <1>22, <1>23,
     <1>24, <1>25
     DEF SchedulerNext, Spawning, Working, Joining, Spawners

-----------------------------------------------------------------------------
\* Every step keeps the calls with their tasks and the counters exact.
LEMMA CountStep ==
    ASSUME Types, Roles, Carries, Counts, [SchedulerNext]_schedVars PROVE Carries' /\ Counts'
<1>1. ASSUME Constructed PROVE Carries' /\ Counts'
  <2>1. UNCHANGED <<status, place, by, running, pending, active>>
    BY <1>1 DEF Constructed, Moves
  <2>2. /\ \A th \in Spawners : at'[th] = at[th] \/ (~Carrying(th) /\ ~Carrying(th)')
        /\ \A w \in Workers : Finishing(w)' <=> Finishing(w)
    BY <1>1, ThreadsDiffer DEF Constructed, Moves, Goes, NoCall, Roles, Carrying, Finishing, Spawn, Spawners
  <2>3. QED
    BY <2>1, <2>2, PlainStep
<1>2. ASSUME stop_accepting PROVE Carries' /\ Counts'
  <2>1. UNCHANGED <<status, place, by, running, pending, active>>
    BY <1>2 DEF stop_accepting, Moves
  <2>2. /\ \A th \in Spawners : at'[th] = at[th] \/ (~Carrying(th) /\ ~Carrying(th)')
        /\ \A w \in Workers : Finishing(w)' <=> Finishing(w)
    BY <1>2, ThreadsDiffer DEF stop_accepting, Moves, Goes, NoCall, Roles, Carrying, Finishing, Spawn, Spawners
  <2>3. QED
    BY <2>1, <2>2, PlainStep
<1>3. ASSUME wait_all PROVE Carries' /\ Counts'
  <2>1. UNCHANGED <<status, place, by, running, pending, active>>
    BY <1>3 DEF wait_all, Moves
  <2>2. /\ \A th \in Spawners : at'[th] = at[th] \/ (~Carrying(th) /\ ~Carrying(th)')
        /\ \A w \in Workers : Finishing(w)' <=> Finishing(w)
    BY <1>3, ThreadsDiffer DEF wait_all, Moves, Goes, NoCall, Roles, Carrying, Finishing, Spawn, Spawners
  <2>3. QED
    BY <2>1, <2>2, PlainStep
<1>4. ASSUME Round PROVE Carries' /\ Counts'
  <2>1. UNCHANGED <<status, place, by, running, pending, active>>
    BY <1>4 DEF Round, Moves
  <2>2. /\ \A th \in Spawners : at'[th] = at[th] \/ (~Carrying(th) /\ ~Carrying(th)')
        /\ \A w \in Workers : Finishing(w)' <=> Finishing(w)
    BY <1>4, ThreadsDiffer DEF Round, Moves, Goes, NoCall, Roles, Carrying, Finishing, Spawn, Spawners
  <2>3. QED
    BY <2>1, <2>2, PlainStep
<1>5. ASSUME Scan PROVE Carries' /\ Counts'
  <2>1. UNCHANGED <<status, place, by, running, pending, active>>
    BY <1>5 DEF Scan, Moves
  <2>2. /\ \A th \in Spawners : at'[th] = at[th] \/ (~Carrying(th) /\ ~Carrying(th)')
        /\ \A w \in Workers : Finishing(w)' <=> Finishing(w)
    BY <1>5, ThreadsDiffer DEF Scan, Moves, Goes, NoCall, Roles, Carrying, Finishing, Spawn, Spawners
  <2>3. QED
    BY <2>1, <2>2, PlainStep
<1>6. ASSUME StopWorker PROVE Carries' /\ Counts'
  <2>1. UNCHANGED <<status, place, by, running, pending, active>>
    BY <1>6 DEF StopWorker, Moves
  <2>2. /\ \A th \in Spawners : at'[th] = at[th] \/ (~Carrying(th) /\ ~Carrying(th)')
        /\ \A w \in Workers : Finishing(w)' <=> Finishing(w)
    BY <1>6, ThreadsDiffer DEF StopWorker, Moves, Goes, NoCall, Roles, Carrying, Finishing, Spawn, Spawners
  <2>3. QED
    BY <2>1, <2>2, PlainStep
<1>7. ASSUME NEW th \in Spawners, CountPending(th) PROVE Carries' /\ Counts'
  <2> DEFINE t == at[th][2]
  <2>1. /\ DOMAIN at' = Threads /\ at'[th] = <<"running", at[th][2]>>
        /\ \A o \in Threads : o # th => at'[o] = at[o]
    BY <1>7, GoesTo DEF CountPending, Roles, Spawners
  <2>2. /\ at[th][1] = "pending" /\ t \in Tasks /\ status[t] = "called" /\ by[t] = th
        /\ pending' = pending + 1
        /\ UNCHANGED <<status, place, by, running, active>>
    BY <1>7 DEF CountPending, Carries
  <2>3. Carries'
    BY <2>1, <2>2 DEF Carries, Types, Spawners
  <2>4. OnTheWay' = OnTheWay \cup {t} /\ t \notin OnTheWay
    BY <2>1, <2>2 DEF OnTheWay, Carries, Types, Spawners
  <2>5. pending' = Cardinality(OnTheWay')
    <3>1. OnTheWay \in SUBSET Tasks
      BY DEF OnTheWay
    <3>2. QED
      BY <2>2, <2>4, <3>1, OneMore DEF Counts
  <2>6. Live' = Live /\ \A w \in Workers : InBody(w)' = InBody(w)
    BY <2>2 DEF Live, InBody
  <2>7. \A w \in Workers : Finishing(w)' <=> Finishing(w)
    BY <2>1, <2>2 DEF Finishing
  <2>8. QED
    BY <2>2, <2>3, <2>5, <2>6, <2>7 DEF Counts
<1>8. ASSUME NEW th \in Spawners, CountRunning(th) PROVE Carries' /\ Counts'
  <2> DEFINE t == at[th][2]
  <2>1. /\ DOMAIN at' = Threads /\ at'[th] = <<"dispatch", at[th][2]>>
        /\ \A o \in Threads : o # th => at'[o] = at[o]
    BY <1>8, GoesTo DEF CountRunning, Roles, Spawners
  <2>2. /\ at[th][1] = "running" /\ t \in Tasks /\ status[t] = "called" /\ by[t] = th
        /\ running' = running + 1 /\ status' = [status EXCEPT ![t] = "counted"]
        /\ UNCHANGED <<place, by, pending, active>>
    BY <1>8 DEF CountRunning, Carries
  <2>3. status'[t] = "counted" /\ \A u \in Tasks : u # t => status'[u] = status[u]
    BY <2>2 DEF Types
  <2>4. Carries'
    BY <2>1, <2>2, <2>3 DEF Carries, Types, Spawners
  <2>5. OnTheWay' = OnTheWay
    BY <2>1, <2>2, <2>3 DEF OnTheWay, Carries, Types, Spawners
  <2>6. Live' = Live \cup {t} /\ t \notin Live
    BY <2>2, <2>3 DEF Live
  <2>7. running' = Cardinality(Live')
    <3>1. Live \in SUBSET Tasks
      BY DEF Live
    <3>2. running = Cardinality(Live)
      BY DEF Counts
    <3>3. Cardinality(Live \cup {t}) = Cardinality(Live) + 1
      BY <2>2, <2>6, <3>1, OneMore
    <3>4. QED
      BY <2>2, <2>6, <3>2, <3>3
  <2>8. \A w \in Workers : InBody(w)' = InBody(w)
    BY <2>2, <2>3 DEF InBody
  <2>9. \A w \in Workers : Finishing(w)' <=> Finishing(w)
    BY <2>1, <2>2 DEF Finishing
  <2>10. \A u \in Tasks : status[u] = "done" => status'[u] = "done"
    BY <2>2, <2>3
  <2>11. QED
    BY <2>2, <2>4, <2>5, <2>7, <2>8, <2>9, <2>10 DEF Counts
<1>9. ASSUME NEW th \in Spawners, Dispatch(th) PROVE Carries' /\ Counts'
  <2> DEFINE t == at[th][2]
  <2>1. /\ DOMAIN at' = Threads /\ at'[th] = <<"free">>
        /\ \A o \in Threads : o # th => at'[o] = at[o]
    BY <1>9, GoesTo DEF Dispatch, Roles, Spawners
  <2>2. /\ at[th][1] = "dispatch" /\ t \in Tasks /\ status[t] = "counted" /\ by[t] = th
        /\ status' = [status EXCEPT ![t] = "queued"]
        /\ UNCHANGED <<by, running, pending, active>>
    BY <1>9 DEF Dispatch, Carries
  <2>3. /\ status'[t] = "queued" /\ \A u \in Tasks : u # t => status'[u] = status[u]
        /\ \A u \in Tasks : u # t => place'[u] = place[u]
    BY <1>9, <2>2 DEF Dispatch, Types
  <2>4. Carries'
    BY <2>1, <2>2, <2>3 DEF Carries, Types, Spawners
  <2>5. OnTheWay' = OnTheWay
    BY <2>1, <2>2, <2>3 DEF OnTheWay, Carries, Types, Spawners
  <2>6. Live' = Live /\ \A w \in Workers : InBody(w)' = InBody(w)
    BY <2>2, <2>3 DEF Live, InBody
  <2>7. \A w \in Workers : Finishing(w)' <=> Finishing(w)
    BY <2>1, <2>2 DEF Finishing
  <2>8. \A u \in Tasks : status[u] = "done" => status'[u] = "done"
    BY <2>2, <2>3
  <2>9. QED
    BY <2>2, <2>4, <2>5, <2>6, <2>7, <2>8 DEF Counts
<1>10. ASSUME NEW th \in Spawners, NEW t \in Tasks, spawn_any(th, t) PROVE Carries' /\ Counts'
  <2>1. /\ DOMAIN at' = Threads /\ at'[th] = <<"pending", t>>
        /\ \A o \in Threads : o # th => at'[o] = at[o]
    BY <1>10, GoesTo DEF spawn_any, Roles, Spawners
  <2>2. /\ at[th][1] = "free" /\ status[t] = "new"
        /\ status' = [status EXCEPT ![t] = "called"] /\ by' = [by EXCEPT ![t] = th]
        /\ UNCHANGED <<place, running, pending, active>>
    BY <1>10 DEF spawn_any, NoCall
  <2>3. /\ status'[t] = "called" /\ by'[t] = th
        /\ \A u \in Tasks : u # t => status'[u] = status[u] /\ by'[u] = by[u]
    BY <2>2 DEF Types
  <2>4. Carries'
    BY <2>1, <2>2, <2>3 DEF Carries, Types, Spawners
  <2>5. OnTheWay' = OnTheWay
    BY <2>1, <2>2, <2>3 DEF OnTheWay, Carries, Types, Spawners
  <2>6. Live' = Live /\ \A w \in Workers : InBody(w)' = InBody(w)
    BY <2>2, <2>3 DEF Live, InBody
  <2>7. \A w \in Workers : Finishing(w)' <=> Finishing(w)
    BY <2>1, <2>2 DEF Finishing
  <2>8. \A u \in Tasks : status[u] = "done" => status'[u] = "done"
    BY <2>2, <2>3
  <2>9. QED
    BY <2>2, <2>4, <2>5, <2>6, <2>7, <2>8 DEF Counts
<1>11. ASSUME NEW w \in Workers, Enter(w) PROVE Carries' /\ Counts'
  <2>1. UNCHANGED <<status, place, by, running, pending, active>>
    BY <1>11 DEF Enter, Moves
  <2>2. /\ \A th \in Spawners : at'[th] = at[th] \/ (~Carrying(th) /\ ~Carrying(th)')
        /\ \A v \in Workers : Finishing(v)' <=> Finishing(v)
    BY <1>11, ThreadsDiffer DEF Enter, Moves, Goes, NoCall, Roles, Carrying, Finishing, Spawn, Spawners
  <2>3. QED
    BY <2>1, <2>2, PlainStep
<1>12. ASSUME NEW w \in Workers, Exit(w) PROVE Carries' /\ Counts'
  <2>1. UNCHANGED <<status, place, by, running, pending, active>>
    BY <1>12 DEF Exit, Moves
  <2>2. /\ \A th \in Spawners : at'[th] = at[th] \/ (~Carrying(th) /\ ~Carrying(th)')
        /\ \A v \in Workers : Finishing(v)' <=> Finishing(v)
    BY <1>12, ThreadsDiffer DEF Exit, Moves, Goes, NoCall, Roles, Carrying, Finishing, Spawn, Spawners
  <2>3. QED
    BY <2>1, <2>2, PlainStep
<1>13. ASSUME NEW w \in Workers, Started(w) PROVE Carries' /\ Counts'
  <2> DEFINE t == at[w][2]
  <2>1. /\ DOMAIN at' = Threads /\ at'[w] = <<"free">>
        /\ \A o \in Threads : o # w => at'[o] = at[o]
    BY <1>13, GoesTo DEF Started, Roles, Spawners
  <2>2. /\ at[w][1] = "started" /\ t \in Tasks /\ status[t] = "body" /\ place[t] = w
        /\ pending' = pending - 1
        /\ UNCHANGED <<status, place, by, running, active>>
    BY <1>13 DEF Started, Carries
  <2>3. Carries'
    BY <2>1, <2>2 DEF Carries, Types, Spawners
  <2>4. OnTheWay' = OnTheWay \ {t} /\ t \in OnTheWay
    BY <2>1, <2>2 DEF OnTheWay, Carries, Types, Spawners
  <2>5. pending' = Cardinality(OnTheWay')
    <3>1. OnTheWay \in SUBSET Tasks
      BY DEF OnTheWay
    <3>2. QED
      BY <2>2, <2>4, <3>1, OneLess DEF Counts
  <2>6. Live' = Live /\ \A v \in Workers : InBody(v)' = InBody(v)
    BY <2>2 DEF Live, InBody
  <2>7. \A v \in Workers : Finishing(v)' <=> Finishing(v)
    BY <2>1, <2>2 DEF Finishing
  <2>8. QED
    BY <2>2, <2>3, <2>5, <2>6, <2>7 DEF Counts
<1>14. ASSUME NEW w \in Workers, ReadIdle(w) PROVE Carries' /\ Counts'
  <2>1. UNCHANGED <<status, place, by, running, pending, active>>
    BY <1>14 DEF ReadIdle, Moves
  <2>2. /\ \A th \in Spawners : at'[th] = at[th] \/ (~Carrying(th) /\ ~Carrying(th)')
        /\ \A v \in Workers : Finishing(v)' <=> Finishing(v)
    BY <1>14, ThreadsDiffer DEF ReadIdle, Moves, Goes, NoCall, Roles, Carrying, Finishing, Spawn, Spawners
  <2>3. QED
    BY <2>1, <2>2, PlainStep
<1>15. ASSUME NEW w \in Workers, Set(w) PROVE Carries' /\ Counts'
  <2>1. UNCHANGED <<status, place, by, running, pending, active>>
    BY <1>15 DEF Set, Moves
  <2>2. /\ \A th \in Spawners : at'[th] = at[th] \/ (~Carrying(th) /\ ~Carrying(th)')
        /\ \A v \in Workers : Finishing(v)' <=> Finishing(v)
    BY <1>15, ThreadsDiffer DEF Set, Moves, Goes, NoCall, Roles, Carrying, Finishing, Spawn, Spawners
  <2>3. QED
    BY <2>1, <2>2, PlainStep
<1>16. ASSUME NEW w \in Workers, Swap(w) PROVE Carries' /\ Counts'
  <2>1. UNCHANGED <<status, place, by, running, pending, active>>
    BY <1>16 DEF Swap, Moves
  <2>2. /\ \A th \in Spawners : at'[th] = at[th] \/ (~Carrying(th) /\ ~Carrying(th)')
        /\ \A v \in Workers : Finishing(v)' <=> Finishing(v)
    BY <1>16, ThreadsDiffer DEF Swap, Moves, Goes, NoCall, Types, Roles, Carrying, Finishing, Spawn, Spawners
  <2>3. QED
    BY <2>1, <2>2, PlainStep
<1>17. ASSUME NEW w \in Workers, Finished(w) PROVE Carries' /\ Counts'
  <2>1. /\ DOMAIN at' = Threads /\ at'[w] = <<"free">>
        /\ \A o \in Threads : o # w => at'[o] = at[o]
    BY <1>17, GoesTo DEF Finished, Roles, Spawners
  <2>2. /\ at[w][1] = "finish" /\ active' = [active EXCEPT ![w] = @ - 1]
        /\ UNCHANGED <<status, place, by, running, pending>>
    BY <1>17 DEF Finished
  <2>3. Carries' /\ OnTheWay' = OnTheWay
    BY <2>1, <2>2 DEF Carries, OnTheWay, Types, Spawners
  <2>4. Live' = Live /\ \A v \in Workers : InBody(v)' = InBody(v)
    BY <2>2 DEF Live, InBody
  <2>5. /\ Finishing(w) /\ ~Finishing(w)'
        /\ \A v \in Workers : v # w => (Finishing(v)' <=> Finishing(v))
    BY <2>1, <2>2 DEF Finishing
  <2>6. Cardinality(InBody(w)) \in Nat
    BY Subsets DEF InBody
  <2>7. /\ active'[w] = Cardinality(InBody(w))
        /\ \A v \in Workers : v # w => active'[v] = active[v]
    BY <2>2, <2>5, <2>6 DEF Counts, Types
  <2>8. QED
    BY <2>2, <2>3, <2>4, <2>5, <2>7 DEF Counts
<1>18. ASSUME NEW w \in Workers, NEW t \in Tasks, StartTask(w, t) PROVE Carries' /\ Counts'
  <2>1. /\ DOMAIN at' = Threads /\ at'[w] = <<"started", t>>
        /\ \A o \in Threads : o # w => at'[o] = at[o]
    BY <1>18, GoesTo DEF StartTask, Roles, Spawners
  <2>2. /\ at[w][1] = "free" /\ status[t] = "queued" /\ place[t] = w
        /\ active' = [active EXCEPT ![w] = @ + 1] /\ status' = [status EXCEPT ![t] = "body"]
        /\ UNCHANGED <<place, by, running, pending>>
    BY <1>18 DEF StartTask, NoCall
  <2>3. status'[t] = "body" /\ \A u \in Tasks : u # t => status'[u] = status[u]
    BY <2>2 DEF Types
  <2>4. Carries'
    BY <2>1, <2>2, <2>3 DEF Carries, Types, Spawners
  <2>5. OnTheWay' = OnTheWay
    BY <2>1, <2>2, <2>3 DEF OnTheWay, Carries, Types, Spawners
  <2>6. Live' = Live
    BY <2>2, <2>3 DEF Live
  <2>7. /\ InBody(w)' = InBody(w) \cup {t} /\ t \notin InBody(w)
        /\ \A v \in Workers : v # w => InBody(v)' = InBody(v)
    BY <2>2, <2>3 DEF InBody
  <2>8. \A v \in Workers : Finishing(v)' <=> Finishing(v)
    BY <2>1, <2>2 DEF Finishing
  <2>9. ~Finishing(w)
    BY <2>2 DEF Finishing
  <2>10. /\ active'[w] = Cardinality(InBody(w)')
         /\ \A v \in Workers : v # w => active'[v] = active[v]
    <3>1. InBody(w) \in SUBSET Tasks
      BY DEF InBody
    <3>2. Cardinality(InBody(w)') = Cardinality(InBody(w)) + 1
      BY <2>7, <3>1, OneMore
    <3>3. QED
      BY <2>2, <2>9, <3>2 DEF Counts, Types
  <2>11. \A u \in Tasks : status[u] = "done" => status'[u] = "done"
    BY <2>2, <2>3
  <2>12. QED
    BY <2>2, <2>4, <2>5, <2>6, <2>7, <2>8, <2>9, <2>10, <2>11 DEF Counts
<1>19. ASSUME NEW w \in Workers, NEW t \in Tasks, End(w, t) PROVE Carries' /\ Counts'
  <2>1. /\ DOMAIN at' = Threads /\ at'[w] \in {<<"notify">>, <<"finish">>}
        /\ \A o \in Threads : o # w => at'[o] = at[o]
    BY <1>19 DEF End, Goes, Roles
  <2>2. /\ at[w][1] = "free" /\ status[t] = "body" /\ place[t] = w
        /\ running' = running - 1 /\ status' = [status EXCEPT ![t] = "done"]
        /\ UNCHANGED <<place, by, pending, active>>
    BY <1>19 DEF End, NoCall
  <2>3. status'[t] = "done" /\ \A u \in Tasks : u # t => status'[u] = status[u]
    BY <2>2 DEF Types
  <2>4. Carries'
    BY <2>1, <2>2, <2>3 DEF Carries, Types, Spawners
  <2>5. OnTheWay' = OnTheWay
    BY <2>1, <2>2, <2>3 DEF OnTheWay, Carries, Types, Spawners
  <2>6. Live' = Live \ {t} /\ t \in Live
    BY <2>2, <2>3 DEF Live
  <2>7. running' = Cardinality(Live')
    BY <2>2, <2>6, OneLess DEF Counts, Live
  <2>8. /\ InBody(w)' = InBody(w) \ {t} /\ t \in InBody(w)
        /\ \A v \in Workers : v # w => InBody(v)' = InBody(v)
    BY <2>2, <2>3 DEF InBody
  <2>9. /\ ~Finishing(w) /\ Finishing(w)'
        /\ \A v \in Workers : v # w => (Finishing(v)' <=> Finishing(v))
    BY <2>1, <2>2 DEF Finishing
  <2>10. Cardinality(InBody(w)) \in Nat /\ Cardinality(InBody(w)') = Cardinality(InBody(w)) - 1
    BY <2>8, OneLess, Subsets DEF InBody
  <2>11. active'[w] = Cardinality(InBody(w)') + 1
    BY <2>2, <2>9, <2>10 DEF Counts
  <2>12. QED
    BY <2>2, <2>3, <2>4, <2>5, <2>7, <2>8, <2>9, <2>11 DEF Counts
<1>20. ASSUME NEW j \in Joiners, join(j) PROVE Carries' /\ Counts'
  <2>1. UNCHANGED <<status, place, by, running, pending, active>>
    BY <1>20 DEF join, Moves
  <2>2. /\ \A th \in Spawners : at'[th] = at[th] \/ (~Carrying(th) /\ ~Carrying(th)')
        /\ \A w \in Workers : Finishing(w)' <=> Finishing(w)
    BY <1>20, ThreadsDiffer DEF join, Moves, Goes, NoCall, Roles, Carrying, Finishing, Spawn, Spawners
  <2>3. QED
    BY <2>1, <2>2, PlainStep
<1>21. ASSUME NEW j \in Joiners, Check(j) PROVE Carries' /\ Counts'
  <2>1. UNCHANGED <<status, place, by, running, pending, active>>
    BY <1>21 DEF Check, Moves
  <2>2. /\ \A th \in Spawners : at'[th] = at[th] \/ (~Carrying(th) /\ ~Carrying(th)')
        /\ \A w \in Workers : Finishing(w)' <=> Finishing(w)
    BY <1>21, ThreadsDiffer DEF Check, Moves, Goes, NoCall, Roles, Carrying, Finishing, Spawn, Spawners
  <2>3. QED
    BY <2>1, <2>2, PlainStep
<1>22. ASSUME NEW j \in Joiners, Clear(j) PROVE Carries' /\ Counts'
  <2>1. UNCHANGED <<status, place, by, running, pending, active>>
    BY <1>22 DEF Clear, Moves
  <2>2. /\ \A th \in Spawners : at'[th] = at[th] \/ (~Carrying(th) /\ ~Carrying(th)')
        /\ \A w \in Workers : Finishing(w)' <=> Finishing(w)
    BY <1>22, ThreadsDiffer DEF Clear, Moves, Goes, NoCall, Roles, Carrying, Finishing, Spawn, Spawners
  <2>3. QED
    BY <2>1, <2>2, PlainStep
<1>23. ASSUME NEW j \in Joiners, Recheck(j) PROVE Carries' /\ Counts'
  <2>1. UNCHANGED <<status, place, by, running, pending, active>>
    BY <1>23 DEF Recheck, Moves
  <2>2. /\ \A th \in Spawners : at'[th] = at[th] \/ (~Carrying(th) /\ ~Carrying(th)')
        /\ \A w \in Workers : Finishing(w)' <=> Finishing(w)
    BY <1>23, ThreadsDiffer DEF Recheck, Moves, Goes, NoCall, Roles, Carrying, Finishing, Spawn, Spawners
  <2>3. QED
    BY <2>1, <2>2, PlainStep
<1>24. ASSUME NEW j \in Joiners, Suspend(j) PROVE Carries' /\ Counts'
  <2>1. UNCHANGED <<status, place, by, running, pending, active>>
    BY <1>24 DEF Suspend, Moves
  <2>2. /\ \A th \in Spawners : at'[th] = at[th] \/ (~Carrying(th) /\ ~Carrying(th)')
        /\ \A w \in Workers : Finishing(w)' <=> Finishing(w)
    BY <1>24, ThreadsDiffer DEF Suspend, Moves, Goes, NoCall, Roles, Carrying, Finishing, Spawn, Spawners
  <2>3. QED
    BY <2>1, <2>2, PlainStep
<1>25. ASSUME UNCHANGED schedVars PROVE Carries' /\ Counts'
  <2>1. UNCHANGED <<status, place, by, running, pending, active, at>>
    BY <1>25 DEF schedVars
  <2>2. QED
    BY <2>1, PlainStep DEF Finishing
<1>26. QED
  BY <1>1, <1>2, <1>3, <1>4, <1>5, <1>6, <1>7, <1>8, <1>9, <1>10, <1>11, <1>12,
     <1>13, <1>14, <1>15, <1>16, <1>17, <1>18, <1>19, <1>20, <1>21, <1>22, <1>23,
     <1>24, <1>25
     DEF SchedulerNext, Spawning, Working, Joining, Spawners

-----------------------------------------------------------------------------
\* A task that wait_all has seen on a worker or over: all it can do is end.
TaskGoesOn(t) ==
    /\ by[t] = Owner
    /\ \/ status[t] = "queued"
       \/ place'[t] = place[t] /\ status'[t] \in {status[t], "done"}

LEMMA ScanKept ==
    ASSUME Types, Scanned,
           at'[Owner] = at[Owner] \/ at'[Owner][1] \notin {"scan", "returned"},
           \A t \in Tasks : by'[t] = Owner => TaskGoesOn(t)
    PROVE  Scanned'
BY DEF Scanned, TaskGoesOn, Over

\* Every step keeps what a wait_all under way has found out.
LEMMA ScanStep ==
    ASSUME Types, Roles, Carries, Counts, Scanned, [SchedulerNext]_schedVars PROVE Scanned'
<1>1. ASSUME Constructed PROVE Scanned'
  <2>1. at'[Owner] = at[Owner] \/ at'[Owner][1] \notin {"scan", "returned"}
    BY <1>1, ThreadsDiffer DEF Constructed, Moves, Goes, NoCall, Roles, Spawners
  <2>2. \A u \in Tasks : by'[u] = Owner => TaskGoesOn(u)
    BY <1>1 DEF Constructed, Moves, TaskGoesOn
  <2>3. QED
    BY <2>1, <2>2, ScanKept
<1>2. ASSUME stop_accepting PROVE Scanned'
  <2>1. at'[Owner] = at[Owner] \/ at'[Owner][1] \notin {"scan", "returned"}
    BY <1>2, ThreadsDiffer DEF stop_accepting, Moves, Goes, NoCall, Roles, Spawners
  <2>2. \A u \in Tasks : by'[u] = Owner => TaskGoesOn(u)
    BY <1>2 DEF stop_accepting, Moves, TaskGoesOn
  <2>3. QED
    BY <2>1, <2>2, ScanKept
<1>3. ASSUME wait_all PROVE Scanned'
  <2>1. at'[Owner] = at[Owner] \/ at'[Owner][1] \notin {"scan", "returned"}
    BY <1>3, ThreadsDiffer DEF wait_all, Moves, Goes, NoCall, Roles, Spawners
  <2>2. \A u \in Tasks : by'[u] = Owner => TaskGoesOn(u)
    BY <1>3 DEF wait_all, Moves, TaskGoesOn
  <2>3. QED
    BY <2>1, <2>2, ScanKept
<1>4. ASSUME Round PROVE Scanned'
  <2>1. /\ at[Owner] = <<"wait_all">> /\ pending = 0 /\ at'[Owner] = <<"scan", 1>>
        /\ UNCHANGED <<status, place, by>>
    BY <1>4 DEF Round, Moves, Goes, Roles
  <2>2. OnTheWay = {}
    <3>1. OnTheWay \in SUBSET Tasks
      BY DEF OnTheWay
    <3>2. QED
      BY <2>1, <3>1, Subsets DEF Counts
  <2>3. \A t \in Tasks : by[t] = Owner => Over(t) \/ status[t] = "body"
    BY <2>1, <2>2 DEF OnTheWay, Over, Carries, Types
  <2>4. \A t \in Tasks : place[t] >= 1
    BY DEF Types, Workers
  <2>5. QED
    BY <2>1, <2>3, <2>4 DEF Scanned, Over
<1>5. ASSUME Scan PROVE Scanned'
  <2> DEFINE w == at[Owner][2]
  <2>1. at[Owner][1] = "scan" /\ w \in Workers /\ UNCHANGED <<status, place, by>>
    BY <1>5 DEF Scan, Moves, Roles
  <2>2. CASE active[w] > 0
    BY <1>5, <2>2 DEF Scan, Moves, Goes, Roles, Scanned
  <2>3. CASE ~(active[w] > 0)
    <3>1. at'[Owner] = IF w + 1 \in Workers THEN <<"scan", w + 1>> ELSE <<"returned">>
      BY <1>5, <2>3 DEF Scan, Moves, Goes, Roles
    <3>2. InBody(w) \in SUBSET Tasks /\ active[w] \in Int
      BY <2>1 DEF InBody, Types
    <3>3. Cardinality(InBody(w)) \in Nat
      BY <3>2, Subsets
    <3>4. Cardinality(InBody(w)) = 0
      BY <2>1, <2>3, <3>2, <3>3 DEF Counts
    <3>5. InBody(w) = {}
      BY <3>2, <3>4, Subsets
    <3>6. \A t \in Tasks : place[t] \in Int /\ place[t] <= NumWorkers /\ w \in Int /\ 1 <= w
      BY <2>1, SchedulerAssumption DEF Types, Workers
    <3>7. \A t \in Tasks : by[t] = Owner => Over(t) \/ (status[t] = "body" /\ place[t] >= w + 1)
      BY <2>1, <3>5, <3>6 DEF Scanned, InBody
    <3>8. CASE w + 1 \in Workers
      BY <2>1, <3>1, <3>7, <3>8 DEF Scanned, Over
    <3>9. CASE w + 1 \notin Workers
      <4>1. w + 1 > NumWorkers
        BY <2>1, <3>9, SchedulerAssumption DEF Workers
      <4>2. \A t \in Tasks : by[t] = Owner => Over(t)
        BY <3>6, <3>7, <4>1, SchedulerAssumption
      <4>3. QED
        BY <2>1, <3>1, <3>9, <4>2 DEF Scanned, Over
    <3>10. QED
      BY <3>8, <3>9
  <2>4. QED
    BY <2>2, <2>3
<1>6. ASSUME StopWorker PROVE Scanned'
  <2>1. at'[Owner] = at[Owner] \/ at'[Owner][1] \notin {"scan", "returned"}
    BY <1>6, ThreadsDiffer DEF StopWorker, Moves, Goes, NoCall, Roles, Spawners
  <2>2. \A u \in Tasks : by'[u] = Owner => TaskGoesOn(u)
    BY <1>6 DEF StopWorker, Moves, TaskGoesOn
  <2>3. QED
    BY <2>1, <2>2, ScanKept
<1>7. ASSUME NEW th \in Spawners, CountPending(th) PROVE Scanned'
  <2>1. at'[Owner] = at[Owner] \/ at'[Owner][1] \notin {"scan", "returned"}
    BY <1>7, ThreadsDiffer DEF CountPending, Goes, NoCall, Roles, Spawners
  <2>2. CASE th = Owner
    BY <1>7, <2>2 DEF CountPending, Goes, Roles, Scanned
  <2>3. CASE th # Owner
    <3>1. /\ by' = by
          /\ \A u \in Tasks : by[u] = Owner => status'[u] = status[u] /\ place'[u] = place[u]
      BY <1>7, <2>3 DEF CountPending, Carries, Types
    <3>2. QED
      BY <2>1, <3>1, ScanKept DEF TaskGoesOn
  <2>4. QED
    BY <2>2, <2>3
<1>8. ASSUME NEW th \in Spawners, CountRunning(th) PROVE Scanned'
  <2>1. at'[Owner] = at[Owner] \/ at'[Owner][1] \notin {"scan", "returned"}
    BY <1>8, ThreadsDiffer DEF CountRunning, Goes, NoCall, Roles, Spawners
  <2>2. CASE th = Owner
    BY <1>8, <2>2 DEF CountRunning, Goes, Roles, Scanned
  <2>3. CASE th # Owner
    <3>1. /\ by' = by
          /\ \A u \in Tasks : by[u] = Owner => status'[u] = status[u] /\ place'[u] = place[u]
      BY <1>8, <2>3 DEF CountRunning, Carries, Types
    <3>2. QED
      BY <2>1, <3>1, ScanKept DEF TaskGoesOn
  <2>4. QED
    BY <2>2, <2>3
<1>9. ASSUME NEW th \in Spawners, Dispatch(th) PROVE Scanned'
  <2>1. at'[Owner] = at[Owner] \/ at'[Owner][1] \notin {"scan", "returned"}
    BY <1>9, ThreadsDiffer DEF Dispatch, Goes, NoCall, Roles, Spawners
  <2>2. CASE th = Owner
    BY <1>9, <2>2 DEF Dispatch, Goes, Roles, Scanned
  <2>3. CASE th # Owner
    <3>1. /\ by' = by
          /\ \A u \in Tasks : by[u] = Owner => status'[u] = status[u] /\ place'[u] = place[u]
      BY <1>9, <2>3 DEF Dispatch, Carries, Types
    <3>2. QED
      BY <2>1, <3>1, ScanKept DEF TaskGoesOn
  <2>4. QED
    BY <2>2, <2>3
<1>10. ASSUME NEW th \in Spawners, NEW t \in Tasks, spawn_any(th, t) PROVE Scanned'
  <2>1. at'[Owner] = at[Owner] \/ at'[Owner][1] \notin {"scan", "returned"}
    BY <1>10, ThreadsDiffer DEF spawn_any, Goes, NoCall, Roles, Spawners
  <2>2. CASE th = Owner
    BY <1>10, <2>2 DEF spawn_any, Goes, Roles, Scanned
  <2>3. CASE th # Owner
    <3>1. \A u \in Tasks : by'[u] = Owner => TaskGoesOn(u)
      BY <1>10, <2>3 DEF spawn_any, Types, TaskGoesOn
    <3>2. QED
      BY <2>1, <3>1, ScanKept
  <2>4. QED
    BY <2>2, <2>3
<1>11. ASSUME NEW w \in Workers, Enter(w) PROVE Scanned'
  <2>1. at'[Owner] = at[Owner] \/ at'[Owner][1] \notin {"scan", "returned"}
    BY <1>11, ThreadsDiffer DEF Enter, Moves, Goes, NoCall, Roles, Spawners
  <2>2. \A u \in Tasks : by'[u] = Owner => TaskGoesOn(u)
    BY <1>11 DEF Enter, Moves, TaskGoesOn
  <2>3. QED
    BY <2>1, <2>2, ScanKept
<1>12. ASSUME NEW w \in Workers, Exit(w) PROVE Scanned'
  <2>1. at'[Owner] = at[Owner] \/ at'[Owner][1] \notin {"scan", "returned"}
    BY <1>12, ThreadsDiffer DEF Exit, Moves, Goes, NoCall, Roles, Spawners
  <2>2. \A u \in Tasks : by'[u] = Owner => TaskGoesOn(u)
    BY <1>12 DEF Exit, Moves, TaskGoesOn
  <2>3. QED
    BY <2>1, <2>2, ScanKept
<1>13. ASSUME NEW w \in Workers, Started(w) PROVE Scanned'
  <2>1. at'[Owner] = at[Owner] \/ at'[Owner][1] \notin {"scan", "returned"}
    BY <1>13, ThreadsDiffer DEF Started, Moves, Goes, NoCall, Roles, Spawners
  <2>2. \A u \in Tasks : by'[u] = Owner => TaskGoesOn(u)
    BY <1>13 DEF Started, Moves, TaskGoesOn
  <2>3. QED
    BY <2>1, <2>2, ScanKept
<1>14. ASSUME NEW w \in Workers, ReadIdle(w) PROVE Scanned'
  <2>1. at'[Owner] = at[Owner] \/ at'[Owner][1] \notin {"scan", "returned"}
    BY <1>14, ThreadsDiffer DEF ReadIdle, Moves, Goes, NoCall, Roles, Spawners
  <2>2. \A u \in Tasks : by'[u] = Owner => TaskGoesOn(u)
    BY <1>14 DEF ReadIdle, Moves, TaskGoesOn
  <2>3. QED
    BY <2>1, <2>2, ScanKept
<1>15. ASSUME NEW w \in Workers, Set(w) PROVE Scanned'
  <2>1. at'[Owner] = at[Owner] \/ at'[Owner][1] \notin {"scan", "returned"}
    BY <1>15, ThreadsDiffer DEF Set, Moves, Goes, NoCall, Roles, Spawners
  <2>2. \A u \in Tasks : by'[u] = Owner => TaskGoesOn(u)
    BY <1>15 DEF Set, Moves, TaskGoesOn
  <2>3. QED
    BY <2>1, <2>2, ScanKept
<1>16. ASSUME NEW w \in Workers, Swap(w) PROVE Scanned'
  <2>1. at'[Owner] = at[Owner] \/ at'[Owner][1] \notin {"scan", "returned"}
    BY <1>16, ThreadsDiffer DEF Swap, Moves, Types, Roles
  <2>2. \A u \in Tasks : by'[u] = Owner => TaskGoesOn(u)
    BY <1>16 DEF Swap, Moves, TaskGoesOn
  <2>3. QED
    BY <2>1, <2>2, ScanKept
<1>17. ASSUME NEW w \in Workers, Finished(w) PROVE Scanned'
  <2>1. at'[Owner] = at[Owner] \/ at'[Owner][1] \notin {"scan", "returned"}
    BY <1>17, ThreadsDiffer DEF Finished, Moves, Goes, NoCall, Roles, Spawners
  <2>2. \A u \in Tasks : by'[u] = Owner => TaskGoesOn(u)
    BY <1>17 DEF Finished, Moves, TaskGoesOn
  <2>3. QED
    BY <2>1, <2>2, ScanKept
<1>18. ASSUME NEW w \in Workers, NEW t \in Tasks, StartTask(w, t) PROVE Scanned'
  <2>1. at'[Owner] = at[Owner] \/ at'[Owner][1] \notin {"scan", "returned"}
    BY <1>18, ThreadsDiffer DEF StartTask, Moves, Goes, NoCall, Roles, Spawners
  <2>2. \A u \in Tasks : by'[u] = Owner => TaskGoesOn(u)
    BY <1>18 DEF StartTask, Types, TaskGoesOn
  <2>3. QED
    BY <2>1, <2>2, ScanKept
<1>19. ASSUME NEW w \in Workers, NEW t \in Tasks, End(w, t) PROVE Scanned'
  <2>1. at'[Owner] = at[Owner] \/ at'[Owner][1] \notin {"scan", "returned"}
    BY <1>19, ThreadsDiffer DEF End, Moves, Goes, NoCall, Roles, Spawners
  <2>2. \A u \in Tasks : by'[u] = Owner => TaskGoesOn(u)
    BY <1>19 DEF End, Types, TaskGoesOn
  <2>3. QED
    BY <2>1, <2>2, ScanKept
<1>20. ASSUME NEW j \in Joiners, join(j) PROVE Scanned'
  <2>1. at'[Owner] = at[Owner] \/ at'[Owner][1] \notin {"scan", "returned"}
    BY <1>20, ThreadsDiffer DEF join, Moves, Goes, NoCall, Roles, Spawners
  <2>2. \A u \in Tasks : by'[u] = Owner => TaskGoesOn(u)
    BY <1>20 DEF join, Moves, TaskGoesOn
  <2>3. QED
    BY <2>1, <2>2, ScanKept
<1>21. ASSUME NEW j \in Joiners, Check(j) PROVE Scanned'
  <2>1. at'[Owner] = at[Owner] \/ at'[Owner][1] \notin {"scan", "returned"}
    BY <1>21, ThreadsDiffer DEF Check, Moves, Goes, NoCall, Roles, Spawners
  <2>2. \A u \in Tasks : by'[u] = Owner => TaskGoesOn(u)
    BY <1>21 DEF Check, Moves, TaskGoesOn
  <2>3. QED
    BY <2>1, <2>2, ScanKept
<1>22. ASSUME NEW j \in Joiners, Clear(j) PROVE Scanned'
  <2>1. at'[Owner] = at[Owner] \/ at'[Owner][1] \notin {"scan", "returned"}
    BY <1>22, ThreadsDiffer DEF Clear, Moves, Goes, NoCall, Roles, Spawners
  <2>2. \A u \in Tasks : by'[u] = Owner => TaskGoesOn(u)
    BY <1>22 DEF Clear, Moves, TaskGoesOn
  <2>3. QED
    BY <2>1, <2>2, ScanKept
<1>23. ASSUME NEW j \in Joiners, Recheck(j) PROVE Scanned'
  <2>1. at'[Owner] = at[Owner] \/ at'[Owner][1] \notin {"scan", "returned"}
    BY <1>23, ThreadsDiffer DEF Recheck, Moves, Goes, NoCall, Roles, Spawners
  <2>2. \A u \in Tasks : by'[u] = Owner => TaskGoesOn(u)
    BY <1>23 DEF Recheck, Moves, TaskGoesOn
  <2>3. QED
    BY <2>1, <2>2, ScanKept
<1>24. ASSUME NEW j \in Joiners, Suspend(j) PROVE Scanned'
  <2>1. at'[Owner] = at[Owner] \/ at'[Owner][1] \notin {"scan", "returned"}
    BY <1>24, ThreadsDiffer DEF Suspend, Moves, Goes, NoCall, Roles, Spawners
  <2>2. \A u \in Tasks : by'[u] = Owner => TaskGoesOn(u)
    BY <1>24 DEF Suspend, Moves, TaskGoesOn
  <2>3. QED
    BY <2>1, <2>2, ScanKept
<1>25. ASSUME UNCHANGED schedVars PROVE Scanned'
  BY <1>25, ScanKept DEF schedVars, TaskGoesOn
<1>26. QED
  BY <1>1, <1>2, <1>3, <1>4, <1>5, <1>6, <1>7, <1>8, <1>9, <1>10, <1>11, <1>12,
     <1>13, <1>14, <1>15, <1>16, <1>17, <1>18, <1>19, <1>20, <1>21, <1>22, <1>23,
     <1>24, <1>25
     DEF SchedulerNext, Spawning, Working, Joining, Spawners

-----------------------------------------------------------------------------
\* A task that has been counted stays so, and does not come back to life.
Counted(t) ==
    status[t] \notin {"new", "called"}
        => status'[t] \notin {"new", "called"} /\ (t \in Live' => t \in Live)

LEMMA JoinKept ==
    ASSUME Types, Joined, before' = before,
           \A j \in Joiners : at'[j] = at[j] \/ at'[j][1] # "joined",
           \A t \in Tasks : Counted(t)
    PROVE  Joined'
BY DEF Joined, Counted, Types

\* Every step keeps what a join() that has returned relies on.
LEMMA JoinStep ==
    ASSUME Types, Roles, Carries, Counts, Joined, [SchedulerNext]_schedVars PROVE Joined'
<1>1. ASSUME Constructed PROVE Joined'
  <2>1. \A k \in Joiners : at'[k] = at[k] \/ at'[k][1] # "joined"
    BY <1>1, ThreadsDiffer DEF Constructed, Moves, Goes, NoCall, Roles, Spawners
  <2>2. before' = before /\ \A u \in Tasks : Counted(u)
    BY <1>1 DEF Constructed, Moves, Counted, Live
  <2>3. QED
    BY <2>1, <2>2, JoinKept
<1>2. ASSUME stop_accepting PROVE Joined'
  <2>1. \A k \in Joiners : at'[k] = at[k] \/ at'[k][1] # "joined"
    BY <1>2, ThreadsDiffer DEF stop_accepting, Moves, Goes, NoCall, Roles, Spawners
  <2>2. before' = before /\ \A u \in Tasks : Counted(u)
    BY <1>2 DEF stop_accepting, Moves, Counted, Live
  <2>3. QED
    BY <2>1, <2>2, JoinKept
<1>3. ASSUME wait_all PROVE Joined'
  <2>1. \A k \in Joiners : at'[k] = at[k] \/ at'[k][1] # "joined"
    BY <1>3, ThreadsDiffer DEF wait_all, Moves, Goes, NoCall, Roles, Spawners
  <2>2. before' = before /\ \A u \in Tasks : Counted(u)
    BY <1>3 DEF wait_all, Moves, Counted, Live
  <2>3. QED
    BY <2>1, <2>2, JoinKept
<1>4. ASSUME Round PROVE Joined'
  <2>1. \A k \in Joiners : at'[k] = at[k] \/ at'[k][1] # "joined"
    BY <1>4, ThreadsDiffer DEF Round, Moves, Goes, NoCall, Roles, Spawners
  <2>2. before' = before /\ \A u \in Tasks : Counted(u)
    BY <1>4 DEF Round, Moves, Counted, Live
  <2>3. QED
    BY <2>1, <2>2, JoinKept
<1>5. ASSUME Scan PROVE Joined'
  <2>1. \A k \in Joiners : at'[k] = at[k] \/ at'[k][1] # "joined"
    BY <1>5, ThreadsDiffer DEF Scan, Moves, Goes, NoCall, Roles, Spawners
  <2>2. before' = before /\ \A u \in Tasks : Counted(u)
    BY <1>5 DEF Scan, Moves, Counted, Live
  <2>3. QED
    BY <2>1, <2>2, JoinKept
<1>6. ASSUME StopWorker PROVE Joined'
  <2>1. \A k \in Joiners : at'[k] = at[k] \/ at'[k][1] # "joined"
    BY <1>6, ThreadsDiffer DEF StopWorker, Moves, Goes, NoCall, Roles, Spawners
  <2>2. before' = before /\ \A u \in Tasks : Counted(u)
    BY <1>6 DEF StopWorker, Moves, Counted, Live
  <2>3. QED
    BY <2>1, <2>2, JoinKept
<1>7. ASSUME NEW th \in Spawners, CountPending(th) PROVE Joined'
  <2>1. \A k \in Joiners : at'[k] = at[k] \/ at'[k][1] # "joined"
    BY <1>7, ThreadsDiffer DEF CountPending, Moves, Goes, NoCall, Roles, Spawners
  <2>2. before' = before /\ \A u \in Tasks : Counted(u)
    BY <1>7 DEF CountPending, Moves, Counted, Live
  <2>3. QED
    BY <2>1, <2>2, JoinKept
<1>8. ASSUME NEW th \in Spawners, CountRunning(th) PROVE Joined'
  <2>1. \A k \in Joiners : at'[k] = at[k] \/ at'[k][1] # "joined"
    BY <1>8, ThreadsDiffer DEF CountRunning, Moves, Goes, NoCall, Roles, Spawners
  <2>2. before' = before /\ \A u \in Tasks : Counted(u)
    BY <1>8 DEF CountRunning, Counted, Live, Carries, Types
  <2>3. QED
    BY <2>1, <2>2, JoinKept
<1>9. ASSUME NEW th \in Spawners, Dispatch(th) PROVE Joined'
  <2>1. \A k \in Joiners : at'[k] = at[k] \/ at'[k][1] # "joined"
    BY <1>9, ThreadsDiffer DEF Dispatch, Moves, Goes, NoCall, Roles, Spawners
  <2>2. before' = before /\ \A u \in Tasks : Counted(u)
    BY <1>9 DEF Dispatch, Counted, Live, Carries, Types
  <2>3. QED
    BY <2>1, <2>2, JoinKept
<1>10. ASSUME NEW th \in Spawners, NEW t \in Tasks, spawn_any(th, t) PROVE Joined'
  <2>1. \A k \in Joiners : at'[k] = at[k] \/ at'[k][1] # "joined"
    BY <1>10, ThreadsDiffer DEF spawn_any, Moves, Goes, NoCall, Roles, Spawners
  <2>2. before' = before /\ \A u \in Tasks : Counted(u)
    BY <1>10 DEF spawn_any, Counted, Live, Types
  <2>3. QED
    BY <2>1, <2>2, JoinKept
<1>11. ASSUME NEW w \in Workers, Enter(w) PROVE Joined'
  <2>1. \A k \in Joiners : at'[k] = at[k] \/ at'[k][1] # "joined"
    BY <1>11, ThreadsDiffer DEF Enter, Moves, Goes, NoCall, Roles, Spawners
  <2>2. before' = before /\ \A u \in Tasks : Counted(u)
    BY <1>11 DEF Enter, Moves, Counted, Live
  <2>3. QED
    BY <2>1, <2>2, JoinKept
<1>12. ASSUME NEW w \in Workers, Exit(w) PROVE Joined'
  <2>1. \A k \in Joiners : at'[k] = at[k] \/ at'[k][1] # "joined"
    BY <1>12, ThreadsDiffer DEF Exit, Moves, Goes, NoCall, Roles, Spawners
  <2>2. before' = before /\ \A u \in Tasks : Counted(u)
    BY <1>12 DEF Exit, Moves, Counted, Live
  <2>3. QED
    BY <2>1, <2>2, JoinKept
<1>13. ASSUME NEW w \in Workers, Started(w) PROVE Joined'
  <2>1. \A k \in Joiners : at'[k] = at[k] \/ at'[k][1] # "joined"
    BY <1>13, ThreadsDiffer DEF Started, Moves, Goes, NoCall, Roles, Spawners
  <2>2. before' = before /\ \A u \in Tasks : Counted(u)
    BY <1>13 DEF Started, Moves, Counted, Live
  <2>3. QED
    BY <2>1, <2>2, JoinKept
<1>14. ASSUME NEW w \in Workers, ReadIdle(w) PROVE Joined'
  <2>1. \A k \in Joiners : at'[k] = at[k] \/ at'[k][1] # "joined"
    BY <1>14, ThreadsDiffer DEF ReadIdle, Moves, Goes, NoCall, Roles, Spawners
  <2>2. before' = before /\ \A u \in Tasks : Counted(u)
    BY <1>14 DEF ReadIdle, Moves, Counted, Live
  <2>3. QED
    BY <2>1, <2>2, JoinKept
<1>15. ASSUME NEW w \in Workers, Set(w) PROVE Joined'
  <2>1. \A k \in Joiners : at'[k] = at[k] \/ at'[k][1] # "joined"
    BY <1>15, ThreadsDiffer DEF Set, Moves, Goes, NoCall, Roles, Spawners
  <2>2. before' = before /\ \A u \in Tasks : Counted(u)
    BY <1>15 DEF Set, Moves, Counted, Live
  <2>3. QED
    BY <2>1, <2>2, JoinKept
<1>16. ASSUME NEW w \in Workers, Swap(w) PROVE Joined'
  <2>1. \A k \in Joiners : at'[k] = at[k] \/ at'[k][1] # "joined"
    BY <1>16, ThreadsDiffer DEF Swap, Moves, Types, Roles
  <2>2. before' = before /\ \A u \in Tasks : Counted(u)
    BY <1>16 DEF Swap, Moves, Counted, Live
  <2>3. QED
    BY <2>1, <2>2, JoinKept
<1>17. ASSUME NEW w \in Workers, Finished(w) PROVE Joined'
  <2>1. \A k \in Joiners : at'[k] = at[k] \/ at'[k][1] # "joined"
    BY <1>17, ThreadsDiffer DEF Finished, Moves, Goes, NoCall, Roles, Spawners
  <2>2. before' = before /\ \A u \in Tasks : Counted(u)
    BY <1>17 DEF Finished, Moves, Counted, Live
  <2>3. QED
    BY <2>1, <2>2, JoinKept
<1>18. ASSUME NEW w \in Workers, NEW t \in Tasks, StartTask(w, t) PROVE Joined'
  <2>1. \A k \in Joiners : at'[k] = at[k] \/ at'[k][1] # "joined"
    BY <1>18, ThreadsDiffer DEF StartTask, Moves, Goes, NoCall, Roles, Spawners
  <2>2. before' = before /\ \A u \in Tasks : Counted(u)
    BY <1>18 DEF StartTask, Counted, Live, Types
  <2>3. QED
    BY <2>1, <2>2, JoinKept
<1>19. ASSUME NEW w \in Workers, NEW t \in Tasks, End(w, t) PROVE Joined'
  <2>1. \A k \in Joiners : at'[k] = at[k] \/ at'[k][1] # "joined"
    BY <1>19, ThreadsDiffer DEF End, Moves, Goes, NoCall, Roles, Spawners
  <2>2. before' = before /\ \A u \in Tasks : Counted(u)
    BY <1>19 DEF End, Counted, Live, Types
  <2>3. QED
    BY <2>1, <2>2, JoinKept
<1>20. ASSUME NEW j \in Joiners, join(j) PROVE Joined'
  <2>1. /\ at'[j] = <<"check">> /\ \A k \in Joiners : k # j => at'[k] = at[k]
        /\ before' = [before EXCEPT ![j] = Live] /\ UNCHANGED status
    BY <1>20 DEF join, Goes, Roles
  <2>2. before'[j] = Live /\ \A k \in Joiners : k # j => before'[k] = before[k]
    BY <2>1 DEF Types
  <2>3. Live' = Live /\ \A t \in Live : status[t] \notin {"new", "called"}
    BY <2>1 DEF Live
  <2>4. QED
    BY <2>1, <2>2, <2>3 DEF Joined
<1>21. ASSUME NEW j \in Joiners, Check(j) PROVE Joined'
  <2>1. /\ \A k \in Joiners : k # j => at'[k] = at[k]
        /\ at'[j][1] = "joined" => ~(running > 0)
        /\ UNCHANGED <<before, status>>
    BY <1>21 DEF Check, Moves, Goes, Roles
  <2>2. Live \in SUBSET Tasks /\ Live' = Live
    BY <2>1 DEF Live
  <2>3. running = 0 \/ running > 0
    BY <2>2, Subsets DEF Counts
  <2>4. running = 0 => Live = {}
    BY <2>2, Subsets DEF Counts
  <2>5. QED
    BY <2>1, <2>2, <2>3, <2>4 DEF Joined
<1>22. ASSUME NEW j \in Joiners, Clear(j) PROVE Joined'
  <2>1. \A k \in Joiners : at'[k] = at[k] \/ at'[k][1] # "joined"
    BY <1>22, ThreadsDiffer DEF Clear, Moves, Goes, NoCall, Roles, Spawners
  <2>2. before' = before /\ \A u \in Tasks : Counted(u)
    BY <1>22 DEF Clear, Moves, Counted, Live
  <2>3. QED
    BY <2>1, <2>2, JoinKept
<1>23. ASSUME NEW j \in Joiners, Recheck(j) PROVE Joined'
  <2>1. /\ \A k \in Joiners : k # j => at'[k] = at[k]
        /\ at'[j][1] = "joined" => ~(running > 0)
        /\ UNCHANGED <<before, status>>
    BY <1>23 DEF Recheck, Moves, Goes, Roles
  <2>2. Live \in SUBSET Tasks /\ Live' = Live
    BY <2>1 DEF Live
  <2>3. running = 0 \/ running > 0
    BY <2>2, Subsets DEF Counts
  <2>4. running = 0 => Live = {}
    BY <2>2, Subsets DEF Counts
  <2>5. QED
    BY <2>1, <2>2, <2>3, <2>4 DEF Joined
<1>24. ASSUME NEW j \in Joiners, Suspend(j) PROVE Joined'
  <2>1. \A k \in Joiners : at'[k] = at[k] \/ at'[k][1] # "joined"
    BY <1>24, ThreadsDiffer DEF Suspend, Moves, Goes, NoCall, Roles, Spawners
  <2>2. before' = before /\ \A u \in Tasks : Counted(u)
    BY <1>24 DEF Suspend, Moves, Counted, Live
  <2>3. QED
    BY <2>1, <2>2, JoinKept
<1>25. ASSUME UNCHANGED schedVars PROVE Joined'
  BY <1>25, JoinKept DEF schedVars, Counted, Live
<1>26. QED
  BY <1>1, <1>2, <1>3, <1>4, <1>5, <1>6, <1>7, <1>8, <1>9, <1>10, <1>11, <1>12,
     <1>13, <1>14, <1>15, <1>16, <1>17, <1>18, <1>19, <1>20, <1>21, <1>22, <1>23,
     <1>24, <1>25
     DEF SchedulerNext, Spawning, Working, Joining, Spawners

-----------------------------------------------------------------------------
LEMMA SchedulerInitHolds == SchedulerInit => SchedulerIInv
<1> SUFFICES ASSUME SchedulerInit PROVE SchedulerIInv
  OBVIOUS
<1>1. 1 \in Workers
  BY SchedulerAssumption DEF Workers
<1>2. Types
  <2>1. /\ stopped \in BOOLEAN /\ idle \in BOOLEAN /\ set \in BOOLEAN
        /\ event_waiters \subseteq Joiners /\ looping \subseteq Workers /\ started \subseteq Workers
    BY DEF SchedulerInit
  <2>2. running \in Int /\ pending \in Int /\ active \in [Workers -> Int]
    BY DEF SchedulerInit
  <2>3. /\ place \in [Tasks -> Workers] /\ by \in [Tasks -> Spawners]
        /\ before \in [Joiners -> SUBSET Tasks]
    BY <1>1 DEF SchedulerInit, Spawners
  <2>4. status \in [Tasks -> {"new", "called", "counted", "queued", "body", "done"}]
    BY DEF SchedulerInit
  <2>5. QED
    BY <2>1, <2>2, <2>3, <2>4 DEF Types
<1>3. /\ DOMAIN at = Threads /\ at[Owner] = <<"construct">>
      /\ \A w \in Workers : at[w] = <<"enter">>
      /\ \A j \in Joiners : at[j] = <<"free">>
  BY ThreadsDiffer DEF SchedulerInit
<1>4. Roles
  BY <1>3 DEF Roles, OwnerOps, WorkerOps, JoinerOps
<1>5. Carries /\ Scanned /\ Joined
  BY <1>3 DEF SchedulerInit, Carries, Scanned, Joined, Spawners
<1>6. Live = {} /\ OnTheWay = {} /\ \A w \in Workers : InBody(w) = {} /\ ~Finishing(w)
  BY <1>3 DEF SchedulerInit, Live, OnTheWay, InBody, Finishing
<1>7. Counts
  BY <1>6, FS_EmptySet DEF SchedulerInit, Counts
<1>8. QED
  BY <1>2, <1>4, <1>5, <1>7 DEF SchedulerIInv

LEMMA SchedulerInductive == SchedulerSpec => []SchedulerIInv
<1>1. SchedulerIInv /\ [SchedulerNext]_schedVars => SchedulerIInv'
  BY SchedulerTypeStep, CountStep, ScanStep, JoinStep DEF SchedulerIInv
<1>2. QED
  BY <1>1, SchedulerInitHolds, PTL DEF SchedulerSpec

\* Type correctness of the scheduler's state: no counter of scheduler.hpp and
\* none of its loops' goes below zero or above the number of spawned tasks.
THEOREM SchedulerTypeCorrect == SchedulerSpec => []SchedulerTypeOK
<1>1. ASSUME SchedulerIInv PROVE SchedulerTypeOK
  <2>1. \A th \in Threads : at[th][1] \in Ops
    BY <1>1 DEF SchedulerIInv, Roles, Ops, OwnerOps, WorkerOps, JoinerOps, Spawn
  <2>2. Live \in SUBSET Tasks /\ OnTheWay \in SUBSET Tasks
    BY DEF Live, OnTheWay
  <2>3. running \in 0..Cardinality(Tasks) /\ pending \in 0..Cardinality(Tasks)
    BY <1>1, <2>2, Subsets, TasksFinite, SchedulerAssumption DEF SchedulerIInv, Counts
  <2>4. ASSUME NEW w \in Workers PROVE active[w] \in 0..Cardinality(Tasks)
    <3>1. InBody(w) \in SUBSET Tasks
      BY DEF InBody
    <3>2. CASE ~Finishing(w)
      BY <1>1, <3>1, <3>2, Subsets, TasksFinite, SchedulerAssumption DEF SchedulerIInv, Counts
    <3>3. CASE Finishing(w)
      <4>1. PICK t \in Tasks : status[t] = "done"
        BY <1>1, <3>3 DEF SchedulerIInv, Counts
      <4>2. t \notin InBody(w) /\ InBody(w) \cup {t} \in SUBSET Tasks
        BY <3>1, <4>1 DEF InBody
      <4>3. Cardinality(InBody(w) \cup {t}) = Cardinality(InBody(w)) + 1
        BY <3>1, <4>2, OneMore
      <4>4. Cardinality(InBody(w) \cup {t}) <= MaxTasks
        BY <4>2, Subsets
      <4>5. QED
        BY <1>1, <3>1, <3>3, <4>3, <4>4, Subsets, TasksFinite, SchedulerAssumption
           DEF SchedulerIInv, Counts
    <3>4. QED
      BY <3>2, <3>3
  <2>5. active \in [Workers -> 0..Cardinality(Tasks)]
    BY <1>1, <2>4 DEF SchedulerIInv, Types
  <2>6. QED
    BY <1>1, <2>1, <2>3, <2>5 DEF SchedulerIInv, Types, SchedulerTypeOK, Spawners
<1>2. SchedulerIInv => SchedulerTypeOK
  BY <1>1
<1>3. QED
  BY <1>2, SchedulerInductive, PTL

\* wait_all and ~Scheduler (scheduler.hpp): pending_dispatches_ at zero, then
\* every active_coroutines_ at zero, read one after the other while tasks start,
\* end and spawn, do mean that the owner's tasks are over.
THEOREM WaitAllCorrect == SchedulerSpec => []WaitAllExact
<1>1. SchedulerIInv => WaitAllExact
  BY DEF SchedulerIInv, Scanned, Over, WaitAllExact, Unfinished
<1>2. QED
  BY <1>1, SchedulerInductive, PTL

\* join() (scheduler.hpp): whatever notifications come late, it returns only
\* after the tasks that were counted when it was called.
THEOREM JoinCorrect == SchedulerSpec => []JoinExact
<1>1. SchedulerIInv => JoinExact
  BY DEF SchedulerIInv, Joined, JoinExact
<1>2. QED
  BY <1>1, SchedulerInductive, PTL

==============================================================================
