---------------------------- MODULE ScopesProofs ----------------------------
(***************************************************************************)
(* The combinators of Scopes, for any number of children, whatever they    *)
(* do, and however often anybody cancels.                                  *)
(***************************************************************************)
EXTENDS Scopes, ReadyQueueProofs

-----------------------------------------------------------------------------
(* The inductive invariant.                                                *)

Handles == {Parent, Caller, Timer} \cup {Mon(k) : k \in Kids} \cup {Kid(k) : k \in Kids}

Types ==
    /\ mode \in Modes \cup {"group"}
    /\ ready \in Seq(Handles)
    /\ kid \in [Kids -> {"none", "queued", "wait", "cleanup", "ended", "killed"}]
    /\ result \in [Kids -> {"none", "ok", "failed", "cancelled"}]
    /\ mon \in [Kids -> {"none", "new", "first", "second", "done"}]
    /\ cont \in [Kids -> Handles \cup {<<>>}]
    /\ monitors \in Seq(Kids)

\* Who may be in the ready queue, and who may await a child
Queue ==
    /\ Distinct(ready)
    /\ \A k \in Kids :
         /\ Kid(k) \in ToSet(ready) => kid[k] \in {"queued", "wait", "cleanup", "killed"}
         /\ Mon(k) \in ToSet(ready) => mon[k] # "none"
         /\ kid[k] = "ended" <=> result[k] # "none"
         /\ cont[k] \notin {<<>>, Caller} => cont[k] = Mon(k) /\ mon[k] # "none"

\* Monitors that have not completed
Running == {k \in Kids : mon[k] \in {"new", "first", "second"}}

GroupCounts ==
    /\ IsFiniteSet(Running) /\ remaining = Cardinality(Running)
    /\ Running \subseteq ToSet(monitors)
    /\ \A k \in ToSet(monitors) : mon[k] # "none"

GroupKids ==
    \A k \in Kids :
        /\ cont[k] # <<>> => cont[k] = Mon(k)
        /\ mon[k] \in {"none", "new"} => kid[k] = "none"
        /\ mon[k] \in {"first", "second"} => kid[k] \in {"queued", "wait", "cleanup", "ended"}
        /\ mon[k] = "done" => kid[k] = "ended" \/ (kid[k] = "killed" /\ k \in twice)
        /\ mon[k] = "done" /\ result[k] = "failed" => k \in exceptions \cup reported \cup twice

GroupParent ==
    /\ Parent \in ToSet(ready) => parent = "wait" /\ remaining = 0
    /\ waiter => parent = "wait"
    /\ doomed => parent = "body" /\ \A k \in Kids : mon[k] \in {"none", "new"}
    /\ parent # "returned" => reported = {}
    /\ parent = "returned" =>
         /\ exceptions = {}
         /\ \A k \in Kids : mon[k] \in {"none", "done"} \/ (mon[k] = "new" /\ Mon(k) \in cancelled)

GroupInv == GroupCounts /\ GroupKids /\ GroupParent

\* Where the caller can still be found
CallerInv ==
    /\ caller \in {"start", "await", "killed", "left"}
    /\ Caller \in ToSet(ready) => caller # "left"
    /\ \A k \in Kids :
         cont[k] = Caller => k = Arg /\ mode = "wait_for" /\ caller \in {"await", "killed"}
    /\ registered => mode # "wait_for" /\ caller \in {"await", "killed"}
    /\ caller = "await" /\ Caller \in ToSet(ready) /\ Caller \notin cancelled =>
         ~registered /\ \A k \in Kids : cont[k] # Caller

\* Nothing has happened before the first run of the caller.
StartInv ==
    caller = "start" =>
        /\ \A k \in Kids : mon[k] = "none" /\ kid[k] = "none" /\ cont[k] = <<>>
        /\ timer = "none" /\ first_exception = Nobody /\ first_done = Nobody /\ ~early_done
        /\ Caller \notin cancelled => first = Nobody

TimerInv ==
    /\ timer \in {"none", "new", "sleep", "ended", "killed"}
    /\ Timer \in ToSet(ready) => timer \in {"new", "sleep", "killed"}
    /\ mode # "wait_for" => timer = "none"
    /\ mode = "wait_for" /\ caller \in {"await", "killed"} => timer # "none"
    /\ caller = "left" /\ timer \in {"new", "sleep"} => Timer \in cancelled
    /\ caller # "left" => Timer \notin cancelled

\* A caller that was cancelled before the deadline is in the queue before the timer.
DeadlineInv ==
    /\ timed_out => mode = "wait_for" /\ first = "deadline"
    /\ first \in {Nobody, "cancel", "deadline"}
    /\ caller \in {"await", "killed"} /\ timer = "sleep" /\ Timer \in ToSet(ready) => first # Nobody
    /\ caller \in {"await", "killed"} /\ first = "cancel" =>
         Caller \in ToSet(ready) /\ (timer = "sleep" => Before(ready, Caller, Timer))

\* A monitor is in the queue before its first run and when its child has ended.
MonOk(k) ==
    /\ kid[k] \in {"none", "ended"} => cont[k] = <<>>
    /\ cont[k] = Mon(k) => mon[k] = "first"
    /\ mon[k] = "done" => kid[k] = "ended"
    /\ Mon(k) \in ToSet(ready) => \/ mon[k] = "new" /\ kid[k] \in {"none", "ended"}
                                  \/ mon[k] = "first" /\ kid[k] = "ended"
    /\ mon[k] # "none" => mode # "wait_for"
    /\ mode # "wait_for" =>
         /\ kid[k] # "killed" /\ mon[k] # "second"
         /\ kid[k] \in {"queued", "wait", "cleanup"} => mon[k] = "first" /\ cont[k] = Mon(k)
         /\ mon[k] = "new" => Mon(k) \in ToSet(ready)
         /\ mon[k] = "first" => kid[k] # "none"
         /\ mon[k] = "first" /\ kid[k] = "ended" => Mon(k) \in ToSet(ready)

MonInv == \A k \in Kids : MonOk(k)

CountInv == remaining = Cardinality(Running)

OrderInv ==
    /\ order \in Seq(Kids) /\ Distinct(order)
    /\ ToSet(order) = {k \in Kids : kid[k] = "ended"}

\* The monitors complete in the order in which the children end.
InOrder ==
    \A i \in 1..Len(order), j \in 1..Len(order) :
        i < j => \/ mon[order[i]] = "done"
                 \/ mon[order[j]] # "done" /\ Before(ready, Mon(order[i]), Mon(order[j]))

\* What the shared state has kept of the monitors that have completed
Stored ==
    /\ \A k \in Kids : mon[k] # "none" /\ (kid[k] = "ended" => mon[k] # "new")
    /\ first_exception = Nobody => \A k \in Kids : mon[k] = "done" => result[k] = "ok"
    /\ first_exception # Nobody => FirstFailure(first_exception)
    /\ mode = "first" =>
         /\ first_done # Nobody => order # <<>> /\ first_done = order[1]
         /\ early_done => first_done # Nobody
         /\ ~early_done => \A k \in Kids : mon[k] # "done"

\* The caller has been notified for a reason.
Notified ==
    /\ mode \in {"gather", "all"} => remaining = 0
    /\ mode = "first" => first_done # Nobody
    /\ mode = "exception" => remaining = 0 \/ first_exception # Nobody

WatchInv ==
    caller = "await" /\ mode # "wait_for" =>
        /\ InOrder /\ Stored
        /\ Caller \in ToSet(ready) /\ Caller \notin cancelled => Notified

OutcomeInv ==
    /\ outcome[2] # Nobody => outcome[2] \in Kids
    /\ OutcomeExact

CombInv ==
    /\ CallerInv /\ StartInv /\ TimerInv /\ DeadlineInv /\ MonInv /\ CountInv /\ OrderInv
    /\ WatchInv /\ OutcomeInv

\* One combinator is in use, the other module's variables do not change.
IInv ==
    /\ Types /\ Queue
    /\ mode = "group" => GroupInv /\ caller = "start" /\ outcome = <<"none", Nobody>>
    /\ mode # "group" => CombInv /\ parent = "body"

\* The types on which the argument does not rest
GroupFlags ==
    /\ cancels \in 0..MaxCancels
    /\ parent \in {"body", "wait", "returned", "gone"}
    /\ phase \in {"open", "closing", "finished"}
    /\ exceptions \subseteq Kids /\ reported \subseteq Kids /\ twice \subseteq Kids
    /\ failing \in BOOLEAN /\ waiter \in BOOLEAN /\ doomed \in BOOLEAN

CombFlags ==
    /\ caller \in {"start", "await", "killed", "left"}
    /\ timer \in {"none", "new", "sleep", "ended", "killed"}
    /\ registered \in BOOLEAN /\ early_done \in BOOLEAN /\ timed_out \in BOOLEAN
    /\ first_exception \in Kids \cup {Nobody} /\ first_done \in Kids \cup {Nobody}

Flags ==
    /\ GroupFlags /\ CombFlags
    /\ mode = "group" => order = <<>>

-----------------------------------------------------------------------------
(* Handles and queues.                                                     *)

Apart ==
    /\ \A k \in Kids : /\ Mon(k) \in Handles /\ Kid(k) \in Handles
                       /\ Mon(k) \notin {Parent, Caller, Timer, <<>>}
                       /\ Kid(k) \notin {Parent, Caller, Timer, <<>>}
    /\ \A k \in Kids, j \in Kids : /\ Mon(k) # Kid(j)
                                   /\ Mon(k) = Mon(j) => k = j
                                   /\ Kid(k) = Kid(j) => k = j
    /\ Parent \in Handles /\ Caller \in Handles /\ Timer \in Handles
    /\ Parent # Caller /\ Parent # Timer /\ Caller # Timer
    /\ Parent # <<>> /\ Caller # <<>> /\ Timer # <<>>

LEMMA HandlesApart == Apart
<1>1. \A k \in Kids : /\ Mon(k) \in Handles /\ Kid(k) \in Handles
  BY DEF Handles
<1>2. \A k \in Kids : /\ Mon(k) \notin {Parent, Caller, Timer, <<>>}
                      /\ Kid(k) \notin {Parent, Caller, Timer, <<>>}
  BY DEF Mon, Kid, Parent, Caller, Timer
<1>3. \A k \in Kids, j \in Kids : /\ Mon(k) # Kid(j)
                                  /\ Mon(k) = Mon(j) => k = j
                                  /\ Kid(k) = Kid(j) => k = j
  BY DEF Mon, Kid
<1>4. Parent \in Handles /\ Caller \in Handles /\ Timer \in Handles
  BY DEF Handles
<1>5. /\ Parent # Caller /\ Parent # Timer /\ Caller # Timer
      /\ Parent # <<>> /\ Caller # <<>> /\ Timer # <<>>
  BY DEF Parent, Caller, Timer
<1> QED
  BY <1>1, <1>2, <1>3, <1>4, <1>5 DEF Apart

\* The loop takes h from its queue.
LEMMA TakeTurn ==
    ASSUME Types, Queue, NEW h \in Handles, Turn(h)
    PROVE  /\ Tail(ready) \in Seq(Handles) /\ Distinct(Tail(ready))
           /\ h \in ToSet(ready) /\ ToSet(Tail(ready)) = ToSet(ready) \ {h}
<1>1. ready \in Seq(Handles) /\ ready # <<>> /\ Head(ready) = h /\ Distinct(ready)
  BY DEF Types, Queue, Turn
<1>2. /\ Tail(ready) \in Seq(Handles) /\ Distinct(Tail(ready))
      /\ ToSet(ready) = ToSet(Tail(ready)) \cup {h} /\ h \notin ToSet(Tail(ready))
  BY <1>1, TailProperties
<1> QED
  BY <1>2

\* One handle is scheduled, or none.
LEMMA ScheduleOne ==
    ASSUME NEW rest \in Seq(Handles), Distinct(rest), NEW h \in Handles
    PROVE  /\ Scheduled(rest, <<>>) = rest
           /\ Scheduled(rest, <<h>>) \in Seq(Handles) /\ Distinct(Scheduled(rest, <<h>>))
           /\ ToSet(Scheduled(rest, <<h>>)) = ToSet(rest) \cup {h}
           /\ Extended(Scheduled(rest, <<h>>), rest)
<1> DEFINE one == <<h>>
<1>1. one \in Seq(Handles) /\ Len(one) = 1 /\ one[1] = h
  OBVIOUS
<1>e. <<>> \in Seq(Handles)
  BY NoWaiters
<1>0. Scheduled(rest, <<>>) = rest
  BY <1>e, ScheduledProperties
<1> HIDE DEF one
<1>2. \A x : x \in ToSet(one) <=> \E i \in 1..Len(one) : one[i] = x
  BY <1>1, InToSet
<1>3. \A x : x \in ToSet(one) <=> x = h
  BY <1>1, <1>2
<1>4. ToSet(one) = {h}
  BY <1>3
<1>5. /\ Scheduled(rest, one) \in Seq(Handles) /\ Distinct(Scheduled(rest, one))
      /\ ToSet(Scheduled(rest, one)) = ToSet(rest) \cup {h}
      /\ Extended(Scheduled(rest, one), rest)
  BY <1>1, <1>4, ScheduledProperties
<1> QED
  BY <1>0, <1>5 DEF one

LEMMA MonsOfProperties ==
    ASSUME NEW ks \in Seq(Kids)
    PROVE  /\ MonsOf(ks) \in Seq(Handles)
           /\ Len(MonsOf(ks)) = Len(ks)
           /\ \A i \in 1..Len(ks) : MonsOf(ks)[i] = Mon(ks[i])
           /\ ToSet(MonsOf(ks)) = {Mon(k) : k \in ToSet(ks)}
           /\ Distinct(ks) => Distinct(MonsOf(ks))
<1>l. Len(ks) \in Nat /\ DOMAIN ks = 1..Len(ks) /\ \A i \in 1..Len(ks) : ks[i] \in Kids
  BY LenProperties
<1>a. Apart
  BY HandlesApart
<1> DEFINE q == [i \in 1..Len(ks) |-> Mon(ks[i])]
<1>0. MonsOf(ks) = q
  BY <1>l DEF MonsOf
<1>1. \A i \in 1..Len(ks) : Mon(ks[i]) \in Handles
  BY <1>l, <1>a DEF Apart
<1>2. q \in Seq(Handles) /\ Len(q) = Len(ks) /\ \A i \in 1..Len(ks) : q[i] = Mon(ks[i])
  BY <1>l, <1>1
<1> HIDE DEF q
<1>3. ASSUME NEW x PROVE x \in ToSet(q) <=> x \in {Mon(k) : k \in ToSet(ks)}
  <2>1. x \in ToSet(q) <=> \E i \in 1..Len(ks) : Mon(ks[i]) = x
    BY <1>2, InToSet
  <2>2. \A k : k \in ToSet(ks) <=> \E i \in 1..Len(ks) : ks[i] = k
    BY InToSet
  <2> QED
    BY <2>1, <2>2
<1>4. ToSet(q) = {Mon(k) : k \in ToSet(ks)}
  BY <1>3
<1>5. Distinct(ks) => Distinct(q)
  <2> SUFFICES ASSUME Distinct(ks), NEW i \in 1..Len(q), NEW j \in 1..Len(q), q[i] = q[j]
               PROVE  i = j
    BY DEF Distinct
  <2>1. i \in 1..Len(ks) /\ j \in 1..Len(ks) /\ Mon(ks[i]) = Mon(ks[j])
    BY <1>2
  <2>2. ks[i] = ks[j]
    BY <1>l, <1>a, <2>1 DEF Apart
  <2> QED
    BY <2>1, <2>2 DEF Distinct
<1> QED
  BY <1>0, <1>2, <1>4, <1>5

\* Task::cancel of the monitors of ks puts into the queue the ones that run.
LEMMA LiveProperties ==
    ASSUME Types, NEW ks \in Seq(Kids), NEW rest \in Seq(Handles), Distinct(rest)
    PROVE  /\ Live(ks) \in Seq(Kids)
           /\ ToSet(Live(ks)) = {k \in ToSet(ks) : mon[k] # "done"}
           /\ ToSet(MonsOf(Live(ks))) = {Mon(k) : k \in {j \in ToSet(ks) : mon[j] # "done"}}
           /\ Scheduled(rest, MonsOf(Live(ks))) \in Seq(Handles)
           /\ Distinct(Scheduled(rest, MonsOf(Live(ks))))
           /\ ToSet(Scheduled(rest, MonsOf(Live(ks)))) =
                 ToSet(rest) \cup {Mon(k) : k \in {j \in ToSet(ks) : mon[j] # "done"}}
<1> DEFINE l == Live(ks)
<1>1. l \in Seq(Kids) /\ ToSet(l) = ToSet(ks) \cap {k \in Kids : mon[k] # "done"}
  BY FilteredProperties DEF Live
<1>2. ToSet(ks) \subseteq Kids
  BY ToSetProperties
<1>3. ToSet(l) = {k \in ToSet(ks) : mon[k] # "done"}
  BY <1>1, <1>2
<1> HIDE DEF l
<1> DEFINE m == MonsOf(l)
<1>4. m \in Seq(Handles) /\ ToSet(m) = {Mon(k) : k \in ToSet(l)}
  BY <1>1, MonsOfProperties
<1>5. ToSet(m) = {Mon(k) : k \in {j \in ToSet(ks) : mon[j] # "done"}}
  BY <1>3, <1>4
<1> HIDE DEF m
<1>6. /\ Scheduled(rest, m) \in Seq(Handles) /\ Distinct(Scheduled(rest, m))
      /\ ToSet(Scheduled(rest, m)) = ToSet(rest) \cup ToSet(m)
  BY <1>4, ScheduledProperties
<1> QED
  BY <1>1, <1>3, <1>5, <1>6 DEF l, m

-----------------------------------------------------------------------------
(* The children, under any combinator.                                     *)

\* What a run of the child k does: it ends, or it is suspended again.
RunEffect(k) ==
    /\ ready # <<>> /\ Head(ready) = Kid(k) /\ Kid(k) \in ToSet(ready)
    /\ kid[k] \in {"queued", "wait", "cleanup"}
    /\ UNCHANGED <<mode, mon, remaining>> /\ cancelled' = cancelled \ {Kid(k)}
    /\ Tail(ready) \in Seq(Handles) /\ ready' \in Seq(Handles)
    /\ Distinct(ready') /\ Extended(ready', Tail(ready))
    /\ ToSet(Tail(ready)) = ToSet(ready) \ {Kid(k)}
    /\ \/ /\ kid' = [kid EXCEPT ![k] = "ended"]
          /\ \E r \in {"ok", "failed", "cancelled"} : result' = [result EXCEPT ![k] = r]
          /\ order' = IF mode = "group" THEN order ELSE Append(order, k)
          /\ cont' = [cont EXCEPT ![k] = <<>>]
          /\ \A h : h \in ToSet(ready') <=> \/ h \in ToSet(ready) \ {Kid(k)}
                                            \/ cont[k] # <<>> /\ h = cont[k]
       \/ /\ \E w \in {"wait", "cleanup"} : kid' = [kid EXCEPT ![k] = w]
          /\ UNCHANGED <<result, order, cont>>
          /\ \A h : h \in ToSet(ready') <=> h \in ToSet(ready) \ {Kid(k)}

LEMMA RunKidEffect ==
    ASSUME Types, Queue, NEW k \in Kids, RunKid(k)
    PROVE  RunEffect(k)
<1>a. Apart
  BY HandlesApart
<1>t. Turn(Kid(k))
  BY DEF RunKid
<1>o. /\ Tail(ready) \in Seq(Handles) /\ Distinct(Tail(ready))
      /\ Kid(k) \in ToSet(ready) /\ ToSet(Tail(ready)) = ToSet(ready) \ {Kid(k)}
  BY <1>a, <1>t, TakeTurn DEF Apart
<1>1. /\ ready # <<>> /\ Head(ready) = Kid(k)
      /\ kid[k] \in {"queued", "wait", "cleanup"}
      /\ UNCHANGED <<mode, mon, remaining>> /\ cancelled' = cancelled \ {Kid(k)}
  BY <1>o, <1>t DEF RunKid, monVars, Queue, Turn
<1>2. CASE \E r \in {"ok", "failed", "cancelled"} : KidEnds(k, r)
  <2>1. PICK r \in {"ok", "failed", "cancelled"} : KidEnds(k, r)
    BY <1>2
  <2>2. /\ kid' = [kid EXCEPT ![k] = "ended"] /\ result' = [result EXCEPT ![k] = r]
        /\ order' = IF mode = "group" THEN order ELSE Append(order, k)
        /\ cont' = [cont EXCEPT ![k] = <<>>]
        /\ ready' = Scheduled(Tail(ready), IF cont[k] = <<>> THEN <<>> ELSE <<cont[k]>>)
    BY <2>1 DEF KidEnds, Ends
  <2>3. /\ ready' \in Seq(Handles) /\ Distinct(ready') /\ Extended(ready', Tail(ready))
        /\ \A h : h \in ToSet(ready') <=> \/ h \in ToSet(ready) \ {Kid(k)}
                                          \/ cont[k] # <<>> /\ h = cont[k]
    <3>1. CASE cont[k] = <<>>
      <4>1. <<>> \in Seq(Handles)
        BY NoWaiters
      <4>2. ready' = Scheduled(Tail(ready), <<>>)
        BY <2>2, <3>1
      <4>3. ready' = Tail(ready) /\ Extended(ready', Tail(ready))
        BY <1>o, <4>1, <4>2, ScheduledProperties
      <4> QED
        BY <1>o, <3>1, <4>3
    <3>2. CASE cont[k] # <<>>
      <4>1. cont[k] \in Handles
        BY <3>2 DEF Types
      <4>2. ready' = Scheduled(Tail(ready), <<cont[k]>>)
        BY <2>2, <3>2
      <4>3. /\ ready' \in Seq(Handles) /\ Distinct(ready') /\ Extended(ready', Tail(ready))
            /\ ToSet(ready') = ToSet(Tail(ready)) \cup {cont[k]}
        BY <1>o, <4>1, <4>2, ScheduleOne
      <4> QED
        BY <1>o, <3>2, <4>3
    <3> QED
      BY <3>1, <3>2
  <2> QED
    BY <1>o, <1>1, <2>2, <2>3 DEF RunEffect
<1>3. CASE /\ kid' = [kid EXCEPT ![k] = IF Kid(k) \in cancelled THEN "cleanup" ELSE "wait"]
           /\ ready' = Tail(ready) /\ UNCHANGED <<result, order, cont>>
  <2>1. Extended(ready', Tail(ready))
    BY <1>o, <1>3, LenProperties DEF Extended
  <2> QED
    BY <1>o, <1>1, <1>3, <2>1 DEF RunEffect
<1> QED
  BY <1>2, <1>3 DEF RunKid

LEMMA RunKidShared ==
    ASSUME Types, Queue, NEW k \in Kids, RunEffect(k), UNCHANGED monitors
    PROVE  Types' /\ Queue'
<1>a. Apart
  BY HandlesApart
<1>1. Types'
  BY <1>a DEF Types, RunEffect, Apart
<1>2. Queue'
  BY <1>a DEF Queue, Types, RunEffect, Apart
<1> QED
  BY <1>1, <1>2

\* A frame is destroyed, or the child woken: only the queue changes.
QueueEffect(k) ==
    /\ UNCHANGED <<mode, mon, remaining, kid, result, order, cont, cancelled>>
    /\ ready' \in Seq(Handles) /\ Distinct(ready')
    /\ \/ /\ kid[k] = "killed" /\ Turn(Kid(k)) /\ ready' = Tail(ready)
          /\ ToSet(ready') = ToSet(ready) \ {Kid(k)}
       \/ /\ kid[k] \in {"wait", "cleanup"} /\ Extended(ready', ready)
          /\ ToSet(ready') = ToSet(ready) \cup {Kid(k)}

LEMMA ReclaimOrWake ==
    ASSUME Types, Queue, NEW k \in Kids, Reclaim(k) \/ KidWake(k)
    PROVE  QueueEffect(k)
<1>a. Apart
  BY HandlesApart
<1>1. UNCHANGED <<mode, mon, remaining, kid, result, order, cont, cancelled>>
  BY DEF Reclaim, KidWake, monVars, kidVars
<1>2. CASE Reclaim(k)
  <2>1. kid[k] = "killed" /\ Turn(Kid(k)) /\ ready' = Tail(ready)
    BY <1>2 DEF Reclaim
  <2>2. /\ Tail(ready) \in Seq(Handles) /\ Distinct(Tail(ready))
        /\ ToSet(Tail(ready)) = ToSet(ready) \ {Kid(k)}
    BY <1>a, <2>1, TakeTurn DEF Apart
  <2> QED
    BY <1>1, <2>1, <2>2 DEF QueueEffect
<1>3. CASE KidWake(k)
  <2>1. /\ kid[k] \in {"wait", "cleanup"} /\ ~Contains(ready, Kid(k))
        /\ ready' = Append(ready, Kid(k))
    BY <1>3 DEF KidWake, Suspended
  <2>2. ready \in Seq(Handles) /\ Distinct(ready) /\ Kid(k) \in Handles
    BY <1>a DEF Types, Queue, Apart
  <2>3. Kid(k) \notin ToSet(ready)
    BY <2>1, <2>2, ToSetProperties
  <2>4. /\ ready' \in Seq(Handles) /\ Distinct(ready') /\ Extended(ready', ready)
        /\ ToSet(ready') = ToSet(ready) \cup {Kid(k)}
    BY <2>1, <2>2, <2>3, AppendToSet
  <2> QED
    BY <1>1, <2>1, <2>4 DEF QueueEffect
<1> QED
  BY <1>2, <1>3

LEMMA QueueShared ==
    ASSUME Types, Queue, NEW k \in Kids, QueueEffect(k), UNCHANGED monitors
    PROVE  Types' /\ Queue'
<1>a. Apart
  BY HandlesApart
<1>1. Types'
  BY DEF Types, QueueEffect
<1>2. Queue'
  BY <1>a DEF Queue, Types, QueueEffect, Apart
<1> QED
  BY <1>1, <1>2

-----------------------------------------------------------------------------
(* TaskGroup: the parent.                                                  *)

\* spawn()
LEMMA SpawnStep ==
    ASSUME Types, Queue, GroupInv, NEW k \in Kids, spawn(k)
    PROVE  Types' /\ Queue' /\ GroupInv'
<1>a. Apart
  BY HandlesApart
<1>i. Mon(k) \notin ToSet(ready) /\ Mon(k) \in Handles
  BY <1>a DEF spawn, Queue, Apart
<1>r. /\ ready' \in Seq(Handles) /\ Distinct(ready')
      /\ ToSet(ready') = ToSet(ready) \cup {Mon(k)}
  BY <1>i, AppendToSet DEF spawn, Types, Queue
<1>m. monitors' \in Seq(Kids) /\ ToSet(monitors') = ToSet(monitors) \cup {k}
  BY AppendToSet DEF spawn, Types
<1>t. Types'
  BY <1>r, <1>m DEF Types, spawn, kidVars
<1>q. Queue'
  BY <1>a, <1>r DEF Queue, Types, spawn, kidVars, Apart
<1>c. GroupCounts'
  <2>1. Running' = Running \cup {k} /\ k \notin Running
    BY DEF Running, Types, spawn
  <2>2. IsFiniteSet(Running \cup {k}) /\ Cardinality(Running \cup {k}) = Cardinality(Running) + 1
    BY <2>1, OneMore DEF GroupInv, GroupCounts
  <2>3. \A j \in ToSet(monitors') : mon'[j] # "none"
    BY <1>m, ToSetProperties DEF GroupInv, GroupCounts, spawn, Types
  <2> QED
    BY <1>m, <2>1, <2>2, <2>3 DEF GroupInv, GroupCounts, spawn
<1>k. GroupKids'
  BY DEF GroupInv, GroupKids, Types, spawn, kidVars
<1>p. GroupParent'
  BY <1>a, <1>r DEF GroupInv, GroupParent, Types, spawn, Apart
<1> QED
  BY <1>t, <1>q, <1>c, <1>k, <1>p DEF GroupInv

\* wait(), with nothing to wait for or with a suspension
LEMMA WaitStep ==
    ASSUME Types, Queue, GroupInv, wait
    PROVE  Types' /\ Queue' /\ GroupInv'
<1>a. Apart
  BY HandlesApart
<1>u. /\ UNCHANGED <<mode, mon, remaining, kid, result, cont, ready, cancelled, monitors, twice, doomed>>
      /\ parent = "body" /\ ~doomed
      /\ \/ remaining = 0 /\ parent' = "returned" /\ ~waiter' /\ reported' = exceptions /\ exceptions' = {}
         \/ parent' = "wait" /\ UNCHANGED <<exceptions, reported>>
  BY DEF wait, WaitReturns, monVars, kidVars
<1>t. Types'
  BY <1>u DEF Types
<1>q. Queue'
  BY <1>u DEF Queue
<1>c. GroupCounts'
  BY <1>u DEF GroupInv, GroupCounts, Running
<1>k. GroupKids'
  BY <1>u DEF GroupInv, GroupKids, GroupParent
<1>p. GroupParent'
  <2>1. ASSUME remaining = 0, NEW j \in Kids PROVE mon[j] \in {"none", "done"}
    <3>1. Running = {}
      BY <2>1, FS_EmptySet DEF GroupInv, GroupCounts
    <3> QED
      BY <3>1 DEF Running, Types
  <2> QED
    BY <1>u, <2>1 DEF GroupInv, GroupParent
<1> QED
  BY <1>t, <1>q, <1>c, <1>k, <1>p DEF GroupInv

\* The loop resumes the parent
LEMMA ReturnStep ==
    ASSUME Types, Queue, GroupInv, Return
    PROVE  Types' /\ Queue' /\ GroupInv'
<1>a. Apart
  BY HandlesApart
<1>r. /\ Tail(ready) \in Seq(Handles) /\ Distinct(Tail(ready))
      /\ Parent \in ToSet(ready) /\ ToSet(Tail(ready)) = ToSet(ready) \ {Parent}
  BY <1>a, TakeTurn DEF Return, Apart
<1>u. /\ UNCHANGED <<mode, mon, remaining, kid, result, cont, cancelled, monitors, twice, doomed>>
      /\ ready' = Tail(ready)
      /\ parent' = "returned" /\ ~waiter' /\ reported' = exceptions /\ exceptions' = {}
  BY DEF Return, WaitReturns, monVars, kidVars
<1>w. parent = "wait" /\ remaining = 0
  BY <1>r DEF GroupInv, GroupParent
<1>t. Types'
  BY <1>u, <1>r DEF Types
<1>q. Queue'
  BY <1>u, <1>r DEF Queue
<1>c. GroupCounts'
  BY <1>u DEF GroupInv, GroupCounts, Running
<1>k. GroupKids'
  BY <1>u, <1>w DEF GroupInv, GroupKids, GroupParent
<1>p. GroupParent'
  <2>1. ASSUME NEW j \in Kids PROVE mon[j] \in {"none", "done"}
    <3>1. Running = {}
      BY <1>w, FS_EmptySet DEF GroupInv, GroupCounts
    <3> QED
      BY <3>1 DEF Running, Types
  <2>2. ~doomed
    BY <1>w DEF GroupInv, GroupParent
  <2> QED
    BY <1>u, <1>r, <2>1, <2>2 DEF GroupInv, GroupParent
<1> QED
  BY <1>t, <1>q, <1>c, <1>k, <1>p DEF GroupInv

\* The pending cancellation of the parent ends wait()
LEMMA WaitDoomedStep ==
    ASSUME Types, Queue, GroupInv, WaitDoomed
    PROVE  Types' /\ Queue' /\ GroupInv'
<1>a. Apart
  BY HandlesApart
<1>0. ready \in Seq(Handles) /\ Distinct(ready)
  BY DEF Types, Queue
<1>u. /\ UNCHANGED <<mode, mon, remaining, kid, result, cont, monitors, twice>>
      /\ parent' = "returned" /\ ~waiter' /\ reported' = exceptions /\ exceptions' = {} /\ ~doomed'
  BY DEF WaitDoomed, WaitReturns, monVars, kidVars
<1>w. parent = "body" /\ doomed
  BY DEF WaitDoomed
<1>m. /\ ToSet(monitors) \subseteq Kids /\ \A j \in ToSet(monitors) : mon[j] # "none"
      /\ Running \subseteq {j \in ToSet(monitors) : mon[j] # "done"}
  BY ToSetProperties DEF Types, GroupInv, GroupCounts, Running
<1>r. /\ ready' \in Seq(Handles) /\ Distinct(ready')
      /\ ToSet(ready') = ToSet(ready) \cup {Mon(k) : k \in {j \in ToSet(monitors) : mon[j] # "done"}}
      /\ cancelled' = cancelled \cup {Mon(k) : k \in {j \in ToSet(monitors) : mon[j] # "done"}}
  BY <1>0, LiveProperties DEF Types, WaitDoomed, CancelMons
<1>s. /\ \A h \in ToSet(ready') : h \in ToSet(ready) \/ \E k \in Kids : h = Mon(k) /\ mon[k] # "none"
      /\ \A k \in Running : Mon(k) \in cancelled'
      /\ cancelled \subseteq cancelled'
  BY <1>0, <1>m, <1>r
<1>t. Types'
  BY <1>u, <1>r DEF Types
<1>q. Queue'
  BY <1>a, <1>u, <1>r, <1>s DEF Queue, Apart
<1>c. GroupCounts'
  BY <1>u DEF GroupInv, GroupCounts, Running
<1>k. GroupKids'
  BY <1>u, <1>w DEF GroupInv, GroupKids, GroupParent
<1>p. GroupParent'
  <2>1. Parent \in ToSet(ready') => Parent \in ToSet(ready)
    BY <1>a, <1>m, <1>r DEF Apart
  <2>2. ASSUME NEW j \in Kids PROVE mon[j] = "none" \/ (mon[j] = "new" /\ Mon(j) \in cancelled')
    <3>1. mon[j] \in {"none", "new"}
      BY <1>w DEF GroupInv, GroupParent
    <3>2. mon[j] = "new" => j \in Running
      BY DEF Running
    <3> QED
      BY <1>s, <3>1, <3>2
  <2>3. Parent \notin ToSet(ready')
    BY <1>w, <2>1 DEF GroupInv, GroupParent
  <2> QED
    BY <1>u, <2>2, <2>3 DEF GroupParent
<1> QED
  BY <1>t, <1>q, <1>c, <1>k, <1>p DEF GroupInv

\* TaskGroup::cancel()
LEMMA CancelStep ==
    ASSUME Types, Queue, GroupInv, cancel
    PROVE  Types' /\ Queue' /\ GroupInv'
<1>a. Apart
  BY HandlesApart
<1>0. ready \in Seq(Handles) /\ Distinct(ready)
  BY DEF Types, Queue
<1>u. /\ UNCHANGED <<mode, mon, remaining, kid, result, cont, monitors, twice, parent, waiter, doomed,
                     reported, exceptions>>
  BY DEF cancel, monVars, kidVars
<1>w. parent \in {"body", "wait"}
  BY DEF cancel
<1>m. /\ ToSet(monitors) \subseteq Kids /\ \A j \in ToSet(monitors) : mon[j] # "none"
      /\ Running \subseteq {j \in ToSet(monitors) : mon[j] # "done"}
  BY ToSetProperties DEF Types, GroupInv, GroupCounts, Running
<1>r. /\ ready' \in Seq(Handles) /\ Distinct(ready')
      /\ ToSet(ready') = ToSet(ready) \cup {Mon(k) : k \in {j \in ToSet(monitors) : mon[j] # "done"}}
      /\ cancelled' = cancelled \cup {Mon(k) : k \in {j \in ToSet(monitors) : mon[j] # "done"}}
  BY <1>0, LiveProperties DEF Types, cancel, CancelMons
<1>s. /\ \A h \in ToSet(ready') : h \in ToSet(ready) \/ \E k \in Kids : h = Mon(k) /\ mon[k] # "none"
      /\ \A k \in Running : Mon(k) \in cancelled'
      /\ cancelled \subseteq cancelled'
  BY <1>0, <1>m, <1>r
<1>t. Types'
  BY <1>u, <1>r DEF Types
<1>q. Queue'
  BY <1>a, <1>u, <1>r, <1>s DEF Queue, Apart
<1>c. GroupCounts'
  BY <1>u DEF GroupInv, GroupCounts, Running
<1>k. GroupKids'
  BY <1>u, <1>w DEF GroupInv, GroupKids, GroupParent
<1>p. GroupParent'
  <2>1. Parent \in ToSet(ready') => Parent \in ToSet(ready)
    BY <1>a, <1>m, <1>r DEF Apart
  <2> QED
    BY <1>u, <1>w, <2>1 DEF GroupInv, GroupParent
<1> QED
  BY <1>t, <1>q, <1>c, <1>k, <1>p DEF GroupInv

\* The group is destroyed
LEMMA LeaveStep ==
    ASSUME Types, Queue, GroupInv, Leave
    PROVE  Types' /\ Queue' /\ GroupInv'
<1>a. Apart
  BY HandlesApart
<1>0. /\ RemoveFirst(ready, Parent) \in Seq(Handles) /\ Distinct(RemoveFirst(ready, Parent))
      /\ ToSet(RemoveFirst(ready, Parent)) = ToSet(ready) \ {Parent}
  BY RemoveFirstProperties DEF Types, Queue
<1>u. /\ UNCHANGED <<mode, mon, remaining, kid, result, cont, monitors, twice, reported, exceptions>>
      /\ parent' = "gone" /\ ~waiter' /\ ~doomed'
  BY DEF Leave, monVars, kidVars
<1>w. parent \in {"body", "wait"}
  BY DEF Leave
<1>m. /\ ToSet(monitors) \subseteq Kids /\ \A j \in ToSet(monitors) : mon[j] # "none"
      /\ Running \subseteq {j \in ToSet(monitors) : mon[j] # "done"}
  BY ToSetProperties DEF Types, GroupInv, GroupCounts, Running
<1>r. /\ ready' \in Seq(Handles) /\ Distinct(ready')
      /\ ToSet(ready') = ToSet(RemoveFirst(ready, Parent)) \cup {Mon(k) : k \in {j \in ToSet(monitors) : mon[j] # "done"}}
      /\ cancelled' = cancelled \cup {Mon(k) : k \in {j \in ToSet(monitors) : mon[j] # "done"}}
  BY <1>0, LiveProperties DEF Types, Leave, CancelMons
<1>s. /\ \A h \in ToSet(ready') : h \in ToSet(ready) \/ \E k \in Kids : h = Mon(k) /\ mon[k] # "none"
      /\ \A k \in Running : Mon(k) \in cancelled'
      /\ cancelled \subseteq cancelled'
  BY <1>0, <1>m, <1>r
<1>t. Types'
  BY <1>u, <1>r DEF Types
<1>q. Queue'
  BY <1>a, <1>u, <1>r, <1>s DEF Queue, Apart
<1>c. GroupCounts'
  BY <1>u DEF GroupInv, GroupCounts, Running
<1>k. GroupKids'
  BY <1>u, <1>w DEF GroupInv, GroupKids, GroupParent
<1>p. GroupParent'
  <2>1. Parent \in ToSet(ready') => Parent \in ToSet(RemoveFirst(ready, Parent))
    BY <1>a, <1>m, <1>r DEF Apart
  <2>2. Parent \notin ToSet(ready')
    BY <1>0, <2>1
  <2> QED
    BY <1>u, <1>w, <2>2 DEF GroupInv, GroupParent
<1> QED
  BY <1>t, <1>q, <1>c, <1>k, <1>p DEF GroupInv

-----------------------------------------------------------------------------
(* TaskGroup: the monitors.                                                *)

\* A monitor starts its child
LEMMA MonitorStartsStep ==
    ASSUME Types, Queue, GroupInv, mode = "group", NEW k \in Kids, ~doomed, MonitorStarts(k)
    PROVE  Types' /\ Queue' /\ GroupInv'
<1>a. Apart
  BY HandlesApart
<1>o. /\ Tail(ready) \in Seq(Handles) /\ Distinct(Tail(ready))
      /\ Mon(k) \in ToSet(ready) /\ ToSet(Tail(ready)) = ToSet(ready) \ {Mon(k)}
  BY <1>a, TakeTurn DEF MonitorStarts, Apart

<1>u. /\ UNCHANGED <<mode, remaining, result, cancelled, monitors, twice, parent, waiter, doomed,
                     reported, exceptions>>
      /\ mon[k] = "new" /\ Mon(k) \notin cancelled /\ mon' = [mon EXCEPT ![k] = "first"]
      /\ kid' = [kid EXCEPT ![k] = "queued"] /\ cont' = [cont EXCEPT ![k] = Mon(k)]
      /\ ready' = Append(Tail(ready), Kid(k))
  BY DEF MonitorStarts, Awaited, groupVars, group
<1>n. kid[k] = "none" /\ Kid(k) \notin ToSet(ready)
  BY <1>u DEF GroupInv, GroupKids, Queue
<1>r. /\ ready' \in Seq(Handles) /\ Distinct(ready')
      /\ ToSet(ready') = (ToSet(ready) \ {Mon(k)}) \cup {Kid(k)}
  BY <1>a, <1>o, <1>u, <1>n, AppendToSet DEF Apart
<1>t. Types'
  BY <1>a, <1>u, <1>r DEF Types, Apart
<1>q. Queue'
  BY <1>a, <1>u, <1>r, <1>n DEF Queue, Types, Apart
<1>c. GroupCounts'
  <2>1. Running' = Running
    BY <1>u DEF Running, Types
  <2>2. \A j \in ToSet(monitors) : mon'[j] # "none"
    BY <1>u, ToSetProperties DEF Types, GroupInv, GroupCounts
  <2> QED
    BY <1>u, <2>1, <2>2 DEF GroupInv, GroupCounts
<1>k. GroupKids'
  BY <1>u, <1>n DEF GroupInv, GroupKids, Types
<1>p. GroupParent'
  BY <1>a, <1>u, <1>r DEF GroupInv, GroupParent, Types, Apart
<1> QED
  BY <1>t, <1>q, <1>c, <1>k, <1>p DEF GroupInv

\* complete() of the monitor of k: what is left of the queue is rest, and the last
\* monitor schedules the parent.
LEMMA CompleteFacts ==
    ASSUME Types, GroupInv, NEW k \in Kids, k \in Running,
           NEW rest \in Seq(Handles), Distinct(rest), complete(k, rest)
    PROVE  /\ ready' \in Seq(Handles) /\ Distinct(ready')
           /\ \A h \in ToSet(ready') :
                 h \in ToSet(rest) \/ (h = Parent /\ parent = "wait" /\ remaining' = 0)
           /\ waiter' => parent = "wait"
           /\ remaining # 0
           /\ monitors' \in Seq(Kids)
           /\ GroupCounts'
<1>a. Apart
  BY HandlesApart
<1>1. /\ mon' = [mon EXCEPT ![k] = "done"] /\ remaining' = remaining - 1
      /\ monitors' = IF remaining = 1 THEN <<>> ELSE monitors
      /\ waiter' = (waiter /\ remaining # 1)
      /\ ready' = Scheduled(rest, IF waiter /\ remaining = 1 THEN <<Parent>> ELSE <<>>)
  BY DEF complete
<1>2. Running' = Running \ {k}
  BY <1>1 DEF Running, Types
<1>3. /\ IsFiniteSet(Running \ {k}) /\ Cardinality(Running) \in Nat
      /\ Cardinality(Running \ {k}) \in Nat /\ Cardinality(Running \ {k}) = Cardinality(Running) - 1
  BY OneFewer DEF GroupInv, GroupCounts
<1>4. remaining \in Nat /\ remaining = Cardinality(Running) /\ remaining # 0
  BY <1>3 DEF GroupInv, GroupCounts
<1>e. <<>> \in Seq(Kids) /\ ToSet(<<>>) = {}
  BY NoWaiters
<1>5. monitors' \in Seq(Kids)
  BY <1>1, <1>e DEF Types
<1>6. Running' \subseteq ToSet(monitors')
  <2>1. CASE remaining = 1
    <3>1. Cardinality(Running \ {k}) = 0
      BY <1>3, <1>4, <2>1
    <3>2. Running' = {}
      BY <1>2, <1>3, <3>1, FS_EmptySet
    <3> QED
      BY <3>2
  <2>2. CASE remaining # 1
    BY <1>1, <1>2, <2>2 DEF GroupInv, GroupCounts
  <2> QED
    BY <2>1, <2>2
<1>7. \A j \in ToSet(monitors') : mon'[j] # "none"
  <2>1. ToSet(monitors') \subseteq ToSet(monitors)
    BY <1>1, <1>e
  <2>2. ToSet(monitors) \subseteq Kids /\ \A j \in ToSet(monitors) : mon[j] # "none"
    BY ToSetProperties DEF Types, GroupInv, GroupCounts
  <2> QED
    BY <1>1, <2>1, <2>2 DEF Types
<1>8. GroupCounts'
  BY <1>1, <1>2, <1>3, <1>4, <1>6, <1>7 DEF GroupCounts
<1>9. /\ Scheduled(rest, <<>>) = rest
      /\ Scheduled(rest, <<Parent>>) \in Seq(Handles) /\ Distinct(Scheduled(rest, <<Parent>>))
      /\ ToSet(Scheduled(rest, <<Parent>>)) = ToSet(rest) \cup {Parent}
  BY <1>a, ScheduleOne DEF Apart
<1>10. CASE waiter /\ remaining = 1
  <2>1. ready' = Scheduled(rest, <<Parent>>)
    BY <1>1, <1>10
  <2>2. parent = "wait" /\ remaining' = 0
    BY <1>1, <1>10 DEF GroupInv, GroupParent
  <2> QED
    BY <1>1, <1>4, <1>5, <1>8, <1>9, <1>10, <2>1, <2>2
<1>11. CASE ~(waiter /\ remaining = 1)
  <2>1. ready' = rest
    BY <1>1, <1>9, <1>11
  <2>2. waiter' => parent = "wait"
    BY <1>1 DEF GroupInv, GroupParent
  <2> QED
    BY <1>4, <1>5, <1>8, <2>1, <2>2
<1> QED
  BY <1>10, <1>11

\* A monitor that was cancelled before its first run
LEMMA MonitorSkipsStep ==
    ASSUME Types, Queue, GroupInv, mode = "group", NEW k \in Kids, ~doomed, MonitorSkips(k)
    PROVE  Types' /\ Queue' /\ GroupInv'
<1>a. Apart
  BY HandlesApart
<1>o. /\ Tail(ready) \in Seq(Handles) /\ Distinct(Tail(ready))
      /\ Mon(k) \in ToSet(ready) /\ ToSet(Tail(ready)) = ToSet(ready) \ {Mon(k)}
  BY <1>a, TakeTurn DEF MonitorSkips, Apart

<1>u. /\ UNCHANGED <<mode, twice, parent, doomed, reported, exceptions>>
      /\ mon[k] = "new" /\ mon' = [mon EXCEPT ![k] = "done"]
      /\ kid' = [kid EXCEPT ![k] = "ended"] /\ cont' = [cont EXCEPT ![k] = <<>>]
      /\ result' = [result EXCEPT ![k] = "cancelled"]
      /\ cancelled' = cancelled \ {Mon(k)}
      /\ complete(k, Tail(ready))
  BY DEF MonitorSkips, complete, Ends
<1>n. kid[k] = "none" /\ Kid(k) \notin ToSet(ready) /\ k \in Running
  BY <1>u DEF GroupInv, GroupKids, Queue, Running
<1>r. /\ ready' \in Seq(Handles) /\ Distinct(ready')
      /\ \A h \in ToSet(ready') :
            \/ h \in ToSet(ready) \ {Mon(k)}
            \/ h = Parent /\ parent = "wait" /\ remaining' = 0
      /\ waiter' => parent = "wait"
      /\ remaining # 0 /\ monitors' \in Seq(Kids)
  BY <1>o, <1>u, <1>n, CompleteFacts
<1>t. Types'
  BY <1>a, <1>u, <1>r DEF Types, Apart
<1>q. Queue'
  BY <1>a, <1>u, <1>r, <1>n DEF Queue, Types, Apart
<1>c. GroupCounts'
  BY <1>o, <1>u, <1>n, CompleteFacts
<1>k. GroupKids'
  BY <1>u, <1>n DEF GroupInv, GroupKids, Types
<1>p. GroupParent'
  BY <1>a, <1>u, <1>r DEF GroupInv, GroupParent, Types, Apart
<1> QED
  BY <1>t, <1>q, <1>c, <1>k, <1>p DEF GroupInv

\* A monitor passes its cancellation on to the child
LEMMA MonitorForwardsStep ==
    ASSUME Types, Queue, GroupInv, mode = "group", NEW k \in Kids, ~doomed, MonitorForwards(k)
    PROVE  Types' /\ Queue' /\ GroupInv'
<1>a. Apart
  BY HandlesApart
<1>o. /\ Tail(ready) \in Seq(Handles) /\ Distinct(Tail(ready))
      /\ Mon(k) \in ToSet(ready) /\ ToSet(Tail(ready)) = ToSet(ready) \ {Mon(k)}
  BY <1>a, TakeTurn DEF MonitorForwards, Apart

<1>u. /\ UNCHANGED <<mode, remaining, kid, result, monitors, twice, parent, waiter, doomed,
                     reported, exceptions>>
      /\ mon[k] = "first" /\ kid[k] # "ended" /\ mon' = [mon EXCEPT ![k] = "second"]
      /\ cont' = [cont EXCEPT ![k] = Mon(k)]
      /\ ready' = Scheduled(Tail(ready), WokenByCancel(k))
      /\ cancelled' = (cancelled \ {Mon(k)}) \cup {Kid(k)}
  BY DEF MonitorForwards, groupVars, group, kidVars
<1>s. /\ Scheduled(Tail(ready), <<>>) = Tail(ready)
      /\ Scheduled(Tail(ready), <<Kid(k)>>) \in Seq(Handles)
      /\ Distinct(Scheduled(Tail(ready), <<Kid(k)>>))
      /\ ToSet(Scheduled(Tail(ready), <<Kid(k)>>)) = ToSet(Tail(ready)) \cup {Kid(k)}
  BY <1>a, <1>o, ScheduleOne DEF Apart
<1>r. /\ ready' \in Seq(Handles) /\ Distinct(ready')
      /\ \A h \in ToSet(ready') : h \in ToSet(ready) \ {Mon(k)} \/ (h = Kid(k) /\ Suspended(k))
  BY <1>o, <1>u, <1>s DEF WokenByCancel
<1>t. Types'
  BY <1>a, <1>u, <1>r DEF Types, Apart
<1>q. Queue'
  BY <1>a, <1>u, <1>r DEF Queue, Types, Apart, Suspended
<1>c. GroupCounts'
  <2>1. Running' = Running
    BY <1>u DEF Running, Types
  <2>2. \A j \in ToSet(monitors) : mon'[j] # "none"
    BY <1>u, ToSetProperties DEF Types, GroupInv, GroupCounts
  <2> QED
    BY <1>u, <2>1, <2>2 DEF GroupInv, GroupCounts
<1>k. GroupKids'
  BY <1>u DEF GroupInv, GroupKids, Types
<1>p. GroupParent'
  BY <1>a, <1>u, <1>r DEF GroupInv, GroupParent, Types, Apart
<1> QED
  BY <1>t, <1>q, <1>c, <1>k, <1>p DEF GroupInv

\* A monitor has seen the end of its child, or was cancelled twice
LEMMA MonitorEndsStep ==
    ASSUME Types, Queue, GroupInv, mode = "group", NEW k \in Kids, ~doomed, MonitorEnds(k)
    PROVE  Types' /\ Queue' /\ GroupInv'
<1>a. Apart
  BY HandlesApart
<1>o. /\ Tail(ready) \in Seq(Handles) /\ Distinct(Tail(ready))
      /\ Mon(k) \in ToSet(ready) /\ ToSet(Tail(ready)) = ToSet(ready) \ {Mon(k)}
  BY <1>a, TakeTurn DEF MonitorEnds, Apart

<1> DEFINE others == IF Fails(k) /\ ~failing THEN Filtered(Live(monitors), Kids \ {k}) ELSE <<>>
           rest == Scheduled(Tail(ready), MonsOf(others))
<1>u. /\ UNCHANGED <<mode, result, parent, doomed, reported>>
      /\ mon' = [mon EXCEPT ![k] = "done"]
      /\ kid' = [kid EXCEPT ![k] = IF @ = "ended" THEN @ ELSE "killed"]
      /\ cont' = [cont EXCEPT ![k] = <<>>]
      /\ complete(k, rest)
  BY DEF MonitorEnds, complete, Destroyed
<1>v. /\ mon[k] \in {"first", "second"}
      /\ kid[k] = "ended" \/ (mon[k] = "second" /\ Mon(k) \in cancelled)
      /\ exceptions' = Failures(k)
      /\ twice' = IF mon[k] = "second" /\ Mon(k) \in cancelled THEN twice \cup {k} ELSE twice
  BY DEF MonitorEnds
<1>n. k \in Running
  BY <1>v DEF Running
<1>l. others \in Seq(Kids) /\ ToSet(others) \subseteq {j \in Kids : mon[j] # "none"}
  <2>1. /\ Live(monitors) \in Seq(Kids)
        /\ ToSet(Live(monitors)) = {j \in ToSet(monitors) : mon[j] # "done"}
    BY <1>o, LiveProperties DEF Types
  <2>2. /\ Filtered(Live(monitors), Kids \ {k}) \in Seq(Kids)
        /\ ToSet(Filtered(Live(monitors), Kids \ {k})) = ToSet(Live(monitors)) \cap (Kids \ {k})
    BY <2>1, FilteredProperties
  <2>3. <<>> \in Seq(Kids) /\ ToSet(<<>>) = {}
    BY NoWaiters
  <2> QED
    BY <2>1, <2>2, <2>3 DEF GroupInv, GroupCounts
<1> HIDE DEF others
<1>s. /\ rest \in Seq(Handles) /\ Distinct(rest)
      /\ \A h \in ToSet(rest) :
            h \in ToSet(ready) \ {Mon(k)} \/ \E j \in Kids : h = Mon(j) /\ mon[j] # "none"
  <2>1. MonsOf(others) \in Seq(Handles) /\ ToSet(MonsOf(others)) = {Mon(j) : j \in ToSet(others)}
    BY <1>l, MonsOfProperties
  <2>2. /\ rest \in Seq(Handles) /\ Distinct(rest)
        /\ ToSet(rest) = ToSet(Tail(ready)) \cup ToSet(MonsOf(others))
    BY <1>o, <2>1, ScheduledProperties
  <2> QED
    BY <1>o, <1>l, <2>1, <2>2
<1> HIDE DEF rest
<1>c0. /\ ready' \in Seq(Handles) /\ Distinct(ready')
       /\ \A h \in ToSet(ready') :
             h \in ToSet(rest) \/ (h = Parent /\ parent = "wait" /\ remaining' = 0)
       /\ waiter' => parent = "wait"
       /\ remaining # 0 /\ monitors' \in Seq(Kids)
       /\ GroupCounts'
  BY <1>u, <1>n, <1>s, CompleteFacts
<1>r. \A h \in ToSet(ready') :
            \/ h \in ToSet(ready) \ {Mon(k)}
            \/ \E j \in Kids : h = Mon(j) /\ mon[j] # "none"
            \/ h = Parent /\ parent = "wait" /\ remaining' = 0
  BY <1>s, <1>c0
<1>t. Types'
  BY <1>a, <1>u, <1>c0 DEF Types, Apart
<1>q. Queue'
  BY <1>a, <1>u, <1>c0, <1>r DEF Queue, Types, Apart
<1>c. GroupCounts'
  BY <1>c0
<1>k. GroupKids'
  BY <1>u, <1>v DEF GroupInv, GroupKids, Types, Failures
<1>p. GroupParent'
  <2>1. parent # "returned"
    BY <1>v DEF GroupInv, GroupParent
  <2>2. Parent \in ToSet(ready') => parent = "wait" /\ remaining' = 0
    BY <1>a, <1>c0, <1>r DEF GroupInv, GroupParent, Apart
  <2> QED
    BY <1>u, <1>c0, <2>1, <2>2 DEF GroupInv, GroupParent
<1> QED
  BY <1>t, <1>q, <1>c, <1>k, <1>p DEF GroupInv

\* The children of a group.
LEMMA GroupKidStep ==
    ASSUME Types, Queue, GroupInv, mode = "group", NEW k \in Kids,
           RunKid(k) \/ Reclaim(k) \/ KidWake(k), UNCHANGED groupVars
    PROVE  Types' /\ Queue' /\ GroupInv'
<1>a. Apart
  BY HandlesApart
<1>u. UNCHANGED <<monitors, twice, parent, waiter, doomed, reported, exceptions>>
  BY DEF groupVars, group
<1>1. CASE RunKid(k)
  <2>1. RunEffect(k)
    BY <1>1, RunKidEffect
  <2>2. Types' /\ Queue'
    BY <1>u, <2>1, RunKidShared
  <2>3. GroupCounts'
    BY <1>u, <2>1 DEF GroupInv, GroupCounts, RunEffect, Running
  <2>4. GroupKids'
    BY <1>u, <2>1 DEF GroupInv, GroupKids, RunEffect, Types
  <2>5. \A h \in ToSet(ready') : h \in ToSet(ready) \/ h = Mon(k)
    BY <2>1 DEF GroupInv, GroupKids, RunEffect
  <2>6. GroupParent'
    BY <1>a, <1>u, <2>1, <2>5 DEF GroupInv, GroupParent, RunEffect, Apart
  <2> QED
    BY <2>2, <2>3, <2>4, <2>6 DEF GroupInv
<1>2. CASE Reclaim(k) \/ KidWake(k)
  <2>1. QueueEffect(k)
    BY <1>2, ReclaimOrWake
  <2>2. Types' /\ Queue'
    BY <1>u, <2>1, QueueShared
  <2>3. GroupCounts'
    BY <1>u, <2>1 DEF GroupInv, GroupCounts, QueueEffect, Running
  <2>4. GroupKids'
    BY <1>u, <2>1 DEF GroupInv, GroupKids, QueueEffect
  <2>6. GroupParent'
    BY <1>a, <1>u, <2>1 DEF GroupInv, GroupParent, QueueEffect, Apart
  <2> QED
    BY <2>2, <2>3, <2>4, <2>6 DEF GroupInv
<1> QED
  BY <1>1, <1>2

\* Every step of a group
LEMMA GroupStep ==
    ASSUME Types, Queue, GroupInv, mode = "group", GroupNext
    PROVE  Types' /\ Queue' /\ GroupInv' /\ mode' = mode
<1>1. mode' = mode
  <2>1. CASE \E k \in Kids : RunKid(k) \/ Reclaim(k) \/ KidWake(k) \/ spawn(k)
    BY <2>1 DEF RunKid, Reclaim, KidWake, spawn, monVars
  <2>2. CASE wait \/ WaitDoomed \/ cancel \/ Leave \/ Return
    BY <2>2 DEF wait, WaitDoomed, cancel, Leave, Return, WaitReturns, monVars
  <2>3. CASE \E k \in Kids : MonitorStarts(k) \/ MonitorSkips(k) \/ MonitorForwards(k) \/ MonitorEnds(k)
    BY <2>3 DEF MonitorStarts, MonitorSkips, MonitorForwards, MonitorEnds, complete
  <2> QED
    BY <2>1, <2>2, <2>3 DEF GroupNext, GroupResume
<1>2. CASE wait
  BY <1>1, <1>2, WaitStep
<1>3. CASE WaitDoomed
  BY <1>1, <1>3, WaitDoomedStep
<1>4. CASE cancel
  BY <1>1, <1>4, CancelStep
<1>5. CASE Leave
  BY <1>1, <1>5, LeaveStep
<1>6. CASE \E k \in Kids : spawn(k)
  BY <1>1, <1>6, SpawnStep
<1>7. CASE \E k \in Kids : KidWake(k) /\ UNCHANGED groupVars
  BY <1>1, <1>7, GroupKidStep
<1>8. CASE GroupResume
  <2>1. CASE Return
    BY <1>1, <2>1, ReturnStep
  <2>2. ASSUME NEW k \in Kids, ~doomed, MonitorStarts(k) PROVE Types' /\ Queue' /\ GroupInv'
    BY <2>2, MonitorStartsStep
  <2>3. ASSUME NEW k \in Kids, ~doomed, MonitorSkips(k) PROVE Types' /\ Queue' /\ GroupInv'
    BY <2>3, MonitorSkipsStep
  <2>4. ASSUME NEW k \in Kids, ~doomed, MonitorForwards(k) PROVE Types' /\ Queue' /\ GroupInv'
    BY <2>4, MonitorForwardsStep
  <2>5. ASSUME NEW k \in Kids, ~doomed, MonitorEnds(k) PROVE Types' /\ Queue' /\ GroupInv'
    BY <2>5, MonitorEndsStep
  <2>6. ASSUME NEW k \in Kids, RunKid(k) \/ Reclaim(k), UNCHANGED groupVars
        PROVE  Types' /\ Queue' /\ GroupInv'
    BY <2>6, GroupKidStep
  <2> QED
    BY <1>1, <1>8, <2>1, <2>2, <2>3, <2>4, <2>5, <2>6 DEF GroupResume
<1> QED
  BY <1>2, <1>3, <1>4, <1>5, <1>6, <1>7, <1>8 DEF GroupNext

-----------------------------------------------------------------------------
(* wait_for, gather, wait_tasks: the arguments, the queue, the outcome.    *)

\* The arguments are the children, each once.
LEMMA ArgFacts ==
    /\ Args \in Seq(Kids) /\ Distinct(Args) /\ Arg \in Kids
    /\ mode # "wait_for" => ToSet(Args) = Kids /\ Len(Args) = Cardinality(Kids)
<1> DEFINE all == SetToSeq(Kids)
<1>1. IsFiniteSet(Kids) /\ Kids # {}
  BY KidsAssumption
<1>2. Cardinality(Kids) \in Nat /\ Cardinality(Kids) # 0
  BY <1>1, FS_CardinalityType, FS_EmptySet
<1>3. ExistsBijection(1..Cardinality(Kids), Kids)
  BY <1>1, FS_NatBijection, FS_CardinalityType
<1>4. PICK f \in [1..Cardinality(Kids) -> Kids] : IsInjective(f)
  BY <1>3 DEF ExistsBijection, Bijection, Injection, IsInjective
<1>5. all \in [1..Cardinality(Kids) -> Kids] /\ IsInjective(all)
  BY <1>4 DEF SetToSeq
<1> HIDE DEF all
<1>6. all \in Seq(Kids) /\ Len(all) = Cardinality(Kids)
  BY <1>2, <1>5
<1>7. Distinct(all)
  BY <1>5, <1>6 DEF Distinct, IsInjective
<1>8. ToSet(all) = Kids
  <2>1. ToSet(all) \subseteq Kids /\ IsFiniteSet(ToSet(all))
    BY <1>6, ToSetProperties
  <2>2. Cardinality(ToSet(all)) = Cardinality(Kids)
    BY <1>6, <1>7, ToSetProperties
  <2> QED
    BY <1>1, <2>1, <2>2, FS_Subset
<1>9. CASE mode # "wait_for"
  <2>1. Args = all
    BY <1>9 DEF Args, all
  <2>2. all[1] \in Kids
    BY <1>2, <1>5
  <2> QED
    BY <1>6, <1>7, <1>8, <2>1, <2>2 DEF Arg
<1>10. CASE mode = "wait_for"
  <2> DEFINE one == <<all[1]>>
  <2>1. Args = one
    BY <1>10 DEF Args, all
  <2>2. all[1] \in Kids
    BY <1>2, <1>5
  <2>3. one \in Seq(Kids) /\ Len(one) = 1 /\ one[1] \in Kids
    BY <2>2
  <2>4. Distinct(one)
    BY <2>3 DEF Distinct
  <2> QED
    BY <1>10, <2>1, <2>3, <2>4 DEF Arg
<1> QED
  BY <1>9, <1>10

\* The order of two handles that wait, when the loop has taken another one
LEMMA StillBefore ==
    ASSUME Types, NEW h, Turn(h), Types', Extended(ready', Tail(ready)),
           NEW a, NEW b, a # h, a \in ToSet(ready), Before(ready, a, b)
    PROVE  Before(ready', a, b)
<1>1. ready \in Seq(Handles) /\ ready # <<>> /\ Head(ready) = h /\ ready' \in Seq(Handles)
  BY DEF Types, Turn
<1>2. Tail(ready) \in Seq(Handles) /\ ToSet(ready) = ToSet(Tail(ready)) \cup {h}
  BY <1>1, TailProperties
<1>3. Before(Tail(ready), a, b)
  BY <1>1, BeforeTail
<1>4. a \in ToSet(Tail(ready))
  BY <1>2
<1> DEFINE q == Tail(ready)
           r == ready'
<1>5. q \in Seq(Handles) /\ r \in Seq(Handles) /\ Extended(r, q) /\ a \in ToSet(q) /\ Before(q, a, b)
  BY <1>1, <1>2, <1>3, <1>4
<1> HIDE DEF q, r
<1>6. Before(r, a, b)
  BY <1>5, BeforeExtended
<1> QED
  BY <1>6 DEF r

LEMMA StaysBefore ==
    ASSUME Types, Types', Extended(ready', ready),
           NEW a, NEW b, a \in ToSet(ready), Before(ready, a, b)
    PROVE  Before(ready', a, b)
<1> DEFINE r == ready'
<1>1. ready \in Seq(Handles) /\ r \in Seq(Handles) /\ Extended(r, ready)
  BY DEF Types
<1> HIDE DEF r
<1>2. Before(r, a, b)
  BY <1>1, BeforeExtended
<1> QED
  BY <1>2 DEF r

\* What has ended stays as it is.
Settled ==
    /\ Extended(order', order)
    /\ \A k \in Kids : kid[k] = "ended" => kid'[k] = "ended" /\ result'[k] = result[k]

LEMMA FirstFailureStable ==
    ASSUME OrderInv, OrderInv', Settled, NEW k \in Kids, FirstFailure(k)
    PROVE  FirstFailure(k)'
<1>1. /\ order \in Seq(Kids) /\ DOMAIN order = 1..Len(order) /\ Len(order) \in Nat
      /\ order' \in Seq(Kids) /\ DOMAIN order' = 1..Len(order') /\ Len(order') \in Nat
  BY LenProperties DEF OrderInv
<1>2. \A i \in 1..Len(order) : i \in 1..Len(order') /\ order'[i] = order[i]
  BY <1>1 DEF Settled, Extended
<1>3. \A i \in 1..Len(order) : order[i] \in Kids /\ result'[order[i]] = result[order[i]]
  <2> SUFFICES ASSUME NEW i \in 1..Len(order)
               PROVE  order[i] \in Kids /\ result'[order[i]] = result[order[i]]
    OBVIOUS
  <2>1. order[i] \in ToSet(order)
    BY <1>1, InToSet
  <2> QED
    BY <2>1 DEF OrderInv, Settled
<1>4. PICK i \in 1..Len(order) : /\ order[i] = k /\ result[k] # "ok"
                                 /\ \A j \in 1..(i - 1) : result[order[j]] = "ok"
  BY <1>1 DEF FirstFailure
<1>5. \A j \in 1..(i - 1) : j \in 1..Len(order)
  BY <1>1
<1>6. /\ i \in DOMAIN order' /\ order'[i] = k /\ result'[k] # "ok"
      /\ \A j \in 1..(i - 1) : result'[order'[j]] = "ok"
  BY <1>1, <1>2, <1>3, <1>4, <1>5
<1> QED
  BY <1>6 DEF FirstFailure

LEMMA OutcomeStable ==
    ASSUME Types, OrderInv, OutcomeInv, OrderInv', Settled,
           UNCHANGED <<mode, outcome>>, first # Nobody => first' = first
    PROVE  OutcomeInv'
<1> DEFINE what == outcome[1]
           who == outcome[2]
<1>1. who # Nobody => who \in Kids /\ kid[who] = "ended" /\ result[who] = what
  BY DEF OutcomeInv, OutcomeExact
<1>2. who # Nobody => kid'[who] = "ended" /\ result'[who] = what
  BY <1>1 DEF Settled
<1>3. what = "timeout" => mode' = "wait_for" /\ first' = "deadline"
  BY DEF OutcomeInv, OutcomeExact, Nobody
<1>4. mode' = "first" /\ who # Nobody => who = order'[1]
  <2> SUFFICES ASSUME mode = "first", who # Nobody PROVE who = order'[1]
    OBVIOUS
  <2>1. who = order[1] /\ who \in ToSet(order)
    BY <1>1 DEF OutcomeInv, OutcomeExact, OrderInv
  <2>2. order \in Seq(Kids) /\ order # <<>>
    BY <2>1, ToSetProperties DEF OrderInv
  <2>3. 1 \in 1..Len(order)
    BY <2>2, LenProperties, EmptySeq
  <2> QED
    BY <2>1, <2>3 DEF Settled, Extended
<1>5. AllEnded => AllEnded'
  BY DEF AllEnded, Settled
<1>6. AllEnded /\ (\A k \in Kids : result[k] = "ok") => \A k \in Kids : result'[k] = "ok"
  BY DEF AllEnded, Settled
<1>7. ASSUME mode \in {"gather", "all", "exception"}, who # Nobody, NEW k \in Kids, k = who
      PROVE  FirstFailure(k)'
  <2>1. FirstFailure(k)
    BY <1>7 DEF OutcomeInv, OutcomeExact
  <2> QED
    BY <2>1, FirstFailureStable
<1>8. /\ mode' \in {"gather", "all"} /\ who # Nobody => AllEnded'
      /\ mode' \in {"gather", "all", "exception"} /\ what = "ok" =>
           AllEnded' /\ \A k \in Kids : result'[k] = "ok"
  BY <1>5, <1>6 DEF OutcomeInv, OutcomeExact
<1>9. outcome'[1] = what /\ outcome'[2] = who
  OBVIOUS
<1>10. mode \in {"gather", "all", "exception"} /\ who # Nobody => FirstFailure(outcome[2])'
  BY <1>1, <1>7 DEF FirstFailure
<1> HIDE DEF what, who
<1> QED
  BY <1>1, <1>2, <1>3, <1>4, <1>8, <1>9, <1>10 DEF OutcomeInv, OutcomeExact

\* Monitors that wait in the queue for the same reason stay in their order.
KeepsOrder ==
    \A i \in Kids, j \in Kids :
        /\ kid[i] = "ended" /\ Mon(i) \in ToSet(ready) /\ mon'[i] # "done"
        /\ Before(ready, Mon(i), Mon(j))
        => Before(ready', Mon(i), Mon(j))

LEMMA InOrderKept ==
    ASSUME Types, OrderInv, MonInv, Stored, InOrder, mode # "wait_for", KeepsOrder,
           UNCHANGED order, \A j \in Kids : mon'[j] = "done" <=> mon[j] = "done"
    PROVE  InOrder'
<1> SUFFICES ASSUME NEW i \in 1..Len(order), NEW j \in 1..Len(order), i < j,
                    mon[order[i]] # "done"
             PROVE  mon'[order[j]] # "done" /\ Before(ready', Mon(order[i]), Mon(order[j]))
  <2>1. \A n \in 1..Len(order) : order[n] \in Kids
    BY DEF OrderInv
  <2> QED
    BY <2>1 DEF InOrder
<1>1. order[i] \in Kids /\ order[j] \in Kids /\ order[i] \in ToSet(order)
  BY InToSet DEF OrderInv
<1>2. kid[order[i]] = "ended"
  BY <1>1 DEF OrderInv
<1>3. mon[order[i]] = "first"
  BY <1>1, <1>2 DEF Stored, MonInv, MonOk, Types
<1>4. Mon(order[i]) \in ToSet(ready)
  BY <1>1, <1>2, <1>3 DEF MonInv, MonOk
<1>5. mon[order[j]] # "done" /\ Before(ready, Mon(order[i]), Mon(order[j]))
  BY DEF InOrder
<1> QED
  BY <1>1, <1>2, <1>4, <1>5 DEF KeepsOrder

LEMMA StoredKept ==
    ASSUME Types, OrderInv, OrderInv', Settled, MonInv, Stored,
           UNCHANGED <<mode, first_exception, first_done, early_done>>,
           \A j \in Kids : /\ mon'[j] = "done" <=> mon[j] = "done"
                           /\ mon'[j] # "none" /\ (kid'[j] = "ended" => mon'[j] # "new")
    PROVE  Stored'
<1>1. ASSUME first_exception' = Nobody, NEW j \in Kids, mon'[j] = "done" PROVE result'[j] = "ok"
  BY <1>1 DEF Stored, Settled, MonInv, MonOk
<1>2. ASSUME first_exception # Nobody PROVE FirstFailure(first_exception)'
  <2>1. FirstFailure(first_exception)
    BY <1>2 DEF Stored
  <2>2. first_exception \in Kids
    BY <2>1, LenProperties DEF FirstFailure, OrderInv
  <2>3. PICK k \in Kids : k = first_exception
    BY <2>2
  <2>4. FirstFailure(k)'
    BY <2>1, <2>3, FirstFailureStable
  <2> QED
    BY <2>3, <2>4 DEF FirstFailure
<1>3. ASSUME mode = "first", first_done # Nobody PROVE order' # <<>> /\ first_done = order'[1]
  <2>1. order # <<>> /\ first_done = order[1] /\ order \in Seq(Kids) /\ order' \in Seq(Kids)
    BY <1>3 DEF Stored, OrderInv
  <2>2. Len(order) \in Nat /\ Len(order') \in Nat /\ 1 \in 1..Len(order)
    BY <2>1, LenProperties, EmptySeq
  <2>3. order'[1] = order[1] /\ Len(order') # 0
    BY <2>2 DEF Settled, Extended
  <2> QED
    BY <2>1, <2>3, EmptySeq
<1>4. mode' = "first" => /\ early_done' => first_done' # Nobody
                         /\ ~early_done' => \A j \in Kids : mon'[j] # "done"
  BY DEF Stored
<1> QED
  BY <1>1, <1>2, <1>3, <1>4 DEF Stored

\* A child runs: its monitor, or the caller of wait_for, is scheduled at its end.
LEMMA CombRunKid ==
    ASSUME Types, Queue, CombInv, mode # "group", NEW k \in Kids, RunEffect(k),
           UNCHANGED groupVars, UNCHANGED combVars
    PROVE  Types' /\ Queue' /\ CombInv'
<1>a. Apart
  BY HandlesApart
<1>u. UNCHANGED <<monitors, caller, registered, first_exception, early_done, first_done, timer,
                  timed_out, outcome, first>>
  BY DEF groupVars, group, combVars, state
<1>s. Types' /\ Queue'
  BY <1>u, RunKidShared
<1>i. CallerInv /\ StartInv /\ TimerInv /\ DeadlineInv /\ MonInv /\ CountInv /\ OrderInv /\ WatchInv /\ OutcomeInv
  BY DEF CombInv
<1>0. caller # "start"
  BY <1>i DEF RunEffect, StartInv
<1>g. Arg' = Arg
  BY DEF RunEffect, Arg, Args
<1>c. Caller \in cancelled' <=> Caller \in cancelled
  BY <1>a DEF RunEffect, Apart
<1>d. Timer \in cancelled' <=> Timer \in cancelled
  BY <1>a DEF RunEffect, Apart
<1>k. \A j \in Kids : cont'[j] = cont[j] \/ (j = k /\ cont'[j] = <<>>)
  BY DEF RunEffect, Types
<1>h. \A h \in ToSet(ready') : h \in ToSet(ready) \/ (h = cont[k] /\ cont[k] # <<>> /\ cont'[k] = <<>>)
  BY DEF RunEffect, Types
<1>b. \A x : x \in ToSet(ready) /\ x # Kid(k) => x \in ToSet(ready')
  BY DEF RunEffect
<1>1. CallerInv'
  <2>1. \A j \in Kids : cont'[j] = Caller => cont[j] = Caller
    BY <1>a, <1>k DEF Apart
  <2>2. Caller \in ToSet(ready') /\ Caller \notin ToSet(ready) => cont[k] = Caller /\ cont'[k] = <<>>
    BY <1>h
  <2>3. mode' = mode
    BY DEF RunEffect
  <2>4. Caller \in ToSet(ready') => caller # "left"
    BY <1>i, <2>2 DEF CallerInv
  <2>5. ASSUME caller = "await", Caller \in ToSet(ready'), Caller \notin cancelled
        PROVE  ~registered /\ \A j \in Kids : cont'[j] # Caller
    <3>1. CASE Caller \in ToSet(ready)
      BY <1>i, <2>1, <2>5, <3>1 DEF CallerInv
    <3>2. CASE Caller \notin ToSet(ready)
      BY <1>a, <1>i, <2>1, <2>2, <2>5, <3>2 DEF CallerInv, Apart
    <3> QED
      BY <3>1, <3>2
  <2> QED
    BY <1>i, <1>u, <1>g, <1>c, <2>1, <2>3, <2>4, <2>5 DEF CallerInv
<1>2. StartInv'
  BY <1>u, <1>0 DEF StartInv
<1>3. TimerInv'
  <2>1. cont[k] # Timer
    BY <1>a DEF Queue, Apart
  <2> QED
    BY <1>i, <1>u, <1>d, <1>h, <2>1 DEF TimerInv, RunEffect
<1>4. DeadlineInv'
  <2>1. Caller \in ToSet(ready) => Caller \in ToSet(ready')
    BY <1>a, <1>b DEF Apart
  <2>2. Timer \in ToSet(ready') => Timer \in ToSet(ready)
    BY <1>a, <1>h DEF Queue, Apart
  <2>3. Caller \in ToSet(ready) /\ Before(ready, Caller, Timer) => Before(ready', Caller, Timer)
    <3>1. Turn(Kid(k)) /\ Extended(ready', Tail(ready)) /\ Caller # Kid(k)
      BY <1>a DEF Turn, RunEffect, Apart
    <3> QED
      BY <1>s, <3>1, StillBefore
  <2> QED
    BY <1>i, <1>u, <2>1, <2>2, <2>3 DEF DeadlineInv, RunEffect
<1>5. MonInv'
  <2> SUFFICES ASSUME NEW j \in Kids PROVE MonOk(j)'
    BY DEF MonInv
  <2>1. Mon(j) \in ToSet(ready) => Mon(j) \in ToSet(ready')
    BY <1>a, <1>b DEF Apart
  <2>2. CASE j # k
    <3>1. kid'[j] = kid[j] /\ cont'[j] = cont[j] /\ mon'[j] = mon[j] /\ mode' = mode
      BY <2>2 DEF RunEffect, Types
    <3>2. Mon(j) \in ToSet(ready') => Mon(j) \in ToSet(ready)
      BY <1>a, <1>h, <2>2 DEF Queue, Apart
    <3> QED
      BY <1>i, <2>1, <3>1, <3>2 DEF MonInv, MonOk
  <2>3. CASE j = k
    <3>1. Mon(k) \notin ToSet(ready)
      BY <1>i DEF MonInv, MonOk, RunEffect
    <3>2. mode # "wait_for" => mon[k] = "first" /\ cont[k] = Mon(k)
      BY <1>i DEF MonInv, MonOk, RunEffect
    <3>3. mon[k] # "done"
      BY <1>i DEF MonInv, MonOk, RunEffect
    <3>4. mon'[k] = mon[k] /\ mode' = mode
      BY DEF RunEffect
    <3>5. \/ /\ kid'[k] = "ended" /\ cont'[k] = <<>>
             /\ Mon(k) \in ToSet(ready') <=> cont[k] = Mon(k)
          \/ kid'[k] \in {"wait", "cleanup"} /\ cont'[k] = cont[k] /\ Mon(k) \notin ToSet(ready')
      BY <1>a, <3>1 DEF RunEffect, Types, Apart
    <3> QED
      BY <1>a, <1>i, <2>3, <3>1, <3>2, <3>3, <3>4, <3>5 DEF MonInv, MonOk, Apart
  <2> QED
    BY <2>2, <2>3
<1>6. CountInv'
  BY <1>i DEF CountInv, Running, RunEffect
<1>7. OrderInv' /\ Settled
  <2>1. k \notin ToSet(order)
    BY <1>i DEF OrderInv, RunEffect
  <2>2. CASE kid' = [kid EXCEPT ![k] = "ended"] /\ order' = Append(order, k)
    <3>1. order' \in Seq(Kids) /\ Distinct(order') /\ ToSet(order') = ToSet(order) \cup {k} /\ Extended(order', order)
      BY <1>i, <2>1, <2>2, AppendToSet DEF OrderInv
    <3>2. ToSet(order') = {j \in Kids : kid'[j] = "ended"}
      BY <1>i, <2>2, <3>1 DEF OrderInv, Types
    <3> QED
      BY <2>2, <3>1, <3>2 DEF OrderInv, Settled, RunEffect, Types
  <2>3. CASE (\E w \in {"wait", "cleanup"} : kid' = [kid EXCEPT ![k] = w]) /\ UNCHANGED <<result, order>>
    <3>1. \A j \in Kids : kid'[j] = "ended" <=> kid[j] = "ended"
      BY <2>3 DEF RunEffect, Types
    <3>2. OrderInv'
      BY <1>i, <2>3, <3>1 DEF OrderInv
    <3>3. Extended(order', order)
      BY <1>i, <2>3, LenProperties DEF Extended, OrderInv
    <3> QED
      BY <2>3, <3>1, <3>2, <3>3 DEF Settled
  <2> QED
    BY <2>2, <2>3 DEF RunEffect
<1>8. WatchInv'
  <2> SUFFICES ASSUME caller = "await", mode # "wait_for"
               PROVE  /\ InOrder' /\ Stored'
                      /\ (Caller \in ToSet(ready') /\ Caller \notin cancelled' => Notified')
    BY <1>u DEF WatchInv, RunEffect
  <2>i. InOrder /\ Stored /\ (Caller \in ToSet(ready) /\ Caller \notin cancelled => Notified)
    BY <1>i DEF WatchInv
  <2>m. mon[k] = "first" /\ cont[k] = Mon(k) /\ Mon(k) \notin ToSet(ready)
    BY <1>i DEF MonInv, MonOk, RunEffect
  <2>1. Stored'
    <3>1. \A j \in Kids : /\ mon'[j] = "done" <=> mon[j] = "done"
                          /\ mon'[j] # "none" /\ (kid'[j] = "ended" => mon'[j] # "new")
      BY <2>i, <2>m DEF Stored, RunEffect, Types
    <3> QED
      BY <1>i, <1>u, <1>7, <2>i, <3>1, StoredKept DEF RunEffect
  <2>2. KeepsOrder
    <3> SUFFICES ASSUME NEW i \in Kids, NEW j \in Kids, Mon(i) \in ToSet(ready),
                        Before(ready, Mon(i), Mon(j))
                 PROVE  Before(ready', Mon(i), Mon(j))
      BY DEF KeepsOrder
    <3>1. Turn(Kid(k)) /\ Extended(ready', Tail(ready)) /\ Mon(i) # Kid(k)
      BY <1>a DEF Turn, RunEffect, Apart
    <3> QED
      BY <1>s, <3>1, StillBefore
  <2>3. InOrder'
    <3>1. CASE UNCHANGED order
      BY <1>i, <2>i, <2>2, <3>1, InOrderKept DEF RunEffect
    <3>2. CASE order' = Append(order, k)
      <4>l. order \in Seq(Kids) /\ Len(order) \in Nat
        BY <1>i, LenProperties DEF OrderInv
      <4>1. /\ Len(order') = Len(order) + 1 /\ order'[Len(order) + 1] = k
            /\ \A n \in 1..Len(order) : order'[n] = order[n] /\ order[n] \in Kids
        BY <3>2, <4>l, AppendProperties
      <4>2. \A n \in 1..Len(order') : n \in 1..Len(order) \/ n = Len(order) + 1
        BY <4>l, <4>1
      <4>u. mon' = mon
        BY DEF RunEffect
      <4> SUFFICES ASSUME NEW i \in 1..Len(order'), NEW j \in 1..Len(order'), i < j,
                          mon[order'[i]] # "done"
                   PROVE  mon[order'[j]] # "done" /\ Before(ready', Mon(order'[i]), Mon(order'[j]))
        BY <4>u DEF InOrder
      <4>3. i \in 1..Len(order)
        BY <4>l, <4>1
      <4> DEFINE a == order[i]
      <4>4. order'[i] = a /\ a \in Kids /\ a \in ToSet(order) /\ mon[a] # "done"
        BY <4>l, <4>1, <4>3, InToSet
      <4>5. kid[a] = "ended" /\ Mon(a) \in ToSet(ready)
        <5>1. kid[a] = "ended"
          BY <1>i, <4>4 DEF OrderInv
        <5>2. mon[a] = "first"
          BY <2>i, <4>4, <5>1, <1>i DEF Stored, MonInv, MonOk, Types
        <5> QED
          BY <1>i, <4>4, <5>1, <5>2 DEF MonInv, MonOk
      <4>6. CASE j \in 1..Len(order)
        <5>1. mon[order[j]] # "done" /\ Before(ready, Mon(a), Mon(order[j]))
          BY <2>i, <4>3, <4>4, <4>6 DEF InOrder
        <5> QED
          BY <2>2, <4>1, <4>4, <4>5, <4>6, <4>u, <5>1 DEF KeepsOrder
      <4>7. CASE j = Len(order) + 1
        <5>1. order'[j] = k /\ mon[k] # "done"
          BY <2>m, <4>1, <4>7
        <5>2. Before(ready, Mon(a), Mon(k))
          BY <2>m, BeforeProperties DEF Types
        <5> QED
          BY <2>2, <4>4, <4>5, <4>u, <5>1, <5>2 DEF KeepsOrder
      <4> QED
        BY <4>2, <4>6, <4>7
    <3> QED
      BY <3>1, <3>2 DEF RunEffect
  <2>4. Caller \in ToSet(ready') => Caller \in ToSet(ready)
    BY <1>a, <1>h, <2>m DEF Apart
  <2>5. Notified => Notified'
    BY <1>u DEF Notified, RunEffect
  <2> QED
    BY <1>c, <2>i, <2>1, <2>3, <2>4, <2>5
<1>9. OutcomeInv'
  BY <1>i, <1>u, <1>7, OutcomeStable DEF RunEffect
<1> QED
  BY <1>s, <1>1, <1>2, <1>3, <1>4, <1>5, <1>6, <1>7, <1>8, <1>9 DEF CombInv

\* Only the queue changes, for a child: nobody else is touched.
LEMMA CombQueue ==
    ASSUME Types, Queue, CombInv, mode # "group", NEW k \in Kids, QueueEffect(k),
           UNCHANGED groupVars, UNCHANGED combVars
    PROVE  Types' /\ Queue' /\ CombInv'
<1>a. Apart
  BY HandlesApart
<1>u. UNCHANGED <<monitors, caller, registered, first_exception, early_done, first_done, timer,
                  timed_out, outcome, first, mode, mon, remaining, kid, result, order, cont, cancelled>>
  BY DEF groupVars, group, combVars, state, QueueEffect
<1>s. Types' /\ Queue'
  BY <1>u, QueueShared
<1>i. CallerInv /\ StartInv /\ TimerInv /\ DeadlineInv /\ MonInv /\ CountInv /\ OrderInv /\ WatchInv /\ OutcomeInv
  BY DEF CombInv
<1>g. Arg' = Arg
  BY <1>u DEF Arg, Args
<1>h. \A x : x # Kid(k) => (x \in ToSet(ready') <=> x \in ToSet(ready))
  BY DEF QueueEffect
<1>b. ASSUME NEW x, NEW y, x # Kid(k), x \in ToSet(ready), Before(ready, x, y)
      PROVE  Before(ready', x, y)
  <2>1. CASE Turn(Kid(k)) /\ ready' = Tail(ready)
    <3>1. ready \in Seq(Handles) /\ ready # <<>> /\ Head(ready) = Kid(k)
      BY <2>1 DEF Types, Turn
    <3>2. Before(Tail(ready), x, y)
      BY <1>b, <3>1, BeforeTail
    <3> QED
      BY <2>1, <3>2
  <2>2. CASE Extended(ready', ready)
    BY <1>b, <1>s, <2>2, StaysBefore
  <2> QED
    BY <2>1, <2>2 DEF QueueEffect
<1>n. Caller # Kid(k) /\ Timer # Kid(k) /\ \A j \in Kids : Mon(j) # Kid(k)
  BY <1>a DEF Apart
<1>1. CallerInv'
  BY <1>i, <1>u, <1>g, <1>h, <1>n DEF CallerInv
<1>2. StartInv'
  BY <1>i, <1>u DEF StartInv
<1>3. TimerInv'
  BY <1>i, <1>u, <1>h, <1>n DEF TimerInv
<1>4. DeadlineInv'
  BY <1>i, <1>u, <1>h, <1>n, <1>b DEF DeadlineInv
<1>5. MonInv'
  BY <1>i, <1>u, <1>h, <1>n DEF MonInv, MonOk
<1>6. CountInv'
  BY <1>i, <1>u DEF CountInv, Running
<1>7. OrderInv'
  BY <1>i, <1>u DEF OrderInv
<1>8. WatchInv'
  <2> SUFFICES ASSUME caller = "await", mode # "wait_for"
               PROVE  /\ InOrder' /\ Stored'
                      /\ (Caller \in ToSet(ready') /\ Caller \notin cancelled' => Notified')
    BY <1>u DEF WatchInv
  <2>i. InOrder /\ Stored /\ (Caller \in ToSet(ready) /\ Caller \notin cancelled => Notified)
    BY <1>i DEF WatchInv
  <2>1. Stored'
    BY <1>u, <2>i DEF Stored, FirstFailure
  <2>2. KeepsOrder
    BY <1>n, <1>b DEF KeepsOrder
  <2>3. InOrder'
    BY <1>i, <1>u, <2>i, <2>2, InOrderKept
  <2>4. Notified => Notified'
    BY <1>u DEF Notified
  <2> QED
    BY <1>u, <1>h, <1>n, <2>i, <2>1, <2>3, <2>4
<1>9. OutcomeInv'
  BY <1>i, <1>u DEF OutcomeInv, OutcomeExact, AllEnded, FirstFailure
<1> QED
  BY <1>s, <1>1, <1>2, <1>3, <1>4, <1>5, <1>6, <1>7, <1>8, <1>9 DEF CombInv

\* Task::cancel of the caller puts it into the queue, behind everybody.
LEMMA CancelCallerStep ==
    ASSUME Types, Queue, CombInv, mode # "group", CancelCaller, UNCHANGED groupVars
    PROVE  Types' /\ Queue' /\ CombInv'
<1>a. Apart
  BY HandlesApart
<1>u. /\ UNCHANGED <<monitors, caller, registered, first_exception, early_done, first_done, timer,
                  timed_out, outcome, mode, mon, remaining, kid, result, order, cont>>
      /\ caller \in {"start", "await"} /\ cancelled' = cancelled \cup {Caller}
      /\ ready' = Scheduled(ready, <<Caller>>)
      /\ first' = IF first = Nobody THEN "cancel" ELSE first
  BY DEF groupVars, group, state, CancelCaller, monVars, kidVars
<1>i. CallerInv /\ StartInv /\ TimerInv /\ DeadlineInv /\ MonInv /\ CountInv /\ OrderInv /\ WatchInv /\ OutcomeInv
  BY DEF CombInv
<1>r. /\ ready' \in Seq(Handles) /\ Distinct(ready') /\ Extended(ready', ready)
      /\ ToSet(ready') = ToSet(ready) \cup {Caller}
  BY <1>a, <1>u, ScheduleOne DEF Types, Queue, Apart
<1>t. Types'
  BY <1>u, <1>r DEF Types
<1>q. Queue'
  BY <1>a, <1>u, <1>r DEF Queue, Apart
<1>g. Arg' = Arg
  BY <1>u DEF Arg, Args
<1>n. Caller # Timer /\ \A j \in Kids : Mon(j) # Caller
  BY <1>a DEF Apart
<1>1. CallerInv'
  BY <1>i, <1>u, <1>g, <1>r DEF CallerInv
<1>2. StartInv'
  BY <1>i, <1>u DEF StartInv
<1>3. TimerInv'
  BY <1>i, <1>u, <1>r, <1>n DEF TimerInv
<1>4. DeadlineInv'
  <2>1. first' # Nobody /\ first' \in {"cancel", "deadline"} /\ (first = "deadline" => first' = "deadline")
    BY <1>i, <1>u DEF DeadlineInv, Nobody
  <2>2. ASSUME caller \in {"await", "killed"}, first' = "cancel", timer = "sleep"
        PROVE  Before(ready', Caller, Timer)
    <3>1. CASE first = "cancel"
      <4>1. Caller \in ToSet(ready) /\ Before(ready, Caller, Timer)
        BY <1>i, <2>2, <3>1 DEF DeadlineInv
      <4> QED
        BY <1>t, <1>r, <4>1, StaysBefore
    <3>2. CASE first # "cancel"
      <4>1. first = Nobody
        BY <1>u, <2>2, <3>2
      <4>2. Timer \notin ToSet(ready)
        BY <1>i, <2>2, <4>1 DEF DeadlineInv
      <4>3. Timer \notin ToSet(ready')
        BY <1>r, <1>n, <4>2
      <4> QED
        BY <1>r, <4>3, BeforeProperties
    <3> QED
      BY <3>1, <3>2
  <2> QED
    BY <1>i, <1>u, <1>r, <2>1, <2>2 DEF DeadlineInv
<1>5. MonInv'
  BY <1>i, <1>u, <1>r, <1>n DEF MonInv, MonOk
<1>6. CountInv'
  BY <1>i, <1>u DEF CountInv, Running
<1>7. OrderInv'
  BY <1>i, <1>u DEF OrderInv
<1>8. WatchInv'
  <2> SUFFICES ASSUME caller = "await", mode # "wait_for"
               PROVE  InOrder' /\ Stored'
    BY <1>u DEF WatchInv
  <2>i. InOrder /\ Stored
    BY <1>i DEF WatchInv
  <2>1. Stored'
    BY <1>u, <2>i DEF Stored, FirstFailure
  <2>2. KeepsOrder
    BY <1>t, <1>r, StaysBefore DEF KeepsOrder
  <2>3. InOrder'
    BY <1>i, <1>u, <2>i, <2>2, InOrderKept
  <2> QED
    BY <2>1, <2>3
<1>9. OutcomeInv'
  <2>1. Settled
    BY <1>i, <1>u, LenProperties DEF Settled, Extended, OrderInv
  <2> QED
    BY <1>i, <1>u, <1>7, <2>1, OutcomeStable
<1> QED
  BY <1>t, <1>q, <1>1, <1>2, <1>3, <1>4, <1>5, <1>6, <1>7, <1>8, <1>9 DEF CombInv

\* The timer of wait_for.
LEMMA TimerStep ==
    ASSUME Types, Queue, CombInv, mode # "group",
           TimerStarts \/ TimerExpires \/ TimerFires \/ ReclaimTimer, UNCHANGED groupVars
    PROVE  Types' /\ Queue' /\ CombInv'
<1>a. Apart
  BY HandlesApart
<1>u. UNCHANGED <<monitors, caller, registered, first_exception, early_done, first_done, outcome,
                  mode, mon, remaining, kid, result, order, cont>>
  BY DEF groupVars, group, combVars, state, TimerStarts, TimerExpires, TimerFires, ReclaimTimer,
         monVars, kidVars
<1>i. CallerInv /\ StartInv /\ TimerInv /\ DeadlineInv /\ MonInv /\ CountInv /\ OrderInv /\ WatchInv /\ OutcomeInv
  BY DEF CombInv
<1>m. mode = "wait_for" /\ timer # "none" /\ caller # "start"
  BY <1>i DEF TimerInv, StartInv, TimerStarts, TimerExpires, TimerFires, ReclaimTimer
<1>g. Arg' = Arg /\ Arg \in Kids
  BY <1>u, ArgFacts DEF Arg, Args
<1>n. /\ Caller # Timer /\ \A j \in Kids : Mon(j) # Timer /\ Kid(j) # Timer
      /\ \A j \in Kids : Kid(j) # Caller /\ \A l \in Kids : Mon(j) # Kid(l)
  BY <1>a DEF Apart
<1>r. /\ ready' \in Seq(Handles) /\ Distinct(ready')
      /\ \A x : x # Timer => (x \in ToSet(ready) => x \in ToSet(ready'))
      /\ \A x \in ToSet(ready') : \/ x \in ToSet(ready)
                                  \/ x = Timer /\ TimerExpires
                                  \/ x = Kid(Arg) /\ Suspended(Arg)
      /\ ~TimerExpires => Timer \notin ToSet(ready')
  <2>o. ASSUME Turn(Timer)
        PROVE  /\ Tail(ready) \in Seq(Handles) /\ Distinct(Tail(ready))
               /\ Timer \in ToSet(ready) /\ ToSet(Tail(ready)) = ToSet(ready) \ {Timer}
    BY <1>a, <2>o, TakeTurn DEF Apart
  <2>1. CASE Turn(Timer) /\ ready' = Tail(ready)
    BY <2>o, <2>1
  <2>2. CASE TimerExpires
    <3>1. ready' = Append(ready, Timer) /\ ~Contains(ready, Timer)
      BY <2>2 DEF TimerExpires
    <3>2. ready \in Seq(Handles) /\ Distinct(ready) /\ Timer \in Handles
      BY <1>a DEF Types, Queue, Apart
    <3>3. Timer \notin ToSet(ready)
      BY <3>1, <3>2, ToSetProperties
    <3>4. /\ ready' \in Seq(Handles) /\ Distinct(ready') /\ Extended(ready', ready)
          /\ ToSet(ready') = ToSet(ready) \cup {Timer}
      BY <3>1, <3>2, <3>3, AppendToSet
    <3> QED
      BY <2>2, <3>4
  <2>3. CASE Turn(Timer) /\ ready' = Scheduled(Tail(ready), WokenByCancel(Arg))
    <3>1. CASE Suspended(Arg)
      <4>1. ready' = Scheduled(Tail(ready), <<Kid(Arg)>>) /\ Kid(Arg) \in Handles
        BY <1>a, <1>g, <2>3, <3>1 DEF WokenByCancel, Apart
      <4>2. /\ ready' \in Seq(Handles) /\ Distinct(ready') /\ Extended(ready', Tail(ready))
            /\ ToSet(ready') = ToSet(Tail(ready)) \cup {Kid(Arg)}
        BY <2>o, <2>3, <4>1, ScheduleOne
      <4> QED
        BY <1>g, <1>n, <2>o, <2>3, <3>1, <4>2
    <3>2. CASE ~Suspended(Arg)
      <4>1. ready' = Scheduled(Tail(ready), <<>>)
        BY <2>3, <3>2 DEF WokenByCancel
      <4>2. ready' = Tail(ready)
        BY <1>a, <2>o, <2>3, <4>1, ScheduleOne DEF Apart
      <4> QED
        BY <2>o, <2>3, <4>2
    <3> QED
      BY <3>1, <3>2
  <2> QED
    BY <2>1, <2>2, <2>3 DEF TimerStarts, TimerFires, ReclaimTimer
<1>t. Types'
  BY <1>u, <1>r DEF Types
<1>q. Queue'
  BY <1>a, <1>u, <1>r, <1>g DEF Queue, Apart, Suspended
<1>c. /\ cancelled' \subseteq cancelled \cup {Kid(Arg)} /\ cancelled \subseteq cancelled' \cup {Timer}
      /\ timer' \in {"new", "sleep"} => cancelled' = cancelled
  BY DEF TimerStarts, TimerExpires, TimerFires, ReclaimTimer, combVars
<1>d. Caller \in cancelled' <=> Caller \in cancelled
  BY <1>c, <1>g, <1>n
<1>1. CallerInv'
  BY <1>i, <1>u, <1>g, <1>r, <1>n, <1>d DEF CallerInv
<1>2. StartInv'
  BY <1>u, <1>m DEF StartInv
<1>3. TimerInv'
  <2>1. timer' # "none" /\ (timer' \in {"new", "sleep"} => timer \in {"new", "sleep"})
    BY <1>m DEF TimerStarts, TimerExpires, TimerFires, ReclaimTimer, combVars
  <2>2. Timer \in ToSet(ready') => timer' \in {"new", "sleep", "killed"}
    <3>1. CASE TimerExpires
      BY <3>1 DEF TimerExpires
    <3>2. CASE ~TimerExpires
      <4>1. Turn(Timer)
        BY <3>2 DEF TimerStarts, TimerFires, ReclaimTimer
      <4>2. Timer \notin ToSet(ready')
        BY <1>r, <3>2, <4>1
      <4> QED
        BY <4>2
    <3> QED
      BY <3>1, <3>2
  <2>3. caller = "left" /\ timer' \in {"new", "sleep"} => Timer \in cancelled'
    BY <1>i, <1>c, <2>1 DEF TimerInv
  <2>4. caller # "left" => Timer \notin cancelled'
    BY <1>i, <1>c, <1>g, <1>n DEF TimerInv
  <2>5. timer' \in {"none", "new", "sleep", "ended", "killed"}
    BY <1>i DEF TimerInv, TimerStarts, TimerExpires, TimerFires, ReclaimTimer, combVars
  <2> QED
    BY <1>u, <1>m, <2>1, <2>2, <2>3, <2>4, <2>5 DEF TimerInv
<1>4. DeadlineInv'
  <2>0. ready \in Seq(Handles) /\ ready' \in Seq(Handles)
    BY <1>r DEF Types
  <2>1. CASE TimerFires
    <3>1. Turn(Timer) /\ timer = "sleep" /\ timer' = "ended" /\ first' = first
      BY <2>1 DEF TimerFires
    <3>2. Timer \in ToSet(ready)
      BY <1>a, <3>1, TakeTurn DEF Apart
    <3>3. Timer \notin cancelled => first = "deadline"
      <4> SUFFICES ASSUME Timer \notin cancelled PROVE first = "deadline"
        OBVIOUS
      <4>1. caller # "left"
        BY <1>i, <3>1 DEF TimerInv
      <4>2. CASE caller \in {"await", "killed"}
        <5>1. ~Before(ready, Caller, Timer)
          BY <2>0, <3>1, BeforeProperties DEF Turn
        <5> QED
          BY <1>i, <3>1, <3>2, <4>2, <5>1 DEF DeadlineInv
      <4>3. CASE caller \notin {"await", "killed"}
        BY <1>i, <1>m, <3>1, <4>1, <4>3 DEF CallerInv
      <4> QED
        BY <4>2, <4>3
    <3>4. timed_out' => timed_out \/ Timer \notin cancelled
      BY <2>1 DEF TimerFires
    <3>5. Caller \in ToSet(ready) => Caller \in ToSet(ready')
      BY <1>r, <1>n
    <3> QED
      BY <1>i, <1>u, <1>m, <3>1, <3>3, <3>4, <3>5 DEF DeadlineInv
  <2>2. CASE TimerStarts \/ ReclaimTimer
    <3>1. Turn(Timer) /\ ready' = Tail(ready) /\ UNCHANGED <<first, timed_out>>
      BY <2>2 DEF TimerStarts, ReclaimTimer, combVars
    <3>2. Timer \notin ToSet(ready')
      BY <1>a, <3>1, TakeTurn DEF Apart
    <3>3. Before(ready', Caller, Timer)
      BY <2>0, <3>2, BeforeProperties
    <3>4. Caller \in ToSet(ready) => Caller \in ToSet(ready')
      BY <1>r, <1>n
    <3> QED
      BY <1>i, <1>u, <3>1, <3>2, <3>3, <3>4 DEF DeadlineInv
  <2>3. CASE TimerExpires
    <3>1. /\ timer = "sleep" /\ UNCHANGED <<timer, timed_out>> /\ ready' = Append(ready, Timer)
          /\ first' = IF first = Nobody THEN "deadline" ELSE first
          /\ ~Contains(ready, Timer)
      BY <2>3 DEF TimerExpires
    <3>2. Timer \notin ToSet(ready) /\ Extended(ready', ready)
      BY <1>a, <2>0, <3>1, ToSetProperties, AppendToSet DEF Apart
    <3>3. first' # Nobody /\ first' \in {"cancel", "deadline"} /\ (first' = "cancel" <=> first = "cancel")
      BY <1>i, <3>1 DEF DeadlineInv, Nobody
    <3>4. ASSUME caller \in {"await", "killed"}, first = "cancel"
          PROVE  Caller \in ToSet(ready') /\ Before(ready', Caller, Timer)
      <4>1. Caller \in ToSet(ready) /\ Before(ready, Caller, Timer)
        BY <1>i, <3>1, <3>4 DEF DeadlineInv
      <4>2. Before(ready', Caller, Timer)
        BY <1>t, <3>2, <4>1, StaysBefore
      <4> QED
        BY <1>r, <1>n, <4>1, <4>2
    <3> QED
      BY <1>i, <1>u, <1>m, <3>1, <3>3, <3>4 DEF DeadlineInv
  <2> QED
    BY <2>1, <2>2, <2>3
<1>5. MonInv'
  <2>1. \A j \in Kids : Mon(j) \in ToSet(ready') => Mon(j) \in ToSet(ready)
    BY <1>r, <1>g, <1>n
  <2> QED
    BY <1>i, <1>u, <1>m, <2>1 DEF MonInv, MonOk
<1>6. CountInv'
  BY <1>i, <1>u DEF CountInv, Running
<1>7. OrderInv'
  BY <1>i, <1>u DEF OrderInv
<1>8. WatchInv'
  BY <1>u, <1>m DEF WatchInv
<1>9. OutcomeInv'
  <2>1. Settled
    BY <1>i, <1>u, LenProperties DEF Settled, Extended, OrderInv
  <2>2. first # Nobody => first' = first
    BY DEF TimerStarts, TimerExpires, TimerFires, ReclaimTimer, combVars
  <2> QED
    BY <1>i, <1>u, <1>7, <2>1, <2>2, OutcomeStable
<1> QED
  BY <1>t, <1>q, <1>1, <1>2, <1>3, <1>4, <1>5, <1>6, <1>7, <1>8, <1>9 DEF CombInv

\* A monitor starts its child.
LEMMA MonitorStartsKid ==
    ASSUME Types, Queue, CombInv, mode # "group", NEW k \in Kids, RunMonitor(k), kid[k] = "none",
           UNCHANGED groupVars
    PROVE  Types' /\ Queue' /\ CombInv'
<1>a. Apart
  BY HandlesApart
<1>t0. Turn(Mon(k))
  BY DEF RunMonitor
<1>u. /\ UNCHANGED <<monitors, caller, registered, first_exception, early_done, first_done, timer,
                     timed_out, outcome, first, mode, remaining, result, order, cancelled>>
      /\ mon' = [mon EXCEPT ![k] = "first"] /\ kid' = [kid EXCEPT ![k] = "queued"]
      /\ cont' = [cont EXCEPT ![k] = Mon(k)] /\ ready' = Append(Tail(ready), Kid(k))
  BY DEF groupVars, group, state, RunMonitor, Awaited
<1>i. CallerInv /\ StartInv /\ TimerInv /\ DeadlineInv /\ MonInv /\ CountInv /\ OrderInv /\ WatchInv /\ OutcomeInv
  BY DEF CombInv
<1>o. /\ Tail(ready) \in Seq(Handles) /\ Distinct(Tail(ready))
      /\ Mon(k) \in ToSet(ready) /\ ToSet(Tail(ready)) = ToSet(ready) \ {Mon(k)}
  BY <1>a, <1>t0, TakeTurn DEF Apart
<1>m. mon[k] = "new" /\ mode # "wait_for" /\ caller # "start" /\ Kid(k) \notin ToSet(ready)
  BY <1>i, <1>o DEF MonInv, MonOk, StartInv, Queue
<1>r. /\ ready' \in Seq(Handles) /\ Distinct(ready') /\ Extended(ready', Tail(ready))
      /\ ToSet(ready') = (ToSet(ready) \ {Mon(k)}) \cup {Kid(k)}
  <2> DEFINE q == Tail(ready)
  <2>1. q \in Seq(Handles) /\ Distinct(q) /\ Kid(k) \in Handles /\ Kid(k) \notin ToSet(q)
    BY <1>a, <1>o, <1>m DEF Apart
  <2>2. ready' = Append(q, Kid(k)) /\ ToSet(q) = ToSet(ready) \ {Mon(k)}
    BY <1>o, <1>u
  <2> HIDE DEF q
  <2>3. /\ Append(q, Kid(k)) \in Seq(Handles) /\ Distinct(Append(q, Kid(k)))
        /\ Extended(Append(q, Kid(k)), q) /\ ToSet(Append(q, Kid(k))) = ToSet(q) \cup {Kid(k)}
    BY <2>1, AppendToSet
  <2> QED
    BY <2>2, <2>3 DEF q
<1>t. Types'
  BY <1>a, <1>u, <1>r DEF Types, Apart
<1>q. Queue'
  BY <1>a, <1>u, <1>r, <1>m DEF Queue, Types, Apart
<1>g. Arg' = Arg
  BY <1>u DEF Arg, Args
<1>1. CallerInv'
  <2>1. \A j \in Kids : cont'[j] = Caller => cont[j] = Caller
    BY <1>a, <1>u DEF Types, Apart
  <2>2. Caller \in ToSet(ready') => Caller \in ToSet(ready)
    BY <1>a, <1>r DEF Apart
  <2> QED
    BY <1>i, <1>u, <1>g, <2>1, <2>2 DEF CallerInv
<1>2. StartInv'
  BY <1>u, <1>m DEF StartInv
<1>3. TimerInv'
  BY <1>a, <1>i, <1>u, <1>r DEF TimerInv, Apart
<1>4. DeadlineInv'
  <2>1. Caller \in ToSet(ready) => Caller \in ToSet(ready')
    BY <1>a, <1>r DEF Apart
  <2>2. timer = "none"
    BY <1>i, <1>m DEF TimerInv
  <2> QED
    BY <1>i, <1>u, <2>1, <2>2 DEF DeadlineInv
<1>5. MonInv'
  <2> SUFFICES ASSUME NEW j \in Kids PROVE MonOk(j)'
    BY DEF MonInv
  <2>1. CASE j = k
    BY <1>a, <1>u, <1>r, <1>m, <2>1 DEF MonOk, Types, Apart
  <2>2. CASE j # k
    <3>1. kid'[j] = kid[j] /\ cont'[j] = cont[j] /\ mon'[j] = mon[j] /\ mode' = mode
      BY <1>u, <2>2 DEF Types
    <3>2. Mon(j) \in ToSet(ready') <=> Mon(j) \in ToSet(ready)
      BY <1>a, <1>r, <2>2 DEF Apart
    <3> QED
      BY <1>i, <3>1, <3>2 DEF MonInv, MonOk
  <2> QED
    BY <2>1, <2>2
<1>6. CountInv'
  <2>1. Running' = Running
    BY <1>u, <1>m DEF Running, Types
  <2> QED
    BY <1>i, <1>u, <2>1 DEF CountInv
<1>7. OrderInv' /\ Settled
  <2>1. \A j \in Kids : kid'[j] = "ended" <=> kid[j] = "ended"
    BY <1>u DEF Types
  <2>2. OrderInv'
    BY <1>i, <1>u, <2>1 DEF OrderInv
  <2>3. Settled
    BY <1>i, <1>u, <2>1, LenProperties DEF Settled, Extended, OrderInv
  <2> QED
    BY <2>2, <2>3
<1>8. WatchInv'
  <2> SUFFICES ASSUME caller = "await", mode # "wait_for"
               PROVE  /\ InOrder' /\ Stored'
                      /\ (Caller \in ToSet(ready') /\ Caller \notin cancelled' => Notified')
    BY <1>u DEF WatchInv
  <2>i. InOrder /\ Stored /\ (Caller \in ToSet(ready) /\ Caller \notin cancelled => Notified)
    BY <1>i DEF WatchInv
  <2>d. \A j \in Kids : mon'[j] = "done" <=> mon[j] = "done"
    BY <1>u, <1>m DEF Types
  <2>1. Stored'
    <3>1. \A j \in Kids : mon'[j] # "none" /\ (kid'[j] = "ended" => mon'[j] # "new")
      BY <1>u, <2>i DEF Stored, Types
    <3> QED
      BY <1>i, <1>u, <1>7, <2>i, <2>d, <3>1, StoredKept
  <2>2. KeepsOrder
    <3> SUFFICES ASSUME NEW i \in Kids, NEW j \in Kids, kid[i] = "ended", Mon(i) \in ToSet(ready),
                        Before(ready, Mon(i), Mon(j))
                 PROVE  Before(ready', Mon(i), Mon(j))
      BY DEF KeepsOrder
    <3>1. Mon(i) # Mon(k)
      BY <1>a DEF Apart
    <3> QED
      BY <1>t, <1>t0, <1>r, <3>1, StillBefore
  <2>3. InOrder'
    BY <1>i, <1>u, <2>i, <2>d, <2>2, InOrderKept
  <2>4. Caller \in ToSet(ready') => Caller \in ToSet(ready)
    BY <1>a, <1>r DEF Apart
  <2>5. Notified => Notified'
    BY <1>u DEF Notified
  <2> QED
    BY <1>u, <2>i, <2>1, <2>3, <2>4, <2>5
<1>9. OutcomeInv'
  BY <1>i, <1>u, <1>7, OutcomeStable
<1> QED
  BY <1>t, <1>q, <1>1, <1>2, <1>3, <1>4, <1>5, <1>6, <1>7, <1>8, <1>9 DEF CombInv

\* The monitor that completes next is the one of the child that ended first.
LEMMA FirstInLine ==
    ASSUME Types, OrderInv, InOrder, NEW k \in Kids, kid[k] = "ended", Turn(Mon(k))
    PROVE  \E i \in 1..Len(order) :
              order[i] = k /\ \A n \in 1..(i - 1) : n \in 1..Len(order) /\ mon[order[n]] = "done"
<1>1. order \in Seq(Kids) /\ k \in ToSet(order) /\ Len(order) \in Nat
  BY LenProperties DEF OrderInv
<1>2. PICK i \in 1..Len(order) : order[i] = k
  BY <1>1, InToSet
<1>3. ASSUME NEW n \in 1..(i - 1) PROVE n \in 1..Len(order) /\ mon[order[n]] = "done"
  <2>1. n \in 1..Len(order) /\ n < i
    BY <1>1
  <2>2. ~Before(ready, Mon(order[n]), Mon(k))
    BY BeforeProperties DEF Types, Turn
  <2> QED
    BY <1>2, <2>1, <2>2 DEF InOrder
<1> QED
  BY <1>2, <1>3

\* complete(): a monitor that has seen the end of its child
LEMMA MonitorCompletes ==
    ASSUME Types, Queue, CombInv, mode # "group", NEW k \in Kids, RunMonitor(k), kid[k] = "ended",
           UNCHANGED groupVars
    PROVE  Types' /\ Queue' /\ CombInv'
<1>a. Apart
  BY HandlesApart
<1>t0. Turn(Mon(k))
  BY DEF RunMonitor
<1>z. Complete(k)
  BY DEF RunMonitor
<1>u. /\ UNCHANGED <<monitors, caller, timer, timed_out, outcome, first, mode, kid, result, order,
                     cont, cancelled>>
      /\ mon' = [mon EXCEPT ![k] = "done"] /\ remaining' = remaining - 1
  BY DEF groupVars, group, RunMonitor, Complete, kidVars
<1> DEFINE wakes == Notifies(k) /\ registered
<1>w. /\ registered' = (registered /\ ~wakes)
      /\ ready' = Scheduled(Tail(ready), IF wakes THEN <<Caller>> ELSE <<>>)
  BY <1>z DEF Complete
<1> HIDE DEF wakes
<1>i. CallerInv /\ StartInv /\ TimerInv /\ DeadlineInv /\ MonInv /\ CountInv /\ OrderInv /\ WatchInv /\ OutcomeInv
  BY DEF CombInv
<1>o. /\ Tail(ready) \in Seq(Handles) /\ Distinct(Tail(ready))
      /\ Mon(k) \in ToSet(ready) /\ ToSet(Tail(ready)) = ToSet(ready) \ {Mon(k)}
  BY <1>a, <1>t0, TakeTurn DEF Apart
<1>m. /\ mon[k] \in {"new", "first"} /\ mode # "wait_for" /\ caller # "start" /\ k \in Running
      /\ mode \in {"gather", "all", "first", "exception"}
  BY <1>i, <1>o DEF MonInv, MonOk, StartInv, Running, Types, Modes
<1>r. /\ ready' \in Seq(Handles) /\ Distinct(ready') /\ Extended(ready', Tail(ready))
      /\ \A h : h \in ToSet(ready') <=> h \in ToSet(ready) \ {Mon(k)} \/ (wakes /\ h = Caller)
  <2>1. CASE wakes
    <3>1. ready' = Scheduled(Tail(ready), <<Caller>>) /\ Caller \in Handles
      BY <1>a, <1>w, <2>1 DEF Apart
    <3>2. /\ ready' \in Seq(Handles) /\ Distinct(ready') /\ Extended(ready', Tail(ready))
          /\ ToSet(ready') = ToSet(Tail(ready)) \cup {Caller}
      BY <1>o, <3>1, ScheduleOne
    <3> QED
      BY <1>o, <2>1, <3>2
  <2>2. CASE ~wakes
    <3>1. ready' = Tail(ready)
      BY <1>a, <1>o, <1>w, <2>2, ScheduleOne DEF Apart
    <3>2. Extended(ready', Tail(ready))
      BY <1>o, <3>1, LenProperties DEF Extended
    <3> QED
      BY <1>o, <2>2, <3>1, <3>2
  <2> QED
    BY <2>1, <2>2
<1>t. Types'
  BY <1>u, <1>r DEF Types
<1>q. Queue'
  BY <1>a, <1>u, <1>r DEF Queue, Types, Apart
<1>g. Arg' = Arg
  BY <1>u DEF Arg, Args
<1>1. CallerInv'
  <2>1. wakes => registered /\ ~registered' /\ caller \in {"await", "killed"} /\ mode # "wait_for"
    BY <1>i, <1>w DEF CallerInv, wakes
  <2>2. Caller \in ToSet(ready') => wakes \/ Caller \in ToSet(ready)
    BY <1>r
  <2>3. registered' => registered
    BY <1>w
  <2> QED
    BY <1>i, <1>u, <1>g, <2>1, <2>2, <2>3 DEF CallerInv
<1>2. StartInv'
  BY <1>u, <1>m DEF StartInv
<1>3. TimerInv'
  BY <1>a, <1>i, <1>u, <1>r DEF TimerInv, Apart
<1>4. DeadlineInv'
  <2>1. Caller \in ToSet(ready) => Caller \in ToSet(ready')
    BY <1>a, <1>r DEF Apart
  <2>2. timer = "none"
    BY <1>i, <1>m DEF TimerInv
  <2> QED
    BY <1>i, <1>u, <2>1, <2>2 DEF DeadlineInv
<1>5. MonInv'
  <2> SUFFICES ASSUME NEW j \in Kids PROVE MonOk(j)'
    BY DEF MonInv
  <2>0. cont[k] = <<>>
    BY <1>i DEF MonInv, MonOk
  <2>1. CASE j = k
    BY <1>a, <1>u, <1>r, <1>m, <2>0, <2>1 DEF MonOk, Types, Apart
  <2>2. CASE j # k
    <3>1. kid'[j] = kid[j] /\ cont'[j] = cont[j] /\ mon'[j] = mon[j] /\ mode' = mode
      BY <1>u, <2>2 DEF Types
    <3>2. Mon(j) \in ToSet(ready') <=> Mon(j) \in ToSet(ready)
      BY <1>a, <1>r, <2>2 DEF Apart
    <3> QED
      BY <1>i, <3>1, <3>2 DEF MonInv, MonOk
  <2> QED
    BY <2>1, <2>2
<1>f. /\ remaining \in Nat /\ remaining # 0 /\ remaining' = Cardinality(Running \ {k})
  <2>1. IsFiniteSet(Running)
    BY KidsAssumption, FS_Subset DEF Running
  <2>2. /\ Cardinality(Running) \in Nat /\ Cardinality(Running \ {k}) \in Nat
        /\ Cardinality(Running \ {k}) = Cardinality(Running) - 1
    BY <1>m, <2>1, OneFewer
  <2> QED
    BY <1>i, <1>u, <2>2 DEF CountInv
<1>6. CountInv'
  <2>1. Running' = Running \ {k}
    BY <1>u DEF Running, Types
  <2> QED
    BY <1>f, <2>1 DEF CountInv
<1>7. OrderInv' /\ Settled
  BY <1>i, <1>u, LenProperties DEF OrderInv, Settled, Extended
<1>8. WatchInv'
  <2> SUFFICES ASSUME caller = "await"
               PROVE  /\ InOrder' /\ Stored'
                      /\ (Caller \in ToSet(ready') /\ Caller \notin cancelled' => Notified')
    BY <1>u DEF WatchInv
  <2>i. InOrder /\ Stored /\ (Caller \in ToSet(ready) /\ Caller \notin cancelled => Notified)
    BY <1>i, <1>m DEF WatchInv
  <2>l. order \in Seq(Kids) /\ Len(order) \in Nat /\ \A n \in 1..Len(order) : order[n] \in Kids
    BY <1>i, LenProperties DEF OrderInv
  <2>p. PICK p \in 1..Len(order) :
           order[p] = k /\ \A n \in 1..(p - 1) : n \in 1..Len(order) /\ mon[order[n]] = "done"
    BY <1>i, <1>t0, <2>i, FirstInLine
  <2>d. \A j \in Kids : mon'[j] = "done" <=> mon[j] = "done" \/ j = k
    BY <1>u DEF Types
  <2>e. /\ first_exception' = IF result[k] # "ok" /\ first_exception = Nobody
                              THEN k ELSE first_exception
        /\ early_done' = (early_done \/ (mode \in {"first", "exception"} /\ Notifies(k)))
        /\ first_done' = IF mode = "first" /\ Notifies(k) THEN k ELSE first_done
        /\ k # Nobody
    BY <1>z, NobodyAssumption DEF Complete
  <2>n. /\ mode \in {"gather", "all"} /\ Notifies(k) => remaining = 1
        /\ mode = "first" => (Notifies(k) <=> ~early_done)
        /\ mode = "exception" /\ Notifies(k) => remaining = 1 \/ result[k] # "ok"
    BY <1>m DEF Notifies
  <2>1. InOrder'
    <3> SUFFICES ASSUME NEW i \in 1..Len(order), NEW j \in 1..Len(order), i < j,
                        mon'[order[i]] # "done"
                 PROVE  mon'[order[j]] # "done" /\ Before(ready', Mon(order[i]), Mon(order[j]))
      BY <1>u DEF InOrder
    <3> DEFINE x == order[i]
               y == order[j]
    <3>1. x \in Kids /\ y \in Kids /\ x # k /\ mon[x] # "done" /\ x \in ToSet(order)
      BY <2>l, <2>d, InToSet
    <3>2. mon[y] # "done" /\ Before(ready, Mon(x), Mon(y))
      BY <2>i, <3>1 DEF InOrder
    <3>3. y # k
      <4>1. ~Before(ready, Mon(x), Mon(k))
        BY <1>t0, BeforeProperties DEF Types, Turn
      <4> QED
        BY <3>2, <4>1
    <3>4. kid[x] = "ended"
      BY <1>i, <3>1 DEF OrderInv
    <3>5. mon[x] = "first"
      BY <2>i, <3>1, <3>4, <1>i, <1>m DEF Stored, MonInv, MonOk, Types
    <3>6. Mon(x) \in ToSet(ready) /\ Mon(x) # Mon(k)
      BY <1>a, <1>i, <1>m, <3>1, <3>4, <3>5 DEF MonInv, MonOk, Apart
    <3> HIDE DEF x, y
    <3>7. Before(ready', Mon(x), Mon(y))
      BY <1>t, <1>t0, <1>r, <3>2, <3>6, StillBefore
    <3>8. mon'[y] # "done"
      BY <2>d, <3>1, <3>2, <3>3
    <3> QED
      BY <3>7, <3>8 DEF x, y
  <2>2. Stored'
    <3>1. \A j \in Kids : mon'[j] # "none" /\ (kid'[j] = "ended" => mon'[j] # "new")
      BY <1>u, <2>i DEF Stored, Types
    <3>2. first_exception' = Nobody => \A j \in Kids : mon'[j] = "done" => result'[j] = "ok"
      BY <1>u, <2>i, <2>d, <2>e DEF Stored
    <3>3. ASSUME first_exception' # Nobody PROVE FirstFailure(first_exception)'
      <4>1. CASE first_exception # Nobody
        <5>1. first_exception' = first_exception /\ FirstFailure(first_exception)
          BY <2>i, <2>e, <4>1 DEF Stored
        <5> QED
          BY <1>u, <5>1 DEF FirstFailure
      <4>2. CASE first_exception = Nobody
        <5>1. first_exception' = k /\ result[k] # "ok"
          BY <2>e, <3>3, <4>2
        <5>2. \A n \in 1..(p - 1) : result[order[n]] = "ok"
          BY <2>i, <2>l, <2>p, <4>2 DEF Stored
        <5>3. p \in DOMAIN order
          BY <2>l, LenProperties
        <5> QED
          BY <1>u, <2>p, <5>1, <5>2, <5>3 DEF FirstFailure
      <4> QED
        BY <4>1, <4>2
    <3>4. ASSUME mode = "first"
          PROVE  /\ first_done' # Nobody => order' # <<>> /\ first_done' = order'[1]
                 /\ early_done' /\ first_done' # Nobody
      <4>1. CASE early_done
        BY <1>u, <2>i, <2>e, <2>n, <3>4, <4>1 DEF Stored
      <4>2. CASE ~early_done
        <5>1. first_done' = k /\ early_done'
          BY <2>e, <2>n, <3>4, <4>2
        <5>2. \A j \in Kids : mon[j] # "done"
          BY <2>i, <3>4, <4>2 DEF Stored
        <5>3. p = 1
          <6> SUFFICES ASSUME p # 1 PROVE FALSE
            OBVIOUS
          <6>1. 1 \in 1..(p - 1)
            BY <2>l
          <6> QED
            BY <2>l, <2>p, <5>2, <6>1
        <5>4. order # <<>>
          BY <2>l, <2>p, EmptySeq
        <5> QED
          BY <1>u, <2>p, <2>e, <5>1, <5>3, <5>4
      <4> QED
        BY <4>1, <4>2
    <3> QED
      BY <1>u, <3>1, <3>2, <3>3, <3>4 DEF Stored
  <2>3. ASSUME Caller \in ToSet(ready'), Caller \notin cancelled' PROVE Notified'
    <3>1. CASE wakes
      <4>1. Notifies(k)
        BY <3>1 DEF wakes
      <4>2. remaining = 1 => remaining' = 0
        BY <1>u, <1>f
      <4> QED
        BY <1>u, <1>m, <2>e, <2>n, <4>1, <4>2 DEF Notified
    <3>2. CASE ~wakes
      <4>1. Notified
        BY <1>r, <1>u, <2>i, <2>3, <3>2
      <4> QED
        BY <1>u, <1>f, <2>e, <4>1 DEF Notified
    <3> QED
      BY <3>1, <3>2
  <2> QED
    BY <2>1, <2>2, <2>3
<1>9. OutcomeInv'
  BY <1>i, <1>u, <1>7, OutcomeStable
<1> QED
  BY <1>t, <1>q, <1>1, <1>2, <1>3, <1>4, <1>5, <1>6, <1>7, <1>8, <1>9 DEF CombInv

-----------------------------------------------------------------------------
(* The caller starts.                                                      *)

LEMMA StartTimerStep ==
    ASSUME Types, Queue, CombInv, mode # "group", Call, StartTimer, UNCHANGED groupVars
    PROVE  Types' /\ Queue' /\ CombInv'
<1>a. Apart
  BY HandlesApart
<1>t0. Turn(Caller) /\ caller = "start" /\ Caller \notin cancelled /\ mode = "wait_for"
  BY DEF Call, StartTimer
<1>u. /\ UNCHANGED <<monitors, registered, first_exception, early_done, first_done, timed_out,
                     outcome, first, mode, mon, remaining, result, order, cancelled>>
      /\ timer' = "new" /\ caller' = "await"
      /\ kid' = [kid EXCEPT ![Arg] = "queued"] /\ cont' = [cont EXCEPT ![Arg] = Caller]
      /\ ready' = Append(Append(Tail(ready), Timer), Kid(Arg))
  BY DEF groupVars, group, state, Call, StartTimer, Awaited
<1>i. CallerInv /\ StartInv /\ TimerInv /\ DeadlineInv /\ MonInv /\ CountInv /\ OrderInv /\ WatchInv /\ OutcomeInv
  BY DEF CombInv
<1>g. Arg' = Arg /\ Arg \in Kids
  BY <1>u, ArgFacts DEF Arg, Args
<1>s. /\ \A j \in Kids : mon[j] = "none" /\ kid[j] = "none" /\ cont[j] = <<>>
      /\ timer = "none" /\ first = Nobody
  BY <1>t0, <1>i DEF StartInv
<1>o. /\ Tail(ready) \in Seq(Handles) /\ Distinct(Tail(ready))
      /\ ToSet(Tail(ready)) = ToSet(ready) \ {Caller}
  BY <1>a, <1>t0, TakeTurn DEF Apart
<1>r. /\ ready' \in Seq(Handles) /\ Distinct(ready')
      /\ ToSet(ready') = (ToSet(ready) \ {Caller}) \cup {Timer, Kid(Arg)}
  <2> DEFINE q == Tail(ready)
             p == Append(q, Timer)
  <2>1. /\ q \in Seq(Handles) /\ Distinct(q) /\ Timer \in Handles /\ Kid(Arg) \in Handles
        /\ ToSet(q) = ToSet(ready) \ {Caller} /\ ready' = Append(p, Kid(Arg))
    BY <1>a, <1>o, <1>g, <1>u DEF Apart
  <2>2. Timer \notin ToSet(q) /\ Kid(Arg) \notin ToSet(q) \cup {Timer}
    BY <1>a, <1>i, <1>s, <1>g, <2>1 DEF TimerInv, Queue, Apart
  <2> HIDE DEF q
  <2>3. p \in Seq(Handles) /\ Distinct(p) /\ ToSet(p) = ToSet(q) \cup {Timer}
    BY <2>1, <2>2, AppendToSet
  <2> HIDE DEF p
  <2>4. /\ Append(p, Kid(Arg)) \in Seq(Handles) /\ Distinct(Append(p, Kid(Arg)))
        /\ ToSet(Append(p, Kid(Arg))) = ToSet(p) \cup {Kid(Arg)}
    BY <2>1, <2>2, <2>3, AppendToSet
  <2> QED
    BY <2>1, <2>3, <2>4
<1>t. Types'
  BY <1>a, <1>u, <1>r, <1>g DEF Types, Apart
<1>q. Queue'
  BY <1>a, <1>u, <1>r, <1>s, <1>g DEF Queue, Types, Apart
<1>1. CallerInv'
  <2>1. Caller \notin ToSet(ready')
    BY <1>a, <1>r, <1>g DEF Apart
  <2>2. \A j \in Kids : cont'[j] = Caller => j = Arg
    BY <1>a, <1>u, <1>s, <1>g DEF Types, Apart
  <2> QED
    BY <1>i, <1>t0, <1>u, <1>g, <2>1, <2>2 DEF CallerInv
<1>2. StartInv'
  BY <1>u DEF StartInv
<1>3. TimerInv'
  BY <1>i, <1>t0, <1>u DEF TimerInv
<1>4. DeadlineInv'
  BY <1>i, <1>u, <1>s DEF DeadlineInv, Nobody
<1>5. MonInv'
  BY <1>a, <1>i, <1>u, <1>r, <1>s, <1>g, <1>t0 DEF MonInv, MonOk, Types, Apart
<1>6. CountInv'
  BY <1>i, <1>u DEF CountInv, Running
<1>7. OrderInv' /\ Settled
  <2>1. \A j \in Kids : kid'[j] = "ended" <=> kid[j] = "ended"
    BY <1>u, <1>s, <1>g DEF Types
  <2>2. OrderInv'
    BY <1>i, <1>u, <2>1 DEF OrderInv
  <2> QED
    BY <1>i, <1>u, <2>1, <2>2, LenProperties DEF Settled, Extended, OrderInv
<1>8. WatchInv'
  BY <1>u, <1>t0 DEF WatchInv
<1>9. OutcomeInv'
  BY <1>i, <1>u, <1>7, OutcomeStable
<1> QED
  BY <1>t, <1>q, <1>1, <1>2, <1>3, <1>4, <1>5, <1>6, <1>7, <1>8, <1>9 DEF CombInv

\* The monitors are started, for a caller that goes on to wait or leaves at once.
LEMMA MonitorsStart ==
    ASSUME Types, Queue, CombInv, mode \notin {"group", "wait_for"}, Turn(Caller), caller = "start",
           mon' = [k \in Kids |-> "new"], remaining' = Len(Args),
           ready' = Tail(ready) \o MonsOf(Args),
           UNCHANGED <<mode, kid, result, order, cont, monitors>>
    PROVE  /\ Types' /\ Queue' /\ MonInv' /\ CountInv' /\ OrderInv' /\ Settled
           /\ Caller \notin ToSet(ready') /\ (Timer \in ToSet(ready') => Timer \in ToSet(ready))
           /\ order = <<>>
<1>a. Apart
  BY HandlesApart
<1>i. CallerInv /\ StartInv /\ TimerInv /\ DeadlineInv /\ MonInv /\ CountInv /\ OrderInv /\ WatchInv /\ OutcomeInv
  BY DEF CombInv
<1>s. \A j \in Kids : mon[j] = "none" /\ kid[j] = "none" /\ cont[j] = <<>>
  BY <1>i DEF StartInv
<1>g. /\ Args \in Seq(Kids) /\ Distinct(Args) /\ ToSet(Args) = Kids /\ Len(Args) = Cardinality(Kids)
  BY ArgFacts
<1>o. /\ Tail(ready) \in Seq(Handles) /\ Distinct(Tail(ready))
      /\ ToSet(Tail(ready)) = ToSet(ready) \ {Caller}
  BY <1>a, TakeTurn DEF Apart
<1>r. /\ ready' \in Seq(Handles) /\ Distinct(ready')
      /\ ToSet(ready') = (ToSet(ready) \ {Caller}) \cup {Mon(k) : k \in Kids}
  <2> DEFINE q == Tail(ready)
             m == MonsOf(Args)
  <2>1. m \in Seq(Handles) /\ Distinct(m) /\ ToSet(m) = {Mon(k) : k \in Kids}
    BY <1>g, MonsOfProperties
  <2>2. q \in Seq(Handles) /\ Distinct(q) /\ ToSet(q) = ToSet(ready) \ {Caller} /\ ready' = q \o m
    BY <1>o
  <2>3. ToSet(q) \cap ToSet(m) = {}
    BY <1>s, <2>1, <2>2 DEF Queue
  <2> HIDE DEF q, m
  <2>4. q \o m \in Seq(Handles) /\ Distinct(q \o m) /\ ToSet(q \o m) = ToSet(q) \cup ToSet(m)
    BY <2>1, <2>2, <2>3, ConcatToSet
  <2> QED
    BY <2>1, <2>2, <2>4
<1>m. \A j \in Kids : mon'[j] = "new"
  OBVIOUS
<1>t. Types'
  BY <1>r DEF Types
<1>q. Queue'
  BY <1>a, <1>r, <1>m, <1>s DEF Queue, Apart
<1>5. MonInv'
  BY <1>a, <1>r, <1>m, <1>s DEF MonInv, MonOk, Apart
<1>6. CountInv'
  <2>1. Running' = Kids
    BY <1>m DEF Running
  <2> QED
    BY <1>g, <2>1 DEF CountInv
<1>7. OrderInv' /\ Settled /\ order = <<>>
  <2>1. OrderInv' /\ Settled
    BY <1>i, LenProperties DEF OrderInv, Settled, Extended
  <2>2. order \in Seq(Kids) /\ ToSet(order) = {}
    BY <1>i, <1>s DEF OrderInv
  <2>3. order = <<>>
    BY <2>2, ToSetProperties
  <2> QED
    BY <2>1, <2>3
<1>8. Caller \notin ToSet(ready') /\ (Timer \in ToSet(ready') => Timer \in ToSet(ready))
  BY <1>a, <1>r DEF Apart
<1> QED
  BY <1>t, <1>q, <1>5, <1>6, <1>7, <1>8

LEMMA StartMonitorsStep ==
    ASSUME Types, Queue, CombInv, mode # "group", Call, StartMonitors, UNCHANGED groupVars
    PROVE  Types' /\ Queue' /\ CombInv'
<1>a. Apart
  BY HandlesApart
<1>t0. Turn(Caller) /\ caller = "start" /\ Caller \notin cancelled /\ mode # "wait_for"
  BY DEF Call, StartMonitors
<1>u. /\ UNCHANGED <<monitors, first_exception, early_done, first_done, timer, timed_out,
                     outcome, first, mode, kid, result, order, cont, cancelled>>
      /\ registered' /\ caller' = "await"
      /\ mon' = [k \in Kids |-> "new"] /\ remaining' = Len(Args)
      /\ ready' = Tail(ready) \o MonsOf(Args)
  BY DEF groupVars, group, Call, StartMonitors, kidVars
<1>i. CallerInv /\ StartInv /\ TimerInv /\ DeadlineInv /\ MonInv /\ CountInv /\ OrderInv /\ WatchInv /\ OutcomeInv
  BY DEF CombInv
<1>m. /\ Types' /\ Queue' /\ MonInv' /\ CountInv' /\ OrderInv' /\ Settled
      /\ Caller \notin ToSet(ready') /\ (Timer \in ToSet(ready') => Timer \in ToSet(ready))
      /\ order = <<>>
  BY <1>t0, <1>u, MonitorsStart
<1>s. /\ \A j \in Kids : mon[j] = "none" /\ kid[j] = "none" /\ cont[j] = <<>>
      /\ timer = "none" /\ first_exception = Nobody /\ first_done = Nobody /\ ~early_done
      /\ first = Nobody
  BY <1>t0, <1>i DEF StartInv
<1>1. CallerInv'
  BY <1>a, <1>t0, <1>u, <1>m, <1>s DEF CallerInv, Apart
<1>2. StartInv'
  BY <1>u DEF StartInv
<1>3. TimerInv'
  BY <1>i, <1>t0, <1>u, <1>m DEF TimerInv
<1>4. DeadlineInv'
  BY <1>i, <1>u, <1>s DEF DeadlineInv, Nobody
<1>8. WatchInv'
  <2>1. Len(order') = 0
    BY <1>u, <1>m, EmptySeq
  <2>2. InOrder'
    BY <2>1 DEF InOrder
  <2>3. \A j \in Kids : mon'[j] = "new"
    BY <1>u
  <2>4. Stored'
    BY <1>u, <1>s, <2>3 DEF Stored
  <2> QED
    BY <1>m, <2>2, <2>4 DEF WatchInv
<1>9. OutcomeInv'
  BY <1>i, <1>u, <1>m, OutcomeStable
<1> QED
  BY <1>m, <1>1, <1>2, <1>3, <1>4, <1>8, <1>9 DEF CombInv

-----------------------------------------------------------------------------
(* The caller leaves.                                                      *)

\* A caller that leaves without the outcome of a child
LEMMA NobodyOutcome ==
    ASSUME outcome' = <<"cancelled", Nobody>> \/ outcome' = <<"destroyed", Nobody>>
             \/ (outcome' = <<"timeout", Nobody>> /\ mode' = "wait_for" /\ first' = "deadline")
    PROVE  OutcomeInv'
<1>1. /\ outcome'[2] = Nobody /\ outcome'[1] # "ok"
      /\ outcome'[1] = "timeout" => mode' = "wait_for" /\ first' = "deadline"
  OBVIOUS
<1> QED
  BY <1>1 DEF OutcomeInv, OutcomeExact

\* The caller was cancelled before its first run.
LEMMA CallCancelledStep ==
    ASSUME Types, Queue, CombInv, mode # "group", CallCancelled, UNCHANGED groupVars
    PROVE  Types' /\ Queue' /\ CombInv'
<1>a. Apart
  BY HandlesApart
<1>t0. Turn(Caller) /\ caller = "start"
  BY DEF CallCancelled
<1>u. /\ UNCHANGED <<monitors, registered, first_exception, early_done, first_done, timed_out,
                     first, mode, kid, result, order, cont>>
      /\ caller' = "left" /\ outcome' = <<"cancelled", Nobody>> /\ cancelled' = cancelled \ {Caller}
  BY DEF groupVars, group, state, CallCancelled, kidVars
<1>i. CallerInv /\ StartInv /\ TimerInv /\ DeadlineInv /\ MonInv /\ CountInv /\ OrderInv /\ WatchInv /\ OutcomeInv
  BY DEF CombInv
<1>s. /\ \A j \in Kids : mon[j] = "none" /\ kid[j] = "none" /\ cont[j] = <<>>
      /\ timer = "none" /\ ~registered
  BY <1>t0, <1>i DEF StartInv, CallerInv
<1>o. /\ Tail(ready) \in Seq(Handles) /\ Distinct(Tail(ready))
      /\ ToSet(Tail(ready)) = ToSet(ready) \ {Caller}
  BY <1>a, <1>t0, TakeTurn DEF Apart
<1>m. /\ Types' /\ Queue' /\ MonInv' /\ CountInv' /\ OrderInv'
      /\ Caller \notin ToSet(ready')
      /\ \/ timer' = "killed" /\ mode = "wait_for"
         \/ timer' = "none" /\ (Timer \in ToSet(ready') => Timer \in ToSet(ready)) /\ mode # "wait_for"
  <2>1. CASE mode = "wait_for"
    <3>1. timer' = "killed" /\ ready' = Append(Tail(ready), Timer) /\ UNCHANGED <<mon, remaining>>
      BY <2>1 DEF CallCancelled
    <3>2. Timer \in Handles /\ Timer \notin ToSet(Tail(ready))
      BY <1>a, <1>i, <1>s, <1>o DEF TimerInv, Apart
    <3>3. /\ ready' \in Seq(Handles) /\ Distinct(ready')
          /\ ToSet(ready') = (ToSet(ready) \ {Caller}) \cup {Timer}
      <4> DEFINE q == Tail(ready)
      <4>1. /\ q \in Seq(Handles) /\ Distinct(q) /\ Timer \in Handles /\ Timer \notin ToSet(q)
            /\ ready' = Append(q, Timer) /\ ToSet(q) = ToSet(ready) \ {Caller}
        BY <1>o, <3>1, <3>2
      <4> HIDE DEF q
      <4>2. /\ Append(q, Timer) \in Seq(Handles) /\ Distinct(Append(q, Timer))
            /\ ToSet(Append(q, Timer)) = ToSet(q) \cup {Timer}
        BY <4>1, AppendToSet
      <4> QED
        BY <4>1, <4>2
    <3>4. Types'
      BY <1>u, <3>1, <3>3 DEF Types
    <3>5. Queue'
      BY <1>a, <1>u, <3>1, <3>3 DEF Queue, Apart
    <3>6. MonInv'
      BY <1>a, <1>i, <1>u, <1>s, <2>1, <3>1, <3>3 DEF MonInv, MonOk, Apart
    <3>7. CountInv' /\ OrderInv'
      BY <1>i, <1>u, <3>1 DEF CountInv, Running, OrderInv
    <3>8. Caller \notin ToSet(ready')
      BY <1>a, <3>3 DEF Apart
    <3> QED
      BY <2>1, <3>1, <3>4, <3>5, <3>6, <3>7, <3>8
  <2>2. CASE mode = "gather"
    <3>1. ready' = Tail(ready) /\ UNCHANGED <<mon, remaining, timer>>
      BY <2>2 DEF CallCancelled
    <3>2. Types'
      BY <1>u, <1>o, <3>1 DEF Types
    <3>3. Queue'
      BY <1>u, <1>o, <3>1 DEF Queue
    <3>4. MonInv'
      BY <1>a, <1>i, <1>u, <1>s, <1>o, <3>1 DEF MonInv, MonOk, Apart
    <3>5. CountInv' /\ OrderInv'
      BY <1>i, <1>u, <3>1 DEF CountInv, Running, OrderInv
    <3> QED
      BY <1>s, <1>o, <2>2, <3>1, <3>2, <3>3, <3>4, <3>5
  <2>3. CASE mode \notin {"wait_for", "gather"}
    <3>1. /\ mon' = [k \in Kids |-> "new"] /\ remaining' = Len(Args)
          /\ ready' = Tail(ready) \o MonsOf(Args) /\ UNCHANGED timer
      BY <2>3 DEF CallCancelled
    <3> QED
      <4>1. /\ Types' /\ Queue' /\ MonInv' /\ CountInv' /\ OrderInv'
            /\ Caller \notin ToSet(ready') /\ (Timer \in ToSet(ready') => Timer \in ToSet(ready))
        BY <1>t0, <1>u, <2>3, <3>1, MonitorsStart
      <4>2. timer' = "none"
        BY <1>s, <3>1
      <4> QED
        BY <2>3, <4>1, <4>2
  <2> QED
    BY <2>1, <2>2, <2>3
<1>1. CallerInv'
  BY <1>a, <1>u, <1>m, <1>s DEF CallerInv, Apart
<1>2. StartInv'
  BY <1>u DEF StartInv
<1>3. TimerInv'
  BY <1>i, <1>s, <1>u, <1>m DEF TimerInv
<1>4. DeadlineInv'
  BY <1>i, <1>u DEF DeadlineInv
<1>8. WatchInv'
  BY <1>u DEF WatchInv
<1>9. OutcomeInv'
  BY <1>u, NobodyOutcome
<1> QED
  BY <1>m, <1>1, <1>2, <1>3, <1>4, <1>8, <1>9 DEF CombInv

\* cancel_remaining: the children among ks are scheduled.
LEMMA KidsScheduled ==
    ASSUME NEW ks \in Seq(Kids), NEW rest \in Seq(Handles), Distinct(rest)
    PROVE  LET q == Scheduled(rest, [i \in DOMAIN ks |-> Kid(ks[i])])
           IN  /\ q \in Seq(Handles) /\ Distinct(q)
               /\ ToSet(q) = ToSet(rest) \cup {Kid(k) : k \in ToSet(ks)}
<1>l. Len(ks) \in Nat /\ DOMAIN ks = 1..Len(ks) /\ \A i \in 1..Len(ks) : ks[i] \in Kids
  BY LenProperties
<1>a. Apart
  BY HandlesApart
<1> DEFINE m == [i \in DOMAIN ks |-> Kid(ks[i])]
<1>1. \A i \in 1..Len(ks) : Kid(ks[i]) \in Handles
  BY <1>l, <1>a DEF Apart
<1>2. m \in Seq(Handles) /\ Len(m) = Len(ks) /\ \A i \in 1..Len(ks) : m[i] = Kid(ks[i])
  BY <1>l, <1>1
<1> HIDE DEF m
<1>3. ASSUME NEW x PROVE x \in ToSet(m) <=> x \in {Kid(k) : k \in ToSet(ks)}
  <2>1. x \in ToSet(m) <=> \E i \in 1..Len(ks) : Kid(ks[i]) = x
    BY <1>2, InToSet
  <2>2. \A k : k \in ToSet(ks) <=> \E i \in 1..Len(ks) : ks[i] = k
    BY InToSet
  <2> QED
    BY <2>1, <2>2
<1>4. ToSet(m) = {Kid(k) : k \in ToSet(ks)}
  BY <1>3
<1>5. /\ Scheduled(rest, m) \in Seq(Handles) /\ Distinct(Scheduled(rest, m))
      /\ ToSet(Scheduled(rest, m)) = ToSet(rest) \cup ToSet(m)
  BY <1>2, ScheduledProperties
<1> QED
  BY <1>4, <1>5 DEF m

\* gather's caller leaves: no child that has not started will start, and no result
\* that is there changes.
LEMMA CancelRemainingFacts ==
    ASSUME Types, Queue, MonInv, OrderInv, mode = "gather", NEW rest \in Seq(Handles), Distinct(rest),
           ToSet(rest) = ToSet(ready) \ {Caller}, CancelRemaining(rest),
           UNCHANGED <<mode, mon, cont, monitors>>
    PROVE  /\ Types' /\ Queue' /\ MonInv' /\ OrderInv' /\ Settled
           /\ \A h \in ToSet(ready') : h \in ToSet(ready) \ {Caller} \/ \E k \in Kids : h = Kid(k)
           /\ \A h \in {Caller, Timer} : h \in cancelled' => h \in cancelled
           /\ Timer \in cancelled => Timer \in cancelled'
<1>a. Apart
  BY HandlesApart
<1> DEFINE woken == Filtered(Args, {k \in Kids : Suspended(k)})
           over == Filtered(Args, Unstarted)
<1>u. /\ kid' = [k \in Kids |-> IF k \in Unstarted THEN "ended" ELSE kid[k]]
      /\ result' = [k \in Kids |-> IF k \in Unstarted THEN "cancelled" ELSE result[k]]
      /\ order' = order \o over
      /\ ready' = Scheduled(rest, [i \in DOMAIN woken |-> Kid(woken[i])])
      /\ cancelled' = (cancelled \ {Caller})
                         \cup {Kid(k) : k \in {j \in Kids : kid[j] \in {"queued", "wait", "cleanup"}}}
  BY DEF CancelRemaining
<1>g. Args \in Seq(Kids) /\ Distinct(Args) /\ ToSet(Args) = Kids
  BY ArgFacts
<1>w. woken \in Seq(Kids) /\ ToSet(woken) = {k \in Kids : Suspended(k)}
  <2>1. woken \in Seq(Kids) /\ ToSet(woken) = ToSet(Args) \cap {k \in Kids : Suspended(k)}
    BY <1>g, FilteredProperties
  <2> QED
    BY <1>g, <2>1
<1>v. over \in Seq(Kids) /\ Distinct(over) /\ ToSet(over) = Unstarted
  <2>1. over \in Seq(Kids) /\ Distinct(over) /\ ToSet(over) = ToSet(Args) \cap Unstarted
    BY <1>g, FilteredProperties
  <2> QED
    BY <1>g, <2>1 DEF Unstarted
<1> HIDE DEF woken, over
<1>r. /\ ready' \in Seq(Handles) /\ Distinct(ready')
      /\ ToSet(ready') = (ToSet(ready) \ {Caller}) \cup {Kid(k) : k \in {j \in Kids : Suspended(j)}}
  BY <1>u, <1>w, KidsScheduled
<1>k. \A j \in Kids : /\ kid[j] = "none" => kid'[j] = "ended" /\ result'[j] = "cancelled"
                      /\ kid[j] # "none" => kid'[j] = kid[j] /\ result'[j] = result[j]
  BY <1>u DEF Unstarted
<1>1. Types'
  BY <1>u, <1>r DEF Types, Unstarted
<1>2. Queue'
  <2>1. \A j \in Kids : Kid(j) \in ToSet(ready') =>
           kid[j] \in {"queued", "wait", "cleanup", "killed"}
    BY <1>a, <1>r DEF Queue, Suspended, Apart
  <2>2. \A j \in Kids : Mon(j) \in ToSet(ready') => Mon(j) \in ToSet(ready)
    BY <1>a, <1>r DEF Apart
  <2> QED
    BY <1>r, <1>k, <2>1, <2>2 DEF Queue
<1>3. MonInv'
  <2> SUFFICES ASSUME NEW j \in Kids PROVE MonOk(j)'
    BY DEF MonInv
  <2>1. Mon(j) \in ToSet(ready') <=> Mon(j) \in ToSet(ready)
    BY <1>a, <1>r DEF Apart
  <2>2. MonOk(j)
    BY DEF MonInv
  <2> QED
    BY <1>k, <2>1, <2>2 DEF MonOk
<1>4. OrderInv' /\ Extended(order', order)
  <2>1. ToSet(order) \cap ToSet(over) = {}
    BY <1>v DEF OrderInv, Unstarted
  <2>2. /\ order' \in Seq(Kids) /\ ToSet(order') = ToSet(order) \cup Unstarted
        /\ Extended(order', order) /\ Distinct(order')
    BY <1>u, <1>v, <2>1, ConcatToSet DEF OrderInv
  <2>3. ToSet(order') = {j \in Kids : kid'[j] = "ended"}
    BY <1>k, <2>2 DEF OrderInv, Unstarted
  <2> QED
    BY <2>2, <2>3 DEF OrderInv
<1>5. Settled
  BY <1>k, <1>4 DEF Settled
<1>6. \A h \in ToSet(ready') : h \in ToSet(ready) \ {Caller} \/ \E k \in Kids : h = Kid(k)
  BY <1>r
<1>7. /\ \A h \in {Caller, Timer} : h \in cancelled' => h \in cancelled
      /\ Timer \in cancelled => Timer \in cancelled'
  BY <1>a, <1>u DEF Apart
<1> QED
  BY <1>1, <1>2, <1>3, <1>4, <1>5, <1>6, <1>7

\* The awaiter and the locals of a caller that has suspended are destroyed.
LEMMA UnwindStep ==
    ASSUME Types, Queue, CombInv, mode # "group", caller \in {"await", "killed"},
           NEW rest \in Seq(Handles), Distinct(rest), ToSet(rest) = ToSet(ready) \ {Caller},
           Unwind(rest), caller' = "left", UNCHANGED groupVars
    PROVE  /\ Types' /\ Queue' /\ OrderInv' /\ Settled
           /\ OutcomeInv' => CombInv'
<1>a. Apart
  BY HandlesApart
<1>u. /\ UNCHANGED <<monitors, mode, mon, remaining, first_exception, early_done, first_done, timed_out, first>>
      /\ ~registered' /\ cont' = [k \in Kids |-> IF cont[k] = Caller THEN <<>> ELSE cont[k]]
      /\ timer' = IF mode = "wait_for" THEN TimerDestroyed ELSE timer
  BY DEF groupVars, group, Unwind, monVars
<1>i. CallerInv /\ StartInv /\ TimerInv /\ DeadlineInv /\ MonInv /\ CountInv /\ OrderInv /\ WatchInv /\ OutcomeInv
  BY DEF CombInv
<1>g. Arg' = Arg /\ Arg \in Kids
  BY <1>u, ArgFacts DEF Arg, Args
<1>k. \A j \in Kids : cont'[j] # Caller
  BY <1>a, <1>u DEF Apart
<1>m. /\ Types' /\ Queue' /\ MonInv' /\ OrderInv' /\ Settled
      /\ \A h \in ToSet(ready') : h \in ToSet(ready) \ {Caller} \/ \E k \in Kids : h = Kid(k)
      /\ Timer \in cancelled => Timer \in cancelled'
  <2>1. CASE mode = "gather"
    <3>1. CancelRemaining(rest)
      BY <2>1 DEF Unwind
    <3>2. cont' = cont
      <4>1. \A j \in Kids : cont[j] # Caller
        BY <1>i, <2>1 DEF CallerInv
      <4> QED
        BY <1>u, <4>1 DEF Types
    <3> QED
      BY <1>i, <1>u, <2>1, <3>1, <3>2, CancelRemainingFacts
  <2>2. CASE mode = "wait_for"
    <3>1. /\ kid' = [kid EXCEPT ![Arg] = IF @ = "ended" THEN @ ELSE "killed"]
          /\ ready' = rest /\ cancelled' = cancelled \ {Caller} /\ UNCHANGED <<result, order>>
      BY <2>2 DEF Unwind, Destroyed
    <3>2. Types'
      BY <1>u, <3>1, <1>g DEF Types
    <3>3. Queue'
      BY <1>a, <1>u, <3>1, <1>g DEF Queue, Types, Apart
    <3>4. MonInv'
      <4>1. \A j \in Kids : mon[j] = "none" /\ Mon(j) \notin ToSet(ready)
        BY <1>i, <2>2 DEF MonInv, MonOk
      <4>2. \A j \in Kids : cont'[j] # Mon(j)
        BY <1>a, <1>i, <1>u, <4>1 DEF MonInv, MonOk, Apart
      <4>3. \A j \in Kids : kid'[j] \in {"none", "ended"} => kid[j] = kid'[j]
        BY <3>1, <1>g DEF Types
      <4>4. \A j \in Kids : kid'[j] \in {"none", "ended"} => cont'[j] = <<>>
        BY <1>a, <1>i, <1>u, <4>3 DEF MonInv, MonOk, Apart
      <4> QED
        BY <1>u, <2>2, <3>1, <4>1, <4>2, <4>4 DEF MonInv, MonOk
    <3>5. OrderInv' /\ Settled
      <4>1. \A j \in Kids : kid'[j] = "ended" <=> kid[j] = "ended"
        BY <3>1, <1>g DEF Types
      <4>2. OrderInv'
        BY <1>i, <3>1, <4>1 DEF OrderInv
      <4> QED
        BY <1>i, <3>1, <4>1, <4>2, LenProperties DEF OrderInv, Settled, Extended
    <3> QED
      BY <1>a, <3>1, <3>2, <3>3, <3>4, <3>5 DEF Apart
  <2>3. CASE mode \notin {"gather", "wait_for"}
    <3>1. ready' = rest /\ cancelled' = cancelled \ {Caller} /\ UNCHANGED <<kid, result, order>>
      BY <2>3 DEF Unwind
    <3>2. cont' = cont
      <4>1. \A j \in Kids : cont[j] # Caller
        BY <1>i, <2>3 DEF CallerInv
      <4> QED
        BY <1>u, <4>1 DEF Types
    <3>3. Types'
      BY <1>u, <3>1, <3>2 DEF Types
    <3>4. Queue'
      BY <1>u, <3>1, <3>2 DEF Queue
    <3>5. MonInv'
      BY <1>a, <1>i, <1>u, <3>1, <3>2 DEF MonInv, MonOk, Apart
    <3>6. OrderInv' /\ Settled
      BY <1>i, <3>1, LenProperties DEF OrderInv, Settled, Extended
    <3> QED
      BY <1>a, <3>1, <3>3, <3>4, <3>5, <3>6 DEF Apart
  <2> QED
    BY <2>1, <2>2, <2>3
<1>1. CallerInv'
  <2>1. Caller \notin ToSet(ready')
    BY <1>a, <1>m DEF Apart
  <2> QED
    BY <1>u, <1>k, <2>1 DEF CallerInv
<1>2. StartInv'
  BY DEF StartInv
<1>3. TimerInv'
  <2>1. Timer \in ToSet(ready') => Timer \in ToSet(ready)
    BY <1>a, <1>m DEF Apart
  <2>2. timer' \notin {"new", "sleep"}
    BY <1>i, <1>u DEF TimerInv, TimerDestroyed
  <2>3. Timer \in ToSet(ready') => timer' \in {"new", "sleep", "killed"}
    BY <1>i, <1>u, <2>1 DEF TimerInv, TimerDestroyed
  <2>4. timer' \in {"none", "new", "sleep", "ended", "killed"}
    BY <1>i, <1>u DEF TimerInv, TimerDestroyed
  <2> QED
    BY <1>i, <1>u, <2>2, <2>3, <2>4 DEF TimerInv
<1>4. DeadlineInv'
  BY <1>i, <1>u DEF DeadlineInv
<1>6. CountInv'
  BY <1>i, <1>u DEF CountInv, Running
<1>8. WatchInv'
  BY DEF WatchInv
<1> QED
  BY <1>m, <1>1, <1>2, <1>3, <1>4, <1>6, <1>8 DEF CombInv

\* The caller is resumed with its cancellation, or its frame destroyed.
LEMMA LeavesStep ==
    ASSUME Types, Queue, CombInv, mode # "group", ResumeCancelled \/ ReclaimCaller \/ DestroyCaller,
           UNCHANGED groupVars
    PROVE  Types' /\ Queue' /\ CombInv'
<1>a. Apart
  BY HandlesApart
<1>i. CallerInv /\ StartInv /\ TimerInv /\ DeadlineInv /\ MonInv /\ CountInv /\ OrderInv /\ WatchInv /\ OutcomeInv
  BY DEF CombInv
<1>o. Turn(Caller) => /\ Tail(ready) \in Seq(Handles) /\ Distinct(Tail(ready))
                      /\ ToSet(Tail(ready)) = ToSet(ready) \ {Caller}
  BY <1>a, TakeTurn DEF Apart
<1>1. CASE ResumeCancelled
  <2>1. /\ Turn(Caller) /\ caller = "await" /\ caller' = "left" /\ outcome' = Cancelled
        /\ Unwind(Tail(ready)) /\ UNCHANGED <<mode, first>>
    BY <1>1 DEF ResumeCancelled, Unwind, monVars
  <2>2. OutcomeInv'
    <3>1. Cancelled = <<"cancelled", Nobody>> \/ (Cancelled = <<"timeout", Nobody>> /\ timed_out)
      BY DEF Cancelled
    <3> QED
      BY <1>i, <2>1, <3>1, NobodyOutcome DEF DeadlineInv
  <2> QED
    BY <1>o, <2>1, <2>2, UnwindStep
<1>2. CASE ReclaimCaller
  <2>1. /\ Turn(Caller) /\ caller = "killed" /\ caller' = "left"
        /\ Unwind(Tail(ready)) /\ UNCHANGED <<mode, first, outcome>>
    BY <1>2 DEF ReclaimCaller, Unwind, monVars
  <2>2. Types' /\ Queue' /\ OrderInv' /\ Settled /\ (OutcomeInv' => CombInv')
    BY <1>o, <2>1, UnwindStep
  <2>3. OutcomeInv'
    BY <1>i, <2>1, <2>2, OutcomeStable
  <2> QED
    BY <2>2, <2>3
<1>3. CASE DestroyCaller /\ ~Contains(ready, Caller)
  <2>1. /\ caller = "await" /\ caller' = "left" /\ outcome' = <<"destroyed", Nobody>> /\ Unwind(ready)
    BY <1>3 DEF DestroyCaller
  <2>2. ready \in Seq(Handles) /\ Distinct(ready)
    BY DEF Types, Queue
  <2>3. Caller \notin ToSet(ready)
    BY <1>3, <2>2, ToSetProperties
  <2>4. ToSet(ready) = ToSet(ready) \ {Caller}
    BY <2>3
  <2>5. OutcomeInv'
    BY <2>1, NobodyOutcome
  <2> QED
    BY <2>1, <2>2, <2>4, <2>5, UnwindStep
<1>4. CASE DestroyCaller /\ Contains(ready, Caller)
  <2>1. /\ caller = "await" /\ caller' = "killed" /\ outcome' = <<"destroyed", Nobody>>
        /\ UNCHANGED <<monitors, registered, first_exception, early_done, first_done, timer, timed_out,
                       first, mode, mon, remaining, ready, kid, result, order, cont, cancelled>>
    BY <1>4 DEF DestroyCaller, groupVars, group, taskVars, monVars, kidVars, state
  <2>2. Types'
    BY <2>1 DEF Types
  <2>3. Queue'
    BY <2>1 DEF Queue
  <2>4. CallerInv'
    BY <1>i, <2>1 DEF CallerInv, Arg, Args
  <2>5. StartInv' /\ TimerInv' /\ DeadlineInv'
    BY <1>i, <2>1 DEF StartInv, TimerInv, DeadlineInv
  <2>6. MonInv'
    BY <1>i, <2>1 DEF MonInv, MonOk
  <2>7. CountInv' /\ OrderInv' /\ WatchInv'
    BY <1>i, <2>1 DEF CountInv, Running, OrderInv, WatchInv
  <2>8. OutcomeInv'
    BY <2>1, NobodyOutcome
  <2> QED
    BY <2>2, <2>3, <2>4, <2>5, <2>6, <2>7, <2>8 DEF CombInv
<1> QED
  BY <1>1, <1>2, <1>3, <1>4

\* wait_for takes the outcome of its Task.
LEMMA AnsweredStep ==
    ASSUME Types, Queue, CombInv, Resumed, Answered
    PROVE  /\ OutcomeInv'
           /\ ready' \in Seq(Handles) /\ Distinct(ready')
           /\ ToSet(ready') = ToSet(ready) \ {Caller} \/ ToSet(ready') = (ToSet(ready) \ {Caller}) \cup {Timer}
           /\ Timer \in ToSet(ready') => timer' \in {"new", "sleep", "killed"}
           /\ timer' \in {"new", "sleep"} => Timer \in cancelled'
           /\ mode = "wait_for"
<1>a. Apart
  BY HandlesApart
<1>i. TimerInv /\ DeadlineInv
  BY DEF CombInv
<1>g. Arg \in Kids
  BY ArgFacts
<1>m. /\ mode = "wait_for" /\ mode' = mode /\ UNCHANGED <<kid, result, order, first>>
      /\ caller = "await" /\ Turn(Caller)
  BY DEF Answered, Resumed, monVars, kidVars
<1>t. timer # "none"
  BY <1>i, <1>m DEF TimerInv
<1>o. /\ Tail(ready) \in Seq(Handles) /\ Distinct(Tail(ready))
      /\ ToSet(Tail(ready)) = ToSet(ready) \ {Caller}
  BY <1>a, <1>m, TakeTurn DEF Apart
<1>e. result[Arg] # "none" => kid[Arg] = "ended"
  BY <1>g DEF Queue
<1>1. CASE result[Arg] = "ok"
  <2>1. outcome' = <<"ok", Arg>> /\ CancelTimer /\ timer' = timer
    BY <1>1 DEF Answered
  <2>2. OutcomeInv'
    <3>1. outcome'[1] = "ok" /\ outcome'[2] = Arg
      BY <2>1
    <3>2. Arg \in Kids /\ kid'[Arg] = "ended" /\ result'[Arg] = "ok"
      BY <1>1, <1>e, <1>g, <1>m
    <3> QED
      BY <1>m, <3>1, <3>2 DEF OutcomeInv, OutcomeExact
  <2>3. CASE timer = "ended"
    <3>1. ready' = Scheduled(Tail(ready), <<>>)
      BY <2>1, <2>3 DEF CancelTimer
    <3>2. /\ ready' \in Seq(Handles) /\ Distinct(ready')
          /\ ToSet(ready') = ToSet(ready) \ {Caller}
      <4> DEFINE q == Tail(ready)
      <4>1. q \in Seq(Handles) /\ Distinct(q) /\ <<>> \in Seq(Handles) /\ ToSet(<<>>) = {}
        BY <1>o, NoWaiters
      <4> HIDE DEF q
      <4>2. Scheduled(q, <<>>) \in Seq(Handles) /\ Distinct(Scheduled(q, <<>>))
            /\ ToSet(Scheduled(q, <<>>)) = ToSet(q) \cup ToSet(<<>>)
        BY <4>1, ScheduledProperties
      <4> QED
        BY <1>o, <3>1, <4>1, <4>2 DEF q
    <3>3. Timer \notin ToSet(ready)
      BY <1>i, <2>3 DEF TimerInv
    <3> QED
      BY <1>m, <2>1, <2>2, <2>3, <3>2, <3>3
  <2>4. CASE timer # "ended"
    <3>1. ready' = Scheduled(Tail(ready), <<Timer>>) /\ cancelled' = cancelled \cup {Timer}
      BY <2>1, <2>4 DEF CancelTimer
    <3>2. /\ ready' \in Seq(Handles) /\ Distinct(ready')
          /\ ToSet(ready') = ToSet(Tail(ready)) \cup {Timer}
      BY <1>a, <1>o, <3>1, ScheduleOne DEF Apart
    <3>3. timer' \in {"new", "sleep", "killed"}
      BY <1>i, <1>t, <2>1, <2>4 DEF TimerInv
    <3>4. ToSet(ready') = (ToSet(ready) \ {Caller}) \cup {Timer} /\ Timer \in cancelled'
      BY <1>o, <3>1, <3>2
    <3> QED
      BY <1>m, <2>2, <3>2, <3>3, <3>4
  <2> QED
    BY <2>3, <2>4
<1>2. CASE result[Arg] # "ok"
  <2>1. /\ outcome' = IF result[Arg] = "failed" THEN <<"failed", Arg>> ELSE Cancelled
        /\ timer' = TimerDestroyed /\ ready' = Tail(ready)
    BY <1>2 DEF Answered
  <2>2. OutcomeInv'
    <3>1. CASE result[Arg] = "failed"
      <4>1. outcome'[1] = "failed" /\ outcome'[2] = Arg
        BY <2>1, <3>1
      <4>2. Arg \in Kids /\ kid'[Arg] = "ended" /\ result'[Arg] = "failed"
        BY <3>1, <1>e, <1>g, <1>m
      <4> QED
        BY <1>m, <4>1, <4>2 DEF OutcomeInv, OutcomeExact
    <3>2. CASE result[Arg] # "failed"
      <4>1. outcome' = <<"cancelled", Nobody>> \/ (outcome' = <<"timeout", Nobody>> /\ timed_out)
        BY <2>1, <3>2 DEF Cancelled
      <4> QED
        BY <1>i, <1>m, <4>1, NobodyOutcome DEF DeadlineInv
    <3> QED
      BY <3>1, <3>2
  <2>3. timer' \notin {"new", "sleep"} /\ (Timer \in ToSet(ready) => timer' = "killed")
    BY <1>i, <2>1 DEF TimerDestroyed, TimerInv
  <2> QED
    BY <1>m, <1>o, <2>1, <2>2, <2>3
<1> QED
  BY <1>1, <1>2

\* gather and wait_tasks take what their monitors have stored.
LEMMA CollectedStep ==
    ASSUME Types, Queue, CombInv, mode # "group", Resumed, Collected
    PROVE  /\ OutcomeInv' /\ mode # "wait_for" /\ UNCHANGED timer
           /\ ready' = Tail(ready)
<1>m. /\ mode # "wait_for" /\ mode' = mode /\ UNCHANGED <<kid, result, order, first, timer>>
      /\ caller = "await" /\ Turn(Caller) /\ Caller \notin cancelled /\ ready' = Tail(ready)
  BY DEF Collected, Resumed, monVars, kidVars
<1>i. /\ MonInv /\ CountInv /\ OrderInv /\ WatchInv
  BY DEF CombInv
<1>c. Caller \in ToSet(ready)
  BY <1>m, HandlesApart, TakeTurn DEF Apart
<1>w. Stored /\ Notified
  BY <1>c, <1>i, <1>m DEF WatchInv
<1>d. remaining = 0 => \A k \in Kids : mon[k] = "done"
  <2>1. IsFiniteSet(Running)
    BY KidsAssumption, FS_Subset DEF Running
  <2>2. remaining = 0 => Running = {}
    BY <1>i, <2>1, FS_EmptySet DEF CountInv
  <2> QED
    BY <1>i, <1>m, <1>w, <2>2 DEF Running, Stored, Types
<1>e. remaining = 0 => AllEnded'
  BY <1>d, <1>i, <1>m DEF AllEnded, MonInv, MonOk
<1>r. /\ mode \in {"gather", "all", "exception"} \/ mode = "first"
      /\ mode = "first" => mode \notin {"gather", "all", "exception"}
  BY <1>m DEF Types, Modes
<1>1. CASE mode = "first"
  <2>1. first_done # Nobody /\ order # <<>> /\ first_done = order[1]
    BY <1>1, <1>w DEF Stored, Notified
  <2>2. outcome' = <<result[first_done], first_done>>
    BY <1>1 DEF Collected
  <2>3. first_done \in Kids /\ kid[first_done] = "ended"
    <3>1. order \in Seq(Kids) /\ 1 \in 1..Len(order)
      BY <1>i, <2>1, LenProperties, EmptySeq DEF OrderInv
    <3>2. order[1] \in ToSet(order)
      BY <3>1, InToSet
    <3> QED
      BY <1>i, <2>1, <3>2 DEF OrderInv
  <2>4. outcome'[1] = result'[first_done] /\ outcome'[2] = first_done
    BY <1>m, <2>2
  <2>5. outcome'[1] # "timeout"
    BY <1>m, <2>3, <2>4 DEF Types
  <2>6. OutcomeInv'
    BY <1>m, <1>1, <2>1, <2>3, <2>4, <2>5 DEF OutcomeInv, OutcomeExact
  <2> QED
    BY <1>m, <2>6
<1>2. CASE mode # "first" /\ first_exception # Nobody
  <2>1. FirstFailure(first_exception)
    BY <1>2, <1>w DEF Stored
  <2>2. first_exception \in Kids /\ kid[first_exception] = "ended"
    <3>1. PICK i \in DOMAIN order : order[i] = first_exception
      BY <2>1 DEF FirstFailure
    <3>2. order \in Seq(Kids) /\ i \in 1..Len(order)
      BY <1>i, LenProperties DEF OrderInv
    <3>3. first_exception \in ToSet(order)
      BY <3>1, <3>2, InToSet
    <3> QED
      BY <1>i, <3>3 DEF OrderInv
  <2>3. outcome' = <<result[first_exception], first_exception>>
    BY <1>2 DEF Collected
  <2>4. PICK k \in Kids : k = first_exception
    BY <2>2
  <2>5. outcome'[1] = result'[k] /\ outcome'[2] = k /\ outcome'[1] # "ok"
    BY <1>m, <2>1, <2>3, <2>4 DEF FirstFailure
  <2>6. FirstFailure(k)'
    BY <1>m, <2>1, <2>4 DEF FirstFailure
  <2>7. outcome'[1] # "timeout"
    BY <1>m, <2>4, <2>5 DEF Types
  <2>8. mode \in {"gather", "all"} => AllEnded'
    BY <1>e, <1>w DEF Notified
  <2>9. FirstFailure(outcome[2])'
    BY <2>5, <2>6 DEF FirstFailure
  <2>10. OutcomeInv'
    BY <1>m, <1>2, <2>2, <2>4, <2>5, <2>7, <2>8, <2>9 DEF OutcomeInv, OutcomeExact
  <2> QED
    BY <1>m, <2>10
<1>3. CASE mode # "first" /\ first_exception = Nobody
  <2>1. outcome' = <<"ok", Nobody>>
    BY <1>3 DEF Collected
  <2>2. remaining = 0
    BY <1>3, <1>r, <1>w DEF Notified
  <2>3. AllEnded' /\ \A k \in Kids : result'[k] = "ok"
    BY <1>d, <1>e, <1>m, <1>w, <1>3, <2>2 DEF Stored
  <2>4. outcome'[1] = "ok" /\ outcome'[2] = Nobody
    BY <2>1
  <2>5. OutcomeInv'
    BY <1>m, <1>3, <2>3, <2>4 DEF OutcomeInv, OutcomeExact
  <2> QED
    BY <1>m, <2>5
<1> QED
  BY <1>1, <1>2, <1>3

\* The caller is resumed and takes what it was waiting for.
LEMMA ResumedStep ==
    ASSUME Types, Queue, CombInv, mode # "group", Resumed, UNCHANGED groupVars
    PROVE  Types' /\ Queue' /\ CombInv'
<1>a. Apart
  BY HandlesApart
<1>u. /\ UNCHANGED <<monitors, mode, mon, remaining, kid, result, order, cont, registered,
                     first_exception, early_done, first_done, timed_out, first>>
      /\ caller' = "left" /\ caller = "await" /\ Turn(Caller) /\ Caller \notin cancelled
  BY DEF groupVars, group, state, Resumed, monVars, kidVars
<1>i. CallerInv /\ TimerInv /\ DeadlineInv /\ MonInv /\ CountInv /\ OrderInv
  BY DEF CombInv
<1>o. /\ Tail(ready) \in Seq(Handles) /\ Distinct(Tail(ready)) /\ Caller \in ToSet(ready)
      /\ ToSet(Tail(ready)) = ToSet(ready) \ {Caller}
  BY <1>a, <1>u, TakeTurn DEF Apart
<1>n. ~registered /\ \A k \in Kids : cont[k] # Caller
  BY <1>i, <1>o, <1>u DEF CallerInv
<1>m. /\ OutcomeInv' /\ ready' \in Seq(Handles) /\ Distinct(ready')
      /\ ToSet(ready') = ToSet(ready) \ {Caller} \/ ToSet(ready') = (ToSet(ready) \ {Caller}) \cup {Timer}
      /\ Timer \in ToSet(ready') => timer' \in {"new", "sleep", "killed"}
      /\ timer' \in {"new", "sleep"} => Timer \in cancelled'
      /\ mode # "wait_for" => timer' = "none"
  <2>1. CASE Answered
    BY <2>1, AnsweredStep
  <2>2. CASE Collected
    <3>1. OutcomeInv' /\ mode # "wait_for" /\ timer' = timer /\ ready' = Tail(ready)
      BY <2>2, CollectedStep
    <3>2. timer = "none" /\ Timer \notin ToSet(ready)
      BY <1>i, <3>1 DEF TimerInv
    <3> QED
      BY <1>o, <3>1, <3>2
  <2> QED
    BY <2>1, <2>2 DEF Resumed
<1>q. \A k \in Kids : /\ Kid(k) \in ToSet(ready') <=> Kid(k) \in ToSet(ready)
                      /\ Mon(k) \in ToSet(ready') <=> Mon(k) \in ToSet(ready)
  BY <1>a, <1>m DEF Apart
<1>1. Types'
  BY <1>u, <1>m DEF Types
<1>2. Queue'
  BY <1>u, <1>m, <1>q DEF Queue
<1>3. CallerInv'
  <2>1. Caller \notin ToSet(ready')
    BY <1>a, <1>m DEF Apart
  <2> QED
    BY <1>u, <1>n, <2>1 DEF CallerInv
<1>4. StartInv' /\ WatchInv'
  BY <1>u DEF StartInv, WatchInv
<1>5. TimerInv'
  <2>1. timer' \in {"none", "new", "sleep", "ended", "killed"}
    BY <1>i DEF TimerInv, TimerDestroyed, Resumed, Answered, Collected
  <2> QED
    BY <1>u, <1>m, <2>1 DEF TimerInv
<1>6. DeadlineInv'
  BY <1>i, <1>u DEF DeadlineInv
<1>7. MonInv'
  BY <1>i, <1>u, <1>q DEF MonInv, MonOk
<1>8. CountInv' /\ OrderInv'
  BY <1>i, <1>u DEF CountInv, Running, OrderInv
<1> QED
  BY <1>m, <1>1, <1>2, <1>3, <1>4, <1>5, <1>6, <1>7, <1>8 DEF CombInv

\* Every step of the other combinators
LEMMA CombStep ==
    ASSUME Types, Queue, CombInv, mode # "group", CombNext, UNCHANGED groupVars
    PROVE  Types' /\ Queue' /\ CombInv' /\ mode' = mode
<1>1. mode' = mode
  <2>1. CASE Call \/ CallCancelled \/ Resumed \/ ResumeCancelled \/ ReclaimCaller
    BY <2>1 DEF Call, CallCancelled, Resumed, ResumeCancelled, ReclaimCaller, Unwind, monVars
  <2>2. CASE TimerStarts \/ TimerFires \/ ReclaimTimer \/ TimerExpires \/ CancelCaller \/ DestroyCaller
    BY <2>2 DEF TimerStarts, TimerFires, ReclaimTimer, TimerExpires, CancelCaller, DestroyCaller,
                Unwind, monVars, taskVars
  <2>3. CASE \E k \in Kids : RunMonitor(k) \/ RunKid(k) \/ Reclaim(k) \/ KidWake(k)
    BY <2>3 DEF RunMonitor, RunKid, Reclaim, KidWake, monVars
  <2> QED
    BY <2>1, <2>2, <2>3 DEF CombNext, CombResume
<1>2. CASE Call
  BY <1>1, <1>2, StartTimerStep, StartMonitorsStep DEF Call
<1>3. CASE CallCancelled
  BY <1>1, <1>3, CallCancelledStep
<1>4. CASE Resumed
  BY <1>1, <1>4, ResumedStep
<1>5. CASE ResumeCancelled \/ ReclaimCaller \/ DestroyCaller
  BY <1>1, <1>5, LeavesStep
<1>6. CASE TimerStarts \/ TimerFires \/ ReclaimTimer \/ TimerExpires
  BY <1>1, <1>6, TimerStep
<1>7. CASE CancelCaller
  BY <1>1, <1>7, CancelCallerStep
<1>8. ASSUME NEW k \in Kids, RunMonitor(k) PROVE Types' /\ Queue' /\ CombInv'
  <2>1. kid[k] \in {"none", "ended"}
    BY <1>8 DEF RunMonitor
  <2> QED
    BY <1>8, <2>1, MonitorStartsKid, MonitorCompletes
<1>9. ASSUME NEW k \in Kids, RunKid(k), UNCHANGED combVars PROVE Types' /\ Queue' /\ CombInv'
  <2>1. RunEffect(k)
    BY <1>9, RunKidEffect
  <2> QED
    BY <1>9, <2>1, CombRunKid
<1>10. ASSUME NEW k \in Kids, Reclaim(k) \/ KidWake(k), UNCHANGED combVars
       PROVE  Types' /\ Queue' /\ CombInv'
  <2>1. QueueEffect(k)
    BY <1>10, ReclaimOrWake
  <2> QED
    BY <1>10, <2>1, CombQueue
<1> QED
  BY <1>1, <1>2, <1>3, <1>4, <1>5, <1>6, <1>7, <1>8, <1>9, <1>10 DEF CombNext, CombResume

-----------------------------------------------------------------------------
(* The theorems.                                                           *)

LEMMA InitInv ==
    ASSUME Init
    PROVE  IInv
<1>a. Apart
  BY HandlesApart
<1>n. <<>> \in Seq(Handles) /\ ToSet(<<>>) = {} /\ Distinct(<<>>) /\ <<>> \in Seq(Kids)
  BY NoWaiters DEF Distinct
<1>c. <<Caller>> \in Seq(Handles) /\ ToSet(<<Caller>>) = {Caller} /\ Distinct(<<Caller>>)
  <2>1. Caller \in Handles /\ <<Caller>> = Append(<<>>, Caller) /\ Caller \notin ToSet(<<>>)
    BY <1>a, <1>n DEF Apart
  <2>2. /\ Append(<<>>, Caller) \in Seq(Handles) /\ Distinct(Append(<<>>, Caller))
        /\ ToSet(Append(<<>>, Caller)) = ToSet(<<>>) \cup {Caller}
    BY <1>n, <2>1, AppendToSet
  <2> QED
    BY <1>n, <2>1, <2>2
<1>r. ready \in Seq(Handles) /\ Distinct(ready) /\ ToSet(ready) = IF mode = "group" THEN {} ELSE {Caller}
  BY <1>n, <1>c DEF Init
<1>k. /\ \A k \in Kids : mon[k] = "none" /\ kid[k] = "none" /\ result[k] = "none" /\ cont[k] = <<>>
      /\ remaining = 0 /\ cancelled = {} /\ order = <<>>
  BY DEF Init, TasksInit
<1>1. Types
  BY <1>n, <1>r DEF Types, Init, TasksInit, GroupInit
<1>2. Queue
  BY <1>a, <1>r, <1>k DEF Queue, Apart
<1>3. Running = {} /\ IsFiniteSet(Running) /\ Cardinality(Running) = 0
  BY <1>k, FS_EmptySet DEF Running
<1>4. CASE mode = "group"
  <2>1. monitors = <<>> /\ ToSet(monitors) = {}
    BY <1>n DEF Init, GroupInit
  <2>2. GroupInv
    BY <1>a, <1>k, <1>r, <1>3, <1>4, <2>1
       DEF GroupInv, GroupCounts, GroupKids, GroupParent, Init, GroupInit
  <2>3. caller = "start" /\ outcome = <<"none", Nobody>>
    BY DEF Init, CombInit
  <2> QED
    BY <1>1, <1>2, <1>4, <2>2, <2>3 DEF IInv
<1>5. CASE mode # "group"
  <2>1. /\ caller = "start" /\ ~registered /\ first_exception = Nobody /\ ~early_done
        /\ first_done = Nobody /\ timer = "none" /\ ~timed_out /\ first = Nobody
        /\ outcome = <<"none", Nobody>>
    BY DEF Init, CombInit
  <2>2. CallerInv
    BY <1>a, <1>k, <2>1 DEF CallerInv, Apart
  <2>3. StartInv /\ TimerInv /\ DeadlineInv
    BY <1>a, <1>k, <1>r, <1>5, <2>1 DEF StartInv, TimerInv, DeadlineInv, Apart
  <2>4. MonInv
    BY <1>a, <1>k, <1>r, <1>5 DEF MonInv, MonOk, Apart
  <2>5. CountInv
    BY <1>k, <1>3 DEF CountInv
  <2>6. OrderInv
    BY <1>k, <1>n DEF OrderInv
  <2>7. WatchInv
    BY <2>1 DEF WatchInv
  <2>8. OutcomeInv
    <3>1. outcome[1] = "none" /\ outcome[2] = Nobody
      BY <2>1
    <3> QED
      BY <3>1 DEF OutcomeInv, OutcomeExact
  <2>9. CombInv
    BY <2>2, <2>3, <2>4, <2>5, <2>6, <2>7, <2>8 DEF CombInv
  <2>10. parent = "body"
    BY DEF Init, GroupInit
  <2> QED
    BY <1>1, <1>2, <1>5, <2>9, <2>10 DEF IInv
<1> QED
  BY <1>4, <1>5

LEMMA NextInv ==
    ASSUME IInv, Next
    PROVE  IInv'
<1>1. CASE mode = "group"
  <2>1. GroupNext /\ UNCHANGED combVars
    BY <1>1 DEF Next
  <2>2. Types' /\ Queue' /\ GroupInv' /\ mode' = mode
    BY <1>1, <2>1, GroupStep DEF IInv
  <2>3. caller' = "start" /\ outcome' = <<"none", Nobody>>
    BY <1>1, <2>1 DEF IInv, combVars
  <2> QED
    BY <1>1, <2>2, <2>3 DEF IInv
<1>2. CASE mode # "group"
  <2>1. CombNext /\ UNCHANGED groupVars
    BY <1>2 DEF Next
  <2>2. Types' /\ Queue' /\ CombInv' /\ mode' = mode
    BY <1>2, <2>1, CombStep DEF IInv
  <2>3. parent' = "body"
    BY <1>2, <2>1 DEF IInv, groupVars
  <2> QED
    BY <1>2, <2>2, <2>3 DEF IInv
<1> QED
  BY <1>1, <1>2

LEMMA StutterInv ==
    ASSUME IInv, UNCHANGED vars
    PROVE  IInv'
<1>u. UNCHANGED <<mode, ready, kid, result, cont, cancelled, mon, remaining, order, parent, phase,
                  monitors, exceptions, failing, waiter, doomed, cancels, reported, twice, caller,
                  registered, first_exception, early_done, first_done, timer, timed_out, outcome,
                  first>>
  BY DEF vars, taskVars, groupVars, combVars, monVars, kidVars, group, state
<1>1. Types' /\ Queue'
  BY <1>u DEF IInv, Types, Queue
<1>2. GroupInv => GroupInv'
  BY <1>u DEF GroupInv, GroupCounts, GroupKids, GroupParent, Running
<1>3. CallerInv => CallerInv'
  BY <1>u DEF CallerInv, Arg, Args
<1>4. StartInv /\ TimerInv /\ DeadlineInv => StartInv' /\ TimerInv' /\ DeadlineInv'
  BY <1>u DEF StartInv, TimerInv, DeadlineInv, Before
<1>5. MonInv => MonInv'
  BY <1>u DEF MonInv, MonOk
<1>6. CountInv /\ OrderInv => CountInv' /\ OrderInv'
  BY <1>u DEF CountInv, Running, OrderInv
<1>7. WatchInv => WatchInv'
  BY <1>u DEF WatchInv, InOrder, Stored, Notified, FirstFailure, Before
<1>8. OutcomeInv => OutcomeInv'
  BY <1>u DEF OutcomeInv, OutcomeExact, AllEnded, FirstFailure
<1>9. CombInv => CombInv'
  BY <1>3, <1>4, <1>5, <1>6, <1>7, <1>8 DEF CombInv
<1> QED
  BY <1>u, <1>1, <1>2, <1>9 DEF IInv

LEMMA Inductive == Spec => []IInv
<1>1. Init => IInv
  BY InitInv
<1>2. IInv /\ [Next]_vars => IInv'
  BY NextInv, StutterInv
<1> QED
  BY <1>1, <1>2, PTL DEF Spec

\* When wait() of a TaskGroup has returned, every child that started has run to
\* its end, unless its monitor was cancelled twice (task_group_wait_awaiter, monitor).
THEOREM ScopeOutlives == Spec => []ScopeOutlivesKids
<1>1. IInv => ScopeOutlivesKids
  <2> SUFFICES ASSUME IInv, parent = "returned", NEW k \in Kids
               PROVE  kid[k] \in {"none", "ended"} \/ (kid[k] = "killed" /\ k \in twice)
    BY DEF ScopeOutlivesKids
  <2>1. GroupInv
    BY DEF IInv
  <2> QED
    BY <2>1 DEF GroupInv, GroupKids, GroupParent
<1> QED
  BY <1>1, Inductive, PTL

\* wait() of a TaskGroup throws the exception of every child that failed, unless a
\* second cancellation of its monitor took its place (record_failure).
THEOREM FailuresAreReported == Spec => []FailuresReported
<1>1. IInv => FailuresReported
  <2> SUFFICES ASSUME IInv, parent = "returned", NEW k \in Kids, result[k] = "failed"
               PROVE  k \in reported \cup twice
    BY DEF FailuresReported
  <2>1. GroupInv /\ Queue
    BY DEF IInv
  <2>2. kid[k] = "ended"
    BY <2>1 DEF Queue
  <2>3. mon[k] = "done"
    BY <2>1, <2>2 DEF GroupInv, GroupKids, GroupParent
  <2> QED
    BY <2>1, <2>3 DEF GroupInv, GroupKids, GroupParent
<1> QED
  BY <1>1, Inductive, PTL

\* What the caller of wait_for, gather and wait_tasks gets is what happened: a
\* timeout only of a deadline that came first, the exception that came first, the
\* child that ended first, all the results.
THEOREM OutcomeIsExact == Spec => []OutcomeExact
<1>1. IInv => OutcomeExact
  <2> SUFFICES ASSUME IInv PROVE OutcomeExact
    OBVIOUS
  <2>1. CASE mode = "group"
    <3>1. outcome[1] = "none" /\ outcome[2] = Nobody
      BY <2>1 DEF IInv
    <3> QED
      BY <2>1, <3>1 DEF OutcomeExact
  <2>2. CASE mode # "group"
    BY <2>2 DEF IInv, CombInv, OutcomeInv
  <2> QED
    BY <2>1, <2>2
<1> QED
  BY <1>1, Inductive, PTL

\* Nobody touches a caller that is gone: neither the loop, nor a monitor, nor a
\* child that ends, nor the timer.
THEOREM CallerNotTouchedLate == Spec => []NoLateTouch
<1>1. IInv => NoLateTouch
  <2> SUFFICES ASSUME IInv, caller = "left"
               PROVE  /\ ~Contains(ready, Caller) /\ ~registered
                      /\ \A k \in Kids : cont[k] # Caller
                      /\ timer \in {"new", "sleep"} => Timer \in cancelled
    BY DEF NoLateTouch
  <2>1. CombInv /\ ready \in Seq(Handles)
    BY DEF IInv, Types
  <2>2. Caller \notin ToSet(ready) /\ ~registered /\ \A k \in Kids : cont[k] # Caller
    BY <2>1 DEF CombInv, CallerInv
  <2>3. ~Contains(ready, Caller)
    BY <2>1, <2>2, ToSetProperties
  <2> QED
    BY <2>1, <2>2, <2>3 DEF CombInv, TimerInv
<1> QED
  BY <1>1, Inductive, PTL

LEMMA GroupFlagsKept ==
    ASSUME Types, GroupFlags, GroupNext
    PROVE  GroupFlags'
<1> USE DEF GroupFlags
<1>1. CASE wait \/ WaitDoomed \/ Return
  BY <1>1 DEF wait, WaitDoomed, Return, WaitReturns
<1>2. CASE cancel
  <2>1. cancels' \in 0..MaxCancels
    BY <1>2, GroupAssumption DEF cancel
  <2> QED
    BY <1>2, <2>1 DEF cancel
<1>3. CASE Leave
  BY <1>3 DEF Leave
<1>4. ASSUME NEW k \in Kids, spawn(k) PROVE GroupFlags'
  BY <1>4 DEF spawn
<1>5. CASE UNCHANGED groupVars
  BY <1>5 DEF groupVars, group
<1>6. ASSUME NEW k \in Kids, MonitorStarts(k) \/ MonitorForwards(k) PROVE GroupFlags'
  BY <1>6, <1>5 DEF MonitorStarts, MonitorForwards
<1>7. ASSUME NEW k \in Kids, MonitorSkips(k) PROVE GroupFlags'
  BY <1>7 DEF MonitorSkips, complete
<1>8. ASSUME NEW k \in Kids, MonitorEnds(k) PROVE GroupFlags'
  <2>1. exceptions' \subseteq Kids /\ twice' \subseteq Kids
    BY <1>8 DEF MonitorEnds, Failures
  <2>2. failing' \in BOOLEAN /\ waiter' \in BOOLEAN
    BY <1>8 DEF MonitorEnds, complete
  <2>3. phase' \in {"open", "closing", "finished"} /\ UNCHANGED <<parent, doomed, cancels, reported>>
    BY <1>8 DEF MonitorEnds
  <2> QED
    BY <2>1, <2>2, <2>3
<1> QED
  BY <1>1, <1>2, <1>3, <1>4, <1>5, <1>6, <1>7, <1>8 DEF GroupNext, GroupResume

LEMMA CombFlagsKept ==
    ASSUME Types, CombFlags, CombNext
    PROVE  CombFlags'
<1> USE DEF CombFlags
<1>1. CASE Call
  BY <1>1 DEF Call, StartTimer, StartMonitors, state
<1>2. CASE CallCancelled
  BY <1>2 DEF CallCancelled, state
<1>3. CASE Resumed
  BY <1>3 DEF Resumed, Answered, Collected, TimerDestroyed, state
<1>4. CASE ResumeCancelled \/ ReclaimCaller
  BY <1>4 DEF ResumeCancelled, ReclaimCaller, Unwind, TimerDestroyed
<1>5. CASE DestroyCaller
  BY <1>5 DEF DestroyCaller, Unwind, TimerDestroyed, state
<1>6. CASE CancelCaller \/ TimerStarts \/ TimerFires \/ TimerExpires
  BY <1>6 DEF CancelCaller, TimerStarts, TimerFires, TimerExpires, state
<1>7. CASE UNCHANGED combVars
  BY <1>7 DEF combVars, state
<1>8. CASE ReclaimTimer
  BY <1>7, <1>8 DEF ReclaimTimer
<1>9. ASSUME NEW k \in Kids, RunMonitor(k) PROVE CombFlags'
  <2>1. UNCHANGED <<caller, timer, timed_out>>
    BY <1>9 DEF RunMonitor
  <2>2. /\ registered' \in BOOLEAN /\ early_done' \in BOOLEAN
        /\ first_exception' \in Kids \cup {Nobody} /\ first_done' \in Kids \cup {Nobody}
    BY <1>9 DEF RunMonitor, Complete, state
  <2> QED
    BY <2>1, <2>2
<1> QED
  BY <1>1, <1>2, <1>3, <1>4, <1>5, <1>6, <1>7, <1>8, <1>9 DEF CombNext, CombResume

LEMMA FlagsKept ==
    ASSUME IInv, Flags, [Next]_vars
    PROVE  Flags'
<1>0. CASE UNCHANGED vars
  BY <1>0 DEF Flags, GroupFlags, CombFlags, vars, taskVars, groupVars, combVars, monVars, kidVars,
              group, state
<1>1. CASE mode = "group" /\ Next
  <2>1. GroupNext /\ UNCHANGED combVars
    BY <1>1 DEF Next
  <2>2. GroupFlags'
    BY <2>1, GroupFlagsKept DEF IInv, Flags
  <2>3. CombFlags'
    BY <2>1 DEF Flags, CombFlags, combVars, state
  <2>4. order' = order
    <3>1. CASE wait \/ WaitDoomed \/ cancel \/ Leave \/ Return
      BY <3>1 DEF wait, WaitDoomed, cancel, Leave, Return, WaitReturns, kidVars
    <3>2. CASE \E k \in Kids : spawn(k) \/ RunKid(k) \/ Reclaim(k) \/ KidWake(k)
      BY <1>1, <3>2 DEF spawn, RunKid, KidEnds, Ends, Reclaim, KidWake, kidVars
    <3>3. CASE \E k \in Kids : MonitorStarts(k) \/ MonitorSkips(k) \/ MonitorForwards(k) \/ MonitorEnds(k)
      BY <1>1, <3>3 DEF MonitorStarts, MonitorSkips, Ends, MonitorForwards, MonitorEnds, kidVars
    <3> QED
      BY <2>1, <3>1, <3>2, <3>3 DEF GroupNext, GroupResume
  <2> QED
    BY <1>1, <2>2, <2>3, <2>4 DEF Flags
<1>2. CASE mode # "group" /\ Next
  <2>1. CombNext /\ UNCHANGED groupVars
    BY <1>2 DEF Next
  <2>2. CombFlags'
    BY <2>1, CombFlagsKept DEF IInv, Flags
  <2>3. GroupFlags'
    BY <2>1 DEF Flags, GroupFlags, groupVars, group
  <2>4. mode' = mode
    BY <1>2, <2>1, CombStep DEF IInv
  <2> QED
    BY <1>2, <2>2, <2>3, <2>4 DEF Flags
<1> QED
  BY <1>0, <1>1, <1>2

\* Every variable of a scope has its type; no more monitors are running than there
\* are children.
THEOREM TypeCorrect == Spec => []TypeOK
<1>1. Init => Flags
  <2> SUFFICES ASSUME Init PROVE Flags
    OBVIOUS
  <2>1. GroupFlags
    <3>1. doomed \in {FALSE, mode = "group"}
      BY DEF Init, GroupInit
    <3>2. doomed \in BOOLEAN
      BY <3>1, Zenon
    <3>3. /\ parent = "body" /\ phase = "open" /\ exceptions = {} /\ failing = FALSE
          /\ waiter = FALSE /\ cancels = 0 /\ reported = {} /\ twice = {}
      BY DEF Init, GroupInit
    <3> QED
      <4>1. failing \in BOOLEAN /\ waiter \in BOOLEAN
        BY <3>3, Zenon
      <4>2. cancels \in 0..MaxCancels
        BY <3>3, GroupAssumption
      <4> QED
        BY <3>2, <3>3, <4>1, <4>2, Zenon DEF GroupFlags
  <2>2. CombFlags
    BY DEF Init, CombInit, CombFlags
  <2> QED
    BY <2>1, <2>2 DEF Init, TasksInit, Flags
<1>2. IInv /\ Flags /\ [Next]_vars => Flags'
  BY FlagsKept
<1>3. IInv /\ Flags => TypeOK
  <2> SUFFICES ASSUME IInv, Flags PROVE TypeOK
    OBVIOUS
  <2>1. Types /\ GroupFlags /\ CombFlags
    BY DEF IInv, Flags
  <2>2. ToSet(ready) \subseteq Handles /\ ToSet(monitors) \subseteq Kids
    BY <2>1, ToSetProperties DEF Types
  <2>3. ToSet(order) \subseteq Kids
    <3>1. order \in Seq(Kids)
      BY EmptySeq DEF IInv, Flags, CombInv, OrderInv
    <3> QED
      BY <3>1, ToSetProperties
  <2>4. remaining \in 0..Cardinality(Kids)
    <3>1. remaining = Cardinality(Running)
      BY DEF IInv, GroupInv, GroupCounts, CombInv, CountInv
    <3>2. IsFiniteSet(Kids) /\ Running \subseteq Kids
      BY KidsAssumption DEF Running
    <3>3. IsFiniteSet(Running) /\ Cardinality(Running) <= Cardinality(Kids)
      BY <3>2, FS_Subset
    <3>4. Cardinality(Running) \in Nat /\ Cardinality(Kids) \in Nat
      BY <3>2, <3>3, FS_CardinalityType
    <3> QED
      BY <3>1, <3>3, <3>4
  <2>5. ToSet(ready) \subseteq {Parent, Caller, Timer} \cup {Mon(k) : k \in Kids}
                                  \cup {Kid(k) : k \in Kids}
    BY <2>2 DEF Handles
  <2>6. {failing, waiter, doomed, registered, early_done, timed_out} \subseteq BOOLEAN
    BY <2>1, Zenon DEF GroupFlags, CombFlags
  <2>7. /\ exceptions \cup reported \cup twice \subseteq Kids
        /\ {first_exception, first_done} \subseteq Kids \cup {Nobody}
    BY <2>1 DEF GroupFlags, CombFlags
  <2> QED
    BY <2>1, <2>2, <2>3, <2>4, <2>5, <2>6, <2>7 DEF TypeOK, Types, GroupFlags, CombFlags
<1> QED
  BY <1>1, <1>2, <1>3, Inductive, PTL DEF Spec

=============================================================================
