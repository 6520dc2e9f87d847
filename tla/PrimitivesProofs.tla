-------------------------- MODULE PrimitivesProofs --------------------------
(***************************************************************************)
(* What the runs check of Lock, Condition, Semaphore, Event and Future,    *)
(* proved for any coroutines, loops and programs, with cancellations and   *)
(* destructions at any moment but one: no coroutine is cancelled on its    *)
(* loop while the thread of another is notifying it (Unraced).  The lemmas *)
(* here are about the steps of Semaphore, Event and Future and about the   *)
(* frames; those about the lock are in LockProofs.                         *)
(***************************************************************************)
EXTENDS LockProofs

-----------------------------------------------------------------------------
(* The semaphore, one coroutine at a time.                                 *)

SemLocal(c) ==
    /\ Named(semWaiters, c) => c \notin reserved /\ (st[c] = "acquire" \/ Has(c, "sem_remove"))
    /\ c \in reserved => st[c] = "acquire" \/ Has(c, "sem_remove")
    /\ st[c] = "acquire" => /\ c \notin inside
                            /\ Named(semWaiters, c) \/ c \in reserved
                            /\ Named(semWaiters, c) /\ Roused(c) => c \in cancelled
    /\ Has(c, "sem_suspend") => c \notin inside

SemTypes ==
    /\ permits \in Nat /\ posts \in Nat /\ inside \subseteq Coros /\ reserved \subseteq Coros
    /\ IsFiniteSet(inside) /\ IsFiniteSet(reserved)

\* The semaphore's invariant, one coroutine at a time.
LEMMA SemOf ==
    ASSUME Base, SemInv
    PROVE  /\ \A c \in Coros : SemLocal(c)
           /\ List(semWaiters) /\ Recent(semWaiters, {"acquire"}) /\ SemTypes /\ Conservation /\ NoIdlePermit
<1>1. List(semWaiters) /\ SemTypes /\ Conservation /\ NoIdlePermit
  BY DEF SemInv, SemTypes
<1>2. \A w \in ToSet(semWaiters) : w[1] \in Coros /\ w = <<w[1], w[2]>>
  BY <1>1, ListMembers
<1>a. \A w \in ToSet(semWaiters) :
           /\ w[1] \notin reserved
           /\ (st[w[1]] = "acquire" /\ w = Now(w[1])) \/ Has(w[1], "sem_remove")
  BY DEF SemInv
<1>3. \A c \in Coros : SemLocal(c)
  <2> TAKE c \in Coros
  <2>1. Named(semWaiters, c) => c \notin reserved /\ (st[c] = "acquire" \/ Has(c, "sem_remove"))
    BY <1>a DEF Named
  <2> QED
    BY <2>1 DEF SemInv, SemLocal
<1>4. Recent(semWaiters, {"acquire"})
  <2>1. \A c \in Coros : Has(c, "sem_remove") => st[c] \in {"run", "gone"}
    BY DEF Base, Calling, Phase, OnCoro
  <2> QED
    BY <1>2, <1>a, <2>1 DEF Recent
<1> QED
  BY <1>1, <1>3, <1>4

\* Steps that give out a permit change no frame.
LEMMA PlainSem ==
    ASSUME IInv, Unraced', NEW l \in Loops, NEW old, NEW new, Plain(l, old, new), OnSemaphore,
           Others(old, new, LockOps \cup EventOps \cup FutureOps, {"acquire"}),
           List(semWaiters'), ToSet(semWaiters') \subseteq ToSet(semWaiters),
           SemTypes', Conservation', NoIdlePermit', \A c \in Coros : SemLocal(c)'
    PROVE  IInv'
<1>0. Base /\ SemInv
  BY DEF IInv, Base
<1>1. Recent(semWaiters, {"acquire"})
  BY <1>0, SemOf
<1>2. \A c \in Coros : st'[c] = st[c] /\ Now(c)' = Now(c)
  BY <1>0, PlainRoused DEF Plain
<1>3. \A w \in ToSet(semWaiters') : w[1] \in Coros
  BY ListMembers
<1>4. List(semWaiters)'
  BY DEF List, Plain
<1>5. ASSUME NEW w \in ToSet(semWaiters')
      PROVE  /\ w[1] \notin reserved'
             /\ (st'[w[1]] = "acquire" /\ w = Now(w[1])') \/ Has(w[1], "sem_remove")'
  <2>1. w[1] \in Coros /\ Named(semWaiters, w[1])'
    BY <1>3 DEF Named
  <2>2. w[1] \notin reserved' /\ (st'[w[1]] = "acquire" \/ Has(w[1], "sem_remove")')
    BY <2>1 DEF SemLocal
  <2>3. st[w[1]] = "acquire" => w = Now(w[1])
    BY <1>1 DEF Recent
  <2> QED
    BY <1>2, <2>1, <2>2, <2>3
<1>6. \A c \in reserved' : st'[c] = "acquire" \/ Has(c, "sem_remove")'
  BY DEF SemLocal, SemTypes
<1>7. \A c \in Coros : /\ st'[c] = "acquire" =>
                              /\ c \notin inside'
                              /\ Named(semWaiters, c)' \/ c \in reserved'
                              /\ Named(semWaiters, c)' /\ Roused(c)' => c \in cancelled'
                       /\ Has(c, "sem_suspend")' => c \notin inside'
  BY DEF SemLocal
<1>8. SemInv'
  BY <1>4, <1>5, <1>6, <1>7 DEF SemInv, SemTypes
<1> QED
  BY <1>8, SemOnly

\* A coroutine that has nothing to do with the step.
SemApart(d) ==
    /\ st'[d] = st[d] /\ (Roused(d) <=> Roused(d)') /\ (d \in cancelled => d \in cancelled')
    /\ (Has(d, "sem_remove")' <=> Has(d, "sem_remove")) /\ (Has(d, "sem_suspend")' => Has(d, "sem_suspend"))
    /\ (Named(semWaiters', d) <=> Named(semWaiters, d)) /\ (d \in reserved' <=> d \in reserved)
    /\ (d \in inside' => d \in inside)

\* A coroutine that nothing happens to is as it was.
LEMMA SemLocalKept ==
    ASSUME NEW d \in Coros, SemLocal(d), SemApart(d)
    PROVE  SemLocal(d)'
<1>1. Named(semWaiters, d)' <=> Named(semWaiters', d)
  BY DEF Named
<1> QED
  BY <1>1 DEF SemLocal, SemApart

\* Where a permit is owed.
LEMMA OwedAfter ==
    ASSUME Base, NEW l \in Loops, NEW old, NEW new, Moves(l, old, new)
    PROVE  /\ Owed' = {k \in Loops : IF k = l THEN (l \in Owed /\ <<"sem_release">> \notin old) \/ <<"sem_release">> \in new
                                    ELSE k \in Owed}
           /\ Owed = {k \in Loops : <<"sem_release">> \in ToSet(prog[k])}
           /\ IsFiniteSet(Owed) /\ IsFiniteSet(Owed')
<1> DEFINE r == <<"sem_release">>
<1>1. r[1] = "sem_release"
  OBVIOUS
<1>2. ASSUME NEW p, NEW k \in Loops, p \in [Loops -> Seq(Instr)]
      PROVE  (\E i \in ToSet(p[k]) : i[1] = "sem_release") <=> r \in ToSet(p[k])
  <2>1. p[k] \in Seq(Instr)
    BY <1>2
  <2>2. \A i \in ToSet(p[k]) : i \in Instr
    BY <2>1, ToSetProperties
  <2>3. \A i \in ToSet(p[k]) : i[1] = "sem_release" => i = r
    BY <2>2, InstrOf
  <2> HIDE DEF r
  <2> QED
    BY <1>1, <2>3
<1>3. prog \in [Loops -> Seq(Instr)] /\ prog' \in [Loops -> Seq(Instr)]
  BY DEF Base, FrameTypes, Moves
<1>4. Owed = {k \in Loops : r \in ToSet(prog[k])} /\ Owed' = {k \in Loops : r \in ToSet(prog'[k])}
  BY <1>2, <1>3 DEF Owed
<1> HIDE DEF r
<1>5. \A k \in Loops : r \in ToSet(prog'[k]) <=>
         IF k = l THEN (r \in ToSet(prog[l]) /\ r \notin old) \/ r \in new ELSE r \in ToSet(prog[k])
  BY <1>1 DEF Moves
<1>6. Owed' = {k \in Loops : IF k = l THEN (l \in Owed /\ r \notin old) \/ r \in new ELSE k \in Owed}
  BY <1>4, <1>5
<1>7. IsFiniteSet(Owed) /\ IsFiniteSet(Owed')
  BY <1>4, FS_Subset, WaitingAssumption
<1> QED
  BY <1>4, <1>6, <1>7 DEF r

\* The permit may pass to the first waiter.
LEMMA GiveProper ==
    ASSUME Base, SemInv, holds \in [Coros -> Nat], NEW l \in Loops, NEW w \in ToSet(semWaiters)
    PROVE  /\ Proper(l, <<"schedule", w>>) /\ w \in Current
           /\ \A c \in Coros : Now(c) = w => st[c] = "acquire"
<1>0. List(semWaiters) /\ \A c \in Coros : SemLocal(c)
  BY SemOf
<1>1. w \in Current /\ w[1] \in Coros /\ w[2] \in Nat \ {0} /\ w[2] <= waits[w[1]]
  BY <1>0, ListMembers
<1>2. ASSUME NEW c \in Coros, Now(c) = w
      PROVE  st[c] = "acquire" /\ (Roused(c) => c \in cancelled)
  <2>1. w[1] = c /\ w[2] = epoch[c]
    BY <1>2 DEF Now
  <2>2. epoch[c] # 0
    BY <1>1, <2>1
  <2>3. Named(semWaiters, c)
    BY <2>1 DEF Named
  <2>4. st[c] = "acquire" \/ Has(c, "sem_remove")
    BY <1>0, <2>3 DEF SemLocal
  <2>5. st[c] = "acquire"
    BY <2>2, <2>4, ErasedEnded
  <2>6. Roused(c) => c \in cancelled
    BY <1>0, <2>3, <2>5 DEF SemLocal
  <2> QED
    BY <2>5, <2>6
<1> DEFINE y == <<"schedule", w>>
<1>3. y[1] = "schedule" /\ y[2] = w
  OBVIOUS
<1>4. \A c \in Coros : y = <<"schedule", Now(c)>> => Now(c) = w
  OBVIOUS
<1>5. Proper(l, y)
  <2> HIDE DEF y
  <2> QED
    BY <1>1, <1>2, <1>3, <1>4 DEF Proper, OnCoro, OnWaiter, Suspended
<1> QED
  BY <1>1, <1>2, <1>5

\* A permit that is given back was somebody's, was owed or is a new one.
Giving(l, old) ==
    /\ \A y \in old : y[1] \in {"sem_release", "sem_guard"}
    /\ inside' \subseteq inside /\ posts' \in Nat
    /\ Cardinality(inside) + Cardinality(Owed) + posts'
           = Cardinality(inside') + Cardinality(IF <<"sem_release">> \in old THEN Owed \ {l} ELSE Owed)
               + posts + 1

\* A permit that is given back leaves the account as it was.
LEMMA GivesAs ==
    ASSUME Base, NEW l \in Loops, NEW old, NEW new, Plain(l, old, new), Giving(l, old), SemTypes,
           \A y \in new : y[1] = "schedule"
    PROVE  /\ Cardinality(inside) + Cardinality(Owed) + posts'
                  = Cardinality(inside') + Cardinality(Owed') + posts + 1
           /\ IsFiniteSet(inside') /\ inside' \subseteq Coros /\ posts' \in Nat
           /\ Cardinality(inside) \in Nat /\ Cardinality(inside') \in Nat
           /\ Cardinality(Owed) \in Nat /\ Cardinality(Owed') \in Nat
           /\ \A d \in Coros : /\ st'[d] = st[d] /\ (d \in cancelled => d \in cancelled')
                               /\ (Roused(d)' <=> Roused(d) \/ <<"schedule", Now(d)>> \in new)
                               /\ (Has(d, "sem_remove")' <=> Has(d, "sem_remove"))
                               /\ (Has(d, "sem_suspend")' <=> Has(d, "sem_suspend"))
<1> DEFINE r == <<"sem_release">>
<1>1. r[1] = "sem_release"
  OBVIOUS
<1>2. Moves(l, old, new)
  BY DEF Plain
<1>3. /\ Owed' = {k \in Loops : IF k = l THEN (l \in Owed /\ r \notin old) \/ r \in new ELSE k \in Owed}
      /\ Owed = {k \in Loops : r \in ToSet(prog[k])}
      /\ IsFiniteSet(Owed) /\ IsFiniteSet(Owed')
  BY <1>2, OwedAfter
<1>g. Cardinality(inside) + Cardinality(Owed) + posts'
           = Cardinality(inside') + Cardinality(IF r \in old THEN Owed \ {l} ELSE Owed) + posts + 1
  BY DEF Giving
<1>h. IsFiniteSet(inside') /\ inside' \subseteq Coros /\ posts' \in Nat
  BY FS_Subset DEF Giving, SemTypes
<1>i. IsFiniteSet(inside)
  BY DEF SemTypes
<1> HIDE DEF r
<1>4. r \notin new
  BY <1>1
<1>5. Owed' = IF r \in old THEN Owed \ {l} ELSE Owed
  BY <1>3, <1>4
<1>6. /\ Cardinality(inside) \in Nat /\ Cardinality(inside') \in Nat
      /\ Cardinality(Owed) \in Nat /\ Cardinality(Owed') \in Nat
  BY <1>3, <1>h, <1>i, FS_CardinalityType
<1>7. \A d \in Coros : /\ st'[d] = st[d] /\ (d \in cancelled => d \in cancelled')
                       /\ (Roused(d)' <=> Roused(d) \/ <<"schedule", Now(d)>> \in new)
  BY PlainRoused DEF Plain, Flagged
<1>8. ASSUME NEW d \in Coros, NEW op \in {"sem_remove", "sem_suspend"}
      PROVE  Has(d, op)' <=> Has(d, op)
  <2> DEFINE y == <<op, d>>
  <2>1. y[1] = op /\ op \in OnCoro
    BY DEF OnCoro
  <2>2. Has(d, op)' <=> (Has(d, op) /\ y \notin old) \/ y \in new
    BY <2>1, PlainHas
  <2> HIDE DEF y
  <2>3. y \notin old /\ y \notin new
    BY <2>1 DEF Giving
  <2> QED
    BY <2>2, <2>3
<1> QED
  BY <1>5, <1>6, <1>7, <1>8, <1>g, <1>h

\* release(): the first waiter gets the permit, or nobody.
LEMMA GiveStep ==
    ASSUME IInv, Unraced', NEW l \in Loops, NEW old, Giving(l, old), NEW rest, sem_release(l, rest), OnSemaphore,
           Then(l, rest) => Plain(l, old, {}),
           \A w \in Current : Then(l, <<<<"schedule", w>>>> \o rest) /\ Proper(l, <<"schedule", w>>)
                                  => Plain(l, old, {<<"schedule", w>>})
    PROVE  IInv'
<1>0. Base /\ SemInv /\ holds \in [Coros -> Nat]
  BY DEF IInv, Base, LockInv, Owning
<1>1. /\ \A c \in Coros : SemLocal(c)
      /\ List(semWaiters) /\ Recent(semWaiters, {"acquire"}) /\ SemTypes /\ Conservation /\ NoIdlePermit
  BY <1>0, SemOf
<1>2. \A y \in old : y[1] \in {"sem_release", "sem_guard"}
  BY DEF Giving
<1>3. Cardinality(reserved) \in Nat /\ permits \in Nat /\ posts \in Nat /\ Permits \in Nat
  BY <1>1, FS_CardinalityType, SemaphoreAssumption DEF SemTypes
<1>4. permits + Cardinality(inside) + Cardinality(reserved) + Cardinality(Owed) = Permits + posts
  BY <1>1 DEF Conservation
<1>5. CASE /\ semWaiters = <<>> /\ permits' = permits + 1 /\ Then(l, rest)
           /\ UNCHANGED <<semWaiters, reserved>>
  <2> DEFINE none == {}
  <2>1. Plain(l, old, none) /\ \A y \in none : y[1] = "schedule"
    BY <1>5
  <2>s. \A d \in Coros : <<"schedule", Now(d)>> \notin none
    OBVIOUS
  <2>n. \A y \in none : FALSE
    OBVIOUS
  <2> HIDE DEF none
  <2>2. /\ Cardinality(inside) + Cardinality(Owed) + posts'
                  = Cardinality(inside') + Cardinality(Owed') + posts + 1
        /\ IsFiniteSet(inside') /\ inside' \subseteq Coros /\ posts' \in Nat
        /\ Cardinality(inside) \in Nat /\ Cardinality(inside') \in Nat
        /\ Cardinality(Owed) \in Nat /\ Cardinality(Owed') \in Nat
        /\ \A d \in Coros : /\ st'[d] = st[d] /\ (d \in cancelled => d \in cancelled')
                            /\ (Roused(d)' <=> Roused(d) \/ <<"schedule", Now(d)>> \in none)
                            /\ (Has(d, "sem_remove")' <=> Has(d, "sem_remove"))
                            /\ (Has(d, "sem_suspend")' <=> Has(d, "sem_suspend"))
    BY <1>0, <1>1, <2>1, GivesAs
  <2>3. ASSUME NEW d \in Coros PROVE SemLocal(d)'
    <3>1. SemApart(d)
      BY <1>5, <2>2, <2>s DEF SemApart, Giving
    <3> QED
      BY <1>1, <3>1, SemLocalKept
  <2>4. SemTypes'
    BY <1>1, <1>3, <1>5, <2>2 DEF SemTypes
  <2>5. Conservation'
    <3>0. Cardinality(reserved') = Cardinality(reserved) /\ permits' = permits + 1
      BY <1>5
    <3>2. /\ Cardinality(inside) + Cardinality(Owed) + posts'
                  = Cardinality(inside') + Cardinality(Owed') + posts + 1
          /\ posts' \in Nat /\ Cardinality(inside) \in Nat /\ Cardinality(inside') \in Nat
          /\ Cardinality(Owed) \in Nat /\ Cardinality(Owed') \in Nat
      BY <2>2
    <3>1. permits' + Cardinality(inside') + Cardinality(reserved') + Cardinality(Owed') = Permits + posts'
      BY ONLY <1>3, <1>4, <3>0, <3>2
    <3> QED
      BY <3>1 DEF Conservation
  <2>6. NoIdlePermit'
    BY <1>5 DEF NoIdlePermit
  <2>7. Others(old, none, LockOps \cup EventOps \cup FutureOps, {"acquire"})
    BY <1>2, <2>n DEF Others, LockOps, EventOps, FutureOps
  <2>8. List(semWaiters') /\ ToSet(semWaiters') \subseteq ToSet(semWaiters)
    BY <1>1, <1>5
  <2> QED
    BY <2>1, <2>3, <2>4, <2>5, <2>6, <2>7, <2>8, PlainSem
<1>6. CASE /\ semWaiters # <<>> /\ semWaiters' = Tail(semWaiters)
           /\ reserved' = reserved \cup {Head(semWaiters)[1]}
           /\ Then(l, <<<<"schedule", Head(semWaiters)>>>> \o rest) /\ UNCHANGED permits
  <2>w. PICK w : w = Head(semWaiters)
    OBVIOUS
  <2> DEFINE n == w[1]
             y == <<"schedule", w>>
             new == {y}
  <2>1. /\ List(Tail(semWaiters)) /\ w \in ToSet(semWaiters) /\ w \in Current
        /\ \A v : v \in ToSet(Tail(semWaiters)) <=> v \in ToSet(semWaiters) /\ v # w
        /\ \A c : Named(Tail(semWaiters), c) <=> Named(semWaiters, c) /\ c # n
        /\ Named(semWaiters, n)
    BY <1>1, <1>6, <2>w, ListTail
  <2>2. Proper(l, y) /\ \A c \in Coros : Now(c) = w => st[c] = "acquire"
    BY <1>0, <2>1, GiveProper
  <2>3. Plain(l, old, new)
    BY <1>6, <2>1, <2>2, <2>w
  <2>s. \A d \in Coros : <<"schedule", Now(d)>> \in new => Now(d) = w /\ d = n
    BY DEF Now
  <2>t. \A z \in new : z[1] = "schedule"
    OBVIOUS
  <2>c. n \in Coros /\ n \notin reserved
    BY <1>1, <2>1, ListMembers DEF SemLocal
  <2>u. reserved' = reserved \cup {n} /\ (\A d : Named(semWaiters', d) <=> Named(semWaiters, d) /\ d # n)
    BY <1>6, <2>1, <2>w
  <2> HIDE DEF new, y
  <2>4. /\ Cardinality(inside) + Cardinality(Owed) + posts'
                  = Cardinality(inside') + Cardinality(Owed') + posts + 1
        /\ IsFiniteSet(inside') /\ inside' \subseteq Coros /\ posts' \in Nat
        /\ Cardinality(inside) \in Nat /\ Cardinality(inside') \in Nat
        /\ Cardinality(Owed) \in Nat /\ Cardinality(Owed') \in Nat
        /\ \A d \in Coros : /\ st'[d] = st[d] /\ (d \in cancelled => d \in cancelled')
                            /\ (Roused(d)' <=> Roused(d) \/ <<"schedule", Now(d)>> \in new)
                            /\ (Has(d, "sem_remove")' <=> Has(d, "sem_remove"))
                            /\ (Has(d, "sem_suspend")' <=> Has(d, "sem_suspend"))
    BY <1>0, <1>1, <2>3, <2>t, GivesAs
  <2> HIDE DEF n
  <2>5. ASSUME NEW d \in Coros, d # n PROVE SemLocal(d)'
    <3>1. SemApart(d)
      BY <2>4, <2>5, <2>s, <2>u DEF SemApart, Giving
    <3> QED
      BY <1>1, <3>1, SemLocalKept
  <2>6. SemLocal(n)'
    <3>1. SemLocal(n) /\ (n \in inside' => n \in inside)
      BY <1>1, <2>c DEF Giving
    <3>2. /\ st'[n] = st[n] /\ (Has(n, "sem_remove")' <=> Has(n, "sem_remove"))
          /\ (Has(n, "sem_suspend")' <=> Has(n, "sem_suspend"))
      BY <2>4, <2>c
    <3>3. n \in reserved' /\ ~Named(semWaiters', n)
      BY <2>u
    <3>4. ~Named(semWaiters, n)'
      BY <3>3 DEF Named
    <3>5. SemLocal(n)' <=>
             /\ Named(semWaiters, n)' => n \notin reserved' /\ (st'[n] = "acquire" \/ Has(n, "sem_remove")')
             /\ n \in reserved' => st'[n] = "acquire" \/ Has(n, "sem_remove")'
             /\ st'[n] = "acquire" => /\ n \notin inside'
                                      /\ Named(semWaiters, n)' \/ n \in reserved'
                                      /\ Named(semWaiters, n)' /\ Roused(n)' => n \in cancelled'
             /\ Has(n, "sem_suspend")' => n \notin inside'
      BY DEF SemLocal
    <3> QED
      BY <2>1, <3>1, <3>2, <3>3, <3>4, <3>5 DEF SemLocal
  <2>7. Cardinality(reserved') = Cardinality(reserved) + 1 /\ IsFiniteSet(reserved')
    BY <1>1, <2>c, <2>u, OneMore DEF SemTypes
  <2>8. SemTypes'
    BY <1>1, <1>3, <1>6, <2>4, <2>7, <2>c, <2>u DEF SemTypes
  <2>9. Conservation'
    <3>0. Cardinality(reserved') = Cardinality(reserved) + 1 /\ permits' = permits
      BY <1>6, <2>7
    <3>2. /\ Cardinality(inside) + Cardinality(Owed) + posts'
                  = Cardinality(inside') + Cardinality(Owed') + posts + 1
          /\ posts' \in Nat /\ Cardinality(inside) \in Nat /\ Cardinality(inside') \in Nat
          /\ Cardinality(Owed) \in Nat /\ Cardinality(Owed') \in Nat
      BY <2>4
    <3>1. permits' + Cardinality(inside') + Cardinality(reserved') + Cardinality(Owed') = Permits + posts'
      BY ONLY <1>3, <1>4, <3>0, <3>2
    <3> QED
      BY <3>1 DEF Conservation
  <2>10. NoIdlePermit'
    BY <1>1, <1>6 DEF NoIdlePermit
  <2>11. Others(old, new, LockOps \cup EventOps \cup FutureOps, {"acquire"})
    BY <1>2, <2>2, <2>s, <2>t DEF Others, LockOps, EventOps, FutureOps
  <2>12. List(semWaiters') /\ ToSet(semWaiters') \subseteq ToSet(semWaiters)
    BY <1>6, <2>1
  <2>13. \A d \in Coros : SemLocal(d)'
    <3> TAKE d \in Coros
    <3>1. d = n \/ d # n
      OBVIOUS
    <3>2. CASE d = n
      BY <2>6, <3>2
    <3> QED
      BY <2>5, <3>2
  <2> QED
    BY <2>3, <2>8, <2>9, <2>10, <2>11, <2>12, <2>13, PlainSem
<1> QED
  BY <1>5, <1>6 DEF sem_release

\* A release by a caller whose loop is idle, and one that is part of a call.
LEMMA CallGives ==
    ASSUME Base, NEW l \in Loops, l \in Active, Idle(l), Still, \A c \in Coros : Frozen(c)
    PROVE  /\ Then(l, <<>>) => Plain(l, {}, {})
           /\ \A w \in Current : Then(l, <<<<"schedule", w>>>> \o <<>>) /\ Proper(l, <<"schedule", w>>)
                                     => Plain(l, {}, {<<"schedule", w>>})
<1>0. prog \in [Loops -> Seq(Instr)]
  BY DEF Base, FrameTypes
<1>1. ASSUME Then(l, <<>>) PROVE Plain(l, {}, {})
  <2>1. prog' = prog
    BY <1>0, <1>1 DEF Then, Idle
  <2> QED
    BY <2>1, SamePlain
<1>2. ASSUME NEW w \in Current, Then(l, <<<<"schedule", w>>>> \o <<>>), Proper(l, <<"schedule", w>>)
      PROVE  Plain(l, {}, {<<"schedule", w>>})
  <2> DEFINE y == <<"schedule", w>>
  <2>1. y \in Instr /\ y[1] = "schedule" /\ Proper(l, y) /\ Then(l, <<y>> \o <<>>)
    BY <1>2, IsInstr DEF OnWaiter
  <2> HIDE DEF y
  <2>2. <<y>> \o <<>> = <<y>>
    BY <2>1, Single, ConcatEmptySeq
  <2>3. Then(l, <<y>>) /\ y[1] \notin {"push", "erase_cond", "sem_guard", "scope"}
    BY <2>1, <2>2
  <2>4. Plain(l, {}, {y})
    BY <2>1, <2>3, CallPlain
  <2> QED
    BY <2>4 DEF y
<1> QED
  BY <1>1, <1>2

\* A permit given back by an instruction of a call in progress.
LEMMA PassGives ==
    ASSUME Base, holds \in [Coros -> Nat], NEW l \in Loops, NEW op \in {"release", "guard", "sem_release"},
           At(l, op), Still, \A c \in Coros : Frozen(c), NEW x, x = Head(prog[l])
    PROVE  /\ Then(l, Rest(l)) => Plain(l, {x}, {})
           /\ \A w \in Current : Then(l, <<<<"schedule", w>>>> \o Rest(l)) /\ Proper(l, <<"schedule", w>>)
                                     => Plain(l, {x}, {<<"schedule", w>>})
<1>1. op \in Ordinary
  BY DEF Ordinary
<1>2. x[1] = op
  BY HeadAt
<1>3. ASSUME NEW w \in Current, Then(l, <<<<"schedule", w>>>> \o Rest(l)), Proper(l, <<"schedule", w>>)
      PROVE  Plain(l, {x}, {<<"schedule", w>>})
  <2> DEFINE y == <<"schedule", w>>
  <2>1. y \in Instr /\ IsSchedule(y)
    BY IsInstr DEF IsSchedule, OnWaiter
  <2>2. Then(l, <<y>> \o Rest(l)) /\ Proper(l, y)
    BY <1>3
  <2> HIDE DEF y
  <2>3. Follows(Head(prog[l]), y)
    BY <1>2, <2>1 DEF Follows
  <2>4. Plain(l, {Head(prog[l])}, {y})
    BY <1>1, <2>1, <2>2, <2>3, NextPlain
  <2> QED
    BY <2>4 DEF y
<1>4. Then(l, Rest(l)) => Plain(l, {x}, {})
  BY <1>1, PopPlain
<1> QED
  BY <1>3, <1>4

\* release() by the holder of a permit.
LEMMA SemReleaseStep ==
    ASSUME IInv, Unraced', NEW c \in Coros, SemRelease(c), OnSemaphore
    PROVE  IInv'
<1> DEFINE l == home[c]
           none == {}
<1>0. Base /\ SemInv /\ SemTypes /\ Calls(c)
  BY SemOf DEF IInv, Base, SemRelease
<1>1. l \in Loops /\ l \in Active /\ Idle(l) /\ st[c] = "run"
  BY <1>0, IdleFacts
<1>2. Still /\ (\A d \in Coros : Frozen(d))
  BY <1>1 DEF SemRelease, frames, Still, Frozen, OnSemaphore, lockVars
<1>3. /\ Then(l, <<>>) => Plain(l, {}, {})
      /\ \A w \in Current : Then(l, <<<<"schedule", w>>>> \o <<>>) /\ Proper(l, <<"schedule", w>>)
                                => Plain(l, {}, {<<"schedule", w>>})
  BY <1>0, <1>1, <1>2, CallGives
<1>4. Giving(l, none)
  <2>1. inside' = inside \ {c} /\ c \in inside /\ posts' = posts /\ IsFiniteSet(inside) /\ posts \in Nat
    BY <1>0 DEF SemRelease, SemTypes
  <2>2. Cardinality(inside') = Cardinality(inside) - 1 /\ Cardinality(inside) \in Nat
    BY <2>1, OneFewer
  <2>3. Cardinality(Owed) \in Nat
    <3>1. IsFiniteSet(Owed)
      BY FS_Subset, WaitingAssumption DEF Owed
    <3> QED
      BY <3>1, FS_CardinalityType
  <2>5. (IF <<"sem_release">> \in none THEN Owed \ {l} ELSE Owed) = Owed
    OBVIOUS
  <2>6. \A y \in none : y[1] \in {"sem_release", "sem_guard"}
    OBVIOUS
  <2> HIDE DEF none
  <2>7. Cardinality(inside) + Cardinality(Owed) + posts = Cardinality(inside') + Cardinality(Owed) + posts + 1
    BY ONLY <2>1, <2>2, <2>3
  <2>8. posts' = posts /\ posts' \in Nat /\ inside' \subseteq inside
    BY <2>1
  <2> QED
    BY <2>5, <2>6, <2>7, <2>8 DEF Giving
<1>5. sem_release(l, <<>>)
  BY DEF SemRelease
<1>6. /\ Then(l, <<>>) => Plain(l, none, {})
      /\ \A w \in Current : Then(l, <<<<"schedule", w>>>> \o <<>>) /\ Proper(l, <<"schedule", w>>)
                                => Plain(l, none, {<<"schedule", w>>})
  BY <1>3
<1> HIDE DEF none, l
<1> QED
  BY <1>1, <1>4, <1>5, <1>6, GiveStep

\* release() by anybody else.
LEMMA SemPostStep ==
    ASSUME IInv, Unraced', NEW l \in Loops, l \in Active, SemPost(l), OnSemaphore
    PROVE  IInv'
<1> DEFINE none == {}
<1>0. Base /\ SemInv /\ SemTypes /\ Idle(l)
  BY SemOf DEF IInv, Base, SemPost
<1>2. Still /\ (\A d \in Coros : Frozen(d))
  BY DEF SemPost, frames, Still, Frozen, OnSemaphore, lockVars
<1>3. /\ Then(l, <<>>) => Plain(l, {}, {})
      /\ \A w \in Current : Then(l, <<<<"schedule", w>>>> \o <<>>) /\ Proper(l, <<"schedule", w>>)
                                => Plain(l, {}, {<<"schedule", w>>})
  BY <1>0, <1>2, CallGives
<1>4. Giving(l, none)
  <2>1. inside' = inside /\ posts' = posts + 1 /\ IsFiniteSet(inside) /\ posts \in Nat
    BY <1>0 DEF SemPost, SemTypes
  <2>2. Cardinality(inside') = Cardinality(inside) /\ Cardinality(inside) \in Nat
    BY <2>1, FS_CardinalityType
  <2>3. Cardinality(Owed) \in Nat
    <3>1. IsFiniteSet(Owed)
      BY FS_Subset, WaitingAssumption DEF Owed
    <3> QED
      BY <3>1, FS_CardinalityType
  <2>5. (IF <<"sem_release">> \in none THEN Owed \ {l} ELSE Owed) = Owed
    OBVIOUS
  <2>6. \A y \in none : y[1] \in {"sem_release", "sem_guard"}
    OBVIOUS
  <2> HIDE DEF none
  <2>7. Cardinality(inside) + Cardinality(Owed) + posts' = Cardinality(inside') + Cardinality(Owed) + posts + 1
    BY ONLY <2>1, <2>2, <2>3
  <2>8. posts' \in Nat /\ inside' \subseteq inside
    BY <2>1
  <2> QED
    BY <2>5, <2>6, <2>7, <2>8 DEF Giving
<1>5. sem_release(l, <<>>)
  BY DEF SemPost
<1>6. /\ Then(l, <<>>) => Plain(l, none, {})
      /\ \A w \in Current : Then(l, <<<<"schedule", w>>>> \o <<>>) /\ Proper(l, <<"schedule", w>>)
                                => Plain(l, none, {<<"schedule", w>>})
  BY <1>3
<1> HIDE DEF none
<1> QED
  BY <1>4, <1>5, <1>6, GiveStep

\* The Guard of the semaphore in a frame that is destroyed.
LEMMA GuardPlain ==
    ASSUME Base, holds \in [Coros -> Nat], NEW l \in Loops, At(l, "sem_guard"), NEW I,
           I = inside \ {Arg(l)}, inside' = I, holds' = holds, Still, NEW x, x = Head(prog[l])
    PROVE  /\ Then(l, Rest(l)) => Plain(l, {x}, {})
           /\ \A w \in Current : Then(l, <<<<"schedule", w>>>> \o Rest(l)) /\ Proper(l, <<"schedule", w>>)
                                     => Plain(l, {x}, {<<"schedule", w>>})
           /\ Arg(l) \in inside
<1> DEFINE c == x[2]
           s == Tail(prog[l])
<1>0. FrameTypes /\ (\A k \in Loops : Shape(k)) /\ home' = home /\ prog \in [Loops -> Seq(Instr)]
  BY DEF Base, Calling, Still, FrameTypes
<1>1. /\ l \in Active /\ x \in Instr /\ x[1] = "sem_guard" /\ s \in Seq(Instr) /\ Arg(l) = x[2]
      /\ ToSet(prog[l]) = ToSet(s) \cup {x} /\ Fits(Gone(l), holds, inside, x, s) /\ x \notin ToSet(s)
      /\ \A y \in ToSet(prog[l]) : y[1] # "resume"
  BY ONLY Base, holds \in [Coros -> Nat], l \in Loops, At(l, "sem_guard"), x = Head(prog[l]), HeadAt
<1>2. x = <<"sem_guard", c>> /\ c \in Coros
  BY <1>1, InstrOf DEF OnCoro
<1>3. Gone(l) \in SUBSET Coros /\ Gone(l)' = Gone(l)
  BY DEF Gone, Still
<1>h. I = inside \ {c}
  BY <1>1
<1> HIDE DEF s, c
<1>f. Fits(Gone(l), holds, inside, <<"sem_guard", c>>, s)
  BY <1>1, <1>2
<1>4. /\ c \in Gone(l) /\ c \in inside /\ Form(Gone(l), holds, I, s)
      /\ \A y \in Instr : IsSchedule(y) => Form(Gone(l), holds, I, Led(y, s))
  <2> DEFINE G == Gone(l)
             a == holds
             J == inside
  <2>1. /\ G \in SUBSET Coros /\ a \in [Coros -> Nat] /\ c \in Coros /\ s \in Seq(Instr)
        /\ Fits(G, a, J, <<"sem_guard", c>>, s)
    BY <1>1, <1>2, <1>3, <1>f
  <2> HIDE DEF G, a, J
  <2>2. /\ c \in G /\ c \in J /\ Form(G, a, J \ {c}, s)
        /\ \A y \in Instr : IsSchedule(y) => Form(G, a, J \ {c}, Led(y, s))
    BY ONLY <2>1, GuardForm
  <2> QED
    BY <1>h, <2>2 DEF G, a, J
<1>5. \A d \in Coros : home[d] # l => Frozen(d)
  <2>1. home[c] = l
    BY <1>4 DEF Gone
  <2> QED
    BY <1>h, <2>1 DEF Frozen, Still
<1>6. ASSUME NEW p \in Seq(Instr), prog' = [prog EXCEPT ![l] = p], Form(Gone(l), holds, I, p), NEW new,
             ToSet(p) = ToSet(s) \cup new, \A y \in new : y[1] \notin {"scope", "sem_guard"},
             \A y \in new : Proper(l, y)
      PROVE  Plain(l, {x}, new)
  <2>1. \A k \in Loops : Shape(k)'
    <3>1. Form(Gone(l)', holds', inside', p)
      BY <1>3, <1>6
    <3> QED
      BY <1>0, <1>5, <1>6, <3>1, ShapesKept
  <2>2. /\ prog' \in [Loops -> Seq(Instr)] /\ (\A k \in Loops : k # l => prog'[k] = prog[k])
        /\ prog'[l] = p
    BY <1>0, <1>6
  <2>3. \A y : y[1] # "scope" => (y \in ToSet(p) <=> (y \in ToSet(prog[l]) /\ y \notin {x}) \/ y \in new)
    BY <1>1, <1>6
  <2>4. Moves(l, {x}, new)
    BY <1>0, <2>1, <2>2, <2>3 DEF Moves
  <2>5. Flagged
    BY <1>0 DEF Flagged, Still, Base, FrameTypes, Wakes
  <2> QED
    BY <1>1, <1>6, <2>4, <2>5 DEF Plain, Still
<1>7. ASSUME Then(l, Rest(l)) PROVE Plain(l, {x}, {})
  <2>1. prog' = [prog EXCEPT ![l] = s]
    BY <1>7 DEF Then, Rest, s
  <2> QED
    BY <1>1, <1>4, <1>6, <2>1
<1>8. ASSUME NEW w \in Current, Then(l, <<<<"schedule", w>>>> \o Rest(l)), Proper(l, <<"schedule", w>>)
      PROVE  Plain(l, {x}, {<<"schedule", w>>})
  <2> DEFINE y == <<"schedule", w>>
             p == Led(y, s)
  <2>1. prog' = [prog EXCEPT ![l] = p]
    BY <1>8 DEF Then, Rest, s, Led
  <2>2. y \in Instr /\ IsSchedule(y) /\ y[1] = "schedule" /\ Proper(l, y)
    BY <1>8, IsInstr DEF IsSchedule, OnWaiter
  <2> HIDE DEF y
  <2>3. p \in Seq(Instr) /\ ToSet(p) = {y} \cup ToSet(s) /\ Form(Gone(l), holds, I, p)
    BY <1>1, <1>4, <2>2, Prefixed
  <2> HIDE DEF p
  <2>4. Plain(l, {x}, {y})
    BY <1>6, <2>1, <2>2, <2>3
  <2> QED
    BY <2>4 DEF y
<1> QED
  BY <1>1, <1>4, <1>7, <1>8 DEF c

\* A permit owed, or given back by a Guard.
LEMMA SemGiveStep ==
    ASSUME IInv, Unraced', NEW l \in Loops, OnSemaphore, UNCHANGED <<frames, ready, posts>>, sem_release(l, Rest(l)),
           \/ At(l, "sem_release") /\ UNCHANGED inside
           \/ At(l, "sem_guard") /\ inside' = inside \ {Arg(l)}
    PROVE  IInv'
<1>0. Base /\ SemInv /\ SemTypes /\ holds \in [Coros -> Nat] /\ posts \in Nat /\ IsFiniteSet(inside)
  BY SemOf DEF IInv, Base, LockInv, Owning, SemTypes
<1>1. Still /\ holds' = holds /\ posts' = posts
  BY DEF frames, Still, OnSemaphore, lockVars
<1>2. IsFiniteSet(Owed) /\ Cardinality(Owed) \in Nat /\ Cardinality(inside) \in Nat
  <2>1. IsFiniteSet(Owed)
    BY FS_Subset, WaitingAssumption DEF Owed
  <2> QED
    BY <1>0, <2>1, FS_CardinalityType
<1>x. PICK x : x = Head(prog[l])
  OBVIOUS
<1>3. CASE At(l, "sem_release") /\ UNCHANGED inside
  <2>1. \A d \in Coros : Frozen(d)
    BY <1>1, <1>3 DEF Frozen, Still
  <2>2. /\ Then(l, Rest(l)) => Plain(l, {x}, {})
        /\ \A w \in Current : Then(l, <<<<"schedule", w>>>> \o Rest(l)) /\ Proper(l, <<"schedule", w>>)
                                  => Plain(l, {x}, {<<"schedule", w>>})
    BY <1>0, <1>1, <1>3, <1>x, <2>1, PassGives
  <2>3. x = <<"sem_release">> /\ x \in ToSet(prog[l])
    <3>1. x \in Instr /\ x[1] = "sem_release" /\ x \in ToSet(prog[l])
      BY <1>0, <1>3, <1>x, HeadAt
    <3> QED
      BY <3>1, InstrOf
  <2>4. l \in Owed /\ x[1] = "sem_release"
    BY <2>3 DEF Owed
  <2>5. Cardinality(Owed \ {l}) = Cardinality(Owed) - 1
    BY <1>2, <2>4, OneFewer
  <2>6. Cardinality(inside) + Cardinality(Owed) + posts = Cardinality(inside) + Cardinality(Owed \ {l}) + posts + 1
    BY ONLY <1>0, <1>2, <2>5
  <2>7. (IF <<"sem_release">> \in {x} THEN Owed \ {l} ELSE Owed) = Owed \ {l}
    BY <2>3
  <2>8. Giving(l, {x})
    <3>1. inside' = inside
      BY <1>3
    <3> QED
      BY <1>0, <1>1, <2>4, <2>6, <2>7, <3>1 DEF Giving
  <2> QED
    BY <2>2, <2>8, GiveStep
<1>4. CASE At(l, "sem_guard") /\ inside' = inside \ {Arg(l)}
  <2>i. PICK I : I = inside \ {Arg(l)}
    OBVIOUS
  <2>1. inside' = I
    BY <1>4, <2>i
  <2>2. /\ Then(l, Rest(l)) => Plain(l, {x}, {})
        /\ \A w \in Current : Then(l, <<<<"schedule", w>>>> \o Rest(l)) /\ Proper(l, <<"schedule", w>>)
                                  => Plain(l, {x}, {<<"schedule", w>>})
        /\ Arg(l) \in inside
    BY <1>0, <1>1, <1>4, <1>x, <2>1, <2>i, GuardPlain
  <2>3. x[1] = "sem_guard"
    BY <1>0, <1>4, <1>x, HeadAt
  <2>4. <<"sem_release">>[1] = "sem_release"
    OBVIOUS
  <2>5. (IF <<"sem_release">> \in {x} THEN Owed \ {l} ELSE Owed) = Owed
    BY <2>3, <2>4
  <2>6. Cardinality(inside') = Cardinality(inside) - 1
    BY <1>0, <1>4, <2>2, OneFewer
  <2>7. Cardinality(inside) + Cardinality(Owed) + posts = Cardinality(inside') + Cardinality(Owed) + posts + 1
    BY ONLY <1>0, <1>2, <2>6
  <2>8. Giving(l, {x})
    <3>1. inside' \subseteq inside
      BY <1>4
    <3> QED
      BY <1>0, <1>1, <2>3, <2>5, <2>7, <3>1 DEF Giving
  <2> QED
    BY <2>2, <2>8, GiveStep
<1> QED
  BY <1>3, <1>4

\* A waiter that is dropped leaves the queue and owes the permit it was given.
LEMMA SemRemoved ==
    ASSUME IInv, Unraced', NEW l \in Loops, OnSemaphore, NEW c \in Coros, Has(c, "sem_remove"), home[c] = l,
           NEW x, x = <<"sem_remove", c>>, \A y \in ToSet(prog[l]) : y[1] # "sem_release",
           NEW new, Plain(l, {x}, new), new = IF c \in reserved THEN {<<"sem_release">>} ELSE {},
           semWaiters' = erase_waiter(semWaiters, c), reserved' = reserved \ {c},
           UNCHANGED <<permits, inside, posts>>
    PROVE  IInv'
<1> DEFINE r == <<"sem_release">>
<1>0. Base /\ SemInv
  BY DEF IInv, Base
<1>1. /\ \A d \in Coros : SemLocal(d)
      /\ List(semWaiters) /\ SemTypes /\ Conservation /\ NoIdlePermit
  BY <1>0, SemOf
<1>2. /\ List(semWaiters')
      /\ \A v : v \in ToSet(semWaiters') <=> v \in ToSet(semWaiters) /\ v[1] # c
      /\ \A d : Named(semWaiters', d) <=> Named(semWaiters, d) /\ d # c
  BY <1>1, ListErase
<1>3. r[1] = "sem_release" /\ x[1] = "sem_remove" /\ \A z \in new : z = r
  OBVIOUS
<1>n. (c \in reserved => r \in new) /\ (c \notin reserved => r \notin new)
  OBVIOUS
<1> HIDE DEF r
<1>s. st[c] \in {"run", "gone"}
  BY <1>0 DEF Base, Calling, Phase, OnCoro
<1>4. /\ Owed' = {k \in Loops : IF k = l THEN (l \in Owed /\ r \notin {x}) \/ r \in new ELSE k \in Owed}
      /\ Owed = {k \in Loops : r \in ToSet(prog[k])}
      /\ IsFiniteSet(Owed) /\ IsFiniteSet(Owed')
  BY <1>0, OwedAfter DEF Plain, r
<1>5. l \notin Owed
  BY <1>3, <1>4
<1>6. Owed' = IF c \in reserved THEN Owed \cup {l} ELSE Owed
  BY <1>4, <1>5, <1>n
<1>7. ASSUME NEW d \in Coros
      PROVE  /\ st'[d] = st[d] /\ (d \in cancelled => d \in cancelled')
             /\ (Roused(d)' <=> Roused(d))
             /\ (Has(d, "sem_remove")' <=> Has(d, "sem_remove") /\ d # c)
             /\ (Has(d, "sem_suspend")' <=> Has(d, "sem_suspend"))
  <2> DEFINE a == <<"sem_remove", d>>
             b == <<"sem_suspend", d>>
             e == <<"schedule", Now(d)>>
  <2>1. a[1] = "sem_remove" /\ b[1] = "sem_suspend" /\ e[1] = "schedule" /\ (a = x <=> d = c)
    OBVIOUS
  <2>2. Has(d, "sem_remove")' <=> (Has(d, "sem_remove") /\ a \notin {x}) \/ a \in new
    BY <1>0, PlainHas DEF OnCoro
  <2>3. Has(d, "sem_suspend")' <=> (Has(d, "sem_suspend") /\ b \notin {x}) \/ b \in new
    BY <1>0, PlainHas DEF OnCoro
  <2>4. Roused(d)' <=> Roused(d) \/ e \in new
    BY <1>0, PlainRoused
  <2>5. st'[d] = st[d] /\ (d \in cancelled => d \in cancelled')
    BY DEF Plain, Flagged
  <2> HIDE DEF a, b, e
  <2> QED
    BY <1>3, <2>1, <2>2, <2>3, <2>4, <2>5
<1>8. ASSUME NEW d \in Coros PROVE SemLocal(d)'
  <2>1. CASE d # c
    <3>1. SemApart(d)
      BY <1>2, <1>7, <2>1 DEF SemApart
    <3> QED
      BY <1>1, <3>1, SemLocalKept
  <2>2. CASE d = c
    <3>1. ~Named(semWaiters, d)' /\ d \notin reserved' /\ st'[d] # "acquire"
      BY <1>2, <1>7, <1>s, <2>2 DEF Named
    <3>2. Has(d, "sem_suspend")' => d \notin inside'
      BY <1>1, <1>7 DEF SemLocal
    <3> QED
      BY <3>1, <3>2 DEF SemLocal
  <2> QED
    BY <2>1, <2>2
<1>9. Cardinality(reserved') + Cardinality(Owed') = Cardinality(reserved) + Cardinality(Owed)
      /\ Cardinality(reserved') \in Nat /\ Cardinality(Owed') \in Nat /\ IsFiniteSet(reserved')
      /\ Cardinality(reserved) \in Nat /\ Cardinality(Owed) \in Nat
  <2>0. IsFiniteSet(reserved)
    BY <1>1 DEF SemTypes
  <2>1. CASE c \in reserved
    <3>1. /\ Cardinality(reserved') = Cardinality(reserved) - 1 /\ IsFiniteSet(reserved')
          /\ Cardinality(reserved') \in Nat /\ Cardinality(reserved) \in Nat
      BY <2>0, <2>1, OneFewer
    <3>2. /\ Cardinality(Owed') = Cardinality(Owed) + 1
          /\ Cardinality(Owed') \in Nat /\ Cardinality(Owed) \in Nat
      <4>1. Owed' = Owed \cup {l}
        BY <1>6, <2>1
      <4> QED
        BY <1>4, <1>5, <4>1, OneMore
    <3> QED
      BY <3>1, <3>2
  <2>2. CASE c \notin reserved
    <3>1. reserved' = reserved /\ Owed' = Owed
      BY <1>6, <2>2
    <3> QED
      BY <1>4, <2>0, <3>1, FS_CardinalityType
  <2> QED
    BY <2>1, <2>2
<1>10. Conservation'
  <2>1. permits + Cardinality(inside) + Cardinality(reserved) + Cardinality(Owed) = Permits + posts
    BY <1>1 DEF Conservation
  <2>2. permits \in Nat /\ posts \in Nat /\ Cardinality(inside) \in Nat /\ Permits \in Nat
    BY <1>1, FS_CardinalityType, SemaphoreAssumption DEF SemTypes
  <2>3. permits + Cardinality(inside) + Cardinality(reserved') + Cardinality(Owed') = Permits + posts
    BY ONLY <1>9, <2>1, <2>2
  <2> QED
    BY <2>3 DEF Conservation
<1>11. NoIdlePermit'
  <2>1. semWaiters = <<>> => semWaiters' = <<>>
    <3>1. semWaiters \in Seq(Current) /\ semWaiters' \in Seq(Current)
      BY <1>1, <1>2, ListMembers
    <3>2. semWaiters = <<>> => ToSet(semWaiters) = {}
      BY <3>1, ToSetProperties
    <3>3. ToSet(semWaiters') = {} => semWaiters' = <<>>
      BY <3>1, ToSetProperties
    <3>4. ToSet(semWaiters') \subseteq ToSet(semWaiters)
      BY <1>2
    <3> QED
      BY <3>2, <3>3, <3>4
  <2> QED
    BY <1>1, <2>1 DEF NoIdlePermit
<1>12. SemTypes'
  BY <1>1, <1>9 DEF SemTypes
<1>13. Others({x}, new, LockOps \cup EventOps \cup FutureOps, {"acquire"})
  <2>1. \A d \in Coros : <<"schedule", Now(d)>>[1] = "schedule"
    OBVIOUS
  <2> QED
    BY <1>3, <2>1 DEF Others, LockOps, EventOps, FutureOps
<1>14. ToSet(semWaiters') \subseteq ToSet(semWaiters)
  BY <1>2
<1> QED
  BY ONLY IInv, Unraced', l \in Loops, Plain(l, {x}, new), OnSemaphore, <1>2, <1>8, <1>10, <1>11, <1>12, <1>13, <1>14, PlainSem

\* A waiter that is destroyed leaves the list or passes its permit on.
LEMMA SemRemoveStep ==
    ASSUME IInv, Unraced', NEW l \in Loops, OnSemaphore, At(l, "sem_remove"), remove_waiter(l, Arg(l), Rest(l)),
           UNCHANGED <<inside, frames, ready, posts>>
    PROVE  IInv'
<1> DEFINE r == <<"sem_release">>
<1>0. Base /\ holds \in [Coros -> Nat]
  BY DEF IInv, Base, LockInv, Owning
<1>1. Still /\ holds' = holds /\ (\A d \in Coros : Frozen(d)) /\ "sem_remove" \in Ordinary
  BY DEF frames, Still, OnSemaphore, lockVars, Frozen, Ordinary
<1>c. PICK c : c = Arg(l)
  OBVIOUS
<1>2. Head(prog[l]) = <<"sem_remove", c>> /\ c \in Coros /\ home[c] = l /\ Has(c, "sem_remove")
      /\ Head(prog[l])[1] = "sem_remove"
  BY <1>0, <1>c, HeadAt DEF OnCoro
<1>3. \A y \in ToSet(prog[l]) : y[1] # "sem_release"
  BY <1>0, AtFacts
<1>4. CASE c \in reserved
  <2>1. r \in Instr /\ r[1] = "sem_release"
    BY IsInstr
  <2>2. Then(l, <<r>> \o Rest(l))
    BY <1>4, <1>c DEF remove_waiter
  <2>n. {r} = IF c \in reserved THEN {<<"sem_release">>} ELSE {}
    BY <1>4
  <2>f. Follows(Head(prog[l]), r)
    BY <1>2 DEF Follows
  <2>p. Proper(l, r)
    <3>1. \A d \in Coros : r # <<"schedule", Now(d)>>
      OBVIOUS
    <3> HIDE DEF r
    <3> QED
      BY <2>1, <3>1 DEF Proper, OnCoro, OnWaiter
  <2> HIDE DEF r
  <2>3. Plain(l, {Head(prog[l])}, {r})
    BY <1>0, <1>1, <2>1, <2>2, <2>f, <2>p, NextPlain
  <2>4. /\ semWaiters' = erase_waiter(semWaiters, c) /\ reserved' = reserved \ {c}
        /\ UNCHANGED <<permits, inside, posts>>
    BY <1>c DEF remove_waiter
  <2> QED
    BY <1>2, <1>3, <2>3, <2>4, <2>n, SemRemoved
<1>5. CASE c \notin reserved
  <2> DEFINE none == {}
  <2>1. Then(l, Rest(l))
    BY <1>5, <1>c DEF remove_waiter
  <2>2. Plain(l, {Head(prog[l])}, none)
    BY <1>0, <1>1, <2>1, PopPlain
  <2>3. none = IF c \in reserved THEN {<<"sem_release">>} ELSE {}
    BY <1>5
  <2>4. /\ semWaiters' = erase_waiter(semWaiters, c) /\ reserved' = reserved \ {c}
        /\ UNCHANGED <<permits, inside, posts>>
    BY <1>c DEF remove_waiter
  <2> HIDE DEF none
  <2> QED
    BY <1>2, <1>3, <2>2, <2>3, <2>4, SemRemoved
<1> QED
  BY <1>4, <1>5

\* The same, as a step of its loop.
LEMMA SemPassOnStep ==
    ASSUME IInv, Unraced', NEW l \in Loops, SemPassOn(l), OnSemaphore
    PROVE  IInv'
<1>1. CASE At(l, "sem_remove") /\ remove_waiter(l, Arg(l), Rest(l)) /\ UNCHANGED inside
  BY <1>1, SemRemoveStep DEF SemPassOn
<1>2. CASE \/ At(l, "sem_release") /\ sem_release(l, Rest(l)) /\ UNCHANGED inside
           \/ At(l, "sem_guard") /\ sem_release(l, Rest(l)) /\ inside' = inside \ {Arg(l)}
  BY <1>2, SemGiveStep DEF SemPassOn
<1> QED
  BY <1>1, <1>2 DEF SemPassOn

\* A permit is taken.
LEMMA TakeStep ==
    ASSUME IInv, Unraced', NEW l \in Loops, NEW c \in Coros, NEW old, Plain(l, old, {}), OnSemaphore, Take(c),
           c \notin inside, st[c] = "run", \A y \in old : y = <<"sem_suspend", c>>,
           Has(c, "sem_suspend") => <<"sem_suspend", c>> \in old,
           UNCHANGED <<semWaiters, reserved, posts>>
    PROVE  IInv'
<1> DEFINE none == {}
           r == <<"sem_release">>
<1>0. Base /\ SemInv
  BY DEF IInv, Base
<1>1. /\ \A d \in Coros : SemLocal(d)
      /\ List(semWaiters) /\ SemTypes /\ Conservation /\ NoIdlePermit
  BY <1>0, SemOf
<1>2. permits > 0 /\ permits' = permits - 1 /\ inside' = inside \cup {c}
  BY DEF Take
<1>p. Plain(l, old, none) /\ \A y : y \notin none
  OBVIOUS
<1>r. r[1] = "sem_release"
  OBVIOUS
<1>o. \A y \in old : y[1] = "sem_suspend"
  OBVIOUS
<1> HIDE DEF none
<1>3. /\ Owed' = {k \in Loops : IF k = l THEN (l \in Owed /\ r \notin old) \/ r \in none ELSE k \in Owed}
      /\ Owed = {k \in Loops : r \in ToSet(prog[k])}
      /\ IsFiniteSet(Owed) /\ IsFiniteSet(Owed')
  BY <1>0, <1>p, OwedAfter DEF Plain
<1>4. Owed' = Owed
  <2> HIDE DEF r
  <2> QED
    BY <1>3, <1>o, <1>p, <1>r
<1>5. ASSUME NEW d \in Coros
      PROVE  /\ st'[d] = st[d] /\ (d \in cancelled => d \in cancelled')
             /\ (Roused(d)' <=> Roused(d))
             /\ (Has(d, "sem_remove")' <=> Has(d, "sem_remove"))
             /\ (Has(d, "sem_suspend")' => Has(d, "sem_suspend") /\ d # c)
  <2> DEFINE a == <<"sem_remove", d>>
             b == <<"sem_suspend", d>>
             e == <<"schedule", Now(d)>>
  <2>1. a[1] = "sem_remove" /\ (d = c => b = <<"sem_suspend", c>>)
    OBVIOUS
  <2>2. Has(d, "sem_remove")' <=> (Has(d, "sem_remove") /\ a \notin old) \/ a \in none
    BY <1>0, <1>p, PlainHas DEF OnCoro
  <2>3. Has(d, "sem_suspend")' <=> (Has(d, "sem_suspend") /\ b \notin old) \/ b \in none
    BY <1>0, <1>p, PlainHas DEF OnCoro
  <2>4. Roused(d)' <=> Roused(d) \/ e \in none
    BY <1>0, <1>p, PlainRoused
  <2>5. st'[d] = st[d] /\ (d \in cancelled => d \in cancelled')
    BY DEF Plain, Flagged
  <2> HIDE DEF a, b, e
  <2> QED
    BY <1>o, <1>p, <2>1, <2>2, <2>3, <2>4, <2>5
<1>6. ASSUME NEW d \in Coros PROVE SemLocal(d)'
  <2>n. Named(semWaiters, d)' <=> Named(semWaiters, d)
    BY DEF Named
  <2>1. CASE d # c
    <3>1. SemApart(d)
      BY <1>2, <1>5, <2>1 DEF SemApart
    <3> QED
      BY <1>1, <3>1, SemLocalKept
  <2>2. CASE d = c
    <3>1. st'[d] = "run" /\ ~Has(d, "sem_suspend")' /\ (Has(d, "sem_remove")' <=> Has(d, "sem_remove")) /\ SemLocal(d)
      BY <1>1, <1>5, <2>2
    <3> QED
      BY <2>2, <2>n, <3>1 DEF SemLocal
  <2> QED
    BY <2>1, <2>2
<1>7. Cardinality(inside') = Cardinality(inside) + 1 /\ IsFiniteSet(inside') /\ Cardinality(inside) \in Nat
  BY <1>1, <1>2, OneMore DEF SemTypes
<1>8. Conservation'
  <2>1. permits + Cardinality(inside) + Cardinality(reserved) + Cardinality(Owed) = Permits + posts
    BY <1>1 DEF Conservation
  <2>2. permits \in Nat /\ posts \in Nat /\ Cardinality(reserved) \in Nat /\ Permits \in Nat
        /\ Cardinality(Owed) \in Nat
    BY <1>1, <1>3, FS_CardinalityType, SemaphoreAssumption DEF SemTypes
  <2>3. permits' + Cardinality(inside') + Cardinality(reserved) + Cardinality(Owed) = Permits + posts
    BY ONLY <1>2, <1>7, <2>1, <2>2
  <2> QED
    BY <1>4, <2>3 DEF Conservation
<1>9. SemTypes'
  BY <1>1, <1>2, <1>7 DEF SemTypes
<1>10. NoIdlePermit'
  BY <1>1, <1>2 DEF NoIdlePermit
<1>11. Others(old, none, LockOps \cup EventOps \cup FutureOps, {"acquire"})
  BY <1>o, <1>p DEF Others, LockOps, EventOps, FutureOps
<1> QED
  BY <1>1, <1>6, <1>8, <1>9, <1>10, <1>11, <1>p, PlainSem

\* acquire(): a permit is free, or the caller goes on.
LEMMA SemAcquireStep ==
    ASSUME IInv, Unraced', NEW c \in Coros, SemAcquire(c), OnSemaphore
    PROVE  IInv'
<1> DEFINE l == home[c]
           none == {}
<1>0. Base /\ SemInv /\ Calls(c) /\ c \notin inside
  BY DEF IInv, Base, SemAcquire
<1>1. l \in Loops /\ l \in Active /\ Idle(l) /\ st[c] = "run" /\ (\A op : ~Has(c, op))
  BY <1>0, IdleFacts
<1>2. Still /\ holds' = holds
  BY DEF SemAcquire, frames, Still, OnSemaphore, lockVars
<1>3. CASE Take(c) /\ UNCHANGED prog
  <2>1. \A d \in Coros : Frozen(d)
    BY <1>1, <1>2, <1>3 DEF Frozen, Still, Take
  <2>2. Plain(l, {}, {})
    BY <1>0, <1>1, <1>2, <1>3, <2>1, SamePlain
  <2>3. Plain(l, none, {}) /\ (\A y \in none : y = <<"sem_suspend", c>>)
    BY <2>2
  <2>4. UNCHANGED <<semWaiters, reserved, posts>>
    BY DEF SemAcquire
  <2> HIDE DEF none, l
  <2> QED
    BY <1>0, <1>1, <1>3, <2>3, <2>4, TakeStep
<1>4. CASE Then(l, <<<<"sem_suspend", c>>>>) /\ UNCHANGED <<permits, inside>>
  <2> DEFINE y == <<"sem_suspend", c>>
             new == {y}
  <2>1. \A d \in Coros : Frozen(d)
    BY <1>2, <1>4 DEF Frozen, Still
  <2>2. y \in Instr /\ y[1] = "sem_suspend" /\ y[2] = c
    BY IsInstr DEF OnCoro
  <2>s. \A d \in Coros : y # <<"schedule", Now(d)>>
    OBVIOUS
  <2>t. \A d \in Coros, op \in OnCoro : <<op, d>> \in new => op = "sem_suspend" /\ d = c
    OBVIOUS
  <2>r. <<"sem_release">> \notin new
    OBVIOUS
  <2>y. Then(l, <<y>>)
    BY <1>4
  <2> HIDE DEF y
  <2>3. Proper(l, y)
    BY <1>1, <2>2, <2>s DEF Proper, OnCoro, OnWaiter, Phase
  <2>4. Plain(l, none, new)
    <3>1. y[1] \notin {"push", "erase_cond", "sem_guard", "scope"}
      BY <2>2
    <3> HIDE DEF l
    <3>2. Plain(l, {}, {y})
      BY <1>0, <1>1, <1>2, <2>1, <2>2, <2>3, <2>y, <3>1, CallPlain
    <3> QED
      BY <3>2
  <2>5. /\ \A d \in Coros : SemLocal(d)
        /\ List(semWaiters) /\ SemTypes /\ Conservation /\ NoIdlePermit
    BY <1>0, SemOf
  <2>6. UNCHANGED semVars
    BY <1>4 DEF SemAcquire, semVars
  <2>n. \A z : z \notin none
    OBVIOUS
  <2>m. \A z \in new : z = y
    OBVIOUS
  <2> HIDE DEF none, new
  <2>7. Owed' = Owed
    <3>1. /\ Owed' = {k \in Loops : IF k = l THEN (l \in Owed /\ <<"sem_release">> \notin none) \/ <<"sem_release">> \in new
                                    ELSE k \in Owed}
          /\ Owed = {k \in Loops : <<"sem_release">> \in ToSet(prog[k])}
      BY <1>0, <1>1, <2>4, OwedAfter DEF Plain
    <3> QED
      BY <2>n, <2>r, <3>1
  <2>8. ASSUME NEW d \in Coros PROVE SemLocal(d)'
    <3>1. /\ Has(d, "sem_remove")' <=> (Has(d, "sem_remove") /\ <<"sem_remove", d>> \notin none) \/ <<"sem_remove", d>> \in new
          /\ Has(d, "sem_suspend")' <=> (Has(d, "sem_suspend") /\ <<"sem_suspend", d>> \notin none) \/ <<"sem_suspend", d>> \in new
      BY <1>0, <1>1, <2>4, PlainHas DEF OnCoro
    <3>2. (Has(d, "sem_remove")' <=> Has(d, "sem_remove")) /\ (Has(d, "sem_suspend")' => Has(d, "sem_suspend") \/ d = c)
      BY <2>n, <2>t, <3>1 DEF OnCoro
    <3>3. Roused(d)' <=> Roused(d) \/ <<"schedule", Now(d)>> \in new
      BY <1>0, <1>1, <2>4, PlainRoused
    <3>4. (Roused(d)' <=> Roused(d)) /\ st'[d] = st[d] /\ cancelled' = cancelled
      BY <1>2, <2>m, <2>s, <3>3 DEF Still
    <3>5. Named(semWaiters, d)' <=> Named(semWaiters, d)
      BY <2>6 DEF Named, semVars
    <3>6. reserved' = reserved /\ inside' = inside /\ SemLocal(d)
      BY <2>5, <2>6 DEF semVars
    <3> QED
      BY <1>0, <3>2, <3>4, <3>5, <3>6 DEF SemLocal
  <2>9. SemTypes' /\ Conservation' /\ NoIdlePermit'
    <3>1. SemTypes'
      BY <2>5, <2>6 DEF SemTypes, semVars
    <3>2. Conservation'
      BY <2>5, <2>6, <2>7 DEF Conservation, semVars
    <3> QED
      BY <2>5, <2>6, <3>1, <3>2 DEF NoIdlePermit, semVars
  <2>10. Others(none, new, LockOps \cup EventOps \cup FutureOps, {"acquire"})
    BY <2>2, <2>m, <2>n, <2>s DEF Others, LockOps, EventOps, FutureOps
  <2>11. semWaiters' = semWaiters
    BY <2>6 DEF semVars
  <2> HIDE DEF l
  <2> QED
    BY <1>1, <2>4, <2>5, <2>8, <2>9, <2>10, <2>11, PlainSem
<1> QED
  BY <1>3, <1>4 DEF SemAcquire

-----------------------------------------------------------------------------
(* The coroutine's turn, as the other primitives see it.                   *)

\* The other coroutines.
Apart(d) ==
    /\ st'[d] = st[d] /\ Now(d)' = Now(d) /\ (Roused(d)' <=> Roused(d)) /\ (d \in cancelled' <=> d \in cancelled)
    /\ \A op \in OnCoro : Has(d, op)' <=> Has(d, op)

\* A coroutine's turn leaves the others as they are.
LEMMA TurnApart ==
    ASSUME Base, NEW c \in Coros, NEW new, Turn(c, new)
    PROVE  /\ \A d \in Coros : d # c => Apart(d)
           /\ (\A op \in OnCoro : Has(c, op)' <=> <<op, c>> \in new)
           /\ (Roused(c)' <=> <<"future_schedule", c>> \in new) /\ home' = home /\ Growing
<1>1. \A d \in Coros, op \in OnCoro : Has(d, op)' <=> IF d = c THEN <<op, c>> \in new ELSE Has(d, op)
  BY TurnHas
<1>2. /\ \A d \in Coros \ {c} : Now(d)' = Now(d) /\ (Roused(d)' <=> Roused(d))
      /\ Roused(c)' <=> <<"future_schedule", c>> \in new
  BY TurnRoused
<1>3. \A d \in Coros : d # c => st'[d] = st[d] /\ (d \in cancelled' <=> d \in cancelled)
  BY DEF Turn
<1>4. \A d \in Coros : d # c => Apart(d)
  BY <1>1, <1>2, <1>3 DEF Apart
<1>5. home' = home
  BY DEF Turn, Moves
<1>6. Growing
  <2>1. /\ waits' \in [Coros -> Nat] /\ epoch' \in [Coros -> Nat] /\ waits[c] <= waits'[c]
        /\ epoch'[c] = epoch[c] \/ epoch'[c] = 0 \/ epoch'[c] > waits[c]
        /\ \A d \in Coros : d # c => epoch'[d] = epoch[d] /\ waits'[d] = waits[d]
    BY DEF Turn
  <2>2. \A d \in Coros : waits[d] \in Nat
    BY DEF Base, FrameTypes
  <2> QED
    BY <1>5, <2>1, <2>2 DEF Growing
<1> QED
  BY <1>1, <1>2, <1>4, <1>5, <1>6

\* A turn at the semaphore: the whole invariant from its part.
LEMMA SemTurn ==
    ASSUME IInv, Unraced', NEW c \in Coros, NEW new, Turn(c, new), OnSemaphore, SemInv',
           \A y \in ToSet(prog[home[c]]) \cup new : y[1] \notin LockOps \cup EventOps \cup FutureOps,
           st[c] \notin {"lock", "cond", "wait", "await"}, st'[c] \notin {"lock", "cond", "wait", "await"}
    PROVE  IInv'
<1>0. Base /\ LockInv /\ EventInv /\ FutureInv
  BY DEF IInv, Base
<1>1. UNCHANGED <<lockVars, eventVars, futVars>>
  BY DEF OnSemaphore
<1>2. "scope" \notin LockOps /\ "scope" \notin EventOps /\ "scope" \notin FutureOps
  BY DEF LockOps, EventOps, FutureOps
<1>3. /\ TurnSpares(c, new, LockOps, {"lock", "cond"}) /\ TurnSpares(c, new, EventOps, {"wait"})
      /\ TurnSpares(c, new, FutureOps, {"await"})
  BY <1>2 DEF TurnSpares
<1>4. Base' /\ LockInv' /\ EventInv' /\ FutureInv'
  BY <1>0, <1>1, <1>3, TurnOthers
<1> QED
  BY <1>4 DEF IInv, Base

\* A turn at the event: the whole invariant from its part.
LEMMA EventTurn ==
    ASSUME IInv, Unraced', NEW c \in Coros, NEW new, Turn(c, new), OnEvent, EventInv',
           \A y \in ToSet(prog[home[c]]) \cup new : y[1] \notin LockOps \cup SemOps \cup FutureOps,
           st[c] \notin {"lock", "cond", "acquire", "await"}, st'[c] \notin {"lock", "cond", "acquire", "await"}
    PROVE  IInv'
<1>0. Base /\ LockInv /\ SemInv /\ FutureInv
  BY DEF IInv, Base
<1>1. UNCHANGED <<lockVars, semVars, futVars>>
  BY DEF OnEvent
<1>2. "scope" \notin LockOps /\ "scope" \notin SemOps /\ "scope" \notin FutureOps
  BY DEF LockOps, SemOps, FutureOps
<1>3. /\ TurnSpares(c, new, LockOps, {"lock", "cond"}) /\ TurnSpares(c, new, SemOps, {"acquire"})
      /\ TurnSpares(c, new, FutureOps, {"await"})
  BY <1>2 DEF TurnSpares
<1>4. Base' /\ LockInv' /\ SemInv' /\ FutureInv'
  BY <1>0, <1>1, <1>3, TurnOthers
<1> QED
  BY <1>4 DEF IInv, Base

\* A turn at a future: the whole invariant from its part.
LEMMA FutureTurn ==
    ASSUME IInv, Unraced', NEW c \in Coros, NEW new, Turn(c, new), OnFuture, FutureInv',
           \A y \in ToSet(prog[home[c]]) \cup new : y[1] \notin LockOps \cup SemOps \cup EventOps,
           st[c] \notin {"lock", "cond", "acquire", "wait"}, st'[c] \notin {"lock", "cond", "acquire", "wait"}
    PROVE  IInv'
<1>0. Base /\ LockInv /\ SemInv /\ EventInv
  BY DEF IInv, Base
<1>1. UNCHANGED <<lockVars, semVars, eventVars>>
  BY DEF OnFuture
<1>2. "scope" \notin LockOps /\ "scope" \notin SemOps /\ "scope" \notin EventOps
  BY DEF LockOps, SemOps, EventOps
<1>3. /\ TurnSpares(c, new, LockOps, {"lock", "cond"}) /\ TurnSpares(c, new, SemOps, {"acquire"})
      /\ TurnSpares(c, new, EventOps, {"wait"})
  BY <1>2 DEF TurnSpares
<1>4. Base' /\ LockInv' /\ SemInv' /\ EventInv'
  BY <1>0, <1>1, <1>3, TurnOthers
<1> QED
  BY <1>4 DEF IInv, Base

\* The invariant of the semaphore, coroutine by coroutine.
LEMMA SemFrom ==
    ASSUME SemTypes', Conservation', NoIdlePermit', List(semWaiters)', Recent(semWaiters, {"acquire"})',
           \A d \in Coros : SemLocal(d)'
    PROVE  SemInv'
<1>1. \A w \in ToSet(semWaiters') : w[1] \in Coros
  BY DEF List, Current, ToSet
<1>5. ASSUME NEW w \in ToSet(semWaiters')
      PROVE  /\ w[1] \notin reserved'
             /\ (st'[w[1]] = "acquire" /\ w = Now(w[1])') \/ Has(w[1], "sem_remove")'
  <2>1. w[1] \in Coros /\ Named(semWaiters, w[1])'
    BY <1>1 DEF Named
  <2>2. w[1] \notin reserved' /\ (st'[w[1]] = "acquire" \/ Has(w[1], "sem_remove")')
    BY <2>1 DEF SemLocal
  <2>3. st'[w[1]] = "acquire" => w = Now(w[1])'
    BY DEF Recent
  <2> QED
    BY <2>2, <2>3
<1>6. \A c \in reserved' : st'[c] = "acquire" \/ Has(c, "sem_remove")'
  BY DEF SemLocal, SemTypes
<1>7. \A c \in Coros : /\ st'[c] = "acquire" =>
                              /\ c \notin inside'
                              /\ Named(semWaiters, c)' \/ c \in reserved'
                              /\ Named(semWaiters, c)' /\ Roused(c)' => c \in cancelled'
                       /\ Has(c, "sem_suspend")' => c \notin inside'
  BY DEF SemLocal
<1> QED
  BY <1>5, <1>6, <1>7 DEF SemInv, SemTypes

\* An instruction that is a call of its own.
LEMMA LoneCall ==
    ASSUME Base, holds \in [Coros -> Nat], NEW l \in Loops, NEW op, op \in Alone, op \in OnCoro, At(l, op)
    PROVE  /\ Rest(l) = <<>> /\ Arg(l) \in Coros /\ home[Arg(l)] = l /\ Has(Arg(l), op) /\ l \in Active
           /\ st[Arg(l)] \in Phase(op) /\ prog[l] # <<>>
           /\ \A y : y \in ToSet(prog[l]) <=> y = <<op, Arg(l)>>
           /\ \A y \in ToSet(prog[l]) : y[1] \in OnCoro /\ y[2] = Arg(l)
<1> DEFINE x == Head(prog[l])
           s == Tail(prog[l])
           c == Arg(l)
<1>1. /\ x \in Instr /\ x[1] = op /\ ToSet(prog[l]) = ToSet(s) \cup {x} /\ Fits(Gone(l), holds, inside, x, s)
      /\ x = <<op, c>> /\ c \in Coros /\ home[c] = l /\ Has(c, op) /\ st[c] \in Phase(op) /\ prog[l] # <<>>
      /\ l \in Active
  BY HeadAt
<1>2. Gone(l) \in SUBSET Coros
  BY DEF Gone
<1>3. s = <<>>
  <2> HIDE DEF x, s
  <2> QED
    BY <1>1, <1>2, AloneForm
<1>4. ToSet(prog[l]) = {x}
  BY <1>1, <1>3, NoWaiters
<1> HIDE DEF x, c
<1>5. \A y : y \in ToSet(prog[l]) <=> y = x
  BY <1>4
<1>6. x[1] = op /\ x[2] = c
  BY <1>1
<1> QED
  BY <1>1, <1>3, <1>5, <1>6 DEF Rest, c

\* A call that consists of one instruction is replaced by another.
LEMMA LoneMoves ==
    ASSUME Base, holds \in [Coros -> Nat], NEW l \in Loops, home' = home, NEW p \in Seq(Instr), Then(l, p),
           Form(Gone(l)', holds', inside', p), \A c \in Coros : home[c] # l => Frozen(c)
    PROVE  Moves(l, ToSet(prog[l]), ToSet(p))
<1>1. FrameTypes /\ (\A k \in Loops : Shape(k)) /\ prog' = [prog EXCEPT ![l] = p]
  BY DEF Base, Calling, Then
<1> QED
  BY <1>1, SetMoves

\* There may be no call.
LEMMA NoForm ==
    ASSUME NEW G, NEW h, NEW I
    PROVE  Form(G, h, I, <<>>)
  BY DEF Form

\* acquire() queues its caller.
LEMMA SemWaitStep ==
    ASSUME IInv, Unraced', NEW l \in Loops, At(l, "sem_suspend"), Then(l, Rest(l)), OnSemaphore, NEW c, c = Arg(l),
           permits = 0, begin_wait(c), st' = [st EXCEPT ![c] = "acquire"],
           semWaiters' = Append(semWaiters, <<c, waits[c] + 1>>),
           UNCHANGED <<permits, inside, home, cancelled, abandoned, ready, reserved, posts>>
    PROVE  IInv'
<1> DEFINE none == {}
           r == <<"sem_release">>
<1>0. Base /\ SemInv /\ FrameTypes /\ holds \in [Coros -> Nat] /\ holds' = holds
  BY DEF IInv, Base, LockInv, Owning, OnSemaphore, lockVars
<1>1. /\ \A d \in Coros : SemLocal(d)
      /\ List(semWaiters) /\ Recent(semWaiters, {"acquire"}) /\ SemTypes /\ Conservation /\ NoIdlePermit
  BY <1>0, SemOf
<1>2. /\ Rest(l) = <<>> /\ c \in Coros /\ home[c] = l /\ Has(c, "sem_suspend") /\ st[c] = "run"
      /\ (\A y : y \in ToSet(prog[l]) <=> y = <<"sem_suspend", c>>)
      /\ \A y \in ToSet(prog[l]) : y[1] \in OnCoro /\ y[2] = c
  <2>1. "sem_suspend" \in Alone /\ "sem_suspend" \in OnCoro /\ Phase("sem_suspend") = {"run"}
    BY DEF Alone, OnCoro, Phase
  <2> QED
    BY <1>0, <2>1, LoneCall
<1>3. Moves(l, ToSet(prog[l]), none)
  <2>1. \A d \in Coros : home[d] # l => Frozen(d)
    BY <1>0, <1>2 DEF Frozen, FrameTypes
  <2>2. Form(Gone(l)', holds', inside', <<>>) /\ <<>> \in Seq(Instr) /\ ToSet(<<>>) = {} /\ Then(l, <<>>)
    BY <1>2, NoForm, NoWaiters
  <2>3. Moves(l, ToSet(prog[l]), ToSet(<<>>))
    BY <1>0, <2>1, <2>2, LoneMoves
  <2> QED
    BY <2>2, <2>3
<1>n. \A y : y \notin none
  OBVIOUS
<1>r. r[1] = "sem_release"
  OBVIOUS
<1> HIDE DEF none
<1>4. /\ Turn(c, none) /\ Growing
      /\ waits'[c] = waits[c] + 1 /\ epoch'[c] = waits[c] + 1 /\ st'[c] = "acquire"
  <2>1. ~Queued(c)
    BY <1>0, <1>2 DEF Base, Wakes, Roused, Suspended
  <2>2. Begun(c, "acquire", none)
    BY <1>2, <1>3, <1>n, <2>1 DEF Begun
  <2> QED
    BY <1>0, <1>2, <2>2, BeginTurn
<1>5. /\ \A d \in Coros : d # c => Apart(d)
      /\ (\A op \in OnCoro : Has(c, op)' <=> <<op, c>> \in none) /\ ~Roused(c)'
  BY <1>0, <1>2, <1>4, <1>n, TurnApart
<1>6. ~Named(semWaiters, c) /\ c \notin reserved /\ c \notin inside
  <2>1. ~Has(c, "sem_remove")
    <3>1. <<"sem_remove", c>> # <<"sem_suspend", c>>
      OBVIOUS
    <3> QED
      BY <1>2, <3>1 DEF Has
  <2> QED
    BY <1>1, <1>2, <2>1 DEF SemLocal
<1>7. /\ semWaiters' \in Seq(Current) /\ Distinct(semWaiters')
      /\ \A v, w \in ToSet(semWaiters') : v[1] = w[1] => v = w
      /\ \A w \in ToSet(semWaiters') : w[2] <= waits'[w[1]]
      /\ \A v : v \in ToSet(semWaiters') <=> v \in ToSet(semWaiters) \/ v = <<c, waits[c] + 1>>
      /\ \A d : Named(semWaiters', d) <=> Named(semWaiters, d) \/ d = c
  <2>1. Joins(c, semWaiters, semWaiters')
    BY <1>1, <1>4, <1>6 DEF Joins
  <2>2. FrameTypes /\ Growing /\ c \in Coros
    BY <1>0, <1>2, <1>4
  <2>s. PICK s : s = semWaiters'
    OBVIOUS
  <2>3. Joins(c, semWaiters, s)
    BY <2>1, <2>s
  <2>4. /\ s \in Seq(Current) /\ Distinct(s)
        /\ \A v, w \in ToSet(s) : v[1] = w[1] => v = w
        /\ \A w \in ToSet(s) : w[2] <= waits'[w[1]]
        /\ \A v : v \in ToSet(s) <=> v \in ToSet(semWaiters) \/ v = <<c, waits[c] + 1>>
        /\ \A d : Named(s, d) <=> Named(semWaiters, d) \/ d = c
    BY ONLY <2>2, <2>3, JoinList
  <2> QED
    BY <2>4, <2>s
<1>8. List(semWaiters)'
  BY <1>7 DEF List
<1>9. Recent(semWaiters, {"acquire"})'
  <2>1. ASSUME NEW w \in ToSet(semWaiters'), st'[w[1]] = "acquire" PROVE w = Now(w[1])'
    <3>1. CASE w = <<c, waits[c] + 1>>
      BY <1>4, <3>1 DEF Now
    <3>2. CASE w \in ToSet(semWaiters)
      <4>1. w[1] \in Coros /\ w[1] # c
        BY <1>1, <1>6, <3>2, ListMembers DEF Named
      <4>2. Apart(w[1])
        BY <1>5, <4>1
      <4> QED
        BY <1>1, <2>1, <3>2, <4>2 DEF Recent, Apart
    <3> QED
      BY <1>7, <3>1, <3>2
  <2> QED
    BY <2>1 DEF Recent
<1>10. ASSUME NEW d \in Coros PROVE SemLocal(d)'
  <2>n. Named(semWaiters, d)' <=> Named(semWaiters', d)
    BY DEF Named
  <2>o. "sem_remove" \in OnCoro /\ "sem_suspend" \in OnCoro
    BY DEF OnCoro
  <2>1. CASE d # c
    <3>1. SemApart(d)
      BY <1>5, <1>7, <2>1, <2>o DEF SemApart, Apart
    <3> QED
      BY <1>1, <3>1, SemLocalKept
  <2>2. CASE d = c
    <3>1. Named(semWaiters, d)' /\ d \notin reserved' /\ d \notin inside' /\ st'[d] = "acquire" /\ ~Roused(d)'
      BY <1>4, <1>5, <1>6, <1>7, <2>2, <2>n
    <3> QED
      BY <3>1 DEF SemLocal
  <2> QED
    BY <2>1, <2>2
<1>11. Owed' = Owed
  <2>1. /\ Owed' = {k \in Loops : IF k = l THEN (l \in Owed /\ r \notin ToSet(prog[l])) \/ r \in none ELSE k \in Owed}
        /\ Owed = {k \in Loops : r \in ToSet(prog[k])}
    BY <1>0, <1>3, OwedAfter
  <2>2. r \notin ToSet(prog[l])
    <3>1. r # <<"sem_suspend", c>>
      OBVIOUS
    <3> QED
      BY <1>2, <3>1
  <2> HIDE DEF r
  <2> QED
    BY <1>n, <2>1, <2>2
<1>12. SemTypes' /\ Conservation' /\ NoIdlePermit'
  <2>1. SemTypes'
    BY <1>1 DEF SemTypes
  <2>2. Conservation'
    BY <1>1, <1>11 DEF Conservation
  <2> QED
    BY <2>1, <2>2 DEF NoIdlePermit
<1>13. SemInv'
  BY <1>8, <1>9, <1>10, <1>12, SemFrom
<1>14. \A y \in ToSet(prog[home[c]]) \cup none : y[1] \notin LockOps \cup EventOps \cup FutureOps
  <2>1. <<"sem_suspend", c>>[1] = "sem_suspend"
    OBVIOUS
  <2> QED
    BY <1>2, <1>n, <2>1 DEF LockOps, EventOps, FutureOps
<1> QED
  BY <1>2, <1>4, <1>13, <1>14, SemTurn

\* acquire() suspends, unless a permit has come meanwhile.
LEMMA SemSuspendStep ==
    ASSUME IInv, Unraced', NEW l \in Loops, SemSuspend(l), OnSemaphore
    PROVE  IInv'
<1>0. Base /\ holds \in [Coros -> Nat] /\ holds' = holds /\ \A d \in Coros : SemLocal(d)
  BY SemOf DEF IInv, Base, LockInv, Owning, OnSemaphore, lockVars
<1>1. At(l, "sem_suspend") /\ Then(l, Rest(l)) /\ UNCHANGED <<home, cancelled, abandoned, ready, reserved, posts>>
  BY DEF SemSuspend
<1>c. PICK c : c = Arg(l)
  OBVIOUS
<1>2. CASE Take(c) /\ UNCHANGED <<st, epoch, waits, semWaiters>>
  <2>1. Head(prog[l]) = <<"sem_suspend", c>> /\ c \in Coros /\ Has(c, "sem_suspend") /\ st[c] \in Phase("sem_suspend")
    BY <1>0, <1>1, <1>c, HeadAt DEF OnCoro
  <2>2. st[c] = "run" /\ c \notin inside
    BY <1>0, <2>1 DEF Phase, SemLocal
  <2>3. Still
    BY <1>1, <1>2 DEF Still
  <2>4. (\A d \in Coros : Frozen(d)) /\ "sem_suspend" \in Ordinary
    BY <1>0, <1>2, <2>2, <2>3 DEF Frozen, Still, Take, Ordinary
  <2>x. PICK x : x = Head(prog[l])
    OBVIOUS
  <2>5. Plain(l, {x}, {})
    BY <1>0, <1>1, <2>3, <2>4, <2>x, PopPlain
  <2>6. (\A y \in {x} : y = <<"sem_suspend", c>>) /\ <<"sem_suspend", c>> \in {x}
    BY <2>1, <2>x
  <2> QED
    BY <1>1, <1>2, <2>1, <2>2, <2>5, <2>6, TakeStep
<1>3. CASE /\ permits = 0 /\ begin_wait(c) /\ st' = [st EXCEPT ![c] = "acquire"]
           /\ semWaiters' = Append(semWaiters, <<c, waits[c] + 1>>) /\ UNCHANGED <<permits, inside>>
  BY <1>1, <1>3, <1>c, SemWaitStep
<1> QED
  BY <1>2, <1>3, <1>c DEF SemSuspend

-----------------------------------------------------------------------------
(* The event.                                                              *)

EventLocal(c) ==
    /\ Named(setWaiters, c) => st[c] = "wait" \/ Has(c, "event_erase")
    /\ since[c] <= sets
    /\ st[c] = "wait" => /\ Named(setWaiters, c) \/ since[c] < sets
                         /\ Named(setWaiters, c) /\ Roused(c) => c \in cancelled

EventTypes == sets \in Nat /\ since \in [Coros -> Nat] /\ set \in BOOLEAN

\* The event's invariant, one coroutine at a time.
LEMMA EventOf ==
    ASSUME Base, EventInv
    PROVE  /\ \A c \in Coros : EventLocal(c)
           /\ List(setWaiters) /\ Recent(setWaiters, {"wait"}) /\ EventTypes /\ NobodyQueuedOnSet
<1>1. List(setWaiters) /\ EventTypes /\ NobodyQueuedOnSet
  BY DEF EventInv, EventTypes
<1>2. \A w \in ToSet(setWaiters) : w[1] \in Coros /\ w = <<w[1], w[2]>>
  BY <1>1, ListMembers
<1>a. \A w \in ToSet(setWaiters) :
           (st[w[1]] = "wait" /\ w = Now(w[1])) \/ Has(w[1], "event_erase")
  BY DEF EventInv
<1>3. \A c \in Coros : EventLocal(c)
  <2> TAKE c \in Coros
  <2>1. Named(setWaiters, c) => st[c] = "wait" \/ Has(c, "event_erase")
    BY <1>a DEF Named
  <2> QED
    BY <2>1 DEF EventInv, EventLocal
<1>4. Recent(setWaiters, {"wait"})
  <2>1. \A c \in Coros : Has(c, "event_erase") => st[c] \in {"run", "gone"}
    BY DEF Base, Calling, Phase, OnCoro
  <2> QED
    BY <1>2, <1>a, <2>1 DEF Recent
<1> QED
  BY <1>1, <1>3, <1>4

\* The event's invariant, from what holds of each coroutine.
LEMMA EventFrom ==
    ASSUME EventTypes', NobodyQueuedOnSet', List(setWaiters)', Recent(setWaiters, {"wait"})',
           \A d \in Coros : EventLocal(d)'
    PROVE  EventInv'
<1>1. \A w \in ToSet(setWaiters') : w[1] \in Coros
  BY DEF List, Current, ToSet
<1>2. ASSUME NEW w \in ToSet(setWaiters')
      PROVE  (st'[w[1]] = "wait" /\ w = Now(w[1])') \/ Has(w[1], "event_erase")'
  <2>1. w[1] \in Coros /\ Named(setWaiters, w[1])'
    BY <1>1 DEF Named
  <2>2. st'[w[1]] = "wait" \/ Has(w[1], "event_erase")'
    BY <2>1 DEF EventLocal
  <2>3. st'[w[1]] = "wait" => w = Now(w[1])'
    BY DEF Recent
  <2> QED
    BY <2>2, <2>3
<1>3. \A c \in Coros : /\ since'[c] <= sets'
                       /\ st'[c] = "wait" =>
                              /\ Named(setWaiters, c)' \/ since'[c] < sets'
                              /\ Named(setWaiters, c)' /\ Roused(c)' => c \in cancelled'
  BY DEF EventLocal
<1> QED
  BY <1>2, <1>3 DEF EventInv, EventTypes

\* Steps that change no frame.
LEMMA PlainEvent ==
    ASSUME IInv, Unraced', NEW l \in Loops, NEW old, NEW new, Plain(l, old, new), OnEvent,
           Others(old, new, LockOps \cup SemOps \cup FutureOps, {"wait"}),
           List(setWaiters'), ToSet(setWaiters') \subseteq ToSet(setWaiters),
           EventTypes', NobodyQueuedOnSet', \A c \in Coros : EventLocal(c)'
    PROVE  IInv'
<1>0. Base /\ EventInv
  BY DEF IInv, Base
<1>1. Recent(setWaiters, {"wait"})
  BY <1>0, EventOf
<1>2. \A c \in Coros : st'[c] = st[c] /\ Now(c)' = Now(c)
  BY <1>0, PlainRoused DEF Plain
<1>3. \A w \in ToSet(setWaiters') : w[1] \in Coros
  BY ListMembers
<1>4. List(setWaiters)'
  BY DEF List, Plain
<1>5. Recent(setWaiters, {"wait"})'
  BY <1>1, <1>2, <1>3 DEF Recent
<1>6. EventInv'
  BY <1>4, <1>5, EventFrom
<1> QED
  BY <1>6, EventOnly

EventApart(d) ==
    /\ st'[d] = st[d] /\ (Roused(d)' <=> Roused(d)) /\ (d \in cancelled => d \in cancelled')
    /\ (Has(d, "event_erase")' <=> Has(d, "event_erase")) /\ (Named(setWaiters', d) <=> Named(setWaiters, d))
    /\ since'[d] = since[d] /\ sets' = sets

\* A coroutine that nothing happens to is as it was.
LEMMA EventLocalKept ==
    ASSUME NEW d \in Coros, EventLocal(d), EventApart(d)
    PROVE  EventLocal(d)'
<1>1. Named(setWaiters, d)' <=> Named(setWaiters', d)
  BY DEF Named
<1> QED
  BY <1>1 DEF EventLocal, EventApart

\* Whether a set() is still under way after an instruction.
LEMMA SettingAfter ==
    ASSUME NEW l \in Loops, NEW old, NEW new, Moves(l, old, new)
    PROVE  \A k \in Loops : k \in Setting' <=>
               IF k = l THEN (l \in Setting /\ <<"event_swap">> \notin old) \/ <<"event_swap">> \in new
               ELSE k \in Setting
<1> DEFINE r == <<"event_swap">>
<1>1. r[1] = "event_swap"
  OBVIOUS
<1>2. /\ \A k \in Loops : k \in Setting <=> r \in ToSet(prog[k])
      /\ \A k \in Loops : k \in Setting' <=> r \in ToSet(prog'[k])
  BY DEF Setting
<1> HIDE DEF r
<1>3. \A k \in Loops : r \in ToSet(prog'[k]) <=>
         IF k = l THEN (r \in ToSet(prog[l]) /\ r \notin old) \/ r \in new ELSE r \in ToSet(prog[k])
  BY <1>1 DEF Moves
<1>4. \A k \in Loops : k \in Setting' <=>
               IF k = l THEN (l \in Setting /\ r \notin old) \/ r \in new ELSE k \in Setting
  BY <1>2, <1>3
<1> QED
  BY <1>4 DEF r

\* set() raises the flag.
LEMMA EventSetStep ==
    ASSUME IInv, Unraced', NEW l \in Loops, l \in Active, EventSet(l), OnEvent
    PROVE  IInv'
<1> DEFINE y == <<"event_swap">>
           none == {}
           new == {y}
<1>0. Base /\ EventInv /\ Idle(l)
  BY DEF IInv, Base, EventSet, MaySet
<1>1. /\ \A c \in Coros : EventLocal(c)
      /\ List(setWaiters) /\ EventTypes
  BY <1>0, EventOf
<1>2. Still /\ (\A c \in Coros : Frozen(c)) /\ UNCHANGED <<setWaiters, sets, since>> /\ set' = TRUE
  BY DEF EventSet, frames, Still, OnEvent, lockVars, semVars, Frozen
<1>3. y \in Instr /\ y[1] = "event_swap" /\ (\A d \in Coros : y # <<"schedule", Now(d)>>) /\ Then(l, <<y>>)
  BY IsInstr DEF EventSet
<1>n. (\A z : z \notin none) /\ (\A z \in new : z = y) /\ y \in new
  OBVIOUS
<1>s. <<"event_swap">> \in new
  OBVIOUS
<1> HIDE DEF y
<1>4. Proper(l, y)
  BY <1>3 DEF Proper, OnCoro, OnWaiter
<1>5. Plain(l, none, new)
  <2>1. y[1] \notin {"push", "erase_cond", "sem_guard", "scope"}
    BY <1>3
  <2>2. Plain(l, {}, {y})
    BY <1>0, <1>2, <1>3, <1>4, <2>1, CallPlain
  <2> QED
    BY <2>2
<1> HIDE DEF none, new
<1>6. ASSUME NEW d \in Coros PROVE EventLocal(d)'
  <2>1. Has(d, "event_erase")' <=> (Has(d, "event_erase") /\ <<"event_erase", d>> \notin none) \/ <<"event_erase", d>> \in new
    BY <1>0, <1>5, PlainHas DEF OnCoro
  <2>2. <<"event_erase", d>>[1] = "event_erase"
    OBVIOUS
  <2>3. Has(d, "event_erase")' <=> Has(d, "event_erase")
    BY <1>3, <1>n, <2>1, <2>2
  <2>4. Roused(d)' <=> Roused(d)
    BY <1>0, <1>3, <1>5, <1>n, PlainRoused
  <2>5. EventApart(d)
    BY <1>2, <2>3, <2>4 DEF EventApart, Still
  <2> QED
    BY <1>1, <2>5, EventLocalKept
<1>7. NobodyQueuedOnSet'
  <2>1. Moves(l, none, new)
    BY <1>5 DEF Plain
  <2>2. l \in Setting'
    BY <1>s, <2>1, SettingAfter
  <2> QED
    BY <2>2 DEF NobodyQueuedOnSet
<1>8. EventTypes'
  BY <1>1, <1>2 DEF EventTypes
<1>9. Others(none, new, LockOps \cup SemOps \cup FutureOps, {"wait"})
  BY <1>3, <1>n DEF Others, LockOps, SemOps, FutureOps
<1> QED
  BY <1>1, <1>2, <1>5, <1>6, <1>7, <1>8, <1>9, PlainEvent

\* A waiter that is dropped leaves the list.
LEMMA EventEraseStep ==
    ASSUME IInv, Unraced', NEW l \in Loops, EventErase(l), OnEvent
    PROVE  IInv'
<1> DEFINE none == {}
<1>0. Base /\ EventInv /\ holds \in [Coros -> Nat] /\ At(l, "event_erase")
  BY DEF IInv, Base, LockInv, Owning, EventErase
<1>1. /\ \A c \in Coros : EventLocal(c)
      /\ List(setWaiters) /\ EventTypes /\ NobodyQueuedOnSet
  BY <1>0, EventOf
<1>2. Still /\ (\A c \in Coros : Frozen(c)) /\ UNCHANGED <<set, sets, since>> /\ "event_erase" \in Ordinary
  BY DEF EventErase, frames, Still, OnEvent, lockVars, semVars, Frozen, Ordinary
<1>c. PICK c : c = Arg(l)
  OBVIOUS
<1>x. PICK x : x = Head(prog[l])
  OBVIOUS
<1>3. x = <<"event_erase", c>> /\ c \in Coros /\ Has(c, "event_erase") /\ st[c] \in {"run", "gone"} /\ x[1] = "event_erase"
  <2>1. Phase("event_erase") = {"run", "gone"} /\ "event_erase" \in OnCoro
    BY DEF Phase, OnCoro
  <2> QED
    BY <1>0, <1>c, <1>x, <2>1, HeadAt
<1>4. Plain(l, {x}, none)
  BY <1>0, <1>2, <1>x, PopPlain DEF EventErase
<1>n. \A z : z \notin none
  OBVIOUS
<1> HIDE DEF none
<1>5. /\ List(setWaiters')
      /\ \A v : v \in ToSet(setWaiters') <=> v \in ToSet(setWaiters) /\ v[1] # c
      /\ \A d : Named(setWaiters', d) <=> Named(setWaiters, d) /\ d # c
  <2>1. setWaiters' = erase_waiter(setWaiters, c)
    BY <1>c DEF EventErase
  <2> QED
    BY <1>1, <2>1, ListErase
<1>6. ASSUME NEW d \in Coros PROVE EventLocal(d)'
  <2>1. Has(d, "event_erase")' <=> (Has(d, "event_erase") /\ <<"event_erase", d>> \notin {x}) \/ <<"event_erase", d>> \in none
    BY <1>0, <1>4, PlainHas DEF OnCoro
  <2>2. Roused(d)' <=> Roused(d)
    BY <1>0, <1>4, <1>n, PlainRoused
  <2>3. CASE d # c
    <3>1. Has(d, "event_erase")' <=> Has(d, "event_erase")
      BY <1>3, <1>n, <2>1, <2>3
    <3>2. EventApart(d)
      BY <1>2, <1>5, <2>2, <2>3, <3>1 DEF EventApart, Still
    <3> QED
      BY <1>1, <3>2, EventLocalKept
  <2>4. CASE d = c
    <3>1. ~Named(setWaiters, d)' /\ st'[d] # "wait"
      BY <1>2, <1>3, <1>5, <2>4 DEF Named, Still
    <3> QED
      BY <1>1, <1>2, <3>1 DEF EventLocal
  <2> QED
    BY <2>3, <2>4
<1>7. NobodyQueuedOnSet'
  <2>1. Moves(l, {x}, none)
    BY <1>4 DEF Plain
  <2>2. \A k \in Loops : k \in Setting' <=> k \in Setting
    <3>1. \A k \in Loops : k \in Setting' <=>
               IF k = l THEN (l \in Setting /\ <<"event_swap">> \notin {x}) \/ <<"event_swap">> \in none
               ELSE k \in Setting
      BY <2>1, SettingAfter
    <3>2. <<"event_swap">> # x
      BY <1>3
    <3> QED
      BY <1>n, <3>1, <3>2
  <2>3. setWaiters' # <<>> => setWaiters # <<>>
    <3>1. setWaiters \in Seq(Current) /\ setWaiters' \in Seq(Current)
      BY <1>1, <1>5, ListMembers
    <3>2. setWaiters = <<>> => ToSet(setWaiters) = {}
      BY <3>1, ToSetProperties
    <3>3. ToSet(setWaiters') = {} => setWaiters' = <<>>
      BY <3>1, ToSetProperties
    <3>4. ToSet(setWaiters') \subseteq ToSet(setWaiters)
      BY <1>5
    <3> QED
      BY <3>2, <3>3, <3>4
  <2>4. Setting \subseteq Loops
    BY DEF Setting
  <2> QED
    BY <1>1, <1>2, <2>2, <2>3, <2>4 DEF NobodyQueuedOnSet
<1>8. EventTypes'
  BY <1>1, <1>2 DEF EventTypes
<1>9. Others({x}, none, LockOps \cup SemOps \cup FutureOps, {"wait"})
  BY <1>3, <1>n DEF Others, LockOps, SemOps, FutureOps
<1>10. ToSet(setWaiters') \subseteq ToSet(setWaiters)
  BY <1>5
<1> QED
  BY <1>4, <1>5, <1>6, <1>7, <1>8, <1>9, <1>10, PlainEvent

\* Everybody on the list may be scheduled.
LEMMA EventProper ==
    ASSUME Base, EventInv, holds \in [Coros -> Nat], NEW l \in Loops, NEW w \in ToSet(setWaiters)
    PROVE  /\ Proper(l, <<"schedule", w>>) /\ w \in Current
           /\ \A c \in Coros : Now(c) = w => st[c] = "wait"
<1>0. List(setWaiters) /\ \A c \in Coros : EventLocal(c)
  BY EventOf
<1>1. w \in Current /\ w[1] \in Coros /\ w[2] \in Nat \ {0} /\ w[2] <= waits[w[1]]
  BY <1>0, ListMembers
<1>2. ASSUME NEW c \in Coros, Now(c) = w
      PROVE  st[c] = "wait" /\ (Roused(c) => c \in cancelled)
  <2>1. w[1] = c /\ w[2] = epoch[c]
    BY <1>2 DEF Now
  <2>2. epoch[c] # 0
    BY <1>1, <2>1
  <2>3. Named(setWaiters, c)
    BY <2>1 DEF Named
  <2>4. st[c] = "wait" \/ Has(c, "event_erase")
    BY <1>0, <2>3 DEF EventLocal
  <2>5. st[c] = "wait"
    BY <2>2, <2>4, ErasedEnded
  <2>6. Roused(c) => c \in cancelled
    BY <1>0, <2>3, <2>5 DEF EventLocal
  <2> QED
    BY <2>5, <2>6
<1> DEFINE y == <<"schedule", w>>
<1>3. y[1] = "schedule" /\ y[2] = w
  OBVIOUS
<1>4. \A c \in Coros : y = <<"schedule", Now(c)>> => Now(c) = w
  OBVIOUS
<1>5. Proper(l, y)
  <2> HIDE DEF y
  <2> QED
    BY <1>1, <1>2, <1>3, <1>4 DEF Proper, OnCoro, OnWaiter, Suspended
<1> QED
  BY <1>1, <1>2, <1>5

\* A list of waiters to be scheduled.
Schedules(s) == [i \in DOMAIN s |-> <<"schedule", s[i]>>]

\* The wake-ups of a list of waiters, as instructions.
LEMMA SchedulesProperties ==
    ASSUME NEW s \in Seq(Current), Distinct(s)
    PROVE  /\ Schedules(s) \in Seq(Instr) /\ Distinct(Schedules(s))
           /\ \A y : y \in ToSet(Schedules(s)) <=> \E w \in ToSet(s) : y = <<"schedule", w>>
           /\ \A G, h, I : Form(G, h, I, Schedules(s))
<1> DEFINE p == Schedules(s)
<1>1. Len(s) \in Nat /\ DOMAIN s = 1..Len(s) /\ \A i \in 1..Len(s) : s[i] \in Current
  BY LenProperties
<1>2. p \in Seq(Instr) /\ Len(p) = Len(s) /\ \A i \in 1..Len(s) : p[i] = <<"schedule", s[i]>>
  <2>1. \A i \in 1..Len(s) : <<"schedule", s[i]>> \in Instr
    BY <1>1, IsInstr DEF OnWaiter
  <2> QED
    BY <1>1, <2>1 DEF Schedules
<1> HIDE DEF p
<1>3. Distinct(p)
  <2>1. \A i, j \in 1..Len(s) : p[i] = p[j] => s[i] = s[j]
    <3> TAKE i, j \in 1..Len(s)
    <3>1. p[i][2] = s[i] /\ p[j][2] = s[j]
      BY <1>2
    <3> QED
      BY <3>1
  <2> QED
    BY <1>1, <1>2, <2>1, LenProperties DEF Distinct
<1>4. \A y : y \in ToSet(p) <=> \E w \in ToSet(s) : y = <<"schedule", w>>
  <2> TAKE y
  <2>1. y \in ToSet(p) <=> \E i \in 1..Len(s) : p[i] = y
    BY <1>2, InToSet
  <2>2. \A w : w \in ToSet(s) <=> \E i \in 1..Len(s) : s[i] = w
    BY InToSet
  <2> QED
    BY <1>2, <2>1, <2>2
<1>5. ASSUME NEW G, NEW h, NEW I, p # <<>> PROVE Fits(G, h, I, Head(p), Tail(p))
  <2>1. /\ Head(p) \in Instr /\ Tail(p) \in Seq(Instr) /\ ToSet(p) = ToSet(Tail(p)) \cup {Head(p)}
        /\ Distinct(Tail(p)) /\ Head(p) \notin ToSet(Tail(p))
    BY <1>2, <1>3, <1>5, TailProperties
  <2>2. \A y \in ToSet(p) : y[1] = "schedule"
    BY <1>4
  <2> QED
    BY <2>1, <2>2 DEF Fits
<1>6. \A G, h, I : Form(G, h, I, p)
  BY <1>5 DEF Form
<1> QED
  BY <1>2, <1>3, <1>4, <1>6 DEF p

\* ... takes the list ...
LEMMA EventSwapStep ==
    ASSUME IInv, Unraced', NEW l \in Loops, EventSwap(l), OnEvent
    PROVE  IInv'
<1> DEFINE x == <<"event_swap">>
           p == Schedules(setWaiters)
           new == ToSet(p)
           old == ToSet(prog[l])
<1>0. Base /\ EventInv /\ holds \in [Coros -> Nat] /\ At(l, "event_swap") /\ FrameTypes
  BY DEF IInv, Base, LockInv, Owning, EventSwap
<1>1. /\ \A c \in Coros : EventLocal(c)
      /\ List(setWaiters) /\ EventTypes
  BY <1>0, EventOf
<1>2. Still /\ (\A c \in Coros : Frozen(c)) /\ UNCHANGED <<set, since>> /\ sets' = sets + 1 /\ setWaiters' = <<>>
      /\ holds' = holds /\ inside' = inside
  BY DEF EventSwap, frames, Still, OnEvent, lockVars, semVars, Frozen
<1>3. Head(prog[l]) = x /\ Tail(prog[l]) = <<>> /\ ToSet(prog[l]) = {x} /\ l \in Active
  <2>1. /\ Head(prog[l]) \in Instr /\ Head(prog[l])[1] = "event_swap" /\ Tail(prog[l]) \in Seq(Instr) /\ l \in Active
        /\ ToSet(prog[l]) = ToSet(Tail(prog[l])) \cup {Head(prog[l])}
        /\ Fits(Gone(l), holds, inside, Head(prog[l]), Tail(prog[l]))
    BY <1>0, HeadAt
  <2>2. Gone(l) \in SUBSET Coros
    BY DEF Gone
  <2>3. Tail(prog[l]) = <<>>
    BY <2>1, <2>2, AloneForm DEF Alone
  <2>4. Head(prog[l]) = x
    BY <2>1, InstrOf
  <2> QED
    BY <2>1, <2>3, <2>4, NoWaiters
<1>4. /\ p \in Seq(Instr) /\ (\A y : y \in new <=> \E w \in ToSet(setWaiters) : y = <<"schedule", w>>)
      /\ \A G, h, I : Form(G, h, I, p)
  <2>1. setWaiters \in Seq(Current) /\ Distinct(setWaiters)
    BY <1>1, ListMembers
  <2> QED
    BY <2>1, SchedulesProperties
<1>5. Then(l, p)
  <2>1. p \o <<>> = p
    BY <1>4, ConcatEmptySeq
  <2> QED
    BY <1>3, <2>1 DEF EventSwap, Rest, Schedules
<1> HIDE DEF p
<1>6. Moves(l, old, new)
  <2>1. home' = home
    BY <1>2 DEF Still
  <2> QED
    BY <1>0, <1>2, <1>4, <1>5, <2>1, LoneMoves
<1>7. \A y \in new : Proper(l, y) /\ y[1] = "schedule"
  <2> TAKE y \in new
  <2>1. PICK w \in ToSet(setWaiters) : y = <<"schedule", w>>
    BY <1>4
  <2>2. Proper(l, <<"schedule", w>>)
    BY <1>0, EventProper
  <2> QED
    BY <2>1, <2>2
<1>8. \A c \in Coros : <<"schedule", Now(c)>> \in new => st[c] = "wait"
  <2> TAKE c \in Coros
  <2> HAVE <<"schedule", Now(c)>> \in new
  <2>1. PICK w \in ToSet(setWaiters) : <<"schedule", Now(c)>> = <<"schedule", w>>
    BY <1>4
  <2>2. Now(c) = w
    BY <2>1
  <2> QED
    BY <1>0, <2>2, EventProper
<1>x. x[1] = "event_swap" /\ (\A y \in old : y = x) /\ x \in old
  BY <1>3
<1> HIDE DEF x, new, old
<1>9. Plain(l, old, new)
  <2>1. Flagged
    BY <1>0, <1>2 DEF Flagged, Still, Base, FrameTypes, Wakes
  <2>2. old \subseteq ToSet(prog[l]) /\ \A y \in ToSet(prog[l]) : y = x
    BY <1>x DEF old
  <2> QED
    BY <1>2, <1>3, <1>6, <1>7, <1>x, <2>1, <2>2 DEF Plain, Still
<1>10. ASSUME NEW d \in Coros PROVE EventLocal(d)'
  <2>1. ~Named(setWaiters, d)'
    BY <1>2, ListNone DEF Named
  <2>2. since'[d] < sets' /\ since'[d] <= sets'
    <3>1. since[d] <= sets /\ since[d] \in Nat /\ sets \in Nat
      BY <1>1 DEF EventLocal, EventTypes
    <3> QED
      BY <1>2, <3>1
  <2> QED
    BY <2>1, <2>2 DEF EventLocal
<1>11. NobodyQueuedOnSet' /\ EventTypes'
  BY <1>1, <1>2 DEF NobodyQueuedOnSet, EventTypes
<1>12. Others(old, new, LockOps \cup SemOps \cup FutureOps, {"wait"})
  BY <1>7, <1>8, <1>x DEF Others, LockOps, SemOps, FutureOps
<1>13. List(setWaiters') /\ ToSet(setWaiters') \subseteq ToSet(setWaiters)
  BY <1>2, ListNone
<1> QED
  BY <1>9, <1>10, <1>11, <1>12, <1>13, PlainEvent

\* clear()
LEMMA EventClearStep ==
    ASSUME IInv, Unraced', NEW l \in Loops, l \in Active, EventClear, OnEvent
    PROVE  IInv'
<1> DEFINE none == {}
<1>0. Base /\ EventInv /\ LockInv /\ SemInv /\ FutureInv /\ FrameTypes
  BY DEF IInv, Base
<1>1. /\ \A c \in Coros : EventLocal(c)
      /\ List(setWaiters) /\ EventTypes /\ Recent(setWaiters, {"wait"})
  BY <1>0, EventOf
<1>2. Still /\ prog' = prog /\ (\A c \in Coros : Frozen(c)) /\ UNCHANGED <<setWaiters, sets, since>> /\ set' = FALSE
      /\ UNCHANGED <<lockVars, semVars, futVars>>
  BY DEF EventClear, frames, Still, OnEvent, lockVars, semVars, Frozen
<1>3. Wake(l, none, none)
  <2>1. Moves(l, {}, {})
    <3>1. (\A k \in Loops : Shape(k)) /\ home' = home
      BY <1>0, <1>2 DEF Base, Calling, Still
    <3> QED
      BY <1>0, <1>2, <3>1, SameMoves
  <2>2. Flagged
    BY <1>0, <1>2 DEF Flagged, Still, Base, FrameTypes, Wakes
  <2>3. \A k \in Loops : Distinct(ready[k])
    BY <1>0 DEF Base, Wakes
  <2> QED
    BY <1>0, <1>2, <2>1, <2>2, <2>3 DEF Wake, Still, FrameTypes
<1>n. \A z : z \notin none
  OBVIOUS
<1> HIDE DEF none
<1>4. Base' /\ LockInv' /\ SemInv' /\ FutureInv'
  <2>1. /\ WakeSpares(none, none, LockOps, {"lock", "cond"}) /\ WakeSpares(none, none, SemOps, {"acquire"})
        /\ WakeSpares(none, none, FutureOps, {"await"})
    BY <1>n DEF WakeSpares, LockOps, SemOps, FutureOps
  <2> QED
    BY <1>0, <1>2, <1>3, <2>1, WakeOthers
<1>5. ASSUME NEW d \in Coros PROVE EventLocal(d)'
  <2>1. Roused(d)' <=> Roused(d)
    BY <1>0, <1>3, <1>n, WakeRoused
  <2>2. Has(d, "event_erase")' <=> Has(d, "event_erase")
    BY <1>2 DEF Has, Still
  <2>3. EventApart(d)
    BY <1>2, <2>1, <2>2 DEF EventApart, Still
  <2> QED
    BY <1>1, <2>3, EventLocalKept
<1>6. List(setWaiters)' /\ Recent(setWaiters, {"wait"})'
  BY <1>1, <1>2 DEF List, Recent, Still, Now
<1>7. NobodyQueuedOnSet' /\ EventTypes'
  BY <1>1, <1>2 DEF NobodyQueuedOnSet, EventTypes
<1>8. EventInv'
  BY <1>5, <1>6, <1>7, EventFrom
<1> QED
  BY <1>4, <1>8 DEF IInv, Base

\* wait() begins.
LEMMA EventWaitStep ==
    ASSUME IInv, Unraced', NEW c \in Coros, EventWait(c), OnEvent
    PROVE  IInv'
<1> DEFINE y == <<"event_suspend", c>>
           new == {y}
<1>l. PICK l : l = home[c]
  OBVIOUS
<1>0. Base /\ EventInv /\ holds \in [Coros -> Nat] /\ FrameTypes /\ Calls(c)
  BY DEF IInv, Base, LockInv, Owning, EventWait
<1>1. /\ \A d \in Coros : EventLocal(d)
      /\ List(setWaiters) /\ EventTypes /\ Recent(setWaiters, {"wait"}) /\ NobodyQueuedOnSet
  BY <1>0, EventOf
<1>2. /\ l \in Loops /\ l \in Active /\ st[c] = "run" /\ ToSet(prog[l]) = {} /\ (\A op : ~Has(c, op)) /\ ~Roused(c)
  BY <1>0, <1>l, IdleFacts
<1>3. /\ begin_wait(c) /\ since' = [since EXCEPT ![c] = sets] /\ Then(l, <<y>>)
      /\ UNCHANGED <<home, st, cancelled, abandoned, ready, set, setWaiters, sets>>
      /\ holds' = holds /\ inside' = inside
  BY <1>l DEF EventWait, OnEvent, lockVars, semVars
<1>4. y \in Instr /\ y[1] = "event_suspend" /\ y[2] = c /\ y \in new /\ (\A z \in new : z = y)
  BY IsInstr DEF OnCoro
<1>y. y = <<"event_suspend", c>>
  OBVIOUS
<1>s. <<"event_swap">> # y /\ <<"event_erase", c>> # y /\ <<"future_schedule", c>> # y
  OBVIOUS
<1> HIDE DEF y
<1>5. Moves(l, ToSet(prog[l]), new)
  <2>1. <<y>> \in Seq(Instr) /\ ToSet(<<y>>) = new
    BY <1>4, Single
  <2>2. Form(Gone(l)', holds', inside', <<y>>)
    BY <1>4, SingleForm
  <2>3. \A d \in Coros : home[d] # l => Frozen(d)
    BY <1>3 DEF Frozen
  <2>4. Moves(l, ToSet(prog[l]), ToSet(<<y>>))
    <3> DEFINE p == <<y>>
    <3>1. p \in Seq(Instr) /\ Form(Gone(l)', holds', inside', p) /\ Then(l, p) /\ home' = home
      BY <1>3, <2>1, <2>2
    <3> HIDE DEF p
    <3>2. Moves(l, ToSet(prog[l]), ToSet(p))
      BY <1>0, <1>2, <2>3, <3>1, LoneMoves
    <3> QED
      BY <3>2 DEF p
  <2> QED
    BY <2>1, <2>4
<1> HIDE DEF new
<1>6. /\ waits' \in [Coros -> Nat] /\ epoch' \in [Coros -> Nat] /\ waits'[c] = waits[c] + 1
      /\ epoch'[c] = waits[c] + 1 /\ waits[c] \in Nat
      /\ \A d \in Coros : d # c => waits'[d] = waits[d] /\ epoch'[d] = epoch[d]
  BY <1>0, <1>3 DEF FrameTypes, begin_wait
<1>7. Turn(c, new)
  <2>1. epoch'[c] # 0 /\ epoch'[c] <= waits'[c] /\ waits[c] <= waits'[c] /\ epoch'[c] > waits[c]
    BY <1>6
  <2>2. ~Queued(c)
    BY <1>2 DEF Roused
  <2>3. \A z \in new : Owned(c, z)
    BY <1>2, <1>3, <1>4 DEF Owned, OnCoro, OnWaiter, Phase
  <2>4. st' \in [Coros -> States] /\ abandoned' \subseteq Coros
    BY <1>0, <1>3 DEF FrameTypes
  <2> QED
    BY <1>2, <1>3, <1>4, <1>5, <1>6, <1>y, <1>l, <2>1, <2>2, <2>3, <2>4 DEF Turn
<1>8. /\ \A d \in Coros : d # c => Apart(d)
      /\ (\A op \in OnCoro : Has(c, op)' <=> <<op, c>> \in new) /\ Growing
  BY <1>0, <1>7, TurnApart
<1>9. ~Named(setWaiters, c)
  BY <1>1, <1>2 DEF EventLocal
<1>10. List(setWaiters)'
  <2>1. /\ setWaiters \in Seq(Current) /\ Distinct(setWaiters)
        /\ \A v, w \in ToSet(setWaiters) : v[1] = w[1] => v = w
        /\ \A w \in ToSet(setWaiters) : w[2] <= waits'[w[1]]
    BY <1>0, <1>1, <1>8, ListKept
  <2> QED
    BY <1>3, <2>1 DEF List
<1>11. Recent(setWaiters, {"wait"})'
  <2>1. ASSUME NEW w \in ToSet(setWaiters'), st'[w[1]] = "wait" PROVE w = Now(w[1])'
    <3>1. w \in ToSet(setWaiters) /\ w[1] \in Coros /\ w[1] # c
      BY <1>1, <1>3, <1>9, ListMembers DEF Named
    <3>2. Apart(w[1])
      BY <1>8, <3>1
    <3> QED
      BY <1>1, <1>3, <2>1, <3>1, <3>2 DEF Recent, Apart
  <2> QED
    BY <2>1 DEF Recent
<1>12. ASSUME NEW d \in Coros PROVE EventLocal(d)'
  <2>1. CASE d # c
    <3>1. since'[d] = since[d] /\ (Has(d, "event_erase")' <=> Has(d, "event_erase"))
      BY <1>1, <1>3, <1>8, <2>1 DEF EventTypes, Apart, OnCoro
    <3>2. EventApart(d)
      BY <1>3, <1>8, <2>1, <3>1 DEF EventApart, Apart
    <3> QED
      BY <1>1, <3>2, EventLocalKept
  <2>2. CASE d = c
    <3>1. since'[d] <= sets' /\ ~Named(setWaiters, d)' /\ st'[d] = "run"
      BY <1>1, <1>2, <1>3, <1>9, <2>2 DEF EventTypes, Named
    <3> QED
      BY <3>1 DEF EventLocal
  <2> QED
    BY <2>1, <2>2
<1>13. NobodyQueuedOnSet'
  BY <1>3 DEF NobodyQueuedOnSet, EventWait
<1>14. EventTypes'
  BY <1>1, <1>3 DEF EventTypes
<1>15. EventInv'
  BY <1>10, <1>11, <1>12, <1>13, <1>14, EventFrom
<1>16. \A z \in ToSet(prog[home[c]]) \cup new : z[1] \notin LockOps \cup SemOps \cup FutureOps
  BY <1>2, <1>4, <1>l DEF LockOps, SemOps, FutureOps
<1> QED
  BY <1>2, <1>3, <1>7, <1>15, <1>16, EventTurn

\* ... and ends at once, or its caller is queued.
LEMMA EventSuspendStep ==
    ASSUME IInv, Unraced', NEW l \in Loops, EventSuspend(l), OnEvent
    PROVE  IInv'
<1> DEFINE none == {}
<1>0. Base /\ EventInv /\ holds \in [Coros -> Nat] /\ FrameTypes /\ At(l, "event_suspend")
  BY DEF IInv, Base, LockInv, Owning, EventSuspend
<1>1. /\ \A d \in Coros : EventLocal(d)
      /\ List(setWaiters) /\ EventTypes /\ Recent(setWaiters, {"wait"}) /\ NobodyQueuedOnSet
  BY <1>0, EventOf
<1>c. PICK c : c = Arg(l)
  OBVIOUS
<1>2. /\ Rest(l) = <<>> /\ c \in Coros /\ home[c] = l /\ Has(c, "event_suspend") /\ st[c] = "run"
      /\ (\A y : y \in ToSet(prog[l]) <=> y = <<"event_suspend", c>>)
      /\ \A y \in ToSet(prog[l]) : y[1] \in OnCoro /\ y[2] = c
  <2>1. "event_suspend" \in Alone /\ "event_suspend" \in OnCoro /\ Phase("event_suspend") = {"run"}
    BY DEF Alone, OnCoro, Phase
  <2> QED
    BY <1>0, <1>c, <2>1, LoneCall
<1>3. /\ UNCHANGED <<home, waits, cancelled, abandoned, ready, set, sets, since>> /\ Then(l, <<>>)
      /\ holds' = holds /\ inside' = inside
      /\ IF set
         THEN epoch' = [epoch EXCEPT ![c] = 0] /\ UNCHANGED <<st, setWaiters>>
         ELSE /\ setWaiters' = Append(setWaiters, <<c, epoch[c]>>)
              /\ st' = [st EXCEPT ![c] = "wait"]
              /\ UNCHANGED epoch
  BY <1>2, <1>c DEF EventSuspend, OnEvent, lockVars, semVars
<1>4. Moves(l, ToSet(prog[l]), none)
  <2>1. \A d \in Coros : home[d] # l => Frozen(d)
    BY <1>0, <1>2, <1>3 DEF Frozen, FrameTypes
  <2>2. Form(Gone(l)', holds', inside', <<>>) /\ <<>> \in Seq(Instr) /\ ToSet(<<>>) = {} /\ home' = home
    BY <1>3, NoForm, NoWaiters
  <2>3. Moves(l, ToSet(prog[l]), ToSet(<<>>))
    BY <1>0, <1>3, <2>1, <2>2, LoneMoves
  <2> QED
    BY <2>2, <2>3
<1>n. \A z : z \notin none
  OBVIOUS
<1> HIDE DEF none
<1>5. ~Queued(c) /\ ~Summoned(c)
  BY <1>0, <1>2 DEF Base, Wakes, Roused, Suspended
<1>6. epoch[c] \in Nat /\ epoch[c] # 0 /\ epoch[c] <= waits[c] /\ waits[c] \in Nat
  BY <1>0, <1>2 DEF Base, Epochs, FrameTypes
<1>7. Turn(c, none)
  <2>1. /\ cancelled' \subseteq cancelled /\ abandoned' \subseteq Coros /\ waits' \in [Coros -> Nat]
        /\ waits'[c] = waits[c] /\ \A d \in Coros : waits'[d] = waits[d]
    BY <1>0, <1>3 DEF FrameTypes
  <2>2. CASE set
    <3>0. epoch' = [epoch EXCEPT ![c] = 0] /\ st' = st
      BY <1>3, <2>2
    <3>a. epoch' \in [Coros -> Nat] /\ epoch'[c] = 0 /\ (\A d \in Coros : d # c => epoch'[d] = epoch[d])
      BY <1>0, <1>2, <3>0 DEF FrameTypes
    <3>1. st' = st /\ st' \in [Coros -> States]
      BY <1>0, <3>0 DEF FrameTypes
    <3> QED
      BY <1>2, <1>3, <1>4, <1>5, <1>6, <1>n, <2>1, <3>a, <3>1 DEF Turn
  <2>3. CASE ~set
    <3>1. /\ st' \in [Coros -> States] /\ st'[c] = "wait" /\ (\A d \in Coros : d # c => st'[d] = st[d])
          /\ epoch' = epoch /\ epoch' \in [Coros -> Nat]
      BY <1>0, <1>2, <1>3, <2>3 DEF FrameTypes, States
    <3> QED
      BY <1>2, <1>3, <1>4, <1>5, <1>6, <1>n, <2>1, <3>1 DEF Turn
  <2> QED
    BY <2>2, <2>3
<1>8. (\A d \in Coros : d # c => Apart(d)) /\ ~Roused(c)' /\ Growing
  BY <1>0, <1>2, <1>7, <1>n, TurnApart
<1>9. ~Named(setWaiters, c)
  <2>1. ~Has(c, "event_erase")
    <3>1. <<"event_erase", c>> # <<"event_suspend", c>>
      OBVIOUS
    <3> QED
      BY <1>2, <3>1 DEF Has
  <2> QED
    BY <1>1, <1>2, <2>1 DEF EventLocal
<1>10. /\ List(setWaiters)'
       /\ \A v : v \in ToSet(setWaiters') <=> v \in ToSet(setWaiters) \/ (~set /\ v = <<c, epoch[c]>>)
       /\ \A d : Named(setWaiters', d) <=> Named(setWaiters, d) \/ (~set /\ d = c)
  <2>1. CASE set
    BY <1>1, <1>3, <2>1 DEF List
  <2>2. CASE ~set
    <3>w. PICK w : w = <<c, epoch[c]>>
      OBVIOUS
    <3>1. w \in Current /\ w[1] = c /\ w[2] = epoch[c] /\ w[2] <= waits[w[1]]
      BY <1>2, <1>6, <3>w DEF Current
    <3>2. /\ List(Append(setWaiters, w))
          /\ \A v : v \in ToSet(Append(setWaiters, w)) <=> v \in ToSet(setWaiters) \/ v = w
          /\ \A d : Named(Append(setWaiters, w), d) <=> Named(setWaiters, d) \/ d = w[1]
      BY <1>1, <1>9, <3>1, ListAppend
    <3>3. setWaiters' = Append(setWaiters, w)
      BY <1>3, <2>2, <3>w
    <3>4. List(setWaiters)'
      BY <1>3, <3>2, <3>3 DEF List
    <3> QED
      BY <2>2, <3>1, <3>2, <3>3, <3>4, <3>w
  <2> QED
    BY <2>1, <2>2
<1>11. Recent(setWaiters, {"wait"})'
  <2>1. ASSUME NEW w \in ToSet(setWaiters'), st'[w[1]] = "wait" PROVE w = Now(w[1])'
    <3>1. CASE w \in ToSet(setWaiters)
      <4>1. w[1] \in Coros /\ w[1] # c
        BY <1>1, <1>9, <3>1, ListMembers DEF Named
      <4>2. Apart(w[1])
        BY <1>8, <4>1
      <4> QED
        BY <1>1, <2>1, <3>1, <4>2 DEF Recent, Apart
    <3>2. CASE ~set /\ w = <<c, epoch[c]>>
      BY <1>3, <3>2 DEF Now
    <3> QED
      BY <1>10, <3>1, <3>2
  <2> QED
    BY <2>1 DEF Recent
<1>12. ASSUME NEW d \in Coros PROVE EventLocal(d)'
  <2>1. CASE d # c
    <3>1. Has(d, "event_erase")' <=> Has(d, "event_erase")
      BY <1>8, <2>1 DEF Apart, OnCoro
    <3>2. EventApart(d)
      BY <1>3, <1>8, <1>10, <2>1, <3>1 DEF EventApart, Apart
    <3> QED
      BY <1>1, <3>2, EventLocalKept
  <2>2. CASE d = c
    <3>1. since'[d] <= sets' /\ ~Roused(d)'
      BY <1>1, <1>3, <1>8, <2>2 DEF EventLocal
    <3>2. Named(setWaiters, d)' <=> ~set
      BY <1>9, <1>10, <2>2 DEF Named
    <3>3. IF set THEN st'[d] = "run" ELSE st'[d] = "wait"
      BY <1>0, <1>2, <1>3, <2>2 DEF FrameTypes
    <3> QED
      BY <3>1, <3>2, <3>3 DEF EventLocal
  <2> QED
    BY <2>1, <2>2
<1>13. NobodyQueuedOnSet'
  <2>1. \A k \in Loops : k \in Setting' <=> k \in Setting
    <3>1. \A k \in Loops : k \in Setting' <=>
               IF k = l THEN (l \in Setting /\ <<"event_swap">> \notin ToSet(prog[l])) \/ <<"event_swap">> \in none
               ELSE k \in Setting
      BY <1>4, SettingAfter
    <3>2. <<"event_swap">> # <<"event_suspend", c>>
      OBVIOUS
    <3> QED
      BY <1>2, <1>n, <3>1, <3>2
  <2>2. Setting \subseteq Loops
    BY DEF Setting
  <2> QED
    BY <1>1, <1>3, <2>1, <2>2 DEF NobodyQueuedOnSet
<1>14. EventTypes'
  BY <1>1, <1>3 DEF EventTypes
<1>15. EventInv'
  BY <1>10, <1>11, <1>12, <1>13, <1>14, EventFrom
<1>16. \A y \in ToSet(prog[home[c]]) \cup none : y[1] \notin LockOps \cup SemOps \cup FutureOps
  <2>1. <<"event_suspend", c>>[1] = "event_suspend"
    OBVIOUS
  <2> QED
    BY <1>2, <1>n, <2>1 DEF LockOps, SemOps, FutureOps
<1>17. st'[c] \in {"run", "wait"}
  BY <1>0, <1>2, <1>3 DEF FrameTypes
<1> QED
  BY <1>2, <1>7, <1>15, <1>16, <1>17, EventTurn

-----------------------------------------------------------------------------
(* The futures.                                                            *)

Awaits(f, c) == c \in ToSet(futWaiters[f])
Notifies(f) == \E l \in Loops : <<"future_notify", f>> \in ToSet(prog[l])

FutureLocal(c) ==
    /\ \A f \in Futures : Awaits(f, c) => on[c] = f /\ (st[c] = "await" \/ Has(c, "future_erase"))
    /\ st[c] = "await" => /\ Awaits(on[c], c) \/ fready(on[c])
                          /\ Awaits(on[c], c) /\ Roused(c) => c \in cancelled

FutureTypes == FutureTypeOK /\ \A f \in Futures : Distinct(futWaiters[f])
FutureCalls ==
    \A f \in Futures : /\ Notifies(f) => fready(f)
                       /\ fready(f) /\ futWaiters[f] # <<>> => Notifies(f)

\* The members of the wait list of a future.
LEMMA FutureMembers ==
    ASSUME FutureTypes
    PROVE  \A f \in Futures : /\ futWaiters[f] \in Seq(Coros) /\ Distinct(futWaiters[f])
                              /\ \A c : Awaits(f, c) => c \in Coros
                              /\ futWaiters[f] # <<>> <=> \E c \in Coros : Awaits(f, c)
<1> TAKE f \in Futures
<1>1. futWaiters[f] \in Seq(Coros) /\ Distinct(futWaiters[f])
  BY DEF FutureTypes, FutureTypeOK
<1>2. ToSet(futWaiters[f]) \subseteq Coros /\ (futWaiters[f] = <<>> <=> ToSet(futWaiters[f]) = {})
  BY <1>1, ToSetProperties
<1> QED
  BY <1>1, <1>2 DEF Awaits

\* The futures' invariant, one coroutine at a time.
LEMMA FutureOf ==
    ASSUME FutureInv
    PROVE  (\A c \in Coros : FutureLocal(c)) /\ FutureTypes /\ FutureCalls
<1>1. FutureTypes
  BY DEF FutureInv, FutureTypes
<1>2. FutureCalls
  BY DEF FutureInv, FutureCalls, NoLostResult, Notifies
<1>3. \A c \in Coros : FutureLocal(c)
  BY DEF FutureInv, FutureLocal, Awaits
<1> QED
  BY <1>1, <1>2, <1>3

\* The futures' invariant, from what holds of each coroutine.
LEMMA FutureFrom ==
    ASSUME FutureTypes', FutureCalls', \A c \in Coros : FutureLocal(c)'
    PROVE  FutureInv'
<1>1. \A f \in Futures : \A c \in ToSet(futWaiters'[f]) : c \in Coros
  <2>1. \A f \in Futures : futWaiters'[f] \in Seq(Coros)
    BY DEF FutureTypes, FutureTypeOK
  <2> QED
    BY <2>1, ToSetProperties
<1>2. FutureTypeOK' /\ \A f \in Futures : Distinct(futWaiters'[f])
  BY DEF FutureTypes
<1>3. ASSUME NEW f \in Futures, NEW c \in ToSet(futWaiters'[f])
      PROVE  on'[c] = f /\ (st'[c] = "await" \/ Has(c, "future_erase")')
  <2>1. c \in Coros /\ Awaits(f, c)'
    BY <1>1, <1>3 DEF Awaits
  <2> QED
    BY <2>1 DEF FutureLocal
<1>4. \A c \in Coros : st'[c] = "await" =>
           /\ c \in ToSet(futWaiters'[on'[c]]) \/ fready(on[c])'
           /\ c \in ToSet(futWaiters'[on'[c]]) /\ Roused(c)' => c \in cancelled'
  BY DEF FutureLocal, Awaits
<1>6. \A f \in Futures, l \in Loops : <<"future_notify", f>> \in ToSet(prog'[l]) => fready(f)'
  BY DEF FutureCalls, Notifies
<1>7. NoLostResult'
  BY DEF FutureCalls, Notifies, NoLostResult
<1> QED
  BY <1>2, <1>3, <1>4, <1>6, <1>7 DEF FutureInv

FutureApart(d) ==
    /\ st'[d] = st[d] /\ (Roused(d)' <=> Roused(d)) /\ (d \in cancelled => d \in cancelled')
    /\ (Has(d, "future_erase")' <=> Has(d, "future_erase")) /\ on'[d] = on[d] /\ on[d] \in Futures
    /\ (\A f \in Futures : (Awaits(f, d)' <=> Awaits(f, d)) /\ (fready(f) => fready(f)'))

\* A coroutine that nothing happens to is as it was.
LEMMA FutureLocalKept ==
    ASSUME NEW d \in Coros, FutureLocal(d), FutureApart(d)
    PROVE  FutureLocal(d)'
<1>1. /\ Awaits(on[d], d)' <=> Awaits(on[d], d)
      /\ fready(on[d]) => fready(on[d])'
  BY DEF FutureApart, Awaits, fready
<1>2. \A f \in Futures : Awaits(f, d)' => on'[d] = f /\ (st'[d] = "await" \/ Has(d, "future_erase")')
  BY DEF FutureLocal, FutureApart
<1>3. st'[d] = "await" => /\ Awaits(on[d], d)' \/ fready(on[d])'
                          /\ Awaits(on[d], d)' /\ Roused(d)' => d \in cancelled'
  BY <1>1 DEF FutureLocal, FutureApart
<1> QED
  BY <1>2, <1>3 DEF FutureLocal

\* Which futures have a notification under way after an instruction.
LEMMA NotifiesAfter ==
    ASSUME NEW l \in Loops, NEW old, NEW new, Moves(l, old, new), NEW f \in Futures, NEW y,
           y = <<"future_notify", f>>
    PROVE  /\ y \notin old /\ y \notin new => (Notifies(f)' <=> Notifies(f))
           /\ y \in new => Notifies(f)'
           /\ Notifies(f)' => Notifies(f) \/ y \in new
<1>1. y[1] = "future_notify"
  OBVIOUS
<1>2. /\ Notifies(f) <=> \E k \in Loops : y \in ToSet(prog[k])
      /\ Notifies(f)' <=> \E k \in Loops : y \in ToSet(prog'[k])
  BY DEF Notifies
<1>3. \A k \in Loops : y \in ToSet(prog'[k]) <=>
         IF k = l THEN (y \in ToSet(prog[l]) /\ y \notin old) \/ y \in new ELSE y \in ToSet(prog[k])
  BY ONLY <1>1, Moves(l, old, new) DEF Moves
<1> QED
  BY ONLY <1>2, <1>3, l \in Loops

\* x will queue c, who is on the way already, and nobody else, if it may.
Reserving(x, c, may) ==
    /\ may => Roused(c) /\ ~Has(c, "resume") /\ (Summoned(c) => x = <<"schedule", Now(c)>>)
    /\ \A d \in Coros : x = <<"schedule", Now(d)>> \/ x = <<"future_schedule", d>> => d = c /\ may

\* EventLoop::schedule of a waiter at the end of a call.
LEMMA ReserveWake ==
    ASSUME Base, holds \in [Coros -> Nat], UNCHANGED <<holds, inside>>, NEW l \in Loops,
           NEW op \in {"schedule", "future_schedule"}, At(l, op), NEW x, x = Head(prog[l]), Then(l, Rest(l)),
           UNCHANGED frames, NEW c \in Coros, NEW may \in BOOLEAN, Reserve(c, may),
           Reserving(x, c, may)
    PROVE  \E Q \in SUBSET {c} : Wake(l, {x}, Q) /\ \A d \in Q : Roused(d)
<1> DEFINE Q == {d \in {c} : may /\ ~Queued(d)}
<1>r. /\ may => Roused(c) /\ ~Has(c, "resume") /\ (Summoned(c) => x = <<"schedule", Now(c)>>)
      /\ \A d \in Coros : x = <<"schedule", Now(d)>> \/ x = <<"future_schedule", d>> => d = c /\ may
  BY DEF Reserving
<1>0. FrameTypes /\ (\A k \in Loops : Shape(k)) /\ Wakes
  BY DEF Base, Calling
<1>1. x \in ToSet(prog[l]) /\ l \in Active /\ x[1] = op /\ prog[l] # <<>>
  BY HeadAt
<1>2. /\ UNCHANGED <<home, st, epoch, waits, cancelled, abandoned>> /\ \A d \in Coros : Frozen(d)
      /\ prog' = [prog EXCEPT ![l] = Tail(prog[l])]
  BY DEF frames, Frozen, Then, Rest
<1>3. Moves(l, {x}, {})
  <2>1. Head(prog[l])[1] \notin {"sem_guard", "scope"}
    BY <1>1
  <2>2. Moves(l, {Head(prog[l])}, {})
    BY <1>0, <1>1, <1>2, <2>1, PopMoves
  <2> QED
    BY <2>2
<1>4. Flagged
  BY <1>0, <1>2 DEF Flagged, FrameTypes, Wakes
<1>5. may => Suspended(c) /\ st[c] # "gone"
  BY <1>0, <1>r DEF Wakes, Suspended
<1>6. home[c] \in Loops /\ ready[home[c]] \in Seq(Coros)
  BY <1>0 DEF FrameTypes
<1>7. ready' \in [Loops -> Seq(Coros)] /\
      \A k \in Loops :
           /\ Distinct(ready'[k])
           /\ \A d : d \in ToSet(ready'[k]) <=> d \in ToSet(ready[k]) \/ (d \in Q /\ home[d] = k)
  <2>0. \A k \in Loops : Distinct(ready[k])
    BY <1>0 DEF Wakes
  <2>1. CASE may /\ ~Queued(c)
    <3>q. PICK q : q = Append(ready[home[c]], c)
      OBVIOUS
    <3>1. q \in Seq(Coros) /\ ToSet(q) = ToSet(ready[home[c]]) \cup {c} /\ Distinct(q)
      BY <1>0, <1>6, <2>0, <2>1, <3>q, AppendToSet DEF Queued
    <3>2. ready' = [ready EXCEPT ![home[c]] = q]
      BY <1>5, <2>1, <3>q DEF Reserve
    <3>3. ready' \in [Loops -> Seq(Coros)] /\ ready'[home[c]] = q /\ \A k \in Loops : k # home[c] => ready'[k] = ready[k]
      BY <1>0, <1>6, <3>1, <3>2 DEF FrameTypes
    <3> QED
      BY <2>0, <2>1, <3>1, <3>3
  <2>2. CASE ~(may /\ ~Queued(c))
    <3>1. ready' = ready
      BY <2>2 DEF Reserve
    <3> QED
      BY <1>0, <2>0, <2>2, <3>1 DEF FrameTypes
  <2> QED
    BY <2>1, <2>2
<1>8. \A y \in {x} : y[1] \notin {"event_suspend", "resume"}
  BY <1>1
<1>9. \A d \in Coros : <<"schedule", Now(d)>> \in {x} \/ <<"future_schedule", d>> \in {x} => d \in Q \/ Queued(d)
  BY <1>r
<1>10. \A d \in Q : /\ d \in Coros /\ Suspended(d) /\ ~Has(d, "resume")
                    /\ Summoned(d) => d \in cancelled' \/ <<"schedule", Now(d)>> \in {x}
  BY <1>5, <1>r
<1>11. \A d \in Q : Roused(d)
  BY <1>r
<1>12. Q \in SUBSET {c}
  OBVIOUS
<1> HIDE DEF Q
<1>13. Wake(l, {x}, Q)
  BY <1>1, <1>2, <1>3, <1>4, <1>7, <1>8, <1>9, <1>10 DEF Wake
<1> QED
  BY <1>11, <1>12, <1>13

\* Nobody is woken who was not on the way already.
LEMMA WakeOnly ==
    ASSUME IInv, Unraced', NEW l \in Loops, NEW old, NEW Q, Wake(l, old, Q), \A c \in Q : Roused(c),
           UNCHANGED <<lockVars, semVars, eventVars, futVars>>,
           \A y \in old : y[1] \notin LockOps \cup SemOps \cup EventOps \cup FutureOps
    PROVE  IInv'
<1>0. Base /\ LockInv /\ SemInv /\ EventInv /\ FutureInv
  BY DEF IInv, Base
<1>1. /\ WakeSpares(old, Q, LockOps, {"lock", "cond"}) /\ WakeSpares(old, Q, SemOps, {"acquire"})
      /\ WakeSpares(old, Q, EventOps, {"wait"}) /\ WakeSpares(old, Q, FutureOps, {"await"})
  BY DEF WakeSpares, LockOps, SemOps, EventOps, FutureOps
<1>2. Base' /\ LockInv' /\ SemInv' /\ EventInv' /\ FutureInv'
  BY <1>0, <1>1, WakeOthers
<1> QED
  BY <1>2 DEF IInv, Base

\* schedule_waiter: the waiter is queued if it still waits for the same thing.
LEMMA ScheduleStep ==
    ASSUME IInv, Unraced', NEW l \in Loops, schedule_waiter(l), OnFrames
    PROVE  IInv'
<1>0. Base /\ holds \in [Coros -> Nat] /\ At(l, "schedule") /\ Wakes
  BY DEF IInv, Base, LockInv, Owning, schedule_waiter
<1>x. PICK x : x = Head(prog[l])
  OBVIOUS
<1>w. PICK w : w = Arg(l)
  OBVIOUS
<1>c. PICK c : c = w[1]
  OBVIOUS
<1>1. x \in Instr /\ x[1] = "schedule" /\ x \in ToSet(prog[l]) /\ x[2] = w
  BY <1>0, <1>x, <1>w, HeadAt
<1>2. x = <<"schedule", w>> /\ w = <<c, w[2]>> /\ c \in Coros
  BY <1>1, <1>c, InstrOf DEF OnWaiter
<1>m. PICK may \in BOOLEAN : may <=> epoch[c] = w[2]
  OBVIOUS
<1>3. Reserve(c, may) /\ Then(l, Rest(l)) /\ UNCHANGED frames
  <2>1. Reserve(c, epoch[c] = w[2]) /\ Then(l, Rest(l)) /\ UNCHANGED frames
    BY <1>c, <1>w DEF schedule_waiter
  <2> QED
    BY <1>m, <2>1 DEF Reserve
<1>4. UNCHANGED <<holds, inside>> /\ UNCHANGED <<lockVars, semVars, eventVars, futVars>>
  BY DEF OnFrames, lockVars, semVars
<1>5. may => x = <<"schedule", Now(c)>> /\ Summoned(c)
  <2>1. ASSUME may PROVE x = <<"schedule", Now(c)>>
    <3>1. w = Now(c)
      BY <1>2, <1>m, <2>1 DEF Now
    <3> QED
      BY <1>2, <3>1
  <2> QED
    BY <1>1, <2>1 DEF Summoned
<1>6. may => Roused(c) /\ ~Has(c, "resume")
  BY <1>0, <1>2, <1>5 DEF Roused, Wakes
<1>7. \A d \in Coros : x = <<"schedule", Now(d)>> \/ x = <<"future_schedule", d>> => d = c /\ may
  <2>1. ASSUME NEW d \in Coros, x = <<"schedule", Now(d)>> PROVE d = c /\ may
    <3>1. w = <<d, epoch[d]>>
      BY <1>2, <2>1 DEF Now
    <3> QED
      BY <1>2, <1>m, <3>1
  <2>2. \A d \in Coros : x # <<"future_schedule", d>>
    BY <1>2
  <2> QED
    BY <2>1, <2>2
<1>r. Reserving(x, c, may)
  BY <1>5, <1>6, <1>7 DEF Reserving
<1>8. PICK Q \in SUBSET {c} : Wake(l, {x}, Q) /\ \A d \in Q : Roused(d)
  BY <1>0, <1>x, <1>2, <1>3, <1>4, <1>r, ReserveWake
<1>9. \A y \in {x} : y[1] \notin LockOps \cup SemOps \cup EventOps \cup FutureOps
  BY <1>1 DEF LockOps, SemOps, EventOps, FutureOps
<1> QED
  BY <1>4, <1>8, <1>9, WakeOnly

\* An await whose result came before it was in the list schedules itself.
LEMMA AwaitScheduleStep ==
    ASSUME IInv, Unraced', NEW l \in Loops, AwaitSchedule(l), OnFuture
    PROVE  IInv'
<1>0. Base /\ holds \in [Coros -> Nat] /\ At(l, "future_schedule") /\ Wakes
  BY DEF IInv, Base, LockInv, Owning, AwaitSchedule
<1>x. PICK x : x = Head(prog[l])
  OBVIOUS
<1>c. PICK c : c = Arg(l)
  OBVIOUS
<1>1. /\ x = <<"future_schedule", c>> /\ c \in Coros /\ Has(c, "future_schedule") /\ st[c] = "await" /\ home[c] = l
      /\ \A y \in ToSet(prog[l]) : y[1] # "resume"
  <2>1. "future_schedule" \in OnCoro /\ Phase("future_schedule") = {"await"}
    BY DEF OnCoro, Phase
  <2> QED
    BY <1>0, <1>x, <1>c, <2>1, HeadAt
<1>2. Reserve(c, TRUE) /\ Then(l, Rest(l)) /\ UNCHANGED frames
  BY <1>c DEF AwaitSchedule
<1>3. UNCHANGED <<holds, inside>> /\ UNCHANGED <<lockVars, semVars, eventVars, futVars>>
  BY DEF OnFuture, lockVars, semVars, AwaitSchedule
<1>4. Roused(c) /\ ~Has(c, "resume")
  <2>1. <<"resume", c>>[1] = "resume"
    OBVIOUS
  <2> QED
    BY <1>1, <2>1 DEF Roused, Has
<1>5. ~Summoned(c)
  <2>1. epoch[c] = 0
    <3>1. ~Has(c, "event_suspend")
      <4>1. "event_suspend" \in OnCoro /\ Phase("event_suspend") = {"run"}
        BY DEF OnCoro, Phase
      <4> QED
        BY <1>0, <1>1, <4>1 DEF Base, Calling
    <3> QED
      BY <1>0, <1>1, <3>1 DEF Base, Epochs
  <2>2. "schedule" \in OnWaiter
    BY DEF OnWaiter
  <2>3. \A k \in Loops : <<"schedule", <<c, epoch[c]>>>> \notin ToSet(prog[k])
    BY <1>0, <1>1, <2>1, <2>2, Unknown
  <2> QED
    BY <2>3 DEF Summoned, Now
<1>6. x[1] = "future_schedule" /\ \A d \in Coros : x = <<"schedule", Now(d)>> \/ x = <<"future_schedule", d>> => d = c
  BY <1>1
<1>m. PICK may \in BOOLEAN : may = TRUE
  OBVIOUS
<1>2a. Reserve(c, may)
  BY <1>2, <1>m
<1>2b. Then(l, Rest(l)) /\ UNCHANGED frames
  BY <1>2
<1>r. Reserving(x, c, may)
  BY <1>4, <1>5, <1>6, <1>m DEF Reserving
<1>2e. c \in Coros /\ UNCHANGED <<holds, inside>>
  BY <1>1, <1>3
<1>7. PICK Q \in SUBSET {c} : Wake(l, {x}, Q) /\ \A d \in Q : Roused(d)
  BY <1>0, <1>x, <1>2a, <1>2b, <1>2e, <1>r, ReserveWake
<1>8. \A y \in {x} : y[1] \notin LockOps \cup SemOps \cup EventOps \cup FutureOps
  BY <1>6 DEF LockOps, SemOps, EventOps, FutureOps
<1> QED
  BY <1>3, <1>7, <1>8, WakeOnly

\* set_value, set_exception and ~Promise: the result, and then the notification.
LEMMA StoreStep ==
    ASSUME IInv, Unraced', NEW l \in Loops, l \in Active, Idle(l), Still, NEW f \in Futures, NEW r \in Outcomes, Store(l, f, r),
           OnFuture, promise' \subseteq Futures, UNCHANGED <<consumed, futWaiters, on, got>>
    PROVE  IInv'
<1> DEFINE y == <<"future_notify", f>>
           none == {}
           new == {y}
<1>0. Base /\ FutureInv
  BY DEF IInv, Base
<1>1. (\A c \in Coros : FutureLocal(c)) /\ FutureTypes /\ FutureCalls
  BY <1>0, FutureOf
<1>2. \A c \in Coros : Frozen(c)
  BY DEF Still, OnFuture, lockVars, semVars, Frozen
<1>3. y \in Instr /\ y[1] = "future_notify" /\ (\A d \in Coros : y # <<"schedule", Now(d)>>) /\ Then(l, <<y>>)
  BY IsInstr DEF Store
<1>n. (\A z : z \notin none) /\ (\A z \in new : z = y) /\ y \in new
  OBVIOUS
<1>f. y = <<"future_notify", f>>
  OBVIOUS
<1> HIDE DEF y
<1>4. Proper(l, y)
  BY <1>3 DEF Proper, OnCoro, OnWaiter
<1>5. Plain(l, none, new)
  <2>1. y[1] \notin {"push", "erase_cond", "sem_guard", "scope"}
    BY <1>3
  <2>2. Plain(l, {}, {y})
    BY <1>0, <1>2, <1>3, <1>4, <2>1, CallPlain
  <2> QED
    BY <2>2
<1> HIDE DEF none, new
<1>6. /\ result' \in [Futures -> Outcomes \cup {"none"}] /\ result'[f] = r /\ r # "none"
      /\ \A g \in Futures : g # f => result'[g] = result[g]
  <2>1. result \in [Futures -> Outcomes \cup {"none"}] /\ result' = [result EXCEPT ![f] = r]
    BY <1>1 DEF FutureTypes, FutureTypeOK, Store
  <2>2. r # "none"
    BY DEF Outcomes
  <2> QED
    BY <2>1, <2>2
<1>7. fready(f)' /\ \A g \in Futures : (fready(g) => fready(g)') /\ (g # f => (fready(g)' <=> fready(g)))
  BY <1>6 DEF fready
<1>8. ASSUME NEW d \in Coros PROVE FutureLocal(d)'
  <2>1. Has(d, "future_erase")' <=> (Has(d, "future_erase") /\ <<"future_erase", d>> \notin none) \/ <<"future_erase", d>> \in new
    BY <1>0, <1>5, PlainHas DEF OnCoro
  <2>2. <<"future_erase", d>>[1] = "future_erase"
    OBVIOUS
  <2>3. Has(d, "future_erase")' <=> Has(d, "future_erase")
    BY <1>3, <1>n, <2>1, <2>2
  <2>4. Roused(d)' <=> Roused(d)
    BY <1>0, <1>3, <1>5, <1>n, PlainRoused
  <2>5. on[d] \in Futures
    BY <1>1 DEF FutureTypes, FutureTypeOK
  <2>6. FutureApart(d)
    BY <1>7, <2>3, <2>4, <2>5 DEF FutureApart, Still, Awaits
  <2> QED
    BY <1>1, <2>6, FutureLocalKept
<1>9. FutureCalls'
  <2>0. Moves(l, none, new)
    BY <1>5 DEF Plain
  <2>1. Notifies(f)'
    BY <1>f, <1>n, <2>0, NotifiesAfter
  <2>2. ASSUME NEW g \in Futures, g # f PROVE Notifies(g)' <=> Notifies(g)
    <3>z. PICK z : z = <<"future_notify", g>>
      OBVIOUS
    <3>1. z # y
      BY <1>f, <2>2, <3>z
    <3> QED
      BY <1>n, <2>0, <3>1, <3>z, NotifiesAfter
  <2> QED
    BY <1>1, <1>7, <2>1, <2>2 DEF FutureCalls
<1>10. FutureTypes'
  BY <1>1, <1>6 DEF FutureTypes, FutureTypeOK
<1>11. FutureInv'
  BY <1>8, <1>9, <1>10, FutureFrom
<1>12. Others(none, new, LockOps \cup SemOps \cup EventOps, {"await"})
  BY <1>3, <1>n DEF Others, LockOps, SemOps, EventOps
<1> QED
  BY <1>5, <1>11, <1>12, FutureOnly

\* Promise::set_value and set_exception.
LEMMA PromiseSetStep ==
    ASSUME IInv, Unraced', NEW l \in Loops, l \in Active, NEW f \in Futures, NEW r \in {"value", "exception"},
           PromiseSet(l, f, r), OnFuture
    PROVE  IInv'
<1>1. Idle(l) /\ Still /\ Store(l, f, r) /\ UNCHANGED <<promise, consumed, futWaiters, on, got>>
  BY DEF PromiseSet, frames, Still
<1>2. promise \subseteq Futures
  BY DEF IInv, FutureInv, FutureTypeOK
<1>3. r \in Outcomes /\ promise' \subseteq Futures /\ UNCHANGED <<consumed, futWaiters, on, got>>
  BY <1>1, <1>2 DEF Outcomes
<1> QED
  BY <1>1, <1>3, StoreStep

\* ~Promise: the Future gets its exception.
LEMMA DropPromiseStep ==
    ASSUME IInv, Unraced', NEW l \in Loops, l \in Active, NEW f \in Futures, DropPromise(l, f), OnFuture
    PROVE  IInv'
<1>1. Idle(l) /\ Still /\ UNCHANGED <<consumed, futWaiters, on, got>> /\ promise' = promise \ {f}
  BY DEF DropPromise, frames, Still
<1>2. promise \subseteq Futures /\ promise' \subseteq Futures
  BY <1>1 DEF IInv, FutureInv, FutureTypeOK
<1>3. CASE ~fready(f)
  <2>1. "broken" \in Outcomes /\ Store(l, f, "broken")
    BY <1>3 DEF DropPromise, Outcomes
  <2> QED
    BY <1>1, <1>2, <2>1, StoreStep
<1>4. CASE fready(f)
  <2> DEFINE none == {}
  <2>0. Base /\ FutureInv
    BY DEF IInv, Base
  <2>1. (\A c \in Coros : FutureLocal(c)) /\ FutureTypes /\ FutureCalls
    BY <2>0, FutureOf
  <2>2. prog' = prog /\ result' = result /\ (\A c \in Coros : Frozen(c)) /\ home' = home
    BY <1>1, <1>4 DEF DropPromise, OnFuture, lockVars, semVars, Frozen, Still
  <2>3. Plain(l, none, none)
    BY <1>1, <2>0, <2>2, SamePlain
  <2>n. \A z : z \notin none
    OBVIOUS
  <2> HIDE DEF none
  <2>4. ASSUME NEW d \in Coros PROVE FutureLocal(d)'
    <3>1. (Roused(d)' <=> Roused(d)) /\ (Has(d, "future_erase")' <=> Has(d, "future_erase"))
      BY <2>0, <2>2, <2>3, <2>n, PlainRoused DEF Has
    <3>2. on[d] \in Futures
      BY <2>1 DEF FutureTypes, FutureTypeOK
    <3>3. FutureApart(d)
      BY <1>1, <2>2, <3>1, <3>2 DEF FutureApart, Still, Awaits, fready
    <3> QED
      BY <2>1, <3>3, FutureLocalKept
  <2>5. FutureTypes'
    BY <1>1, <1>2, <2>1, <2>2 DEF FutureTypes, FutureTypeOK
  <2>6. FutureCalls'
    BY <1>1, <2>1, <2>2 DEF FutureCalls, Notifies, fready
  <2>7. FutureInv'
    BY <2>4, <2>5, <2>6, FutureFrom
  <2>8. Others(none, none, LockOps \cup SemOps \cup EventOps, {"await"})
    BY <2>n DEF Others
  <2> QED
    BY <2>3, <2>7, <2>8, FutureOnly
<1> QED
  BY <1>3, <1>4

\* A waiter that is dropped leaves the list.
LEMMA AwaitEraseStep ==
    ASSUME IInv, Unraced', NEW l \in Loops, AwaitErase(l), OnFuture
    PROVE  IInv'
<1> DEFINE none == {}
<1>0. Base /\ FutureInv /\ holds \in [Coros -> Nat] /\ At(l, "future_erase")
  BY DEF IInv, Base, LockInv, Owning, AwaitErase
<1>1. (\A c \in Coros : FutureLocal(c)) /\ FutureTypes /\ FutureCalls
  BY <1>0, FutureOf
<1>2. /\ Still /\ (\A c \in Coros : Frozen(c)) /\ UNCHANGED <<result, promise, consumed, on, got>>
      /\ "future_erase" \in Ordinary
  BY DEF AwaitErase, frames, Still, OnFuture, lockVars, semVars, Frozen, Ordinary
<1>c. PICK c : c = Arg(l)
  OBVIOUS
<1>x. PICK x : x = Head(prog[l])
  OBVIOUS
<1>3. x = <<"future_erase", c>> /\ c \in Coros /\ Has(c, "future_erase") /\ st[c] \in {"run", "gone"} /\ x[1] = "future_erase"
  <2>1. Phase("future_erase") = {"run", "gone"} /\ "future_erase" \in OnCoro
    BY DEF Phase, OnCoro
  <2> QED
    BY <1>0, <1>c, <1>x, <2>1, HeadAt
<1>4. Plain(l, {x}, none)
  BY <1>0, <1>2, <1>x, PopPlain DEF AwaitErase
<1>n. \A z : z \notin none
  OBVIOUS
<1> HIDE DEF none
<1>f. PICK f : f = on[c]
  OBVIOUS
<1>o. f \in Futures /\ on \in [Coros -> Futures] /\ futWaiters \in [Futures -> Seq(Coros)]
  BY <1>1, <1>3, <1>f DEF FutureTypes, FutureTypeOK
<1>s. PICK s : s = Filtered(futWaiters[f], Coros \ {c})
  OBVIOUS
<1>5. futWaiters' = [futWaiters EXCEPT ![f] = s]
  BY <1>c, <1>f, <1>s DEF AwaitErase
<1>6. s \in Seq(Coros) /\ Distinct(s) /\ ToSet(s) = ToSet(futWaiters[f]) \cap (Coros \ {c}) /\ ToSet(futWaiters[f]) \subseteq Coros
  <2>1. futWaiters[f] \in Seq(Coros) /\ Distinct(futWaiters[f])
    BY <1>1, <1>o, FutureMembers
  <2> QED
    BY <1>s, <2>1, FilteredProperties, ToSetProperties
<1>7. /\ futWaiters' \in [Futures -> Seq(Coros)] /\ futWaiters'[f] = s
      /\ \A g \in Futures : g # f => futWaiters'[g] = futWaiters[g]
  BY <1>o, <1>5, <1>6
<1>8. /\ \A d \in Coros, g \in Futures : d # c => (Awaits(g, d)' <=> Awaits(g, d))
      /\ \A g \in Futures : ~Awaits(g, c)'
  <2>1. \A d \in Coros, g \in Futures : d # c => (d \in ToSet(futWaiters'[g]) <=> d \in ToSet(futWaiters[g]))
    BY <1>6, <1>7
  <2>2. \A g \in Futures : g # f => c \notin ToSet(futWaiters[g])
    BY <1>1, <1>3, <1>f DEF FutureLocal, Awaits
  <2>3. \A g \in Futures : c \notin ToSet(futWaiters'[g])
    BY <1>6, <1>7, <2>2
  <2> QED
    BY <2>1, <2>3 DEF Awaits
<1>9. ASSUME NEW d \in Coros PROVE FutureLocal(d)'
  <2>1. Has(d, "future_erase")' <=> (Has(d, "future_erase") /\ <<"future_erase", d>> \notin {x}) \/ <<"future_erase", d>> \in none
    BY <1>0, <1>4, PlainHas DEF OnCoro
  <2>2. Roused(d)' <=> Roused(d)
    BY <1>0, <1>4, <1>n, PlainRoused
  <2>3. CASE d # c
    <3>1. Has(d, "future_erase")' <=> Has(d, "future_erase")
      BY <1>3, <1>n, <2>1, <2>3
    <3>2. on[d] \in Futures
      BY <1>o
    <3>3. FutureApart(d)
      BY <1>2, <1>8, <2>2, <2>3, <3>1, <3>2 DEF FutureApart, Still, fready
    <3> QED
      BY <1>1, <3>3, FutureLocalKept
  <2>4. CASE d = c
    <3>1. (\A g \in Futures : ~Awaits(g, d)') /\ st'[d] # "await" /\ ~Has(d, "future_erase")'
      BY <1>2, <1>3, <1>8, <1>n, <2>1, <2>4 DEF Still
    <3> QED
      BY <3>1 DEF FutureLocal
  <2> QED
    BY <2>3, <2>4
<1>10. FutureTypes'
  <2>1. FutureTypeOK'
    BY <1>1, <1>2, <1>7 DEF FutureTypes, FutureTypeOK
  <2>2. \A g \in Futures : Distinct(futWaiters'[g])
    BY <1>1, <1>6, <1>7 DEF FutureTypes
  <2> QED
    BY <2>1, <2>2 DEF FutureTypes
<1>11. FutureCalls'
  <2>0. Moves(l, {x}, none)
    BY <1>4 DEF Plain
  <2>1. ASSUME NEW g \in Futures PROVE Notifies(g)' <=> Notifies(g)
    <3>z. PICK z : z = <<"future_notify", g>>
      OBVIOUS
    <3>1. z # x
      BY <1>3, <3>z
    <3> QED
      BY <1>n, <2>0, <3>1, <3>z, NotifiesAfter
  <2>2. \A g \in Futures : futWaiters'[g] # <<>> => futWaiters[g] # <<>>
    <3>1. f \in Futures /\ (futWaiters[f] = <<>> => ToSet(futWaiters[f]) = {})
      BY <1>o, ToSetProperties
    <3>2. ToSet(s) = {} => s = <<>>
      BY <1>6, ToSetProperties
    <3> QED
      BY <1>6, <1>7, <3>1, <3>2
  <2>3. \A g \in Futures : fready(g)' <=> fready(g)
    BY <1>2 DEF fready
  <2> QED
    BY <1>1, <2>1, <2>2, <2>3 DEF FutureCalls
<1>12. FutureInv'
  BY <1>9, <1>10, <1>11, FutureFrom
<1>13. Others({x}, none, LockOps \cup SemOps \cup EventOps, {"await"})
  BY <1>3, <1>n DEF Others, LockOps, SemOps, EventOps
<1> QED
  BY <1>4, <1>12, <1>13, FutureOnly

\* The waiters that a notification queues: each is suspended in its await.
LEMMA NotifiedWaits ==
    ASSUME IInv, NEW l \in Loops, At(l, "future_notify"), NEW f \in Futures,
           <<"future_notify", f>> \in ToSet(prog[l]), NEW c \in Coros, Awaits(f, c), st[c] # "gone"
    PROVE  st[c] = "await" /\ ~Has(c, "resume") /\ ~Summoned(c)
<1>0. Base /\ FutureInv /\ holds \in [Coros -> Nat] /\ FrameTypes
  BY DEF IInv, Base, LockInv, Owning
<1>1. FutureLocal(c)
  BY <1>0, FutureOf
<1>2. l \in Active /\ Head(prog[l])[1] = "future_notify"
  BY <1>0, HeadAt
<1>a. \A y \in ToSet(prog[l]) : y[1] \notin {"future_erase", "resume"}
  BY <1>0, AtFacts
<1>3. Escaping(c) => home[c] = l
  <2>1. on[c] = f /\ Unraced
    BY <1>0, <1>1 DEF FutureLocal, Base, Wakes
  <2> QED
    BY <2>1 DEF Unraced, Notifying, Awaits
<1>4. st[c] = "await"
  <2>1. SUFFICES ASSUME Has(c, "future_erase"), st[c] # "await" PROVE FALSE
    BY <1>1 DEF FutureLocal
  <2>2. st[c] = "run"
    <3>1. "future_erase" \in OnCoro /\ Phase("future_erase") = {"run", "gone"}
      BY DEF OnCoro, Phase
    <3> QED
      BY <1>0, <2>1, <3>1 DEF Base, Calling
  <2>3. home[c] = l
    BY <1>3, <2>1, <2>2 DEF Escaping, Has
  <2>4. <<"future_erase", c>>[1] = "future_erase"
    OBVIOUS
  <2> QED
    BY <1>a, <2>1, <2>3, <2>4 DEF Has
<1>5. ~Has(c, "resume")
  <2>1. SUFFICES ASSUME Has(c, "resume") PROVE FALSE
    OBVIOUS
  <2>2. c \in cancelled
    BY <1>1, <1>4, <2>1 DEF FutureLocal, Roused
  <2>3. home[c] = l
    BY <1>3, <2>2 DEF Escaping
  <2>4. <<"resume", c>>[1] = "resume"
    OBVIOUS
  <2> QED
    BY <1>a, <2>1, <2>3, <2>4 DEF Has
<1>6. ~Summoned(c)
  <2>1. epoch[c] = 0
    <3>1. ~Has(c, "event_suspend")
      <4>1. "event_suspend" \in OnCoro /\ Phase("event_suspend") = {"run"}
        BY DEF OnCoro, Phase
      <4> QED
        BY <1>0, <1>4, <4>1 DEF Base, Calling
    <3> QED
      BY <1>0, <1>4, <3>1 DEF Base, Epochs
  <2>2. "schedule" \in OnWaiter
    BY DEF OnWaiter
  <2>3. \A k \in Loops : <<"schedule", <<c, epoch[c]>>>> \notin ToSet(prog[k])
    BY <1>0, <2>1, <2>2, Unknown
  <2> QED
    BY <2>3 DEF Summoned, Now
<1> QED
  BY <1>4, <1>5, <1>6

\* notify(): everybody in the list is queued, and the list is empty.
LEMMA PromiseNotifyStep ==
    ASSUME IInv, Unraced', NEW l \in Loops, PromiseNotify(l), OnFuture
    PROVE  IInv'
<1>0. Base /\ FutureInv /\ holds \in [Coros -> Nat] /\ At(l, "future_notify") /\ FrameTypes
      /\ LockInv /\ SemInv /\ EventInv
  BY DEF IInv, Base, LockInv, Owning, PromiseNotify
<1>1. (\A c \in Coros : FutureLocal(c)) /\ FutureTypes /\ FutureCalls
  BY <1>0, FutureOf
<1>x. PICK x : x = Head(prog[l])
  OBVIOUS
<1>f. PICK f : f = Arg(l)
  OBVIOUS
<1>2. /\ x \in ToSet(prog[l]) /\ l \in Active /\ x[1] = "future_notify" /\ prog[l] # <<>>
      /\ x = <<"future_notify", f>> /\ f \in Futures
  <2>1. x \in Instr /\ x[1] = "future_notify" /\ x[2] = f /\ x \in ToSet(prog[l]) /\ l \in Active /\ prog[l] # <<>>
    BY <1>0, <1>x, <1>f, HeadAt
  <2> QED
    BY <2>1, InstrOf
<1>3. /\ UNCHANGED <<home, st, epoch, waits, cancelled, abandoned, result, promise, consumed, on, got>>
      /\ (\A d \in Coros : Frozen(d)) /\ prog' = [prog EXCEPT ![l] = Tail(prog[l])]
      /\ UNCHANGED <<lockVars, semVars, eventVars>>
      /\ ready' = [k \in Loops |-> ready[k] \o Woken(k, futWaiters[f])]
      /\ futWaiters' = [futWaiters EXCEPT ![f] = <<>>]
  BY <1>f DEF PromiseNotify, OnFuture, lockVars, semVars, frames, Frozen, Then, Rest
<1>4. futWaiters[f] \in Seq(Coros) /\ Distinct(futWaiters[f]) /\ \A c : Awaits(f, c) => c \in Coros
  BY <1>1, <1>2, FutureMembers
<1> DEFINE Q == {c \in Coros : Awaits(f, c) /\ ~Queued(c) /\ st[c] # "gone"}
           old == {x}
<1>y. <<"future_notify", f>> \in ToSet(prog[l])
  BY <1>2
<1>5. \A c \in Q : c \in Coros /\ st[c] = "await" /\ ~Has(c, "resume") /\ ~Summoned(c) /\ Awaits(f, c)
  BY <1>0, <1>2, <1>y, NotifiedWaits
<1>6. ASSUME NEW k \in Loops
      PROVE  /\ ready'[k] \in Seq(Coros) /\ Distinct(ready'[k])
             /\ \A d : d \in ToSet(ready'[k]) <=> d \in ToSet(ready[k]) \/ (d \in Q /\ home[d] = k)
  <2> DEFINE s == Woken(k, futWaiters[f])
  <2>1. s \in Seq(Coros) /\ Distinct(s) /\ \A d : d \in ToSet(s) <=> d \in Q /\ home[d] = k
    <3>1. /\ s \in Seq(Coros) /\ Distinct(s)
          /\ ToSet(s) = ToSet(futWaiters[f]) \cap {c \in Coros : home[c] = k /\ ~Queued(c) /\ st[c] # "gone"}
      BY <1>4, FilteredProperties DEF Woken
    <3> HIDE DEF s
    <3> QED
      BY <3>1 DEF Awaits
  <2>2. ready[k] \in Seq(Coros) /\ Distinct(ready[k])
    BY <1>0 DEF FrameTypes, Base, Wakes
  <2>3. ready'[k] = ready[k] \o s
    BY <1>3
  <2> HIDE DEF s
  <2>4. ToSet(ready[k]) \cap ToSet(s) = {}
    BY <2>1 DEF Queued
  <2>5. ready'[k] \in Seq(Coros) /\ ToSet(ready'[k]) = ToSet(ready[k]) \cup ToSet(s) /\ Distinct(ready'[k])
    BY <2>1, <2>2, <2>3, <2>4, ConcatToSet
  <2> QED
    BY <2>1, <2>5
<1>7. ready' \in [Loops -> Seq(Coros)]
  BY <1>3, <1>6
<1>8. Moves(l, {x}, {})
  <2>1. Head(prog[l])[1] \notin {"sem_guard", "scope"} /\ (\A k \in Loops : Shape(k)) /\ home' = home
    BY <1>0, <1>2, <1>3, <1>x DEF Base, Calling
  <2>2. Moves(l, {Head(prog[l])}, {})
    BY <1>0, <1>2, <1>3, <2>1, PopMoves
  <2> QED
    BY <1>x, <2>2
<1>9. Flagged
  BY <1>0, <1>3 DEF Flagged, FrameTypes, Base, Wakes
<1>10. (\A y \in old : y = x) /\ x \in old /\ old \subseteq ToSet(prog[l])
  BY <1>2
<1>11. Moves(l, old, {})
  BY <1>8
<1>12. \A d \in Coros : <<"schedule", Now(d)>> \notin old /\ <<"future_schedule", d>> \notin old
  BY <1>2, <1>10
<1>q. \A c : c \in Q <=> c \in Coros /\ Awaits(f, c) /\ ~Queued(c) /\ st[c] # "gone"
  OBVIOUS
<1> HIDE DEF Q, old
<1>13. \A c \in Q : Suspended(c)
  BY <1>5 DEF Suspended
<1>14. Wake(l, old, Q)
  BY <1>2, <1>3, <1>5, <1>6, <1>7, <1>9, <1>10, <1>11, <1>12, <1>13 DEF Wake
<1>15. Base' /\ LockInv' /\ SemInv' /\ EventInv'
  <2>1. /\ WakeSpares(old, Q, LockOps, {"lock", "cond"}) /\ WakeSpares(old, Q, SemOps, {"acquire"})
        /\ WakeSpares(old, Q, EventOps, {"wait"})
    BY <1>2, <1>5, <1>10 DEF WakeSpares, LockOps, SemOps, EventOps
  <2> QED
    BY <1>0, <1>3, <1>14, <2>1, WakeOthers
<1>16. /\ futWaiters' \in [Futures -> Seq(Coros)] /\ futWaiters'[f] = <<>>
       /\ \A g \in Futures : g # f => futWaiters'[g] = futWaiters[g]
  <2>1. futWaiters \in [Futures -> Seq(Coros)] /\ <<>> \in Seq(Coros)
    BY <1>1, NoWaiters DEF FutureTypes, FutureTypeOK
  <2> QED
    BY <1>2, <1>3, <2>1
<1>17. /\ \A g \in Futures : \A c : g # f => (Awaits(g, c)' <=> Awaits(g, c))
       /\ \A c : ~Awaits(f, c)'
       /\ \A g \in Futures : fready(g)' <=> fready(g)
       /\ fready(f)
  <2>1. ToSet(<<>>) = {}
    BY NoWaiters
  <2>2. Notifies(f)
    BY <1>2 DEF Notifies
  <2>3. \A g \in Futures : fready(g)' <=> fready(g)
    BY <1>3 DEF fready
  <2>4. \A c : ~Awaits(f, c)'
    BY <1>16, <2>1 DEF Awaits
  <2>5. \A g \in Futures : \A c : g # f => (Awaits(g, c)' <=> Awaits(g, c))
    BY <1>16 DEF Awaits
  <2> QED
    BY <1>1, <1>2, <2>2, <2>3, <2>4, <2>5 DEF FutureCalls
<1>18. ASSUME NEW d \in Coros PROVE FutureLocal(d)'
  <2>1. Has(d, "future_erase")' <=> Has(d, "future_erase")
    <3>1. Has(d, "future_erase")' <=> Has(d, "future_erase") /\ <<"future_erase", d>> \notin old
      BY <1>0, <1>14, WakeHas DEF OnCoro
    <3>2. <<"future_erase", d>> # x
      BY <1>2
    <3> QED
      BY <1>10, <3>1, <3>2
  <2>2. Roused(d)' <=> Roused(d) \/ d \in Q
    BY <1>0, <1>14, WakeRoused
  <2>3. on[d] \in Futures
    BY <1>1 DEF FutureTypes, FutureTypeOK
  <2>4. CASE ~Awaits(f, d)
    <3>1. FutureApart(d)
      BY <1>3, <1>5, <1>17, <2>1, <2>2, <2>3, <2>4 DEF FutureApart
    <3> QED
      BY <1>1, <3>1, FutureLocalKept
  <2>5. CASE Awaits(f, d)
    <3>1. on[d] = f /\ \A g \in Futures : ~Awaits(g, d)'
      BY <1>1, <1>2, <1>17, <2>5 DEF FutureLocal
    <3>2. fready(on[d])' /\ ~Awaits(on[d], d)'
      BY <1>3, <1>17, <3>1 DEF Awaits, fready
    <3> QED
      BY <1>1, <1>3, <2>1, <3>1, <3>2 DEF FutureLocal
  <2> QED
    BY <2>4, <2>5
<1>19. FutureTypes'
  <2>1. FutureTypeOK'
    BY <1>1, <1>3, <1>16 DEF FutureTypes, FutureTypeOK
  <2>2. \A g \in Futures : Distinct(futWaiters'[g])
    BY <1>1, <1>16, NoWaiters DEF FutureTypes
  <2> QED
    BY <2>1, <2>2 DEF FutureTypes
<1>20. FutureCalls'
  <2>1. ASSUME NEW g \in Futures
        PROVE  (Notifies(g)' => Notifies(g)) /\ (g # f => (Notifies(g)' <=> Notifies(g)))
    <3>z. PICK z : z = <<"future_notify", g>>
      OBVIOUS
    <3>n. PICK none : none = {}
      OBVIOUS
    <3>1. Moves(l, old, none) /\ \A y : y \notin none
      BY <1>11, <3>n
    <3>2. g # f => z \notin old
      BY <1>2, <1>10, <3>z
    <3> QED
      BY <3>1, <3>2, <3>z, NotifiesAfter
  <2> QED
    BY <1>1, <1>16, <1>17, <2>1 DEF FutureCalls
<1>21. FutureInv'
  BY <1>18, <1>19, <1>20, FutureFrom
<1> QED
  BY <1>15, <1>21 DEF IInv, Base

\* await_resume, as far as the types go.
LEMMA AwaitTypes ==
    ASSUME FutureTypes, NEW c \in Coros, NEW f \in Futures, await_resume(c, f)
    PROVE  /\ consumed' \subseteq Futures
           /\ got' \in [Coros -> Outcomes \cup {"none", "nothing", "logic_error"}]
<1>1. /\ consumed \subseteq Futures /\ result[f] \in Outcomes \cup {"none"}
      /\ got \in [Coros -> Outcomes \cup {"none", "nothing", "logic_error"}]
  BY DEF FutureTypes, FutureTypeOK
<1>2. consumed' \subseteq Futures
  BY <1>1, FutureAssumption DEF await_resume
<1>v. PICK v : v = IF f \in consumed THEN "logic_error" ELSE result[f]
  OBVIOUS
<1>3. v \in Outcomes \cup {"none", "nothing", "logic_error"} /\ got' = [got EXCEPT ![c] = v]
  BY <1>1, <1>v DEF await_resume
<1> QED
  BY <1>1, <1>2, <1>3

\* co_await future: the result is there, or await_suspend follows.
LEMMA AwaitStep ==
    ASSUME IInv, Unraced', NEW c \in Coros, NEW f \in Futures, Await(c, f), OnFuture
    PROVE  IInv'
<1> DEFINE y == <<"future_suspend", c>>
           new == IF fready(f) THEN {} ELSE {y}
<1>l. PICK l : l = home[c]
  OBVIOUS
<1>0. Base /\ FutureInv /\ holds \in [Coros -> Nat] /\ FrameTypes /\ Calls(c)
  BY DEF IInv, Base, LockInv, Owning, Await
<1>1. (\A d \in Coros : FutureLocal(d)) /\ FutureTypes /\ FutureCalls
  BY <1>0, FutureOf
<1>2. /\ l \in Loops /\ l \in Active /\ st[c] = "run" /\ ToSet(prog[l]) = {} /\ (\A op : ~Has(c, op)) /\ ~Roused(c)
      /\ epoch[c] = 0 /\ prog[l] = <<>>
  BY <1>0, <1>l, IdleFacts DEF Idle
<1>3. /\ UNCHANGED <<home, st, epoch, cancelled, abandoned, ready, result, promise, futWaiters>>
      /\ waits' = [waits EXCEPT ![c] = @ + 1] /\ on' = [on EXCEPT ![c] = f]
      /\ IF fready(f) THEN await_resume(c, f) /\ prog' = prog
         ELSE Then(l, <<y>>) /\ got' = [got EXCEPT ![c] = "nothing"] /\ consumed' = consumed
      /\ holds' = holds /\ inside' = inside
  BY <1>l DEF Await, OnFuture, lockVars, semVars
<1>4. y \in Instr /\ y[1] = "future_suspend" /\ y[2] = c /\ (\A z \in new : z = y)
  BY IsInstr DEF OnCoro
<1>y. y = <<"future_suspend", c>>
  OBVIOUS
<1>s. y # <<"event_suspend", c>> /\ y # <<"future_erase", c>> /\ y # <<"future_schedule", c>>
  OBVIOUS
<1> HIDE DEF y
<1>5. Moves(l, ToSet(prog[l]), new)
  <2>3. (\A d \in Coros : Frozen(d)) /\ (\A k \in Loops : Shape(k)) /\ home' = home
    BY <1>0, <1>3 DEF Frozen, Base, Calling
  <2>4. CASE ~fready(f)
    <3> DEFINE p == <<y>>
    <3>1. p \in Seq(Instr) /\ ToSet(p) = {y}
      BY <1>4, Single
    <3>2. Form(Gone(l)', holds', inside', p)
      BY <1>4, SingleForm
    <3>3. Then(l, p)
      BY <1>3, <2>4
    <3> HIDE DEF p
    <3>4. Moves(l, ToSet(prog[l]), ToSet(p))
      BY <1>0, <1>2, <2>3, <3>1, <3>2, <3>3, LoneMoves
    <3> QED
      BY <2>4, <3>1, <3>4
  <2>5. CASE fready(f)
    <3>1. prog' = prog
      BY <1>3, <2>5
    <3>2. Moves(l, {}, {})
      BY <1>0, <1>2, <2>3, <3>1, SameMoves
    <3> QED
      BY <1>2, <2>5, <3>2
  <2> QED
    BY <2>4, <2>5
<1>n. y \in new <=> ~fready(f)
  OBVIOUS
<1> HIDE DEF new
<1>6. /\ waits' \in [Coros -> Nat] /\ waits'[c] = waits[c] + 1 /\ waits[c] \in Nat
      /\ \A d \in Coros : d # c => waits'[d] = waits[d]
  BY <1>0, <1>3 DEF FrameTypes
<1>7. Turn(c, new)
  <2>1. waits[c] <= waits'[c] /\ epoch'[c] = 0 /\ 0 <= waits'[c]
    BY <1>2, <1>3, <1>6
  <2>2. ~Queued(c)
    BY <1>2 DEF Roused
  <2>3. \A z \in new : Owned(c, z)
    BY <1>2, <1>3, <1>4 DEF Owned, OnCoro, OnWaiter, Phase
  <2>4. st' \in [Coros -> States] /\ abandoned' \subseteq Coros /\ epoch' \in [Coros -> Nat]
    BY <1>0, <1>3 DEF FrameTypes
  <2>5. <<"event_suspend", c>> \notin new
    BY <1>4, <1>s
  <2> QED
    BY <1>2, <1>3, <1>5, <1>6, <1>l, <2>1, <2>2, <2>3, <2>4, <2>5 DEF Turn
<1>8. /\ \A d \in Coros : d # c => Apart(d)
      /\ (\A op \in OnCoro : Has(c, op)' <=> <<op, c>> \in new) /\ Growing /\ home' = home
  BY <1>0, <1>7, TurnApart
<1>o. on' \in [Coros -> Futures] /\ on'[c] = f /\ (\A d \in Coros : d # c => on'[d] = on[d]) /\ on \in [Coros -> Futures]
  BY <1>1, <1>3 DEF FutureTypes, FutureTypeOK
<1>9. \A g \in Futures : ~Awaits(g, c)
  BY <1>1, <1>2 DEF FutureLocal
<1>10. \A g \in Futures : (fready(g)' <=> fready(g)) /\ \A d : (Awaits(g, d)' <=> Awaits(g, d))
  BY <1>3 DEF fready, Awaits
<1>12. ASSUME NEW d \in Coros PROVE FutureLocal(d)'
  <2>1. CASE d # c
    <3>1. on[d] \in Futures /\ on'[d] = on[d] /\ (Has(d, "future_erase")' <=> Has(d, "future_erase"))
      BY <1>8, <1>o, <2>1 DEF Apart, OnCoro
    <3>2. FutureApart(d)
      BY <1>8, <1>10, <2>1, <3>1 DEF FutureApart, Apart
    <3> QED
      BY <1>1, <3>2, FutureLocalKept
  <2>2. CASE d = c
    <3>1. st'[d] = "run" /\ \A g \in Futures : ~Awaits(g, d)'
      BY <1>2, <1>3, <1>9, <1>10, <2>2
    <3>2. ~Has(d, "future_erase")'
      <4>1. Has(c, "future_erase")' <=> <<"future_erase", c>> \in new
        BY <1>8 DEF OnCoro
      <4> QED
        BY <1>4, <1>s, <2>2, <4>1
    <3> QED
      BY <3>1, <3>2 DEF FutureLocal
  <2> QED
    BY <2>1, <2>2
<1>13. FutureCalls'
  <2>1. ASSUME NEW g \in Futures PROVE Notifies(g)' <=> Notifies(g)
    <3>z. PICK z : z = <<"future_notify", g>>
      OBVIOUS
    <3>1. z # y /\ z \notin new /\ z \notin ToSet(prog[l])
      BY <1>2, <1>4, <3>z
    <3> QED
      BY <1>2, <1>5, <3>1, <3>z, NotifiesAfter
  <2> QED
    BY <1>1, <1>3, <1>10, <2>1 DEF FutureCalls
<1>14. FutureTypes'
  <2>1. consumed' \subseteq Futures /\ got' \in [Coros -> Outcomes \cup {"none", "nothing", "logic_error"}]
    <3>1. CASE fready(f)
      BY <1>1, <1>3, <3>1, AwaitTypes
    <3>2. CASE ~fready(f)
      <4>1. got' = [got EXCEPT ![c] = "nothing"] /\ consumed' = consumed
        BY <1>3, <3>2
      <4>2. got \in [Coros -> Outcomes \cup {"none", "nothing", "logic_error"}] /\ consumed \subseteq Futures
        BY <1>1 DEF FutureTypes, FutureTypeOK
      <4> QED
        BY <4>1, <4>2
    <3> QED
      BY <3>1, <3>2
  <2>2. UNCHANGED <<result, promise, futWaiters>>
    BY <1>3
  <2> QED
    BY <1>1, <1>o, <2>1, <2>2 DEF FutureTypes, FutureTypeOK
<1>15. FutureInv'
  BY <1>12, <1>13, <1>14, FutureFrom
<1>16. \A z \in ToSet(prog[home[c]]) \cup new : z[1] \notin LockOps \cup SemOps \cup EventOps
  BY <1>2, <1>4, <1>l DEF LockOps, SemOps, EventOps
<1> QED
  BY <1>2, <1>3, <1>7, <1>15, <1>16, FutureTurn

\* await_suspend: in the list, or on the way already if the result came meanwhile.
LEMMA AwaitSuspendStep ==
    ASSUME IInv, Unraced', NEW l \in Loops, AwaitSuspend(l), OnFuture
    PROVE  IInv'
<1>0. Base /\ FutureInv /\ holds \in [Coros -> Nat] /\ FrameTypes /\ At(l, "future_suspend")
  BY DEF IInv, Base, LockInv, Owning, AwaitSuspend
<1>1. (\A d \in Coros : FutureLocal(d)) /\ FutureTypes /\ FutureCalls
  BY <1>0, FutureOf
<1>c. PICK c : c = Arg(l)
  OBVIOUS
<1>f. PICK f : f = on[c]
  OBVIOUS
<1>2. /\ Rest(l) = <<>> /\ c \in Coros /\ home[c] = l /\ Has(c, "future_suspend") /\ st[c] = "run"
      /\ (\A y : y \in ToSet(prog[l]) <=> y = <<"future_suspend", c>>)
      /\ \A y \in ToSet(prog[l]) : y[1] \in OnCoro /\ y[2] = c
  <2>1. "future_suspend" \in Alone /\ "future_suspend" \in OnCoro /\ Phase("future_suspend") = {"run"}
    BY DEF Alone, OnCoro, Phase
  <2> QED
    BY <1>0, <1>c, <2>1, LoneCall
<1> DEFINE y == <<"future_schedule", c>>
           new == IF fready(f) THEN {y} ELSE {}
<1>3. /\ UNCHANGED <<home, epoch, waits, cancelled, abandoned, ready, result, promise, consumed, on, got>>
      /\ st' = [st EXCEPT ![c] = "await"]
      /\ IF fready(f) THEN Then(l, <<y>>) /\ futWaiters' = futWaiters
         ELSE futWaiters' = [futWaiters EXCEPT ![f] = Append(@, c)] /\ Then(l, <<>>)
      /\ holds' = holds /\ inside' = inside
  BY <1>2, <1>c, <1>f DEF AwaitSuspend, OnFuture, lockVars, semVars
<1>4. y \in Instr /\ y[1] = "future_schedule" /\ y[2] = c /\ (\A z \in new : z = y)
  BY <1>2, IsInstr DEF OnCoro
<1>y. y = <<"future_schedule", c>>
  OBVIOUS
<1>s. y # <<"event_suspend", c>> /\ y # <<"future_erase", c>>
  OBVIOUS
<1> HIDE DEF y
<1>st. st' \in [Coros -> States] /\ st'[c] = "await" /\ \A d \in Coros : d # c => st'[d] = st[d]
  BY <1>0, <1>2, <1>3 DEF FrameTypes, States
<1>5. Moves(l, ToSet(prog[l]), new)
  <2>3. \A d \in Coros : home[d] # l => Frozen(d)
    BY <1>2, <1>3, <1>st DEF Frozen
  <2>4. CASE fready(f)
    <3> DEFINE p == <<y>>
    <3>1. p \in Seq(Instr) /\ ToSet(p) = {y}
      BY <1>4, Single
    <3>2. Form(Gone(l)', holds', inside', p)
      BY <1>4, SingleForm
    <3>3. Then(l, p) /\ home' = home
      BY <1>3, <2>4
    <3> HIDE DEF p
    <3>4. Moves(l, ToSet(prog[l]), ToSet(p))
      BY <1>0, <1>2, <2>3, <3>1, <3>2, <3>3, LoneMoves
    <3> QED
      BY <2>4, <3>1, <3>4
  <2>5. CASE ~fready(f)
    <3>1. Form(Gone(l)', holds', inside', <<>>) /\ <<>> \in Seq(Instr) /\ ToSet(<<>>) = {} /\ home' = home
      BY <1>3, NoForm, NoWaiters
    <3>2. Then(l, <<>>)
      BY <1>3, <2>5
    <3>3. Moves(l, ToSet(prog[l]), ToSet(<<>>))
      BY <1>0, <2>3, <3>1, <3>2, LoneMoves
    <3> QED
      BY <2>5, <3>1, <3>3
  <2> QED
    BY <2>4, <2>5
<1>n. y \in new <=> fready(f)
  OBVIOUS
<1> HIDE DEF new
<1>6. epoch[c] = 0 /\ waits[c] \in Nat /\ ~Queued(c) /\ ~Roused(c)
  <2>1. ~Has(c, "event_suspend")
    <3>1. <<"event_suspend", c>> # <<"future_suspend", c>>
      OBVIOUS
    <3> QED
      BY <1>2, <3>1 DEF Has
  <2>2. epoch[c] = 0
    BY <1>0, <1>2, <2>1 DEF Base, Epochs
  <2> QED
    BY <1>0, <1>2, <2>2 DEF Base, Wakes, Roused, Suspended, FrameTypes
<1>7. Turn(c, new)
  <2>1. waits[c] <= waits'[c] /\ epoch'[c] = 0 /\ 0 <= waits'[c]
    BY <1>3, <1>6
  <2>3. \A z \in new : Owned(c, z)
    BY <1>4, <1>st DEF Owned, OnCoro, OnWaiter, Phase
  <2>4. /\ waits' \in [Coros -> Nat] /\ abandoned' \subseteq Coros /\ epoch' \in [Coros -> Nat]
        /\ \A d \in Coros : d # c => epoch'[d] = epoch[d] /\ waits'[d] = waits[d]
    BY <1>0, <1>3 DEF FrameTypes
  <2>5. <<"event_suspend", c>> \notin new
    BY <1>4, <1>s
  <2> QED
    BY <1>2, <1>3, <1>5, <1>6, <1>st, <2>1, <2>3, <2>4, <2>5 DEF Turn
<1>8. /\ \A d \in Coros : d # c => Apart(d)
      /\ (\A op \in OnCoro : Has(c, op)' <=> <<op, c>> \in new) /\ Growing /\ home' = home
      /\ Roused(c)' <=> y \in new
  BY <1>0, <1>2, <1>7, <1>y, TurnApart
<1>o. f \in Futures /\ on \in [Coros -> Futures] /\ futWaiters \in [Futures -> Seq(Coros)]
  BY <1>1, <1>2, <1>f DEF FutureTypes, FutureTypeOK
<1>9. \A g \in Futures : ~Awaits(g, c)
  <2>1. ~Has(c, "future_erase")
    <3>1. <<"future_erase", c>> # <<"future_suspend", c>>
      OBVIOUS
    <3> QED
      BY <1>2, <3>1 DEF Has
  <2> QED
    BY <1>1, <1>2, <2>1 DEF FutureLocal
<1>10. /\ futWaiters' \in [Futures -> Seq(Coros)] /\ (\A g \in Futures : Distinct(futWaiters'[g]))
       /\ \A g \in Futures : \A d : d \in ToSet(futWaiters'[g]) <=> d \in ToSet(futWaiters[g]) \/ (g = f /\ d = c /\ ~fready(f))
       /\ \A g \in Futures : fready(g) => futWaiters'[g] = futWaiters[g]
  <2>1. CASE fready(f)
    BY <1>1, <1>3, <1>o, <2>1 DEF FutureTypes
  <2>2. CASE ~fready(f)
    <3>s. PICK s : s = Append(futWaiters[f], c)
      OBVIOUS
    <3>1. futWaiters[f] \in Seq(Coros) /\ Distinct(futWaiters[f]) /\ c \notin ToSet(futWaiters[f])
      BY <1>1, <1>9, <1>o DEF FutureTypes, Awaits
    <3>2. s \in Seq(Coros) /\ ToSet(s) = ToSet(futWaiters[f]) \cup {c} /\ Distinct(s)
      BY <1>2, <3>1, <3>s, AppendToSet
    <3>3. futWaiters' = [futWaiters EXCEPT ![f] = s]
      BY <1>3, <2>2, <3>s
    <3>4. futWaiters' \in [Futures -> Seq(Coros)] /\ futWaiters'[f] = s /\ \A g \in Futures : g # f => futWaiters'[g] = futWaiters[g]
      BY <1>o, <3>2, <3>3
    <3>5. \A g \in Futures : Distinct(futWaiters'[g])
      BY <1>1, <3>2, <3>4 DEF FutureTypes
    <3> QED
      BY <2>2, <3>2, <3>4, <3>5
  <2> QED
    BY <2>1, <2>2
<1>11. \A g \in Futures : fready(g)' <=> fready(g)
  BY <1>3 DEF fready
<1>a. \A g \in Futures, d \in Coros : Awaits(g, d)' <=> Awaits(g, d) \/ (g = f /\ d = c /\ ~fready(f))
  BY <1>10 DEF Awaits
<1>12. ASSUME NEW d \in Coros PROVE FutureLocal(d)'
  <2>1. CASE d # c
    <3>1. on[d] \in Futures /\ on'[d] = on[d] /\ (Has(d, "future_erase")' <=> Has(d, "future_erase"))
      BY <1>3, <1>8, <1>o, <2>1 DEF Apart, OnCoro
    <3>2. FutureApart(d)
      BY <1>8, <1>a, <1>11, <2>1, <3>1 DEF FutureApart, Apart
    <3> QED
      BY <1>1, <3>2, FutureLocalKept
  <2>2. CASE d = c
    <3>1. on'[d] = f /\ \A g \in Futures : Awaits(g, d)' <=> g = f /\ ~fready(f)
      BY <1>2, <1>3, <1>9, <1>a, <1>f, <2>2
    <3>2. (Awaits(on[d], d)' <=> ~fready(f)) /\ (fready(on[d])' <=> fready(f)) /\ (Roused(d)' <=> fready(f))
      <4>1. (Awaits(on[d], d)' <=> d \in ToSet(futWaiters'[on'[d]])) /\ (fready(on[d])' <=> result'[on'[d]] # "none")
        BY DEF Awaits, fready
      <4>2. (Awaits(f, d)' <=> d \in ToSet(futWaiters'[f])) /\ (fready(f)' <=> result'[f] # "none")
        BY DEF Awaits, fready
      <4> QED
        BY <1>8, <1>11, <1>n, <1>o, <2>2, <3>1, <4>1, <4>2
    <3> QED
      BY <1>st, <2>2, <3>1, <3>2 DEF FutureLocal
  <2> QED
    BY <2>1, <2>2
<1>13. FutureCalls'
  <2>1. ASSUME NEW g \in Futures PROVE Notifies(g)' <=> Notifies(g)
    <3>z. PICK z : z = <<"future_notify", g>>
      OBVIOUS
    <3>1. z # y /\ z # <<"future_suspend", c>>
      BY <1>4, <3>z
    <3>2. z \notin new /\ z \notin ToSet(prog[l])
      BY <1>2, <1>4, <3>1
    <3> QED
      BY <1>5, <3>2, <3>z, NotifiesAfter
  <2> QED
    BY <1>1, <1>10, <1>11, <2>1 DEF FutureCalls
<1>14. FutureTypes'
  BY <1>1, <1>3, <1>10 DEF FutureTypes, FutureTypeOK
<1>15. FutureInv'
  BY <1>12, <1>13, <1>14, FutureFrom
<1>16. \A z \in ToSet(prog[home[c]]) \cup new : z[1] \notin LockOps \cup SemOps \cup EventOps
  <2>1. <<"future_suspend", c>>[1] = "future_suspend"
    OBVIOUS
  <2> QED
    BY <1>2, <1>4, <2>1 DEF LockOps, SemOps, EventOps
<1> QED
  BY <1>2, <1>7, <1>15, <1>16, <1>st, FutureTurn

-----------------------------------------------------------------------------
(* The frames.                                                             *)

\* The loop takes the next entry of its ready queue.
LEMMA PopStep ==
    ASSUME IInv, Unraced', NEW l \in Loops, l \in Active, PopNext(l)
    PROVE  IInv'
<1>0. Base /\ holds \in [Coros -> Nat] /\ LockInv /\ SemInv /\ EventInv /\ FutureInv /\ FrameTypes
  BY DEF IInv, Base, LockInv, Owning
<1>1. Pop(l) /\ UNCHANGED <<holds, inside>> /\ UNCHANGED <<lockVars, semVars, eventVars, futVars>>
  BY DEF PopNext, OnFrames, lockVars, semVars
<1>x. PICK x : x = <<"resume", Head(ready[l])>>
  OBVIOUS
<1>n. PICK none : none = {}
  OBVIOUS
<1>e. PICK new : new = {x}
  OBVIOUS
<1>2. /\ Base' /\ Moves(l, none, new)
      /\ \A c \in Coros : Now(c)' = Now(c) /\ (Roused(c)' <=> Roused(c))
      /\ \A c \in Coros, op \in OnCoro \ {"resume"} : Has(c, op)' <=> Has(c, op)
  BY <1>0, <1>1, <1>x, <1>n, <1>e, PopBase
<1>3. x[1] = "resume" /\ (\A y : y \notin none) /\ \A y \in new : y = x
  BY <1>x, <1>n, <1>e
<1>4. Retains(LockOps) /\ Retains(SemOps) /\ Retains(EventOps) /\ Retains(FutureOps)
  <2>1. \A ops \in {LockOps, SemOps, EventOps, FutureOps} :
            "scope" \notin ops /\ \A y \in none \cup new : y[1] \notin ops
    BY <1>3 DEF LockOps, SemOps, EventOps, FutureOps
  <2> QED
    BY <1>2, <2>1, MovesRetains
<1>5. UNCHANGED <<home, st, epoch, waits, cancelled>>
  BY <1>1 DEF Pop, frames
<1>6. \A S : Undisturbed(S)
  BY <1>0, <1>2, <1>5 DEF Undisturbed, Growing, Rests, FrameTypes
<1>7. LockInv'
  BY <1>0, <1>1, <1>4, <1>5, <1>6, LockKept
<1>8. SemInv' /\ EventInv'
  BY <1>0, <1>1, <1>4, <1>5, <1>6, SemKept, EventKept
<1>9. FutureInv'
  BY <1>0, <1>1, <1>4, <1>5, <1>6, FutureKept
<1> QED
  BY <1>2, <1>7, <1>8, <1>9 DEF IInv, Base

\* What a frame that is destroyed runs: the awaiter's part, then the guards.
LEMMA DestroyedAs ==
    ASSUME holds \in [Coros -> Nat], NEW c \in Coros, NEW g, g = Guards(c, holds[c], c \in inside),
           Unwind(c) \in Seq(Instr)
    PROVE  Destroyed(c) = Unwind(c) \o g /\ g \in Seq(Instr) /\ ToSet(g) \subseteq {<<"sem_guard", c>>, <<"scope", c>>}
<1> DEFINE u == Unwind(c)
           a == IF c \in inside THEN <<<<"sem_guard", c>>>> ELSE <<>>
           s == Scopes(c, holds[c])
<1>1. a \in Seq(Instr)
  <2>1. <<"sem_guard", c>> \in Instr
    BY IsInstr DEF OnCoro
  <2>2. <<>> \in Seq(Instr)
    BY NoWaiters
  <2> QED
    BY <2>1, <2>2
<1>2. s \in Seq(Instr)
  BY ScopesProperties
<1>3. Destroyed(c) = (u \o a) \o s /\ g = a \o s /\ u \in Seq(Instr)
  BY DEF Destroyed, Scopes, Guards
<1> HIDE DEF u, a, s
<1>4. (u \o a) \o s = u \o (a \o s)
  BY ONLY <1>1, <1>2, <1>3, ConcatAssociative
<1>5. holds[c] \in Nat /\ (c \in inside) \in BOOLEAN
  OBVIOUS
<1>6. g \in Seq(Instr) /\ ToSet(g) \subseteq {<<"sem_guard", c>>, <<"scope", c>>}
  BY <1>5, GuardsProperties
<1> QED
  BY <1>3, <1>4, <1>6 DEF u

\* An instruction in front of a call.
LEMMA LedInstr ==
    ASSUME NEW y \in Instr, NEW s \in Seq(Instr), NEW p, p = Led(y, s)
    PROVE  p \in Seq(Instr) /\ p # <<>> /\ Head(p) = y /\ Tail(p) = s /\ ToSet(p) = {y} \cup ToSet(s)
<1>1. /\ Led(y, s) \in Seq(Instr) /\ Led(y, s) # <<>>
      /\ Head(Led(y, s)) = y /\ Tail(Led(y, s)) = s
      /\ ToSet(Led(y, s)) = {y} \cup ToSet(s)
  BY ONLY y \in Instr, s \in Seq(Instr), Prefixed
<1> QED
  BY <1>1

\* A waiter that has one thing to undo before its Guards.
LEMMA DroppedOne ==
    ASSUME holds \in [Coros -> Nat], NEW c \in Coros,
           NEW op \in {"erase_lock", "sem_remove", "event_erase", "future_erase"}, NEW x, x = <<op, c>>,
           Unwind(c) = <<x>>, op = "erase_lock" => holds[c] = 0,
           NEW p, p = Destroyed(c)
    PROVE  /\ Unwind(c) \in Seq(Instr) /\ ToSet(Unwind(c)) = {x}
           /\ \A G, h, I : Form(G, h, I, Unwind(c))
           /\ p \in Seq(Instr) /\ x \in ToSet(p)
           /\ \A y \in ToSet(p) : y = x \/ y \in {<<"sem_guard", c>>, <<"scope", c>>}
           /\ \A G \in SUBSET Coros : c \in G => Form(G, holds, inside, p)
<1>1. x \in Instr /\ x[1] = op
  BY IsInstr DEF OnCoro
<1>2. Unwind(c) \in Seq(Instr) /\ ToSet(Unwind(c)) = {x}
  BY <1>1, Single
<1>3. \A G, h, I : Form(G, h, I, Unwind(c))
  BY <1>1, SingleForm
<1>g. PICK g : g = Guards(c, holds[c], c \in inside)
  OBVIOUS
<1>4. p = Unwind(c) \o g /\ g \in Seq(Instr) /\ ToSet(g) \subseteq {<<"sem_guard", c>>, <<"scope", c>>}
  BY <1>2, <1>g, DestroyedAs
<1>5. p = Led(x, g)
  BY <1>4 DEF Led
<1>6. p \in Seq(Instr) /\ p # <<>> /\ Head(p) = x /\ Tail(p) = g /\ ToSet(p) = {x} \cup ToSet(g)
  BY <1>1, <1>4, <1>5, LedInstr
<1>7. Undoing(c, holds[c], c \in inside, x, g)
  <2>1. op = "erase_lock" => x \in {<<"erase_lock", c>>, <<"release">>, <<"guard", c>>} /\ holds[c] = 0
    OBVIOUS
  <2>2. op # "erase_lock" => x \in {<<"sem_remove", c>>, <<"sem_release">>, <<"event_erase", c>>, <<"future_erase", c>>}
    OBVIOUS
  <2> QED
    BY <1>g, <2>1, <2>2 DEF Undoing
<1>8. ASSUME NEW G \in SUBSET Coros, c \in G PROVE Form(G, holds, inside, p)
  BY <1>6, <1>7, <1>8 DEF Form, Fits
<1> QED
  BY <1>2, <1>3, <1>4, <1>6, <1>8

\* A list of three members.
LEMMA Triple ==
    ASSUME NEW T, NEW a \in T, NEW b \in T, NEW d \in T
    PROVE  <<a, b, d>> = <<a>> \o (<<b>> \o <<d>>)
<1> DEFINE u == <<a>>
           t == <<b, d>>
           p == <<a, b, d>>
           q == u \o t
<1>1. u \in Seq(T) /\ Len(u) = 1 /\ u[1] = a
  OBVIOUS
<1>2. t \in Seq(T) /\ Len(t) = 2 /\ t[1] = b /\ t[2] = d
  OBVIOUS
<1>3. p \in Seq(T) /\ Len(p) = 3 /\ p[1] = a /\ p[2] = b /\ p[3] = d
  OBVIOUS
<1>4. t = <<b>> \o <<d>>
  <2>1. <<b, d>> = Led(b, <<d>>)
    BY Pair
  <2> QED
    BY <2>1 DEF Led
<1>5. p = <<a, b, d>> /\ u = <<a>>
  OBVIOUS
<1> HIDE DEF u, t, p
<1>6. q \in Seq(T) /\ Len(q) = 3 /\ \A i \in 1..3 : q[i] = IF i <= 1 THEN u[i] ELSE t[i - 1]
  <2>1. 1 + 2 = 3
    OBVIOUS
  <2>2. /\ u \o t \in Seq(T) /\ Len(u \o t) = Len(u) + Len(t)
        /\ \A i \in 1..(Len(u) + Len(t)) : (u \o t)[i] = IF i <= Len(u) THEN u[i] ELSE t[i - Len(u)]
    BY ONLY <1>1, <1>2, ConcatProperties
  <2> QED
    BY <1>1, <1>2, <2>1, <2>2
<1> HIDE DEF q
<1>7. q[1] = a /\ q[2] = b /\ q[3] = d
  <2>1. 1 \in 1..3 /\ 2 \in 1..3 /\ 3 \in 1..3 /\ 2 - 1 = 1 /\ 3 - 1 = 2
    OBVIOUS
  <2> QED
    BY <1>1, <1>2, <1>6, <2>1
<1>8. \A i \in 1..3 : q[i] = p[i]
  BY <1>3, <1>7
<1>9. q = p
  BY <1>3, <1>6, <1>8, SeqEqual
<1> QED
  BY <1>4, <1>5, <1>9 DEF q

\* What the destruction of a waiter of the condition has to undo.
LEMMA DroppedWait ==
    ASSUME holds \in [Coros -> Nat], NEW c \in Coros, holds[c] = 0, st[c] = "cond", NEW p, p = Destroyed(c)
    PROVE  /\ p \in Seq(Instr) /\ \A op \in {"erase_cond", "erase_lock", "guard"} : <<op, c>> \in ToSet(p)
           /\ \A y \in ToSet(p) : \E op \in {"erase_cond", "erase_lock", "guard", "sem_guard", "scope"} : y = <<op, c>>
           /\ \A G \in SUBSET Coros : c \in G => Form(G, holds, inside, p)
<1>a. PICK a : a = <<"erase_cond", c>>
  OBVIOUS
<1>b. PICK b : b = <<"erase_lock", c>>
  OBVIOUS
<1>d. PICK d : d = <<"guard", c>>
  OBVIOUS
<1>1. a \in Instr /\ b \in Instr /\ d \in Instr
  BY <1>a, <1>b, <1>d, IsInstr DEF OnCoro
<1>w. Unwind(c) = <<a, b, d>>
  BY <1>a, <1>b, <1>d DEF Unwind, LockUnwind
<1>u. Unwind(c) \in Seq(Instr)
  BY <1>1, <1>w
<1>g. PICK g : g = Guards(c, holds[c], c \in inside)
  OBVIOUS
<1>2. p = Unwind(c) \o g /\ g \in Seq(Instr) /\ ToSet(g) \subseteq {<<"sem_guard", c>>, <<"scope", c>>}
  BY <1>u, <1>g, DestroyedAs
<1>3. p = Led(a, Led(b, Led(d, g)))
  <2> DEFINE x == <<a>>
             y == <<b>>
             z == <<d>>
  <2>1. x \in Seq(Instr) /\ y \in Seq(Instr) /\ z \in Seq(Instr)
    BY <1>1
  <2>2. <<a, b, d>> = x \o (y \o z)
    BY ONLY <1>1, Triple DEF x, y, z
  <2>3. Led(a, Led(b, Led(d, g))) = x \o (y \o (z \o g))
    BY DEF Led
  <2> HIDE DEF x, y, z
  <2>4. y \o z \in Seq(Instr)
    BY <2>1, ConcatProperties
  <2>m. PICK m : m = y \o z
    OBVIOUS
  <2>n. m \in Seq(Instr)
    BY <2>4, <2>m
  <2>5. (x \o (y \o z)) \o g = x \o ((y \o z) \o g)
    <3>1. (x \o m) \o g = x \o (m \o g)
      BY ONLY <1>2, <2>1, <2>n, ConcatAssociative
    <3> QED
      BY <2>m, <3>1
  <2>6. (y \o z) \o g = y \o (z \o g)
    BY ONLY <1>2, <2>1, ConcatAssociative
  <2> QED
    BY <1>2, <1>w, <2>2, <2>3, <2>5, <2>6
<1>4. PICK r : r = Led(d, g)
  OBVIOUS
<1>5. r \in Seq(Instr) /\ ToSet(r) = {d} \cup ToSet(g)
  BY <1>1, <1>2, <1>4, LedInstr
<1>6. PICK t : t = Led(b, r)
  OBVIOUS
<1>7. t \in Seq(Instr) /\ ToSet(t) = {b} \cup ToSet(r)
  BY <1>1, <1>5, <1>6, LedInstr
<1>8. p = Led(a, t)
  BY <1>3, <1>4, <1>6
<1>9. p \in Seq(Instr) /\ p # <<>> /\ Head(p) = a /\ Tail(p) = t /\ ToSet(p) = {a} \cup ToSet(t)
  BY ONLY <1>1, <1>7, <1>8, LedInstr
<1>10. Undoing(c, holds[c], c \in inside, a, t)
  BY <1>4, <1>6, <1>g, <1>a, <1>b, <1>d DEF Undoing
<1>11. ASSUME NEW G \in SUBSET Coros, c \in G PROVE Form(G, holds, inside, p)
  BY <1>9, <1>10, <1>11 DEF Form, Fits
<1> QED
  <2>1. ToSet(p) = {a, b, d} \cup ToSet(g)
    BY <1>5, <1>7, <1>9
  <2>2. \A op \in {"erase_cond", "erase_lock", "guard"} : <<op, c>> \in ToSet(p)
    BY <2>1, <1>a, <1>b, <1>d
  <2>3. \A y \in ToSet(p) : \E op \in {"erase_cond", "erase_lock", "guard", "sem_guard", "scope"} : y = <<op, c>>
    BY <1>2, <2>1, <1>a, <1>b, <1>d
  <2> QED
    BY <1>9, <1>11, <2>2, <2>3

\* The instructions by which an awaiter is dropped, for each kind of wait.
Undoes(s) ==
    CASE s = "acquire" -> {"sem_remove"}
      [] s = "wait"    -> {"event_erase"}
      [] s = "await"   -> {"future_erase"}
      [] s = "lock"    -> {"erase_lock"}
      [] s = "cond"    -> {"erase_cond", "erase_lock", "guard"}
      [] OTHER         -> {}

Waits == {"lock", "cond", "acquire", "wait", "await"}

Removes(c, s, new) ==
    /\ \A y \in new : \E op \in Undoes(st[c]) \cup {"sem_guard", "scope"} :
           y = <<op, c>> /\ (op \in {"sem_guard", "scope"} => s = "gone")
    /\ \A op \in Undoes(st[c]) : <<op, c>> \in new

\* A suspended coroutine is in one of the five waits.
LEMMA SuspendedIn ==
    ASSUME FrameTypes, NEW c \in Coros, Suspended(c)
    PROVE  st[c] \in Waits
BY DEF FrameTypes, Suspended, Waits, States

\* What is left to do for a waiter that leaves with an exception or is destroyed.
LEMMA DropSet ==
    ASSUME IInv, NEW c \in Coros, Suspended(c), NEW s \in {"run", "gone"}, s = "run" => st[c] # "cond",
           NEW p, p = IF s = "gone" THEN Destroyed(c) ELSE Unwind(c)
    PROVE  /\ p \in Seq(Instr) /\ Removes(c, s, ToSet(p))
           /\ \A G \in SUBSET Coros : (s = "gone" => c \in G) => Form(G, holds, inside, p)
<1>0. holds \in [Coros -> Nat] /\ FrameTypes /\ st[c] \in Waits
  BY SuspendedIn DEF IInv, LockInv, Owning
<1>h. st[c] \in {"lock", "cond"} => holds[c] = 0
  BY <1>0 DEF IInv, LockInv, Owning, Enrolled
<1>1. ASSUME NEW op \in {"erase_lock", "sem_remove", "event_erase", "future_erase"}, Undoes(st[c]) = {op},
             Unwind(c) = <<<<op, c>>>>, op = "erase_lock" => holds[c] = 0
      PROVE  /\ p \in Seq(Instr) /\ Removes(c, s, ToSet(p))
             /\ \A G \in SUBSET Coros : (s = "gone" => c \in G) => Form(G, holds, inside, p)
  <2>x. PICK x : x = <<op, c>>
    OBVIOUS
  <2>q. PICK q : q = Destroyed(c)
    OBVIOUS
  <2>u. Unwind(c) = <<x>>
    BY <1>1, <2>x
  <2>1. /\ Unwind(c) \in Seq(Instr) /\ ToSet(Unwind(c)) = {x}
        /\ \A G, h, I : Form(G, h, I, Unwind(c))
        /\ q \in Seq(Instr) /\ x \in ToSet(q)
        /\ \A y \in ToSet(q) : y = x \/ y \in {<<"sem_guard", c>>, <<"scope", c>>}
        /\ \A G \in SUBSET Coros : c \in G => Form(G, holds, inside, q)
    BY ONLY <1>0, <1>1, <2>x, <2>q, <2>u, c \in Coros, DroppedOne
  <2>2. CASE s = "gone"
    <3>1. p = q
      BY <2>2, <2>q
    <3>2. \A y \in ToSet(p) : \E o \in {op} \cup {"sem_guard", "scope"} : y = <<o, c>>
      BY <2>1, <2>x, <3>1
    <3> QED
      BY <1>1, <2>1, <2>2, <2>x, <3>1, <3>2 DEF Removes
  <2>3. CASE s = "run"
    <3>1. p = Unwind(c)
      BY <2>3
    <3>2. ToSet(p) = {x} /\ p \in Seq(Instr) /\ \A G, h, I : Form(G, h, I, p)
      BY <2>1, <3>1
    <3>3. op \notin {"sem_guard", "scope"}
      BY <1>1
    <3> QED
      BY <1>1, <2>x, <3>2, <3>3 DEF Removes
  <2> QED
    BY <2>2, <2>3
<1>2. CASE st[c] = "acquire"
  BY <1>1, <1>2 DEF Undoes, Unwind
<1>3. CASE st[c] = "wait"
  BY <1>1, <1>3 DEF Undoes, Unwind
<1>4. CASE st[c] = "await"
  BY <1>1, <1>4 DEF Undoes, Unwind
<1>5. CASE st[c] = "lock"
  BY <1>1, <1>5, <1>h DEF Undoes, Unwind, LockUnwind
<1>6. CASE st[c] = "cond"
  <2>1. holds[c] = 0 /\ s = "gone" /\ p = Destroyed(c)
    BY <1>6, <1>h
  <2>2. /\ p \in Seq(Instr) /\ \A op \in {"erase_cond", "erase_lock", "guard"} : <<op, c>> \in ToSet(p)
        /\ \A y \in ToSet(p) : \E op \in {"erase_cond", "erase_lock", "guard", "sem_guard", "scope"} : y = <<op, c>>
        /\ \A G \in SUBSET Coros : c \in G => Form(G, holds, inside, p)
    BY <1>0, <1>6, <2>1, DroppedWait
  <2>3. Undoes(st[c]) = {"erase_cond", "erase_lock", "guard"}
    BY <1>6 DEF Undoes
  <2>5. Removes(c, s, ToSet(p))
    BY <2>1, <2>2, <2>3 DEF Removes
  <2> QED
    BY <2>1, <2>2, <2>5
<1> QED
  BY <1>0, <1>2, <1>3, <1>4, <1>5, <1>6 DEF Waits

\* c's wait is given up: its frame goes on with an error, or is destroyed.
Drops(c, s) ==
    /\ Suspended(c) /\ ~Queued(c) /\ s \in {"run", "gone"}
    /\ \A y \in ToSet(prog[home[c]]) : y = <<"resume", c>>
    /\ s = "run" => st[c] # "cond"
    /\ st' = [st EXCEPT ![c] = s] /\ epoch' = [epoch EXCEPT ![c] = 0]
    /\ UNCHANGED <<home, ready, waits>>
    /\ cancelled' \subseteq cancelled /\ (\A d \in Coros : d # c => (d \in cancelled' <=> d \in cancelled))
    /\ abandoned' \subseteq Coros
    /\ Then(home[c], IF s = "gone" THEN Destroyed(c) ELSE Unwind(c))
    /\ UNCHANGED <<lockVars, semVars, eventVars, futVars>>

\* A waiter that leaves with an exception or is destroyed takes a turn.
LEMMA DropTurn ==
    ASSUME IInv, NEW c \in Coros, NEW s, Drops(c, s)
    PROVE  \E new : /\ Turn(c, new) /\ Removes(c, s, new) /\ Moves(home[c], ToSet(prog[home[c]]), new)
                    /\ st'[c] = s /\ epoch'[c] = 0 /\ waits' = waits
                    /\ \A y \in ToSet(prog[home[c]]) : y[1] = "resume"
<1>0. Base /\ FrameTypes /\ holds \in [Coros -> Nat] /\ st[c] \in Waits
  BY SuspendedIn DEF IInv, Base, LockInv, Owning, Drops
<1>l. PICK l : l = home[c]
  OBVIOUS
<1>p. PICK p : p = IF s = "gone" THEN Destroyed(c) ELSE Unwind(c)
  OBVIOUS
<1>1. l \in Loops /\ s \in {"run", "gone"} /\ (s = "run" => st[c] # "cond") /\ Suspended(c)
  BY <1>0, <1>l DEF Drops, FrameTypes
<1>2. /\ p \in Seq(Instr) /\ Removes(c, s, ToSet(p))
      /\ \A G \in SUBSET Coros : (s = "gone" => c \in G) => Form(G, holds, inside, p)
  BY <1>1, <1>p, DropSet
<1>3. /\ Then(l, p) /\ home' = home /\ holds' = holds /\ inside' = inside /\ UNCHANGED <<ready, waits>>
      /\ cancelled' \subseteq cancelled /\ (\A d \in Coros : d # c => (d \in cancelled' <=> d \in cancelled))
      /\ abandoned' \subseteq Coros
  BY <1>l, <1>p DEF Drops, lockVars, semVars
<1>4. /\ st' \in [Coros -> States] /\ st'[c] = s /\ (\A d \in Coros : d # c => st'[d] = st[d])
      /\ epoch' \in [Coros -> Nat] /\ epoch'[c] = 0 /\ (\A d \in Coros : d # c => epoch'[d] = epoch[d])
  <2>1. s \in States /\ st \in [Coros -> States] /\ epoch \in [Coros -> Nat]
    BY <1>0, <1>1 DEF States, FrameTypes
  <2>2. st' = [st EXCEPT ![c] = s] /\ epoch' = [epoch EXCEPT ![c] = 0]
    BY DEF Drops
  <2> QED
    BY <2>1, <2>2
<1>5. Moves(l, ToSet(prog[l]), ToSet(p))
  <2>1. \A d \in Coros : home[d] # l => Frozen(d)
    BY <1>3, <1>4, <1>l DEF Frozen
  <2>2. Gone(l)' \in SUBSET Coros /\ (s = "gone" => c \in Gone(l)')
    BY <1>3, <1>4, <1>l DEF Gone
  <2>3. Form(Gone(l)', holds', inside', p)
    BY <1>2, <1>3, <2>2
  <2> QED
    BY <1>0, <1>1, <1>2, <1>3, <2>1, <2>3, LoneMoves
<1>n. PICK new : new = ToSet(p)
  OBVIOUS
<1>6. Removes(c, s, new) /\ Moves(l, ToSet(prog[l]), new)
  BY <1>2, <1>5, <1>n
<1>7. \A y \in new : Owned(c, y) /\ y # <<"event_suspend", c>>
  <2> TAKE y \in new
  <2>1. PICK op \in Undoes(st[c]) \cup {"sem_guard", "scope"} :
            y = <<op, c>> /\ (op \in {"sem_guard", "scope"} => s = "gone")
    BY <1>6 DEF Removes
  <2>2. /\ op \in {"sem_remove", "event_erase", "future_erase", "erase_lock", "erase_cond", "guard", "sem_guard", "scope"}
        /\ op = "erase_cond" => st[c] = "cond"
    BY <1>0, <2>1 DEF Undoes, Waits
  <2>3. op = "erase_cond" => s = "gone"
    BY <1>1, <2>2
  <2>4. y[1] = op /\ y[2] = c
    BY <2>1
  <2>5. op \in OnCoro => st'[c] \in Phase(op)
    BY <1>1, <1>4, <2>1, <2>2, <2>3 DEF Phase
  <2> QED
    BY <2>2, <2>4, <2>5 DEF Owned, OnWaiter
<1>8. \A y \in ToSet(prog[l]) : y[1] = "resume" /\ y[1] \in OnCoro /\ y[2] = c
  BY <1>l DEF Drops, OnCoro
<1>9. Turn(c, new)
  <2>1. waits' \in [Coros -> Nat] /\ (\A d \in Coros : waits'[d] = waits[d]) /\ waits[c] \in Nat
    BY <1>0, <1>3 DEF FrameTypes
  <2>2. waits[c] <= waits'[c] /\ epoch'[c] <= waits'[c] /\ ~Queued(c)
    BY <1>4, <2>1 DEF Drops
  <2> QED
    BY <1>1, <1>3, <1>4, <1>6, <1>7, <1>8, <1>l, <2>1, <2>2 DEF Turn
<1> QED
  BY <1>3, <1>4, <1>6, <1>8, <1>9, <1>l

Dropped(c, s, new) ==
    /\ Turn(c, new) /\ Removes(c, s, new) /\ Moves(home[c], ToSet(prog[home[c]]), new)
    /\ st'[c] = s /\ epoch'[c] = 0 /\ waits' = waits
    /\ \A y \in ToSet(prog[home[c]]) : y[1] = "resume"
    /\ s \in {"run", "gone"} /\ (s = "run" => st[c] # "cond")
    /\ UNCHANGED <<lockVars, semVars, eventVars, futVars>>

\* What c leaves behind, and what of the others does not change.
LEMMA DropFacts ==
    ASSUME Base, NEW c \in Coros, NEW s, NEW new, Dropped(c, s, new)
    PROVE  /\ \A y \in new : y[1] \in Undoes(st[c]) \cup {"sem_guard", "scope"}
           /\ \A op \in Undoes(st[c]) \cap OnCoro : Has(c, op)'
           /\ \A op \in OnCoro : Has(c, op)' => op \in Undoes(st[c]) \cup {"sem_guard", "scope"}
           /\ \A d \in Coros : d # c => Apart(d)
           /\ home' = home /\ Growing
           /\ \A op \in OnCoro : Has(c, op) => op = "resume"
<1>1. /\ \A d \in Coros : d # c => Apart(d)
      /\ (\A op \in OnCoro : Has(c, op)' <=> <<op, c>> \in new) /\ home' = home /\ Growing
  BY TurnApart DEF Dropped
<1>2. \A y \in new : \E op \in Undoes(st[c]) \cup {"sem_guard", "scope"} : y = <<op, c>>
  BY DEF Dropped, Removes
<1>3. \A y \in new : y[1] \in Undoes(st[c]) \cup {"sem_guard", "scope"}
  BY <1>2
<1>4. \A op \in Undoes(st[c]) : <<op, c>> \in new
  BY DEF Dropped, Removes
<1>5. \A op : <<op, c>>[1] = op
  OBVIOUS
<1>6. \A op \in OnCoro : Has(c, op)' => op \in Undoes(st[c]) \cup {"sem_guard", "scope"}
  BY <1>1, <1>3, <1>5
<1>7. \A op \in OnCoro : Has(c, op) => op = "resume"
  BY <1>5 DEF Has, Dropped
<1> QED
  BY <1>1, <1>3, <1>4, <1>6, <1>7

\* A wait list stays one while the numbers of waits stay.
LEMMA ListStays ==
    ASSUME NEW s, List(s), waits' = waits
    PROVE  /\ s \in Seq(Current) /\ Distinct(s) /\ (\A v, w \in ToSet(s) : v[1] = w[1] => v = w)
           /\ \A w \in ToSet(s) : w[2] <= waits'[w[1]]
BY DEF List

\* A waiter that is dropped keeps the event's invariant.
LEMMA EventDropped ==
    ASSUME IInv, NEW c \in Coros, NEW s, NEW new, Dropped(c, s, new), st[c] = "wait"
    PROVE  EventInv'
<1>0. Base /\ EventInv /\ FrameTypes
  BY DEF IInv, Base
<1>1. /\ \A d \in Coros : EventLocal(d)
      /\ List(setWaiters) /\ EventTypes /\ Recent(setWaiters, {"wait"}) /\ NobodyQueuedOnSet
  BY <1>0, EventOf
<1>2. /\ \A y \in new : y[1] \in {"event_erase", "sem_guard", "scope"}
      /\ \A d \in Coros : d # c => Apart(d)
      /\ Has(c, "event_erase")'
  <2>1. Undoes(st[c]) = {"event_erase"} /\ "event_erase" \in OnCoro
    BY DEF Undoes, OnCoro
  <2> QED
    BY <1>0, <2>1, DropFacts
<1>3. UNCHANGED <<set, setWaiters, sets, since>> /\ st'[c] = s /\ s # "wait" /\ waits' = waits
      /\ \A y \in ToSet(prog[home[c]]) : y[1] = "resume"
  BY DEF Dropped, eventVars
<1>4. List(setWaiters)'
  BY <1>1, <1>3, ListStays DEF List
<1>5. Recent(setWaiters, {"wait"})'
  <2>1. ASSUME NEW w \in ToSet(setWaiters'), st'[w[1]] = "wait" PROVE w = Now(w[1])'
    <3>1. w \in ToSet(setWaiters) /\ w[1] \in Coros /\ w[1] # c
      BY <1>1, <1>3, <2>1, ListMembers
    <3>2. Apart(w[1])
      BY <1>2, <3>1
    <3> QED
      BY <1>1, <2>1, <3>1, <3>2 DEF Recent, Apart
  <2> QED
    BY <2>1 DEF Recent
<1>6. ASSUME NEW d \in Coros PROVE EventLocal(d)'
  <2>1. CASE d # c
    <3>1. Has(d, "event_erase")' <=> Has(d, "event_erase")
      BY <1>2, <2>1 DEF Apart, OnCoro
    <3>2. EventApart(d)
      BY <1>2, <1>3, <2>1, <3>1 DEF EventApart, Apart
    <3> QED
      BY <1>1, <3>2, EventLocalKept
  <2>2. CASE d = c
    BY <1>1, <1>2, <1>3, <2>2 DEF EventLocal
  <2> QED
    BY <2>1, <2>2
<1>7. NobodyQueuedOnSet'
  <2>1. home[c] \in Loops /\ Moves(home[c], ToSet(prog[home[c]]), new)
    BY <1>0 DEF Dropped, FrameTypes
  <2>2. <<"event_swap">>[1] = "event_swap"
    OBVIOUS
  <2>l. PICK l : l = home[c]
    OBVIOUS
  <2>3. \A k \in Loops : k \in Setting' <=> k \in Setting
    <3>1. \A k \in Loops : k \in Setting' <=>
               IF k = l THEN (l \in Setting /\ <<"event_swap">> \notin ToSet(prog[l])) \/ <<"event_swap">> \in new
               ELSE k \in Setting
      BY <2>1, <2>l, SettingAfter
    <3> QED
      BY <1>2, <1>3, <2>2, <2>l, <3>1
  <2>4. Setting \subseteq Loops
    BY DEF Setting
  <2> QED
    BY <1>1, <1>3, <2>3, <2>4 DEF NobodyQueuedOnSet
<1>8. EventTypes'
  BY <1>1, <1>3 DEF EventTypes
<1> QED
  BY <1>4, <1>5, <1>6, <1>7, <1>8, EventFrom

\* A waiter that is dropped keeps the futures' invariant.
LEMMA FutureDropped ==
    ASSUME IInv, NEW c \in Coros, NEW s, NEW new, Dropped(c, s, new), st[c] = "await"
    PROVE  FutureInv'
<1>0. Base /\ FutureInv /\ FrameTypes
  BY DEF IInv, Base
<1>1. (\A d \in Coros : FutureLocal(d)) /\ FutureTypes /\ FutureCalls
  BY <1>0, FutureOf
<1>2. /\ \A y \in new : y[1] \in {"future_erase", "sem_guard", "scope"}
      /\ \A d \in Coros : d # c => Apart(d)
      /\ Has(c, "future_erase")'
  <2>1. Undoes(st[c]) = {"future_erase"} /\ "future_erase" \in OnCoro
    BY DEF Undoes, OnCoro
  <2> QED
    BY <1>0, <2>1, DropFacts
<1>3. /\ UNCHANGED <<result, promise, consumed, futWaiters, on, got>> /\ st'[c] = s /\ s # "await"
      /\ \A y \in ToSet(prog[home[c]]) : y[1] = "resume"
  BY DEF Dropped, futVars
<1>4. \A g \in Futures : (fready(g)' <=> fready(g)) /\ \A d : Awaits(g, d)' <=> Awaits(g, d)
  BY <1>3 DEF fready, Awaits
<1>5. ASSUME NEW d \in Coros PROVE FutureLocal(d)'
  <2>1. CASE d # c
    <3>1. on[d] \in Futures /\ on'[d] = on[d] /\ (Has(d, "future_erase")' <=> Has(d, "future_erase"))
      BY <1>1, <1>2, <1>3, <2>1 DEF Apart, OnCoro, FutureTypes, FutureTypeOK
    <3>2. FutureApart(d)
      BY <1>2, <1>4, <2>1, <3>1 DEF FutureApart, Apart
    <3> QED
      BY <1>1, <3>2, FutureLocalKept
  <2>2. CASE d = c
    <3>1. \A g \in Futures : Awaits(g, d)' => on'[d] = g
      BY <1>1, <1>3, <1>4, <2>2 DEF FutureLocal
    <3> QED
      BY <1>2, <1>3, <2>2, <3>1 DEF FutureLocal
  <2> QED
    BY <2>1, <2>2
<1>6. FutureCalls'
  <2>l. PICK l : l = home[c]
    OBVIOUS
  <2>1. l \in Loops /\ Moves(l, ToSet(prog[l]), new)
    BY <1>0, <2>l DEF Dropped, FrameTypes
  <2>2. ASSUME NEW g \in Futures PROVE Notifies(g)' <=> Notifies(g)
    <3>z. PICK z : z = <<"future_notify", g>>
      OBVIOUS
    <3>1. z \notin new /\ z \notin ToSet(prog[l])
      <4>1. z[1] = "future_notify"
        BY <3>z
      <4> QED
        BY <1>2, <1>3, <2>l, <4>1
    <3> QED
      BY <2>1, <3>1, <3>z, NotifiesAfter
  <2> QED
    BY <1>1, <1>3, <1>4, <2>2 DEF FutureCalls
<1>7. FutureTypes'
  BY <1>1, <1>3 DEF FutureTypes, FutureTypeOK
<1> QED
  BY <1>5, <1>6, <1>7, FutureFrom

\* A waiter that is dropped keeps the semaphore's invariant.
LEMMA SemDropped ==
    ASSUME IInv, NEW c \in Coros, NEW s, NEW new, Dropped(c, s, new), st[c] = "acquire"
    PROVE  SemInv'
<1>0. Base /\ SemInv /\ FrameTypes
  BY DEF IInv, Base
<1>1. /\ \A d \in Coros : SemLocal(d)
      /\ List(semWaiters) /\ Recent(semWaiters, {"acquire"}) /\ SemTypes /\ Conservation /\ NoIdlePermit
  BY <1>0, SemOf
<1>2. /\ \A y \in new : y[1] \in {"sem_remove", "sem_guard", "scope"}
      /\ \A d \in Coros : d # c => Apart(d)
      /\ Has(c, "sem_remove")' /\ ~Has(c, "sem_suspend")'
  <2>1. Undoes(st[c]) = {"sem_remove"} /\ "sem_remove" \in OnCoro /\ "sem_suspend" \in OnCoro
    BY DEF Undoes, OnCoro
  <2> QED
    BY <1>0, <2>1, DropFacts
<1>3. UNCHANGED <<permits, semWaiters, reserved, inside, posts>> /\ st'[c] = s /\ s # "acquire" /\ waits' = waits
      /\ \A y \in ToSet(prog[home[c]]) : y[1] = "resume"
  BY DEF Dropped, semVars
<1>4. List(semWaiters)'
  BY <1>1, <1>3, ListStays DEF List
<1>5. Recent(semWaiters, {"acquire"})'
  <2>1. ASSUME NEW w \in ToSet(semWaiters'), st'[w[1]] = "acquire" PROVE w = Now(w[1])'
    <3>1. w \in ToSet(semWaiters) /\ w[1] \in Coros /\ w[1] # c
      BY <1>1, <1>3, <2>1, ListMembers
    <3>2. Apart(w[1])
      BY <1>2, <3>1
    <3> QED
      BY <1>1, <2>1, <3>1, <3>2 DEF Recent, Apart
  <2> QED
    BY <2>1 DEF Recent
<1>6. ASSUME NEW d \in Coros PROVE SemLocal(d)'
  <2>1. CASE d # c
    <3>1. (Has(d, "sem_remove")' <=> Has(d, "sem_remove")) /\ (Has(d, "sem_suspend")' <=> Has(d, "sem_suspend"))
      BY <1>2, <2>1 DEF Apart, OnCoro
    <3>2. SemApart(d)
      BY <1>2, <1>3, <2>1, <3>1 DEF SemApart, Apart
    <3> QED
      BY <1>1, <3>2, SemLocalKept
  <2>2. CASE d = c
    <3>1. Named(semWaiters, d) => d \notin reserved
      BY <1>1 DEF SemLocal
    <3>2. Named(semWaiters, d)' <=> Named(semWaiters, d)
      BY <1>3 DEF Named
    <3> QED
      BY <1>2, <1>3, <2>2, <3>1, <3>2 DEF SemLocal
  <2> QED
    BY <2>1, <2>2
<1>7. Owed' = Owed
  <2>l. PICK l : l = home[c]
    OBVIOUS
  <2>o. PICK old : old = ToSet(prog[l])
    OBVIOUS
  <2>1. l \in Loops /\ Moves(l, old, new)
    BY <1>0, <2>l, <2>o DEF Dropped, FrameTypes
  <2>2. /\ Owed' = {k \in Loops : IF k = l THEN (l \in Owed /\ <<"sem_release">> \notin old) \/ <<"sem_release">> \in new
                                 ELSE k \in Owed}
        /\ Owed = {k \in Loops : <<"sem_release">> \in ToSet(prog[k])}
    BY <1>0, <2>1, OwedAfter
  <2>3. <<"sem_release">>[1] = "sem_release"
    OBVIOUS
  <2>4. <<"sem_release">> \notin old /\ <<"sem_release">> \notin new
    BY <1>2, <1>3, <2>3, <2>l, <2>o
  <2> QED
    BY <2>2, <2>4, <2>o
<1>8. SemTypes' /\ Conservation' /\ NoIdlePermit'
  <2>1. SemTypes'
    BY <1>1, <1>3 DEF SemTypes
  <2>2. Conservation'
    BY <1>1, <1>3, <1>7 DEF Conservation
  <2>3. NoIdlePermit'
    BY <1>1, <1>3 DEF NoIdlePermit
  <2> QED
    BY <2>1, <2>2, <2>3
<1> QED
  BY <1>4, <1>5, <1>6, <1>8, SemFrom

\* The lock and the condition after the drop of a coroutine that waits for one of them.
LEMMA LockDropped ==
    ASSUME IInv, NEW c \in Coros, NEW s, NEW new, Dropped(c, s, new), st[c] \in {"lock", "cond"}
    PROVE  LockInv'
<1>0. Base /\ LockInv /\ Owning /\ FrameTypes /\ List(waiters) /\ List(cwaiters)
      /\ Recent(waiters, {"lock", "cond"}) /\ Recent(cwaiters, {"cond"}) /\ \A d \in Coros : Local(d)
  <2>1. Base /\ LockInv /\ Owning /\ FrameTypes
    BY DEF IInv, Base, LockInv
  <2> QED
    BY <2>1, LocalOf
<1>1. /\ UNCHANGED <<holds, locked, owner, recursion, waiters, cwaiters>> /\ Turn(c, new)
      /\ st'[c] = s /\ s \in {"run", "gone"} /\ (s = "run" => st[c] = "lock") /\ waits' = waits /\ epoch'[c] = 0
      /\ \A y \in ToSet(prog[home[c]]) : y[1] = "resume"
  BY DEF Dropped, lockVars, lock
<1>2. /\ \A y \in new : y[1] \in {"erase_cond", "erase_lock", "guard", "sem_guard", "scope"}
      /\ Has(c, "erase_lock")' /\ ~Has(c, "is_owned_by")' /\ ~Has(c, "has_waiter")'
      /\ (st[c] = "cond" => Has(c, "erase_cond")') /\ (st[c] # "cond" => ~Has(c, "guard")')
      /\ home' = home
  <2>1. /\ Undoes(st[c]) \subseteq {"erase_cond", "erase_lock", "guard"} /\ "erase_lock" \in Undoes(st[c])
        /\ (st[c] = "cond" => "erase_cond" \in Undoes(st[c])) /\ (st[c] # "cond" => "guard" \notin Undoes(st[c]))
    BY DEF Undoes
  <2>2. {"guard", "erase_lock", "erase_cond", "is_owned_by", "has_waiter"} \subseteq OnCoro
    BY DEF OnCoro
  <2>3. /\ \A y \in new : y[1] \in Undoes(st[c]) \cup {"sem_guard", "scope"}
        /\ \A op \in Undoes(st[c]) \cap OnCoro : Has(c, op)'
        /\ \A op \in OnCoro : Has(c, op)' => op \in Undoes(st[c]) \cup {"sem_guard", "scope"}
        /\ home' = home
    BY <1>0, DropFacts
  <2> QED
    BY <2>1, <2>2, <2>3
<1>3. Fresh(c, new)
  BY <1>1, <1>2 DEF Fresh
<1>4. <<"release">> \notin new /\ \A e : <<"push", e>> \notin new
  <2>1. <<"release">>[1] = "release" /\ \A e : <<"push", e>>[1] = "push"
    OBVIOUS
  <2> QED
    BY <1>2, <2>1
<1>v. /\ \A d \in Coros : d # c => Aside(d, c, new)
      /\ ~Releasing(home[c])' /\ ~Releasing(home[c]) /\ ~HandedOn(c)' /\ ~Pushing(c)'
  <2>1. /\ \A d \in Coros : d # c => Aside(d, c, new)
        /\ (Releasing(home[c])' <=> <<"release">> \in new) /\ ~Releasing(home[c])
        /\ ~HandedOn(c)' /\ (Pushing(c)' <=> <<"push", <<c, epoch'[c]>>>> \in new)
    BY <1>0, <1>1, <1>3, TurnView
  <2> QED
    BY <1>4, <2>1
<1>5. ~Has(c, "guard") /\ ~Has(c, "erase_cond")
  <2>1. <<"guard", c>>[1] # "resume" /\ <<"erase_cond", c>>[1] # "resume"
    OBVIOUS
  <2> QED
    BY <1>1, <2>1 DEF Has
<1>8. List(waiters)' /\ List(cwaiters)'
  BY <1>0, <1>1, ListStays DEF List
<1>9. Recent(waiters, {"lock", "cond"})' /\ Recent(cwaiters, {"cond"})'
  <2>1. ASSUME NEW w \in ToSet(waiters'), st'[w[1]] \in {"lock", "cond"} PROVE w = Now(w[1])'
    <3>1. w \in ToSet(waiters) /\ w[1] \in Coros /\ w[1] # c
      BY <1>0, <1>1, <2>1, ListMembers
    <3>2. Aside(w[1], c, new)
      BY <1>v, <3>1
    <3> QED
      BY <1>0, <2>1, <3>1, <3>2 DEF Recent, Aside
  <2>2. ASSUME NEW w \in ToSet(cwaiters'), st'[w[1]] = "cond" PROVE w = Now(w[1])'
    <3>1. w \in ToSet(cwaiters) /\ w[1] \in Coros /\ w[1] # c
      BY <1>0, <1>1, <2>2, ListMembers
    <3>2. Aside(w[1], c, new)
      BY <1>v, <3>1
    <3> QED
      BY <1>0, <2>2, <3>1, <3>2 DEF Recent, Aside
  <2> QED
    BY <2>1, <2>2 DEF Recent
<1>10. ASSUME NEW d \in Coros, d # c
       PROVE  /\ Local(d)' /\ (Enrolled(d)' <=> Enrolled(d)) /\ (Has(d, "guard")' <=> Has(d, "guard"))
              /\ (owner = d => (Leaving(d)' <=> Leaving(d))) /\ st'[d] = st[d]
  <2>1. (owner' = d <=> owner = d) /\ (Named(waiters', d) <=> Named(waiters, d))
        /\ (Named(cwaiters', d) <=> Named(cwaiters, d))
    BY <1>1
  <2> QED
    BY <1>0, <1>1, <1>3, <1>4, <1>10, <2>1, TurnAside
<1>11. Local(c)'
  <2>1. (Named(waiters, c)' <=> Named(waiters, c)) /\ (Named(cwaiters, c)' <=> Named(cwaiters, c))
    BY <1>1 DEF Named
  <2>2. Enrolled(c)'
    BY <1>2 DEF Enrolled
  <2>3. Named(cwaiters, c) => st[c] = "cond"
    BY <1>0, <1>5 DEF Local
  <2>4. ~(Named(waiters, c) /\ Named(cwaiters, c))
    BY <1>0 DEF Local
  <2>5. st'[c] \notin {"lock", "cond"}
    BY <1>1
  <2> QED
    BY <1>2, <1>v, <2>1, <2>2, <2>3, <2>4, <2>5 DEF Local
<1>e. Enrolled(c) /\ Enrolled(c)' /\ holds[c] = 0 /\ ~Leaving(c) /\ ~Leaving(c)'
  <2>1. Enrolled(c) /\ Enrolled(c)'
    BY <1>2 DEF Enrolled
  <2>2. holds[c] = 0
    BY <1>0, <2>1 DEF Owning
  <2>3. ~Leaving(c)
    BY <1>v, <1>5 DEF Leaving
  <2>4. ~Leaving(c)'
    BY <1>1, <1>2, <1>v DEF Leaving
  <2> QED
    BY <2>1, <2>2, <2>3, <2>4
<1>12. Owning'
  <2>1. ASSUME NEW d \in Coros, owner' = d PROVE Counts(d)'
    <3>1. Counts(d) /\ owner = d
      BY <1>0, <1>1, <2>1 DEF Owning
    <3>2. CASE d = c
      <4>1. recursion = 0
        BY <1>e, <3>1, <3>2 DEF Counts
      <4> QED
        BY <1>1, <1>e, <3>2, <4>1 DEF Counts
    <3>3. CASE d # c
      <4>1. (Enrolled(d)' <=> Enrolled(d)) /\ (Leaving(d)' <=> Leaving(d))
        BY <1>10, <3>1, <3>3
      <4> QED
        BY <1>1, <3>1, <4>1 DEF Counts
    <3> QED
      BY <3>2, <3>3
  <2>2. \A d \in Coros : holds'[d] > 0 => owner' = d /\ ~Enrolled(d)'
    BY <1>0, <1>1, <1>10, <1>e DEF Owning
  <2>3. ASSUME NEW k \in Loops, Releasing(k)' PROVE owner' \in Coros /\ home'[owner'] = k
    <3>1. PICK y : y = <<"release">>
      OBVIOUS
    <3>2. y[1] \in {"hand_off", "push", "release"} /\ y \notin new /\ y \in ToSet(prog'[k])
      BY <1>4, <2>3, <3>1 DEF Releasing
    <3>3. y \in ToSet(prog[k])
      BY <1>0, <1>1, <3>2, TurnMoves
    <3> QED
      BY <1>0, <1>1, <1>2, <3>1, <3>3 DEF Owning, Releasing
  <2>4. ASSUME NEW d \in Coros, Has(d, "guard")' PROVE IF st'[d] = "run" THEN owner' = d ELSE holds'[d] = 0
    <3>1. CASE d = c
      BY <1>1, <1>2, <1>e, <2>4, <3>1
    <3>2. CASE d # c
      BY <1>0, <1>1, <1>10, <2>4, <3>2 DEF Owning
    <3> QED
      BY <3>1, <3>2
  <2> QED
    BY <1>0, <1>1, <2>1, <2>2, <2>3, <2>4 DEF Owning
<1>l. \A d \in Coros : Local(d)'
  BY <1>10, <1>11
<1> QED
  BY <1>0, <1>1, <1>3, <1>8, <1>9, <1>12, <1>l, TurnLocal

\* A primitive the dropped coroutine does not wait for is left alone.
LEMMA DropSpares ==
    ASSUME Base, NEW c \in Coros, NEW s, NEW new, Dropped(c, s, new), NEW ops, NEW S, "scope" \notin ops,
           ops \cap ({"resume", "sem_guard"} \cup Undoes(st[c])) = {}, st[c] \notin S, S \cap {"run", "gone"} = {}
    PROVE  TurnSpares(c, new, ops, S)
<1>1. \A y \in new : y[1] \in Undoes(st[c]) \cup {"sem_guard", "scope"}
  BY DropFacts
<1>2. (\A y \in ToSet(prog[home[c]]) : y[1] = "resume") /\ st'[c] \in {"run", "gone"}
  BY DEF Dropped
<1>3. ASSUME NEW y \in ToSet(prog[home[c]]) \cup new PROVE y[1] \notin ops
  BY <1>1, <1>2, <1>3
<1> QED
  BY <1>2, <1>3 DEF TurnSpares

\* A suspended coroutine is dropped: its wait ends with a cancellation, or its frame is destroyed.
LEMMA DropsStep ==
    ASSUME IInv, Unraced', NEW c \in Coros, NEW s, Drops(c, s)
    PROVE  IInv'
<1>0. Base /\ LockInv /\ SemInv /\ EventInv /\ FutureInv /\ FrameTypes
  BY DEF IInv, Base
<1>1. PICK new : Dropped(c, s, new)
  <2>1. PICK new : /\ Turn(c, new) /\ Removes(c, s, new) /\ Moves(home[c], ToSet(prog[home[c]]), new)
                   /\ st'[c] = s /\ epoch'[c] = 0 /\ waits' = waits
                   /\ \A y \in ToSet(prog[home[c]]) : y[1] = "resume"
    BY DropTurn
  <2>2. /\ s \in {"run", "gone"} /\ (s = "run" => st[c] # "cond")
        /\ UNCHANGED <<lockVars, semVars, eventVars, futVars>>
    BY DEF Drops
  <2>3. Dropped(c, s, new)
    BY <2>1, <2>2 DEF Dropped
  <2> QED
    BY <2>3
<1>2. st[c] \in Waits
  BY <1>0, SuspendedIn DEF Drops
<1>3. Turn(c, new) /\ UNCHANGED lockVars /\ UNCHANGED semVars /\ UNCHANGED eventVars /\ UNCHANGED futVars
  BY <1>1 DEF Dropped
<1>4. /\ Base'
      /\ LockInv /\ UNCHANGED lockVars /\ TurnSpares(c, new, LockOps, {"lock", "cond"}) => LockInv'
      /\ SemInv /\ UNCHANGED semVars /\ TurnSpares(c, new, SemOps, {"acquire"}) => SemInv'
      /\ EventInv /\ UNCHANGED eventVars /\ TurnSpares(c, new, EventOps, {"wait"}) => EventInv'
      /\ FutureInv /\ UNCHANGED futVars /\ TurnSpares(c, new, FutureOps, {"await"}) => FutureInv'
  BY <1>0, <1>3, TurnOthers
<1>5. LockInv'
  <2>1. CASE st[c] \in {"lock", "cond"}
    BY <1>1, <2>1, LockDropped
  <2>2. CASE st[c] \notin {"lock", "cond"}
    <3>1. Undoes(st[c]) \cap LockOps = {} /\ LockOps \cap {"resume", "sem_guard", "scope"} = {}
      BY <1>2, <2>2 DEF Undoes, LockOps, Waits
    <3>2. TurnSpares(c, new, LockOps, {"lock", "cond"})
      BY <1>0, <1>1, <2>2, <3>1, DropSpares
    <3> QED
      BY <1>0, <1>3, <1>4, <3>2
  <2> QED
    BY <2>1, <2>2
<1>6. SemInv'
  <2>1. CASE st[c] = "acquire"
    BY <1>1, <2>1, SemDropped
  <2>2. CASE st[c] # "acquire"
    <3>1. Undoes(st[c]) \cap SemOps = {} /\ SemOps \cap {"resume", "sem_guard", "scope"} = {}
      BY <1>2, <2>2 DEF Undoes, SemOps, Waits
    <3>2. TurnSpares(c, new, SemOps, {"acquire"})
      BY <1>0, <1>1, <2>2, <3>1, DropSpares
    <3> QED
      BY <1>0, <1>3, <1>4, <3>2
  <2> QED
    BY <2>1, <2>2
<1>7. EventInv'
  <2>1. CASE st[c] = "wait"
    BY <1>1, <2>1, EventDropped
  <2>2. CASE st[c] # "wait"
    <3>1. Undoes(st[c]) \cap EventOps = {} /\ EventOps \cap {"resume", "sem_guard", "scope"} = {}
      BY <1>2, <2>2 DEF Undoes, EventOps, Waits
    <3>2. TurnSpares(c, new, EventOps, {"wait"})
      BY <1>0, <1>1, <2>2, <3>1, DropSpares
    <3> QED
      BY <1>0, <1>3, <1>4, <3>2
  <2> QED
    BY <2>1, <2>2
<1>8. FutureInv'
  <2>1. CASE st[c] = "await"
    BY <1>1, <2>1, FutureDropped
  <2>2. CASE st[c] # "await"
    <3>1. Undoes(st[c]) \cap FutureOps = {} /\ FutureOps \cap {"resume", "sem_guard", "scope"} = {}
      BY <1>2, <2>2 DEF Undoes, FutureOps, Waits
    <3>2. TurnSpares(c, new, FutureOps, {"await"})
      BY <1>0, <1>1, <2>2, <3>1, DropSpares
    <3> QED
      BY <1>0, <1>3, <1>4, <3>2
  <2> QED
    BY <2>1, <2>2
<1> QED
  BY <1>4, <1>5, <1>6, <1>7, <1>8 DEF IInv, Base

\* Nothing of a call is in progress on an idle loop.
LEMMA IdleLoop ==
    ASSUME Base, NEW c \in Coros, NEW l, l = home[c], Idle(l)
    PROVE  /\ l \in Loops /\ l \in Active /\ ToSet(prog[l]) = {} /\ (\A op : ~Has(c, op))
           /\ ~Releasing(l) /\ ~Pushing(c)
<1>1. l \in Loops /\ l \in Active
  BY DEF Base, FrameTypes, Active
<1>2. prog[l] = <<>>
  BY DEF Idle
<1>3. ToSet(prog[l]) = {}
  BY <1>2 DEF ToSet
<1> QED
  BY <1>1, <1>3 DEF Has, Releasing, Pushing

\* cancel() of an ordinary wait: the flag, and a place in the ready queue.
LEMMA CancelWakeStep ==
    ASSUME IInv, Unraced', NEW c \in Coros, Suspended(c), st[c] # "cond", NEW l, l = home[c], Idle(l), OnFrames,
           cancelled' = cancelled \cup {c}, Reserve(c, TRUE), UNCHANGED <<prog, home, st, epoch, waits, abandoned>>
    PROVE  IInv'
<1>0. Base /\ FrameTypes /\ Wakes /\ (\A k \in Loops : Shape(k)) /\ LockInv /\ SemInv /\ EventInv /\ FutureInv
  BY DEF IInv, Base, Calling
<1>1. l \in Loops /\ l \in Active /\ ToSet(prog[l]) = {} /\ (\A op : ~Has(c, op))
  BY <1>0, IdleLoop
<1> DEFINE Q == {d \in {c} : ~Queued(d)}
<1>2. UNCHANGED <<lockVars, semVars, eventVars, futVars>> /\ UNCHANGED <<holds, inside>>
  BY DEF OnFrames, lockVars, semVars
<1>3. Moves(l, {}, {})
  <2>1. \A d \in Coros : Frozen(d)
    BY <1>2 DEF Frozen
  <2> QED
    BY <1>0, <1>1, <2>1, SameMoves
<1>4. Flagged
  BY <1>0 DEF Flagged, FrameTypes
<1>5. ready' \in [Loops -> Seq(Coros)] /\
      \A k \in Loops :
           /\ Distinct(ready'[k])
           /\ \A d : d \in ToSet(ready'[k]) <=> d \in ToSet(ready[k]) \/ (d \in Q /\ home[d] = k)
  <2>0. (\A k \in Loops : Distinct(ready[k])) /\ st[c] # "gone" /\ ready[l] \in Seq(Coros)
    BY <1>0, <1>1 DEF Wakes, Suspended, FrameTypes
  <2>1. CASE ~Queued(c)
    <3>q. PICK q : q = Append(ready[l], c)
      OBVIOUS
    <3>1. q \in Seq(Coros) /\ ToSet(q) = ToSet(ready[l]) \cup {c} /\ Distinct(q)
      BY <1>0, <1>1, <2>0, <2>1, <3>q, AppendToSet DEF Queued
    <3>2. ready' = [ready EXCEPT ![l] = q]
      BY <2>0, <2>1, <3>q DEF Reserve
    <3>3. ready' \in [Loops -> Seq(Coros)] /\ ready'[l] = q /\ \A k \in Loops : k # l => ready'[k] = ready[k]
      BY <1>0, <1>1, <3>1, <3>2 DEF FrameTypes
    <3> QED
      BY <2>0, <2>1, <3>1, <3>3
  <2>2. CASE Queued(c)
    <3>1. ready' = ready
      BY <2>2 DEF Reserve
    <3> QED
      BY <1>0, <2>0, <2>2, <3>1 DEF FrameTypes
  <2> QED
    BY <2>1, <2>2
<1>6. \A d \in Q : d \in Coros /\ Suspended(d) /\ ~Has(d, "resume") /\ d \in cancelled' /\ st[d] # "cond"
  BY <1>1
<1> HIDE DEF Q
<1>m. PICK none : none = {}
  OBVIOUS
<1>n. none = {} /\ \A z : z \notin none
  BY <1>m
<1>7. Wake(l, none, Q)
  BY <1>1, <1>n, <1>3, <1>4, <1>5, <1>6 DEF Wake
<1>8. /\ WakeSpares(none, Q, LockOps, {"lock", "cond"}) /\ WakeSpares(none, Q, SemOps, {"acquire"})
      /\ WakeSpares(none, Q, EventOps, {"wait"}) /\ WakeSpares(none, Q, FutureOps, {"await"})
  BY <1>n, <1>6 DEF WakeSpares, LockOps, SemOps, EventOps, FutureOps
<1>9. Base' /\ LockInv' /\ SemInv' /\ EventInv' /\ FutureInv'
  BY <1>0, <1>1, <1>2, <1>7, <1>8, WakeOthers
<1> QED
  BY <1>9 DEF IInv, Base

\* cancel() of a Condition::wait: the coroutine asks for the lock.
LEMMA CancelCondStep ==
    ASSUME IInv, Unraced', NEW c \in Coros, st[c] = "cond", NEW l, l = home[c], Idle(l), OnFrames,
           cancelled' = cancelled \cup {c}, Then(l, OnCancel(c)), UNCHANGED <<ready, home, st, epoch, waits, abandoned>>
    PROVE  IInv'
<1>0. /\ Base /\ FrameTypes /\ LockInv /\ holds \in [Coros -> Nat] /\ (\A d \in Coros : Local(d))
  <2>1. Base /\ FrameTypes /\ LockInv /\ holds \in [Coros -> Nat]
    BY DEF IInv, Base, LockInv, Owning
  <2> QED
    BY <2>1, LocalOf
<1>1. l \in Loops /\ l \in Active /\ ToSet(prog[l]) = {} /\ (\A op : ~Has(c, op)) /\ ~Releasing(l) /\ ~Pushing(c)
  BY <1>0, IdleLoop
<1>2. /\ UNCHANGED <<lockVars, semVars, eventVars, futVars, program>> /\ OnLock
      /\ UNCHANGED <<holds, inside, locked, owner, recursion, waiters, cwaiters>>
  BY DEF OnFrames, OnLock, lockVars, semVars, lock
<1>x. PICK x : x = <<"erase_cond", c>>
  OBVIOUS
<1>y. PICK y : y = <<"is_owned_by", c>>
  OBVIOUS
<1>xy. x[1] = "erase_cond" /\ y[1] = "is_owned_by" /\ x[2] = c /\ y[2] = c
  BY <1>x, <1>y
<1>3. x \in Instr /\ y \in Instr
  BY <1>x, <1>y, IsInstr DEF OnCoro
<1>p. PICK p : p = <<x, y>>
  OBVIOUS
<1>4. /\ p \in Seq(Instr) /\ p # <<>> /\ Head(p) = x /\ Tail(p) = <<y>> /\ ToSet(p) = {x, y} /\ Then(l, p)
  <2>1. p \in Seq(Instr) /\ p # <<>> /\ Head(p) = x /\ Tail(p) = <<y>> /\ ToSet(p) = {x, y}
    BY <1>3, <1>p, Pair
  <2>2. OnCancel(c) = p
    BY <1>x, <1>y, <1>p DEF OnCancel
  <2> QED
    BY <2>1, <2>2
<1>5. Form(Gone(l)', holds', inside', p)
  BY <1>4, <1>x, <1>y DEF Form, Fits
<1>m. PICK none : none = {}
  OBVIOUS
<1>n. none = {} /\ \A z : z \notin none
  BY <1>m
<1>w. PICK new : new = {x, y}
  OBVIOUS
<1>6. Moves(l, none, new)
  <2>1. \A d \in Coros : Frozen(d)
    BY <1>2 DEF Frozen
  <2>2. Moves(l, ToSet(prog[l]), ToSet(p))
    BY <1>0, <1>1, <1>4, <1>5, <2>1, LoneMoves
  <2> QED
    BY <1>1, <1>4, <1>n, <1>w, <2>2
<1>7. Plain(l, none, new)
  <2>1. Flagged
    BY <1>0 DEF Flagged, FrameTypes
  <2>2. Proper(l, x)
    BY <1>x, <1>xy DEF Proper, Phase, OnCoro, OnWaiter
  <2>3. Proper(l, y)
    BY <1>y, <1>xy DEF Proper, Phase, OnCoro, OnWaiter
  <2> QED
    BY <1>1, <1>n, <1>w, <1>6, <2>1, <2>2, <2>3 DEF Plain
<1>8. \A d \in Coros : View(l, none, new, d)
  BY <1>0, <1>1, <1>7, <1>w, <1>xy, PlainView
<1>9. /\ \A z \in new : z[1] \in {"erase_cond", "is_owned_by"}
      /\ \A z : z[1] \in {"release", "hand_off", "push", "schedule", "has_waiter"} => z \notin new
      /\ \A d, op : <<op, d>> \in new => d = c
  BY <1>x, <1>y, <1>w, <1>xy
<1>10. /\ Others(none, new, SemOps \cup EventOps \cup FutureOps, {"lock", "cond"})
       /\ \A z \in none \cup new : z[1] \notin {"release", "guard", "erase_lock", "push"}
       /\ \A d \in Coros : <<"hand_off", Now(d)>> \in new => ~HandedOn(d)
  BY <1>9, <1>n DEF Others, SemOps, EventOps, FutureOps
<1>11. ASSUME NEW d \in Coros, d # c PROVE Local(d)'
  <2>1. View(l, none, new, d)
    BY <1>8
  <2>2. Unaffected(d)
    BY <1>2, <1>9, <1>n, <1>11, <2>1 DEF View, Unaffected
  <2> QED
    BY <1>0, <2>2, LocalKept
<1>12. Local(c)'
  <2>1. View(l, none, new, c) /\ Local(c) /\ Local(c)
    BY <1>0, <1>8
  <2>2. /\ st'[c] = "cond" /\ home'[c] = l /\ ~Releasing(home[c])' /\ ~Pushing(c)' /\ (HandedOn(c)' <=> HandedOn(c))
        /\ (Roused(c)' <=> Roused(c)) /\ Has(c, "erase_cond")' /\ Has(c, "is_owned_by")' /\ ~Has(c, "has_waiter")'
    BY <1>1, <1>9, <1>n, <1>w, <1>x, <1>y, <2>1 DEF View
  <2>3. (Named(waiters, c)' <=> Named(waiters, c)) /\ (Named(cwaiters, c)' <=> Named(cwaiters, c)) /\ owner' = owner
    BY <1>2 DEF Named
  <2>4. /\ (Listed(c) /\ Roused(c) => st[c] = "lock") /\ (Listed(c) /\ owner = c => Releasing(home[c]))
        /\ (~Listed(c) => owner = c /\ Roused(c))
    BY <2>1 DEF Local
  <2>5. Listed(c)' <=> Listed(c)
    BY <1>1, <2>2, <2>3, <2>4 DEF Listed, Asking
  <2>6. Enrolled(c)'
    BY <2>2 DEF Enrolled
  <2> QED
    BY <1>1, <2>1, <2>2, <2>3, <2>4, <2>5, <2>6 DEF Local
<1>l. \A d \in Coros : Local(d)'
  BY <1>11, <1>12
<1> QED
  BY <1>1, <1>2, <1>7, <1>10, <1>l, LockSame

\* ~Task: a scheduled frame is left to the loop, another is destroyed now.
LEMMA DestroyStep ==
    ASSUME IInv, Unraced', NEW c \in Coros, Destroy(c, Destroyed(c)), OnFrames
    PROVE  IInv'
<1>l. PICK l : l = home[c]
  OBVIOUS
<1>0. Base /\ FrameTypes /\ Wakes /\ (\A k \in Loops : Shape(k)) /\ Idle(l)
  BY <1>l DEF IInv, Base, Calling, Destroy
<1>1. l \in Loops /\ l \in Active /\ ToSet(prog[l]) = {}
  BY <1>0, <1>l, IdleLoop
<1>2. UNCHANGED <<lockVars, semVars, eventVars, futVars>> /\ UNCHANGED <<holds, inside>>
  BY DEF OnFrames, lockVars, semVars
<1>3. CASE Queued(c)
  <2>1. UNCHANGED <<st, epoch, prog, home, ready, waits, cancelled>> /\ abandoned' = abandoned \cup {c}
    BY <1>3 DEF Destroy
  <2>m. PICK none : none = {}
    OBVIOUS
  <2>n. none = {} /\ \A z : z \notin none
    BY <2>m
  <2>2. Moves(l, none, none)
    <3>1. \A d \in Coros : Frozen(d)
      BY <1>2, <2>1 DEF Frozen
    <3> QED
      BY <1>0, <1>1, <2>1, <2>n, <3>1, SameMoves
  <2>3. Flagged
    BY <1>0, <2>1 DEF Flagged, FrameTypes, Wakes
  <2>4. /\ ready' \in [Loops -> Seq(Coros)]
        /\ \A k \in Loops :
             /\ Distinct(ready'[k])
             /\ \A d : d \in ToSet(ready'[k]) <=> d \in ToSet(ready[k]) \/ (d \in none /\ home[d] = k)
    BY <1>0, <2>1, <2>n DEF FrameTypes, Wakes
  <2>5. Wake(l, none, none)
    BY <1>1, <2>1, <2>2, <2>3, <2>4, <2>n DEF Wake
  <2> QED
    BY <1>1, <1>2, <2>5, <2>n, WakeOnly
<1>4. CASE ~Queued(c)
  <2>1. Drops(c, "gone")
    BY <1>0, <1>1, <1>2, <1>4, <1>l DEF Drops, Destroy, FrameTypes
  <2> QED
    BY <2>1, DropsStep
<1> QED
  BY <1>3, <1>4

\* cancel() or ~Task of a suspended coroutine.
LEMMA EndStep ==
    ASSUME IInv, Unraced', NEW c \in Coros, End(c)
    PROVE  IInv'
<1>0. OnFrames
  BY DEF End
<1>1. CASE Destroy(c, Destroyed(c))
  BY <1>0, <1>1, DestroyStep
<1>2. CASE Cancel(c, TakesCancel(c), OnCancel(c))
  <2>l. PICK l : l = home[c]
    OBVIOUS
  <2>1. Idle(l) /\ Suspended(c) /\ cancelled' = cancelled \cup {c} /\ UNCHANGED <<home, st, epoch, waits, abandoned>>
    BY <1>2, <2>l DEF Cancel
  <2>2. CASE st[c] = "cond"
    <3>1. Then(l, OnCancel(c)) /\ UNCHANGED ready
      BY <1>2, <2>2, <2>l DEF Cancel, TakesCancel
    <3> QED
      BY <1>0, <2>1, <2>2, <2>l, <3>1, CancelCondStep
  <2>3. CASE st[c] # "cond"
    <3>1. Reserve(c, TRUE) /\ UNCHANGED prog
      BY <1>2, <2>3 DEF Cancel, TakesCancel
    <3> QED
      BY <1>0, <2>1, <2>3, <2>l, <3>1, CancelWakeStep
  <2> QED
    BY <2>2, <2>3
<1> QED
  BY <1>1, <1>2 DEF End

\* The wait of c ends as usual: c runs again, and nothing of a call is in progress.
Ended(c, new) ==
    /\ Turn(c, new) /\ Moves(home[c], ToSet(prog[home[c]]), new) /\ \A z : z \notin new
    /\ st'[c] = "run" /\ epoch'[c] = 0 /\ waits' = waits
    /\ Has(c, "resume") /\ \A y \in ToSet(prog[home[c]]) : y[1] = "resume"
    /\ st[c] \in Waits /\ (st[c] = "cond" \/ c \notin cancelled)

\* A coroutine that has been resumed: its wait is over.
LEMMA EndedFacts ==
    ASSUME Base, NEW c \in Coros, NEW new, Ended(c, new)
    PROVE  /\ \A d \in Coros : d # c => Apart(d)
           /\ \A op \in OnCoro : ~Has(c, op)'
           /\ \A op : Has(c, op) => op = "resume"
           /\ home' = home /\ Growing /\ Roused(c)
           /\ Fresh(c, new) /\ home[c] \in Loops /\ <<"release">> \notin ToSet(prog[home[c]])
<1>1. /\ Turn(c, new) /\ (\A z : z \notin new) /\ epoch'[c] = 0 /\ Has(c, "resume")
      /\ (\A y \in ToSet(prog[home[c]]) : y[1] = "resume")
  BY DEF Ended
<1>2. /\ \A d \in Coros : d # c => Apart(d)
      /\ (\A op \in OnCoro : Has(c, op)' <=> <<op, c>> \in new) /\ home' = home /\ Growing
  BY <1>1, TurnApart
<1>3. ASSUME NEW op, Has(c, op) PROVE op = "resume"
  <2>1. <<op, c>>[1] = op
    OBVIOUS
  <2> QED
    BY <1>1, <1>3, <2>1 DEF Has
<1>4. Fresh(c, new) /\ Roused(c) /\ home[c] \in Loops
  BY <1>1 DEF Fresh, Roused, Base, FrameTypes
<1>5. <<"release">> \notin ToSet(prog[home[c]])
  <2>1. <<"release">>[1] = "release"
    OBVIOUS
  <2> QED
    BY <1>1, <2>1
<1> QED
  BY <1>1, <1>2, <1>3, <1>4, <1>5

\* acquire() returns with the permit that was reserved for the coroutine.
LEMMA SemReturnStep ==
    ASSUME IInv, Unraced', NEW c \in Coros, NEW new, Ended(c, new), st[c] = "acquire", SemReturned(c), OnSemaphore
    PROVE  IInv'
<1>0. Base /\ SemInv /\ FrameTypes
  BY DEF IInv, Base
<1>1. /\ \A d \in Coros : SemLocal(d)
      /\ List(semWaiters) /\ Recent(semWaiters, {"acquire"}) /\ SemTypes /\ Conservation /\ NoIdlePermit
  BY <1>0, SemOf
<1>2. /\ \A d \in Coros : d # c => Apart(d)
      /\ ~Has(c, "sem_remove")' /\ ~Has(c, "sem_suspend")' /\ Roused(c)
  BY <1>0, EndedFacts DEF OnCoro
<1>3. /\ inside' = inside \cup {c} /\ reserved' = reserved \ {c} /\ UNCHANGED <<permits, semWaiters, posts>>
      /\ st'[c] = "run" /\ waits' = waits /\ c \notin cancelled /\ Turn(c, new) /\ (\A z : z \notin new)
      /\ Moves(home[c], ToSet(prog[home[c]]), new) /\ \A y \in ToSet(prog[home[c]]) : y[1] = "resume"
  BY DEF SemReturned, Ended
<1>4. c \in reserved /\ c \notin inside /\ ~Named(semWaiters, c)
  BY <1>1, <1>2, <1>3 DEF SemLocal
<1>5. List(semWaiters)'
  BY <1>1, <1>3, ListStays DEF List
<1>6. Recent(semWaiters, {"acquire"})'
  <2>1. ASSUME NEW w \in ToSet(semWaiters'), st'[w[1]] = "acquire" PROVE w = Now(w[1])'
    <3>1. w \in ToSet(semWaiters) /\ w[1] \in Coros /\ w[1] # c
      BY <1>1, <1>3, <2>1, ListMembers
    <3>2. Apart(w[1])
      BY <1>2, <3>1
    <3> QED
      BY <1>1, <2>1, <3>1, <3>2 DEF Recent, Apart
  <2> QED
    BY <2>1 DEF Recent
<1>7. ASSUME NEW d \in Coros PROVE SemLocal(d)'
  <2>1. CASE d # c
    <3>1. (Has(d, "sem_remove")' <=> Has(d, "sem_remove")) /\ (Has(d, "sem_suspend")' <=> Has(d, "sem_suspend"))
      BY <1>2, <2>1 DEF Apart, OnCoro
    <3>2. SemApart(d)
      BY <1>2, <1>3, <2>1, <3>1 DEF SemApart, Apart
    <3> QED
      BY <1>1, <3>2, SemLocalKept
  <2>2. CASE d = c
    <3>1. ~Named(semWaiters, c)' /\ c \notin reserved'
      BY <1>3, <1>4 DEF Named
    <3> QED
      BY <1>2, <1>3, <2>2, <3>1 DEF SemLocal
  <2> QED
    BY <2>1, <2>2
<1>8. Owed' = Owed /\ IsFiniteSet(Owed)
  <2>l. PICK l : l = home[c]
    OBVIOUS
  <2>o. PICK old : old = ToSet(prog[l])
    OBVIOUS
  <2>1. l \in Loops /\ Moves(l, old, new)
    BY <1>0, <1>3, <2>l, <2>o DEF FrameTypes
  <2>2. /\ Owed' = {k \in Loops : IF k = l THEN (l \in Owed /\ <<"sem_release">> \notin old) \/ <<"sem_release">> \in new
                                 ELSE k \in Owed}
        /\ Owed = {k \in Loops : <<"sem_release">> \in ToSet(prog[k])} /\ IsFiniteSet(Owed)
    BY <1>0, <2>1, OwedAfter
  <2>3. <<"sem_release">>[1] = "sem_release"
    OBVIOUS
  <2>4. <<"sem_release">> \notin old /\ <<"sem_release">> \notin new
    BY <1>3, <2>3, <2>l, <2>o
  <2> QED
    BY <2>2, <2>4, <2>o
<1>9. /\ Cardinality(inside') = Cardinality(inside) + 1 /\ IsFiniteSet(inside') /\ Cardinality(inside) \in Nat
      /\ Cardinality(reserved) = Cardinality(reserved') + 1 /\ IsFiniteSet(reserved') /\ Cardinality(reserved') \in Nat
  <2>1. IsFiniteSet(inside) /\ IsFiniteSet(reserved)
    BY <1>1 DEF SemTypes
  <2>2. Cardinality(inside') = Cardinality(inside) + 1 /\ IsFiniteSet(inside') /\ Cardinality(inside) \in Nat
    BY <1>3, <1>4, <2>1, OneMore
  <2>3. IsFiniteSet(reserved') /\ reserved = reserved' \cup {c} /\ c \notin reserved'
    BY <1>3, <1>4, <2>1, FS_Subset
  <2>4. Cardinality(reserved) = Cardinality(reserved') + 1 /\ Cardinality(reserved') \in Nat
    BY <2>3, OneMore
  <2> QED
    BY <2>2, <2>3, <2>4
<1>10. Conservation'
  <2>1. permits + Cardinality(inside) + Cardinality(reserved) + Cardinality(Owed) = Permits + posts
    BY <1>1 DEF Conservation
  <2>2. permits \in Nat /\ posts \in Nat /\ Permits \in Nat /\ Cardinality(Owed) \in Nat
    BY <1>1, <1>8, FS_CardinalityType, SemaphoreAssumption DEF SemTypes
  <2>3. permits + Cardinality(inside') + Cardinality(reserved') + Cardinality(Owed) = Permits + posts
    BY ONLY <1>9, <2>1, <2>2
  <2> QED
    BY <1>3, <1>8, <2>3 DEF Conservation
<1>11. SemTypes'
  BY <1>1, <1>3, <1>9 DEF SemTypes
<1>12. NoIdlePermit'
  BY <1>1, <1>3 DEF NoIdlePermit
<1>13. SemInv'
  BY <1>5, <1>6, <1>7, <1>10, <1>11, <1>12, SemFrom
<1>14. \A y \in ToSet(prog[home[c]]) \cup new : y[1] \notin LockOps \cup EventOps \cup FutureOps
  BY <1>3 DEF LockOps, EventOps, FutureOps
<1> QED
  BY <1>3, <1>13, <1>14, SemTurn

\* Event wait() returns: the waiter is not in the list any more.
LEMMA EventReturnStep ==
    ASSUME IInv, Unraced', NEW c \in Coros, NEW new, Ended(c, new), st[c] = "wait", UNCHANGED eventVars, OnEvent
    PROVE  IInv'
<1>0. Base /\ EventInv /\ FrameTypes
  BY DEF IInv, Base
<1>1. /\ \A d \in Coros : EventLocal(d)
      /\ List(setWaiters) /\ Recent(setWaiters, {"wait"}) /\ EventTypes /\ NobodyQueuedOnSet
  BY <1>0, EventOf
<1>2. (\A d \in Coros : d # c => Apart(d)) /\ Roused(c)
  BY <1>0, EndedFacts
<1>3. /\ UNCHANGED <<set, setWaiters, sets, since>> /\ st'[c] = "run" /\ waits' = waits /\ c \notin cancelled
      /\ Turn(c, new) /\ (\A z : z \notin new) /\ Moves(home[c], ToSet(prog[home[c]]), new)
      /\ \A y \in ToSet(prog[home[c]]) : y[1] = "resume"
  BY DEF Ended, eventVars
<1>4. ~Named(setWaiters, c)
  BY <1>1, <1>2, <1>3 DEF EventLocal
<1>5. List(setWaiters)'
  BY <1>1, <1>3, ListStays DEF List
<1>6. Recent(setWaiters, {"wait"})'
  <2>1. ASSUME NEW w \in ToSet(setWaiters'), st'[w[1]] = "wait" PROVE w = Now(w[1])'
    <3>1. w \in ToSet(setWaiters) /\ w[1] \in Coros /\ w[1] # c
      BY <1>1, <1>3, <2>1, ListMembers
    <3>2. Apart(w[1])
      BY <1>2, <3>1
    <3> QED
      BY <1>1, <2>1, <3>1, <3>2 DEF Recent, Apart
  <2> QED
    BY <2>1 DEF Recent
<1>7. ASSUME NEW d \in Coros PROVE EventLocal(d)'
  <2>1. CASE d # c
    <3>1. Has(d, "event_erase")' <=> Has(d, "event_erase")
      BY <1>2, <2>1 DEF Apart, OnCoro
    <3>2. EventApart(d)
      BY <1>2, <1>3, <2>1, <3>1 DEF EventApart, Apart
    <3> QED
      BY <1>1, <3>2, EventLocalKept
  <2>2. CASE d = c
    <3>1. ~Named(setWaiters, c)' /\ since'[c] <= sets'
      BY <1>1, <1>3, <1>4 DEF Named, EventLocal
    <3> QED
      BY <1>3, <2>2, <3>1 DEF EventLocal
  <2> QED
    BY <2>1, <2>2
<1>8. NobodyQueuedOnSet'
  <2>l. PICK l : l = home[c]
    OBVIOUS
  <2>o. PICK old : old = ToSet(prog[l])
    OBVIOUS
  <2>1. l \in Loops /\ Moves(l, old, new)
    BY <1>0, <1>3, <2>l, <2>o DEF FrameTypes
  <2>2. <<"event_swap">>[1] = "event_swap"
    OBVIOUS
  <2>3. <<"event_swap">> \notin old
    BY <1>3, <2>2, <2>l, <2>o
  <2>4. \A k \in Loops : k \in Setting' <=>
            IF k = l THEN (l \in Setting /\ <<"event_swap">> \notin old) \/ <<"event_swap">> \in new ELSE k \in Setting
    BY <2>1, SettingAfter
  <2>5. \A k \in Loops : k \in Setting => k \in Setting'
    BY <2>3, <2>4
  <2>6. Setting \subseteq Loops
    BY DEF Setting
  <2> QED
    BY <1>1, <1>3, <2>5, <2>6 DEF NobodyQueuedOnSet
<1>9. EventTypes'
  BY <1>1, <1>3 DEF EventTypes
<1>10. EventInv'
  BY <1>5, <1>6, <1>7, <1>8, <1>9, EventFrom
<1>11. \A y \in ToSet(prog[home[c]]) \cup new : y[1] \notin LockOps \cup SemOps \cup FutureOps
  BY <1>3 DEF LockOps, SemOps, FutureOps
<1> QED
  BY <1>3, <1>10, <1>11, EventTurn

\* An await returns the result.
LEMMA FutureReturnStep ==
    ASSUME IInv, Unraced', NEW c \in Coros, NEW new, Ended(c, new), st[c] = "await", AwaitReturned(c), OnFuture
    PROVE  IInv'
<1>0. Base /\ FutureInv /\ FrameTypes
  BY DEF IInv, Base
<1>1. (\A d \in Coros : FutureLocal(d)) /\ FutureTypes /\ FutureCalls
  BY <1>0, FutureOf
<1>2. /\ \A d \in Coros : d # c => Apart(d)
      /\ ~Has(c, "future_erase")' /\ Roused(c)
  BY <1>0, EndedFacts DEF OnCoro
<1>3. /\ UNCHANGED <<result, promise, futWaiters, on>> /\ await_resume(c, on[c])
      /\ st'[c] = "run" /\ c \notin cancelled
      /\ Turn(c, new) /\ (\A z : z \notin new) /\ Moves(home[c], ToSet(prog[home[c]]), new)
      /\ \A y \in ToSet(prog[home[c]]) : y[1] = "resume"
  BY DEF AwaitReturned, Ended
<1>4. on \in [Coros -> Futures] /\ on[c] \in Futures
  BY <1>1 DEF FutureTypes, FutureTypeOK
<1>5. \A g \in Futures : ~Awaits(g, c)
  BY <1>1, <1>2, <1>3, <1>4 DEF FutureLocal
<1>6. \A g \in Futures : (fready(g)' <=> fready(g)) /\ \A d : Awaits(g, d)' <=> Awaits(g, d)
  BY <1>3 DEF fready, Awaits
<1>7. ASSUME NEW d \in Coros PROVE FutureLocal(d)'
  <2>1. CASE d # c
    <3>1. on[d] \in Futures /\ on'[d] = on[d] /\ (Has(d, "future_erase")' <=> Has(d, "future_erase"))
      BY <1>2, <1>3, <1>4, <2>1 DEF Apart, OnCoro
    <3>2. FutureApart(d)
      BY <1>2, <1>6, <2>1, <3>1 DEF FutureApart, Apart
    <3> QED
      BY <1>1, <3>2, FutureLocalKept
  <2>2. CASE d = c
    <3>1. \A g \in Futures : ~Awaits(g, d)'
      BY <1>5, <1>6, <2>2
    <3> QED
      BY <1>2, <1>3, <2>2, <3>1 DEF FutureLocal
  <2> QED
    BY <2>1, <2>2
<1>8. FutureCalls'
  <2>l. PICK l : l = home[c]
    OBVIOUS
  <2>1. l \in Loops /\ Moves(l, ToSet(prog[l]), new)
    BY <1>0, <1>3, <2>l DEF FrameTypes
  <2>2. ASSUME NEW g \in Futures PROVE Notifies(g)' <=> Notifies(g)
    <3>z. PICK z : z = <<"future_notify", g>>
      OBVIOUS
    <3>1. z \notin new /\ z \notin ToSet(prog[l])
      <4>1. z[1] = "future_notify"
        BY <3>z
      <4> QED
        BY <1>3, <2>l, <4>1
    <3> QED
      BY <2>1, <3>1, <3>z, NotifiesAfter
  <2> QED
    BY <1>1, <1>3, <1>6, <2>2 DEF FutureCalls
<1>9. FutureTypes'
  <2>1. /\ consumed' \subseteq Futures
        /\ got' \in [Coros -> Outcomes \cup {"none", "nothing", "logic_error"}]
    BY <1>1, <1>3, <1>4, AwaitTypes
  <2> QED
    BY <1>1, <1>3, <2>1 DEF FutureTypes, FutureTypeOK
<1>10. FutureInv'
  BY <1>7, <1>8, <1>9, FutureFrom
<1>11. \A y \in ToSet(prog[home[c]]) \cup new : y[1] \notin LockOps \cup SemOps \cup EventOps
  BY <1>3 DEF LockOps, SemOps, EventOps
<1> QED
  BY <1>3, <1>10, <1>11, FutureTurn

\* acquire() or Condition::wait() returns: the coroutine owns the lock.
LEMMA LockReturnStep ==
    ASSUME IInv, Unraced', NEW c \in Coros, NEW new, Ended(c, new), st[c] \in {"lock", "cond"}, LockReturned(c), OnLock
    PROVE  IInv'
<1>0. Base /\ LockInv /\ Owning /\ FrameTypes /\ List(waiters) /\ List(cwaiters)
      /\ Recent(waiters, {"lock", "cond"}) /\ Recent(cwaiters, {"cond"}) /\ \A d \in Coros : Local(d)
  <2>1. Base /\ LockInv /\ Owning /\ FrameTypes
    BY DEF IInv, Base, LockInv
  <2> QED
    BY <2>1, LocalOf
<1>1. /\ holds' = [holds EXCEPT ![c] = 1] /\ UNCHANGED <<locked, owner, recursion, waiters, cwaiters>>
      /\ Turn(c, new) /\ (\A z : z \notin new) /\ st'[c] = "run" /\ waits' = waits
      /\ (st[c] = "cond" \/ c \notin cancelled) /\ \A y \in ToSet(prog[home[c]]) : y[1] = "resume"
  BY DEF Ended, LockReturned, lock
<1>2. /\ Fresh(c, new) /\ Roused(c) /\ home' = home /\ (\A op : Has(c, op) => op = "resume")
      /\ ~Has(c, "guard")' /\ ~Has(c, "erase_lock")' /\ ~Has(c, "erase_cond")'
      /\ ~Has(c, "is_owned_by")' /\ ~Has(c, "has_waiter")'
  BY <1>0, EndedFacts DEF OnCoro
<1>v. /\ \A d \in Coros : d # c => Aside(d, c, new)
      /\ ~Releasing(home[c])' /\ ~Releasing(home[c]) /\ ~HandedOn(c)' /\ ~Pushing(c)'
  <2>1. /\ \A d \in Coros : d # c => Aside(d, c, new)
        /\ (Releasing(home[c])' <=> <<"release">> \in new) /\ ~Releasing(home[c])
        /\ ~HandedOn(c)' /\ (Pushing(c)' <=> <<"push", <<c, epoch'[c]>>>> \in new)
    BY <1>0, <1>1, <1>2, TurnView
  <2> QED
    BY <1>1, <2>1
<1>3. owner = c /\ ~Named(waiters, c) /\ ~Named(cwaiters, c)
  <2>1. Local(c) /\ ~Has(c, "erase_cond")
    BY <1>0, <1>2
  <2>2. ~Listed(c)
    BY <1>1, <1>2, <2>1 DEF Local
  <2> QED
    BY <2>1, <2>2 DEF Local, Listed
<1>4. recursion = 0
  <2>1. Enrolled(c) /\ ~Leaving(c)
    BY <1>2, <1>v DEF Enrolled, Leaving
  <2> QED
    BY <1>0, <1>3, <2>1 DEF Owning, Counts
<1>5. \A d \in Coros : d # c => holds[d] = 0
  BY <1>0, <1>3 DEF Owning
<1>8. List(waiters)' /\ List(cwaiters)'
  BY <1>0, <1>1, ListStays DEF List
<1>9. Recent(waiters, {"lock", "cond"})' /\ Recent(cwaiters, {"cond"})'
  <2>1. ASSUME NEW w \in ToSet(waiters'), st'[w[1]] \in {"lock", "cond"} PROVE w = Now(w[1])'
    <3>1. w \in ToSet(waiters) /\ w[1] \in Coros /\ w[1] # c
      BY <1>0, <1>1, <2>1, ListMembers
    <3>2. Aside(w[1], c, new)
      BY <1>v, <3>1
    <3> QED
      BY <1>0, <2>1, <3>1, <3>2 DEF Recent, Aside
  <2>2. ASSUME NEW w \in ToSet(cwaiters'), st'[w[1]] = "cond" PROVE w = Now(w[1])'
    <3>1. w \in ToSet(cwaiters) /\ w[1] \in Coros /\ w[1] # c
      BY <1>0, <1>1, <2>2, ListMembers
    <3>2. Aside(w[1], c, new)
      BY <1>v, <3>1
    <3> QED
      BY <1>0, <2>2, <3>1, <3>2 DEF Recent, Aside
  <2> QED
    BY <2>1, <2>2 DEF Recent
<1>10. ASSUME NEW d \in Coros, d # c
       PROVE  /\ Local(d)' /\ (Enrolled(d)' <=> Enrolled(d)) /\ (Has(d, "guard")' <=> Has(d, "guard")) /\ st'[d] = st[d]
  <2>1. (owner' = d <=> owner = d) /\ (Named(waiters', d) <=> Named(waiters, d))
        /\ (Named(cwaiters', d) <=> Named(cwaiters, d)) /\ <<"release">> \notin new
    BY <1>1
  <2> QED
    BY <1>0, <1>1, <1>2, <1>10, <2>1, TurnAside
<1>11. Local(c)'
  <2>1. ~Named(waiters, c)' /\ ~Named(cwaiters, c)' /\ st'[c] \notin {"lock", "cond"}
    BY <1>1, <1>3 DEF Named
  <2> QED
    BY <1>2, <1>v, <2>1 DEF Local
<1>12. Owning'
  <2>1. ~Enrolled(c)' /\ ~Leaving(c)'
    BY <1>1, <1>2, <1>v DEF Enrolled, Leaving
  <2>h. holds' \in [Coros -> Nat] /\ holds'[c] = 1 /\ \A d \in Coros : d # c => holds'[d] = 0
    BY <1>0, <1>1, <1>5 DEF Owning
  <2>2. Counts(c)'
    BY <1>1, <1>4, <2>1, <2>h DEF Counts
  <2>3. ASSUME NEW k \in Loops, Releasing(k)' PROVE owner' \in Coros /\ home'[owner'] = k
    <3>1. PICK y : y = <<"release">>
      OBVIOUS
    <3>2. y[1] \in {"hand_off", "push", "release"} /\ y \notin new /\ y \in ToSet(prog'[k])
      BY <1>1, <2>3, <3>1 DEF Releasing
    <3>3. y \in ToSet(prog[k])
      BY <1>0, <1>1, <3>2, TurnMoves
    <3> QED
      BY <1>0, <1>1, <1>2, <3>1, <3>3 DEF Owning, Releasing
  <2>4. ASSUME NEW d \in Coros, Has(d, "guard")' PROVE IF st'[d] = "run" THEN owner' = d ELSE holds'[d] = 0
    <3>1. d # c
      BY <1>2, <2>4
    <3>2. Has(d, "guard") /\ st'[d] = st[d]
      BY <1>10, <2>4, <3>1
    <3> QED
      BY <1>0, <1>1, <2>h, <3>1, <3>2 DEF Owning
  <2> QED
    BY <1>0, <1>1, <1>3, <2>1, <2>2, <2>3, <2>4, <2>h DEF Owning
<1>l. \A d \in Coros : Local(d)'
  BY <1>10, <1>11
<1>13. LockInv'
  BY <1>0, <1>1, <1>2, <1>8, <1>9, <1>12, <1>l, TurnLocal
<1>14. \A y \in ToSet(prog[home[c]]) \cup new : y[1] \notin SemOps \cup EventOps \cup FutureOps
  BY <1>1 DEF SemOps, EventOps, FutureOps
<1> QED
  BY <1>1, <1>13, <1>14, TurnLock

\* The loop resumes a coroutine: its wait ends, with what it waited for or with a
\* CancelledError, or its frame is destroyed.
LEMMA ResumeStep ==
    ASSUME IInv, Unraced', NEW l \in Loops, ResumeWaiter(l)
    PROVE  IInv'
<1>0. Base /\ FrameTypes /\ Wakes /\ holds \in [Coros -> Nat] /\ At(l, "resume")
  BY DEF IInv, Base, LockInv, Owning, ResumeWaiter
<1>c. PICK c : c = Arg(l)
  OBVIOUS
<1>1. /\ c \in Coros /\ home[c] = l /\ Has(c, "resume") /\ l \in Active /\ st[c] \in Phase("resume")
      /\ \A y : y \in ToSet(prog[l]) <=> y = <<"resume", c>>
  BY <1>0, <1>c, LoneCall DEF Alone, OnCoro
<1>2. st[c] \in Waits /\ Suspended(c) /\ ~Queued(c) /\ ~Summoned(c)
  BY <1>0, <1>1 DEF Phase, Waits, Suspended, Wakes
<1>3. /\ \A y \in ToSet(prog[home[c]]) : y = <<"resume", c>>
      /\ \A y \in ToSet(prog[home[c]]) : y[1] = "resume"
      /\ \A y \in ToSet(prog[home[c]]) : y[1] \in OnCoro /\ y[2] = c
  BY <1>1 DEF OnCoro
<1>4. /\ epoch' = [epoch EXCEPT ![c] = 0] /\ cancelled' = cancelled \ {c} /\ abandoned' = abandoned \ {c}
      /\ st' = [st EXCEPT ![c] = IF c \in abandoned THEN "gone" ELSE "run"]
      /\ UNCHANGED <<home, ready, waits>>
  BY <1>2, <1>c DEF ResumeWaiter, ResumeNext, Suspended
<1>5. Then(home[c], IF Returns(c, ThrowsLate(c)) THEN <<>> ELSE IF c \in abandoned THEN Destroyed(c) ELSE Unwind(c))
  BY <1>1, <1>2, <1>c DEF ResumeWaiter, ResumeNext
<1>6. /\ IF st[c] \in {"lock", "cond"} /\ Returns(c, ThrowsLate(c)) THEN LockReturned(c) ELSE UNCHANGED lockVars
      /\ IF st[c] = "acquire" /\ Returns(c, ThrowsLate(c)) THEN SemReturned(c) ELSE UNCHANGED semVars
      /\ IF st[c] = "await" /\ Returns(c, ThrowsLate(c)) THEN AwaitReturned(c) ELSE UNCHANGED futVars
      /\ UNCHANGED <<program, eventVars>>
  BY <1>c DEF ResumeWaiter
<1>7. Returns(c, ThrowsLate(c)) <=> c \notin abandoned /\ (st[c] = "cond" \/ c \notin cancelled)
  BY <1>2 DEF Returns, ThrowsLate
<1>8. CASE c \in abandoned
  <2>1. Then(home[c], Destroyed(c)) /\ UNCHANGED <<lockVars, semVars, eventVars, futVars>>
    BY <1>5, <1>6, <1>7, <1>8
  <2>2. /\ cancelled' \subseteq cancelled /\ (\A d \in Coros : d # c => (d \in cancelled' <=> d \in cancelled))
        /\ abandoned' \subseteq Coros /\ st' = [st EXCEPT ![c] = "gone"]
    BY <1>0, <1>4, <1>8 DEF FrameTypes
  <2>3. Drops(c, "gone")
    BY <1>2, <1>3, <1>4, <2>1, <2>2 DEF Drops
  <2> QED
    BY <1>1, <2>3, DropsStep
<1>9. CASE c \notin abandoned /\ c \in cancelled /\ st[c] # "cond"
  <2>1. Then(home[c], Unwind(c)) /\ UNCHANGED <<lockVars, semVars, eventVars, futVars>>
    BY <1>5, <1>6, <1>7, <1>9
  <2>2. /\ cancelled' \subseteq cancelled /\ (\A d \in Coros : d # c => (d \in cancelled' <=> d \in cancelled))
        /\ abandoned' \subseteq Coros /\ st' = [st EXCEPT ![c] = "run"]
    BY <1>0, <1>4, <1>9 DEF FrameTypes
  <2>3. Drops(c, "run")
    BY <1>2, <1>3, <1>4, <1>9, <2>1, <2>2 DEF Drops
  <2> QED
    BY <1>1, <2>3, DropsStep
<1>10. CASE c \notin abandoned /\ (st[c] = "cond" \/ c \notin cancelled)
  <2>m. PICK none : none = {}
    OBVIOUS
  <2>n. \A z : z \notin none
    BY <2>m
  <2>1. Then(l, <<>>) /\ Returns(c, ThrowsLate(c))
    BY <1>1, <1>5, <1>7, <1>10
  <2>2. st' = [st EXCEPT ![c] = "run"]
    BY <1>4, <1>10
  <2>3. \A d \in Coros : home[d] # l => Frozen(d)
    <3>1. ASSUME NEW d \in Coros, d # c PROVE holds'[d] = holds[d] /\ (d \in inside' <=> d \in inside)
      <4>1. holds'[d] = holds[d]
        BY <1>0, <1>6, <3>1 DEF LockReturned, lockVars
      <4>2. d \in inside' <=> d \in inside
        BY <1>6, <3>1 DEF SemReturned, semVars
      <4> QED
        BY <4>1, <4>2
    <3> QED
      BY <1>0, <1>1, <2>2, <3>1 DEF Frozen, FrameTypes
  <2>4. Moves(l, ToSet(prog[l]), none)
    <3>p. PICK p : p = <<>>
      OBVIOUS
    <3>1. p \in Seq(Instr) /\ ToSet(p) = {} /\ Then(l, p)
      BY <2>1, <3>p DEF ToSet
    <3>2. Form(Gone(l)', holds', inside', p)
      BY <3>p DEF Form
    <3>3. Moves(l, ToSet(prog[l]), ToSet(p))
      BY <1>0, <1>4, <2>3, <3>1, <3>2, LoneMoves
    <3> QED
      BY <2>m, <3>1, <3>3
  <2>5. Turn(c, none)
    <3>1. st' \in [Coros -> States] /\ st'[c] = "run" /\ epoch' \in [Coros -> Nat] /\ waits' \in [Coros -> Nat]
      BY <1>0, <1>1, <1>4, <2>2 DEF FrameTypes, States
    <3>2. /\ \A d \in Coros : d # c => /\ st'[d] = st[d] /\ epoch'[d] = epoch[d] /\ waits'[d] = waits[d]
                                       /\ (d \in cancelled' <=> d \in cancelled)
          /\ cancelled' \subseteq cancelled /\ abandoned' \subseteq Coros
      BY <1>0, <1>1, <1>4, <2>2 DEF FrameTypes
    <3>3. waits[c] <= waits'[c] /\ epoch'[c] = 0 /\ epoch'[c] <= waits'[c]
      BY <1>0, <1>1, <1>4 DEF FrameTypes
    <3> QED
      BY <1>1, <1>2, <1>3, <1>4, <2>4, <2>n, <3>1, <3>2, <3>3 DEF Turn
  <2>6. Ended(c, none)
    <3>1. st'[c] = "run" /\ epoch'[c] = 0
      BY <1>0, <1>1, <1>4, <2>2 DEF FrameTypes
    <3> QED
      BY <1>1, <1>2, <1>3, <1>4, <1>10, <2>4, <2>5, <2>n, <3>1 DEF Ended
  <2>7. CASE st[c] \in {"lock", "cond"}
    <3>1. LockReturned(c) /\ OnLock
      BY <1>6, <2>1, <2>7 DEF OnLock
    <3> QED
      BY <1>1, <2>6, <2>7, <3>1, LockReturnStep
  <2>8. CASE st[c] = "acquire"
    <3>1. SemReturned(c) /\ OnSemaphore
      BY <1>6, <2>1, <2>8 DEF OnSemaphore
    <3> QED
      BY <1>1, <2>6, <2>8, <3>1, SemReturnStep
  <2>9. CASE st[c] = "wait"
    <3>1. UNCHANGED eventVars /\ OnEvent
      BY <1>6, <2>1, <2>9 DEF OnEvent
    <3> QED
      BY <1>1, <2>6, <2>9, <3>1, EventReturnStep
  <2>10. CASE st[c] = "await"
    <3>1. AwaitReturned(c) /\ OnFuture
      BY <1>6, <2>1, <2>10 DEF OnFuture
    <3> QED
      BY <1>1, <2>6, <2>10, <3>1, FutureReturnStep
  <2> QED
    BY <1>2, <2>7, <2>8, <2>9, <2>10 DEF Waits
<1> QED
  BY <1>8, <1>9, <1>10

\* At first nobody waits, and no call is in progress.
LEMMA InitIInv ==
    Init => IInv
<1> SUFFICES ASSUME Init PROVE IInv
  OBVIOUS
<1>1. /\ home \in [Coros -> Loops] /\ st \in [Coros -> {"run", "gone"}]
      /\ ready = [l \in Loops |-> <<>>] /\ prog = [l \in Loops |-> <<>>]
      /\ epoch = [c \in Coros |-> 0] /\ waits = [c \in Coros |-> 0]
      /\ cancelled = {} /\ abandoned = {}
  BY WaitingAssumption DEF Init, WaitingInit
<1>2. \A T : <<>> \in Seq(T) /\ ToSet(<<>>) = {} /\ Distinct(<<>>)
  BY DEF ToSet, Distinct
<1>3. FrameTypes
  BY <1>1, <1>2 DEF FrameTypes, States
<1>4. /\ \A l \in Loops : prog[l] = <<>> /\ ToSet(prog[l]) = {} /\ ready[l] = <<>> /\ ToSet(ready[l]) = {}
      /\ \A c \in Coros : home[c] \in Loops /\ ToSet(prog[home[c]]) = {} /\ ToSet(ready[home[c]]) = {}
  BY <1>1, <1>2
<1>5. /\ \A c \in Coros : \A op : ~Has(c, op)
      /\ \A c \in Coros : ~Roused(c) /\ ~Summoned(c) /\ ~HandedOn(c) /\ ~Pushing(c) /\ ~Releasing(home[c])
      /\ \A l \in Loops : ~Releasing(l)
  BY <1>4 DEF Has, Roused, Summoned, HandedOn, Pushing, Releasing, Queued
<1>6. Calling
  <2>1. \A l \in Loops : Shape(l)
    BY <1>4 DEF Shape, Form
  <2> QED
    BY <1>4, <1>5, <2>1 DEF Calling
<1>7. Epochs
  BY <1>1, <1>4, <1>5 DEF Epochs
<1>8. Wakes
  <2>1. \A l \in Loops : Distinct(ready[l])
    BY <1>2, <1>4
  <2>2. Unraced
    BY <1>1, <1>4 DEF Unraced, Escaping
  <2> QED
    BY <1>1, <1>4, <1>5, <2>1, <2>2 DEF Wakes
<1>9. \A c \in Coros : st[c] \in {"run", "gone"}
  BY <1>1
<1>n. List(<<>>) /\ ToSet(<<>>) = {} /\ \A c : ~Named(<<>>, c)
  BY ListNone
<1>10. LockInv
  <2>0. /\ holds = [c \in Coros |-> 0] /\ locked = FALSE /\ owner = NoCoro /\ recursion = 0
        /\ waiters = <<>> /\ cwaiters = <<>> /\ NoCoro \notin Coros
    BY LockAssumption DEF Init, LockInit
  <2>1. Owning
    <3>1. holds \in [Coros -> Nat] /\ recursion \in Nat /\ \A c \in Coros : ~(holds[c] > 0)
      BY <2>0
    <3>2. owner \in Coros \cup {NoCoro} /\ (owner = NoCoro => recursion = 0) /\ \A c \in Coros : owner # c
      BY <2>0
    <3>3. locked = (owner # NoCoro)
      BY <2>0
    <3> QED
      BY <1>5, <3>1, <3>2, <3>3 DEF Owning
  <2>2. LockLists
    BY <1>4, <1>5, <1>n, <2>0 DEF LockLists
  <2>3. LockWaits
    BY <1>9 DEF LockWaits
  <2> QED
    BY <2>1, <2>2, <2>3 DEF LockInv
<1>11. SemInv
  <2>0. permits = Permits /\ semWaiters = <<>> /\ reserved = {} /\ inside = {} /\ posts = 0 /\ Permits \in Nat
    BY SemaphoreAssumption DEF Init, SemInit
  <2>1. Cardinality({}) = 0 /\ IsFiniteSet({})
    BY FS_EmptySet
  <2>2. Owed = {}
    BY <1>4 DEF Owed
  <2>3. Conservation
    <3>1. Cardinality(inside) = 0 /\ Cardinality(reserved) = 0 /\ Cardinality(Owed) = 0
      BY <2>0, <2>1, <2>2
    <3> QED
      BY <2>0, <3>1 DEF Conservation
  <2>4. NoIdlePermit
    BY <2>0 DEF NoIdlePermit
  <2> QED
    BY <1>5, <1>9, <1>n, <2>0, <2>1, <2>3, <2>4 DEF SemInv
<1>12. EventInv
  <2>0. set = FALSE /\ setWaiters = <<>> /\ sets = 0 /\ since = [c \in Coros |-> 0]
    BY DEF Init, EventInit
  <2>1. NobodyQueuedOnSet
    BY <2>0 DEF NobodyQueuedOnSet
  <2>2. sets \in Nat /\ since \in [Coros -> Nat] /\ \A c \in Coros : since[c] <= sets
    BY <2>0
  <2>s. set \in BOOLEAN
    BY <2>0
  <2>3. List(setWaiters) /\ ToSet(setWaiters) = {}
    BY <1>n, <2>0
  <2> QED
    BY <1>9, <2>1, <2>2, <2>s, <2>3 DEF EventInv
<1>13. FutureInv
  <2>0. /\ result = [f \in Futures |-> "none"] /\ promise = Futures /\ consumed = {}
        /\ futWaiters = [f \in Futures |-> <<>>]
        /\ on = [c \in Coros |-> CHOOSE f \in Futures : TRUE]
        /\ got = [c \in Coros |-> "nothing"]
    BY DEF Init, FutureInit
  <2>1. FutureTypeOK
    BY <1>2, <2>0, FutureAssumption DEF FutureTypeOK, Outcomes
  <2>2. \A f \in Futures : ~fready(f) /\ futWaiters[f] = <<>> /\ ToSet(futWaiters[f]) = {} /\ Distinct(futWaiters[f])
    BY <1>2, <2>0 DEF fready
  <2>3. NoLostResult
    BY <2>2 DEF NoLostResult
  <2> QED
    BY <1>4, <1>5, <1>9, <2>1, <2>2, <2>3 DEF FutureInv
<1> QED
  BY <1>3, <1>6, <1>7, <1>8, <1>10, <1>11, <1>12, <1>13 DEF IInv

\* A step that changes nothing.
LEMMA SameIInv ==
    ASSUME IInv, Unraced', UNCHANGED vars
    PROVE  IInv'
<1>1. /\ UNCHANGED <<home, st, epoch, waits, cancelled, abandoned, ready, prog>>
      /\ UNCHANGED <<holds, locked, owner, recursion, waiters, cwaiters>>
      /\ UNCHANGED <<permits, semWaiters, reserved, inside, posts>>
      /\ UNCHANGED <<set, setWaiters, sets, since>>
      /\ UNCHANGED <<result, promise, consumed, futWaiters, on, got>>
  BY DEF vars, frames, lockVars, lock, semVars, eventVars, futVars
<1>2. Active' = Active
  BY <1>1 DEF Active
<1>3. FrameTypes'
  BY <1>1 DEF IInv, FrameTypes
<1>4. Calling'
  <2>1. \A l \in Loops : Shape(l)'
    BY <1>1 DEF IInv, Calling, Shape, Gone
  <2>2. \A c, op : Has(c, op)' <=> Has(c, op)
    BY <1>1 DEF Has
  <2> QED
    BY <1>1, <2>1, <2>2 DEF IInv, Calling
<1>5. \A c \in Coros : Rests(c)
  BY <1>1 DEF Rests, Roused, Queued, Summoned, Has, Now
<1>6. Growing
  BY <1>1 DEF Growing, IInv, FrameTypes
<1>7. \A S : Undisturbed(S)
  BY <1>5, <1>6 DEF Undisturbed
<1>8. \A ops : Retains(ops)
  BY <1>1 DEF Retains
<1>9. Base /\ LockInv /\ SemInv /\ EventInv /\ FutureInv
  BY DEF IInv, Base
<1>10. LockInv'
  <2>1. \A c \in Coros : Has(c, "guard") => (st'[c] = "run" <=> st[c] = "run")
    BY <1>1
  <2>2. UNCHANGED lockVars
    BY DEF vars
  <2> QED
    BY <1>7, <1>8, <1>9, <2>1, <2>2, LockKept
<1>11. SemInv'
  <2>2. UNCHANGED semVars
    BY DEF vars
  <2> QED
    BY <1>7, <1>8, <1>9, <2>2, SemKept
<1>12. EventInv'
  <2>2. UNCHANGED eventVars
    BY DEF vars
  <2> QED
    BY <1>7, <1>8, <1>9, <2>2, EventKept
<1>13. FutureInv'
  <2>1. \A c \in Coros : Has(c, "future_erase") /\ st'[c] = "run" => st[c] = "run"
    BY <1>1
  <2>2. UNCHANGED futVars
    BY DEF vars
  <2> QED
    BY <1>7, <1>8, <1>9, <2>1, <2>2, FutureKept
<1>14. Epochs'
  <2>2. \A c, op : Has(c, op)' <=> Has(c, op)
    BY <1>1 DEF Has
  <2> QED
    BY <1>1, <2>2 DEF IInv, Epochs
<1>15. Wakes'
  <2>1. \A c \in Coros : /\ (Has(c, "resume")' <=> Has(c, "resume")) /\ Now(c)' = Now(c) /\ (Queued(c)' <=> Queued(c))
                         /\ (Summoned(c)' <=> Summoned(c)) /\ (Roused(c)' <=> Roused(c)) /\ (Suspended(c)' <=> Suspended(c))
    BY <1>1 DEF Roused, Queued, Summoned, Has, Now, Suspended
  <2> QED
    BY <1>1, <1>2, <2>1 DEF IInv, Wakes
<1> QED
  BY <1>3, <1>4, <1>10, <1>11, <1>12, <1>13, <1>14, <1>15 DEF IInv

\* One instruction of a call on the lock, or the next coroutine, or a wake-up.
LEMMA LoopStepIInv ==
    ASSUME IInv, Unraced', NEW l \in Loops, l \in Active, LoopStep(l)
    PROVE  IInv'
<1>1. CASE ResumeWaiter(l)
  BY <1>1, ResumeStep
<1>2. CASE PopNext(l)
  BY <1>2, PopStep
<1>3. CASE schedule_waiter(l) /\ OnFrames
  BY <1>3, ScheduleStep
<1>4. CASE LockStep(l) /\ OnLock
  <2>1. CASE Unlock(l)
    BY <1>4, <2>1, UnlockStep
  <2>2. CASE EraseLock(l)
    BY <1>4, <2>2, EraseLockStep
  <2>3. CASE HandOff(l)
    BY <1>4, <2>3, HandOffStep
  <2>4. CASE RequestLock(l)
    BY <1>4, <2>4, RequestStep
  <2>5. CASE CondQueue(l)
    <3>0. UNCHANGED <<frames, ready, holds, lock, waiters>>
      BY <2>5 DEF CondQueue
    <3>1. CASE At(l, "push") /\ cwaiters' = Append(cwaiters, Arg(l)) /\ Then(l, Rest(l))
      BY <1>4, <3>0, <3>1, PushStep
    <3>2. CASE At(l, "erase_cond") /\ cwaiters' = erase_waiter(cwaiters, Arg(l)) /\ Then(l, Rest(l))
      BY <1>4, <3>0, <3>2, EraseCondStep
    <3>3. CASE At(l, "notify") /\ notify(l, Arg(l), Rest(l))
      BY <1>4, <3>0, <3>3, NotifyStep
    <3> QED
      BY <2>5, <3>1, <3>2, <3>3 DEF CondQueue
  <2> QED
    BY <1>4, <2>1, <2>2, <2>3, <2>4, <2>5 DEF LockStep
<1>5. CASE SemStep(l) /\ OnSemaphore
  BY <1>5, SemSuspendStep, SemPassOnStep DEF SemStep
<1>6. CASE EventStep(l) /\ OnEvent
  BY <1>6, EventSuspendStep, EventSwapStep, EventEraseStep DEF EventStep
<1>7. CASE FutureStep(l) /\ OnFuture
  BY <1>7, AwaitSuspendStep, AwaitScheduleStep, AwaitEraseStep, PromiseNotifyStep DEF FutureStep
<1> QED
  BY <1>1, <1>2, <1>3, <1>4, <1>5, <1>6, <1>7 DEF LoopStep

\* Calls that any code on an active loop may make.
LEMMA SignalIInv ==
    ASSUME IInv, Unraced', NEW l \in Loops, l \in Active, Signal(l)
    PROVE  IInv'
<1>1. ASSUME OnLock, NEW all \in BOOLEAN, CondNotify(l, all) PROVE IInv'
  BY <1>1, CondNotifyStep
<1>2. ASSUME OnSemaphore, SemPost(l) PROVE IInv'
  BY <1>2, SemPostStep
<1>3. ASSUME OnEvent, EventSet(l) PROVE IInv'
  BY <1>3, EventSetStep
<1>4. ASSUME OnEvent, EventClear PROVE IInv'
  BY <1>4, EventClearStep
<1>5. ASSUME OnFuture, NEW f \in Futures, DropPromise(l, f) PROVE IInv'
  BY <1>5, DropPromiseStep
<1>6. ASSUME OnFuture, NEW f \in Futures, NEW r \in {"value", "exception"}, PromiseSet(l, f, r) PROVE IInv'
  BY <1>6, PromiseSetStep
<1> QED
  BY <1>1, <1>2, <1>3, <1>4, <1>5, <1>6 DEF Signal, Produce

\* Calls that coroutines begin.
LEMMA CallIInv ==
    ASSUME IInv, Unraced', NEW c \in Coros, Call(c)
    PROVE  IInv'
<1>1. ASSUME OnLock, LockCall(c) PROVE IInv'
  BY <1>1, AcquireNowStep, AcquireWaitStep, LockReleaseStep, CondWaitStep DEF LockCall
<1>2. ASSUME OnSemaphore, SemCall(c) PROVE IInv'
  BY <1>2, SemAcquireStep, SemReleaseStep DEF SemCall
<1>3. ASSUME OnEvent, EventWait(c) PROVE IInv'
  BY <1>3, EventWaitStep
<1>4. ASSUME OnFuture, NEW f \in Futures, Await(c, f) PROVE IInv'
  BY <1>4, AwaitStep
<1> QED
  BY <1>1, <1>2, <1>3, <1>4 DEF Call

\* Every step of the composition keeps the invariant.
LEMMA NextIInv ==
    ASSUME IInv, Unraced', [Next]_vars
    PROVE  IInv'
<1>1. CASE UNCHANGED vars
  BY <1>1, SameIInv
<1>2. ASSUME NEW l \in Active, LoopStep(l) \/ Signal(l) PROVE IInv'
  <2>1. l \in Loops
    BY <1>2 DEF IInv, FrameTypes, Active
  <2> QED
    BY <1>2, <2>1, LoopStepIInv, SignalIInv
<1>3. ASSUME NEW c \in Coros, Call(c) \/ End(c) PROVE IInv'
  BY <1>3, CallIInv, EndStep
<1> QED
  BY <1>1, <1>2, <1>3 DEF Next

\* The invariant holds in every state of an unraced behaviour.
LEMMA Invariance ==
    Spec /\ []Unraced => []IInv
<1>1. Init => IInv
  BY InitIInv
<1>2. IInv /\ Unraced' /\ [Next]_vars => IInv'
  BY NextIInv
<1> QED
  BY <1>1, <1>2, PTL DEF Spec

\* The lock's owner is inside, about to be resumed, or passing the lock on.
LEMMA OwnerServed ==
    ASSUME IInv
    PROVE  NeverLeaked
<1>0. Base /\ LockInv /\ FrameTypes /\ Owning /\ Calling
  BY DEF IInv, Base, LockInv
<1> SUFFICES ASSUME owner # NoCoro, ~(holds[owner] > 0) PROVE Serves(owner)
  BY DEF NeverLeaked
<1>c. PICK c : c = owner
  OBVIOUS
<1>1. c \in Coros /\ holds[c] = 0 /\ recursion \in Nat /\ home[c] \in Loops /\ Counts(c)
  BY <1>0, <1>c DEF Owning, FrameTypes
<1>2. ASSUME NEW op \in {"resume", "erase_lock", "guard"}, Has(c, op) PROVE Serves(c)
  <2>1. PICK i : i = <<op, c>>
    OBVIOUS
  <2>2. i \in ToSet(prog[home[c]]) /\ i[1] = op /\ i[2] = c
    BY <1>2, <2>1 DEF Has
  <2> QED
    BY <1>1, <1>2, <2>2 DEF Serves
<1>3. ASSUME Releasing(home[c]) PROVE Serves(c)
  <2>1. PICK i : i = <<"release">>
    OBVIOUS
  <2>2. i \in ToSet(prog[home[c]]) /\ i[1] = "release"
    BY <1>3, <2>1 DEF Releasing
  <2> QED
    BY <1>1, <2>2 DEF Serves
<1>4. ASSUME Summoned(c) PROVE Serves(c)
  <2>l. PICK l \in Loops : <<"schedule", Now(c)>> \in ToSet(prog[l])
    BY <1>4 DEF Summoned
  <2>1. PICK i : i = <<"schedule", Now(c)>>
    OBVIOUS
  <2>2. i \in ToSet(prog[l]) /\ i[1] = "schedule" /\ i[2] = <<c, epoch[c]>>
    BY <2>l, <2>1 DEF Now
  <2> QED
    BY <2>2 DEF Serves
<1>5. CASE Leaving(c)
  BY <1>2, <1>3, <1>5, <1>c DEF Leaving
<1>6. CASE ~Leaving(c) /\ Has(c, "erase_lock")
  BY <1>2, <1>6, <1>c
<1>7. CASE ~Leaving(c) /\ st[c] \in {"lock", "cond"}
  <2>1. CASE Listed(c)
    <3>1. Releasing(home[c])
      BY <1>0, <1>1, <1>7, <1>c, <2>1 DEF LockInv, LockWaits
    <3> QED
      BY <1>3, <1>c, <3>1
  <2>2. CASE ~Listed(c)
    <3>1. Roused(c)
      BY <1>0, <1>1, <1>7, <2>2 DEF LockInv, LockWaits
    <3>2. ~Has(c, "future_schedule")
      <4>1. Has(c, "future_schedule") => st[c] \in Phase("future_schedule")
        BY <1>0, <1>1 DEF Calling, OnCoro
      <4> QED
        BY <1>7, <4>1 DEF Phase
    <3>3. Queued(c) => Serves(c)
      BY DEF Serves
    <3> QED
      BY <1>2, <1>4, <1>c, <3>1, <3>2, <3>3 DEF Roused
  <2> QED
    BY <2>1, <2>2
<1>8. CASE ~Leaving(c) /\ ~Enrolled(c)
  BY <1>1, <1>8 DEF Counts
<1> QED
  BY <1>5, <1>6, <1>7, <1>8 DEF Enrolled

\* A coroutine in Condition::wait that does not own the lock can be found.
LEMMA WaiterFound ==
    ASSUME IInv
    PROVE  NoMissedNotify
<1>0. Base /\ LockInv
  BY DEF IInv, Base
<1>1. /\ \A d \in Coros : Local(d)
      /\ Recent(waiters, {"lock", "cond"}) /\ Recent(cwaiters, {"cond"})
  BY <1>0, LocalOf
<1> SUFFICES ASSUME NEW c \in Coros, st[c] = "cond", owner # c
             PROVE  \/ <<c, epoch[c]>> \in ToSet(waiters) \cup ToSet(cwaiters)
                    \/ \E l \in Loops : \E i \in ToSet(prog[l]) :
                          \/ i = <<"hand_off", <<c, epoch[c]>>>>
                          \/ i[1] \in {"is_owned_by", "has_waiter"} /\ i[2] = c
  BY DEF NoMissedNotify
<1>2. Local(c) /\ home[c] \in Loops
  BY <1>0, <1>1 DEF Base, FrameTypes
<1>3. Listed(c) /\ ~Pushing(c)
  BY <1>2 DEF Local
<1>4. Named(waiters, c) \/ Named(cwaiters, c) \/ HandedOn(c) \/ Asking(c)
  BY <1>3 DEF Listed
<1>5. CASE Named(waiters, c)
  <2>1. PICK w \in ToSet(waiters) : w[1] = c
    BY <1>5 DEF Named
  <2>2. w = <<c, epoch[c]>>
    BY <1>1, <2>1 DEF Recent, Now
  <2> QED
    BY <2>1, <2>2
<1>6. CASE Named(cwaiters, c)
  <2>1. PICK w \in ToSet(cwaiters) : w[1] = c
    BY <1>6 DEF Named
  <2>2. w = <<c, epoch[c]>>
    BY <1>1, <2>1 DEF Recent, Now
  <2> QED
    BY <2>1, <2>2
<1>7. CASE HandedOn(c)
  BY <1>7 DEF HandedOn, Now
<1>8. CASE Asking(c)
  <2>1. PICK op \in {"is_owned_by", "has_waiter"} : Has(c, op)
    BY <1>8 DEF Asking
  <2>2. PICK i : i = <<op, c>>
    OBVIOUS
  <2>3. i \in ToSet(prog[home[c]]) /\ i[1] = op /\ i[2] = c
    BY <2>1, <2>2 DEF Has
  <2> QED
    BY <1>2, <2>3
<1> QED
  BY <1>4, <1>5, <1>6, <1>7, <1>8

\* Only the loop that resumes a suspended coroutine lets it run.
LEMMA OnlyResumed ==
    ASSUME FrameTypes, [Next]_vars, NEW c \in Coros, Suspended(c), st'[c] = "run"
    PROVE  \E l \in Loops : ResumeWaiter(l)
<1>0. st \in [Coros -> States] /\ st[c] \notin {"run", "gone"} /\ st'[c] # st[c]
  BY DEF FrameTypes, Suspended
<1>1. st' # st
  BY <1>0
<1>f. ~UNCHANGED frames
  BY <1>1 DEF frames
<1>2. ~UNCHANGED vars
  BY <1>f DEF vars
<1>e. \A d \in Coros : \A s : st' = [st EXCEPT ![d] = s] => d = c /\ s = "run"
  BY <1>0
<1>3. ASSUME NEW l \in Active, LoopStep(l) PROVE ResumeWaiter(l)
  <2>1. ~PopNext(l) /\ ~schedule_waiter(l)
    BY <1>f DEF PopNext, Pop, schedule_waiter
  <2>2. ~LockStep(l)
    BY <1>f DEF LockStep, Unlock, EraseLock, CondQueue, HandOff, RequestLock
  <2>3. ~SemStep(l)
    <3>1. ~SemPassOn(l)
      BY <1>f DEF SemPassOn
    <3>2. ~SemSuspend(l)
      <4> SUFFICES ASSUME SemSuspend(l) PROVE FALSE
        OBVIOUS
      <4>1. st' = [st EXCEPT ![Arg(l)] = "acquire"]
        BY <1>1 DEF SemSuspend
      <4> QED
        BY <1>0, <4>1
    <3> QED
      BY <3>1, <3>2 DEF SemStep
  <2>4. ~EventStep(l)
    <3>1. ~EventSwap(l) /\ ~EventErase(l)
      BY <1>f DEF EventSwap, EventErase
    <3>2. ~EventSuspend(l)
      <4> SUFFICES ASSUME EventSuspend(l) PROVE FALSE
        OBVIOUS
      <4>1. st' = [st EXCEPT ![Arg(l)] = "wait"]
        BY <1>1 DEF EventSuspend
      <4> QED
        BY <1>0, <4>1
    <3> QED
      BY <3>1, <3>2 DEF EventStep
  <2>5. ~FutureStep(l)
    <3>1. ~AwaitSchedule(l) /\ ~AwaitErase(l) /\ ~PromiseNotify(l)
      BY <1>f DEF AwaitSchedule, AwaitErase, PromiseNotify
    <3>2. ~AwaitSuspend(l)
      <4> SUFFICES ASSUME AwaitSuspend(l) PROVE FALSE
        OBVIOUS
      <4>1. st' = [st EXCEPT ![Arg(l)] = "await"]
        BY DEF AwaitSuspend
      <4> QED
        BY <1>0, <4>1
    <3> QED
      BY <3>1, <3>2 DEF FutureStep
  <2> QED
    BY <1>3, <2>1, <2>2, <2>3, <2>4, <2>5 DEF LoopStep
<1>4. ASSUME NEW l \in Active, Signal(l) PROVE FALSE
  <2>1. /\ \A all \in BOOLEAN : ~CondNotify(l, all)
        /\ ~SemPost(l) /\ ~EventSet(l) /\ ~EventClear
    BY <1>f DEF CondNotify, SemPost, EventSet, EventClear
  <2>2. \A f \in Futures : ~Produce(l, f)
    BY <1>f DEF Produce, DropPromise, PromiseSet
  <2> QED
    BY <1>4, <2>1, <2>2 DEF Signal
<1>5. ASSUME NEW d \in Coros, Call(d) PROVE FALSE
  <2>1. ~AcquireNow(d) /\ ~LockRelease(d) /\ ~SemAcquire(d) /\ ~SemRelease(d)
    BY <1>f DEF AcquireNow, LockRelease, SemAcquire, SemRelease
  <2>2. ~AcquireWait(d)
    BY <1>e DEF AcquireWait
  <2>3. ~CondWait(d)
    BY <1>e DEF CondWait
  <2>4. ~EventWait(d) /\ \A f \in Futures : ~Await(d, f)
    BY <1>1 DEF EventWait, Await
  <2> QED
    BY <1>5, <2>1, <2>2, <2>3, <2>4 DEF Call, LockCall, SemCall
<1>6. ASSUME NEW d \in Coros, End(d) PROVE FALSE
  <2>1. ~Cancel(d, TakesCancel(d), OnCancel(d))
    BY <1>1 DEF Cancel
  <2>2. ~Destroy(d, Destroyed(d))
    BY <1>1, <1>e DEF Destroy
  <2> QED
    BY <1>6, <2>1, <2>2 DEF End
<1>7. Active \subseteq Loops
  BY DEF Active, FrameTypes
<1> QED
  BY <1>2, <1>3, <1>4, <1>5, <1>6, <1>7 DEF Next

\* The coroutine that is resumed has got what it waited for, unless it was cancelled.
LEMMA ResumedForReason ==
    ASSUME IInv, [Next]_vars, NEW c \in Coros, Suspended(c), st'[c] = "run", c \notin cancelled
    PROVE  /\ st[c] \in {"lock", "cond"} => owner = c
           /\ st[c] = "acquire" => c \in reserved
           /\ st[c] = "wait" => since[c] < sets
           /\ st[c] = "await" => fready(on[c])
<1>0. /\ Base /\ FrameTypes /\ LockInv /\ SemInv /\ EventInv /\ FutureInv /\ holds \in [Coros -> Nat]
  BY DEF IInv, Base, LockInv, Owning
<1>l. PICK l \in Loops : ResumeWaiter(l)
  BY <1>0, OnlyResumed
<1>1. Arg(l) \in Coros /\ Has(Arg(l), "resume")
  BY <1>0, <1>l, LoneCall DEF ResumeWaiter, Alone, OnCoro
<1>2. c = Arg(l)
  <2>1. PICK s : st' = [st EXCEPT ![Arg(l)] = s]
    BY <1>l DEF ResumeWaiter, ResumeNext
  <2> QED
    BY <1>0, <2>1 DEF FrameTypes, Suspended
<1>3. Roused(c)
  BY <1>1, <1>2 DEF Roused
<1>4. st[c] \in {"lock", "cond"} => owner = c
  BY <1>0, <1>3 DEF LockInv, LockWaits
<1>5. st[c] = "acquire" => c \in reserved
  BY <1>0, <1>3 DEF SemInv
<1>6. st[c] = "wait" => since[c] < sets
  BY <1>0, <1>3 DEF EventInv
<1>7. st[c] = "await" => fready(on[c])
  BY <1>0, <1>3 DEF FutureInv
<1> QED
  BY <1>4, <1>5, <1>6, <1>7

(* The properties the runs check, for every value of the constants.  Unraced
   is all they assume: no coroutine is cancelled on its loop while the thread of
   another loop is in the middle of notifying it. *)

\* Mutual exclusion of the Lock: whoever believes to hold it owns it, and the count of
\* the recursion is right, whatever the Condition, the cancellations and destroyed
\* frames do in between.
THEOREM LockExcludes ==
    Spec /\ []Unraced => []MutualExclusion
<1>1. ASSUME IInv PROVE MutualExclusion
  <2>1. Owning /\ FrameTypes
    BY <1>1 DEF IInv, LockInv
  <2>2. ASSUME NEW c \in Coros, holds[c] > 0 PROVE locked /\ owner = c /\ (Idle(home[c]) => recursion = holds[c] - 1)
    <3>1. owner = c /\ ~Enrolled(c) /\ Counts(c)
      BY <2>1, <2>2 DEF Owning
    <3>2. locked
      <4>1. owner # NoCoro
        BY <3>1, LockAssumption
      <4> QED
        BY <2>1, <4>1 DEF Owning
    <3>3. ASSUME Idle(home[c]) PROVE recursion = holds[c] - 1
      <4>1. ToSet(prog[home[c]]) = {}
        BY <3>3 DEF Idle, ToSet
      <4>2. ~Leaving(c)
        BY <4>1 DEF Leaving, Releasing, Has
      <4> QED
        BY <3>1, <4>2 DEF Counts
    <3> QED
      BY <3>1, <3>2, <3>3
  <2> QED
    BY <2>2 DEF MutualExclusion
<1>2. Spec /\ []Unraced => []IInv
  BY Invariance
<1> QED
  BY <1>1, <1>2, PTL

\* The Lock is never left with an owner that nobody will resume and who will not
\* release it: hand-overs to cancelled or destroyed waiters are passed on.
THEOREM LockNeverLeaked ==
    Spec /\ []Unraced => []NeverLeaked
<1>1. IInv => NeverLeaked
  BY OwnerServed
<1>2. Spec /\ []Unraced => []IInv
  BY Invariance
<1> QED
  BY <1>1, <1>2, PTL

\* The Semaphore neither loses nor invents a permit: the free ones, those inside, those
\* reserved for a waiter and those being passed on add up to the initial number and the
\* releases.
THEOREM PermitsConserved ==
    Spec /\ []Unraced => []Conservation
<1>1. IInv => Conservation
  BY DEF IInv, SemInv
<1>2. Spec /\ []Unraced => []IInv
  BY Invariance
<1> QED
  BY <1>1, <1>2, PTL

\* No signal of the Semaphore, the Event, a Promise or a Condition is missed by a
\* coroutine that waits for it.
THEOREM NoSignalMissed ==
    Spec /\ []Unraced => []NoMissedSignal
<1>1. IInv => NoMissedSignal
  <2>1. IInv => NoIdlePermit /\ NobodyQueuedOnSet /\ NoLostResult
    BY DEF IInv, SemInv, EventInv, FutureInv
  <2> QED
    BY <2>1, WaiterFound DEF NoMissedSignal
<1>2. Spec /\ []Unraced => []IInv
  BY Invariance
<1> QED
  BY <1>1, <1>2, PTL

\* A wait ends only with what was waited for or with a cancellation: a notification
\* that was meant for an earlier wait never ends a later one.
THEOREM WaitsReturnForReason ==
    Spec /\ []Unraced => ReturnsForReason
<1>1. IInv /\ [Next]_vars =>
        [\A c \in Coros :
            Suspended(c) /\ st'[c] = "run" /\ c \notin cancelled =>
                /\ st[c] \in {"lock", "cond"} => owner = c
                /\ st[c] = "acquire" => c \in reserved
                /\ st[c] = "wait" => since[c] < sets
                /\ st[c] = "await" => fready(on[c])]_vars
  BY ResumedForReason
<1>2. Spec /\ []Unraced => []IInv
  BY Invariance
<1> QED
  BY <1>1, <1>2, PTL DEF Spec, ReturnsForReason

=============================================================================
