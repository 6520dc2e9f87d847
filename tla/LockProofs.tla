----------------------------- MODULE LockProofs -----------------------------
(***************************************************************************)
(* The inductive invariant of Primitives, what a step of a loop may do to  *)
(* the calls in progress, the frames and the ready queues, and the steps   *)
(* of Lock and Condition: each keeps the lock's part of the invariant and, *)
(* as the lemmas on what a step leaves alone say, everybody else's.        *)
(***************************************************************************)
EXTENDS Primitives, ReadyQueueProofs

-----------------------------------------------------------------------------
(* The calls in progress.                                                  *)

Current == Coros \X (Nat \ {0})
OnWaiter == {"schedule", "hand_off", "push"}
OnCoro == {"resume", "guard", "erase_lock", "erase_cond", "is_owned_by", "has_waiter",
           "sem_suspend", "sem_remove", "sem_guard", "event_suspend", "event_erase",
           "future_suspend", "future_schedule", "future_erase"}
Instr ==
    (OnWaiter \X Current) \cup ((OnCoro \cup {"scope"}) \X Coros) \cup ({"notify"} \X BOOLEAN)
        \cup ({"future_notify"} \X Futures)
        \cup {<<"release">>, <<"sem_release">>, <<"event_swap">>}

Now(c) == <<c, epoch[c]>>
Has(c, op) == <<op, c>> \in ToSet(prog[home[c]])
Releasing(l) == <<"release">> \in ToSet(prog[l])

\* First y, then s.
Led(y, s) == <<y>> \o s

\* The Guards of a frame that is being destroyed: of the semaphore, if i, and n of
\* the lock.
Scopes(c, n) == [k \in 1..n |-> <<"scope", c>>]
Guards(c, n, i) == (IF i THEN <<<<"sem_guard", c>>>> ELSE <<>>) \o Scopes(c, n)

IsSchedule(x) == x \in {"schedule"} \X Current

\* What is left of the destruction of c: first x, then s.
Undoing(c, n, i, x, s) ==
    \/ /\ x = <<"erase_cond", c>> /\ n = 0
       /\ s = Led(<<"erase_lock", c>>, Led(<<"guard", c>>, Guards(c, n, i)))
    \/ /\ x \in {<<"erase_lock", c>>, <<"release">>} \/ IsSchedule(x)
       /\ n = 0
       /\ s = Led(<<"guard", c>>, Guards(c, n, i))
    \/ /\ x \in {<<"erase_lock", c>>, <<"release">>, <<"guard", c>>} /\ n = 0
       /\ s = Guards(c, n, i)
    \/ /\ \/ x \in {<<"sem_remove", c>>, <<"sem_release">>, <<"event_erase", c>>, <<"future_erase", c>>}
          \/ IsSchedule(x)
       /\ s = Guards(c, n, i)
    \/ /\ x = <<"sem_guard", c>> /\ i
       /\ s = Scopes(c, n)
    \/ /\ x = <<"scope", c>> /\ n > 0 /\ ~i
       /\ s = Scopes(c, n - 1)

\* The forms of a call in progress: first x, then s.  G: the frames destroyed, h
\* and I: the Guards in them.
Fits(G, h, I, x, s) ==
    \/ s = <<>> /\ x[1] \notin {"push", "erase_cond", "sem_guard", "scope"}
    \/ x[1] = "push" /\ s = <<<<"release">>>>
    \/ x[1] \in {"hand_off", "schedule"} /\ s = <<<<"notify", TRUE>>>>
    \/ \E c \in Coros : x = <<"erase_cond", c>> /\ s = <<<<"is_owned_by", c>>>>
    \/ /\ x[1] = "schedule" /\ x \notin ToSet(s)
       /\ Distinct(s) /\ \A y \in ToSet(s) : y[1] = "schedule"
    \/ \E c \in G : Undoing(c, h[c], c \in I, x, s)

Form(G, h, I, p) == p # <<>> => Fits(G, h, I, Head(p), Tail(p))

Gone(l) == {c \in Coros : home[c] = l /\ st[c] = "gone"}
Shape(l) == Form(Gone(l), holds, inside, prog[l])

\* The states in which a coroutine meets each of its instructions
Phase(op) ==
    CASE op \in {"sem_suspend", "event_suspend", "future_suspend"} -> {"run"}
      [] op = "future_schedule"                -> {"await"}
      [] op \in {"is_owned_by", "has_waiter"}  -> {"cond"}
      [] op = "erase_cond"                     -> {"cond", "gone"}
      [] op = "sem_guard"                      -> {"gone"}
      [] op = "resume"                         -> {"lock", "cond", "acquire", "wait", "await"}
      [] OTHER                                 -> {"run", "gone"}

Calling ==
    /\ \A l \in Loops : Shape(l)
    /\ \A l \in Loops : \A x \in ToSet(prog[l]) : x[1] \in OnCoro => home[x[2]] = l
    /\ \A c \in Coros, op \in OnCoro : Has(c, op) => st[c] \in Phase(op)
    /\ \A c \in Coros : Has(c, "is_owned_by") \/ Has(c, "has_waiter") => c \in cancelled

-----------------------------------------------------------------------------
(* Wake-ups on their way.                                                  *)

States == {"run", "lock", "cond", "acquire", "wait", "await", "gone"}

Summoned(c) == \E l \in Loops : <<"schedule", Now(c)>> \in ToSet(prog[l])
Roused(c) == Queued(c) \/ Summoned(c) \/ Has(c, "resume") \/ Has(c, "future_schedule")

FrameTypes ==
    /\ home \in [Coros -> Loops] /\ st \in [Coros -> States]
    /\ ready \in [Loops -> Seq(Coros)] /\ prog \in [Loops -> Seq(Instr)]
    /\ epoch \in [Coros -> Nat] /\ waits \in [Coros -> Nat]
    /\ cancelled \subseteq Coros /\ abandoned \subseteq Coros

Epochs ==
    /\ \A c \in Coros : epoch[c] <= waits[c]
    /\ \A l \in Loops : \A x \in ToSet(prog[l]) :
           x[1] \in OnWaiter => x[2][2] <= waits[x[2][1]]
    /\ \A c \in Coros :
           epoch[c] = 0 <=> st[c] \in {"run", "gone", "await"} /\ ~Has(c, "event_suspend")

Wakes ==
    /\ \A l \in Loops : Distinct(ready[l]) /\ \A c \in ToSet(ready[l]) : home[c] = l
    /\ \A c \in Coros : Roused(c) => Suspended(c)
    /\ \A c \in Coros : Has(c, "resume") => ~Queued(c) /\ ~Summoned(c)
    /\ \A c \in Coros, l \in Loops :
           Queued(c) /\ <<"schedule", Now(c)>> \in ToSet(prog[l]) => l = home[c]
    /\ \A c \in Coros, l, k \in Loops :
           <<"schedule", Now(c)>> \in ToSet(prog[l]) \cap ToSet(prog[k]) => l = k
    /\ Unraced
    /\ \A l \in Loops : prog[l] # <<>> => l \in Active

-----------------------------------------------------------------------------
(* The wait lists.                                                         *)

Named(s, c) == \E w \in ToSet(s) : w[1] = c

List(s) ==
    /\ s \in Seq(Current) /\ Distinct(s)
    /\ \A v, w \in ToSet(s) : v[1] = w[1] => v = w
    /\ \A w \in ToSet(s) : w[2] <= waits[w[1]]

Enrolled(c) == st[c] \in {"lock", "cond"} \/ Has(c, "erase_lock")
Leaving(c) == Releasing(home[c]) \/ (Has(c, "guard") /\ st[c] = "run")
HandedOn(c) == \E l \in Loops : <<"hand_off", Now(c)>> \in ToSet(prog[l])
Asking(c) == owner # c /\ (Has(c, "is_owned_by") \/ Has(c, "has_waiter"))
Pushing(c) == <<"push", Now(c)>> \in ToSet(prog[home[c]])
Listed(c) ==
    \/ Named(waiters, c)
    \/ st[c] = "cond" /\ (Named(cwaiters, c) \/ Pushing(c) \/ HandedOn(c) \/ Asking(c))

Counts(c) ==
    recursion = IF Leaving(c) THEN holds[c] ELSE IF Enrolled(c) THEN 0 ELSE holds[c] - 1

Owning ==
    /\ holds \in [Coros -> Nat] /\ recursion \in Nat
    /\ owner \in Coros \cup {NoCoro} /\ locked = (owner # NoCoro)
    /\ owner = NoCoro => recursion = 0
    /\ \A c \in Coros : holds[c] > 0 => owner = c /\ ~Enrolled(c)
    /\ \A l \in Loops : Releasing(l) => owner \in Coros /\ home[owner] = l
    /\ \A c \in Coros : Has(c, "guard") => IF st[c] = "run" THEN owner = c ELSE holds[c] = 0
    /\ \A c \in Coros : owner = c => Counts(c)

LockLists ==
    /\ List(waiters) /\ List(cwaiters)
    /\ \A w \in ToSet(waiters) :
           (st[w[1]] \in {"lock", "cond"} /\ w = Now(w[1])) \/ Has(w[1], "erase_lock")
    /\ \A w \in ToSet(cwaiters) :
           IF st[w[1]] = "cond" THEN w = Now(w[1]) ELSE Has(w[1], "erase_cond")
    /\ \A c \in Coros : ~(Named(waiters, c) /\ Named(cwaiters, c))
    /\ \A c \in Coros : HandedOn(c) =>
           st[c] = "cond" /\ ~Named(waiters, c) /\ ~Named(cwaiters, c)
    /\ \A c \in Coros, l, k \in Loops :
           <<"hand_off", Now(c)>> \in ToSet(prog[l]) \cap ToSet(prog[k]) => l = k
    /\ \A l \in Loops : \A x \in ToSet(prog[l]) : x[1] = "push" =>
           LET c == x[2][1] IN
           /\ home[c] = l /\ x[2] = Now(c) /\ st[c] = "cond" /\ Releasing(l) /\ owner = c
           /\ ~Named(waiters, c) /\ ~Named(cwaiters, c) /\ ~HandedOn(c)
    /\ \A c \in Coros :
           (Has(c, "is_owned_by") /\ ~Has(c, "erase_cond")) \/ Has(c, "has_waiter") => ~Named(cwaiters, c)
    /\ \A c \in Coros : Has(c, "has_waiter") => owner # c

LockWaits ==
    \A c \in Coros : st[c] \in {"lock", "cond"} =>
        /\ Listed(c) /\ Roused(c) => st[c] = "lock" /\ c \in cancelled
        /\ Listed(c) /\ owner = c => Releasing(home[c])
        /\ ~Listed(c) => owner = c /\ Roused(c) /\ ~Releasing(home[c])

LockInv == Owning /\ LockLists /\ LockWaits

SemInv ==
    /\ permits \in Nat /\ posts \in Nat /\ inside \subseteq Coros /\ reserved \subseteq Coros
    /\ IsFiniteSet(inside) /\ IsFiniteSet(reserved)
    /\ List(semWaiters)
    /\ \A w \in ToSet(semWaiters) :
           /\ w[1] \notin reserved
           /\ (st[w[1]] = "acquire" /\ w = Now(w[1])) \/ Has(w[1], "sem_remove")
    /\ \A c \in reserved : st[c] = "acquire" \/ Has(c, "sem_remove")
    /\ \A c \in Coros : st[c] = "acquire" =>
           /\ c \notin inside
           /\ Named(semWaiters, c) \/ c \in reserved
           /\ Named(semWaiters, c) /\ Roused(c) => c \in cancelled
    /\ \A c \in Coros : Has(c, "sem_suspend") => c \notin inside
    /\ Conservation /\ NoIdlePermit

EventInv ==
    /\ sets \in Nat /\ since \in [Coros -> Nat] /\ set \in BOOLEAN
    /\ List(setWaiters)
    /\ \A w \in ToSet(setWaiters) :
           (st[w[1]] = "wait" /\ w = Now(w[1])) \/ Has(w[1], "event_erase")
    /\ \A c \in Coros : since[c] <= sets
    /\ \A c \in Coros : st[c] = "wait" =>
           /\ Named(setWaiters, c) \/ since[c] < sets
           /\ Named(setWaiters, c) /\ Roused(c) => c \in cancelled
    /\ NobodyQueuedOnSet

FutureInv ==
    /\ FutureTypeOK
    /\ \A f \in Futures : Distinct(futWaiters[f])
    /\ \A f \in Futures : \A c \in ToSet(futWaiters[f]) :
           on[c] = f /\ (st[c] = "await" \/ Has(c, "future_erase"))
    /\ \A c \in Coros : st[c] = "await" =>
           /\ c \in ToSet(futWaiters[on[c]]) \/ fready(on[c])
           /\ c \in ToSet(futWaiters[on[c]]) /\ Roused(c) => c \in cancelled
    /\ \A f \in Futures, l \in Loops : <<"future_notify", f>> \in ToSet(prog[l]) => fready(f)
    /\ NoLostResult

IInv ==
    /\ FrameTypes /\ Calling /\ Epochs /\ Wakes
    /\ LockInv /\ SemInv /\ EventInv /\ FutureInv

-----------------------------------------------------------------------------
(* Lists of instructions.                                                  *)

\* What Led(y, s) is: y first, then s.
LEMMA Prefixed ==
    ASSUME NEW T, NEW y \in T, NEW s \in Seq(T)
    PROVE  /\ Led(y, s) \in Seq(T) /\ Led(y, s) # <<>>
           /\ Head(Led(y, s)) = y /\ Tail(Led(y, s)) = s
           /\ ToSet(Led(y, s)) = {y} \cup ToSet(s)
<1> DEFINE r == <<y>> \o s
<1>1. <<y>> \in Seq(T) /\ Len(<<y>>) = 1 /\ <<y>>[1] = y
  OBVIOUS
<1>2. /\ r \in Seq(T) /\ Len(r) = 1 + Len(s) /\ Len(s) \in Nat
      /\ \A i \in 1..(1 + Len(s)) : r[i] = IF i <= 1 THEN y ELSE s[i - 1]
  BY <1>1, ConcatProperties, LenProperties
<1> HIDE DEF r
<1>3. r # <<>>
  BY <1>2, EmptySeq
<1>4. Head(r) = y
  BY <1>2, <1>3, HeadTailProperties
<1>5. /\ Tail(r) \in Seq(T) /\ Len(Tail(r)) = Len(s)
      /\ \A i \in 1..Len(s) : Tail(r)[i] = r[i + 1]
  BY <1>2, <1>3, HeadTailProperties
<1>6. \A i \in 1..Len(s) : Tail(r)[i] = s[i]
  BY <1>2, <1>5
<1>7. Tail(r) = s
  BY <1>5, <1>6, SeqEqual
<1>8. ToSet(r) = {y} \cup ToSet(s)
  BY <1>2, <1>3, <1>4, <1>7, TailProperties
<1> QED
  BY <1>2, <1>3, <1>4, <1>7, <1>8 DEF r, Led

\* A list of one member.
LEMMA Single ==
    ASSUME NEW T, NEW y \in T
    PROVE  /\ <<y>> \in Seq(T) /\ <<y>> # <<>> /\ Head(<<y>>) = y /\ Tail(<<y>>) = <<>>
           /\ ToSet(<<y>>) = {y} /\ Distinct(<<y>>)
<1>1. <<y>> \o <<>> = <<y>>
  BY ConcatEmptySeq
<1>2. <<>> \in Seq(T) /\ ToSet(<<>>) = {}
  BY NoWaiters
<1>3. Distinct(<<y>>)
  BY DEF Distinct
<1> DEFINE e == <<>>
<1>4. ToSet(e) = {} /\ Led(y, e) = <<y>> /\ e = <<>>
  BY <1>1, <1>2 DEF Led
<1>6. e \in Seq(T)
  BY <1>2
<1> HIDE DEF e
<1>5. /\ Led(y, e) \in Seq(T) /\ Led(y, e) # <<>>
      /\ Head(Led(y, e)) = y /\ Tail(Led(y, e)) = e
      /\ ToSet(Led(y, e)) = {y} \cup ToSet(e)
  BY <1>6, Prefixed
<1> QED
  BY <1>3, <1>4, <1>5

\* The Guards of a frame, one after the other.
LEMMA ScopesProperties ==
    ASSUME NEW c \in Coros, NEW n \in Nat
    PROVE  /\ Scopes(c, n) \in Seq(Instr)
           /\ n = 0 => Scopes(c, n) = <<>> /\ ToSet(Scopes(c, n)) = {}
           /\ n > 0 => /\ Scopes(c, n) # <<>>
                       /\ Head(Scopes(c, n)) = <<"scope", c>>
                       /\ Tail(Scopes(c, n)) = Scopes(c, n - 1)
                       /\ ToSet(Scopes(c, n)) = {<<"scope", c>>}
<1> DEFINE s(m) == Scopes(c, m)
<1>1. <<"scope", c>> \in Instr
  BY DEF Instr, OnCoro
<1>2. ASSUME NEW m \in Nat
      PROVE  /\ s(m) \in Seq(Instr) /\ Len(s(m)) = m
             /\ \A i \in 1..m : s(m)[i] = <<"scope", c>>
  BY <1>1 DEF Scopes
<1>3. n = 0 => s(n) = <<>> /\ ToSet(s(n)) = {}
  BY <1>2, EmptySeq, NoWaiters
<1>4. ASSUME n > 0
      PROVE  /\ s(n) # <<>> /\ Head(s(n)) = <<"scope", c>> /\ Tail(s(n)) = s(n - 1)
             /\ ToSet(s(n)) = {<<"scope", c>>}
  <2>0. n - 1 \in Nat
    BY <1>4
  <2>1. s(n) # <<>>
    BY <1>2, <1>4, EmptySeq
  <2> HIDE DEF s
  <2>2. Head(s(n)) = s(n)[1] /\ 1 \in 1..n
    BY <1>2, <1>4, <2>1, HeadTailProperties
  <2>3. /\ Tail(s(n)) \in Seq(Instr) /\ Len(Tail(s(n))) = n - 1
        /\ \A i \in 1..(n - 1) : Tail(s(n))[i] = s(n)[i + 1]
    BY <1>2, <2>1, HeadTailProperties
  <2>4. /\ s(n - 1) \in Seq(Instr) /\ Len(s(n - 1)) = n - 1
        /\ \A i \in 1..(n - 1) : s(n - 1)[i] = <<"scope", c>>
    BY <1>2, <2>0
  <2>5. \A i \in 1..(n - 1) : Tail(s(n))[i] = s(n - 1)[i]
    <3>1. \A i \in 1..(n - 1) : i + 1 \in 1..n
      OBVIOUS
    <3> QED
      BY <1>2, <2>3, <2>4, <3>1
  <2>6. Tail(s(n)) = s(n - 1)
    BY <2>3, <2>4, <2>5, SeqEqual
  <2>7. ToSet(s(n)) = {<<"scope", c>>}
    BY <1>2, <2>2, InToSet
  <2> QED
    BY <1>2, <2>1, <2>2, <2>6, <2>7
<1> QED
  BY <1>2, <1>3, <1>4

\* The Guards of a frame run the one of the semaphore first, then those of the lock.
LEMMA GuardsProperties ==
    ASSUME NEW c \in Coros, NEW n \in Nat, NEW i \in BOOLEAN
    PROVE  /\ Guards(c, n, i) \in Seq(Instr)
           /\ ~i => Guards(c, n, i) = Scopes(c, n)
           /\ i => /\ Guards(c, n, i) # <<>> /\ Head(Guards(c, n, i)) = <<"sem_guard", c>>
                   /\ Tail(Guards(c, n, i)) = Scopes(c, n)
           /\ ToSet(Guards(c, n, i)) \subseteq {<<"sem_guard", c>>, <<"scope", c>>}
<1> DEFINE s == Scopes(c, n)
           y == <<"sem_guard", c>>
<1>1. y \in Instr
  BY DEF Instr, OnCoro
<1>2. s \in Seq(Instr) /\ ToSet(s) \subseteq {<<"scope", c>>}
  <2>1. n = 0 \/ n > 0
    OBVIOUS
  <2> QED
    BY <2>1, ScopesProperties
<1>g. Guards(c, n, i) = (IF i THEN <<y>> ELSE <<>>) \o s
  BY DEF Guards
<1>s. s = Scopes(c, n)
  OBVIOUS
<1> HIDE DEF s
<1>3. CASE i
  <2>1. Guards(c, n, i) = Led(y, s)
    BY <1>g, <1>3 DEF Led
  <2>2. y \in Instr /\ s \in Seq(Instr)
    BY <1>1, <1>2
  <2> HIDE DEF y
  <2>3. /\ Led(y, s) \in Seq(Instr) /\ Led(y, s) # <<>>
        /\ Head(Led(y, s)) = y /\ Tail(Led(y, s)) = s
        /\ ToSet(Led(y, s)) = {y} \cup ToSet(s)
    BY ONLY <2>2, Prefixed
  <2> QED
    BY <1>2, <1>3, <1>s, <2>1, <2>3 DEF y
<1>4. CASE ~i
  <2>1. Guards(c, n, i) = s
    BY <1>2, <1>4, <1>g, ConcatEmptySeq
  <2> QED
    BY <1>2, <1>4, <1>s, <2>1
<1> QED
  BY <1>3, <1>4

-----------------------------------------------------------------------------
(* The forms of a call in progress.                                        *)

\* What may come later: y, when the next instruction is x.
Later(G, x, y) ==
    \/ y = <<"release">> /\ x[1] = "push"
    \/ y = <<"notify", TRUE>> /\ x[1] \in {"hand_off", "schedule"}
    \/ y[1] = "is_owned_by" /\ x = <<"erase_cond", y[2]>>
    \/ y[1] = "schedule" /\ x[1] = "schedule" /\ x # y
    \/ \E c \in G : \/ y = <<"erase_lock", c>> /\ x = <<"erase_cond", c>>
                    \/ /\ y = <<"guard", c>>
                       /\ \/ x \in {<<"erase_cond", c>>, <<"erase_lock", c>>, <<"release">>}
                          \/ x[1] = "schedule"
                    \/ y = <<"sem_guard", c>> /\ x[1] \notin {"sem_guard", "scope"}
                    \/ y = <<"scope", c>>

\* What a destruction still has to do may come after its first instruction.
LEMMA UndoingLater ==
    ASSUME NEW G \in SUBSET Coros, NEW c \in G, NEW n \in Nat, NEW i \in BOOLEAN,
           NEW x \in Instr, NEW s \in Seq(Instr), Undoing(c, n, i, x, s), NEW y \in ToSet(s)
    PROVE  Later(G, x, y)
<1> DEFINE el == <<"erase_lock", c>>
           gd == <<"guard", c>>
           g == Guards(c, n, i)
<1>1. el \in Instr /\ gd \in Instr
  BY DEF Instr, OnCoro
<1>2. g \in Seq(Instr) /\ ToSet(g) \subseteq {<<"sem_guard", c>>, <<"scope", c>>}
  BY GuardsProperties
<1>s. \A z \in ToSet(g) : z = <<"sem_guard", c>> \/ z = <<"scope", c>>
  BY <1>2
<1>x. IsSchedule(x) => x[1] = "schedule"
  BY DEF IsSchedule
<1> HIDE DEF el, gd, g
<1>3. ToSet(Led(gd, g)) = {gd} \cup ToSet(g) /\ Led(gd, g) \in Seq(Instr)
  BY <1>1, <1>2, Prefixed
<1>4. ToSet(Led(el, Led(gd, g))) = {el, gd} \cup ToSet(g)
  <2> DEFINE r == Led(gd, g)
  <2>1. r \in Seq(Instr) /\ ToSet(r) = {gd} \cup ToSet(g)
    BY <1>3
  <2> HIDE DEF r
  <2>0. el \in Instr /\ r \in Seq(Instr)
    BY <1>1, <2>1
  <2>2. /\ Led(el, r) \in Seq(Instr) /\ Led(el, r) # <<>>
        /\ Head(Led(el, r)) = el /\ Tail(Led(el, r)) = r
        /\ ToSet(Led(el, r)) = {el} \cup ToSet(r)
    BY ONLY <2>0, Prefixed
  <2> QED
    BY <2>1, <2>2 DEF r
<1>5. CASE x = <<"erase_cond", c>> /\ s = Led(el, Led(gd, g))
  <2>1. y = el \/ y = gd \/ y \in ToSet(g)
    BY <1>4, <1>5
  <2>2. CASE y = el
    BY <1>5, <2>2 DEF Later, el
  <2>3. CASE y = gd
    BY <1>5, <2>3 DEF Later, gd
  <2>4. CASE y \in ToSet(g)
    BY <1>s, <1>5, <2>4 DEF Later
  <2> QED
    BY <2>1, <2>2, <2>3, <2>4
<1>6. CASE (x \in {el, <<"release">>} \/ IsSchedule(x)) /\ s = Led(gd, g)
  <2>1. y = gd \/ y \in ToSet(g)
    BY <1>3, <1>6
  <2>2. \/ x \in {<<"erase_cond", c>>, <<"erase_lock", c>>, <<"release">>}
        \/ x[1] = "schedule"
    BY <1>x, <1>6 DEF el
  <2>3. CASE y = gd
    BY <1>6, <2>2, <2>3 DEF Later, gd
  <2>4. CASE y \in ToSet(g)
    <3>2. x[1] \notin {"sem_guard", "scope"}
      BY <2>2
    <3> QED
      BY <1>s, <2>4, <3>2 DEF Later
  <2> QED
    BY <2>1, <2>3, <2>4
<1>7. CASE x \in {el, <<"release">>, gd} /\ s = g
  <2>2. x[1] \notin {"sem_guard", "scope"}
    BY <1>7 DEF el, gd
  <2> QED
    BY <1>s, <1>7, <2>2 DEF Later
<1>8. CASE /\ \/ x \in {<<"sem_remove", c>>, <<"sem_release">>, <<"event_erase", c>>, <<"future_erase", c>>}
              \/ IsSchedule(x)
           /\ s = g
  <2>2. x[1] \notin {"sem_guard", "scope"}
    BY <1>x, <1>8
  <2> QED
    BY <1>s, <1>8, <2>2 DEF Later
<1>9. ASSUME NEW m \in Nat, s = Scopes(c, m) PROVE Later(G, x, y)
  <2>1. y = <<"scope", c>>
    <3>1. m = 0 \/ m > 0
      OBVIOUS
    <3> QED
      BY <1>9, <3>1, ScopesProperties
  <2> QED
    BY <2>1 DEF Later
<1>10. CASE s = Scopes(c, n)
  BY <1>9, <1>10
<1>11. CASE n > 0 /\ s = Scopes(c, n - 1)
  <2>1. n - 1 \in Nat
    BY <1>11
  <2> QED
    BY <1>9, <1>11, <2>1
<1> QED
  BY <1>5, <1>6, <1>7, <1>8, <1>10, <1>11 DEF Undoing, el, gd, g

\* What comes after the first instruction of a call may come after it.
LEMMA FitsLater ==
    ASSUME NEW G \in SUBSET Coros, NEW h \in [Coros -> Nat], NEW I,
           NEW x \in Instr, NEW s \in Seq(Instr), Fits(G, h, I, x, s), NEW y \in ToSet(s)
    PROVE  Later(G, x, y)
<1>r. <<"release">> \in Instr /\ <<"notify", TRUE>> \in Instr
  BY DEF Instr
<1>3. CASE s = <<>>
  BY <1>3, NoWaiters
<1>4. CASE x[1] = "push" /\ s = <<<<"release">>>>
  <2>1. ToSet(s) = {<<"release">>}
    BY <1>r, <1>4, Single
  <2> QED
    BY <1>4, <2>1 DEF Later
<1>5. CASE x[1] \in {"hand_off", "schedule"} /\ s = <<<<"notify", TRUE>>>>
  <2>1. ToSet(s) = {<<"notify", TRUE>>}
    BY <1>r, <1>5, Single
  <2> QED
    BY <1>5, <2>1 DEF Later
<1>6. ASSUME NEW c \in Coros, x = <<"erase_cond", c>>, s = <<<<"is_owned_by", c>>>>
      PROVE  Later(G, x, y)
  <2>0. <<"is_owned_by", c>> \in Instr
    BY DEF Instr, OnCoro
  <2>1. ToSet(s) = {<<"is_owned_by", c>>}
    BY <1>6, <2>0, Single
  <2> QED
    BY <1>6, <2>1 DEF Later
<1>7. CASE x[1] = "schedule" /\ x \notin ToSet(s) /\ \A z \in ToSet(s) : z[1] = "schedule"
  BY <1>7 DEF Later
<1>8. ASSUME NEW c \in G, Undoing(c, h[c], c \in I, x, s)
      PROVE  Later(G, x, y)
  <2>1. h[c] \in Nat /\ (c \in I) \in BOOLEAN
    OBVIOUS
  <2> QED
    BY <1>8, <2>1, UndoingLater
<1> QED
  BY <1>3, <1>4, <1>5, <1>6, <1>7, <1>8 DEF Fits

\* The frames that are being destroyed are as they were.
LEMMA FormKept ==
    ASSUME NEW G, NEW G2, NEW h, NEW h2, NEW I, NEW I2, NEW p, Form(G, h, I, p),
           G \subseteq G2, \A c \in G : h2[c] = h[c] /\ (c \in I2 <=> c \in I)
    PROVE  Form(G2, h2, I2, p)
<1> SUFFICES ASSUME p # <<>> PROVE Fits(G2, h2, I2, Head(p), Tail(p))
  BY DEF Form
<1> DEFINE x == Head(p)
           s == Tail(p)
<1>1. Fits(G, h, I, x, s)
  BY DEF Form
<1> HIDE DEF x, s
<1>2. ASSUME NEW c \in G, Undoing(c, h[c], c \in I, x, s)
      PROVE  Fits(G2, h2, I2, x, s)
  <2>1. Undoing(c, h2[c], c \in I2, x, s)
    <3>1. h2[c] = h[c] /\ (c \in I2) = (c \in I)
      OBVIOUS
    <3> QED
      BY <1>2, <3>1
  <2> QED
    BY <2>1 DEF Fits
<1> QED
  BY <1>1, <1>2 DEF Fits, x, s

\* A call may consist of the lock's Guards of one frame.
LEMMA ScopesForm ==
    ASSUME NEW G \in SUBSET Coros, NEW c \in G, NEW h \in [Coros -> Nat], NEW I, c \notin I
    PROVE  Form(G, h, I, Scopes(c, h[c]))
<1> DEFINE n == h[c]
<1>1. n \in Nat /\ (n = 0 \/ n > 0)
  OBVIOUS
<1> HIDE DEF n
<1>2. CASE n = 0
  BY <1>1, <1>2, ScopesProperties DEF Form, n
<1>3. CASE n > 0
  <2> DEFINE p == Scopes(c, n)
  <2>1. p # <<>> /\ Head(p) = <<"scope", c>> /\ Tail(p) = Scopes(c, n - 1)
    BY <1>1, <1>3, ScopesProperties
  <2> HIDE DEF p
  <2>2. Undoing(c, n, c \in I, Head(p), Tail(p))
    BY <1>3, <2>1 DEF Undoing
  <2> QED
    BY <2>2 DEF Form, Fits, n, p
<1> QED
  BY <1>1, <1>2, <1>3

\* A call may consist of the Guards of one frame.
LEMMA GuardsForm ==
    ASSUME NEW G \in SUBSET Coros, NEW c \in G, NEW h \in [Coros -> Nat], NEW I
    PROVE  Form(G, h, I, Guards(c, h[c], c \in I))
<1>0. h[c] \in Nat /\ (c \in I) \in BOOLEAN
  OBVIOUS
<1>1. CASE c \in I
  <2> DEFINE p == Guards(c, h[c], c \in I)
  <2>1. p # <<>> /\ Head(p) = <<"sem_guard", c>> /\ Tail(p) = Scopes(c, h[c])
    BY <1>0, <1>1, GuardsProperties
  <2> HIDE DEF p
  <2>2. Undoing(c, h[c], c \in I, Head(p), Tail(p))
    BY <1>1, <2>1 DEF Undoing
  <2> QED
    BY <2>2 DEF Form, Fits, p
<1>2. CASE c \notin I
  <2>1. Guards(c, h[c], c \in I) = Scopes(c, h[c])
    BY <1>0, <1>2, GuardsProperties
  <2> QED
    BY <1>2, <2>1, ScopesForm
<1> QED
  BY <1>1, <1>2

\* A call may consist of one instruction.
LEMMA SingleForm ==
    ASSUME NEW G, NEW h, NEW I, NEW y \in Instr,
           y[1] \notin {"push", "erase_cond", "sem_guard", "scope"}
    PROVE  Form(G, h, I, <<y>>)
<1>1. Head(<<y>>) = y /\ Tail(<<y>>) = <<>>
  BY Single
<1> QED
  BY <1>1 DEF Form, Fits

\* After an instruction, the rest has the form of a call in progress too.
LEMMA TailForm ==
    ASSUME NEW G \in SUBSET Coros, NEW h \in [Coros -> Nat], NEW I,
           NEW x \in Instr, NEW s \in Seq(Instr), Fits(G, h, I, x, s),
           x[1] \notin {"sem_guard", "scope"}
    PROVE  Form(G, h, I, s)
<1>r. <<"release">> \in Instr /\ <<"notify", TRUE>> \in Instr
  BY DEF Instr
<1>3. CASE s = <<>>
  BY <1>3 DEF Form
<1>4. CASE s = <<<<"release">>>>
  <2> DEFINE y == <<"release">>
  <2>1. y \in Instr /\ y[1] = "release" /\ s = <<y>>
    BY <1>r, <1>4
  <2> HIDE DEF y
  <2> QED
    BY <2>1, SingleForm
<1>5. CASE s = <<<<"notify", TRUE>>>>
  <2> DEFINE y == <<"notify", TRUE>>
  <2>1. y \in Instr /\ y[1] = "notify" /\ s = <<y>>
    BY <1>r, <1>5
  <2> HIDE DEF y
  <2> QED
    BY <2>1, SingleForm
<1>6. ASSUME NEW c \in Coros, s = <<<<"is_owned_by", c>>>>
      PROVE  Form(G, h, I, s)
  <2> DEFINE y == <<"is_owned_by", c>>
  <2>1. y \in Instr /\ y[1] = "is_owned_by" /\ s = <<y>>
    BY <1>6 DEF Instr, OnCoro
  <2> HIDE DEF y
  <2> QED
    BY <2>1, SingleForm
<1>7. CASE Distinct(s) /\ \A y \in ToSet(s) : y[1] = "schedule"
  <2> SUFFICES ASSUME s # <<>> PROVE Fits(G, h, I, Head(s), Tail(s))
    BY DEF Form
  <2>1. /\ ToSet(s) = ToSet(Tail(s)) \cup {Head(s)}
        /\ Distinct(Tail(s)) /\ Head(s) \notin ToSet(Tail(s))
    BY <1>7, TailProperties
  <2> QED
    BY <1>7, <2>1 DEF Fits
<1>8. ASSUME NEW c \in G, Undoing(c, h[c], c \in I, x, s)
      PROVE  Form(G, h, I, s)
  <2> DEFINE el == <<"erase_lock", c>>
             gd == <<"guard", c>>
             n == h[c]
             i == (c \in I)
             g == Guards(c, n, i)
  <2>1. el \in Instr /\ gd \in Instr
    BY DEF Instr, OnCoro
  <2>0. n \in Nat /\ i \in BOOLEAN
    OBVIOUS
  <2>2. g \in Seq(Instr)
    BY <2>0, GuardsProperties
  <2>3. Form(G, h, I, g)
    BY GuardsForm
  <2>4. ASSUME n = 0, s = Led(el, Led(gd, g))
        PROVE  Form(G, h, I, s)
    <3> DEFINE r == Led(gd, g)
    <3> HIDE DEF el, gd, g
    <3>1. r \in Seq(Instr)
      BY <2>1, <2>2, Prefixed
    <3>2. Undoing(c, n, i, el, r)
      BY <2>4 DEF Undoing, el, gd, g
    <3> HIDE DEF r
    <3>3. el \in Instr /\ r \in Seq(Instr) /\ s = Led(el, r)
      BY <2>1, <2>4, <3>1 DEF r
    <3>4. /\ Led(el, r) \in Seq(Instr) /\ Led(el, r) # <<>>
          /\ Head(Led(el, r)) = el /\ Tail(Led(el, r)) = r
          /\ ToSet(Led(el, r)) = {el} \cup ToSet(r)
      BY ONLY <3>3, Prefixed
    <3> QED
      BY <3>2, <3>3, <3>4 DEF Form, Fits
  <2>5. ASSUME n = 0, s = Led(gd, g)
        PROVE  Form(G, h, I, s)
    <3> HIDE DEF el, gd, g
    <3>2. Undoing(c, n, i, gd, g)
      BY <2>5 DEF Undoing, el, gd, g
    <3>3. gd \in Instr /\ g \in Seq(Instr)
      BY <2>1, <2>2
    <3>4. /\ Led(gd, g) \in Seq(Instr) /\ Led(gd, g) # <<>>
          /\ Head(Led(gd, g)) = gd /\ Tail(Led(gd, g)) = g
          /\ ToSet(Led(gd, g)) = {gd} \cup ToSet(g)
      BY ONLY <3>3, Prefixed
    <3> QED
      BY <2>5, <3>2, <3>4 DEF Form, Fits
  <2>6. x # <<"sem_guard", c>> /\ x # <<"scope", c>>
    OBVIOUS
  <2> QED
    BY <1>8, <2>3, <2>4, <2>5, <2>6 DEF Undoing
<1> QED
  BY <1>3, <1>4, <1>5, <1>6, <1>7, <1>8 DEF Fits

\* An instruction that ends in another one: the two halves of a call.
Follows(x, y) ==
    \/ x[1] = "erase_lock" /\ y = <<"release">>
    \/ x[1] = "sem_remove" /\ y = <<"sem_release">>
    \/ x[1] \in {"release", "guard", "sem_release", "hand_off"} /\ IsSchedule(y)

\* An instruction that replaces the first one leaves the call in form.
LEMMA NextForm ==
    ASSUME NEW G \in SUBSET Coros, NEW h \in [Coros -> Nat], NEW I,
           NEW x \in Instr, NEW s \in Seq(Instr), Fits(G, h, I, x, s),
           NEW y \in Instr, Follows(x, y)
    PROVE  Form(G, h, I, Led(y, s))
<1>0. IsSchedule(y) => y[1] = "schedule"
  BY DEF IsSchedule
<1>1. y[1] \in {"release", "sem_release", "schedule"}
  BY <1>0 DEF Follows
<1>2. Fits(G, h, I, y, s)
  <2>1. CASE s = <<>>
    BY <1>1, <2>1 DEF Fits
  <2>2. CASE x[1] \in {"hand_off", "schedule"} /\ s = <<<<"notify", TRUE>>>>
    <3>1. y[1] = "schedule"
      BY <1>0, <2>2 DEF Follows
    <3> QED
      BY <2>2, <3>1 DEF Fits
  <2>3. ASSUME NEW c \in G, Undoing(c, h[c], c \in I, x, s)
        PROVE  Fits(G, h, I, y, s)
    <3>1. Undoing(c, h[c], c \in I, y, s)
      <4>1. x[1] \in {"erase_lock", "sem_remove", "release", "guard", "sem_release"}
        <5>1. x[1] # "hand_off"
          BY <2>3 DEF Undoing, IsSchedule
        <5> QED
          BY <5>1 DEF Follows
      <4>2. CASE x[1] \in {"erase_lock", "release"}
        BY <2>3, <4>2 DEF Follows, Undoing, IsSchedule
      <4>3. CASE x[1] \in {"guard", "sem_release", "sem_remove"}
        BY <2>3, <4>3 DEF Follows, Undoing, IsSchedule
      <4> QED
        BY <4>1, <4>2, <4>3
    <3> QED
      BY <3>1 DEF Fits
  <2>4. x[1] \notin {"push", "erase_cond", "schedule"}
    BY DEF Follows
  <2>5. \/ s = <<>>
        \/ x[1] \in {"hand_off", "schedule"} /\ s = <<<<"notify", TRUE>>>>
        \/ \E c \in G : Undoing(c, h[c], c \in I, x, s)
    <3>1. \A c \in Coros : x # <<"erase_cond", c>>
      BY <2>4
    <3> QED
      BY <2>4, <3>1 DEF Fits
  <2> QED
    BY <2>1, <2>2, <2>3, <2>5
<1>3. /\ Led(y, s) \in Seq(Instr) /\ Led(y, s) # <<>>
      /\ Head(Led(y, s)) = y /\ Tail(Led(y, s)) = s
      /\ ToSet(Led(y, s)) = {y} \cup ToSet(s)
  BY Prefixed
<1> QED
  BY <1>2, <1>3 DEF Form

\* The Guards of a destroyed frame give back what they hold.
LEMMA GuardForm ==
    ASSUME NEW G \in SUBSET Coros, NEW h \in [Coros -> Nat], NEW I, NEW c \in Coros,
           NEW s \in Seq(Instr), Fits(G, h, I, <<"sem_guard", c>>, s)
    PROVE  /\ c \in G /\ c \in I
           /\ Form(G, h, I \ {c}, s)
           /\ \A y \in Instr : IsSchedule(y) => Form(G, h, I \ {c}, Led(y, s))
<1>1. PICK d \in G : Undoing(d, h[d], d \in I, <<"sem_guard", c>>, s)
  BY DEF Fits
<1>2. d = c /\ c \in I /\ s = Scopes(c, h[c])
  BY <1>1 DEF Undoing, IsSchedule
<1>3. Form(G, h, I \ {c}, s)
  BY <1>1, <1>2, ScopesForm
<1>4. ASSUME NEW y \in Instr, IsSchedule(y) PROVE Form(G, h, I \ {c}, Led(y, s))
  <2>0. h[c] \in Nat /\ (c \in I \ {c}) \in BOOLEAN
    OBVIOUS
  <2>1. s = Guards(c, h[c], c \in I \ {c})
    BY <1>2, <2>0, GuardsProperties
  <2>2. Undoing(c, h[c], c \in I \ {c}, y, s)
    BY <1>4, <2>1 DEF Undoing
  <2>3. /\ Led(y, s) \in Seq(Instr) /\ Led(y, s) # <<>>
        /\ Head(Led(y, s)) = y /\ Tail(Led(y, s)) = s
        /\ ToSet(Led(y, s)) = {y} \cup ToSet(s)
    BY Prefixed
  <2> QED
    BY <1>1, <1>2, <2>2, <2>3 DEF Form, Fits
<1> QED
  BY <1>1, <1>2, <1>3, <1>4

\* A Guard that releases the lock belongs to a frame that is gone and held it.
LEMMA ScopeOf ==
    ASSUME NEW G \in SUBSET Coros, NEW h \in [Coros -> Nat], NEW I, NEW c \in Coros,
           NEW s \in Seq(Instr), Fits(G, h, I, <<"scope", c>>, s)
    PROVE  c \in G /\ h[c] > 0
<1>1. PICK d \in G : Undoing(d, h[d], d \in I, <<"scope", c>>, s)
  BY DEF Fits
<1>2. d = c /\ h[c] > 0
  BY <1>1 DEF Undoing, IsSchedule
<1> QED
  BY <1>1, <1>2

\* A Guard that has released the lock leaves the call in form.
LEMMA ScopeForm ==
    ASSUME NEW G \in SUBSET Coros, NEW h \in [Coros -> Nat], NEW I, NEW c \in Coros,
           NEW s \in Seq(Instr), Fits(G, h, I, <<"scope", c>>, s), NEW h2 \in [Coros -> Nat],
           h2[c] = h[c] - 1
    PROVE  /\ c \in G /\ h[c] > 0 /\ c \notin I
           /\ Form(G, h2, I, s)
           /\ \A y \in Instr : IsSchedule(y) => Form(G, h2, I, Led(y, s))
<1>1. PICK d \in G : Undoing(d, h[d], d \in I, <<"scope", c>>, s)
  BY DEF Fits
<1>2. d = c /\ c \notin I /\ h[c] > 0 /\ s = Scopes(c, h[c] - 1)
  BY <1>1 DEF Undoing, IsSchedule
<1>5. h2[c] = h[c] - 1
  OBVIOUS
<1>3. Form(G, h2, I, s)
  BY <1>1, <1>2, <1>5, ScopesForm
<1>4. ASSUME NEW y \in Instr, IsSchedule(y) PROVE Form(G, h2, I, Led(y, s))
  <2>0. h2[c] \in Nat /\ (c \in I) \in BOOLEAN
    OBVIOUS
  <2>1. s = Guards(c, h2[c], c \in I)
    BY <1>2, <1>5, <2>0, GuardsProperties
  <2>2. Undoing(c, h2[c], c \in I, y, s)
    BY <1>4, <2>1 DEF Undoing
  <2>3. /\ Led(y, s) \in Seq(Instr) /\ Led(y, s) # <<>>
        /\ Head(Led(y, s)) = y /\ Tail(Led(y, s)) = s
        /\ ToSet(Led(y, s)) = {y} \cup ToSet(s)
    BY Prefixed
  <2> QED
    BY <1>1, <1>2, <2>2, <2>3 DEF Form, Fits
<1> QED
  BY <1>1, <1>2, <1>3, <1>4

\* Instructions that are a whole call, or its last step.
Alone == {"resume", "is_owned_by", "has_waiter", "notify", "event_swap", "future_notify",
          "sem_suspend", "event_suspend", "future_suspend", "future_schedule"}

\* These instructions have nothing after them.
LEMMA AloneForm ==
    ASSUME NEW G \in SUBSET Coros, NEW h, NEW I, NEW x \in Instr, NEW s,
           Fits(G, h, I, x, s), x[1] \in Alone
    PROVE  s = <<>>
<1>1. ASSUME NEW c \in G, Undoing(c, h[c], c \in I, x, s) PROVE FALSE
  BY <1>1 DEF Undoing, IsSchedule, Alone
<1>2. x[1] \notin {"push", "hand_off", "schedule", "erase_cond"}
  BY DEF Alone
<1>3. \A c \in Coros : x # <<"erase_cond", c>>
  BY <1>2
<1> QED
  BY <1>1, <1>2, <1>3 DEF Fits

\* A cancelled wait leaves the queue of the condition first.
LEMMA CancelForm ==
    ASSUME NEW G \in SUBSET Coros, NEW h, NEW I, NEW c \in Coros, c \notin G, NEW s,
           Fits(G, h, I, <<"erase_cond", c>>, s)
    PROVE  s = <<<<"is_owned_by", c>>>>
<1>1. ASSUME NEW d \in G, Undoing(d, h[d], d \in I, <<"erase_cond", c>>, s) PROVE FALSE
  BY <1>1 DEF Undoing, IsSchedule
<1> QED
  BY <1>1 DEF Fits

-----------------------------------------------------------------------------
(* What a step does to the calls in progress, "scope" apart: on l, old goes *)
(* and new comes.                                                          *)

Heads(l) == \A y \in ToSet(prog[l]) : y = Head(prog[l]) \/ Later(Gone(l), Head(prog[l]), y)

\* The first instruction of a call, and what comes after it.
LEMMA First ==
    ASSUME FrameTypes, holds \in [Coros -> Nat], NEW l \in Loops, Shape(l), prog[l] # <<>>
    PROVE  /\ Head(prog[l]) \in Instr /\ Tail(prog[l]) \in Seq(Instr)
           /\ ToSet(prog[l]) = ToSet(Tail(prog[l])) \cup {Head(prog[l])}
           /\ Fits(Gone(l), holds, inside, Head(prog[l]), Tail(prog[l]))
           /\ \A y \in ToSet(Tail(prog[l])) : Later(Gone(l), Head(prog[l]), y)
           /\ Heads(l)
           /\ Head(prog[l])[1] # "scope" => Head(prog[l]) \notin ToSet(Tail(prog[l]))
<1> DEFINE x == Head(prog[l])
           s == Tail(prog[l])
<1>1. prog[l] \in Seq(Instr)
  BY DEF FrameTypes
<1>2. x \in Instr /\ s \in Seq(Instr) /\ ToSet(prog[l]) = ToSet(s) \cup {x}
  BY <1>1, TailProperties
<1>3. Fits(Gone(l), holds, inside, x, s)
  BY DEF Shape, Form
<1>4. Gone(l) \in SUBSET Coros
  BY DEF Gone
<1> HIDE DEF x, s
<1>5. \A y \in ToSet(s) : Later(Gone(l), x, y)
  BY <1>2, <1>3, <1>4, FitsLater
<1>6. ASSUME Later(Gone(l), x, x) PROVE x[1] = "scope"
  <2>1. x # <<"release">> \/ x[1] # "push"
    OBVIOUS
  <2>4. x # <<"notify", TRUE>> \/ x[1] \notin {"hand_off", "schedule"}
    <3>1. x = <<"notify", TRUE>> => x[1] = "notify"
      OBVIOUS
    <3> QED
      BY <3>1
  <2>2. ~(x[1] = "is_owned_by" /\ x = <<"erase_cond", x[2]>>)
    OBVIOUS
  <2>3. ASSUME NEW c,
               \/ x = <<"erase_lock", c>> /\ x = <<"erase_cond", c>>
               \/ /\ x = <<"guard", c>>
                  /\ \/ x \in {<<"erase_cond", c>>, <<"erase_lock", c>>, <<"release">>}
                     \/ x[1] = "schedule"
               \/ x = <<"sem_guard", c>> /\ x[1] \notin {"sem_guard", "scope"}
               \/ x = <<"scope", c>>
        PROVE  x[1] = "scope"
    BY <2>3
  <2> QED
    BY <1>6, <2>1, <2>2, <2>3, <2>4 DEF Later
<1> QED
  BY <1>2, <1>3, <1>5, <1>6 DEF Heads, x, s

Moves(l, old, new) ==
    /\ home' = home /\ prog' \in [Loops -> Seq(Instr)]
    /\ \A k \in Loops : k # l => prog'[k] = prog[k]
    /\ \A y : y[1] # "scope" =>
           (y \in ToSet(prog'[l]) <=> (y \in ToSet(prog[l]) /\ y \notin old) \/ y \in new)
    /\ \A k \in Loops : Shape(k)'

\* The frames that are being destroyed are left alone.
Frozen(c) == st[c] = "gone" => /\ st'[c] = "gone" /\ holds'[c] = holds[c]
                               /\ (c \in inside' <=> c \in inside)

\* A call that is put on one loop leaves those of the others in form.
LEMMA ShapesKept ==
    ASSUME home' = home, NEW l \in Loops, NEW p, prog' = [prog EXCEPT ![l] = p],
           prog \in [Loops -> Seq(Instr)],
           \A k \in Loops : Shape(k), \A c \in Coros : home[c] # l => Frozen(c),
           Form(Gone(l)', holds', inside', p)
    PROVE  \A k \in Loops : Shape(k)'
<1> SUFFICES ASSUME NEW k \in Loops PROVE Shape(k)'
  OBVIOUS
<1>1. CASE k = l
  <2>1. prog'[k] = p
    BY <1>1
  <2> QED
    BY <1>1, <2>1 DEF Shape
<1>2. CASE k # l
  <2>1. prog'[k] = prog[k]
    BY <1>2
  <2>2. Form(Gone(k), holds, inside, prog[k])
    BY DEF Shape
  <2>3. Gone(k) \subseteq Gone(k)'
    BY <1>2 DEF Gone, Frozen
  <2>4. \A c \in Gone(k) : holds'[c] = holds[c] /\ (c \in inside' <=> c \in inside)
    BY <1>2 DEF Gone, Frozen
  <2>5. Form(Gone(k)', holds', inside', prog[k])
    BY <2>2, <2>3, <2>4, FormKept
  <2> QED
    BY <2>1, <2>5 DEF Shape
<1> QED
  BY <1>1, <1>2

\* A call replaced as a whole: the old instructions go and the new ones come.
LEMMA SetMoves ==
    ASSUME FrameTypes, home' = home, NEW l \in Loops, NEW p \in Seq(Instr),
           prog' = [prog EXCEPT ![l] = p],
           \A k \in Loops : Shape(k), \A c \in Coros : home[c] # l => Frozen(c),
           Form(Gone(l)', holds', inside', p)
    PROVE  Moves(l, ToSet(prog[l]), ToSet(p))
<1>1. prog \in [Loops -> Seq(Instr)]
  BY DEF FrameTypes
<1>2. \A k \in Loops : Shape(k)'
  BY <1>1, ShapesKept
<1> QED
  BY <1>1, <1>2 DEF Moves

\* From an instruction x to the rest of the call, or to its second half y.
LEMMA PopMoves ==
    ASSUME FrameTypes, holds \in [Coros -> Nat], home' = home, NEW l \in Loops,
           \A k \in Loops : Shape(k), \A c \in Coros : Frozen(c),
           prog[l] # <<>>, prog' = [prog EXCEPT ![l] = Tail(prog[l])],
           Head(prog[l])[1] \notin {"sem_guard", "scope"}
    PROVE  Moves(l, {Head(prog[l])}, {})
<1> DEFINE x == Head(prog[l])
           s == Tail(prog[l])
<1>1. /\ x \in Instr /\ s \in Seq(Instr) /\ ToSet(prog[l]) = ToSet(s) \cup {x}
      /\ Fits(Gone(l), holds, inside, x, s) /\ x \notin ToSet(s)
  BY First
<1>2. prog \in [Loops -> Seq(Instr)] /\ Gone(l) \in SUBSET Coros
  BY DEF FrameTypes, Gone
<1> HIDE DEF x, s
<1>3. prog' = [prog EXCEPT ![l] = s] /\ x[1] \notin {"sem_guard", "scope"}
  BY DEF x, s
<1>4. Form(Gone(l), holds, inside, s)
  BY <1>1, <1>2, <1>3, TailForm
<1>5. Form(Gone(l)', holds', inside', s)
  <2>3. Gone(l) \subseteq Gone(l)'
    BY DEF Gone, Frozen
  <2>4. \A c \in Gone(l) : holds'[c] = holds[c] /\ (c \in inside' <=> c \in inside)
    BY DEF Gone, Frozen
  <2> QED
    BY <1>4, <2>3, <2>4, FormKept
<1>6. \A k \in Loops : Shape(k)'
  BY <1>2, <1>3, <1>5, ShapesKept
<1>7. prog'[l] = s /\ \A k \in Loops : k # l => prog'[k] = prog[k]
  BY <1>2, <1>3
<1>8. prog' \in [Loops -> Seq(Instr)]
  BY <1>1, <1>2, <1>3
<1> QED
  BY <1>1, <1>6, <1>7, <1>8 DEF Moves, x

\* The first instruction is replaced by another.
LEMMA NextMoves ==
    ASSUME FrameTypes, holds \in [Coros -> Nat], home' = home, NEW l \in Loops, NEW y \in Instr,
           \A k \in Loops : Shape(k), \A c \in Coros : Frozen(c),
           prog[l] # <<>>, prog' = [prog EXCEPT ![l] = <<y>> \o Tail(prog[l])],
           Follows(Head(prog[l]), y)
    PROVE  Moves(l, {Head(prog[l])}, {y})
<1> DEFINE x == Head(prog[l])
           s == Tail(prog[l])
           p == Led(y, s)
<1>0. x[1] # "scope"
  BY DEF Follows
<1>1. /\ x \in Instr /\ s \in Seq(Instr) /\ ToSet(prog[l]) = ToSet(s) \cup {x}
      /\ Fits(Gone(l), holds, inside, x, s) /\ x \notin ToSet(s)
  BY <1>0, First
<1>2. prog \in [Loops -> Seq(Instr)] /\ Gone(l) \in SUBSET Coros
  BY DEF FrameTypes, Gone
<1> HIDE DEF x, s
<1>3. prog' = [prog EXCEPT ![l] = p] /\ Follows(x, y)
  BY DEF x, s, Led
<1>4. Form(Gone(l), holds, inside, p)
  BY <1>1, <1>2, <1>3, NextForm
<1>9. p \in Seq(Instr) /\ ToSet(p) = {y} \cup ToSet(s)
  <2>1. y \in Instr /\ s \in Seq(Instr)
    BY <1>1
  <2> QED
    BY ONLY <2>1, Prefixed
<1> HIDE DEF p
<1>5. Form(Gone(l)', holds', inside', p)
  <2>3. Gone(l) \subseteq Gone(l)'
    BY DEF Gone, Frozen
  <2>4. \A c \in Gone(l) : holds'[c] = holds[c] /\ (c \in inside' <=> c \in inside)
    BY DEF Gone, Frozen
  <2> QED
    BY <1>4, <2>3, <2>4, FormKept
<1>6. \A k \in Loops : Shape(k)'
  BY <1>2, <1>3, <1>5, ShapesKept
<1>7. prog'[l] = p /\ \A k \in Loops : k # l => prog'[k] = prog[k]
  BY <1>2, <1>3
<1>8. prog' \in [Loops -> Seq(Instr)]
  BY <1>2, <1>3, <1>9
<1> QED
  BY <1>1, <1>6, <1>7, <1>8, <1>9 DEF Moves, x

-----------------------------------------------------------------------------
(* Frames, calls in progress and wake-ups: an instruction that changes no  *)
(* ready queue and no frame, or marks it cancelled or abandoned.           *)

Base == FrameTypes /\ Calling /\ Epochs /\ Wakes

\* Only its own loop is notifying a coroutine that is cancelled.
LEMMA OwnNotifier ==
    ASSUME Unraced, NEW c \in Coros, c \in cancelled, NEW l \in Loops,
           <<"schedule", Now(c)>> \in ToSet(prog[l]) \/ <<"hand_off", Now(c)>> \in ToSet(prog[l])
    PROVE  l = home[c]
BY DEF Unraced, Escaping, Notifying, Now

\* ... and so it is after a step that leaves it in its wait.
LEMMA OwnNotifierNext ==
    ASSUME Unraced', NEW c \in Coros, c \in cancelled', NEW l \in Loops, UNCHANGED home, Now(c)' = Now(c),
           <<"schedule", Now(c)>> \in ToSet(prog'[l]) \/ <<"hand_off", Now(c)>> \in ToSet(prog'[l])
    PROVE  l = home[c]
BY DEF Unraced, Escaping, Notifying, Now

\* What the instructions y that a step adds on l may be.
Proper(l, y) ==
    /\ y[1] \in OnCoro =>
           /\ y[1] \notin {"resume", "future_schedule", "event_suspend"}
           /\ y[2] \in Coros /\ home[y[2]] = l /\ st[y[2]] \in Phase(y[1])
           /\ y[1] \in {"is_owned_by", "has_waiter"} => y[2] \in cancelled'
    /\ y[1] \in OnWaiter => y[2][2] <= waits[y[2][1]]
    /\ \A c \in Coros : y = <<"schedule", Now(c)>> => Suspended(c) /\ (Roused(c) => c \in cancelled)

Flagged ==
    /\ cancelled \subseteq cancelled' /\ cancelled' \subseteq Coros
    /\ abandoned' \subseteq Coros

Plain(l, old, new) ==
    /\ Moves(l, old, new) /\ UNCHANGED <<st, epoch, waits, ready>> /\ Flagged
    /\ l \in Active /\ old \subseteq ToSet(prog[l])
    /\ \A y \in ToSet(prog[l]) : y[1] # "resume"
    /\ \A y \in old : y[1] \notin {"event_suspend", "future_schedule", "schedule"}
    /\ \A y \in new : Proper(l, y)

\* Which instructions of coroutines are left after such a step.
LEMMA PlainHas ==
    ASSUME Base, NEW l \in Loops, NEW old, NEW new, Plain(l, old, new)
    PROVE  \A c \in Coros, op \in OnCoro :
               Has(c, op)' <=> (Has(c, op) /\ <<op, c>> \notin old) \/ <<op, c>> \in new
<1> SUFFICES ASSUME NEW c \in Coros, NEW op \in OnCoro
             PROVE  Has(c, op)' <=> (Has(c, op) /\ <<op, c>> \notin old) \/ <<op, c>> \in new
  OBVIOUS
<1> DEFINE y == <<op, c>>
<1>1. y[1] = op /\ y[2] = c /\ y[1] # "scope" /\ y[1] \in OnCoro
  BY DEF OnCoro
<1>2. home[c] \in Loops
  BY DEF Base, FrameTypes
<1>3. y \in old \cup new => home[c] = l
  BY <1>1 DEF Plain, Proper, Base, Calling
<1>4. y \in ToSet(prog'[home[c]]) <=> (y \in ToSet(prog[home[c]]) /\ y \notin old) \/ y \in new
  BY <1>1, <1>2, <1>3 DEF Plain, Moves
<1>5. home' = home
  BY DEF Plain, Moves
<1> QED
  BY <1>4, <1>5 DEF Has

\* Who is queued, called and roused after such a step.
LEMMA PlainRoused ==
    ASSUME Base, NEW l \in Loops, NEW old, NEW new, Plain(l, old, new)
    PROVE  /\ \A c \in Coros : /\ Now(c)' = Now(c) /\ (Queued(c)' <=> Queued(c))
                               /\ Has(c, "resume")' <=> Has(c, "resume")
                               /\ Has(c, "future_schedule")' <=> Has(c, "future_schedule")
                               /\ Has(c, "event_suspend")' <=> Has(c, "event_suspend")
                               /\ Summoned(c)' <=> Summoned(c) \/ <<"schedule", Now(c)>> \in new
                               /\ Roused(c)' <=> Roused(c) \/ <<"schedule", Now(c)>> \in new
<1>0. UNCHANGED <<home, st, epoch, waits, ready>>
  BY DEF Plain, Moves
<1> SUFFICES ASSUME NEW c \in Coros
             PROVE  /\ Now(c)' = Now(c) /\ (Queued(c)' <=> Queued(c))
                    /\ Has(c, "resume")' <=> Has(c, "resume")
                    /\ Has(c, "future_schedule")' <=> Has(c, "future_schedule")
                    /\ Has(c, "event_suspend")' <=> Has(c, "event_suspend")
                    /\ Summoned(c)' <=> Summoned(c) \/ <<"schedule", Now(c)>> \in new
                    /\ Roused(c)' <=> Roused(c) \/ <<"schedule", Now(c)>> \in new
  OBVIOUS
<1>2. Now(c)' = Now(c) /\ (Queued(c)' <=> Queued(c))
  BY <1>0 DEF Now, Queued
<1>3. ASSUME NEW op \in {"resume", "future_schedule", "event_suspend"} PROVE Has(c, op)' <=> Has(c, op)
  <2>1. op \in OnCoro
    BY DEF OnCoro
  <2> DEFINE y == <<op, c>>
  <2>2. y[1] = op
    OBVIOUS
  <2>3. y \notin new
    BY <2>1, <2>2 DEF Plain, Proper
  <2>4. y \notin old
    BY <2>2 DEF Plain
  <2> QED
    BY <2>1, <2>3, <2>4, PlainHas
<1>4. Summoned(c)' <=> Summoned(c) \/ <<"schedule", Now(c)>> \in new
  <2> DEFINE y == <<"schedule", Now(c)>>
  <2>1. y[1] = "schedule"
    OBVIOUS
  <2> HIDE DEF y
  <2>2. y \notin old
    BY <2>1 DEF Plain
  <2>3. \A k \in Loops : y \in ToSet(prog'[k]) <=> y \in ToSet(prog[k]) \/ (k = l /\ y \in new)
    BY <2>1, <2>2 DEF Plain, Moves
  <2>4. y' = y
    BY <1>2 DEF y
  <2>5. Summoned(c)' <=> \E k \in Loops : y \in ToSet(prog'[k])
    BY <2>4 DEF Summoned, y
  <2>6. Summoned(c) <=> \E k \in Loops : y \in ToSet(prog[k])
    BY DEF Summoned, y
  <2> QED
    BY <2>3, <2>5, <2>6 DEF y
<1>5. Roused(c)' <=> Roused(c) \/ <<"schedule", Now(c)>> \in new
  BY <1>2, <1>3, <1>4 DEF Roused
<1> QED
  BY <1>2, <1>3, <1>4, <1>5

\* Such a step keeps the frames, the calls and the wake-ups in order.
LEMMA PlainBase ==
    ASSUME Base, Unraced', NEW l \in Loops, NEW old, NEW new, Plain(l, old, new)
    PROVE  Base'
<1>0. UNCHANGED <<home, st, epoch, waits, ready>>
  BY DEF Plain, Moves
<1>1. FrameTypes'
  BY <1>0 DEF Base, FrameTypes, Plain, Moves, Flagged
<1>h. \A c \in Coros, op \in OnCoro :
          Has(c, op)' <=> (Has(c, op) /\ <<op, c>> \notin old) \/ <<op, c>> \in new
  BY PlainHas
<1>r. /\ \A c \in Coros : /\ Now(c)' = Now(c) /\ (Queued(c)' <=> Queued(c))
                          /\ Has(c, "resume")' <=> Has(c, "resume")
                          /\ Has(c, "future_schedule")' <=> Has(c, "future_schedule")
                          /\ Has(c, "event_suspend")' <=> Has(c, "event_suspend")
                          /\ Summoned(c)' <=> Summoned(c) \/ <<"schedule", Now(c)>> \in new
                          /\ Roused(c)' <=> Roused(c) \/ <<"schedule", Now(c)>> \in new
  BY PlainRoused
<1>n. \A y \in new : Proper(l, y)
  BY DEF Plain
<1>p. \A k \in Loops : \A y \in ToSet(prog'[k]) :
          y[1] = "scope" \/ y \in ToSet(prog[k]) \/ (k = l /\ y \in new)
  BY DEF Plain, Moves
<1>2. Calling'
  <2>1. \A k \in Loops : Shape(k)'
    BY DEF Plain, Moves
  <2>2. ASSUME NEW k \in Loops, NEW x \in ToSet(prog'[k]), x[1] \in OnCoro
        PROVE  home'[x[2]] = k
    <3>1. x[1] # "scope"
      BY <2>2 DEF OnCoro
    <3>2. x \in ToSet(prog[k]) => home[x[2]] = k
      BY <2>2 DEF Base, Calling
    <3>3. x \in new => home[x[2]] = l
      BY <1>n, <2>2 DEF Proper
    <3> QED
      BY <1>0, <1>p, <3>1, <3>2, <3>3
  <2>3. ASSUME NEW c \in Coros, NEW op \in OnCoro, Has(c, op)'
        PROVE  st'[c] \in Phase(op)
    <3>1. Has(c, op) => st[c] \in Phase(op)
      BY DEF Base, Calling
    <3>2. <<op, c>> \in new => st[c] \in Phase(op)
      BY <1>n DEF Proper
    <3> QED
      BY <1>0, <1>h, <2>3, <3>1, <3>2
  <2>4. ASSUME NEW c \in Coros, NEW op \in {"is_owned_by", "has_waiter"}, Has(c, op)'
        PROVE  c \in cancelled'
    <3>0. op \in OnCoro
      BY DEF OnCoro
    <3>1. Has(c, op) => c \in cancelled'
      BY DEF Base, Calling, Plain, Flagged
    <3>2. <<op, c>> \in new => c \in cancelled'
      BY <1>n, <3>0 DEF Proper
    <3> QED
      BY <1>0, <1>h, <2>4, <3>0, <3>1, <3>2
  <2> QED
    BY <2>1, <2>2, <2>3, <2>4 DEF Calling
<1>3. Epochs'
  <2>1. \A c \in Coros : epoch'[c] <= waits'[c]
    BY <1>0 DEF Base, Epochs
  <2>2. ASSUME NEW k \in Loops, NEW x \in ToSet(prog'[k]), x[1] \in OnWaiter
        PROVE  x[2][2] <= waits'[x[2][1]]
    <3>1. x[1] # "scope"
      BY <2>2 DEF OnWaiter
    <3>2. x \in ToSet(prog[k]) => x[2][2] <= waits[x[2][1]]
      BY <2>2 DEF Base, Epochs
    <3>3. x \in new => x[2][2] <= waits[x[2][1]]
      BY <1>n, <2>2 DEF Proper
    <3> QED
      BY <1>0, <1>p, <3>1, <3>2, <3>3
  <2>3. \A c \in Coros :
            epoch'[c] = 0 <=> st'[c] \in {"run", "gone", "await"} /\ ~Has(c, "event_suspend")'
    BY <1>0, <1>r DEF Base, Epochs
  <2> QED
    BY <2>1, <2>2, <2>3 DEF Epochs
<1>4. Wakes'
  <2>1. ASSUME NEW k \in Loops
        PROVE  Distinct(ready'[k]) /\ \A c \in ToSet(ready'[k]) : home'[c] = k
    BY <1>0 DEF Base, Wakes
  <2>s. \A c \in Coros : <<"schedule", Now(c)>> \in new => Suspended(c) /\ (Roused(c) => c \in cancelled)
    BY <1>n DEF Proper
  <2>2. ASSUME NEW c \in Coros, Roused(c)' PROVE Suspended(c)'
    BY <1>0, <1>r, <2>2, <2>s DEF Base, Wakes, Suspended
  <2>o. ASSUME NEW c \in Coros, <<"schedule", Now(c)>> \in new, Roused(c)
        PROVE  l = home[c] /\ \A k \in Loops : <<"schedule", Now(c)>> \in ToSet(prog[k]) => k = l
    <3> DEFINE y == <<"schedule", Now(c)>>
    <3>0. y[1] # "scope"
      OBVIOUS
    <3> HIDE DEF y
    <3>1. c \in cancelled /\ c \in cancelled'
      BY <2>o, <2>s DEF Plain, Flagged
    <3>2. y \in ToSet(prog'[l])
      BY <2>o, <3>0 DEF Plain, Moves, y
    <3>3. l = home[c]
      BY <1>0, <1>r, <3>1, <3>2, OwnNotifierNext DEF y
    <3>4. Unraced
      BY DEF Base, Wakes
    <3> QED
      BY <3>1, <3>3, <3>4, OwnNotifier
  <2>3. ASSUME NEW c \in Coros, Has(c, "resume")' PROVE ~Queued(c)' /\ ~Summoned(c)'
    <3>1. Has(c, "resume") /\ ~Queued(c) /\ ~Summoned(c)
      BY <1>r, <2>3 DEF Base, Wakes
    <3>2. CASE <<"schedule", Now(c)>> \in new
      <4>1. l = home[c]
        BY <2>o, <3>1, <3>2 DEF Roused
      <4>2. <<"resume", c>> \in ToSet(prog[l])
        BY <3>1, <4>1 DEF Has
      <4> QED
        BY <4>2 DEF Plain
    <3> QED
      BY <1>r, <3>1, <3>2
  <2>4. ASSUME NEW c \in Coros, NEW k \in Loops, Queued(c)', <<"schedule", Now(c)>>' \in ToSet(prog'[k])
        PROVE  k = home'[c]
    <3> DEFINE y == <<"schedule", Now(c)>>
    <3>1. y \in ToSet(prog'[k]) /\ y[1] # "scope" /\ Queued(c)
      BY <1>r, <2>4
    <3>2. y \in ToSet(prog[k]) => k = home[c]
      BY <3>1 DEF Base, Wakes
    <3>3. y \in new => l = home[c]
      BY <2>o, <3>1 DEF Roused
    <3> HIDE DEF y
    <3> QED
      BY <1>0, <1>p, <3>1, <3>2, <3>3
  <2>5. ASSUME NEW c \in Coros, NEW k \in Loops, NEW m \in Loops,
               <<"schedule", Now(c)>>' \in ToSet(prog'[k]) \cap ToSet(prog'[m])
        PROVE  k = m
    <3> DEFINE y == <<"schedule", Now(c)>>
    <3>1. y \in ToSet(prog'[k]) /\ y \in ToSet(prog'[m]) /\ y[1] # "scope"
      BY <1>r, <2>5
    <3>2. y \in ToSet(prog[k]) \cap ToSet(prog[m]) => k = m
      BY DEF Base, Wakes
    <3>3. ASSUME NEW j \in Loops, y \in ToSet(prog[j]), y \in new PROVE j = l
      BY <2>o, <3>3 DEF Summoned, Roused
    <3> HIDE DEF y
    <3> QED
      BY <1>p, <3>1, <3>2, <3>3
  <2>7. ASSUME NEW k \in Loops, prog'[k] # <<>> PROVE k \in Active'
    <3>1. Active' = Active
      BY <1>0 DEF Active
    <3> QED
      BY <2>7, <3>1 DEF Base, Wakes, Plain, Moves
  <2> QED
    BY <2>1, <2>2, <2>3, <2>4, <2>5, <2>7 DEF Wakes
<1> QED
  BY <1>1, <1>2, <1>3, <1>4 DEF Base

-----------------------------------------------------------------------------
(* A coroutine begins or ends a wait: its frame changes, and the call that  *)
(* is in progress on its loop, which is its own, is over.                  *)

Owned(c, y) ==
    /\ y[1] \notin {"resume", "is_owned_by", "has_waiter", "schedule"}
    /\ y[1] \in OnCoro => y[2] = c /\ st'[c] \in Phase(y[1])
    /\ y[1] \in OnWaiter => y[2][1] = c /\ y[2][2] <= waits'[c]

Turn(c, new) ==
    /\ Moves(home[c], ToSet(prog[home[c]]), new) /\ UNCHANGED ready
    /\ \A y \in ToSet(prog[home[c]]) : y[1] \in OnCoro /\ y[2] = c
    /\ \A y \in new : Owned(c, y)
    /\ st' \in [Coros -> States] /\ epoch' \in [Coros -> Nat] /\ waits' \in [Coros -> Nat]
    /\ \A d \in Coros : d # c => /\ st'[d] = st[d] /\ epoch'[d] = epoch[d] /\ waits'[d] = waits[d]
                                 /\ (d \in cancelled' <=> d \in cancelled)
    /\ cancelled' \subseteq cancelled /\ abandoned' \subseteq Coros
    /\ ~Queued(c) /\ waits[c] <= waits'[c] /\ epoch'[c] <= waits'[c]
    /\ epoch'[c] = 0 \/ epoch'[c] > waits[c] \/ (epoch'[c] = epoch[c] /\ ~Summoned(c))
    /\ epoch'[c] = 0 <=> st'[c] \in {"run", "gone", "await"} /\ <<"event_suspend", c>> \notin new

\* Which instructions of coroutines are left after a coroutine's turn.
LEMMA TurnHas ==
    ASSUME Base, NEW c \in Coros, NEW new, Turn(c, new)
    PROVE  \A d \in Coros, op \in OnCoro :
               Has(d, op)' <=> IF d = c THEN <<op, c>> \in new ELSE Has(d, op)
<1> SUFFICES ASSUME NEW d \in Coros, NEW op \in OnCoro
             PROVE  Has(d, op)' <=> IF d = c THEN <<op, c>> \in new ELSE Has(d, op)
  OBVIOUS
<1> DEFINE y == <<op, d>>
           l == home[c]
<1>1. y[1] = op /\ y[2] = d /\ y[1] # "scope" /\ y[1] \in OnCoro
  BY DEF OnCoro
<1>2. home[d] \in Loops /\ l \in Loops /\ home' = home
  BY DEF Base, FrameTypes, Turn, Moves
<1>3. y \in ToSet(prog'[l]) <=> (y \in ToSet(prog[l]) /\ y \notin ToSet(prog[l])) \/ y \in new
  BY <1>1 DEF Turn, Moves
<1>4. \A k \in Loops : k # l => prog'[k] = prog[k]
  BY DEF Turn, Moves
<1>5. d # c => y \notin new /\ y \notin ToSet(prog[l])
  BY <1>1 DEF Turn, Owned
<1> HIDE DEF y, l
<1>6. y \in ToSet(prog'[home[d]]) <=> IF d = c THEN y \in new ELSE y \in ToSet(prog[home[d]])
  <2>1. CASE d = c
    BY <1>3, <2>1 DEF l
  <2>2. CASE d # c
    BY <1>2, <1>3, <1>4, <1>5, <2>2
  <2> QED
    BY <2>1, <2>2
<1> QED
  BY <1>2, <1>6 DEF Has, y

\* Waits begun are numbered: no call in progress knows the number of a new one.
LEMMA Unknown ==
    ASSUME Base, NEW c \in Coros, NEW e, e = 0 \/ (e \in Nat /\ e > waits[c]), NEW op \in OnWaiter,
           NEW k \in Loops
    PROVE  <<op, <<c, e>>>> \notin ToSet(prog[k])
<1> DEFINE y == <<op, <<c, e>>>>
<1> SUFFICES ASSUME y \in ToSet(prog[k]) PROVE FALSE
  OBVIOUS
<1>1. y[1] = op /\ y[2] = <<c, e>> /\ y[2][1] = c /\ y[2][2] = e
  OBVIOUS
<1>2. prog[k] \in Seq(Instr) /\ waits[c] \in Nat
  BY DEF Base, FrameTypes
<1>3. y \in Instr
  BY <1>2, ToSetProperties
<1>4. e \in Nat \ {0}
  BY <1>3 DEF Instr, OnWaiter, OnCoro, Current
<1>5. e <= waits[c]
  BY <1>1 DEF Base, Epochs
<1> QED
  BY <1>2, <1>4, <1>5

\* Who is queued, called and roused after a coroutine's turn.
LEMMA TurnRoused ==
    ASSUME Base, NEW c \in Coros, NEW new, Turn(c, new)
    PROVE  /\ \A d \in Coros \ {c} : /\ Now(d)' = Now(d) /\ (Queued(d)' <=> Queued(d))
                                     /\ Summoned(d)' <=> Summoned(d)
                                     /\ Roused(d)' <=> Roused(d)
           /\ ~Queued(c)' /\ ~Summoned(c)' /\ ~Has(c, "resume")'
           /\ Roused(c)' <=> <<"future_schedule", c>> \in new
<1>0. home' = home /\ ready' = ready
  BY DEF Turn, Moves
<1>h. \A d \in Coros, op \in OnCoro :
               Has(d, op)' <=> IF d = c THEN <<op, c>> \in new ELSE Has(d, op)
  BY TurnHas
<1>l. home[c] \in Loops
  BY DEF Base, FrameTypes
<1>o. {"resume", "future_schedule"} \subseteq OnCoro
  BY DEF OnCoro
<1>s. \A k \in Loops : \A v : <<"schedule", v>> \in ToSet(prog'[k]) <=> <<"schedule", v>> \in ToSet(prog[k])
  <2> SUFFICES ASSUME NEW k \in Loops, NEW v
               PROVE  <<"schedule", v>> \in ToSet(prog'[k]) <=> <<"schedule", v>> \in ToSet(prog[k])
    OBVIOUS
  <2> DEFINE y == <<"schedule", v>>
  <2>1. y[1] = "schedule"
    OBVIOUS
  <2> HIDE DEF y
  <2>2. y \notin new /\ y \notin ToSet(prog[home[c]])
    BY <2>1 DEF Turn, Owned, OnCoro
  <2>3. y \in ToSet(prog'[k]) <=> y \in ToSet(prog[k])
    BY <2>1, <2>2 DEF Turn, Moves
  <2> QED
    BY <2>3 DEF y
<1>2. ASSUME NEW d \in Coros \ {c}
      PROVE  /\ Now(d)' = Now(d) /\ (Queued(d)' <=> Queued(d))
             /\ Summoned(d)' <=> Summoned(d)
             /\ Roused(d)' <=> Roused(d)
  <2>1. Now(d)' = Now(d) /\ (Queued(d)' <=> Queued(d))
    BY <1>0, <1>2 DEF Now, Queued, Turn
  <2>2. Summoned(d)' <=> Summoned(d)
    BY <1>s, <2>1 DEF Summoned
  <2>3. Roused(d)' <=> Roused(d)
    BY <1>h, <1>o, <1>2, <2>1, <2>2 DEF Roused
  <2> QED
    BY <2>1, <2>2, <2>3
<1>3. ~Queued(c)'
  BY <1>0 DEF Queued, Turn
<1>4. ~Summoned(c)'
  <2> DEFINE e == epoch'[c]
  <2> SUFFICES ASSUME NEW k \in Loops, <<"schedule", <<c, e>>>> \in ToSet(prog'[k]) PROVE FALSE
    BY DEF Summoned, Now
  <2>1. <<"schedule", <<c, e>>>> \in ToSet(prog[k])
    BY <1>s
  <2>2. e \in Nat
    BY DEF Turn
  <2>3. ~(e = 0 \/ e > waits[c])
    <3>1. "schedule" \in OnWaiter
      BY DEF OnWaiter
    <3> HIDE DEF e
    <3> QED
      BY <2>1, <2>2, <3>1, Unknown
  <2>4. e = epoch[c] /\ ~Summoned(c)
    BY <2>3 DEF Turn
  <2> QED
    BY <2>1, <2>4 DEF Summoned, Now
<1>5. ~Has(c, "resume")' /\ (Has(c, "future_schedule")' <=> <<"future_schedule", c>> \in new)
  <2>1. <<"resume", c>> \notin new
    BY DEF Turn, Owned
  <2> QED
    BY <1>h, <1>o, <2>1
<1>6. Roused(c)' <=> <<"future_schedule", c>> \in new
  BY <1>3, <1>4, <1>5 DEF Roused
<1> QED
  BY <1>2, <1>3, <1>4, <1>5, <1>6

\* A coroutine's turn keeps the frames, the calls and the wake-ups in order.
LEMMA TurnBase ==
    ASSUME Base, Unraced', NEW c \in Coros, NEW new, Turn(c, new)
    PROVE  Base'
<1>0. home' = home /\ ready' = ready /\ home[c] \in Loops
  BY DEF Turn, Moves, Base, FrameTypes
<1>1. FrameTypes'
  BY <1>0 DEF Base, FrameTypes, Turn, Moves
<1>h. \A d \in Coros, op \in OnCoro :
          Has(d, op)' <=> IF d = c THEN <<op, c>> \in new ELSE Has(d, op)
  BY TurnHas
<1>r. /\ \A d \in Coros \ {c} : /\ Now(d)' = Now(d) /\ (Queued(d)' <=> Queued(d))
                                /\ Summoned(d)' <=> Summoned(d)
                                /\ Roused(d)' <=> Roused(d)
      /\ ~Queued(c)' /\ ~Summoned(c)' /\ ~Has(c, "resume")'
      /\ Roused(c)' <=> <<"future_schedule", c>> \in new
  BY TurnRoused
<1>n. \A y \in new : Owned(c, y)
  BY DEF Turn
<1>p. \A k \in Loops : \A y \in ToSet(prog'[k]) :
          y[1] = "scope" \/ (k # home[c] /\ y \in ToSet(prog[k])) \/ (k = home[c] /\ y \in new)
  BY <1>0 DEF Turn, Moves
<1>o. \A d \in Coros : d # c => /\ st'[d] = st[d] /\ epoch'[d] = epoch[d] /\ waits'[d] = waits[d]
                                 /\ (d \in cancelled' <=> d \in cancelled)
  BY DEF Turn
<1>2. Calling'
  <2>1. \A k \in Loops : Shape(k)'
    BY DEF Turn, Moves
  <2>2. ASSUME NEW k \in Loops, NEW x \in ToSet(prog'[k]), x[1] \in OnCoro
        PROVE  home'[x[2]] = k
    <3>1. x[1] # "scope"
      BY <2>2 DEF OnCoro
    <3>2. x \in ToSet(prog[k]) => home[x[2]] = k
      BY <2>2 DEF Base, Calling
    <3>3. x \in new => x[2] = c
      BY <1>n, <2>2 DEF Owned
    <3> QED
      BY <1>0, <1>p, <3>1, <3>2, <3>3
  <2>3. ASSUME NEW d \in Coros, NEW op \in OnCoro, Has(d, op)'
        PROVE  st'[d] \in Phase(op)
    <3>1. Has(d, op) => st[d] \in Phase(op)
      BY DEF Base, Calling
    <3>2. <<op, c>> \in new => st'[c] \in Phase(op)
      BY <1>n DEF Owned
    <3> QED
      BY <1>o, <1>h, <2>3, <3>1, <3>2
  <2>4. ASSUME NEW d \in Coros, NEW op \in {"is_owned_by", "has_waiter"}, Has(d, op)'
        PROVE  d \in cancelled'
    <3>0. op \in OnCoro
      BY DEF OnCoro
    <3>1. Has(d, op) => d \in cancelled
      BY DEF Base, Calling
    <3>2. <<op, c>> \notin new
      BY <1>n, <3>0 DEF Owned
    <3> QED
      BY <1>o, <1>h, <2>4, <3>0, <3>1, <3>2
  <2> QED
    BY <2>1, <2>2, <2>3, <2>4 DEF Calling
<1>3. Epochs'
  <2>1. \A d \in Coros : epoch'[d] <= waits'[d]
    BY <1>o DEF Base, Epochs, Turn
  <2>2. ASSUME NEW k \in Loops, NEW x \in ToSet(prog'[k]), x[1] \in OnWaiter
        PROVE  x[2][2] <= waits'[x[2][1]]
    <3>1. x[1] # "scope"
      BY <2>2 DEF OnWaiter
    <3>2. CASE x \in ToSet(prog[k])
      <4>1. x[2][2] <= waits[x[2][1]]
        BY <2>2, <3>2 DEF Base, Epochs
      <4>2. prog[k] \in Seq(Instr) /\ waits \in [Coros -> Nat] /\ waits' \in [Coros -> Nat]
        BY <1>1 DEF Base, FrameTypes
      <4>3. x \in Instr
        BY <3>2, <4>2, ToSetProperties
      <4>4. x[2][1] \in Coros /\ x[2][2] \in Nat
        BY <2>2, <4>3 DEF Instr, OnWaiter, OnCoro, Current
      <4>5. waits[x[2][1]] <= waits'[x[2][1]]
        <5>1. \A d \in Coros : waits[d] <= waits'[d]
          <6>1. waits[c] <= waits'[c]
            BY DEF Turn
          <6> QED
            BY <1>o, <4>2, <6>1
        <5> QED
          BY <4>4, <5>1
      <4> QED
        BY <4>1, <4>2, <4>4, <4>5
    <3>3. x \in new => x[2][2] <= waits'[x[2][1]]
      BY <1>n, <2>2 DEF Owned
    <3> QED
      BY <1>p, <3>1, <3>2, <3>3
  <2>3. ASSUME NEW d \in Coros
        PROVE  epoch'[d] = 0 <=> st'[d] \in {"run", "gone", "await"} /\ ~Has(d, "event_suspend")'
    <3>0. "event_suspend" \in OnCoro
      BY DEF OnCoro
    <3>1. CASE d = c
      BY <1>h, <2>3, <3>0, <3>1 DEF Turn
    <3>2. CASE d # c
      BY <1>h, <1>o, <2>3, <3>0, <3>2 DEF Base, Epochs
    <3> QED
      BY <3>1, <3>2
  <2> QED
    BY <2>1, <2>2, <2>3 DEF Epochs
<1>4. Wakes'
  <2>1. ASSUME NEW k \in Loops
        PROVE  Distinct(ready'[k]) /\ \A d \in ToSet(ready'[k]) : home'[d] = k
    BY <1>0 DEF Base, Wakes
  <2>2. ASSUME NEW d \in Coros, Roused(d)' PROVE Suspended(d)'
    <3>1. CASE d = c
      <4>1. st'[c] \in Phase("future_schedule")
        <5> DEFINE y == <<"future_schedule", c>>
        <5>1. y \in new /\ y[1] = "future_schedule" /\ y[1] \in OnCoro
          BY <1>r, <2>2, <3>1 DEF OnCoro
        <5>2. Owned(c, y)
          BY <1>n, <5>1
        <5> QED
          BY <5>1, <5>2 DEF Owned
      <4> QED
        BY <3>1, <4>1 DEF Phase, Suspended
    <3>2. CASE d # c
      BY <1>o, <1>r, <2>2, <3>2 DEF Base, Wakes, Suspended
    <3> QED
      BY <3>1, <3>2
  <2>3. ASSUME NEW d \in Coros, Has(d, "resume")' PROVE ~Queued(d)' /\ ~Summoned(d)'
    <3>0. "resume" \in OnCoro
      BY DEF OnCoro
    <3> QED
      BY <1>h, <1>r, <2>3, <3>0 DEF Base, Wakes
  <2>4. ASSUME NEW d \in Coros, NEW k \in Loops, Queued(d)', <<"schedule", Now(d)>>' \in ToSet(prog'[k])
        PROVE  k = home'[d]
    <3> DEFINE y == <<"schedule", Now(d)>>
    <3>1. d # c /\ Queued(d)
      BY <1>r, <2>4
    <3>2. y \in ToSet(prog'[k]) /\ y[1] = "schedule"
      BY <1>r, <2>4, <3>1
    <3>3. y \in ToSet(prog[k]) => k = home[d]
      BY <3>1 DEF Base, Wakes
    <3>4. y \notin new
      BY <1>n, <3>2 DEF Owned
    <3> HIDE DEF y
    <3> QED
      BY <1>0, <1>p, <3>2, <3>3, <3>4
  <2>5. ASSUME NEW d \in Coros, NEW k \in Loops, NEW m \in Loops,
               <<"schedule", Now(d)>>' \in ToSet(prog'[k]) \cap ToSet(prog'[m])
        PROVE  k = m
    <3>0. Summoned(d)'
      BY <2>5 DEF Summoned
    <3> DEFINE y == <<"schedule", Now(d)>>
    <3>1. y \in ToSet(prog'[k]) /\ y \in ToSet(prog'[m]) /\ y[1] = "schedule"
      BY <1>r, <2>5, <3>0
    <3>2. y \in ToSet(prog[k]) \cap ToSet(prog[m]) => k = m
      BY DEF Base, Wakes
    <3>3. y \notin new
      BY <1>n, <3>1 DEF Owned
    <3> HIDE DEF y
    <3> QED
      BY <1>p, <3>1, <3>2, <3>3
  <2>7. ASSUME NEW k \in Loops, prog'[k] # <<>> PROVE k \in Active'
    <3>1. Active' = Active /\ home[c] \in Active
      BY <1>0 DEF Active
    <3> QED
      BY <2>7, <3>1 DEF Base, Wakes, Turn, Moves
  <2> QED
    BY <2>1, <2>2, <2>3, <2>4, <2>5, <2>7 DEF Wakes
<1> QED
  BY <1>1, <1>2, <1>3, <1>4 DEF Base

-----------------------------------------------------------------------------
(* Coroutines Q enter the ready queues.                                    *)

Wake(l, old, Q) ==
    /\ Moves(l, old, {}) /\ UNCHANGED <<st, epoch, waits>> /\ Flagged
    /\ l \in Active /\ old \subseteq ToSet(prog[l])
    /\ \A y \in old : y[1] \notin {"event_suspend", "resume"}
    /\ \A c \in Coros : <<"schedule", Now(c)>> \in old \/ <<"future_schedule", c>> \in old =>
           c \in Q \/ Queued(c)
    /\ ready' \in [Loops -> Seq(Coros)]
    /\ \A k \in Loops :
           /\ Distinct(ready'[k])
           /\ \A c : c \in ToSet(ready'[k]) <=> c \in ToSet(ready[k]) \/ (c \in Q /\ home[c] = k)
    /\ \A c \in Q : /\ c \in Coros /\ Suspended(c) /\ ~Has(c, "resume")
                    /\ Summoned(c) => c \in cancelled' \/ <<"schedule", Now(c)>> \in old

\* Which instructions of coroutines are left when Q is queued.
LEMMA WakeHas ==
    ASSUME Base, NEW l \in Loops, NEW old, NEW Q, Wake(l, old, Q)
    PROVE  \A c \in Coros, op \in OnCoro : Has(c, op)' <=> Has(c, op) /\ <<op, c>> \notin old
<1> SUFFICES ASSUME NEW c \in Coros, NEW op \in OnCoro
             PROVE  Has(c, op)' <=> Has(c, op) /\ <<op, c>> \notin old
  OBVIOUS
<1> DEFINE y == <<op, c>>
<1>1. y[1] = op /\ y[2] = c /\ y[1] # "scope" /\ y[1] \in OnCoro
  BY DEF OnCoro
<1>2. home[c] \in Loops
  BY DEF Base, FrameTypes
<1>3. y \in old => home[c] = l
  BY <1>1 DEF Wake, Base, Calling
<1>4. y \in ToSet(prog'[home[c]]) <=> y \in ToSet(prog[home[c]]) /\ y \notin old
  BY <1>1, <1>2, <1>3 DEF Wake, Moves
<1>5. home' = home
  BY DEF Wake, Moves
<1> QED
  BY <1>4, <1>5 DEF Has

\* Who is queued, called and roused when Q is queued.
LEMMA WakeRoused ==
    ASSUME Base, NEW l \in Loops, NEW old, NEW Q, Wake(l, old, Q)
    PROVE  /\ \A c \in Coros : /\ Now(c)' = Now(c)
                               /\ Queued(c)' <=> Queued(c) \/ c \in Q
                               /\ Summoned(c)' => Summoned(c)
                               /\ Has(c, "resume")' <=> Has(c, "resume")
                               /\ Has(c, "event_suspend")' <=> Has(c, "event_suspend")
                               /\ Roused(c)' <=> Roused(c) \/ c \in Q
<1>0. UNCHANGED <<home, st, epoch, waits>>
  BY DEF Wake, Moves
<1> SUFFICES ASSUME NEW c \in Coros
             PROVE  /\ Now(c)' = Now(c)
                    /\ Queued(c)' <=> Queued(c) \/ c \in Q
                    /\ Summoned(c)' => Summoned(c)
                    /\ Has(c, "resume")' <=> Has(c, "resume")
                    /\ Has(c, "event_suspend")' <=> Has(c, "event_suspend")
                    /\ Roused(c)' <=> Roused(c) \/ c \in Q
  OBVIOUS
<1>2. Now(c)' = Now(c)
  BY <1>0 DEF Now
<1>3. Queued(c)' <=> Queued(c) \/ c \in Q
  <2>1. home[c] \in Loops
    BY DEF Base, FrameTypes
  <2> QED
    BY <1>0, <2>1 DEF Queued, Wake
<1> DEFINE y == <<"schedule", Now(c)>>
<1>4. y[1] # "scope" /\ y' = y
  BY <1>2
<1>5. /\ Summoned(c) <=> \E k \in Loops : y \in ToSet(prog[k])
      /\ Summoned(c)' <=> \E k \in Loops : y \in ToSet(prog'[k])
  BY <1>4 DEF Summoned
<1>6. y \in old => c \in Q \/ Queued(c)
  BY DEF Wake
<1> HIDE DEF y
<1>7. \A k \in Loops : y \in ToSet(prog'[k]) <=> y \in ToSet(prog[k]) /\ (k = l => y \notin old)
  BY <1>4 DEF Wake, Moves
<1>8. Summoned(c)' => Summoned(c)
  BY <1>5, <1>7
<1>9. Summoned(c) => Summoned(c)' \/ c \in Q \/ Queued(c)
  BY <1>5, <1>6, <1>7
<1>10. ASSUME NEW op \in {"resume", "event_suspend"} PROVE Has(c, op)' <=> Has(c, op)
  <2>1. op \in OnCoro
    BY DEF OnCoro
  <2>2. <<op, c>> \notin old
    BY DEF Wake
  <2> QED
    BY <2>1, <2>2, WakeHas
<1>11. /\ Has(c, "future_schedule")' => Has(c, "future_schedule")
       /\ Has(c, "future_schedule") => Has(c, "future_schedule")' \/ c \in Q \/ Queued(c)
  <2>1. "future_schedule" \in OnCoro
    BY DEF OnCoro
  <2>2. <<"future_schedule", c>> \in old => c \in Q \/ Queued(c)
    BY DEF Wake
  <2> QED
    BY <2>1, <2>2, WakeHas
<1>12. Roused(c)' <=> Roused(c) \/ c \in Q
  BY <1>3, <1>8, <1>9, <1>10, <1>11 DEF Roused
<1> QED
  BY <1>2, <1>3, <1>8, <1>10, <1>12

\* Queueing Q keeps the frames, the calls and the wake-ups in order.
LEMMA WakeBase ==
    ASSUME Base, Unraced', NEW l \in Loops, NEW old, NEW Q, Wake(l, old, Q)
    PROVE  Base'
<1>0. UNCHANGED <<home, st, epoch, waits>>
  BY DEF Wake, Moves
<1>1. FrameTypes'
  BY <1>0 DEF Base, FrameTypes, Wake, Moves, Flagged
<1>h. \A c \in Coros, op \in OnCoro : Has(c, op)' <=> Has(c, op) /\ <<op, c>> \notin old
  BY WakeHas
<1>r. /\ \A c \in Coros : /\ Now(c)' = Now(c)
                          /\ Queued(c)' <=> Queued(c) \/ c \in Q
                          /\ Summoned(c)' => Summoned(c)
                          /\ Has(c, "resume")' <=> Has(c, "resume")
                          /\ Has(c, "event_suspend")' <=> Has(c, "event_suspend")
                          /\ Roused(c)' <=> Roused(c) \/ c \in Q
  BY WakeRoused
<1>p. \A k \in Loops : \A y \in ToSet(prog'[k]) :
          y[1] = "scope" \/ (y \in ToSet(prog[k]) /\ (k = l => y \notin old))
  BY DEF Wake, Moves
<1>2. Calling'
  <2>1. \A k \in Loops : Shape(k)'
    BY DEF Wake, Moves
  <2>2. ASSUME NEW k \in Loops, NEW x \in ToSet(prog'[k]), x[1] \in OnCoro
        PROVE  home'[x[2]] = k
    <3>1. x[1] # "scope"
      BY <2>2 DEF OnCoro
    <3> QED
      BY <1>0, <1>p, <2>2, <3>1 DEF Base, Calling
  <2>3. \A c \in Coros, op \in OnCoro : Has(c, op)' => st'[c] \in Phase(op)
    BY <1>0, <1>h DEF Base, Calling
  <2>4. ASSUME NEW c \in Coros, NEW op \in {"is_owned_by", "has_waiter"}, Has(c, op)'
        PROVE  c \in cancelled'
    <3>0. op \in OnCoro
      BY DEF OnCoro
    <3>1. Has(c, op)
      BY <1>h, <2>4, <3>0
    <3>2. c \in cancelled
      BY <3>1 DEF Base, Calling
    <3> QED
      BY <3>2 DEF Wake, Flagged
  <2> QED
    BY <2>1, <2>2, <2>3, <2>4 DEF Calling
<1>3. Epochs'
  <2>1. \A c \in Coros : epoch'[c] <= waits'[c]
    BY <1>0 DEF Base, Epochs
  <2>2. ASSUME NEW k \in Loops, NEW x \in ToSet(prog'[k]), x[1] \in OnWaiter
        PROVE  x[2][2] <= waits'[x[2][1]]
    <3>1. x[1] # "scope"
      BY <2>2 DEF OnWaiter
    <3> QED
      BY <1>0, <1>p, <2>2, <3>1 DEF Base, Epochs
  <2>3. \A c \in Coros :
            epoch'[c] = 0 <=> st'[c] \in {"run", "gone", "await"} /\ ~Has(c, "event_suspend")'
    BY <1>0, <1>r DEF Base, Epochs
  <2> QED
    BY <2>1, <2>2, <2>3 DEF Epochs
<1>4. Wakes'
  <2>1. ASSUME NEW k \in Loops
        PROVE  Distinct(ready'[k]) /\ \A c \in ToSet(ready'[k]) : home'[c] = k
    BY <1>0 DEF Base, Wakes, Wake
  <2>2. ASSUME NEW c \in Coros, Roused(c)' PROVE Suspended(c)'
    BY <1>0, <1>r, <2>2 DEF Base, Wakes, Suspended, Wake
  <2>3. ASSUME NEW c \in Coros, Has(c, "resume")' PROVE ~Queued(c)' /\ ~Summoned(c)'
    BY <1>r, <2>3 DEF Base, Wakes, Wake
  <2>4. ASSUME NEW c \in Coros, NEW k \in Loops, Queued(c)', <<"schedule", Now(c)>>' \in ToSet(prog'[k])
        PROVE  k = home'[c]
    <3> DEFINE y == <<"schedule", Now(c)>>
    <3>1. y \in ToSet(prog'[k]) /\ y[1] # "scope" /\ (Queued(c) \/ c \in Q)
      BY <1>r, <2>4
    <3> HIDE DEF y
    <3>2. y \in ToSet(prog[k]) /\ (k = l => y \notin old)
      BY <1>p, <3>1
    <3>3. CASE Queued(c)
      BY <1>0, <3>2, <3>3 DEF Base, Wakes, y
    <3>4. CASE c \in Q
      <4>1. c \in cancelled' \/ y \in old
        BY <3>2, <3>4 DEF Wake, Summoned, y
      <4>2. ASSUME y \in old PROVE FALSE
        <5>1. y \in ToSet(prog[l])
          BY <4>2 DEF Wake
        <5>2. y \in ToSet(prog[l]) \cap ToSet(prog[k]) => l = k
          BY DEF Base, Wakes, y
        <5> QED
          BY <3>2, <4>2, <5>1, <5>2
      <4> QED
        BY <1>0, <1>r, <3>1, <4>1, <4>2, OwnNotifierNext DEF y
    <3> QED
      BY <3>1, <3>3, <3>4
  <2>5. ASSUME NEW c \in Coros, NEW k \in Loops, NEW m \in Loops,
               <<"schedule", Now(c)>>' \in ToSet(prog'[k]) \cap ToSet(prog'[m])
        PROVE  k = m
    <3> DEFINE y == <<"schedule", Now(c)>>
    <3>1. y \in ToSet(prog'[k]) /\ y \in ToSet(prog'[m]) /\ y[1] # "scope"
      BY <1>r, <2>5
    <3>2. y \in ToSet(prog[k]) \cap ToSet(prog[m]) => k = m
      BY DEF Base, Wakes
    <3> HIDE DEF y
    <3> QED
      BY <1>p, <3>1, <3>2
  <2>7. ASSUME NEW k \in Loops, prog'[k] # <<>> PROVE k \in Active'
    <3>1. Active' = Active
      BY <1>0 DEF Active
    <3>2. l \in Active /\ (k # l => prog'[k] = prog[k])
      BY DEF Wake, Moves
    <3> QED
      BY <2>7, <3>1, <3>2 DEF Base, Wakes
  <2> QED
    BY <2>1, <2>2, <2>3, <2>4, <2>5, <2>7 DEF Wakes
<1> QED
  BY <1>1, <1>2, <1>3, <1>4 DEF Base

\* The batch loop takes the next coroutine: it is as awake as before.
LEMMA PopBase ==
    ASSUME Base, Unraced', holds \in [Coros -> Nat], NEW l \in Loops, l \in Active, Pop(l),
           UNCHANGED <<holds, inside>>
    PROVE  /\ Base'
           /\ Moves(l, {}, {<<"resume", Head(ready[l])>>})
           /\ \A c \in Coros : Now(c)' = Now(c) /\ (Roused(c)' <=> Roused(c))
           /\ \A c \in Coros, op \in OnCoro \ {"resume"} : Has(c, op)' <=> Has(c, op)
<1> DEFINE c0 == Head(ready[l])
           x == <<"resume", c0>>
<1>0. UNCHANGED <<home, st, epoch, waits, cancelled, abandoned>>
  BY DEF Pop, frames
<1>1. /\ ready \in [Loops -> Seq(Coros)] /\ prog \in [Loops -> Seq(Instr)]
      /\ Distinct(ready[l]) /\ ready[l] # <<>> /\ prog[l] = <<>>
      /\ ready' = [ready EXCEPT ![l] = Tail(@)] /\ prog' = [prog EXCEPT ![l] = <<x>>]
      /\ \A c \in ToSet(ready[l]) : home[c] = l
  BY DEF Base, FrameTypes, Wakes, Pop, Idle, Then
<1>2. /\ c0 \in Coros /\ Tail(ready[l]) \in Seq(Coros)
      /\ ToSet(ready[l]) = ToSet(Tail(ready[l])) \cup {c0}
      /\ Distinct(Tail(ready[l])) /\ c0 \notin ToSet(Tail(ready[l]))
  <2>1. ready[l] \in Seq(Coros) /\ ready[l] # <<>> /\ Distinct(ready[l])
    BY <1>1
  <2> QED
    BY <2>1, TailProperties
<1>3. home[c0] = l
  BY <1>1, <1>2
<1>x. x \in Instr /\ x[1] = "resume" /\ x[2] = c0
  BY <1>2 DEF Instr, OnCoro
<1>e. ToSet(prog[l]) = {}
  BY <1>1, NoWaiters
<1> HIDE DEF c0, x
<1>4. <<x>> \in Seq(Instr) /\ ToSet(<<x>>) = {x}
  BY <1>x, Single
<1>5. Moves(l, ToSet(prog[l]), ToSet(<<x>>))
  <2>1. \A c \in Coros : Frozen(c)
    BY <1>0 DEF Frozen
  <2>2. Form(Gone(l)', holds', inside', <<x>>)
    BY <1>x, SingleForm
  <2>3. FrameTypes /\ \A k \in Loops : Shape(k)
    BY DEF Base, Calling
  <2>4. prog' = [prog EXCEPT ![l] = <<x>>] /\ home' = home /\ <<x>> \in Seq(Instr)
    BY <1>0, <1>1, <1>4
  <2> QED
    BY <2>1, <2>2, <2>3, <2>4, SetMoves
<1>6. Moves(l, {}, {x})
  BY <1>4, <1>5, <1>e
<1>p. \A k \in Loops : \A y : y[1] # "scope" =>
          (y \in ToSet(prog'[k]) <=> y \in ToSet(prog[k]) \/ (k = l /\ y = x))
  BY <1>6 DEF Moves
<1>r. /\ ready' \in [Loops -> Seq(Coros)]
      /\ \A k \in Loops : /\ Distinct(ready'[k])
                          /\ \A c : c \in ToSet(ready'[k]) <=> c \in ToSet(ready[k]) /\ (k = l => c # c0)
  <2>1. ready'[l] = Tail(ready[l]) /\ \A k \in Loops : k # l => ready'[k] = ready[k]
    BY <1>1
  <2>2. \A k \in Loops : Distinct(ready[k])
    BY DEF Base, Wakes
  <2> QED
    BY <1>1, <1>2, <2>1, <2>2
<1>h. \A c \in Coros, op \in OnCoro : Has(c, op)' <=> Has(c, op) \/ (c = c0 /\ op = "resume")
  <2> SUFFICES ASSUME NEW c \in Coros, NEW op \in OnCoro
               PROVE  Has(c, op)' <=> Has(c, op) \/ (c = c0 /\ op = "resume")
    OBVIOUS
  <2> DEFINE y == <<op, c>>
  <2>1. y[1] # "scope" /\ (y = x <=> c = c0 /\ op = "resume")
    BY DEF OnCoro, x
  <2>2. home[c] \in Loops
    BY DEF Base, FrameTypes
  <2> HIDE DEF y
  <2>3. y \in ToSet(prog'[home[c]]) <=> y \in ToSet(prog[home[c]]) \/ (c = c0 /\ op = "resume")
    BY <1>3, <1>p, <2>1, <2>2
  <2> QED
    BY <1>0, <2>3 DEF Has, y
<1>s. \A k \in Loops : \A v : <<"schedule", v>> \in ToSet(prog'[k]) <=> <<"schedule", v>> \in ToSet(prog[k])
  <2>1. \A v : <<"schedule", v>>[1] # "scope" /\ <<"schedule", v>> # x
    BY <1>x
  <2> QED
    BY <1>p, <2>1
<1>n. \A c \in Coros : /\ Now(c)' = Now(c) /\ (Summoned(c)' <=> Summoned(c))
                       /\ Queued(c)' <=> Queued(c) /\ c # c0
  <2> TAKE c \in Coros
  <2>1. Now(c)' = Now(c)
    BY <1>0 DEF Now
  <2>2. Summoned(c)' <=> Summoned(c)
    BY <1>s, <2>1 DEF Summoned
  <2>3. home[c] \in Loops
    BY DEF Base, FrameTypes
  <2>4. Queued(c)' <=> Queued(c) /\ c # c0
    BY <1>0, <1>3, <1>r, <2>3 DEF Queued
  <2> QED
    BY <2>1, <2>2, <2>4
<1>q. Queued(c0)
  BY <1>2, <1>3 DEF Queued
<1>o. {"resume", "future_schedule", "event_suspend"} \subseteq OnCoro
  BY DEF OnCoro
<1>7. \A c \in Coros : Roused(c)' <=> Roused(c)
  BY <1>h, <1>n, <1>o, <1>q DEF Roused
<1>f. FrameTypes'
  BY <1>0, <1>6, <1>r DEF Base, FrameTypes, Moves
<1>8. Calling'
  <2>1. \A k \in Loops : Shape(k)'
    BY <1>6 DEF Moves
  <2>2. ASSUME NEW k \in Loops, NEW y \in ToSet(prog'[k]), y[1] \in OnCoro
        PROVE  home'[y[2]] = k
    <3>1. y[1] # "scope"
      BY <2>2 DEF OnCoro
    <3>2. y \in ToSet(prog[k]) => home[y[2]] = k
      BY <2>2 DEF Base, Calling
    <3> QED
      BY <1>0, <1>3, <1>p, <1>x, <3>1, <3>2
  <2>3. ASSUME NEW c \in Coros, NEW op \in OnCoro, Has(c, op)'
        PROVE  st'[c] \in Phase(op)
    <3>1. Has(c, op) => st[c] \in Phase(op)
      BY DEF Base, Calling
    <3>2. Suspended(c0) /\ st[c0] \in States
      BY <1>q, <1>2 DEF Base, Wakes, Roused, FrameTypes
    <3>3. st[c0] \in Phase("resume")
      BY <3>2 DEF Suspended, States, Phase
    <3> QED
      BY <1>0, <1>h, <2>3, <3>1, <3>3
  <2>4. ASSUME NEW c \in Coros, NEW op \in {"is_owned_by", "has_waiter"}, Has(c, op)'
        PROVE  c \in cancelled'
    <3>0. op \in OnCoro /\ op # "resume"
      BY DEF OnCoro
    <3>1. Has(c, op)
      BY <1>h, <2>4, <3>0
    <3> QED
      BY <1>0, <3>1 DEF Base, Calling
  <2> QED
    BY <2>1, <2>2, <2>3, <2>4 DEF Calling
<1>9. Epochs'
  <2>1. \A c \in Coros : epoch'[c] <= waits'[c]
    BY <1>0 DEF Base, Epochs
  <2>2. ASSUME NEW k \in Loops, NEW y \in ToSet(prog'[k]), y[1] \in OnWaiter
        PROVE  y[2][2] <= waits'[y[2][1]]
    <3>1. y[1] # "scope" /\ y # x
      BY <1>x, <2>2 DEF OnWaiter
    <3> QED
      BY <1>0, <1>p, <2>2, <3>1 DEF Base, Epochs
  <2>3. \A c \in Coros :
            epoch'[c] = 0 <=> st'[c] \in {"run", "gone", "await"} /\ ~Has(c, "event_suspend")'
    BY <1>0, <1>h, <1>o DEF Base, Epochs
  <2> QED
    BY <2>1, <2>2, <2>3 DEF Epochs
<1>10. Wakes'
  <2>1. ASSUME NEW k \in Loops
        PROVE  Distinct(ready'[k]) /\ \A c \in ToSet(ready'[k]) : home'[c] = k
    BY <1>0, <1>r DEF Base, Wakes
  <2>2. ASSUME NEW c \in Coros, Roused(c)' PROVE Suspended(c)'
    BY <1>0, <1>7, <2>2 DEF Base, Wakes, Suspended
  <2>3. ASSUME NEW c \in Coros, Has(c, "resume")' PROVE ~Queued(c)' /\ ~Summoned(c)'
    <3>1. Has(c, "resume") => ~Queued(c) /\ ~Summoned(c)
      BY DEF Base, Wakes
    <3>2. ~Summoned(c0)
      <4> SUFFICES ASSUME Summoned(c0) PROVE FALSE
        OBVIOUS
      <4>2. PICK k \in Loops : <<"schedule", Now(c0)>> \in ToSet(prog[k])
        BY DEF Summoned
      <4>3. prog[k] # <<>>
        BY <4>2, NoWaiters
      <4>4. k = l
        BY <1>2, <1>3, <1>q, <4>2 DEF Base, Wakes
      <4> QED
        BY <1>1, <4>3, <4>4
    <3> QED
      BY <1>h, <1>n, <1>o, <2>3, <3>1, <3>2
  <2>4. ASSUME NEW c \in Coros, NEW k \in Loops, Queued(c)', <<"schedule", Now(c)>>' \in ToSet(prog'[k])
        PROVE  k = home'[c]
    BY <1>0, <1>n, <1>s, <2>4 DEF Base, Wakes
  <2>5. ASSUME NEW c \in Coros, NEW k \in Loops, NEW m \in Loops,
               <<"schedule", Now(c)>>' \in ToSet(prog'[k]) \cap ToSet(prog'[m])
        PROVE  k = m
    BY <1>n, <1>s, <2>5 DEF Base, Wakes
  <2>7. ASSUME NEW k \in Loops, prog'[k] # <<>> PROVE k \in Active'
    <3>1. Active' = Active
      BY <1>0 DEF Active
    <3> QED
      BY <1>6, <2>7, <3>1 DEF Base, Wakes, Moves
  <2> QED
    BY <2>1, <2>2, <2>3, <2>4, <2>5, <2>7 DEF Wakes
<1> QED
  BY <1>6, <1>7, <1>8, <1>9, <1>10, <1>f, <1>h, <1>n DEF Base, x, c0

-----------------------------------------------------------------------------
(* The steps of the others leave a primitive as it is: S are the states its *)
(* waiters are in, ops the instructions it is about.                       *)

Retains(ops) ==
    \A k \in Loops : \A y : y[1] \in ops => (y \in ToSet(prog'[k]) <=> y \in ToSet(prog[k]))

Growing ==
    /\ home' = home /\ waits' \in [Coros -> Nat] /\ epoch' \in [Coros -> Nat]
    /\ \A c \in Coros : /\ waits[c] <= waits'[c]
                        /\ epoch'[c] = epoch[c] \/ epoch'[c] = 0 \/ epoch'[c] > waits[c]

Rests(c) ==
    /\ st'[c] = st[c] /\ epoch'[c] = epoch[c]
    /\ Roused(c) => Roused(c)'
    /\ Roused(c)' => Roused(c) \/ (c \in cancelled' /\ st[c] # "cond")
    /\ c \in cancelled => c \in cancelled'

Undisturbed(S) ==
    Growing /\ \A c \in Coros : st[c] \in S \/ st'[c] \in S => Rests(c)

\* Retained instructions are there before and after.
LEMMA RetainsHas ==
    ASSUME Growing, FrameTypes, NEW ops, Retains(ops), NEW c \in Coros, NEW op \in ops
    PROVE  Has(c, op)' <=> Has(c, op)
<1>1. home[c] \in Loops /\ home' = home
  BY DEF Growing, FrameTypes
<1> DEFINE y == <<op, c>>
<1>2. y[1] \in ops
  OBVIOUS
<1> HIDE DEF y
<1>3. y \in ToSet(prog'[home[c]]) <=> y \in ToSet(prog[home[c]])
  BY <1>1, <1>2 DEF Retains
<1> QED
  BY <1>1, <1>3 DEF Has, y

\* A wait list stays one while the numbers of waits only grow.
LEMMA ListKept ==
    ASSUME FrameTypes, Growing, NEW s, List(s)
    PROVE  /\ s \in Seq(Current) /\ Distinct(s)
           /\ \A v, w \in ToSet(s) : v[1] = w[1] => v = w
           /\ \A w \in ToSet(s) : w[1] \in Coros /\ w[2] \in Nat \ {0} /\ w[2] <= waits[w[1]]
           /\ \A w \in ToSet(s) : w[2] <= waits'[w[1]]
<1>1. s \in Seq(Current) /\ Distinct(s) /\ \A v, w \in ToSet(s) : v[1] = w[1] => v = w
  BY DEF List
<1> SUFFICES ASSUME NEW w \in ToSet(s)
             PROVE  w[1] \in Coros /\ w[2] \in Nat \ {0} /\ w[2] <= waits[w[1]] /\ w[2] <= waits'[w[1]]
  BY <1>1
<1>2. w \in Current
  BY <1>1, ToSetProperties
<1>3. w[1] \in Coros /\ w[2] \in Nat \ {0}
  BY <1>2 DEF Current
<1>4. w[2] <= waits[w[1]]
  BY DEF List
<1>5. waits[w[1]] \in Nat /\ waits'[w[1]] \in Nat /\ waits[w[1]] <= waits'[w[1]]
  BY <1>3 DEF FrameTypes, Growing
<1> QED
  BY <1>3, <1>4, <1>5

\* A call in progress knows a wait as long as it lasts.
LEMMA KnownKept ==
    ASSUME Base, Growing, NEW ops, Retains(ops), NEW op \in ops, op \in OnWaiter,
           NEW c \in Coros, NEW k \in Loops, <<op, Now(c)>>' \in ToSet(prog'[k])
    PROVE  epoch'[c] = epoch[c] /\ <<op, Now(c)>> \in ToSet(prog[k])
<1> DEFINE e == epoch'[c]
           y == <<op, <<c, e>>>>
<1>1. y \in ToSet(prog'[k]) /\ y[1] = op
  BY DEF Now
<1>2. y \in ToSet(prog[k])
  BY <1>1 DEF Retains
<1>3. e \in Nat
  BY DEF Growing
<1>4. ~(e = 0 \/ e > waits[c])
  <2> HIDE DEF e
  <2> QED
    BY <1>2, <1>3, Unknown
<1>5. e = epoch[c]
  BY <1>4 DEF Growing
<1> QED
  BY <1>2, <1>5 DEF Now

LockOps == {"release", "guard", "erase_lock", "erase_cond", "is_owned_by", "has_waiter", "push", "hand_off"}

\* A step that leaves the lock alone keeps its invariant.
LEMMA LockKept ==
    ASSUME Base, LockInv, Undisturbed({"lock", "cond"}), Retains(LockOps), UNCHANGED lockVars,
           \A c \in Coros : Has(c, "guard") => (st'[c] = "run" <=> st[c] = "run")
    PROVE  LockInv'
<1>0. UNCHANGED <<holds, locked, owner, recursion, waiters, cwaiters>>
  BY DEF lockVars, lock
<1>g. FrameTypes /\ Growing /\ home' = home
  BY DEF Base, Undisturbed, Growing
<1>h. \A c \in Coros : \A op \in {"guard", "erase_lock", "erase_cond", "is_owned_by", "has_waiter"} :
          Has(c, op)' <=> Has(c, op)
  <2> SUFFICES ASSUME NEW c \in Coros,
                      NEW op \in {"guard", "erase_lock", "erase_cond", "is_owned_by", "has_waiter"}
               PROVE  Has(c, op)' <=> Has(c, op)
    OBVIOUS
  <2>1. op \in LockOps
    BY DEF LockOps
  <2> QED
    BY <1>g, <2>1, RetainsHas
<1>r. \A k \in Loops : Releasing(k)' <=> Releasing(k)
  <2>1. <<"release">>[1] \in LockOps
    BY DEF LockOps
  <2> QED
    BY <2>1 DEF Retains, Releasing
<1>w. \A k \in Loops : \A op \in {"hand_off", "push"} : \A v :
          <<op, v>> \in ToSet(prog'[k]) <=> <<op, v>> \in ToSet(prog[k])
  <2> SUFFICES ASSUME NEW k \in Loops, NEW op \in {"hand_off", "push"}, NEW v
               PROVE  <<op, v>> \in ToSet(prog'[k]) <=> <<op, v>> \in ToSet(prog[k])
    OBVIOUS
  <2>1. <<op, v>>[1] \in LockOps
    BY DEF LockOps
  <2> QED
    BY <2>1 DEF Retains
<1>c. \A c \in Coros : st[c] \in {"lock", "cond"} \/ st'[c] \in {"lock", "cond"} => Rests(c)
  BY DEF Undisturbed
<1>st. \A c \in Coros : /\ st[c] \in {"lock", "cond"} <=> st'[c] \in {"lock", "cond"}
                        /\ st[c] = "cond" <=> st'[c] = "cond"
                        /\ st[c] = "lock" <=> st'[c] = "lock"
  BY <1>c DEF Rests
<1>n. \A c \in Coros : st[c] \in {"lock", "cond"} => Now(c)' = Now(c)
  BY <1>c DEF Rests, Now
<1>ho. \A c \in Coros, k \in Loops : <<"hand_off", Now(c)>>' \in ToSet(prog'[k]) =>
           Now(c)' = Now(c) /\ <<"hand_off", Now(c)>> \in ToSet(prog[k])
  <2> SUFFICES ASSUME NEW c \in Coros, NEW k \in Loops, <<"hand_off", Now(c)>>' \in ToSet(prog'[k])
               PROVE  Now(c)' = Now(c) /\ <<"hand_off", Now(c)>> \in ToSet(prog[k])
    OBVIOUS
  <2>1. "hand_off" \in LockOps /\ "hand_off" \in OnWaiter
    BY DEF LockOps, OnWaiter
  <2>2. epoch'[c] = epoch[c] /\ <<"hand_off", Now(c)>> \in ToSet(prog[k])
    BY <1>g, <2>1, KnownKept
  <2> QED
    BY <2>2 DEF Now
<1>hc. \A c \in Coros : HandedOn(c) => st[c] = "cond"
  BY DEF LockInv, LockLists
<1>hd. \A c \in Coros : HandedOn(c)' <=> HandedOn(c)
  <2> TAKE c \in Coros
  <2>1. HandedOn(c)' => HandedOn(c)
    BY <1>ho DEF HandedOn
  <2>2. ASSUME HandedOn(c) PROVE HandedOn(c)'
    <3>1. Now(c)' = Now(c)
      BY <1>hc, <1>n, <2>2
    <3> QED
      BY <1>w, <2>2, <3>1 DEF HandedOn
  <2> QED
    BY <2>1, <2>2
<1>e. \A c \in Coros : (Enrolled(c)' <=> Enrolled(c)) /\ (Leaving(c)' <=> Leaving(c))
  <2> TAKE c \in Coros
  <2>1. Enrolled(c)' <=> Enrolled(c)
    BY <1>h, <1>st DEF Enrolled
  <2>2. home[c] \in Loops
    BY <1>g DEF FrameTypes
  <2>3. Leaving(c)' <=> Leaving(c)
    BY <1>g, <1>h, <1>r, <2>2 DEF Leaving
  <2> QED
    BY <2>1, <2>3
<1>1. Owning'
  <2>1. Owning
    BY DEF LockInv
  <2>2. \A l \in Loops : Releasing(l)' => owner' \in Coros /\ home'[owner'] = l
    BY <1>0, <1>g, <1>r, <2>1 DEF Owning
  <2>3. \A c \in Coros : Has(c, "guard")' => IF st'[c] = "run" THEN owner' = c ELSE holds'[c] = 0
    BY <1>0, <1>h, <2>1 DEF Owning
  <2>4. \A c \in Coros : holds'[c] > 0 => owner' = c /\ ~Enrolled(c)'
    BY <1>0, <1>e, <2>1 DEF Owning
  <2>5. \A c \in Coros : owner' = c => Counts(c)'
    BY <1>0, <1>e, <2>1 DEF Owning, Counts
  <2> QED
    BY <1>0, <2>1, <2>2, <2>3, <2>4, <2>5 DEF Owning
<1>2. LockLists'
  <2>0. LockLists
    BY DEF LockInv
  <2>1. List(waiters)' /\ List(cwaiters)'
    <3>1. List(waiters) /\ List(cwaiters)
      BY <2>0 DEF LockLists
    <3>2. List(waiters)'
      BY <1>0, <1>g, <3>1, ListKept DEF List
    <3>3. List(cwaiters)'
      BY <1>0, <1>g, <3>1, ListKept DEF List
    <3> QED
      BY <3>2, <3>3
  <2>m. /\ \A w \in ToSet(waiters) : w[1] \in Coros
        /\ \A w \in ToSet(cwaiters) : w[1] \in Coros
    <3>1. List(waiters) /\ List(cwaiters)
      BY <2>0 DEF LockLists
    <3> QED
      BY <1>g, <3>1, ListKept
  <2>2. \A w \in ToSet(waiters') :
           (st'[w[1]] \in {"lock", "cond"} /\ w = Now(w[1])') \/ Has(w[1], "erase_lock")'
    BY <1>0, <1>h, <1>n, <1>st, <2>0, <2>m DEF LockLists
  <2>3. \A w \in ToSet(cwaiters') :
           IF st'[w[1]] = "cond" THEN w = Now(w[1])' ELSE Has(w[1], "erase_cond")'
    BY <1>0, <1>h, <1>n, <1>st, <2>0, <2>m DEF LockLists
  <2>4. \A c \in Coros : /\ Named(waiters, c)' <=> Named(waiters, c)
                         /\ Named(cwaiters, c)' <=> Named(cwaiters, c)
    BY <1>0 DEF Named
  <2>5. \A c \in Coros : ~(Named(waiters, c)' /\ Named(cwaiters, c)')
    BY <2>0, <2>4 DEF LockLists
  <2>6. \A c \in Coros : HandedOn(c)' =>
           st'[c] = "cond" /\ ~Named(waiters, c)' /\ ~Named(cwaiters, c)'
    BY <1>hd, <1>st, <2>0, <2>4 DEF LockLists
  <2>7. \A c \in Coros, l, k \in Loops :
           <<"hand_off", Now(c)>>' \in ToSet(prog'[l]) \cap ToSet(prog'[k]) => l = k
    BY <1>ho, <2>0 DEF LockLists
  <2>8. ASSUME NEW l \in Loops, NEW x \in ToSet(prog'[l]), x[1] = "push"
        PROVE  /\ home'[x[2][1]] = l /\ x[2] = Now(x[2][1])' /\ st'[x[2][1]] = "cond" /\ Releasing(l)'
               /\ owner' = x[2][1] /\ ~Named(waiters, x[2][1])' /\ ~Named(cwaiters, x[2][1])'
               /\ ~HandedOn(x[2][1])'
    <3>0. x[1] \in LockOps
      BY <2>8 DEF LockOps
    <3>1. x \in ToSet(prog[l])
      BY <2>8, <3>0 DEF Retains
    <3> DEFINE c == x[2][1]
    <3>2. /\ home[c] = l /\ x[2] = Now(c) /\ st[c] = "cond" /\ Releasing(l) /\ owner = c
          /\ ~Named(waiters, c) /\ ~Named(cwaiters, c) /\ ~HandedOn(c)
      BY <2>0, <2>8, <3>1 DEF LockLists
    <3>3. c \in Coros
      <4>1. x \in Instr
        <5>1. prog[l] \in Seq(Instr)
          BY <1>g DEF FrameTypes
        <5> QED
          BY <3>1, <5>1, ToSetProperties
      <4> QED
        BY <2>8, <4>1 DEF Instr, OnWaiter, OnCoro, Current
    <3> HIDE DEF c
    <3>4. x[2] = Now(c)' /\ st'[c] = "cond" /\ Releasing(l)' /\ ~HandedOn(c)'
      BY <1>hd, <1>n, <1>r, <1>st, <3>2, <3>3
    <3>5. ~Named(waiters, c)' /\ ~Named(cwaiters, c)'
      BY <2>4, <3>2, <3>3
    <3> QED
      BY <1>0, <1>g, <3>2, <3>4, <3>5 DEF c
  <2>9. \A c \in Coros :
           (Has(c, "is_owned_by")' /\ ~Has(c, "erase_cond")') \/ Has(c, "has_waiter")' => ~Named(cwaiters, c)'
    BY <1>h, <2>0, <2>4 DEF LockLists
  <2>10. \A c \in Coros : Has(c, "has_waiter")' => owner' # c
    BY <1>0, <1>h, <2>0 DEF LockLists
  <2> QED
    BY <2>1, <2>2, <2>3, <2>5, <2>6, <2>7, <2>8, <2>9, <2>10 DEF LockLists
<1>3. LockWaits'
  <2> SUFFICES ASSUME NEW c \in Coros, st'[c] \in {"lock", "cond"}
               PROVE  /\ Listed(c)' /\ Roused(c)' => st'[c] = "lock" /\ c \in cancelled'
                      /\ Listed(c)' /\ owner' = c => Releasing(home[c])'
                      /\ ~Listed(c)' => owner' = c /\ Roused(c)' /\ ~Releasing(home[c])'
    BY DEF LockWaits
  <2>0. st[c] \in {"lock", "cond"} /\ Rests(c)
    BY <1>c, <1>st
  <2>1. /\ Listed(c) /\ Roused(c) => st[c] = "lock" /\ c \in cancelled
        /\ Listed(c) /\ owner = c => Releasing(home[c])
        /\ ~Listed(c) => owner = c /\ Roused(c) /\ ~Releasing(home[c])
    BY <2>0 DEF LockInv, LockWaits
  <2>2. home[c] \in Loops
    BY <1>g DEF FrameTypes
  <2>3. Releasing(home[c])' <=> Releasing(home[c])
    BY <1>g, <1>r, <2>2 DEF Releasing
  <2>4. Pushing(c)' <=> Pushing(c)
    BY <1>g, <1>n, <1>w, <2>0, <2>2 DEF Pushing
  <2>5. Asking(c)' <=> Asking(c)
    BY <1>0, <1>h DEF Asking
  <2>6. Listed(c)' <=> Listed(c)
    <3>1. /\ Named(waiters, c)' <=> Named(waiters, c)
          /\ Named(cwaiters, c)' <=> Named(cwaiters, c)
      BY <1>0 DEF Named
    <3> QED
      BY <1>hd, <1>st, <2>4, <2>5, <3>1 DEF Listed
  <2> QED
    BY <1>0, <2>0, <2>1, <2>3, <2>6 DEF Rests
<1> QED
  BY <1>1, <1>2, <1>3 DEF LockInv

SemOps == {"sem_suspend", "sem_remove", "sem_release"}

\* A step that leaves the semaphore alone keeps its invariant.
LEMMA SemKept ==
    ASSUME Base, SemInv, Undisturbed({"acquire"}), Retains(SemOps), UNCHANGED semVars
    PROVE  SemInv'
<1>0. UNCHANGED <<permits, semWaiters, reserved, inside, posts>>
  BY DEF semVars
<1>g. FrameTypes /\ Growing /\ home' = home
  BY DEF Base, Undisturbed, Growing
<1>h. \A c \in Coros : /\ Has(c, "sem_suspend")' <=> Has(c, "sem_suspend")
                       /\ Has(c, "sem_remove")' <=> Has(c, "sem_remove")
  <2>1. "sem_suspend" \in SemOps /\ "sem_remove" \in SemOps
    BY DEF SemOps
  <2> QED
    BY <1>g, <2>1, RetainsHas
<1>o. Owed' = Owed
  <2>1. "sem_release" \in SemOps
    BY DEF SemOps
  <2>2. \A l \in Loops : \A i : i[1] = "sem_release" => (i \in ToSet(prog'[l]) <=> i \in ToSet(prog[l]))
    BY <2>1 DEF Retains
  <2> QED
    BY <2>2 DEF Owed
<1>c. \A c \in Coros : st[c] = "acquire" \/ st'[c] = "acquire" => Rests(c)
  BY DEF Undisturbed
<1>st. \A c \in Coros : /\ st[c] = "acquire" <=> st'[c] = "acquire"
                        /\ st[c] = "acquire" => Now(c)' = Now(c)
  BY <1>c DEF Rests, Now
<1>1. List(semWaiters)
  BY DEF SemInv
<1>2. List(semWaiters)'
  BY <1>0, <1>g, <1>1, ListKept DEF List
<1>m. \A w \in ToSet(semWaiters) : w[1] \in Coros
  BY <1>g, <1>1, ListKept
<1>3. \A w \in ToSet(semWaiters') :
           /\ w[1] \notin reserved'
           /\ (st'[w[1]] = "acquire" /\ w = Now(w[1])') \/ Has(w[1], "sem_remove")'
  BY <1>0, <1>h, <1>st, <1>m DEF SemInv
<1>4. \A c \in reserved' : st'[c] = "acquire" \/ Has(c, "sem_remove")'
  BY <1>0, <1>h, <1>st DEF SemInv
<1>5. ASSUME NEW c \in Coros, st'[c] = "acquire"
      PROVE  /\ c \notin inside'
             /\ Named(semWaiters, c)' \/ c \in reserved'
             /\ Named(semWaiters, c)' /\ Roused(c)' => c \in cancelled'
  <2>0. st[c] = "acquire" /\ Rests(c)
    BY <1>c, <1>st, <1>5
  <2>1. Named(semWaiters, c)' <=> Named(semWaiters, c)
    BY <1>0 DEF Named
  <2> QED
    BY <1>0, <2>0, <2>1 DEF Rests, SemInv
<1>6. \A c \in Coros : Has(c, "sem_suspend")' => c \notin inside'
  BY <1>0, <1>h DEF SemInv
<1>7. Conservation' /\ NoIdlePermit'
  BY <1>0, <1>o DEF SemInv, Conservation, NoIdlePermit
<1>8. /\ permits' \in Nat /\ posts' \in Nat /\ inside' \subseteq Coros /\ reserved' \subseteq Coros
      /\ IsFiniteSet(inside') /\ IsFiniteSet(reserved')
  BY <1>0 DEF SemInv
<1> QED
  BY <1>2, <1>3, <1>4, <1>5, <1>6, <1>7, <1>8 DEF SemInv

EventOps == {"event_erase", "event_swap"}

\* A step that leaves the event alone keeps its invariant.
LEMMA EventKept ==
    ASSUME Base, EventInv, Undisturbed({"wait"}), Retains(EventOps), UNCHANGED eventVars
    PROVE  EventInv'
<1>0. UNCHANGED <<set, setWaiters, sets, since>>
  BY DEF eventVars
<1>g. FrameTypes /\ Growing /\ home' = home
  BY DEF Base, Undisturbed, Growing
<1>h. \A c \in Coros : Has(c, "event_erase")' <=> Has(c, "event_erase")
  <2>1. "event_erase" \in EventOps
    BY DEF EventOps
  <2> QED
    BY <1>g, <2>1, RetainsHas
<1>o. Setting' = Setting
  <2>1. <<"event_swap">>[1] \in EventOps
    BY DEF EventOps
  <2> QED
    BY <2>1 DEF Retains, Setting
<1>c. \A c \in Coros : st[c] = "wait" \/ st'[c] = "wait" => Rests(c)
  BY DEF Undisturbed
<1>st. \A c \in Coros : /\ st[c] = "wait" <=> st'[c] = "wait"
                        /\ st[c] = "wait" => Now(c)' = Now(c)
  BY <1>c DEF Rests, Now
<1>1. List(setWaiters)
  BY DEF EventInv
<1>2. List(setWaiters)'
  BY <1>0, <1>g, <1>1, ListKept DEF List
<1>m. \A w \in ToSet(setWaiters) : w[1] \in Coros
  BY <1>g, <1>1, ListKept
<1>3. \A w \in ToSet(setWaiters') :
           (st'[w[1]] = "wait" /\ w = Now(w[1])') \/ Has(w[1], "event_erase")'
  BY <1>0, <1>h, <1>st, <1>m DEF EventInv
<1>5. ASSUME NEW c \in Coros, st'[c] = "wait"
      PROVE  /\ Named(setWaiters, c)' \/ since'[c] < sets'
             /\ Named(setWaiters, c)' /\ Roused(c)' => c \in cancelled'
  <2>0. st[c] = "wait" /\ Rests(c)
    BY <1>c, <1>st, <1>5
  <2>1. Named(setWaiters, c)' <=> Named(setWaiters, c)
    BY <1>0 DEF Named
  <2> QED
    BY <1>0, <2>0, <2>1 DEF Rests, EventInv
<1>7. NobodyQueuedOnSet'
  BY <1>0, <1>o DEF EventInv, NobodyQueuedOnSet
<1>8. /\ sets' \in Nat /\ since' \in [Coros -> Nat] /\ set' \in BOOLEAN
      /\ \A c \in Coros : since'[c] <= sets'
  BY <1>0 DEF EventInv
<1> QED
  BY <1>2, <1>3, <1>5, <1>7, <1>8 DEF EventInv

FutureOps == {"future_erase", "future_notify"}

\* A step that leaves the futures alone keeps their invariant.
LEMMA FutureKept ==
    ASSUME Base, FutureInv, Undisturbed({"await"}), Retains(FutureOps), UNCHANGED futVars,
           \A c \in Coros : Has(c, "future_erase") /\ st'[c] = "run" => st[c] = "run"
    PROVE  FutureInv'
<1>0. UNCHANGED <<result, promise, consumed, futWaiters, on, got>>
  BY DEF futVars
<1>g. FrameTypes /\ Growing /\ home' = home
  BY DEF Base, Undisturbed, Growing
<1>h. \A c \in Coros : Has(c, "future_erase")' <=> Has(c, "future_erase")
  <2>1. "future_erase" \in FutureOps
    BY DEF FutureOps
  <2> QED
    BY <1>g, <2>1, RetainsHas
<1>n. \A f \in Futures, l \in Loops :
          <<"future_notify", f>> \in ToSet(prog'[l]) <=> <<"future_notify", f>> \in ToSet(prog[l])
  <2>1. \A f \in Futures : <<"future_notify", f>>[1] \in FutureOps
    BY DEF FutureOps
  <2> QED
    BY <2>1 DEF Retains
<1>c. \A c \in Coros : st[c] = "await" \/ st'[c] = "await" => Rests(c)
  BY DEF Undisturbed
<1>st. \A c \in Coros : st[c] = "await" <=> st'[c] = "await"
  BY <1>c DEF Rests
<1>1. FutureTypeOK' /\ \A f \in Futures : Distinct(futWaiters'[f])
  BY <1>0 DEF FutureInv, FutureTypeOK
<1>f. /\ FutureTypeOK
      /\ \A f \in Futures : \A c \in ToSet(futWaiters[f]) : c \in Coros
  <2>1. FutureTypeOK
    BY DEF FutureInv
  <2>2. \A f \in Futures : futWaiters[f] \in Seq(Coros)
    BY <2>1 DEF FutureTypeOK
  <2> QED
    BY <2>1, <2>2, ToSetProperties
<1>2. \A f \in Futures : \A c \in ToSet(futWaiters'[f]) :
           on'[c] = f /\ (st'[c] = "await" \/ Has(c, "future_erase")')
  BY <1>0, <1>f, <1>h, <1>st DEF FutureInv
<1>3. ASSUME NEW c \in Coros, st'[c] = "await"
      PROVE  /\ c \in ToSet(futWaiters'[on'[c]]) \/ fready(on[c])'
             /\ c \in ToSet(futWaiters'[on'[c]]) /\ Roused(c)' => c \in cancelled'
  <2>0. st[c] = "await" /\ Rests(c)
    BY <1>c, <1>st, <1>3
  <2> QED
    BY <1>0, <2>0 DEF Rests, FutureInv, fready
<1>5. \A f \in Futures, l \in Loops : <<"future_notify", f>> \in ToSet(prog'[l]) => fready(f)'
  BY <1>0, <1>n DEF FutureInv, fready
<1>6. NoLostResult'
  BY <1>0, <1>n DEF FutureInv, NoLostResult, fready
<1> QED
  BY <1>1, <1>2, <1>3, <1>5, <1>6 DEF FutureInv

-----------------------------------------------------------------------------
(* Which primitives a step leaves alone.                                   *)

\* Instructions that neither come nor go are retained.
LEMMA MovesRetains ==
    ASSUME NEW l \in Loops, NEW old, NEW new, Moves(l, old, new), NEW ops, "scope" \notin ops,
           \A y \in old \cup new : y[1] \notin ops
    PROVE  Retains(ops)
<1> SUFFICES ASSUME NEW k \in Loops, NEW y, y[1] \in ops
             PROVE  y \in ToSet(prog'[k]) <=> y \in ToSet(prog[k])
  BY DEF Retains
<1>1. y[1] # "scope" /\ y \notin old /\ y \notin new
  OBVIOUS
<1> QED
  BY <1>1 DEF Moves

Spares(old, new, ops, S) ==
    /\ "scope" \notin ops /\ \A y \in old \cup new : y[1] \notin ops
    /\ \A c \in Coros : <<"schedule", Now(c)>> \in new => st[c] \notin S

\* An instruction of one primitive does not disturb the waiters of another.
LEMMA PlainKeeps ==
    ASSUME Base, NEW l \in Loops, NEW old, NEW new, Plain(l, old, new), NEW ops, NEW S,
           Spares(old, new, ops, S)
    PROVE  Undisturbed(S) /\ Retains(ops)
<1>1. Retains(ops)
  BY MovesRetains DEF Plain, Spares
<1>2. UNCHANGED <<home, st, epoch, waits>> /\ cancelled \subseteq cancelled'
  BY DEF Plain, Moves, Flagged
<1>3. \A c \in Coros : Roused(c)' <=> Roused(c) \/ <<"schedule", Now(c)>> \in new
  BY PlainRoused
<1>4. Growing
  BY <1>2 DEF Growing, Base, FrameTypes
<1>5. ASSUME NEW c \in Coros, st[c] \in S \/ st'[c] \in S PROVE Rests(c)
  BY <1>2, <1>3, <1>5 DEF Rests, Spares
<1> QED
  BY <1>1, <1>4, <1>5 DEF Undisturbed

\* An instruction of one primitive keeps the invariants of the others.
LEMMA PlainOthers ==
    ASSUME Base, Unraced', NEW l \in Loops, NEW old, NEW new, Plain(l, old, new)
    PROVE  /\ Base'
           /\ LockInv /\ UNCHANGED lockVars /\ Spares(old, new, LockOps, {"lock", "cond"}) => LockInv'
           /\ SemInv /\ UNCHANGED semVars /\ Spares(old, new, SemOps, {"acquire"}) => SemInv'
           /\ EventInv /\ UNCHANGED eventVars /\ Spares(old, new, EventOps, {"wait"}) => EventInv'
           /\ FutureInv /\ UNCHANGED futVars /\ Spares(old, new, FutureOps, {"await"}) => FutureInv'
<1>0. st' = st
  BY DEF Plain
<1>1. Base'
  BY PlainBase
<1>2. LockInv /\ UNCHANGED lockVars /\ Spares(old, new, LockOps, {"lock", "cond"}) => LockInv'
  BY <1>0, PlainKeeps, LockKept
<1>3. SemInv /\ UNCHANGED semVars /\ Spares(old, new, SemOps, {"acquire"}) => SemInv'
  BY PlainKeeps, SemKept
<1>4. EventInv /\ UNCHANGED eventVars /\ Spares(old, new, EventOps, {"wait"}) => EventInv'
  BY PlainKeeps, EventKept
<1>5. FutureInv /\ UNCHANGED futVars /\ Spares(old, new, FutureOps, {"await"}) => FutureInv'
  BY <1>0, PlainKeeps, FutureKept
<1> QED
  BY <1>1, <1>2, <1>3, <1>4, <1>5

\* A coroutine's turn does not disturb the waiters of another primitive.
LEMMA TurnKeeps ==
    ASSUME Base, NEW c \in Coros, NEW new, Turn(c, new), NEW ops, "scope" \notin ops,
           \A y \in ToSet(prog[home[c]]) \cup new : y[1] \notin ops,
           NEW S, st[c] \notin S, st'[c] \notin S
    PROVE  Undisturbed(S) /\ Retains(ops)
<1>0. home[c] \in Loops /\ home' = home /\ FrameTypes
  BY DEF Base, FrameTypes, Turn, Moves
<1>1. Retains(ops)
  BY <1>0, MovesRetains DEF Turn
<1>2. \A d \in Coros : d # c => /\ st'[d] = st[d] /\ epoch'[d] = epoch[d] /\ waits'[d] = waits[d]
                                 /\ (d \in cancelled' <=> d \in cancelled)
  BY DEF Turn
<1>3. \A d \in Coros \ {c} : Roused(d)' <=> Roused(d)
  BY TurnRoused
<1>4. Growing
  <2>1. waits' \in [Coros -> Nat] /\ epoch' \in [Coros -> Nat] /\ waits \in [Coros -> Nat]
    BY DEF Turn, Base, FrameTypes
  <2>2. waits[c] <= waits'[c] /\ (epoch'[c] = epoch[c] \/ epoch'[c] = 0 \/ epoch'[c] > waits[c])
    BY DEF Turn
  <2>3. \A d \in Coros : waits[d] <= waits'[d]
    BY <1>2, <2>1, <2>2
  <2>4. \A d \in Coros : epoch'[d] = epoch[d] \/ epoch'[d] = 0 \/ epoch'[d] > waits[d]
    BY <1>2, <2>2
  <2> QED
    BY <1>0, <2>1, <2>3, <2>4 DEF Growing
<1>5. ASSUME NEW d \in Coros, st[d] \in S \/ st'[d] \in S PROVE Rests(d)
  <2>1. d # c
    BY <1>5
  <2> QED
    BY <1>2, <1>3, <2>1 DEF Rests
<1> QED
  BY <1>1, <1>4, <1>5 DEF Undisturbed

TurnSpares(c, new, ops, S) ==
    /\ "scope" \notin ops /\ \A y \in ToSet(prog[home[c]]) \cup new : y[1] \notin ops
    /\ st[c] \notin S /\ st'[c] \notin S

\* A coroutine's turn at one primitive keeps the invariants of the others.
LEMMA TurnOthers ==
    ASSUME Base, Unraced', NEW c \in Coros, NEW new, Turn(c, new)
    PROVE  /\ Base'
           /\ LockInv /\ UNCHANGED lockVars /\ TurnSpares(c, new, LockOps, {"lock", "cond"}) => LockInv'
           /\ SemInv /\ UNCHANGED semVars /\ TurnSpares(c, new, SemOps, {"acquire"}) => SemInv'
           /\ EventInv /\ UNCHANGED eventVars /\ TurnSpares(c, new, EventOps, {"wait"}) => EventInv'
           /\ FutureInv /\ UNCHANGED futVars /\ TurnSpares(c, new, FutureOps, {"await"}) => FutureInv'
<1>0. \A d \in Coros : d # c => st'[d] = st[d]
  BY DEF Turn
<1>1. Base'
  BY TurnBase
<1>h. ASSUME NEW ops, \A y \in ToSet(prog[home[c]]) \cup new : y[1] \notin ops, NEW op \in ops
      PROVE  ~Has(c, op)
  <2>1. <<op, c>>[1] = op
    OBVIOUS
  <2> QED
    BY <1>h, <2>1 DEF Has
<1>2. LockInv /\ UNCHANGED lockVars /\ TurnSpares(c, new, LockOps, {"lock", "cond"}) => LockInv'
  <2> SUFFICES ASSUME LockInv, UNCHANGED lockVars, TurnSpares(c, new, LockOps, {"lock", "cond"})
               PROVE  LockInv'
    OBVIOUS
  <2>1. Undisturbed({"lock", "cond"}) /\ Retains(LockOps)
    BY TurnKeeps DEF TurnSpares
  <2>2. "guard" \in LockOps
    BY DEF LockOps
  <2>3. \A d \in Coros : Has(d, "guard") => (st'[d] = "run" <=> st[d] = "run")
    BY <1>0, <1>h, <2>2 DEF TurnSpares
  <2> QED
    BY <2>1, <2>3, LockKept
<1>3. SemInv /\ UNCHANGED semVars /\ TurnSpares(c, new, SemOps, {"acquire"}) => SemInv'
  BY TurnKeeps, SemKept DEF TurnSpares
<1>4. EventInv /\ UNCHANGED eventVars /\ TurnSpares(c, new, EventOps, {"wait"}) => EventInv'
  BY TurnKeeps, EventKept DEF TurnSpares
<1>5. FutureInv /\ UNCHANGED futVars /\ TurnSpares(c, new, FutureOps, {"await"}) => FutureInv'
  <2> SUFFICES ASSUME FutureInv, UNCHANGED futVars, TurnSpares(c, new, FutureOps, {"await"})
               PROVE  FutureInv'
    OBVIOUS
  <2>1. Undisturbed({"await"}) /\ Retains(FutureOps)
    BY TurnKeeps DEF TurnSpares
  <2>2. "future_erase" \in FutureOps
    BY DEF FutureOps
  <2>3. \A d \in Coros : Has(d, "future_erase") /\ st'[d] = "run" => st[d] = "run"
    BY <1>0, <1>h, <2>2 DEF TurnSpares
  <2> QED
    BY <2>1, <2>3, FutureKept
<1> QED
  BY <1>1, <1>2, <1>3, <1>4, <1>5

\* Waking is only for waiters that are awake already, or cancelled.
WakeSpares(old, Q, ops, S) ==
    /\ "scope" \notin ops /\ \A y \in old : y[1] \notin ops
    /\ \A c \in Q : st[c] \in S => Roused(c) \/ (c \in cancelled' /\ st[c] # "cond")

\* Queueing the waiters of one primitive keeps the invariants of the others.
LEMMA WakeOthers ==
    ASSUME Base, Unraced', NEW l \in Loops, NEW old, NEW Q, Wake(l, old, Q)
    PROVE  /\ Base'
           /\ LockInv /\ UNCHANGED lockVars /\ WakeSpares(old, Q, LockOps, {"lock", "cond"}) => LockInv'
           /\ SemInv /\ UNCHANGED semVars /\ WakeSpares(old, Q, SemOps, {"acquire"}) => SemInv'
           /\ EventInv /\ UNCHANGED eventVars /\ WakeSpares(old, Q, EventOps, {"wait"}) => EventInv'
           /\ FutureInv /\ UNCHANGED futVars /\ WakeSpares(old, Q, FutureOps, {"await"}) => FutureInv'
<1>0. UNCHANGED <<home, st, epoch, waits>> /\ cancelled \subseteq cancelled'
  BY DEF Wake, Moves, Flagged
<1>1. Base'
  BY WakeBase
<1>k. ASSUME NEW ops, NEW S, WakeSpares(old, Q, ops, S) PROVE Undisturbed(S) /\ Retains(ops)
  <2>1. Retains(ops)
    BY <1>k, MovesRetains DEF Wake, WakeSpares
  <2>2. \A c \in Coros : Roused(c)' <=> Roused(c) \/ c \in Q
    BY WakeRoused
  <2>3. Growing
    BY <1>0 DEF Growing, Base, FrameTypes
  <2>4. ASSUME NEW c \in Coros, st[c] \in S \/ st'[c] \in S PROVE Rests(c)
    BY <1>0, <1>k, <2>2, <2>4 DEF Rests, WakeSpares
  <2> QED
    BY <2>1, <2>3, <2>4 DEF Undisturbed
<1>2. LockInv /\ UNCHANGED lockVars /\ WakeSpares(old, Q, LockOps, {"lock", "cond"}) => LockInv'
  BY <1>0, <1>k, LockKept
<1>3. SemInv /\ UNCHANGED semVars /\ WakeSpares(old, Q, SemOps, {"acquire"}) => SemInv'
  BY <1>k, SemKept
<1>4. EventInv /\ UNCHANGED eventVars /\ WakeSpares(old, Q, EventOps, {"wait"}) => EventInv'
  BY <1>k, EventKept
<1>5. FutureInv /\ UNCHANGED futVars /\ WakeSpares(old, Q, FutureOps, {"await"}) => FutureInv'
  BY <1>0, <1>k, FutureKept
<1> QED
  BY <1>1, <1>2, <1>3, <1>4, <1>5

-----------------------------------------------------------------------------
(* Single instructions.                                                    *)

\* What an instruction is about, from its name.
LEMMA InstrOf ==
    ASSUME NEW x \in Instr
    PROVE  /\ x[1] \in OnCoro \cup {"scope"} => x = <<x[1], x[2]>> /\ x[2] \in Coros
           /\ x[1] \in OnWaiter => /\ x = <<x[1], x[2]>> /\ x[2] = <<x[2][1], x[2][2]>>
                                   /\ x[2][1] \in Coros /\ x[2][2] \in Nat \ {0} /\ x[2] \in Current
           /\ x[1] = "notify" => x[2] \in BOOLEAN /\ x = <<"notify", x[2]>>
           /\ x[1] = "future_notify" => x = <<"future_notify", x[2]>> /\ x[2] \in Futures
           /\ x[1] \in {"release", "sem_release", "event_swap"} => x = <<x[1]>>
  BY DEF Instr, OnCoro, OnWaiter, Current

\* The instructions there are.
LEMMA IsInstr ==
    /\ \A op \in OnCoro \cup {"scope"}, c \in Coros : <<op, c>> \in Instr
    /\ \A op \in OnWaiter, w \in Current : <<op, w>> \in Instr
    /\ \A b \in BOOLEAN : <<"notify", b>> \in Instr
    /\ \A f \in Futures : <<"future_notify", f>> \in Instr
    /\ <<"release">> \in Instr /\ <<"sem_release">> \in Instr /\ <<"event_swap">> \in Instr
  BY DEF Instr

\* The instructions that may come after another.
LEMMA LaterNames ==
    ASSUME NEW G, NEW x, NEW y, Later(G, x, y)
    PROVE  y[1] \in {"release", "notify", "is_owned_by", "schedule", "erase_lock", "guard",
                     "sem_guard", "scope"}
<1>1. CASE y = <<"release">> \/ y = <<"notify", TRUE>>
  <2>1. <<"release">>[1] = "release"
    OBVIOUS
  <2>2. <<"notify", TRUE>>[1] = "notify"
    OBVIOUS
  <2> QED
    BY ONLY <1>1, <2>1, <2>2
<1>2. CASE y[1] \in {"is_owned_by", "schedule"}
  BY <1>2
<1>3. CASE \E c \in G : y \in {<<"erase_lock", c>>, <<"guard", c>>, <<"sem_guard", c>>, <<"scope", c>>}
  BY <1>3
<1> QED
  BY <1>1, <1>2, <1>3 DEF Later

\* The instruction that is next on l.
LEMMA HeadAt ==
    ASSUME Base, holds \in [Coros -> Nat], NEW l \in Loops, NEW op, At(l, op)
    PROVE  /\ prog[l] # <<>> /\ l \in Active /\ Head(prog[l]) \in Instr /\ Head(prog[l])[1] = op
           /\ Head(prog[l]) \in ToSet(prog[l]) /\ Heads(l) /\ Arg(l) = Head(prog[l])[2]
           /\ op # "scope" => Head(prog[l]) \notin ToSet(Tail(prog[l]))
           /\ Tail(prog[l]) \in Seq(Instr)
           /\ ToSet(prog[l]) = ToSet(Tail(prog[l])) \cup {Head(prog[l])}
           /\ Fits(Gone(l), holds, inside, Head(prog[l]), Tail(prog[l]))
           /\ op # "resume" => \A y \in ToSet(prog[l]) : y[1] # "resume"
           /\ op \in OnCoro => /\ Head(prog[l]) = <<op, Arg(l)>> /\ Arg(l) \in Coros
                               /\ home[Arg(l)] = l /\ Has(Arg(l), op) /\ st[Arg(l)] \in Phase(op)
<1> DEFINE x == Head(prog[l])
<1>1. prog[l] # <<>> /\ x[1] = op
  BY DEF At
<1>2. FrameTypes /\ Shape(l) /\ (prog[l] # <<>> => l \in Active)
  BY DEF Base, Calling, Wakes
<1>3. /\ x \in Instr /\ Tail(prog[l]) \in Seq(Instr)
      /\ ToSet(prog[l]) = ToSet(Tail(prog[l])) \cup {x}
      /\ Fits(Gone(l), holds, inside, x, Tail(prog[l]))
      /\ Heads(l)
      /\ x[1] # "scope" => x \notin ToSet(Tail(prog[l]))
  BY <1>1, <1>2, First
<1>4. op # "resume" => \A y \in ToSet(prog[l]) : y[1] # "resume"
  BY <1>1, <1>3, LaterNames DEF Heads
<1>5. ASSUME op \in OnCoro
      PROVE  /\ x = <<op, Arg(l)>> /\ Arg(l) \in Coros
             /\ home[Arg(l)] = l /\ Has(Arg(l), op) /\ st[Arg(l)] \in Phase(op)
  <2>1. x = <<op, x[2]>> /\ x[2] \in Coros
    BY <1>1, <1>3, <1>5, InstrOf
  <2>2. home[x[2]] = l
    BY <1>1, <1>3, <1>5 DEF Base, Calling
  <2>3. Has(x[2], op)
    BY <1>3, <2>1, <2>2 DEF Has
  <2>4. st[x[2]] \in Phase(op)
    BY <1>5, <2>1, <2>3 DEF Base, Calling
  <2> QED
    BY <2>1, <2>2, <2>3, <2>4 DEF Arg
<1>6. /\ prog[l] # <<>> /\ l \in Active /\ Head(prog[l]) \in Instr /\ Head(prog[l])[1] = op
      /\ Head(prog[l]) \in ToSet(prog[l]) /\ Heads(l) /\ Arg(l) = Head(prog[l])[2]
      /\ op # "scope" => Head(prog[l]) \notin ToSet(Tail(prog[l]))
  BY <1>1, <1>2, <1>3 DEF Arg
<1> QED
  BY <1>3, <1>4, <1>5, <1>6

\* What is called before a frame is destroyed.
Ordinary == {"sem_remove", "event_erase", "future_erase", "push", "release", "sem_release",
             "guard", "erase_lock", "erase_cond", "notify", "hand_off", "is_owned_by", "has_waiter",
             "sem_suspend", "future_suspend", "event_swap", "future_notify"}
Still == UNCHANGED <<home, st, epoch, waits, cancelled, abandoned, ready>>

\* An instruction is done: the rest of the call follows, or its second half.
LEMMA PopPlain ==
    ASSUME Base, holds \in [Coros -> Nat], NEW l \in Loops, NEW op \in Ordinary, At(l, op),
           Then(l, Rest(l)), Still, \A c \in Coros : Frozen(c)
    PROVE  Plain(l, {Head(prog[l])}, {})
<1> DEFINE x == Head(prog[l])
<1>1. /\ prog[l] # <<>> /\ l \in Active /\ x \in ToSet(prog[l]) /\ x[1] = op
      /\ \A y \in ToSet(prog[l]) : y[1] # "resume"
  BY HeadAt DEF Ordinary
<1>2. FrameTypes /\ \A k \in Loops : Shape(k)
  BY DEF Base, Calling
<1>3. Moves(l, {x}, {})
  <2>1. home' = home
    BY DEF Still
  <2>2. prog' = [prog EXCEPT ![l] = Tail(prog[l])]
    BY DEF Then, Rest
  <2>3. x[1] \notin {"sem_guard", "scope"}
    BY <1>1 DEF Ordinary
  <2> QED
    BY <1>1, <1>2, <2>1, <2>2, <2>3, PopMoves
<1>4. Flagged
  BY DEF Flagged, Still, Base, FrameTypes, Wakes
<1>5. op \notin {"event_suspend", "future_schedule", "schedule"}
  BY DEF Ordinary
<1> QED
  BY <1>1, <1>3, <1>4, <1>5 DEF Plain, Still

\* An instruction is done and another takes its place.
LEMMA NextPlain ==
    ASSUME Base, holds \in [Coros -> Nat], NEW l \in Loops, NEW op \in Ordinary, At(l, op),
           NEW y \in Instr, Then(l, <<y>> \o Rest(l)), Follows(Head(prog[l]), y), Proper(l, y),
           Still, \A c \in Coros : Frozen(c)
    PROVE  Plain(l, {Head(prog[l])}, {y})
<1> DEFINE x == Head(prog[l])
<1>1. /\ prog[l] # <<>> /\ l \in Active /\ x \in ToSet(prog[l]) /\ x[1] = op
      /\ \A z \in ToSet(prog[l]) : z[1] # "resume"
  BY HeadAt DEF Ordinary
<1>2. FrameTypes /\ \A k \in Loops : Shape(k)
  BY DEF Base, Calling
<1>3. Moves(l, {x}, {y})
  <2>1. home' = home
    BY DEF Still
  <2>2. prog' = [prog EXCEPT ![l] = <<y>> \o Tail(prog[l])]
    BY DEF Then, Rest
  <2> QED
    BY <1>1, <1>2, <2>1, <2>2, NextMoves
<1>4. Flagged
  BY DEF Flagged, Still, Base, FrameTypes, Wakes
<1>5. op \notin {"event_suspend", "future_schedule", "schedule"}
  BY DEF Ordinary
<1> QED
  BY <1>1, <1>3, <1>4, <1>5 DEF Plain, Still

\* A call of one instruction, and a call whose last instruction ends in y.
LEMMA CallPlain ==
    ASSUME Base, NEW l \in Loops, l \in Active, Idle(l), NEW y \in Instr, Then(l, <<y>>), Proper(l, y),
           y[1] \notin {"push", "erase_cond", "sem_guard", "scope"},
           Still, \A c \in Coros : Frozen(c)
    PROVE  Plain(l, {}, {y})
<1>1. FrameTypes /\ \A k \in Loops : Shape(k)
  BY DEF Base, Calling
<1>2. /\ <<y>> \in Seq(Instr) /\ ToSet(<<y>>) = {y} /\ ToSet(prog[l]) = {}
  <2>1. ToSet(prog[l]) = {}
    BY NoWaiters DEF Idle
  <2>2. y \in Instr
    OBVIOUS
  <2> QED
    BY <2>1, <2>2, Single
<1>3. Form(Gone(l)', holds', inside', <<y>>)
  BY SingleForm
<1>4. Moves(l, {}, {y})
  <2>1. home' = home /\ prog' = [prog EXCEPT ![l] = <<y>>]
    BY DEF Still, Then
  <2>2. Moves(l, ToSet(prog[l]), ToSet(<<y>>))
    BY <1>1, <1>2, <1>3, <2>1, SetMoves
  <2> QED
    BY <1>2, <2>2
<1>5. Flagged
  BY DEF Flagged, Still, Base, FrameTypes, Wakes
<1> QED
  BY <1>2, <1>4, <1>5 DEF Plain, Still

\* The last instruction is done and another takes its place.
LEMMA LastPlain ==
    ASSUME Base, holds \in [Coros -> Nat], NEW l \in Loops, NEW op \in Ordinary \cap Alone, At(l, op),
           NEW y \in Instr, Then(l, <<y>>), Proper(l, y),
           y[1] \notin {"push", "erase_cond", "sem_guard", "scope"},
           Still, \A c \in Coros : Frozen(c)
    PROVE  Plain(l, {Head(prog[l])}, {y})
<1> DEFINE x == Head(prog[l])
<1>1. /\ prog[l] # <<>> /\ l \in Active /\ x \in ToSet(prog[l]) /\ x[1] = op /\ x \in Instr
      /\ ToSet(prog[l]) = ToSet(Tail(prog[l])) \cup {x}
      /\ Fits(Gone(l), holds, inside, x, Tail(prog[l]))
      /\ \A z \in ToSet(prog[l]) : z[1] # "resume"
  BY HeadAt DEF Ordinary
<1>2. FrameTypes /\ (\A k \in Loops : Shape(k)) /\ Gone(l) \in SUBSET Coros
  BY DEF Base, Calling, Gone
<1>3. Tail(prog[l]) = <<>>
  BY <1>1, <1>2, AloneForm
<1>4. ToSet(prog[l]) = {x}
  BY <1>1, <1>3, NoWaiters
<1>5. <<y>> \in Seq(Instr) /\ ToSet(<<y>>) = {y}
  BY Single
<1>6. Form(Gone(l)', holds', inside', <<y>>)
  BY SingleForm
<1>7. Moves(l, {x}, {y})
  <2>1. home' = home /\ prog' = [prog EXCEPT ![l] = <<y>>]
    BY DEF Still, Then
  <2>2. Moves(l, ToSet(prog[l]), ToSet(<<y>>))
    BY <1>2, <1>5, <1>6, <2>1, SetMoves
  <2> QED
    BY <1>4, <1>5, <2>2
<1>8. Flagged
  BY DEF Flagged, Still, Base, FrameTypes, Wakes
<1>9. op \notin {"event_suspend", "future_schedule", "schedule"}
  BY DEF Ordinary
<1> QED
  BY <1>1, <1>7, <1>8, <1>9 DEF Plain, Still

-----------------------------------------------------------------------------
(* Waiters enter and leave a list.                                         *)

\* The members of a wait list.
LEMMA ListMembers ==
    ASSUME NEW s, List(s)
    PROVE  /\ s \in Seq(Current) /\ Distinct(s)
           /\ \A v, w \in ToSet(s) : v[1] = w[1] => v = w
           /\ \A w \in ToSet(s) : /\ w \in Current /\ w[1] \in Coros /\ w[2] \in Nat \ {0}
                                  /\ w = <<w[1], w[2]>> /\ w[2] <= waits[w[1]]
<1>1. s \in Seq(Current)
  BY DEF List
<1>2. ToSet(s) \subseteq Current
  BY <1>1, ToSetProperties
<1> QED
  BY <1>2 DEF List, Current

\* A wait list without its head.
LEMMA ListTail ==
    ASSUME NEW s, List(s), s # <<>>
    PROVE  /\ List(Tail(s)) /\ Head(s) \in ToSet(s) /\ Head(s) \in Current
           /\ \A w : w \in ToSet(Tail(s)) <=> w \in ToSet(s) /\ w # Head(s)
           /\ \A c : Named(Tail(s), c) <=> Named(s, c) /\ c # Head(s)[1]
           /\ Named(s, Head(s)[1])
<1>1. s \in Seq(Current) /\ Distinct(s)
  BY DEF List
<1>2. /\ Head(s) \in Current /\ Tail(s) \in Seq(Current)
      /\ ToSet(s) = ToSet(Tail(s)) \cup {Head(s)}
      /\ Distinct(Tail(s)) /\ Head(s) \notin ToSet(Tail(s))
  BY <1>1, TailProperties
<1> DEFINE t == Tail(s)
           h == Head(s)
<1> HIDE DEF t, h
<1>3. /\ t \in Seq(Current) /\ ToSet(s) = ToSet(t) \cup {h} /\ Distinct(t) /\ h \notin ToSet(t)
      /\ h \in Current
  BY <1>2 DEF t, h
<1>4. List(t)
  BY <1>3 DEF List
<1>5. \A c : Named(t, c) <=> Named(s, c) /\ c # h[1]
  <2>1. \A v, w \in ToSet(s) : v[1] = w[1] => v = w
    BY DEF List
  <2> QED
    BY <1>3, <2>1 DEF Named
<1>6. Named(s, h[1])
  BY <1>3 DEF Named
<1> QED
  BY <1>3, <1>4, <1>5, <1>6 DEF t, h

\* A wait list that one more coroutine joins.
LEMMA ListAppend ==
    ASSUME NEW s, List(s), NEW w \in Current, ~Named(s, w[1]), w[2] <= waits[w[1]]
    PROVE  /\ List(Append(s, w))
           /\ \A v : v \in ToSet(Append(s, w)) <=> v \in ToSet(s) \/ v = w
           /\ \A c : Named(Append(s, w), c) <=> Named(s, c) \/ c = w[1]
<1>1. s \in Seq(Current) /\ Distinct(s) /\ w \notin ToSet(s)
  BY DEF List, Named
<1>2. /\ Append(s, w) \in Seq(Current) /\ ToSet(Append(s, w)) = ToSet(s) \cup {w}
      /\ Distinct(Append(s, w))
  BY <1>1, AppendToSet
<1> DEFINE t == Append(s, w)
<1> HIDE DEF t
<1>3. t \in Seq(Current) /\ ToSet(t) = ToSet(s) \cup {w} /\ Distinct(t)
  BY <1>2 DEF t
<1>4. List(t)
  BY <1>3 DEF List, Named
<1>5. \A c : Named(t, c) <=> Named(s, c) \/ c = w[1]
  BY <1>3 DEF Named
<1> QED
  BY <1>3, <1>4, <1>5 DEF t

\* A wait list from which a coroutine is erased.
LEMMA ListErase ==
    ASSUME NEW s, List(s), NEW c
    PROVE  /\ List(erase_waiter(s, c))
           /\ \A v : v \in ToSet(erase_waiter(s, c)) <=> v \in ToSet(s) /\ v[1] # c
           /\ \A d : Named(erase_waiter(s, c), d) <=> Named(s, d) /\ d # c
<1> DEFINE S == {w \in ToSet(s) : w[1] # c}
           t == erase_waiter(s, c)
<1>1. s \in Seq(Current) /\ Distinct(s)
  BY DEF List
<1>2. t \in Seq(Current) /\ ToSet(t) = ToSet(s) \cap S /\ Distinct(t)
  BY <1>1, FilteredProperties DEF erase_waiter
<1> HIDE DEF t
<1>3. List(t)
  BY <1>2 DEF List
<1>4. \A v : v \in ToSet(t) <=> v \in ToSet(s) /\ v[1] # c
  BY <1>2
<1> HIDE DEF S
<1>5. \A d : Named(t, d) <=> Named(s, d) /\ d # c
  BY <1>4 DEF Named
<1> QED
  BY <1>3, <1>4, <1>5 DEF t

\* The empty wait list.
LEMMA ListNone ==
    List(<<>>) /\ ToSet(<<>>) = {} /\ \A c : ~Named(<<>>, c)
<1>1. <<>> \in Seq(Current) /\ Distinct(<<>>) /\ ToSet(<<>>) = {}
  BY NoWaiters
<1> QED
  BY <1>1 DEF List, Named

-----------------------------------------------------------------------------
(* The lock, as one coroutine sees it.                                     *)

Local(c) ==
    /\ Named(waiters, c) => Enrolled(c)
    /\ Named(cwaiters, c) => st[c] = "cond" \/ Has(c, "erase_cond")
    /\ ~(Named(waiters, c) /\ Named(cwaiters, c))
    /\ HandedOn(c) => st[c] = "cond" /\ ~Named(waiters, c) /\ ~Named(cwaiters, c)
    /\ Pushing(c) => /\ st[c] = "cond" /\ Releasing(home[c]) /\ owner = c
                     /\ ~Named(waiters, c) /\ ~Named(cwaiters, c) /\ ~HandedOn(c)
    /\ (Has(c, "is_owned_by") /\ ~Has(c, "erase_cond")) \/ Has(c, "has_waiter") => ~Named(cwaiters, c)
    /\ Has(c, "has_waiter") => owner # c
    /\ st[c] \in {"lock", "cond"} =>
           /\ Listed(c) /\ Roused(c) => st[c] = "lock" /\ c \in cancelled
           /\ Listed(c) /\ owner = c => Releasing(home[c])
           /\ ~Listed(c) => owner = c /\ Roused(c) /\ ~Releasing(home[c])

\* The number in a queue is that of the wait in progress.
Recent(s, S) == \A w \in ToSet(s) : st[w[1]] \in S => w = Now(w[1])
HandedOnce ==
    \A c \in Coros, l, k \in Loops :
        <<"hand_off", Now(c)>> \in ToSet(prog[l]) \cap ToSet(prog[k]) => l = k
Pushed ==
    \A l \in Loops : \A x \in ToSet(prog[l]) : x[1] = "push" => home[x[2][1]] = l /\ x[2] = Now(x[2][1])

\* The lock's invariant, one coroutine at a time.
LEMMA LocalOf ==
    ASSUME Base, LockInv
    PROVE  /\ \A c \in Coros : Local(c)
           /\ List(waiters) /\ List(cwaiters) /\ Recent(waiters, {"lock", "cond"}) /\ Recent(cwaiters, {"cond"})
           /\ HandedOnce /\ Pushed
<1>0. LockLists /\ LockWaits
  BY DEF LockInv
<1>l. List(waiters) /\ List(cwaiters)
  BY <1>0 DEF LockLists
<1>m. /\ \A w \in ToSet(waiters) : w[1] \in Coros
      /\ \A w \in ToSet(cwaiters) : w[1] \in Coros
  BY <1>l, ListMembers
<1>p. \A c \in Coros : /\ Has(c, "erase_lock") => st[c] \in {"run", "gone"}
                       /\ Has(c, "erase_cond") => st[c] \in {"cond", "gone"}
  BY DEF Base, Calling, OnCoro, Phase
<1>1. ASSUME NEW c \in Coros PROVE Local(c)
  <2>1. Named(waiters, c) => Enrolled(c)
    BY <1>0 DEF LockLists, Named, Enrolled
  <2>2. Named(cwaiters, c) => st[c] = "cond" \/ Has(c, "erase_cond")
    BY <1>0 DEF LockLists, Named
  <2>3. /\ ~(Named(waiters, c) /\ Named(cwaiters, c))
        /\ HandedOn(c) => st[c] = "cond" /\ ~Named(waiters, c) /\ ~Named(cwaiters, c)
        /\ (Has(c, "is_owned_by") /\ ~Has(c, "erase_cond")) \/ Has(c, "has_waiter") => ~Named(cwaiters, c)
        /\ Has(c, "has_waiter") => owner # c
    BY <1>0 DEF LockLists
  <2>4. ASSUME Pushing(c)
        PROVE  /\ st[c] = "cond" /\ Releasing(home[c]) /\ owner = c
               /\ ~Named(waiters, c) /\ ~Named(cwaiters, c) /\ ~HandedOn(c)
    <3> DEFINE x == <<"push", Now(c)>>
    <3>1. x \in ToSet(prog[home[c]]) /\ home[c] \in Loops
      BY <2>4 DEF Pushing, Base, FrameTypes
    <3>2. x[1] = "push" /\ x[2][1] = c
      BY DEF Now
    <3> HIDE DEF x
    <3> QED
      BY <1>0, <3>1, <3>2 DEF LockLists
  <2>5. st[c] \in {"lock", "cond"} =>
           /\ Listed(c) /\ Roused(c) => st[c] = "lock" /\ c \in cancelled
           /\ Listed(c) /\ owner = c => Releasing(home[c])
           /\ ~Listed(c) => owner = c /\ Roused(c) /\ ~Releasing(home[c])
    BY <1>0 DEF LockWaits
  <2> QED
    BY <2>1, <2>2, <2>3, <2>4, <2>5 DEF Local
<1>2. Recent(waiters, {"lock", "cond"})
  BY <1>0, <1>m, <1>p DEF LockLists, Recent
<1>3. Recent(cwaiters, {"cond"})
  BY <1>0 DEF LockLists, Recent
<1>4. HandedOnce
  BY <1>0 DEF LockLists, HandedOnce
<1>5. Pushed
  BY <1>0 DEF LockLists, Pushed
<1> QED
  BY <1>l, <1>1, <1>2, <1>3, <1>4, <1>5

\* ... and after a step on l that changes no frame.
View(l, old, new, c) ==
    /\ st'[c] = st[c] /\ Now(c)' = Now(c) /\ home'[c] = home[c] /\ home[c] \in Loops
    /\ \A op \in {"guard", "erase_lock", "erase_cond", "is_owned_by", "has_waiter"} :
           Has(c, op)' <=> (Has(c, op) /\ <<op, c>> \notin old) \/ <<op, c>> \in new
    /\ Releasing(home[c])' <=> \/ Releasing(home[c]) /\ ~(home[c] = l /\ <<"release">> \in old)
                               \/ home[c] = l /\ <<"release">> \in new
    /\ HandedOn(c)' <=> \/ HandedOn(c) /\ <<"hand_off", Now(c)>> \notin old
                        \/ <<"hand_off", Now(c)>> \in new
    /\ Pushing(c)' <=> Pushing(c) /\ <<"push", Now(c)>> \notin old
    /\ Roused(c)' <=> Roused(c) \/ <<"schedule", Now(c)>> \in new
    /\ c \in cancelled => c \in cancelled'

\* What a coroutine sees of an instruction.
LEMMA PlainView ==
    ASSUME Base, LockInv, NEW l \in Loops, NEW old, NEW new, Plain(l, old, new),
           \A y \in new : y[1] # "push"
    PROVE  \A c \in Coros : View(l, old, new, c)
<1> TAKE c \in Coros
<1>0. HandedOnce /\ Pushed /\ FrameTypes
  BY LocalOf DEF Base
<1>1. /\ st'[c] = st[c] /\ home' = home /\ home[c] \in Loops
      /\ c \in cancelled => c \in cancelled'
  BY <1>0 DEF Plain, Moves, Flagged, FrameTypes
<1>2. Now(c)' = Now(c) /\ (Roused(c)' <=> Roused(c) \/ <<"schedule", Now(c)>> \in new)
  BY PlainRoused
<1>3. \A op \in {"guard", "erase_lock", "erase_cond", "is_owned_by", "has_waiter"} :
                      Has(c, op)' <=> (Has(c, op) /\ <<op, c>> \notin old) \/ <<op, c>> \in new
  <2>1. {"guard", "erase_lock", "erase_cond", "is_owned_by", "has_waiter"} \subseteq OnCoro
    BY DEF OnCoro
  <2> QED
    BY <2>1, PlainHas
<1>4. /\ \A k \in Loops : k # l => prog'[k] = prog[k]
      /\ \A y : y[1] # "scope" =>
             (y \in ToSet(prog'[l]) <=> (y \in ToSet(prog[l]) /\ y \notin old) \/ y \in new)
      /\ old \subseteq ToSet(prog[l])
  BY DEF Plain, Moves
<1>5. Releasing(home[c])' <=> \/ Releasing(home[c]) /\ ~(home[c] = l /\ <<"release">> \in old)
                              \/ home[c] = l /\ <<"release">> \in new
  <2>1. <<"release">>[1] # "scope"
    OBVIOUS
  <2> QED
    BY <1>1, <1>4, <2>1 DEF Releasing
<1> DEFINE n == Now(c)
           h == <<"hand_off", n>>
           p == <<"push", n>>
<1>6. h[1] = "hand_off" /\ p[1] = "push" /\ p[2] = n /\ n[1] = c
  BY DEF Now
<1>7. /\ HandedOn(c) <=> \E k \in Loops : h \in ToSet(prog[k])
      /\ HandedOn(c)' <=> \E k \in Loops : h \in ToSet(prog'[k])
      /\ \A j, k \in Loops : h \in ToSet(prog[j]) \cap ToSet(prog[k]) => j = k
  BY <1>0, <1>2 DEF HandedOn, HandedOnce
<1>8. /\ Pushing(c) <=> p \in ToSet(prog[home[c]])
      /\ Pushing(c)' <=> p \in ToSet(prog'[home[c]])
      /\ p \in ToSet(prog[l]) => home[c] = l
  BY <1>0, <1>1, <1>2, <1>6 DEF Pushing, Pushed
<1> HIDE DEF n, h, p
<1>9. HandedOn(c)' <=> (HandedOn(c) /\ h \notin old) \/ h \in new
  <2>1. ASSUME HandedOn(c)' PROVE (HandedOn(c) /\ h \notin old) \/ h \in new
    BY <1>4, <1>6, <1>7, <2>1
  <2>2. ASSUME (HandedOn(c) /\ h \notin old) \/ h \in new PROVE HandedOn(c)'
    BY <1>4, <1>6, <1>7, <2>2
  <2> QED
    BY <2>1, <2>2
<1>10. Pushing(c)' <=> Pushing(c) /\ p \notin old
  BY <1>1, <1>4, <1>6, <1>8
<1> QED
  BY <1>1, <1>2, <1>3, <1>5, <1>9, <1>10 DEF n, h, p, View

\* Whoever a step puts in a queue is suspended.
Joined(s, t, S) == \A w \in ToSet(t) : w \in ToSet(s) \/ (st[w[1]] \in S /\ w = Now(w[1]))

\* The lock's invariant after an instruction, from what holds of each coroutine.
LEMMA PlainLocal ==
    ASSUME Base, LockInv, NEW l \in Loops, NEW old, NEW new, Plain(l, old, new),
           \A y \in new : y[1] # "push",
           \A c \in Coros : <<"hand_off", Now(c)>> \in new => ~HandedOn(c),
           List(waiters'), List(cwaiters'),
           Joined(waiters, waiters', {"lock", "cond"}), Joined(cwaiters, cwaiters', {"cond"}),
           Owning', \A c \in Coros : Local(c)'
    PROVE  LockInv'
<1>0. /\ Recent(waiters, {"lock", "cond"}) /\ Recent(cwaiters, {"cond"})
      /\ HandedOnce /\ Pushed /\ FrameTypes
  BY LocalOf DEF Base
<1>1. \A c \in Coros :
         st'[c] = st[c] /\ Now(c)' = Now(c) /\ home'[c] = home[c] /\ home[c] \in Loops
  BY <1>0, PlainRoused DEF Plain, Moves, FrameTypes
<1>2. /\ \A k \in Loops : k # l => prog'[k] = prog[k]
      /\ \A y : y[1] # "scope" =>
             (y \in ToSet(prog'[l]) <=> (y \in ToSet(prog[l]) /\ y \notin old) \/ y \in new)
      /\ old \subseteq ToSet(prog[l]) /\ prog' \in [Loops -> Seq(Instr)] /\ waits' = waits
  BY DEF Plain, Moves
<1>3. List(waiters)' /\ List(cwaiters)'
  BY <1>2 DEF List
<1>4. /\ \A w \in ToSet(waiters') : w[1] \in Coros
      /\ \A w \in ToSet(cwaiters') : w[1] \in Coros
  BY ListMembers
<1>5. \A w \in ToSet(waiters') :
           (st'[w[1]] \in {"lock", "cond"} /\ w = Now(w[1])') \/ Has(w[1], "erase_lock")'
  <2> SUFFICES ASSUME NEW w \in ToSet(waiters')
               PROVE  (st'[w[1]] \in {"lock", "cond"} /\ w = Now(w[1])') \/ Has(w[1], "erase_lock")'
    OBVIOUS
  <2>1. w[1] \in Coros /\ Enrolled(w[1])'
    BY <1>4 DEF Local, Named
  <2>2. st[w[1]] \in {"lock", "cond"} => w = Now(w[1])
    BY <1>0 DEF Joined, Recent
  <2> QED
    BY <1>1, <2>1, <2>2 DEF Enrolled
<1>6. \A w \in ToSet(cwaiters') :
           IF st'[w[1]] = "cond" THEN w = Now(w[1])' ELSE Has(w[1], "erase_cond")'
  <2> SUFFICES ASSUME NEW w \in ToSet(cwaiters')
               PROVE  IF st'[w[1]] = "cond" THEN w = Now(w[1])' ELSE Has(w[1], "erase_cond")'
    OBVIOUS
  <2>1. w[1] \in Coros /\ (st'[w[1]] = "cond" \/ Has(w[1], "erase_cond")')
    BY <1>4 DEF Local, Named
  <2>2. st[w[1]] = "cond" => w = Now(w[1])
    BY <1>0 DEF Joined, Recent
  <2> QED
    BY <1>1, <2>1, <2>2
<1>7. \A c \in Coros, j, k \in Loops :
           <<"hand_off", Now(c)>>' \in ToSet(prog'[j]) \cap ToSet(prog'[k]) => j = k
  <2> SUFFICES ASSUME NEW c \in Coros, NEW j \in Loops, NEW k \in Loops,
                      <<"hand_off", Now(c)>>' \in ToSet(prog'[j]) \cap ToSet(prog'[k])
               PROVE  j = k
    OBVIOUS
  <2> DEFINE h == <<"hand_off", Now(c)>>
  <2>1. h \in ToSet(prog'[j]) /\ h \in ToSet(prog'[k]) /\ h[1] # "scope"
    BY <1>1
  <2>2. HandedOn(c) <=> \E i \in Loops : h \in ToSet(prog[i])
    BY DEF HandedOn
  <2>3. h \in new => ~HandedOn(c)
    OBVIOUS
  <2>4. \A i, m \in Loops : h \in ToSet(prog[i]) \cap ToSet(prog[m]) => i = m
    BY <1>0 DEF HandedOnce
  <2> HIDE DEF h
  <2> QED
    BY <1>2, <2>1, <2>2, <2>3, <2>4
<1>8. ASSUME NEW k \in Loops, NEW x \in ToSet(prog'[k]), x[1] = "push"
      PROVE  /\ home'[x[2][1]] = k /\ x[2] = Now(x[2][1])' /\ st'[x[2][1]] = "cond" /\ Releasing(k)'
             /\ owner' = x[2][1] /\ ~Named(waiters, x[2][1])' /\ ~Named(cwaiters, x[2][1])'
             /\ ~HandedOn(x[2][1])'
  <2> DEFINE c == x[2][1]
  <2>1. x \in ToSet(prog[k])
    BY <1>2, <1>8
  <2>2. home[c] = k /\ x[2] = Now(c)
    BY <1>0, <1>8, <2>1 DEF Pushed
  <2>3. x = <<"push", x[2]>> /\ c \in Coros
    <3>1. prog'[k] \in Seq(Instr)
      BY <1>2
    <3>2. x \in Instr
      BY <3>1, ToSetProperties
    <3> QED
      BY <1>8, <3>2, InstrOf DEF OnWaiter
  <2> HIDE DEF c
  <2>4. home'[c] = k /\ x[2] = Now(c)' /\ st'[c] = st[c]
    BY <1>1, <2>2, <2>3
  <2>5. Pushing(c)'
    BY <2>3, <2>4 DEF Pushing
  <2>6. /\ st'[c] = "cond" /\ Releasing(home[c])' /\ owner' = c
        /\ ~Named(waiters, c)' /\ ~Named(cwaiters, c)' /\ ~HandedOn(c)'
    BY <2>3, <2>5 DEF Local
  <2>7. Releasing(k)'
    BY <2>4, <2>6 DEF Releasing
  <2> QED
    BY <2>4, <2>6, <2>7 DEF c
<1>9. LockLists'
  <2>1. \A c \in Coros :
        /\ ~(Named(waiters, c)' /\ Named(cwaiters, c)')
        /\ HandedOn(c)' => st'[c] = "cond" /\ ~Named(waiters, c)' /\ ~Named(cwaiters, c)'
        /\ (Has(c, "is_owned_by")' /\ ~Has(c, "erase_cond")') \/ Has(c, "has_waiter")' => ~Named(cwaiters, c)'
        /\ Has(c, "has_waiter")' => owner' # c
    BY DEF Local
  <2> QED
    BY <1>3, <1>5, <1>6, <1>7, <1>8, <2>1 DEF LockLists
<1>10. LockWaits'
  BY DEF Local, LockWaits
<1> QED
  BY <1>9, <1>10 DEF LockInv

-----------------------------------------------------------------------------
(* Steps of one primitive leave the others as they are.                    *)

Others(old, new, ops, S) ==
    /\ \A y \in old \cup new : y[1] \notin ops /\ y[1] # "scope"
    /\ \A c \in Coros : <<"schedule", Now(c)>> \in new => st[c] \in S

\* An instruction of the lock: the whole invariant from the part of the lock.
LEMMA LockOnly ==
    ASSUME IInv, Unraced', NEW l \in Loops, NEW old, NEW new, Plain(l, old, new), OnLock, LockInv',
           Others(old, new, SemOps \cup EventOps \cup FutureOps, {"lock", "cond"})
    PROVE  IInv'
<1>1. Base /\ SemInv /\ EventInv /\ FutureInv
  BY DEF IInv, Base
<1>2. UNCHANGED semVars /\ UNCHANGED eventVars /\ UNCHANGED futVars
  BY DEF OnLock
<1>3. /\ Spares(old, new, SemOps, {"acquire"}) /\ Spares(old, new, EventOps, {"wait"})
      /\ Spares(old, new, FutureOps, {"await"})
  BY DEF Others, Spares, SemOps, EventOps, FutureOps
<1>4. Base' /\ SemInv' /\ EventInv' /\ FutureInv'
  BY <1>1, <1>2, <1>3, PlainOthers
<1> QED
  BY <1>4 DEF IInv, Base

\* An instruction of the semaphore: the whole invariant from its part.
LEMMA SemOnly ==
    ASSUME IInv, Unraced', NEW l \in Loops, NEW old, NEW new, Plain(l, old, new), OnSemaphore, SemInv',
           Others(old, new, LockOps \cup EventOps \cup FutureOps, {"acquire"})
    PROVE  IInv'
<1>1. Base /\ LockInv /\ EventInv /\ FutureInv
  BY DEF IInv, Base
<1>2. UNCHANGED lockVars /\ UNCHANGED eventVars /\ UNCHANGED futVars
  BY DEF OnSemaphore
<1>3. /\ Spares(old, new, LockOps, {"lock", "cond"}) /\ Spares(old, new, EventOps, {"wait"})
      /\ Spares(old, new, FutureOps, {"await"})
  BY DEF Others, Spares, LockOps, EventOps, FutureOps
<1>4. Base' /\ LockInv' /\ EventInv' /\ FutureInv'
  BY <1>1, <1>2, <1>3, PlainOthers
<1> QED
  BY <1>4 DEF IInv, Base

\* An instruction of the event: the whole invariant from its part.
LEMMA EventOnly ==
    ASSUME IInv, Unraced', NEW l \in Loops, NEW old, NEW new, Plain(l, old, new), OnEvent, EventInv',
           Others(old, new, LockOps \cup SemOps \cup FutureOps, {"wait"})
    PROVE  IInv'
<1>1. Base /\ LockInv /\ SemInv /\ FutureInv
  BY DEF IInv, Base
<1>2. UNCHANGED lockVars /\ UNCHANGED semVars /\ UNCHANGED futVars
  BY DEF OnEvent
<1>3. /\ Spares(old, new, LockOps, {"lock", "cond"}) /\ Spares(old, new, SemOps, {"acquire"})
      /\ Spares(old, new, FutureOps, {"await"})
  BY DEF Others, Spares, LockOps, SemOps, FutureOps
<1>4. Base' /\ LockInv' /\ SemInv' /\ FutureInv'
  BY <1>1, <1>2, <1>3, PlainOthers
<1> QED
  BY <1>4 DEF IInv, Base

\* An instruction of a future: the whole invariant from its part.
LEMMA FutureOnly ==
    ASSUME IInv, Unraced', NEW l \in Loops, NEW old, NEW new, Plain(l, old, new), OnFuture, FutureInv',
           Others(old, new, LockOps \cup SemOps \cup EventOps, {"await"})
    PROVE  IInv'
<1>1. Base /\ LockInv /\ SemInv /\ EventInv
  BY DEF IInv, Base
<1>2. UNCHANGED lockVars /\ UNCHANGED semVars /\ UNCHANGED eventVars
  BY DEF OnFuture
<1>3. /\ Spares(old, new, LockOps, {"lock", "cond"}) /\ Spares(old, new, SemOps, {"acquire"})
      /\ Spares(old, new, EventOps, {"wait"})
  BY DEF Others, Spares, LockOps, SemOps, EventOps
<1>4. Base' /\ LockInv' /\ SemInv' /\ EventInv'
  BY <1>1, <1>2, <1>3, PlainOthers
<1> QED
  BY <1>4 DEF IInv, Base

-----------------------------------------------------------------------------
(* The queue of the condition, and requests for the lock.                  *)

\* What can follow what.
LEMMA LaterFacts ==
    ASSUME NEW G, NEW x, NEW y, Later(G, x, y)
    PROVE  /\ y[1] = "release" => x[1] = "push"
           /\ y[1] = "is_owned_by" => x[1] = "erase_cond"
           /\ y[1] = "erase_lock" => x[1] = "erase_cond"
           /\ y[1] = "guard" => y[2] \in G /\ x[1] \in {"erase_cond", "erase_lock", "release", "schedule"}
           /\ y[1] = "schedule" => x[1] = "schedule"
           /\ y[1] = "notify" => x[1] \in {"hand_off", "schedule"}
           /\ y[1] = "sem_guard" => x[1] \notin {"sem_guard", "scope"}
<1>1. CASE y = <<"release">> /\ x[1] = "push"
  BY ONLY <1>1
<1>2. CASE y = <<"notify", TRUE>> /\ x[1] \in {"hand_off", "schedule"}
  <2>1. <<"notify", TRUE>>[1] = "notify"
    OBVIOUS
  <2> QED
    BY ONLY <1>2, <2>1
<1>3. CASE y[1] = "is_owned_by" /\ x = <<"erase_cond", y[2]>>
  BY ONLY <1>3
<1>4. CASE y[1] = "schedule" /\ x[1] = "schedule" /\ x # y
  BY ONLY <1>4
<1>5. ASSUME NEW c \in G, y = <<"erase_lock", c>> /\ x = <<"erase_cond", c>>
      PROVE  y[1] = "erase_lock" /\ x[1] = "erase_cond"
  BY ONLY <1>5
<1>6. ASSUME NEW c \in G, y = <<"guard", c>>,
             \/ x \in {<<"erase_cond", c>>, <<"erase_lock", c>>, <<"release">>}
             \/ x[1] = "schedule"
      PROVE  y[1] = "guard" /\ y[2] \in G /\ x[1] \in {"erase_cond", "erase_lock", "release", "schedule"}
  BY ONLY <1>6
<1>7. ASSUME NEW c \in G, y = <<"sem_guard", c>>
      PROVE  y[1] = "sem_guard"
  BY ONLY <1>7
<1>8. ASSUME NEW c \in G, y = <<"scope", c>>
      PROVE  y[1] = "scope"
  BY ONLY <1>8
<1>9. \/ y = <<"release">> /\ x[1] = "push"
      \/ y = <<"notify", TRUE>> /\ x[1] \in {"hand_off", "schedule"}
      \/ y[1] = "is_owned_by" /\ x = <<"erase_cond", y[2]>>
      \/ y[1] = "schedule" /\ x[1] = "schedule" /\ x # y
      \/ y[1] = "erase_lock" /\ x[1] = "erase_cond"
      \/ y[1] = "guard" /\ y[2] \in G /\ x[1] \in {"erase_cond", "erase_lock", "release", "schedule"}
      \/ y[1] = "sem_guard" /\ x[1] \notin {"sem_guard", "scope"}
      \/ y[1] = "scope"
  BY <1>5, <1>6, <1>7, <1>8 DEF Later
<1> QED
  BY ONLY <1>1, <1>2, <1>3, <1>4, <1>9

\* The instructions of the call on l, when the next one is called op.
LEMMA AtFacts ==
    ASSUME Base, holds \in [Coros -> Nat], NEW l \in Loops, NEW op, At(l, op)
    PROVE  \A y \in ToSet(prog[l]) :
               /\ y[1] = op => y = Head(prog[l]) \/ op \in {"schedule", "scope"}
               /\ y[1] \in {op, "release", "notify", "is_owned_by", "schedule", "erase_lock", "guard",
                            "sem_guard", "scope"}
               /\ y[1] = "release" => op \in {"release", "push"}
               /\ y[1] = "is_owned_by" => op \in {"is_owned_by", "erase_cond"}
               /\ y[1] = "erase_lock" => op \in {"erase_lock", "erase_cond"}
               /\ y[1] = "guard" => \/ op = "guard"
                                    \/ y[2] \in Gone(l) /\ op \in {"erase_cond", "erase_lock", "release", "schedule"}
               /\ y[1] = "schedule" => op = "schedule"
               /\ y[1] = "notify" => op \in {"notify", "hand_off", "schedule"}
<1> DEFINE x == Head(prog[l])
<1>1. x[1] = op /\ Heads(l)
  BY HeadAt
<1> HIDE DEF x
<1> TAKE y \in ToSet(prog[l])
<1>2. y = x \/ Later(Gone(l), x, y)
  BY <1>1 DEF Heads, x
<1>3. CASE y = x
  BY <1>1, <1>3 DEF x
<1>4. CASE Later(Gone(l), x, y)
  <2>1. /\ y[1] = "release" => x[1] = "push"
        /\ y[1] = "is_owned_by" => x[1] = "erase_cond"
        /\ y[1] = "erase_lock" => x[1] = "erase_cond"
        /\ y[1] = "guard" => y[2] \in Gone(l) /\ x[1] \in {"erase_cond", "erase_lock", "release", "schedule"}
        /\ y[1] = "schedule" => x[1] = "schedule"
        /\ y[1] = "notify" => x[1] \in {"hand_off", "schedule"}
        /\ y[1] = "sem_guard" => x[1] \notin {"sem_guard", "scope"}
    BY <1>4, LaterFacts
  <2>2. y[1] \in {"release", "notify", "is_owned_by", "schedule", "erase_lock", "guard",
                     "sem_guard", "scope"}
    BY <1>4, LaterNames
  <2> QED
    BY <1>1, <2>1, <2>2
<1> QED
  BY <1>2, <1>3, <1>4

\* A step that has nothing to do with who owns the lock.
LEMMA OwningKept ==
    ASSUME Base, LockInv, NEW l \in Loops, NEW old, NEW new, Plain(l, old, new),
           UNCHANGED <<holds, locked, owner, recursion>>,
           \A y \in old \cup new : y[1] \notin {"release", "guard", "erase_lock"},
           \A y \in new : y[1] # "push"
    PROVE  Owning'
<1>0. Owning /\ FrameTypes
  BY DEF LockInv, Base
<1>1. ASSUME NEW c \in Coros
      PROVE  /\ st'[c] = st[c] /\ home'[c] = home[c] /\ home[c] \in Loops
             /\ Has(c, "guard")' <=> Has(c, "guard")
             /\ Has(c, "erase_lock")' <=> Has(c, "erase_lock")
             /\ Releasing(home[c])' <=> Releasing(home[c])
  <2>1. View(l, old, new, c)
    BY PlainView
  <2>2. /\ <<"guard", c>> \notin old \cup new /\ <<"erase_lock", c>> \notin old \cup new
        /\ <<"release">> \notin old \cup new
    <3>1. <<"guard", c>>[1] = "guard" /\ <<"erase_lock", c>>[1] = "erase_lock" /\ <<"release">>[1] = "release"
      OBVIOUS
    <3> QED
      BY <3>1
  <2> QED
    BY <2>1, <2>2 DEF View
<1>2. \A c \in Coros : (Enrolled(c)' <=> Enrolled(c)) /\ (Leaving(c)' <=> Leaving(c))
  BY <1>1 DEF Enrolled, Leaving
<1>3. \A k \in Loops : Releasing(k)' <=> Releasing(k)
  <2>1. Moves(l, old, new)
    BY DEF Plain
  <2>2. Retains({"release"})
    BY <2>1, MovesRetains
  <2>3. <<"release">>[1] \in {"release"}
    OBVIOUS
  <2> QED
    BY <2>2, <2>3 DEF Retains, Releasing
<1>4. \A k \in Loops : Releasing(k)' => owner' \in Coros /\ home'[owner'] = k
  BY <1>0, <1>1, <1>3 DEF Owning
<1>5. \A c \in Coros : owner' = c => Counts(c)'
  BY <1>0, <1>2 DEF Owning, Counts
<1>6. /\ \A c \in Coros : holds'[c] > 0 => owner' = c /\ ~Enrolled(c)'
      /\ \A c \in Coros : Has(c, "guard")' => IF st'[c] = "run" THEN owner' = c ELSE holds'[c] = 0
  BY <1>0, <1>1, <1>2 DEF Owning
<1> QED
  BY <1>0, <1>4, <1>5, <1>6 DEF Owning

\* Condition::wait, queued.
LEMMA PushStep ==
    ASSUME IInv, Unraced', NEW l \in Loops, At(l, "push"), cwaiters' = Append(cwaiters, Arg(l)), Then(l, Rest(l)),
           UNCHANGED <<frames, ready, holds, lock, waiters>>, OnLock
    PROVE  IInv'
<1> DEFINE x == Head(prog[l])
           w == x[2]
           c == w[1]
<1>0. Base /\ LockInv /\ holds \in [Coros -> Nat] /\ FrameTypes
  BY DEF IInv, Base, LockInv, Owning
<1>1. x \in Instr /\ x[1] = "push" /\ x \in ToSet(prog[l]) /\ Arg(l) = w
  BY <1>0, HeadAt
<1>2. x = <<"push", w>> /\ w = <<c, w[2]>> /\ c \in Coros /\ w[2] \in Nat \ {0} /\ w \in Current
  BY <1>1, InstrOf DEF OnWaiter
<1>3. /\ List(waiters) /\ List(cwaiters) /\ \A d \in Coros : Local(d)
      /\ home[c] = l /\ w = Now(c)
  <2>1. Pushed
    BY <1>0, LocalOf
  <2> QED
    BY <1>0, <1>1, <2>1, LocalOf DEF Pushed
<1>4. Still /\ UNCHANGED <<holds, locked, owner, recursion, waiters>> /\ \A d \in Coros : Frozen(d)
  BY DEF frames, lock, Still, Frozen, OnLock, semVars
<1>5. Plain(l, {x}, {})
  BY <1>0, <1>4, PopPlain DEF Ordinary
<1>6. Pushing(c) /\ ~Has(c, "is_owned_by") /\ ~Has(c, "has_waiter")
  <2>1. \A y \in ToSet(prog[l]) : y[1] \notin {"is_owned_by", "has_waiter"}
    BY <1>0, AtFacts
  <2>2. Pushing(c)
    BY <1>1, <1>2, <1>3 DEF Pushing
  <2>3. ~Has(c, "is_owned_by") /\ ~Has(c, "has_waiter")
    BY <1>3, <2>1 DEF Has
  <2> QED
    BY <2>2, <2>3
<1> HIDE DEF x, w, c
<1>7. w[2] <= waits[w[1]] /\ w[1] = c
  <2>1. w[2] = epoch[c] /\ w[1] = c
    BY <1>3 DEF Now
  <2> QED
    BY <1>0, <1>2, <2>1 DEF Base, Epochs
<1>8. /\ st[c] = "cond" /\ owner = c /\ ~Named(waiters, c) /\ ~Named(cwaiters, c) /\ ~HandedOn(c)
  BY <1>2, <1>3, <1>6 DEF Local
<1>9. /\ List(cwaiters') /\ \A v : v \in ToSet(cwaiters') <=> v \in ToSet(cwaiters) \/ v = w
      /\ \A d : Named(cwaiters', d) <=> Named(cwaiters, d) \/ d = c
  BY <1>1, <1>2, <1>3, <1>7, <1>8, ListAppend
<1>10. Joined(waiters, waiters', {"lock", "cond"}) /\ Joined(cwaiters, cwaiters', {"cond"}) /\ List(waiters')
  BY <1>2, <1>3, <1>4, <1>7, <1>8, <1>9 DEF Joined
<1>11. Owning'
  BY <1>0, <1>1, <1>4, <1>5, OwningKept
<1>12. ASSUME NEW d \in Coros PROVE Local(d)'
  <2>1. View(l, {x}, {}, d)
    BY <1>0, <1>5, PlainView
  <2>2. <<"push", Now(d)>> = x => d = c
    BY <1>2, <1>3 DEF Now
  <2>3. /\ <<"release">> # x /\ <<"hand_off", Now(d)>> # x
        /\ \A op \in {"guard", "erase_lock", "erase_cond", "is_owned_by", "has_waiter"} : <<op, d>> # x
    BY <1>2
  <2>4. /\ st'[d] = st[d] /\ home'[d] = home[d]
        /\ \A op \in {"guard", "erase_lock", "erase_cond", "is_owned_by", "has_waiter"} :
               Has(d, op)' <=> Has(d, op)
        /\ Releasing(home[d])' <=> Releasing(home[d])
        /\ HandedOn(d)' <=> HandedOn(d)
        /\ Pushing(d)' <=> Pushing(d) /\ <<"push", Now(d)>> # x
        /\ Roused(d)' <=> Roused(d)
        /\ d \in cancelled => d \in cancelled'
    BY <2>1, <2>3 DEF View
  <2>5. Named(waiters, d)' <=> Named(waiters, d)
    BY <1>4 DEF Named
  <2>6. Named(cwaiters, d)' <=> Named(cwaiters, d) \/ d = c
    BY <1>9 DEF Named
  <2>7. Local(d) /\ owner' = owner
    BY <1>3, <1>4
  <2>8. CASE d # c
    <3>1. Asking(d)' <=> Asking(d)
      BY <2>4, <2>7 DEF Asking
    <3>2. Listed(d)' <=> Listed(d)
      BY <2>2, <2>4, <2>5, <2>6, <2>8, <3>1 DEF Listed
    <3>3. Enrolled(d)' <=> Enrolled(d)
      BY <2>4 DEF Enrolled
    <3> QED
      BY <2>2, <2>4, <2>5, <2>6, <2>7, <2>8, <3>2, <3>3 DEF Local
  <2>9. CASE d = c
    <3>1. Listed(d) /\ Listed(d)' /\ Enrolled(d)' /\ ~Pushing(d)'
      BY <1>3, <1>6, <1>8, <2>4, <2>6, <2>9, <1>2 DEF Listed, Enrolled
    <3> QED
      BY <1>6, <1>8, <2>4, <2>5, <2>6, <2>7, <2>9, <3>1 DEF Local
  <2> QED
    BY <2>8, <2>9
<1>13. LockInv'
  <2>1. \A d \in Coros : <<"hand_off", Now(d)>> \in {} => ~HandedOn(d)
    OBVIOUS
  <2> QED
    BY <1>0, <1>5, <1>9, <1>10, <1>11, <1>12, <2>1, PlainLocal
<1>14. Others({x}, {}, SemOps \cup EventOps \cup FutureOps, {"lock", "cond"})
  BY <1>1 DEF Others, SemOps, EventOps, FutureOps
<1> QED
  BY <1>0, <1>5, <1>13, <1>14, LockOnly

\* A coroutine for which nothing has changed.
Unaffected(d) ==
    /\ st'[d] = st[d] /\ home'[d] = home[d] /\ (owner' = d <=> owner = d)
    /\ \A op \in {"erase_lock", "erase_cond", "is_owned_by", "has_waiter"} : Has(d, op)' <=> Has(d, op)
    /\ (Releasing(home[d])' <=> Releasing(home[d])) /\ (HandedOn(d)' <=> HandedOn(d))
    /\ (Pushing(d)' <=> Pushing(d)) /\ (Roused(d)' <=> Roused(d)) /\ (d \in cancelled => d \in cancelled')
    /\ (Named(waiters', d) <=> Named(waiters, d)) /\ (Named(cwaiters', d) <=> Named(cwaiters, d))

\* A coroutine that nothing happens to is as it was.
LEMMA LocalKept ==
    ASSUME NEW d \in Coros, Local(d), Unaffected(d)
    PROVE  Local(d)'
<1>0. Named(waiters, d)' = Named(waiters', d) /\ Named(cwaiters, d)' = Named(cwaiters', d)
  BY DEF Named
<1>1. Asking(d)' <=> Asking(d)
  BY DEF Asking, Unaffected
<1>2. Listed(d)' <=> Listed(d)
  BY <1>0, <1>1 DEF Listed, Unaffected
<1>3. Enrolled(d)' <=> Enrolled(d)
  BY DEF Enrolled, Unaffected
<1> QED
  BY <1>0, <1>2, <1>3 DEF Local, Unaffected

\* A wait that ends leaves the queue of the condition.
LEMMA EraseCondStep ==
    ASSUME IInv, Unraced', NEW l \in Loops, At(l, "erase_cond"), cwaiters' = erase_waiter(cwaiters, Arg(l)),
           Then(l, Rest(l)), UNCHANGED <<frames, ready, holds, lock, waiters>>, OnLock
    PROVE  IInv'
<1> DEFINE x == Head(prog[l])
           c == Arg(l)
<1>0. Base /\ LockInv /\ holds \in [Coros -> Nat] /\ FrameTypes
  BY DEF IInv, Base, LockInv, Owning
<1>1. /\ x = <<"erase_cond", c>> /\ c \in Coros /\ home[c] = l /\ Has(c, "erase_cond") /\ st[c] \in {"cond", "gone"}
      /\ ToSet(prog[l]) = ToSet(Tail(prog[l])) \cup {x}
      /\ Fits(Gone(l), holds, inside, x, Tail(prog[l]))
  BY <1>0, HeadAt DEF OnCoro, Phase
<1>2. List(waiters) /\ List(cwaiters) /\ \A d \in Coros : Local(d)
  BY <1>0, LocalOf
<1>3. Still /\ UNCHANGED <<holds, locked, owner, recursion, waiters>> /\ \A d \in Coros : Frozen(d)
  BY DEF frames, lock, Still, Frozen, OnLock, semVars
<1>4. Plain(l, {x}, {})
  BY <1>0, <1>3, PopPlain DEF Ordinary
<1>5. ~Releasing(l) /\ ~Has(c, "has_waiter") /\ \A w : <<"push", w>> \notin ToSet(prog[l])
  <2>1. \A y \in ToSet(prog[l]) : y[1] \notin {"release", "has_waiter", "push"}
    BY <1>0, AtFacts
  <2>2. \A w : <<"push", w>>[1] = "push"
    OBVIOUS
  <2> QED
    BY <1>1, <2>1, <2>2 DEF Releasing, Has
<1>6. st[c] = "cond" => Has(c, "is_owned_by")
  <2> SUFFICES ASSUME st[c] = "cond" PROVE Has(c, "is_owned_by")
    OBVIOUS
  <2>1. c \notin Gone(l) /\ Gone(l) \in SUBSET Coros /\ c \in Coros
    BY <1>1 DEF Gone
  <2>2. Tail(prog[l]) = <<<<"is_owned_by", c>>>>
    <3>1. Fits(Gone(l), holds, inside, <<"erase_cond", c>>, Tail(prog[l]))
      BY <1>1
    <3> HIDE DEF c
    <3> QED
      BY ONLY <2>1, <3>1, CancelForm
  <2>3. <<"is_owned_by", c>> \in ToSet(Tail(prog[l]))
    <3>1. <<"is_owned_by", c>> \in Instr
      BY <1>1, IsInstr DEF OnCoro
    <3> QED
      BY <2>2, <3>1, Single
  <2> QED
    BY <1>1, <2>3 DEF Has
<1> HIDE DEF x, c
<1>7. /\ List(cwaiters') /\ \A v : v \in ToSet(cwaiters') <=> v \in ToSet(cwaiters) /\ v[1] # c
      /\ \A d : Named(cwaiters', d) <=> Named(cwaiters, d) /\ d # c
  BY <1>2, ListErase DEF c
<1>8. Joined(waiters, waiters', {"lock", "cond"}) /\ Joined(cwaiters, cwaiters', {"cond"}) /\ List(waiters')
  BY <1>2, <1>3, <1>7 DEF Joined
<1>9. Owning'
  BY <1>0, <1>1, <1>3, <1>4, OwningKept
<1>10. ASSUME NEW d \in Coros PROVE Local(d)'
  <2>1. View(l, {x}, {}, d)
    BY <1>0, <1>4, PlainView
  <2>2. /\ <<"release">> # x /\ <<"hand_off", Now(d)>> # x /\ <<"push", Now(d)>> # x
        /\ \A op \in {"guard", "erase_lock", "erase_cond", "is_owned_by", "has_waiter"} :
               <<op, d>> = x => op = "erase_cond" /\ d = c
    BY <1>1
  <2>3. /\ st'[d] = st[d] /\ home'[d] = home[d] /\ owner' = owner
        /\ \A op \in {"guard", "erase_lock", "is_owned_by", "has_waiter"} : Has(d, op)' <=> Has(d, op)
        /\ d # c => (Has(d, "erase_cond")' <=> Has(d, "erase_cond"))
        /\ Releasing(home[d])' <=> Releasing(home[d])
        /\ HandedOn(d)' <=> HandedOn(d)
        /\ Pushing(d)' <=> Pushing(d)
        /\ Roused(d)' <=> Roused(d)
        /\ d \in cancelled => d \in cancelled'
    BY <1>3, <2>1, <2>2 DEF View
  <2>4. /\ Named(waiters', d) <=> Named(waiters, d)
        /\ Named(cwaiters', d) <=> Named(cwaiters, d) /\ d # c
    BY <1>3, <1>7
  <2>5. CASE d # c
    BY <1>2, <2>3, <2>4, <2>5, LocalKept DEF Unaffected
  <2>6. CASE d = c
    <3>0. Named(waiters, d)' = Named(waiters', d) /\ Named(cwaiters, d)' = Named(cwaiters', d)
      BY DEF Named
    <3>1. Enrolled(d)' <=> Enrolled(d)
      BY <2>3 DEF Enrolled
    <3>2. ASSUME st[d] = "cond" PROVE (Listed(d)' <=> Listed(d)) /\ (Listed(d) => owner # d)
      <4>1. Listed(d) => owner # d
        BY <1>1, <1>2, <1>5, <2>6, <3>2 DEF Local
      <4>2. Has(d, "is_owned_by") /\ Has(d, "is_owned_by")'
        BY <1>6, <2>3, <2>6, <3>2
      <4>3. (Asking(d) <=> owner # d) /\ (Asking(d)' <=> owner # d)
        BY <2>3, <4>2 DEF Asking
      <4> QED
        BY <2>3, <2>4, <3>0, <3>2, <4>1, <4>3 DEF Listed
    <3>3. Local(d) /\ ~Has(d, "has_waiter")
      BY <1>2, <1>5, <2>6
    <3>4. CASE st[d] = "cond"
      BY <2>3, <2>4, <2>6, <3>0, <3>1, <3>2, <3>3, <3>4 DEF Local
    <3>5. CASE st[d] = "gone"
      BY <2>3, <2>4, <2>6, <3>0, <3>1, <3>3, <3>5 DEF Local
    <3> QED
      BY <1>1, <2>6, <3>4, <3>5
  <2> QED
    BY <2>5, <2>6
<1>11. LockInv'
  <2>1. \A d \in Coros : <<"hand_off", Now(d)>> \in {} => ~HandedOn(d)
    OBVIOUS
  <2> QED
    BY <1>0, <1>4, <1>7, <1>8, <1>9, <1>10, <2>1, PlainLocal
<1>12. Others({x}, {}, SemOps \cup EventOps \cup FutureOps, {"lock", "cond"})
  BY <1>1 DEF Others, SemOps, EventOps, FutureOps
<1> QED
  BY <1>0, <1>4, <1>11, <1>12, LockOnly

\* notify: the first waiter of the condition is on its way to the lock.
LEMMA HandedOver ==
    ASSUME IInv, Unraced', NEW l \in Loops, At(l, "notify"), cwaiters # <<>>, cwaiters' = Tail(cwaiters),
           NEW new, Plain(l, {Head(prog[l])}, new), <<"hand_off", Head(cwaiters)>> \in new,
           \A y \in new : y = <<"hand_off", Head(cwaiters)>> \/ y[1] = "notify",
           UNCHANGED <<frames, ready, holds, lock, waiters>>, OnLock
    PROVE  IInv'
<1> DEFINE x == Head(prog[l])
           w == Head(cwaiters)
           c == w[1]
<1>0. Base /\ LockInv /\ holds \in [Coros -> Nat] /\ FrameTypes
  BY DEF IInv, Base, LockInv, Owning
<1>1. x[1] = "notify"
  BY <1>0, HeadAt
<1>2. List(waiters) /\ List(cwaiters) /\ (\A d \in Coros : Local(d)) /\ Recent(cwaiters, {"cond"})
  BY <1>0, LocalOf
<1>3. UNCHANGED <<holds, locked, owner, recursion, waiters>>
  BY DEF lock
<1>4. /\ List(cwaiters') /\ w \in ToSet(cwaiters) /\ Named(cwaiters, c)
      /\ \A v : v \in ToSet(cwaiters') <=> v \in ToSet(cwaiters) /\ v # w
      /\ \A d : Named(cwaiters', d) <=> Named(cwaiters, d) /\ d # c
  BY <1>2, ListTail
<1>5. w \in Current /\ c \in Coros /\ w = <<c, w[2]>> /\ w[2] \in Nat \ {0}
  BY <1>2, <1>4, ListMembers
<1> HIDE DEF x, w, c
<1>6. /\ \A y \in new : y = <<"hand_off", w>> \/ y[1] = "notify"
      /\ <<"hand_off", w>> \in new /\ Plain(l, {x}, new)
  BY DEF w, x
<1>7. \A y \in new : y[1] \in {"hand_off", "notify"}
  <2>1. <<"hand_off", w>>[1] = "hand_off"
    OBVIOUS
  <2> QED
    BY <1>6, <2>1
<1>8. st[c] = "cond" <=> w = Now(c)
  <2>1. st[c] = "cond" => w = Now(c)
    BY <1>2, <1>4 DEF Recent, c
  <2>2. st[c] # "cond" => st[c] = "gone"
    <3>1. st[c] # "cond" => Has(c, "erase_cond")
      BY <1>2, <1>4, <1>5 DEF Local
    <3> QED
      BY <1>0, <1>5, <3>1 DEF Base, Calling, OnCoro, Phase
  <2>3. st[c] = "gone" => epoch[c] = 0
    <3>1. st[c] = "gone" => ~Has(c, "event_suspend")
      BY <1>0, <1>5 DEF Base, Calling, OnCoro, Phase
    <3> QED
      BY <1>0, <1>5, <3>1 DEF Base, Epochs
  <2> QED
    BY <1>5, <2>1, <2>2, <2>3 DEF Now
<1>9. Joined(waiters, waiters', {"lock", "cond"}) /\ Joined(cwaiters, cwaiters', {"cond"}) /\ List(waiters')
  BY <1>2, <1>3, <1>4 DEF Joined
<1>10. Owning'
  BY <1>0, <1>1, <1>3, <1>6, <1>7, OwningKept
<1>11. \A d \in Coros : <<"hand_off", Now(d)>> \in new <=> d = c /\ st[c] = "cond"
  <2> TAKE d \in Coros
  <2>1. <<"hand_off", Now(d)>>[1] # "notify"
    OBVIOUS
  <2>2. <<"hand_off", Now(d)>> \in new <=> Now(d) = w
    BY <1>6, <2>1
  <2> QED
    BY <1>5, <1>8, <2>2 DEF Now
<1>12. ASSUME NEW d \in Coros PROVE Local(d)'
  <2>1. View(l, {x}, new, d)
    BY <1>0, <1>6, <1>7, PlainView
  <2>2. /\ <<"release">> # x /\ <<"hand_off", Now(d)>> # x /\ <<"push", Now(d)>> # x
        /\ <<"release">> \notin new /\ <<"schedule", Now(d)>> \notin new
        /\ \A op \in {"guard", "erase_lock", "erase_cond", "is_owned_by", "has_waiter"} :
               <<op, d>> # x /\ <<op, d>> \notin new
    <3>1. /\ <<"release">>[1] = "release" /\ <<"hand_off", Now(d)>>[1] = "hand_off"
          /\ <<"push", Now(d)>>[1] = "push" /\ <<"schedule", Now(d)>>[1] = "schedule"
          /\ \A op : <<op, d>>[1] = op
      OBVIOUS
    <3> QED
      BY <1>1, <1>7, <3>1
  <2>3. /\ st'[d] = st[d] /\ home'[d] = home[d] /\ owner' = owner
        /\ \A op \in {"guard", "erase_lock", "erase_cond", "is_owned_by", "has_waiter"} : Has(d, op)' <=> Has(d, op)
        /\ Releasing(home[d])' <=> Releasing(home[d])
        /\ HandedOn(d)' <=> HandedOn(d) \/ (d = c /\ st[c] = "cond")
        /\ Pushing(d)' <=> Pushing(d)
        /\ Roused(d)' <=> Roused(d)
        /\ d \in cancelled => d \in cancelled'
    BY <1>3, <1>11, <2>1, <2>2 DEF View
  <2>4. /\ Named(waiters', d) <=> Named(waiters, d)
        /\ Named(cwaiters', d) <=> Named(cwaiters, d) /\ d # c
    BY <1>3, <1>4
  <2>5. CASE d # c
    BY <1>2, <2>3, <2>4, <2>5, LocalKept DEF Unaffected
  <2>6. CASE d = c
    <3>0. Named(waiters, d)' = Named(waiters', d) /\ Named(cwaiters, d)' = Named(cwaiters', d)
      BY DEF Named
    <3>1. Enrolled(d)' <=> Enrolled(d)
      BY <2>3 DEF Enrolled
    <3>2. Local(d) /\ Named(cwaiters, d)
      BY <1>2, <1>4, <2>6
    <3>3. st[d] = "cond" => Listed(d) /\ Listed(d)'
      BY <2>3, <2>6, <3>2 DEF Listed
    <3>4. ~Pushing(d) /\ ~HandedOn(d)
      BY <3>2 DEF Local
    <3>5. st[d] = "cond" \/ Has(d, "erase_cond")
      BY <3>2 DEF Local
    <3>6. st[d] # "lock"
      BY <1>0, <3>5 DEF Base, Calling, OnCoro, Phase
    <3> QED
      BY <2>3, <2>4, <2>6, <3>0, <3>1, <3>2, <3>3, <3>4, <3>6 DEF Local
  <2> QED
    BY <2>5, <2>6
<1>13. LockInv'
  <2>1. \A d \in Coros : <<"hand_off", Now(d)>> \in new => ~HandedOn(d)
    BY <1>2, <1>4, <1>11 DEF Local
  <2>2. \A y \in new : y[1] # "push"
    BY <1>7
  <2> QED
    BY <1>0, <1>4, <1>6, <1>9, <1>10, <1>12, <2>1, <2>2, PlainLocal
<1>14. Others({x}, new, SemOps \cup EventOps \cup FutureOps, {"lock", "cond"})
  <2>1. \A d : <<"schedule", Now(d)>>[1] = "schedule"
    OBVIOUS
  <2> QED
    BY <1>1, <1>7, <2>1 DEF Others, SemOps, EventOps, FutureOps
<1> QED
  BY <1>0, <1>6, <1>13, <1>14, LockOnly

\* Condition::notify_one and notify_all.
LEMMA NotifyStep ==
    ASSUME IInv, Unraced', NEW l \in Loops, At(l, "notify"), notify(l, Arg(l), Rest(l)),
           UNCHANGED <<frames, ready, holds, lock, waiters>>, OnLock
    PROVE  IInv'
<1> DEFINE x == Head(prog[l])
           w == Head(cwaiters)
           y == <<"hand_off", w>>
           n == <<"notify", TRUE>>
<1>0. Base /\ LockInv /\ holds \in [Coros -> Nat] /\ FrameTypes /\ \A k \in Loops : Shape(k)
  BY DEF IInv, Base, LockInv, Owning, Calling
<1>1. /\ x[1] = "notify" /\ x \in Instr /\ x \in ToSet(prog[l]) /\ l \in Active /\ prog[l] # <<>>
      /\ Fits(Gone(l), holds, inside, x, Tail(prog[l])) /\ Arg(l) = x[2]
      /\ ToSet(prog[l]) = ToSet(Tail(prog[l])) \cup {x}
      /\ \A z \in ToSet(prog[l]) : z[1] # "resume"
  BY <1>0, HeadAt
<1>2. Tail(prog[l]) = <<>> /\ Arg(l) \in BOOLEAN
  <2>1. Gone(l) \in SUBSET Coros
    BY DEF Gone
  <2> QED
    BY <1>1, <2>1, AloneForm, InstrOf DEF Alone
<1>3. Still /\ UNCHANGED <<holds, locked, owner, recursion, waiters>> /\ \A d \in Coros : Frozen(d)
  BY DEF frames, lock, Still, Frozen, OnLock, semVars
<1>4. CASE cwaiters = <<>>
  <2>1. Then(l, Rest(l)) /\ UNCHANGED lockVars
    BY <1>3, <1>4 DEF notify, lockVars, lock
  <2>2. Plain(l, {x}, {})
    BY <1>0, <1>3, <2>1, PopPlain DEF Ordinary
  <2> HIDE DEF x
  <2>3. Spares({x}, {}, LockOps, {"lock", "cond"})
    BY <1>1 DEF Spares, LockOps
  <2>4. LockInv'
    BY <1>0, <2>1, <2>2, <2>3, PlainOthers
  <2>5. Others({x}, {}, SemOps \cup EventOps \cup FutureOps, {"lock", "cond"})
    BY <1>1 DEF Others, SemOps, EventOps, FutureOps
  <2> QED
    BY <2>2, <2>4, <2>5, LockOnly
<1>5. CASE cwaiters # <<>>
  <2>0. List(cwaiters)
    BY <1>0, LocalOf
  <2>1. w \in Current /\ w[2] <= waits[w[1]]
    <3>1. w \in ToSet(cwaiters)
      BY <1>5, <2>0, ListTail
    <3> QED
      BY <2>0, <3>1, ListMembers
  <2>2. y \in Instr /\ y[1] = "hand_off" /\ y[2] = w
    BY <2>1, IsInstr DEF OnWaiter
  <2>3. /\ cwaiters' = Tail(cwaiters)
        /\ Then(l, <<y>> \o (IF Arg(l) THEN <<n>> ELSE <<>>) \o <<>>)
    BY <1>2, <1>5 DEF notify, Rest
  <2> HIDE DEF x, w, y
  <2>4. Proper(l, y)
    <3>1. \A c \in Coros : y # <<"schedule", Now(c)>>
      BY <2>2
    <3> QED
      BY <2>1, <2>2, <3>1 DEF Proper, OnCoro
  <2>5. CASE ~Arg(l)
    <3>1. Then(l, <<y>>)
      <4>1. <<y>> \o <<>> \o <<>> = <<y>>
        <5>1. <<y>> \in Seq(Instr)
          BY <2>2, Single
        <5> QED
          BY <5>1
      <4> QED
        BY <2>3, <2>5, <4>1
    <3>2. Plain(l, {x}, {y})
      BY <1>0, <1>3, <2>2, <2>4, <3>1, LastPlain DEF Ordinary, Alone, x
    <3> QED
      BY <1>5, <2>3, <3>2, HandedOver DEF x, y, w
  <2>6. CASE Arg(l)
    <3> DEFINE p == Led(y, <<n>>)
    <3>1. n \in Instr
      <4>1. TRUE \in BOOLEAN
        OBVIOUS
      <4> QED
        BY <4>1, IsInstr
    <3>n. <<n>> \in Seq(Instr) /\ ToSet(<<n>>) = {n}
      <4> HIDE DEF n
      <4> QED
        BY <3>1, Single
    <3>2. /\ p \in Seq(Instr) /\ Head(p) = y /\ Tail(p) = <<n>> /\ ToSet(p) = {y, n}
      <4>1. p \in Seq(Instr) /\ Head(p) = y /\ Tail(p) = <<n>> /\ ToSet(p) = {y} \cup ToSet(<<n>>)
        <5> HIDE DEF n
        <5>1. y \in Instr /\ <<n>> \in Seq(Instr)
          BY <2>2, <3>n
        <5> QED
          BY ONLY <5>1, Prefixed
      <4> QED
        BY <3>n, <4>1
    <3>3. Then(l, p)
      <4>1. <<y>> \o <<n>> \o <<>> = p
        <5>1. <<y>> \in Seq(Instr) /\ <<n>> \in Seq(Instr)
          BY <2>2, <3>n, Single
        <5> HIDE DEF n
        <5> QED
          BY <5>1 DEF Led
      <4> QED
        BY <2>3, <2>6, <4>1
    <3>4. Form(Gone(l)', holds', inside', p)
      <4>1. y[1] \in {"hand_off", "schedule"} /\ Tail(p) = <<<<"notify", TRUE>>>>
        BY <2>2, <3>2
      <4> HIDE DEF p
      <4> QED
        BY <3>2, <4>1 DEF Form, Fits
    <3>5. Moves(l, ToSet(prog[l]), ToSet(p))
      <4>1. home' = home /\ prog' = [prog EXCEPT ![l] = p]
        BY <1>3, <3>3 DEF Still, Then
      <4> HIDE DEF p
      <4> QED
        BY <1>0, <1>3, <3>2, <3>4, <4>1, SetMoves
    <3>6. Moves(l, {x}, {y, n})
      <4>1. ToSet(prog[l]) = {x}
        BY <1>1, <1>2, NoWaiters DEF x
      <4> QED
        BY <3>2, <3>5, <4>1
    <3>7. Flagged
      BY <1>0, <1>3 DEF Flagged, Still, Base, FrameTypes, Wakes
    <3>8. Proper(l, n)
      <4>1. n[1] = "notify"
        OBVIOUS
      <4>2. \A c \in Coros : n # <<"schedule", Now(c)>>
        OBVIOUS
      <4> HIDE DEF n
      <4> QED
        BY <4>1, <4>2 DEF Proper, OnCoro, OnWaiter
    <3>9. x[1] = "notify" /\ x \in ToSet(prog[l]) /\ \A z \in ToSet(prog[l]) : z[1] # "resume"
      BY <1>1 DEF x
    <3>10. n[1] = "notify"
      OBVIOUS
    <3> HIDE DEF n
    <3>11. Plain(l, {x}, {y, n})
      BY <1>1, <1>3, <2>4, <3>6, <3>7, <3>8, <3>9 DEF Plain, Still
    <3> QED
      BY <1>5, <2>3, <3>10, <3>11, HandedOver DEF x, y, w
  <2> QED
    BY <1>2, <2>5, <2>6
<1> QED
  BY <1>4, <1>5

\* hand_off: a waiter whose wait is over is dropped, another one queued, or given
\* the lock.
LEMMA HandOffStep ==
    ASSUME IInv, Unraced', NEW l \in Loops, HandOff(l), OnLock
    PROVE  IInv'
<1> DEFINE x == Head(prog[l])
           w == Arg(l)
           c == w[1]
<1>0. Base /\ LockInv /\ holds \in [Coros -> Nat] /\ FrameTypes /\ Owning
  BY DEF IInv, Base, LockInv, Owning
<1>a. At(l, "hand_off") /\ hand_off(l, w, Rest(l)) /\ UNCHANGED <<frames, ready, holds, cwaiters>>
  BY DEF HandOff
<1>1. x[1] = "hand_off" /\ x \in Instr /\ x \in ToSet(prog[l]) /\ x[2] = w /\ l \in Active
  BY <1>0, <1>a, HeadAt
<1>2. x = <<"hand_off", w>> /\ c \in Coros /\ w = <<c, w[2]>> /\ w[2] \in Nat \ {0} /\ w \in Current
  BY <1>1, InstrOf DEF OnWaiter
<1>3. List(waiters) /\ List(cwaiters) /\ \A d \in Coros : Local(d)
  BY <1>0, LocalOf
<1>4. Still /\ (\A d \in Coros : Frozen(d)) /\ UNCHANGED <<holds, cwaiters>>
  BY <1>a DEF frames, Still, Frozen, OnLock, semVars
<1>5. epoch[c] = w[2] <=> w = Now(c)
  BY <1>2 DEF Now
<1>6. ASSUME w = Now(c)
      PROVE  /\ HandedOn(c) /\ st[c] = "cond" /\ ~Named(waiters, c) /\ ~Named(cwaiters, c) /\ ~Pushing(c)
             /\ w[2] <= waits[w[1]] /\ ~Roused(c) /\ ~Has(c, "has_waiter") /\ Listed(c)
  <2>1. HandedOn(c)
    BY <1>1, <1>2, <1>6 DEF HandedOn
  <2>2. st[c] = "cond" /\ ~Named(waiters, c) /\ ~Named(cwaiters, c) /\ ~Pushing(c)
    BY <1>2, <1>3, <2>1 DEF Local
  <2>3. w[2] <= waits[w[1]]
    BY <1>0, <1>1 DEF Base, Epochs, OnWaiter
  <2>4. Listed(c)
    BY <2>1, <2>2 DEF Listed
  <2>5. ~Roused(c)
    BY <1>2, <1>3, <2>2, <2>4 DEF Local
  <2>6. ~Has(c, "has_waiter")
    <3> SUFFICES ASSUME Has(c, "has_waiter") PROVE FALSE
      OBVIOUS
    <3>1. c \in cancelled /\ Unraced
      BY <1>0, <1>2 DEF Base, Calling, Wakes
    <3>2. home[c] = l
      BY <1>1, <1>2, <1>6, <3>1, OwnNotifier
    <3>3. \A y \in ToSet(prog[l]) : y[1] # "has_waiter"
      BY <1>0, <1>a, AtFacts
    <3> QED
      BY <3>2, <3>3 DEF Has
  <2> QED
    BY <2>1, <2>2, <2>3, <2>4, <2>5, <2>6
<1> HIDE DEF x, w, c
<1>7. \A d \in Coros : (<<"hand_off", Now(d)>> = x <=> d = c /\ w = Now(c))
  BY <1>2 DEF Now
<1>v. ASSUME NEW d \in Coros, NEW new, View(l, {x}, new, d),
             new = {} \/ new = {<<"schedule", w>>}
      PROVE  /\ st'[d] = st[d] /\ home'[d] = home[d]
             /\ \A op \in {"guard", "erase_lock", "erase_cond", "is_owned_by", "has_waiter"} : Has(d, op)' <=> Has(d, op)
             /\ Releasing(home[d])' <=> Releasing(home[d])
             /\ HandedOn(d)' <=> HandedOn(d) /\ ~(d = c /\ w = Now(c))
             /\ Pushing(d)' <=> Pushing(d)
             /\ Roused(d)' <=> Roused(d) \/ (new # {} /\ d = c /\ w = Now(c))
             /\ d \in cancelled => d \in cancelled'
  <2>1. /\ <<"release">> # x /\ <<"push", Now(d)>> # x
        /\ <<"release">> \notin new /\ <<"hand_off", Now(d)>> \notin new
        /\ \A op \in {"guard", "erase_lock", "erase_cond", "is_owned_by", "has_waiter"} :
               <<op, d>> # x /\ <<op, d>> \notin new
    BY <1>2, <1>v
  <2>2. <<"schedule", Now(d)>> \in new <=> new # {} /\ d = c /\ w = Now(c)
    BY <1>2, <1>v DEF Now
  <2> QED
    BY <1>7, <1>v, <2>1, <2>2 DEF View
<1>o. ASSUME NEW new, new = {} \/ new = {<<"schedule", w>>}, new # {} => w = Now(c)
      PROVE  /\ Others({x}, new, SemOps \cup EventOps \cup FutureOps, {"lock", "cond"})
             /\ \A d \in Coros : <<"hand_off", Now(d)>> \in new => ~HandedOn(d)
             /\ \A y \in new : y[1] # "push"
             /\ \A y \in {x} \cup new : y[1] \notin {"release", "guard", "erase_lock"}
  <2>1. \A y \in {x} \cup new : y[1] \in {"hand_off", "schedule"}
    BY <1>2, <1>o
  <2>2. \A d \in Coros : <<"hand_off", Now(d)>> \notin new
    BY <1>o
  <2>3. \A d \in Coros : <<"schedule", Now(d)>> \in new => st[d] \in {"lock", "cond"}
    BY <1>2, <1>6, <1>o DEF Now
  <2> QED
    BY <2>1, <2>2, <2>3 DEF Others, SemOps, EventOps, FutureOps
<1>8. CASE w # Now(c) \/ locked
  <2>1. /\ Then(l, Rest(l)) /\ UNCHANGED <<locked, owner, recursion>>
        /\ waiters' = IF w = Now(c) THEN Append(waiters, w) ELSE waiters
    BY <1>5, <1>8, <1>a DEF hand_off, lock, c
  <2>2. Plain(l, {x}, {})
    BY <1>0, <1>4, <1>a, <2>1, PopPlain DEF Ordinary, x
  <2>3. /\ List(waiters') /\ \A v : v \in ToSet(waiters') <=> v \in ToSet(waiters) \/ (w = Now(c) /\ v = w)
        /\ \A d : Named(waiters', d) <=> Named(waiters, d) \/ (w = Now(c) /\ d = c)
    <3>1. CASE w = Now(c)
      <4>1. List(Append(waiters, w)) /\ (\A v : v \in ToSet(Append(waiters, w)) <=> v \in ToSet(waiters) \/ v = w)
            /\ \A d : Named(Append(waiters, w), d) <=> Named(waiters, d) \/ d = w[1]
        BY <1>2, <1>3, <1>6, <3>1, ListAppend DEF c
      <4> QED
        BY <2>1, <3>1, <4>1 DEF c
    <3>2. CASE w # Now(c)
      BY <1>3, <2>1, <3>2
    <3> QED
      BY <3>1, <3>2
  <2>4. Joined(waiters, waiters', {"lock", "cond"}) /\ Joined(cwaiters, cwaiters', {"cond"}) /\ List(cwaiters')
    <3>1. w[1] = c
      BY DEF c
    <3> QED
      BY <1>3, <1>4, <1>6, <2>3, <3>1 DEF Joined
  <2>5. Owning'
    <3>1. (\A y \in {x} \cup {} : y[1] \notin {"release", "guard", "erase_lock"}) /\ \A y \in {} : y[1] # "push"
      BY <1>2
    <3> QED
      BY <1>0, <1>4, <2>1, <2>2, <3>1, OwningKept
  <2>6. ASSUME NEW d \in Coros PROVE Local(d)'
    <3>1. View(l, {x}, {}, d)
      BY <1>0, <2>2, PlainView
    <3>2. /\ st'[d] = st[d] /\ home'[d] = home[d] /\ owner' = owner
          /\ \A op \in {"guard", "erase_lock", "erase_cond", "is_owned_by", "has_waiter"} : Has(d, op)' <=> Has(d, op)
          /\ Releasing(home[d])' <=> Releasing(home[d])
          /\ HandedOn(d)' <=> HandedOn(d) /\ ~(d = c /\ w = Now(c))
          /\ Pushing(d)' <=> Pushing(d)
          /\ Roused(d)' <=> Roused(d)
          /\ d \in cancelled => d \in cancelled'
      BY <1>v, <2>1, <3>1
    <3>3. /\ Named(waiters', d) <=> Named(waiters, d) \/ (w = Now(c) /\ d = c)
          /\ Named(cwaiters', d) <=> Named(cwaiters, d)
      BY <1>4, <2>3
    <3>4. CASE ~(d = c /\ w = Now(c))
      BY <1>3, <3>2, <3>3, <3>4, LocalKept DEF Unaffected
    <3>5. CASE d = c /\ w = Now(c)
      <4>0. Named(waiters, d)' = Named(waiters', d) /\ Named(cwaiters, d)' = Named(cwaiters', d)
        BY DEF Named
      <4>1. Enrolled(d)' /\ Listed(d)'
        BY <1>6, <3>2, <3>3, <3>5, <4>0 DEF Enrolled, Listed
      <4> QED
        BY <1>3, <1>6, <3>2, <3>3, <3>5, <4>0, <4>1 DEF Local
    <3> QED
      BY <3>4, <3>5
  <2>7. LockInv'
    BY <1>0, <1>o, <2>2, <2>3, <2>4, <2>5, <2>6, PlainLocal
  <2> QED
    BY <1>o, <2>2, <2>7, LockOnly
<1>9. CASE w = Now(c) /\ ~locked
  <2> DEFINE y == <<"schedule", w>>
  <2>1. /\ locked' = TRUE /\ owner' = c /\ UNCHANGED <<recursion, waiters>>
        /\ Then(l, <<y>> \o Rest(l))
    BY <1>5, <1>9, <1>a DEF hand_off, c
  <2>2. y \in Instr /\ IsSchedule(y) /\ y[1] = "schedule" /\ y[2] = w
    BY <1>2, IsInstr DEF OnWaiter, IsSchedule
  <2>3. Proper(l, y)
    <3>1. \A d \in Coros : y = <<"schedule", Now(d)>> => Suspended(d) /\ (Roused(d) => d \in cancelled)
      BY <1>2, <1>6, <1>9 DEF Now, Suspended
    <3> HIDE DEF y
    <3> QED
      BY <1>6, <1>9, <2>2, <3>1 DEF Proper, OnCoro
  <2>4. Plain(l, {x}, {y})
    <3>1. Follows(x, y)
      BY <1>1, <2>2 DEF Follows, x
    <3> HIDE DEF y
    <3> QED
      BY <1>0, <1>4, <1>a, <2>1, <2>2, <2>3, <3>1, NextPlain DEF Ordinary, x
  <2>5. owner = NoCoro /\ recursion = 0 /\ NoCoro \notin Coros
    BY <1>0, <1>9, LockAssumption DEF Owning
  <2>6. \A k \in Loops : ~Releasing(k) /\ ~Releasing(k)'
    <3>1. \A k \in Loops : ~Releasing(k)
      BY <1>0, <2>5 DEF Owning
    <3>2. \A k \in Loops : Releasing(k)' <=> Releasing(k)
      <4>1. Moves(l, {x}, {y})
        BY <2>4 DEF Plain
      <4>2. Retains({"release"})
        BY <1>1, <2>2, <4>1, MovesRetains DEF x
      <4>3. <<"release">>[1] \in {"release"}
        OBVIOUS
      <4> QED
        BY <4>2, <4>3 DEF Retains, Releasing
    <3> QED
      BY <3>1, <3>2
  <2>7. ASSUME NEW d \in Coros
        PROVE  /\ st'[d] = st[d] /\ home'[d] = home[d] /\ home[d] \in Loops
               /\ \A op \in {"guard", "erase_lock", "erase_cond", "is_owned_by", "has_waiter"} : Has(d, op)' <=> Has(d, op)
               /\ Releasing(home[d])' <=> Releasing(home[d])
               /\ HandedOn(d)' <=> HandedOn(d) /\ d # c
               /\ Pushing(d)' <=> Pushing(d)
               /\ Roused(d)' <=> Roused(d) \/ d = c
               /\ d \in cancelled => d \in cancelled'
    <3>0. \A z \in {y} : z[1] # "push"
      BY <2>2
    <3>1. View(l, {x}, {y}, d)
      BY <1>0, <2>4, <3>0, PlainView
    <3> QED
      BY <1>9, <1>v, <3>1 DEF View
  <2>8. Owning'
    <3>1. \A d \in Coros : holds[d] = 0 /\ holds'[d] = 0
      BY <1>0, <1>4, <2>5 DEF Owning
    <3>2. \A d \in Coros : Has(d, "guard")' => st'[d] # "run"
      BY <1>0, <2>5, <2>7 DEF Owning
    <3>3. \A d \in Coros : owner' = d => Counts(d)'
      <4> SUFFICES ASSUME NEW d \in Coros, owner' = d PROVE Counts(d)'
        OBVIOUS
      <4>1. st'[d] = "cond" /\ d = c
        BY <1>2, <1>6, <1>9, <2>1, <2>7
      <4>2. Enrolled(d)' /\ ~Leaving(d)'
        <5>1. ~Releasing(home[d])'
          BY <2>6, <2>7 DEF Releasing
        <5> QED
          BY <3>2, <4>1, <5>1 DEF Enrolled, Leaving
      <4> QED
        BY <2>1, <2>5, <4>2 DEF Counts
    <3> QED
      BY <1>0, <1>2, <1>4, <2>1, <2>5, <2>6, <3>1, <3>2, <3>3 DEF Owning
  <2>9. ASSUME NEW d \in Coros PROVE Local(d)'
    <3>1. (Named(waiters', d) <=> Named(waiters, d)) /\ (Named(cwaiters', d) <=> Named(cwaiters, d))
      BY <1>4, <2>1
    <3>2. CASE d # c
      <4>1. owner' # d /\ owner # d
        BY <2>1, <2>5, <3>2
      <4> QED
        BY <1>3, <2>7, <3>1, <3>2, <4>1, LocalKept DEF Unaffected
    <3>3. CASE d = c
      <4>0. Named(waiters, d)' = Named(waiters', d) /\ Named(cwaiters, d)' = Named(cwaiters', d)
        BY DEF Named
      <4>1. ~Asking(d)' /\ ~Listed(d)' /\ Enrolled(d)'
        BY <1>6, <1>9, <2>1, <2>7, <3>1, <3>3, <4>0 DEF Asking, Listed, Enrolled
      <4>2. ~Releasing(home[d])'
        BY <2>6, <2>7 DEF Releasing
      <4> QED
        BY <1>3, <1>6, <1>9, <2>1, <2>7, <3>1, <3>3, <4>0, <4>1, <4>2 DEF Local
    <3> QED
      BY <3>2, <3>3
  <2>10. Joined(waiters, waiters', {"lock", "cond"}) /\ Joined(cwaiters, cwaiters', {"cond"})
         /\ List(waiters') /\ List(cwaiters')
    BY <1>3, <1>4, <2>1 DEF Joined
  <2>11. /\ Others({x}, {y}, SemOps \cup EventOps \cup FutureOps, {"lock", "cond"})
         /\ \A d \in Coros : <<"hand_off", Now(d)>> \in {y} => ~HandedOn(d)
         /\ \A z \in {y} : z[1] # "push"
    BY <1>9, <1>o
  <2>12. LockInv'
    <3> HIDE DEF y
    <3> QED
      BY <1>0, <2>4, <2>8, <2>9, <2>10, <2>11, PlainLocal
  <2> QED
    BY <2>4, <2>11, <2>12, LockOnly
<1> QED
  BY <1>8, <1>9

\* A step that changes no queue and leaves the lock with its owner.
LEMMA LockSame ==
    ASSUME IInv, Unraced', NEW l \in Loops, NEW old, NEW new, Plain(l, old, new), OnLock,
           UNCHANGED <<holds, locked, owner, recursion, waiters, cwaiters>>,
           Others(old, new, SemOps \cup EventOps \cup FutureOps, {"lock", "cond"}),
           \A y \in old \cup new : y[1] \notin {"release", "guard", "erase_lock", "push"},
           \A d \in Coros : <<"hand_off", Now(d)>> \in new => ~HandedOn(d),
           \A d \in Coros : Local(d)'
    PROVE  IInv'
<1>0. Base /\ LockInv
  BY DEF IInv, Base
<1>1. Owning'
  BY <1>0, OwningKept
<1>2. List(waiters) /\ List(cwaiters)
  BY <1>0, LocalOf
<1>3. Joined(waiters, waiters', {"lock", "cond"}) /\ Joined(cwaiters, cwaiters', {"cond"})
      /\ List(waiters') /\ List(cwaiters')
  BY <1>2 DEF Joined
<1>4. LockInv'
  BY <1>0, <1>1, <1>3, PlainLocal
<1> QED
  BY <1>4, LockOnly

\* A cancelled waiter of the condition asks for the lock.
LEMMA RequestStep ==
    ASSUME IInv, Unraced', NEW l \in Loops, RequestLock(l), OnLock
    PROVE  IInv'
<1> DEFINE x == Head(prog[l])
           c == Arg(l)
           w == Now(c)
<1>0. Base /\ LockInv /\ holds \in [Coros -> Nat] /\ FrameTypes /\ Owning
  BY DEF IInv, Base, LockInv, Owning
<1>a. UNCHANGED <<frames, ready, holds, lock, waiters, cwaiters>>
  BY DEF RequestLock
<1>4. Still /\ (\A d \in Coros : Frozen(d)) /\ UNCHANGED <<holds, locked, owner, recursion, waiters, cwaiters>>
  BY <1>a DEF frames, Still, Frozen, OnLock, semVars, lock
<1>3. \A d \in Coros : Local(d)
  BY <1>0, LocalOf
<1>b. ASSUME NEW op \in {"is_owned_by", "has_waiter"}, At(l, op)
      PROVE  /\ x = <<op, c>> /\ c \in Coros /\ home[c] = l /\ Has(c, op) /\ st[c] = "cond"
             /\ ToSet(prog[l]) = {x} /\ c \in cancelled /\ l \in Active /\ Tail(prog[l]) = <<>>
             /\ w \in Current /\ w[2] <= waits[w[1]] /\ ~Pushing(c)
             /\ \A o \in {"erase_cond", "is_owned_by", "has_waiter"} : Has(c, o) <=> o = op
  <2>1. op \in OnCoro /\ op \in Alone
    BY DEF OnCoro, Alone
  <2>2. /\ x = <<op, c>> /\ c \in Coros /\ home[c] = l /\ Has(c, op) /\ st[c] \in Phase(op)
        /\ ToSet(prog[l]) = ToSet(Tail(prog[l])) \cup {x} /\ l \in Active /\ x \in Instr /\ x[1] = op
        /\ Fits(Gone(l), holds, inside, x, Tail(prog[l]))
    BY <1>0, <1>b, <2>1, HeadAt
  <2>3. st[c] = "cond"
    BY <2>2 DEF Phase
  <2>4. Tail(prog[l]) = <<>>
    <3>1. Gone(l) \in SUBSET Coros
      BY DEF Gone
    <3> QED
      BY <2>1, <2>2, <3>1, AloneForm
  <2>5. ToSet(prog[l]) = {x}
    BY <2>2, <2>4, NoWaiters
  <2>6. c \in cancelled
    BY <1>0, <2>2 DEF Base, Calling
  <2>7. w \in Current /\ w[2] <= waits[w[1]]
    <3>1. epoch[c] # 0 /\ epoch[c] \in Nat /\ epoch[c] <= waits[c]
      BY <1>0, <2>2, <2>3 DEF Base, Epochs, FrameTypes
    <3> QED
      BY <2>2, <3>1 DEF Now, Current
  <2>8. ~Pushing(c) /\ \A o \in {"erase_cond", "is_owned_by", "has_waiter"} : Has(c, o) <=> o = op
    BY <2>2, <2>5 DEF Pushing, Has
  <2> QED
    BY <2>2, <2>3, <2>4, <2>5, <2>6, <2>7, <2>8
<1>v. ASSUME NEW d \in Coros, NEW op \in {"is_owned_by", "has_waiter"}, At(l, op),
             NEW new, View(l, {x}, new, d),
             new \in {{}, {<<"schedule", w>>}, {<<"has_waiter", c>>}, {<<"hand_off", w>>}}
      PROVE  /\ st'[d] = st[d] /\ home'[d] = home[d] /\ owner' = owner
             /\ \A o \in {"guard", "erase_lock", "erase_cond"} : Has(d, o)' <=> Has(d, o)
             /\ \A o \in {"is_owned_by", "has_waiter"} :
                    Has(d, o)' <=> (Has(d, o) /\ ~(o = op /\ d = c)) \/ (d = c /\ <<o, c>> \in new)
             /\ Releasing(home[d])' <=> Releasing(home[d])
             /\ HandedOn(d)' <=> HandedOn(d) \/ (d = c /\ <<"hand_off", w>> \in new)
             /\ Pushing(d)' <=> Pushing(d)
             /\ Roused(d)' <=> Roused(d) \/ (d = c /\ <<"schedule", w>> \in new)
             /\ d \in cancelled => d \in cancelled'
             /\ Named(waiters', d) <=> Named(waiters, d)
             /\ Named(cwaiters', d) <=> Named(cwaiters, d)
  <2>1. x = <<op, c>> /\ c \in Coros
    BY <1>b, <1>v
  <2> HIDE DEF x, c
  <2>2. /\ <<"release">> # x /\ <<"push", Now(d)>> # x /\ <<"hand_off", Now(d)>> # x
        /\ <<"release">> \notin new
        /\ \A o \in {"guard", "erase_lock", "erase_cond"} : <<o, d>> # x /\ <<o, d>> \notin new
        /\ \A o \in {"is_owned_by", "has_waiter"} :
               (<<o, d>> = x <=> o = op /\ d = c) /\ (<<o, d>> \in new <=> d = c /\ <<o, c>> \in new)
    BY <1>v, <2>1
  <2>3. /\ <<"schedule", Now(d)>> \in new <=> d = c /\ <<"schedule", w>> \in new
        /\ <<"hand_off", Now(d)>> \in new <=> d = c /\ <<"hand_off", w>> \in new
    BY <1>v DEF Now
  <2> QED
    BY <1>4, <1>v, <2>2, <2>3 DEF View
<1>o. ASSUME NEW op \in {"is_owned_by", "has_waiter"}, At(l, op),
             NEW new, new \in {{}, {<<"schedule", w>>}, {<<"has_waiter", c>>}, {<<"hand_off", w>>}}
      PROVE  /\ Others({x}, new, SemOps \cup EventOps \cup FutureOps, {"lock", "cond"})
             /\ \A y \in {x} \cup new : y[1] \notin {"release", "guard", "erase_lock", "push"}
             /\ \A y \in new : y[1] # "push"
  <2>1. x = <<op, c>> /\ c \in Coros /\ st[c] = "cond"
    BY <1>b, <1>o
  <2> HIDE DEF x, c
  <2>2. \A y \in {x} \cup new : y[1] \in {op, "schedule", "has_waiter", "hand_off"}
    BY <1>o, <2>1
  <2>3. \A d \in Coros : <<"schedule", Now(d)>> \in new => st[d] \in {"lock", "cond"}
    BY <1>o, <2>1 DEF Now
  <2> QED
    BY <2>2, <2>3 DEF Others, SemOps, EventOps, FutureOps
<1>c. ASSUME NEW d \in Coros, d # c, NEW op \in {"is_owned_by", "has_waiter"}, At(l, op), NEW new, View(l, {x}, new, d),
             new \in {{}, {<<"schedule", w>>}, {<<"has_waiter", c>>}, {<<"hand_off", w>>}}
      PROVE  Local(d)'
  <2> HIDE DEF x, c, w
  <2>1. Unaffected(d)
    BY <1>c, <1>v DEF Unaffected
  <2> QED
    BY <1>3, <2>1, LocalKept
<1>1. ASSUME At(l, "is_owned_by"),
             Then(l, IF owner = c THEN <<<<"schedule", w>>>> ELSE <<<<"has_waiter", c>>>>)
      PROVE  IInv'
  <2> DEFINE y == IF owner = c THEN <<"schedule", w>> ELSE <<"has_waiter", c>>
             new == {y}
  <2>0. /\ x = <<"is_owned_by", c>> /\ c \in Coros /\ home[c] = l /\ st[c] = "cond" /\ ToSet(prog[l]) = {x}
        /\ c \in cancelled /\ w \in Current /\ w[2] <= waits[w[1]] /\ ~Pushing(c)
        /\ Has(c, "is_owned_by") /\ ~Has(c, "erase_cond") /\ ~Has(c, "has_waiter")
    BY <1>1, <1>b
  <2>1. Then(l, <<y>>)
    BY <1>1
  <2>2. y \in Instr /\ y[1] \in {"schedule", "has_waiter"} /\ y[2] = IF owner = c THEN w ELSE c
    BY <2>0, IsInstr DEF OnWaiter, OnCoro
  <2>3. Proper(l, y)
    <3>1. CASE owner = c
      <4>1. y[1] = "schedule" /\ y[2] = w
        BY <3>1
      <4>2. \A d \in Coros : y = <<"schedule", Now(d)>> => Suspended(d) /\ (Roused(d) => d \in cancelled)
        BY <2>0, <3>1 DEF Now, Suspended
      <4> HIDE DEF y
      <4> QED
        BY <2>0, <4>1, <4>2 DEF Proper, OnCoro
    <3>2. CASE owner # c
      <4>1. y[1] = "has_waiter" /\ y[2] = c /\ cancelled' = cancelled
        BY <1>4, <3>2 DEF Still
      <4>2. \A d \in Coros : y # <<"schedule", Now(d)>>
        BY <3>2
      <4> HIDE DEF y
      <4> QED
        BY <2>0, <4>1, <4>2 DEF Proper, OnCoro, OnWaiter, Phase
    <3> QED
      BY <3>1, <3>2
  <2>4. Plain(l, {x}, new)
    <3> HIDE DEF y
    <3> QED
      BY <1>0, <1>1, <1>4, <2>1, <2>2, <2>3, LastPlain DEF Ordinary, Alone
  <2>5. new \in {{}, {<<"schedule", w>>}, {<<"has_waiter", c>>}, {<<"hand_off", w>>}}
    OBVIOUS
  <2>6. /\ <<"schedule", w>> \in new <=> owner = c
        /\ <<"has_waiter", c>> \in new <=> owner # c
        /\ <<"hand_off", w>> \notin new /\ <<"is_owned_by", c>> \notin new
    OBVIOUS
  <2> HIDE DEF y, new, x, c, w
  <2>7. \A d \in Coros : <<"hand_off", Now(d)>> \in new => ~HandedOn(d)
    <3> SUFFICES ASSUME NEW d \in Coros, <<"hand_off", Now(d)>> \in new PROVE FALSE
      OBVIOUS
    <3>1. <<"hand_off", Now(d)>>[1] = "hand_off"
      OBVIOUS
    <3> QED
      BY <2>2, <3>1 DEF new
  <2>8. /\ Others({x}, new, SemOps \cup EventOps \cup FutureOps, {"lock", "cond"})
        /\ \A z \in {x} \cup new : z[1] \notin {"release", "guard", "erase_lock", "push"}
        /\ \A z \in new : z[1] # "push"
    BY <1>1, <1>o, <2>5
  <2>9. ASSUME NEW d \in Coros PROVE Local(d)'
    <3>1. View(l, {x}, new, d)
      BY <1>0, <2>4, <2>8, PlainView
    <3>2. CASE d # c
      BY <1>1, <1>c, <2>5, <3>1, <3>2
    <3>3. CASE d = c
      <4>1. /\ st'[d] = st[d] /\ home'[d] = home[d] /\ owner' = owner
            /\ \A o \in {"guard", "erase_lock", "erase_cond"} : Has(d, o)' <=> Has(d, o)
            /\ \A o \in {"is_owned_by", "has_waiter"} :
                   Has(d, o)' <=> (Has(d, o) /\ ~(o = "is_owned_by" /\ d = c)) \/ (d = c /\ <<o, c>> \in new)
            /\ Releasing(home[d])' <=> Releasing(home[d])
            /\ HandedOn(d)' <=> HandedOn(d) \/ (d = c /\ <<"hand_off", w>> \in new)
            /\ Pushing(d)' <=> Pushing(d)
            /\ Roused(d)' <=> Roused(d) \/ (d = c /\ <<"schedule", w>> \in new)
            /\ d \in cancelled => d \in cancelled'
            /\ Named(waiters', d) <=> Named(waiters, d)
            /\ Named(cwaiters', d) <=> Named(cwaiters, d)
        BY <1>1, <1>v, <2>5, <3>1
      <4>2. ~Has(d, "is_owned_by")' /\ (Has(d, "has_waiter")' <=> owner # c) /\ ~Has(d, "erase_cond")'
            /\ (HandedOn(d)' <=> HandedOn(d)) /\ (Roused(d)' <=> Roused(d) \/ owner = c)
        BY <2>0, <2>6, <3>3, <4>1
      <4>0. Named(waiters, d)' = Named(waiters', d) /\ Named(cwaiters, d)' = Named(cwaiters', d)
        BY DEF Named
      <4>3. (Asking(d) <=> owner # d) /\ (Asking(d)' <=> owner # d)
        BY <2>0, <3>3, <4>1, <4>2 DEF Asking
      <4>4. (Listed(d)' <=> Listed(d)) /\ Enrolled(d)'
        BY <2>0, <3>3, <4>0, <4>1, <4>2, <4>3 DEF Listed, Enrolled
      <4>5. ~Releasing(home[d])
        <5>1. <<"release">> # x
          BY <2>0
        <5> QED
          BY <2>0, <3>3, <5>1 DEF Releasing
      <4>6. Local(d)
        BY <1>3
      <4> QED
        BY <2>0, <3>3, <4>0, <4>1, <4>2, <4>3, <4>4, <4>5, <4>6 DEF Local
    <3> QED
      BY <3>2, <3>3
  <2> QED
    BY <1>4, <2>4, <2>7, <2>8, <2>9, LockSame
<1>2. ASSUME At(l, "has_waiter"),
             Then(l, IF \E v \in ToSet(waiters) : v[1] = c THEN <<>> ELSE <<<<"hand_off", w>>>>)
      PROVE  IInv'
  <2> DEFINE y == <<"hand_off", w>>
             new == IF Named(waiters, c) THEN {} ELSE {y}
  <2>0. /\ x = <<"has_waiter", c>> /\ c \in Coros /\ home[c] = l /\ st[c] = "cond" /\ ToSet(prog[l]) = {x}
        /\ c \in cancelled /\ w \in Current /\ w[2] <= waits[w[1]] /\ ~Pushing(c)
        /\ Has(c, "has_waiter") /\ ~Has(c, "erase_cond") /\ ~Has(c, "is_owned_by")
        /\ l \in Active /\ Tail(prog[l]) = <<>>
    BY <1>2, <1>b
  <2>2. y \in Instr /\ y[1] = "hand_off" /\ y[2] = w
    BY <2>0, IsInstr DEF OnWaiter
  <2>3. Proper(l, y)
    <3>2. \A d \in Coros : y # <<"schedule", Now(d)>>
      OBVIOUS
    <3> HIDE DEF y
    <3> QED
      BY <2>0, <2>2, <3>2 DEF Proper, OnCoro, OnWaiter
  <2>4. Plain(l, {x}, new)
    <3>1. CASE Named(waiters, c)
      <4>1. Then(l, Rest(l))
        BY <1>2, <2>0, <3>1 DEF Named, Rest
      <4>2. Plain(l, {x}, {})
        BY <1>0, <1>2, <1>4, <4>1, PopPlain DEF Ordinary
      <4> QED
        BY <3>1, <4>2
    <3>2. CASE ~Named(waiters, c)
      <4>1. Then(l, <<y>>)
        BY <1>2, <3>2 DEF Named
      <4> HIDE DEF y
      <4>2. Plain(l, {x}, {y})
        BY <1>0, <1>2, <1>4, <2>2, <2>3, <4>1, LastPlain DEF Ordinary, Alone
      <4> QED
        BY <3>2, <4>2
    <3> QED
      BY <3>1, <3>2
  <2>5. new \in {{}, {<<"schedule", w>>}, {<<"has_waiter", c>>}, {<<"hand_off", w>>}}
    OBVIOUS
  <2>6. /\ <<"schedule", w>> \notin new /\ <<"has_waiter", c>> \notin new
        /\ <<"hand_off", w>> \in new <=> ~Named(waiters, c)
        /\ <<"is_owned_by", c>> \notin new
    OBVIOUS
  <2>a. ~HandedOn(c)
    <3> SUFFICES ASSUME HandedOn(c) PROVE FALSE
      OBVIOUS
    <3>1. PICK k \in Loops : <<"hand_off", w>> \in ToSet(prog[k])
      BY DEF HandedOn
    <3>2. Unraced
      BY <1>0 DEF Base, Wakes
    <3>4. k = l
      BY <2>0, <3>1, <3>2, OwnNotifier
    <3>5. <<"hand_off", w>> # x
      BY <2>0
    <3> QED
      BY <2>0, <3>1, <3>4, <3>5
  <2>b. \A z \in new : z = <<"hand_off", w>>
    OBVIOUS
  <2> HIDE DEF y, new, x, c, w
  <2>7. \A d \in Coros : <<"hand_off", Now(d)>> \in new => ~HandedOn(d)
    BY <2>a, <2>b DEF Now, w
  <2>8. /\ Others({x}, new, SemOps \cup EventOps \cup FutureOps, {"lock", "cond"})
        /\ \A z \in {x} \cup new : z[1] \notin {"release", "guard", "erase_lock", "push"}
        /\ \A z \in new : z[1] # "push"
    BY <1>2, <1>o, <2>5
  <2>9. ASSUME NEW d \in Coros PROVE Local(d)'
    <3>1. View(l, {x}, new, d)
      BY <1>0, <2>4, <2>8, PlainView
    <3>2. CASE d # c
      BY <1>2, <1>c, <2>5, <3>1, <3>2
    <3>3. CASE d = c
      <4>1. /\ st'[d] = st[d] /\ home'[d] = home[d] /\ owner' = owner
            /\ \A o \in {"guard", "erase_lock", "erase_cond"} : Has(d, o)' <=> Has(d, o)
            /\ \A o \in {"is_owned_by", "has_waiter"} :
                   Has(d, o)' <=> (Has(d, o) /\ ~(o = "has_waiter" /\ d = c)) \/ (d = c /\ <<o, c>> \in new)
            /\ Releasing(home[d])' <=> Releasing(home[d])
            /\ HandedOn(d)' <=> HandedOn(d) \/ (d = c /\ <<"hand_off", w>> \in new)
            /\ Pushing(d)' <=> Pushing(d)
            /\ Roused(d)' <=> Roused(d) \/ (d = c /\ <<"schedule", w>> \in new)
            /\ d \in cancelled => d \in cancelled'
            /\ Named(waiters', d) <=> Named(waiters, d)
            /\ Named(cwaiters', d) <=> Named(cwaiters, d)
        BY <1>2, <1>v, <2>5, <3>1
      <4>2. ~Has(d, "is_owned_by")' /\ ~Has(d, "has_waiter")' /\ ~Has(d, "erase_cond")'
            /\ (HandedOn(d)' <=> ~Named(waiters, d)) /\ (Roused(d)' <=> Roused(d))
        BY <2>0, <2>6, <2>a, <3>3, <4>1
      <4>0. Named(waiters, d)' = Named(waiters', d) /\ Named(cwaiters, d)' = Named(cwaiters', d)
        BY DEF Named
      <4>6. Local(d)
        BY <1>3
      <4>3. owner # d /\ ~Named(cwaiters, d) /\ Asking(d)
        BY <2>0, <3>3, <4>6 DEF Local, Asking
      <4>4. Listed(d)' /\ Listed(d) /\ Enrolled(d)'
        BY <2>0, <3>3, <4>0, <4>1, <4>2, <4>3 DEF Listed, Enrolled
      <4> QED
        BY <2>0, <3>3, <4>0, <4>1, <4>2, <4>3, <4>4, <4>6 DEF Local
    <3> QED
      BY <3>2, <3>3
  <2> QED
    BY <1>4, <2>4, <2>7, <2>8, <2>9, LockSame
<1> QED
  <2>1. w = <<c, epoch[c]>>
    BY DEF Now
  <2> QED
    BY <1>1, <1>2, <2>1 DEF RequestLock

-----------------------------------------------------------------------------
(* acquire() and release().                                                *)

\* A step between calls moves no instruction.
LEMMA SameMoves ==
    ASSUME FrameTypes, home' = home, prog' = prog, \A k \in Loops : Shape(k),
           \A c \in Coros : Frozen(c), NEW l \in Loops
    PROVE  Moves(l, {}, {})
<1>1. ASSUME NEW k \in Loops PROVE Shape(k)'
  <2>1. Gone(k) \subseteq Gone(k)'
    BY DEF Gone, Frozen
  <2>2. \A c \in Gone(k) : holds'[c] = holds[c] /\ (c \in inside' <=> c \in inside)
    BY DEF Gone, Frozen
  <2>3. Form(Gone(k), holds, inside, prog[k])
    BY DEF Shape
  <2>4. Form(Gone(k)', holds', inside', prog[k])
    BY <2>1, <2>2, <2>3, FormKept
  <2> QED
    BY <2>4 DEF Shape
<1> QED
  BY <1>1 DEF Moves, FrameTypes

\* A step between calls, as an instruction that changes nothing.
LEMMA SamePlain ==
    ASSUME Base, NEW l \in Loops, l \in Active, Idle(l), prog' = prog, Still, \A c \in Coros : Frozen(c)
    PROVE  Plain(l, {}, {})
<1>1. FrameTypes /\ \A k \in Loops : Shape(k)
  BY DEF Base, Calling
<1>2. Moves(l, {}, {})
  BY <1>1, SameMoves DEF Still
<1>3. Flagged
  BY DEF Flagged, Still, Base, FrameTypes, Wakes
<1>4. ToSet(prog[l]) = {}
  BY NoWaiters DEF Idle
<1> QED
  BY <1>2, <1>3, <1>4 DEF Plain, Still

\* A coroutine that begins a call: its loop is in no other.
LEMMA IdleFacts ==
    ASSUME Base, NEW c \in Coros, Calls(c)
    PROVE  /\ home[c] \in Loops /\ home[c] \in Active /\ st[c] = "run" /\ Idle(home[c])
           /\ ToSet(prog[home[c]]) = {} /\ (\A op : ~Has(c, op)) /\ ~Releasing(home[c]) /\ ~Pushing(c)
           /\ epoch[c] = 0 /\ ~Roused(c) /\ ~HandedOn(c)
<1>1. home[c] \in Loops /\ home[c] \in Active /\ st[c] = "run" /\ Idle(home[c])
  BY DEF Base, FrameTypes, Active, Calls
<1>2. ToSet(prog[home[c]]) = {}
  BY <1>1, NoWaiters DEF Idle
<1>3. (\A op : ~Has(c, op)) /\ ~Releasing(home[c]) /\ ~Pushing(c)
  BY <1>2 DEF Has, Releasing, Pushing
<1>4. epoch[c] = 0
  BY <1>1, <1>3 DEF Base, Epochs
<1>5. ~Roused(c)
  BY <1>1 DEF Base, Wakes, Suspended
<1>6. ~HandedOn(c)
  <2>1. \A k \in Loops : <<"hand_off", <<c, 0>>>> \notin ToSet(prog[k])
    BY Unknown DEF OnWaiter
  <2> QED
    BY <1>4, <2>1 DEF HandedOn, Now
<1> QED
  BY <1>1, <1>2, <1>3, <1>4, <1>5, <1>6

\* acquire() of a free lock, or of one its caller holds.
LEMMA AcquireNowStep ==
    ASSUME IInv, Unraced', NEW c \in Coros, AcquireNow(c), OnLock
    PROVE  IInv'
<1> DEFINE l == home[c]
<1>0. Base /\ LockInv /\ FrameTypes /\ Owning
  BY DEF IInv, Base, LockInv
<1>1. Calls(c) /\ UNCHANGED <<frames, ready, prog, waiters, cwaiters>> /\ holds' = [holds EXCEPT ![c] = @ + 1]
  BY DEF AcquireNow
<1>2. /\ l \in Loops /\ l \in Active /\ st[c] = "run" /\ Idle(l)
      /\ (\A op : ~Has(c, op)) /\ ~Releasing(l)
  BY <1>0, <1>1, IdleFacts
<1>3. Still /\ (\A d \in Coros : Frozen(d)) /\ UNCHANGED <<waiters, cwaiters, prog>>
  BY <1>1, <1>2 DEF frames, Still, Frozen, OnLock, semVars
<1>4. Plain(l, {}, {})
  BY <1>0, <1>2, <1>3, SamePlain
<1>5. List(waiters) /\ List(cwaiters) /\ \A d \in Coros : Local(d)
  BY <1>0, LocalOf
<1>v. ASSUME NEW d \in Coros
      PROVE  /\ st'[d] = st[d] /\ home'[d] = home[d] /\ home[d] \in Loops
             /\ \A op \in {"guard", "erase_lock", "erase_cond", "is_owned_by", "has_waiter"} : Has(d, op)' <=> Has(d, op)
             /\ (Releasing(home[d])' <=> Releasing(home[d])) /\ (HandedOn(d)' <=> HandedOn(d))
             /\ (Pushing(d)' <=> Pushing(d)) /\ (Roused(d)' <=> Roused(d)) /\ (d \in cancelled => d \in cancelled')
             /\ (Named(waiters', d) <=> Named(waiters, d)) /\ (Named(cwaiters', d) <=> Named(cwaiters, d))
  <2>1. View(l, {}, {}, d)
    BY <1>0, <1>2, <1>4, PlainView
  <2> HIDE DEF l
  <2> QED
    BY <1>3, <2>1 DEF View
<1>e. \A d \in Coros : (Enrolled(d)' <=> Enrolled(d)) /\ (Leaving(d)' <=> Leaving(d))
  BY <1>v DEF Enrolled, Leaving
<1>r. \A k \in Loops : Releasing(k)' <=> Releasing(k)
  BY <1>3 DEF Releasing
<1>n. ~Enrolled(c) /\ ~Leaving(c)
  BY <1>2 DEF Enrolled, Leaving
<1>h. /\ holds \in [Coros -> Nat] /\ holds' \in [Coros -> Nat] /\ holds'[c] = holds[c] + 1
      /\ \A d \in Coros : d # c => holds'[d] = holds[d]
  BY <1>0, <1>1 DEF Owning
<1>6. ASSUME owner = c, recursion' = recursion + 1, UNCHANGED <<locked, owner>>
      PROVE  Owning' /\ \A d \in Coros : Local(d)'
  <2>1. \A d \in Coros : owner' = d => Counts(d)'
    BY <1>0, <1>6, <1>e, <1>h, <1>n DEF Owning, Counts
  <2>2. \A d \in Coros : holds'[d] > 0 => owner' = d /\ ~Enrolled(d)'
    BY <1>0, <1>6, <1>e, <1>h, <1>n DEF Owning
  <2>3. Owning'
    <3>1. \A k \in Loops : Releasing(k)' => owner' \in Coros /\ home'[owner'] = k
      BY <1>0, <1>6, <1>r, <1>v DEF Owning
    <3>2. \A d \in Coros : Has(d, "guard")' => IF st'[d] = "run" THEN owner' = d ELSE holds'[d] = 0
      BY <1>0, <1>2, <1>6, <1>h, <1>v DEF Owning
    <3> QED
      BY <1>0, <1>6, <1>h, <2>1, <2>2, <3>1, <3>2, LockAssumption DEF Owning
  <2>4. \A d \in Coros : Local(d)'
    BY <1>5, <1>6, <1>v, LocalKept DEF Unaffected
  <2> QED
    BY <2>3, <2>4
<1>7. ASSUME owner # c, ~locked, locked' = TRUE, owner' = c, UNCHANGED recursion
      PROVE  Owning' /\ \A d \in Coros : Local(d)'
  <2>a. owner = NoCoro /\ recursion = 0 /\ NoCoro \notin Coros
    BY <1>0, <1>7, LockAssumption DEF Owning
  <2>b. holds[c] \in Nat /\ ~(holds[c] > 0)
    BY <1>0, <1>7, <1>h DEF Owning
  <2>0. owner = NoCoro /\ recursion = 0 /\ NoCoro \notin Coros /\ holds[c] = 0
    BY <2>a, <2>b
  <2>1. \A d \in Coros : owner' = d => Counts(d)'
    BY <1>7, <1>e, <1>h, <1>n, <2>0 DEF Counts
  <2>2. \A d \in Coros : holds'[d] > 0 => owner' = d /\ ~Enrolled(d)'
    BY <1>0, <1>7, <1>e, <1>h, <1>n, <2>0 DEF Owning
  <2>3. Owning'
    <3>1. \A k \in Loops : ~Releasing(k)'
      BY <1>0, <1>r, <2>0 DEF Owning
    <3>2. \A d \in Coros : Has(d, "guard")' => IF st'[d] = "run" THEN owner' = d ELSE holds'[d] = 0
      BY <1>0, <1>2, <1>7, <1>h, <1>v, <2>0 DEF Owning
    <3> QED
      BY <1>7, <1>h, <2>0, <2>1, <2>2, <3>1, <3>2, LockAssumption DEF Owning
  <2>4. ASSUME NEW d \in Coros PROVE Local(d)'
    <3>1. CASE d # c
      <4>1. owner' # d /\ owner # d
        BY <1>7, <2>0, <3>1
      <4> QED
        BY <1>5, <1>v, <4>1, LocalKept DEF Unaffected
    <3>2. CASE d = c
      <4>0. Named(waiters, d)' = Named(waiters', d) /\ Named(cwaiters, d)' = Named(cwaiters', d)
        BY DEF Named
      <4>1. Local(d) /\ st'[d] = "run" /\ ~Enrolled(d)' /\ ~Has(d, "has_waiter")' /\ owner # d
        BY <1>2, <1>5, <1>7, <1>e, <1>n, <1>v, <3>2
      <4> QED
        BY <1>2, <1>e, <1>v, <3>2, <4>0, <4>1 DEF Local
    <3> QED
      BY <3>1, <3>2
  <2> QED
    BY <2>3, <2>4
<1>8. Owning' /\ \A d \in Coros : Local(d)'
  BY <1>6, <1>7 DEF AcquireNow
<1>9. Joined(waiters, waiters', {"lock", "cond"}) /\ Joined(cwaiters, cwaiters', {"cond"})
      /\ List(waiters') /\ List(cwaiters')
  BY <1>3, <1>5 DEF Joined
<1>10. LockInv'
  <2>1. (\A y \in {} : y[1] # "push") /\ \A d \in Coros : <<"hand_off", Now(d)>> \in {} => ~HandedOn(d)
    OBVIOUS
  <2> QED
    BY <1>0, <1>2, <1>4, <1>8, <1>9, <2>1, PlainLocal
<1>11. Others({}, {}, SemOps \cup EventOps \cup FutureOps, {"lock", "cond"})
  BY DEF Others
<1> QED
  BY <1>2, <1>4, <1>10, <1>11, LockOnly

\* The owner o gives the lock back once, with old on l.
Dropping(l, o, old) ==
    /\ o \in Coros /\ home[o] = l /\ owner = o
    /\ holds' \in [Coros -> Nat] /\ \A d \in Coros : d # o => holds'[d] = holds[d]
    /\ holds'[o] <= holds[o] /\ recursion = holds'[o] /\ cwaiters' = cwaiters
    /\ \A y \in ToSet(prog[l]) : y[1] \notin {"push", "has_waiter", "is_owned_by"}
    /\ \A y \in old : y = <<"release">> \/ y = <<"guard", o>>
    /\ Releasing(l) => <<"release">> \in old
    /\ Has(o, "guard") => <<"guard", o>> \in old \/ st[o] = "gone"
    /\ st[o] \in {"lock", "cond"} => Listed(o)

DropView(d, old, new) ==
    /\ st'[d] = st[d] /\ home'[d] = home[d] /\ home[d] \in Loops
    /\ \A op \in {"erase_lock", "erase_cond", "is_owned_by", "has_waiter"} : Has(d, op)' <=> Has(d, op)
    /\ Has(d, "guard")' <=> Has(d, "guard") /\ <<"guard", d>> \notin old
    /\ ~Releasing(home[d])' /\ (HandedOn(d)' <=> HandedOn(d)) /\ ~Pushing(d) /\ ~Pushing(d)'
    /\ (Roused(d)' <=> Roused(d) \/ <<"schedule", Now(d)>> \in new) /\ (d \in cancelled => d \in cancelled')
    /\ (Enrolled(d)' <=> Enrolled(d)) /\ ~Leaving(d)'

\* What the coroutines see of a release.
LEMMA DropSees ==
    ASSUME Base, LockInv, NEW l \in Loops, NEW o, NEW old, NEW new, Dropping(l, o, old), Plain(l, old, new),
           \A y \in new : y[1] = "schedule"
    PROVE  /\ \A d \in Coros : DropView(d, old, new)
           /\ \A k \in Loops : ~Releasing(k)'
<1>0. Owning /\ FrameTypes /\ \A d \in Coros : Local(d)
  BY LocalOf DEF LockInv, Base
<1>1. ASSUME NEW d \in Coros PROVE DropView(d, old, new)
  <2>1. View(l, old, new, d)
    BY PlainView
  <2>2. <<"release">> \notin new /\ <<"hand_off", Now(d)>> \notin new /\ <<"guard", d>> \notin new
        /\ \A op \in {"erase_lock", "erase_cond", "is_owned_by", "has_waiter"} : <<op, d>> \notin new
    <3>1. /\ <<"release">>[1] = "release" /\ <<"hand_off", Now(d)>>[1] = "hand_off"
          /\ \A op : <<op, d>>[1] = op
      OBVIOUS
    <3> QED
      BY <3>1
  <2>3. /\ <<"hand_off", Now(d)>> \notin old
        /\ \A op \in {"erase_lock", "erase_cond", "is_owned_by", "has_waiter"} : <<op, d>> \notin old
    BY DEF Dropping
  <2>4. ~Pushing(d)
    <3> SUFFICES ASSUME Pushing(d) PROVE FALSE
      OBVIOUS
    <3>1. owner = d
      BY <1>0 DEF Local
    <3>2. <<"push", Now(d)>> \in ToSet(prog[l]) /\ <<"push", Now(d)>>[1] = "push"
      BY <3>1 DEF Pushing, Dropping
    <3> QED
      BY <3>2 DEF Dropping
  <2>5. Releasing(home[d]) => home[d] = l /\ <<"release">> \in old
    <3>1. home[d] \in Loops
      BY <1>0 DEF FrameTypes
    <3>2. Releasing(home[d]) => home[owner] = home[d]
      BY <1>0, <3>1 DEF Owning
    <3> QED
      BY <3>2 DEF Dropping
  <2>6. /\ st'[d] = st[d] /\ home'[d] = home[d] /\ home[d] \in Loops
        /\ \A op \in {"erase_lock", "erase_cond", "is_owned_by", "has_waiter"} : Has(d, op)' <=> Has(d, op)
        /\ Has(d, "guard")' <=> Has(d, "guard") /\ <<"guard", d>> \notin old
        /\ ~Releasing(home[d])' /\ (HandedOn(d)' <=> HandedOn(d)) /\ ~Pushing(d)'
        /\ (Roused(d)' <=> Roused(d) \/ <<"schedule", Now(d)>> \in new) /\ (d \in cancelled => d \in cancelled')
    BY <2>1, <2>2, <2>3, <2>4, <2>5 DEF View
  <2>7. Enrolled(d)' <=> Enrolled(d)
    BY <2>6 DEF Enrolled
  <2>8. ~(Has(d, "guard")' /\ st'[d] = "run")
    <3> SUFFICES ASSUME Has(d, "guard"), <<"guard", d>> \notin old, st[d] = "run" PROVE FALSE
      BY <2>6
    <3>1. owner = d
      BY <1>0 DEF Owning
    <3> QED
      BY <3>1 DEF Dropping
  <2> QED
    BY <2>4, <2>6, <2>7, <2>8 DEF DropView, Leaving
<1>2. \A k \in Loops : ~Releasing(k)'
  <2> SUFFICES ASSUME NEW k \in Loops, Releasing(k)' PROVE FALSE
    OBVIOUS
  <2>1. DropView(o, old, new) /\ home[o] = l
    BY <1>1 DEF Dropping
  <2>2. k # l
    BY <2>1 DEF DropView, Releasing
  <2>3. prog'[k] = prog[k]
    BY <2>2 DEF Plain, Moves
  <2>4. Releasing(k)
    BY <2>3 DEF Releasing
  <2> QED
    BY <1>0, <2>2, <2>4 DEF Owning, Dropping
<1> QED
  BY <1>1, <1>2

\* Those that the lock does not go to wait as before.
LEMMA DropOther ==
    ASSUME Base, LockInv, NEW l \in Loops, NEW o, NEW old, NEW new, Dropping(l, o, old),
           NEW d \in Coros, DropView(d, old, new), owner' # d, Named(waiters', d) <=> Named(waiters, d),
           <<"schedule", Now(d)>> \notin new
    PROVE  Local(d)'
<1>0. Local(d)
  BY LocalOf
<1>1. Named(waiters, d)' = Named(waiters', d) /\ Named(cwaiters, d)' = Named(cwaiters', d) /\ cwaiters' = cwaiters
  BY DEF Named, Dropping
<1>2. Asking(d) => Asking(d)'
  BY DEF Asking, DropView
<1>3. Listed(d) => Listed(d)'
  BY <1>1, <1>2 DEF Listed, DropView
<1>4. st[d] \in {"lock", "cond"} => Listed(d)
  BY <1>0 DEF Local, Dropping
<1> QED
  BY <1>0, <1>1, <1>3, <1>4 DEF Local, DropView

\* A release of a lock that is held more than once.
LEMMA DropKeep ==
    ASSUME Base, LockInv, NEW l \in Loops, NEW o, NEW old, Dropping(l, o, old), Plain(l, old, {}),
           recursion > 0, recursion' = recursion - 1, UNCHANGED <<locked, owner, waiters>>
    PROVE  LockInv'
<1>0. Owning /\ (\A d \in Coros : Local(d)) /\ List(waiters) /\ List(cwaiters)
  BY LocalOf DEF LockInv
<1>1. (\A d \in Coros : DropView(d, old, {})) /\ \A k \in Loops : ~Releasing(k)'
  BY DropSees
<1>2. /\ o \in Coros /\ owner = o /\ owner' = o /\ cwaiters' = cwaiters
      /\ holds' \in [Coros -> Nat] /\ \A d \in Coros : d # o => holds'[d] = holds[d]
      /\ holds'[o] <= holds[o] /\ recursion = holds'[o]
  BY DEF Dropping
<1>3. holds'[o] > 0 /\ holds[o] > 0 /\ holds[o] \in Nat /\ recursion \in Nat
  BY <1>0, <1>2 DEF Owning
<1>4. ~Enrolled(o)
  BY <1>0, <1>2, <1>3 DEF Owning
<1>5. Owning'
  <2>1. \A d \in Coros : owner' = d => Counts(d)'
    BY <1>1, <1>2, <1>3, <1>4 DEF Counts, DropView
  <2>2. \A d \in Coros : holds'[d] > 0 => owner' = d /\ ~Enrolled(d)'
    BY <1>0, <1>1, <1>2, <1>4 DEF Owning, DropView
  <2>3. ASSUME NEW d \in Coros, Has(d, "guard")'
        PROVE  IF st'[d] = "run" THEN owner' = d ELSE holds'[d] = 0
    <3>1. st'[d] # "run" /\ Has(d, "guard") /\ st[d] # "run"
      BY <1>1, <2>3 DEF DropView, Leaving
    <3>2. holds[d] = 0
      BY <1>0, <3>1 DEF Owning
    <3> QED
      BY <1>2, <1>3, <3>1, <3>2
  <2> QED
    BY <1>0, <1>1, <1>2, <1>3, <2>1, <2>2, <2>3, LockAssumption DEF Owning
<1>6. ASSUME NEW d \in Coros PROVE Local(d)'
  <2>1. CASE d # o
    BY <1>1, <1>2, <2>1, DropOther
  <2>2. CASE d = o
    <3>1. Named(waiters, d)' = Named(waiters, d) /\ Named(cwaiters, d)' = Named(cwaiters, d)
      BY <1>2 DEF Named
    <3>2. ~Enrolled(d) /\ ~Enrolled(d)' /\ Local(d) /\ DropView(d, old, {}) /\ st[d] \notin {"lock", "cond"}
      BY <1>0, <1>1, <1>4, <2>2 DEF DropView, Enrolled
    <3> QED
      BY <1>2, <2>2, <3>1, <3>2 DEF Local, DropView
  <2> QED
    BY <2>1, <2>2
<1>7. Joined(waiters, waiters', {"lock", "cond"}) /\ Joined(cwaiters, cwaiters', {"cond"})
      /\ List(waiters') /\ List(cwaiters')
  BY <1>0, <1>2 DEF Joined
<1> QED
  BY <1>5, <1>6, <1>7, PlainLocal

\* Nobody holds the lock any more.
LEMMA NoHolder ==
    ASSUME LockInv, NEW l \in Loops, NEW o, NEW old, Dropping(l, o, old), recursion = 0
    PROVE  holds' \in [Coros -> Nat] /\ \A d \in Coros : holds'[d] = 0
<1>1. Owning
  BY DEF LockInv
<1>2. /\ o \in Coros /\ owner = o
      /\ holds' \in [Coros -> Nat] /\ \A d \in Coros : d # o => holds'[d] = holds[d]
      /\ recursion = holds'[o]
  BY DEF Dropping
<1>3. \A d \in Coros : holds[d] \in Nat /\ (holds[d] > 0 => owner = d)
  BY <1>1 DEF Owning
<1> QED
  BY <1>2, <1>3

\* The last release, with nobody waiting.
LEMMA DropFree ==
    ASSUME Base, LockInv, NEW l \in Loops, NEW o, NEW old, Dropping(l, o, old), Plain(l, old, {}),
           recursion = 0, waiters = <<>>, owner' = NoCoro, locked' = FALSE, UNCHANGED <<recursion, waiters>>
    PROVE  LockInv'
<1>0. Owning /\ (\A d \in Coros : Local(d)) /\ List(waiters) /\ List(cwaiters)
  BY LocalOf DEF LockInv
<1>1. (\A d \in Coros : DropView(d, old, {})) /\ \A k \in Loops : ~Releasing(k)'
  BY DropSees
<1>2. o \in Coros /\ cwaiters' = cwaiters
  BY DEF Dropping
<1>3. holds' \in [Coros -> Nat] /\ \A d \in Coros : holds'[d] = 0
  BY NoHolder
<1>4. Owning'
  <2>3. ASSUME NEW d \in Coros, Has(d, "guard")'
        PROVE  IF st'[d] = "run" THEN owner' = d ELSE holds'[d] = 0
    <3>1. st'[d] # "run"
      BY <1>1, <2>3 DEF DropView, Leaving
    <3> QED
      BY <1>3, <3>1
  <2>4. /\ recursion' \in Nat /\ owner' \in Coros \cup {NoCoro} /\ locked' = (owner' # NoCoro)
        /\ owner' = NoCoro => recursion' = 0
    BY <1>0 DEF Owning
  <2>5. \A d \in Coros : owner' # d
    BY LockAssumption
  <2>6. \A d \in Coros : ~(holds'[d] > 0)
    BY <1>3
  <2> QED
    BY <1>1, <1>3, <2>3, <2>4, <2>5, <2>6 DEF Owning
<1>5. ASSUME NEW d \in Coros PROVE Local(d)'
  <2>1. owner' # d
    BY LockAssumption
  <2> QED
    BY <1>1, <2>1, DropOther
<1>6. Joined(waiters, waiters', {"lock", "cond"}) /\ Joined(cwaiters, cwaiters', {"cond"})
      /\ List(waiters') /\ List(cwaiters')
  BY <1>0, <1>2 DEF Joined
<1> QED
  BY <1>4, <1>5, <1>6, PlainLocal

\* A coroutine whose waiter is being erased has no wait in progress.
LEMMA ErasedEnded ==
    ASSUME Base, holds \in [Coros -> Nat], NEW c \in Coros,
           NEW op \in {"erase_lock", "sem_remove", "event_erase"}, Has(c, op)
    PROVE  st[c] \in {"run", "gone"} /\ epoch[c] = 0
<1> DEFINE l == home[c]
           e == <<"event_suspend", c>>
           y == <<op, c>>
<1>1. st[c] \in {"run", "gone"}
  BY DEF Base, Calling, Phase, OnCoro
<1>2. l \in Loops /\ FrameTypes /\ Shape(l) /\ y \in ToSet(prog[l])
  BY DEF Base, FrameTypes, Calling, Has
<1>3. e[1] = "event_suspend" /\ y # e
  OBVIOUS
<1>4. prog[l] # <<>>
  BY <1>2, NoWaiters
<1>5. /\ Head(prog[l]) \in Instr /\ ToSet(prog[l]) = ToSet(Tail(prog[l])) \cup {Head(prog[l])}
      /\ Fits(Gone(l), holds, inside, Head(prog[l]), Tail(prog[l]))
      /\ \A z \in ToSet(Tail(prog[l])) : Later(Gone(l), Head(prog[l]), z)
  BY <1>2, <1>4, First
<1>6. ASSUME e \in ToSet(prog[l]) PROVE FALSE
  <2> HIDE DEF e
  <2>1. e \notin ToSet(Tail(prog[l]))
    BY <1>3, <1>5, LaterNames
  <2>2. e = Head(prog[l])
    BY <1>5, <1>6, <2>1
  <2>3. Gone(l) \in SUBSET Coros
    BY DEF Gone
  <2>4. Tail(prog[l]) = <<>>
    BY <1>3, <1>5, <2>2, <2>3, AloneForm DEF Alone
  <2> HIDE DEF y, l
  <2> QED
    BY <1>2, <1>3, <1>5, <2>2, <2>4, NoWaiters
<1>7. ~Has(c, "event_suspend")
  BY <1>6 DEF Has
<1> QED
  BY <1>1, <1>7 DEF Base, Epochs

\* The lock may pass to the first waiter.
LEMMA PassProper ==
    ASSUME Base, LockInv, NEW l \in Loops, NEW w \in ToSet(waiters)
    PROVE  /\ Proper(l, <<"schedule", w>>) /\ w \in Current
           /\ \A c \in Coros : Now(c) = w => st[c] \in {"lock", "cond"}
<1>0. Owning /\ LockLists /\ LockWaits /\ List(waiters) /\ holds \in [Coros -> Nat]
  BY DEF LockInv, LockLists, Owning
<1>1. w \in Current /\ w[1] \in Coros /\ w[2] \in Nat \ {0} /\ w[2] <= waits[w[1]]
  BY <1>0, ListMembers
<1>2. ASSUME NEW c \in Coros, Now(c) = w
      PROVE  st[c] \in {"lock", "cond"} /\ (Roused(c) => c \in cancelled)
  <2>1. w[1] = c /\ w[2] = epoch[c]
    BY <1>2 DEF Now
  <2>2. epoch[c] # 0
    BY <1>1, <2>1
  <2>3. st[c] \in {"lock", "cond"} \/ Has(c, "erase_lock")
    BY <1>0, <2>1 DEF LockLists
  <2>4. st[c] \in {"lock", "cond"}
    BY <1>0, <2>2, <2>3, ErasedEnded
  <2>5. Listed(c)
    BY <2>1 DEF Listed, Named
  <2>6. Roused(c) => c \in cancelled
    BY <1>0, <2>4, <2>5 DEF LockWaits
  <2> QED
    BY <2>4, <2>6
<1> DEFINE y == <<"schedule", w>>
<1>3. y[1] = "schedule" /\ y[2] = w
  OBVIOUS
<1>4. \A c \in Coros : y = <<"schedule", Now(c)>> => Now(c) = w
  OBVIOUS
<1>5. Proper(l, y)
  <2> HIDE DEF y
  <2> QED
    BY <1>1, <1>2, <1>3, <1>4 DEF Proper, OnCoro, OnWaiter, Suspended
<1> QED
  BY <1>1, <1>2, <1>5

\* The last release, with somebody waiting: the lock passes to the head of the list.
LEMMA DropPass ==
    ASSUME Base, Unraced', LockInv, NEW l \in Loops, NEW o, NEW old, Dropping(l, o, old), NEW w,
           waiters # <<>>, w = Head(waiters), Plain(l, old, {<<"schedule", w>>}),
           recursion = 0, owner' = w[1], waiters' = Tail(waiters), UNCHANGED <<locked, recursion>>
    PROVE  LockInv'
<1> DEFINE y == <<"schedule", w>>
           n == w[1]
<1>0. /\ Owning /\ (\A d \in Coros : Local(d)) /\ List(waiters) /\ List(cwaiters)
      /\ Recent(waiters, {"lock", "cond"})
  BY LocalOf DEF LockInv
<1>y. y[1] = "schedule" /\ y[2] = w
  OBVIOUS
<1>1. (\A d \in Coros : DropView(d, old, {y})) /\ \A k \in Loops : ~Releasing(k)'
  <2> HIDE DEF y
  <2>1. \A z \in {y} : z[1] = "schedule"
    BY <1>y
  <2>2. Plain(l, old, {y})
    BY DEF y
  <2> QED
    BY <2>1, <2>2, DropSees
<1>2. o \in Coros /\ cwaiters' = cwaiters /\ owner = o /\ home[o] = l
  BY DEF Dropping
<1>3. holds' \in [Coros -> Nat] /\ \A d \in Coros : holds'[d] = 0
  BY NoHolder
<1>4. /\ List(Tail(waiters)) /\ w \in ToSet(waiters) /\ w \in Current
      /\ \A v : v \in ToSet(Tail(waiters)) <=> v \in ToSet(waiters) /\ v # w
      /\ \A d : Named(Tail(waiters), d) <=> Named(waiters, d) /\ d # n
      /\ Named(waiters, n)
  BY <1>0, ListTail
<1>5. n \in Coros /\ DropView(n, old, {y}) /\ Local(n)
  <2>1. n \in Coros
    BY <1>0, <1>4, ListMembers
  <2> QED
    BY <1>0, <1>1, <2>1
<1>6. Enrolled(n) /\ Enrolled(n)' /\ ~Named(cwaiters, n) /\ ~HandedOn(n)
  BY <1>4, <1>5 DEF Local, DropView
<1>7. st[n] \in {"lock", "cond"} => w = Now(n)
  BY <1>0, <1>4 DEF Recent
<1>8. ~Has(n, "has_waiter")
  <2> SUFFICES ASSUME Has(n, "has_waiter") PROVE FALSE
    OBVIOUS
  <2>1. n \in cancelled
    BY <1>5 DEF Base, Calling
  <2>2. w = Now(n)
    <3>1. "has_waiter" \in OnCoro
      BY DEF OnCoro
    <3>2. st[n] \in Phase("has_waiter")
      BY <1>5, <3>1 DEF Base, Calling
    <3> QED
      BY <1>7, <3>2 DEF Phase
  <2>3. n \in cancelled' /\ Now(n)' = Now(n) /\ home' = home /\ y \in ToSet(prog'[l])
    <3>1. n \in cancelled' /\ home' = home /\ epoch' = epoch
      BY <2>1 DEF Plain, Moves, Flagged
    <3>2. y[1] # "scope"
      OBVIOUS
    <3> HIDE DEF y
    <3>3. Plain(l, old, {y})
      BY DEF y
    <3>4. y \in ToSet(prog'[l])
      BY <3>2, <3>3 DEF Plain, Moves
    <3> QED
      BY <3>1, <3>4 DEF Now
  <2>4. home[n] = l
    BY <1>5, <2>2, <2>3, OwnNotifierNext
  <2>5. <<"has_waiter", n>> \in ToSet(prog[l]) /\ <<"has_waiter", n>>[1] = "has_waiter"
    BY <2>4 DEF Has
  <2> QED
    BY <2>5 DEF Dropping
<1>9. Owning'
  <2>3. ASSUME NEW d \in Coros, Has(d, "guard")'
        PROVE  IF st'[d] = "run" THEN owner' = d ELSE holds'[d] = 0
    <3>1. st'[d] # "run"
      BY <1>1, <2>3 DEF DropView, Leaving
    <3> QED
      BY <1>3, <3>1
  <2>4. /\ recursion' \in Nat /\ owner' \in Coros \cup {NoCoro} /\ locked' = (owner' # NoCoro)
        /\ owner' = NoCoro => recursion' = 0
    BY <1>0, <1>2, <1>5, LockAssumption DEF Owning
  <2>5. \A d \in Coros : owner' = d => Counts(d)'
    BY <1>5, <1>6 DEF DropView, Counts
  <2>6. \A d \in Coros : ~(holds'[d] > 0)
    BY <1>3
  <2> QED
    BY <1>1, <1>3, <2>3, <2>4, <2>5, <2>6 DEF Owning
<1>10. ASSUME NEW d \in Coros PROVE Local(d)'
  <2>1. CASE d # n
    <3>1. owner' # d /\ (Named(waiters', d) <=> Named(waiters, d))
      BY <1>4, <2>1
    <3>2. <<"schedule", Now(d)>> \notin {y}
      BY <2>1 DEF Now
    <3>3. DropView(d, old, {y})
      BY <1>1
    <3> HIDE DEF y
    <3> QED
      BY <3>1, <3>2, <3>3, DropOther
  <2>2. CASE d = n
    <3>1. ~Named(waiters, n)' /\ ~Named(cwaiters, n)'
      BY <1>2, <1>4, <1>6 DEF Named
    <3>2. ~HandedOn(n)' /\ ~Pushing(n)' /\ ~Has(n, "has_waiter")' /\ ~Releasing(home[n])'
      BY <1>5, <1>6, <1>8 DEF DropView
    <3>3. st'[n] \in {"lock", "cond"} => Roused(n)'
      BY <1>5, <1>7 DEF DropView
    <3>4. ~Asking(n)'
      BY DEF Asking
    <3>5. ~Listed(n)'
      BY <3>1, <3>2, <3>4 DEF Listed
    <3> HIDE DEF n
    <3>6. Local(n)'
      BY <3>1, <3>2, <3>3, <3>5 DEF Local, n
    <3> QED
      BY <2>2, <3>6
  <2> QED
    BY <2>1, <2>2
<1>11. Joined(waiters, waiters', {"lock", "cond"}) /\ Joined(cwaiters, cwaiters', {"cond"})
      /\ List(waiters') /\ List(cwaiters')
  BY <1>0, <1>2, <1>4 DEF Joined
<1>12. \A z \in {y} : z[1] # "push"
  BY <1>y
<1>13. \A d \in Coros : <<"hand_off", Now(d)>> \notin {y}
  OBVIOUS
<1>14. Plain(l, old, {y})
  OBVIOUS
<1> HIDE DEF y
<1> QED
  BY <1>9, <1>10, <1>11, <1>12, <1>13, <1>14, PlainLocal

\* release() by the owner.
LEMMA DropStep ==
    ASSUME IInv, Unraced', NEW l \in Loops, NEW o, NEW old, Dropping(l, o, old), NEW rest, release(l, rest), OnLock,
           Then(l, rest) => Plain(l, old, {}),
           \A w \in Current : Then(l, <<<<"schedule", w>>>> \o rest) /\ Proper(l, <<"schedule", w>>)
                                  => Plain(l, old, {<<"schedule", w>>})
    PROVE  IInv'
<1>0. Base /\ LockInv /\ Owning /\ List(waiters)
  BY DEF IInv, Base, LockInv, LockLists
<1>1. locked
  BY <1>0, LockAssumption DEF Owning, Dropping
<1>2. \A y \in old : y[1] \in {"release", "guard"}
  BY DEF Dropping
<1>3. Others(old, {}, SemOps \cup EventOps \cup FutureOps, {"lock", "cond"})
  BY <1>2 DEF Others, SemOps, EventOps, FutureOps
<1>4. CASE recursion > 0 /\ recursion' = recursion - 1 /\ Then(l, rest) /\ UNCHANGED <<locked, owner, waiters>>
  <2>1. Plain(l, old, {})
    BY <1>4
  <2>2. LockInv'
    BY <1>0, <1>4, <2>1, DropKeep
  <2> QED
    BY <1>3, <2>1, <2>2, LockOnly
<1>5. CASE recursion = 0 /\ waiters = <<>> /\ Then(l, rest) /\ owner' = NoCoro /\ locked' = FALSE
           /\ UNCHANGED <<recursion, waiters>>
  <2>1. Plain(l, old, {})
    BY <1>5
  <2>2. LockInv'
    BY <1>0, <1>5, <2>1, DropFree
  <2> QED
    BY <1>3, <2>1, <2>2, LockOnly
<1>6. CASE recursion = 0 /\ waiters # <<>> /\ Then(l, <<<<"schedule", Head(waiters)>>>> \o rest)
           /\ owner' = Head(waiters)[1] /\ waiters' = Tail(waiters) /\ UNCHANGED <<locked, recursion>>
  <2> DEFINE w == Head(waiters)
             y == <<"schedule", w>>
  <2>1. w \in ToSet(waiters)
    BY <1>0, <1>6, ListTail
  <2>2. Proper(l, y) /\ w \in Current /\ \A c \in Coros : Now(c) = w => st[c] \in {"lock", "cond"}
    BY <1>0, <2>1, PassProper
  <2>3. Plain(l, old, {y})
    BY <1>6, <2>2
  <2>4. LockInv'
    <3>1. w = Head(waiters) /\ owner' = w[1]
      BY <1>6
    <3> HIDE DEF w
    <3> QED
      BY <1>0, <1>6, <2>3, <3>1, DropPass
  <2>5. Others(old, {y}, SemOps \cup EventOps \cup FutureOps, {"lock", "cond"})
    <3>1. y[1] = "schedule" /\ \A c \in Coros : <<"schedule", Now(c)>> = y => Now(c) = w
      OBVIOUS
    <3> HIDE DEF y, w
    <3> QED
      BY <1>2, <2>2, <3>1 DEF Others, SemOps, EventOps, FutureOps
  <2> HIDE DEF y
  <2> QED
    BY <2>3, <2>4, <2>5, LockOnly
<1> QED
  BY <1>1, <1>4, <1>5, <1>6 DEF release, unlock_locked

\* A Guard whose coroutine has lost the lock gives nothing back.
LEMMA GuardLost ==
    ASSUME IInv, Unraced', NEW l \in Loops, At(l, "guard"), owner # Arg(l), Then(l, Rest(l)), Still, OnLock,
           UNCHANGED <<holds, locked, owner, recursion, waiters, cwaiters>>
    PROVE  IInv'
<1> DEFINE c == Arg(l)
           x == Head(prog[l])
<1>0. Base /\ LockInv /\ Owning /\ FrameTypes /\ holds \in [Coros -> Nat]
  BY DEF IInv, Base, LockInv, Owning
<1>1. x = <<"guard", c>> /\ c \in Coros /\ home[c] = l /\ Has(c, "guard") /\ st[c] \in Phase("guard")
  BY <1>0, HeadAt DEF OnCoro
<1>2. st[c] # "run"
  BY <1>0, <1>1 DEF Owning
<1>3. \A d \in Coros : Frozen(d)
  BY DEF Frozen, Still, OnLock, semVars
<1>4. Plain(l, {x}, {})
  BY <1>0, <1>3, PopPlain DEF Ordinary
<1>5. \A d \in Coros : View(l, {x}, {}, d)
  BY <1>0, <1>4, PlainView
<1>6. List(waiters) /\ List(cwaiters) /\ \A d \in Coros : Local(d)
  BY <1>0, LocalOf
<1>7. ASSUME NEW d \in Coros
      PROVE  /\ Unaffected(d) /\ (Enrolled(d)' <=> Enrolled(d)) /\ (Leaving(d)' <=> Leaving(d))
             /\ (Has(d, "guard")' => Has(d, "guard"))
  <2>1. View(l, {x}, {}, d)
    BY <1>5
  <2>2. /\ <<"release">> \notin {x} /\ <<"hand_off", Now(d)>> \notin {x} /\ <<"push", Now(d)>> \notin {x}
        /\ \A op \in {"erase_lock", "erase_cond", "is_owned_by", "has_waiter"} : <<op, d>> \notin {x}
        /\ d # c => <<"guard", d>> \notin {x}
    BY <1>1
  <2> HIDE DEF x
  <2>3. Unaffected(d)
    BY <2>1, <2>2 DEF View, Unaffected
  <2>4. (Enrolled(d)' <=> Enrolled(d)) /\ (Has(d, "guard")' => Has(d, "guard"))
    BY <2>1, <2>2 DEF View, Enrolled
  <2>5. d # c => (Has(d, "guard")' <=> Has(d, "guard"))
    BY <2>1, <2>2 DEF View
  <2>6. Leaving(d)' <=> Leaving(d)
    BY <1>2, <2>3, <2>5 DEF Unaffected, Leaving
  <2> QED
    BY <2>3, <2>4, <2>6
<1>8. Owning'
  <2>1. \A d \in Coros : owner' = d => Counts(d)'
    BY <1>0, <1>7 DEF Owning, Counts
  <2>2. \A d \in Coros : holds'[d] > 0 => owner' = d /\ ~Enrolled(d)'
    BY <1>0, <1>7 DEF Owning
  <2>3. \A k \in Loops : Releasing(k)' => owner' \in Coros /\ home'[owner'] = k
    <3>1. ASSUME NEW k \in Loops, Releasing(k)' PROVE Releasing(k)
      <4> DEFINE r == <<"release">>
      <4>1. r[1] # "scope" /\ r \in ToSet(prog'[k])
        BY <3>1 DEF Releasing
      <4> HIDE DEF r
      <4>2. r \in ToSet(prog[k])
        BY <1>4, <4>1 DEF Plain, Moves
      <4> QED
        BY <4>2 DEF r, Releasing
    <3> QED
      BY <1>0, <1>7, <3>1 DEF Owning, Still
  <2>4. \A d \in Coros : Has(d, "guard")' => IF st'[d] = "run" THEN owner' = d ELSE holds'[d] = 0
    BY <1>0, <1>7 DEF Owning, Unaffected
  <2> QED
    BY <1>0, <2>1, <2>2, <2>3, <2>4 DEF Owning
<1>9. \A d \in Coros : Local(d)'
  BY <1>6, <1>7, LocalKept
<1>10. Joined(waiters, waiters', {"lock", "cond"}) /\ Joined(cwaiters, cwaiters', {"cond"})
      /\ List(waiters') /\ List(cwaiters')
  BY <1>6 DEF Joined
<1>11. LockInv'
  BY <1>0, <1>4, <1>8, <1>9, <1>10, PlainLocal
<1>12. Others({x}, {}, SemOps \cup EventOps \cup FutureOps, {"lock", "cond"})
  <2>1. x[1] = "guard"
    BY <1>1
  <2> HIDE DEF x
  <2> QED
    BY <2>1 DEF Others, SemOps, EventOps, FutureOps
<1> QED
  BY <1>4, <1>11, <1>12, LockOnly

ScopeAt(G, h, I, c, s, x, h2) ==
    /\ G \in SUBSET Coros /\ h \in [Coros -> Nat] /\ c \in Coros /\ s \in Seq(Instr)
    /\ x = <<"scope", c>> /\ Fits(G, h, I, x, s) /\ h2 \in [Coros -> Nat] /\ h2[c] = h[c] - 1

\* ScopeForm, for one call in progress.
LEMMA ScopeFormAs ==
    ASSUME NEW G, NEW h, NEW I, NEW c, NEW s, NEW x, NEW h2, ScopeAt(G, h, I, c, s, x, h2)
    PROVE  /\ c \in G /\ h[c] > 0 /\ c \notin I
           /\ Form(G, h2, I, s)
           /\ \A y \in Instr : IsSchedule(y) => Form(G, h2, I, Led(y, s))
<1>1. /\ G \in SUBSET Coros /\ h \in [Coros -> Nat] /\ c \in Coros /\ s \in Seq(Instr)
      /\ Fits(G, h, I, <<"scope", c>>, s) /\ h2 \in [Coros -> Nat] /\ h2[c] = h[c] - 1
  BY DEF ScopeAt
<1> QED
  BY ONLY <1>1, ScopeForm

\* The end of a Guard's scope in a frame that is being destroyed.
LEMMA ScopePlain ==
    ASSUME Base, holds \in [Coros -> Nat], NEW l \in Loops, At(l, "scope"), NEW h \in [Coros -> Nat],
           h = [holds EXCEPT ![Arg(l)] = @ - 1], holds' = h, inside' = inside, Still
    PROVE  /\ Then(l, Rest(l)) => Plain(l, {}, {})
           /\ \A w \in Current : Then(l, <<<<"schedule", w>>>> \o Rest(l)) /\ Proper(l, <<"schedule", w>>)
                                     => Plain(l, {}, {<<"schedule", w>>})
<1> DEFINE x == Head(prog[l])
           c == x[2]
           s == Tail(prog[l])
<1>0. FrameTypes /\ (\A k \in Loops : Shape(k)) /\ home' = home /\ prog \in [Loops -> Seq(Instr)]
  BY DEF Base, Calling, Still, FrameTypes
<1>1. /\ l \in Active /\ x \in Instr /\ x[1] = "scope" /\ s \in Seq(Instr) /\ Arg(l) = x[2]
      /\ ToSet(prog[l]) = ToSet(s) \cup {x} /\ Fits(Gone(l), holds, inside, x, s)
      /\ \A y \in ToSet(prog[l]) : y[1] # "resume"
  BY ONLY Base, holds \in [Coros -> Nat], l \in Loops, At(l, "scope"), HeadAt
<1>2. x = <<"scope", c>> /\ c \in Coros
  BY <1>1, InstrOf
<1>3. Gone(l) \in SUBSET Coros /\ Gone(l)' = Gone(l)
  BY DEF Gone, Still
<1>h. h = [holds EXCEPT ![c] = @ - 1]
  BY <1>1
<1> HIDE DEF x, s, c
<1>4. /\ c \in Gone(l) /\ holds[c] > 0 /\ c \notin inside /\ Form(Gone(l), h, inside, s)
      /\ \A y \in Instr : IsSchedule(y) => Form(Gone(l), h, inside, Led(y, s))
  <2>g. PICK G : G = Gone(l)
    OBVIOUS
  <2>a. PICK a : a = holds
    OBVIOUS
  <2>i. PICK I : I = inside
    OBVIOUS
  <2>d. PICK d : d = c
    OBVIOUS
  <2>y. PICK y : y = x
    OBVIOUS
  <2>s. PICK t : t = s
    OBVIOUS
  <2>1. ScopeAt(G, a, I, d, t, y, h)
    BY <1>1, <1>2, <1>3, <1>h, <2>g, <2>a, <2>i, <2>d, <2>y, <2>s DEF ScopeAt
  <2>2. d \in G /\ a[d] > 0 /\ d \notin I /\ Form(G, h, I, t)
        /\ \A z \in Instr : IsSchedule(z) => Form(G, h, I, Led(z, t))
    BY ONLY <2>1, ScopeFormAs
  <2> QED
    BY <2>2, <2>g, <2>a, <2>i, <2>d, <2>s
<1>5. \A d \in Coros : home[d] # l => Frozen(d)
  <2>1. home[c] = l
    BY <1>4 DEF Gone
  <2> QED
    BY <1>h, <2>1 DEF Frozen, Still
<1>6. ASSUME NEW p \in Seq(Instr), prog' = [prog EXCEPT ![l] = p], Form(Gone(l), h, inside, p), NEW new,
             ToSet(p) = ToSet(s) \cup new, \A y \in new : y[1] # "scope", \A y \in new : Proper(l, y)
      PROVE  Plain(l, {}, new)
  <2>1. \A k \in Loops : Shape(k)'
    <3>1. Form(Gone(l)', holds', inside', p)
      BY <1>3, <1>6
    <3> QED
      BY <1>0, <1>5, <1>6, <3>1, ShapesKept
  <2>2. /\ prog' \in [Loops -> Seq(Instr)] /\ (\A k \in Loops : k # l => prog'[k] = prog[k])
        /\ prog'[l] = p
    BY <1>0, <1>6
  <2>3. \A y : y[1] # "scope" => (y \in ToSet(p) <=> (y \in ToSet(prog[l]) /\ y \notin {}) \/ y \in new)
    BY <1>1, <1>6
  <2>4. Moves(l, {}, new)
    BY <1>0, <2>1, <2>2, <2>3 DEF Moves
  <2>5. Flagged
    BY <1>0 DEF Flagged, Still, Base, FrameTypes, Wakes
  <2> QED
    BY <1>1, <1>6, <2>4, <2>5 DEF Plain, Still
<1>7. ASSUME Then(l, Rest(l)) PROVE Plain(l, {}, {})
  <2>1. prog' = [prog EXCEPT ![l] = s]
    BY <1>7 DEF Then, Rest, s
  <2> QED
    BY <1>1, <1>4, <1>6, <2>1
<1>8. ASSUME NEW w \in Current, Then(l, <<<<"schedule", w>>>> \o Rest(l)), Proper(l, <<"schedule", w>>)
      PROVE  Plain(l, {}, {<<"schedule", w>>})
  <2> DEFINE y == <<"schedule", w>>
             p == Led(y, s)
  <2>1. prog' = [prog EXCEPT ![l] = p]
    BY <1>8 DEF Then, Rest, s, Led
  <2>2. y \in Instr /\ IsSchedule(y) /\ y[1] = "schedule" /\ Proper(l, y)
    BY <1>8, IsInstr DEF IsSchedule, OnWaiter
  <2> HIDE DEF y
  <2>3. p \in Seq(Instr) /\ ToSet(p) = {y} \cup ToSet(s) /\ Form(Gone(l), h, inside, p)
    <3>1. Form(Gone(l), h, inside, p)
      BY <1>4, <2>2
    <3>2. p \in Seq(Instr) /\ ToSet(p) = {y} \cup ToSet(s)
      BY <1>1, <2>2, Prefixed
    <3> QED
      BY <3>1, <3>2
  <2> HIDE DEF p
  <2>4. Plain(l, {}, {y})
    BY <1>6, <2>1, <2>2, <2>3
  <2> QED
    BY <2>4 DEF y
<1> QED
  BY <1>7, <1>8

\* release() and the Guards.
LEMMA UnlockStep ==
    ASSUME IInv, Unraced', NEW l \in Loops, Unlock(l), OnLock
    PROVE  IInv'
<1> DEFINE x == Head(prog[l])
<1>0. /\ Base /\ LockInv /\ Owning /\ FrameTypes /\ holds \in [Coros -> Nat] /\ recursion \in Nat
      /\ LockWaits
  BY DEF IInv, Base, LockInv, Owning
<1>1. Still /\ cwaiters' = cwaiters /\ inside' = inside
  BY DEF Unlock, Still, frames, OnLock, semVars
<1>2. ASSUME NEW op \in {"release", "guard"}, At(l, op), UNCHANGED holds
      PROVE  /\ Then(l, Rest(l)) => Plain(l, {x}, {})
             /\ \A w \in Current : Then(l, <<<<"schedule", w>>>> \o Rest(l)) /\ Proper(l, <<"schedule", w>>)
                                       => Plain(l, {x}, {<<"schedule", w>>})
  <2>1. (\A d \in Coros : Frozen(d)) /\ op \in Ordinary
    BY <1>1, <1>2 DEF Frozen, Still, Ordinary
  <2>2. x[1] = op
    BY <1>0, <1>2, HeadAt
  <2>3. ASSUME NEW w \in Current, Then(l, <<<<"schedule", w>>>> \o Rest(l)), Proper(l, <<"schedule", w>>)
        PROVE  Plain(l, {x}, {<<"schedule", w>>})
    <3> DEFINE y == <<"schedule", w>>
    <3>1. y \in Instr /\ IsSchedule(y)
      BY IsInstr DEF IsSchedule, OnWaiter
    <3>2. Then(l, <<y>> \o Rest(l)) /\ Proper(l, y)
      BY <2>3
    <3> HIDE DEF y
    <3>3. Follows(x, y)
      BY <2>2, <3>1 DEF Follows
    <3>4. Plain(l, {x}, {y})
      BY <1>0, <1>1, <1>2, <2>1, <3>1, <3>2, <3>3, NextPlain
    <3> QED
      BY <3>4 DEF y
  <2>4. Then(l, Rest(l)) => Plain(l, {x}, {})
    BY <1>0, <1>1, <1>2, <2>1, PopPlain
  <2> QED
    BY <2>3, <2>4
<1>3. CASE At(l, "release") /\ release(l, Rest(l)) /\ UNCHANGED holds
  <2> DEFINE o == owner
  <2>1. x = <<"release">> /\ Releasing(l)
    <3>1. x \in Instr /\ x[1] = "release" /\ x \in ToSet(prog[l])
      BY <1>0, <1>3, HeadAt
    <3> QED
      BY <3>1, InstrOf DEF Releasing
  <2>2. o \in Coros /\ home[o] = l
    BY <1>0, <2>1 DEF Owning
  <2>3. recursion = holds[o]
    BY <1>0, <2>1, <2>2 DEF Owning, Counts, Leaving
  <2>4. \A y \in ToSet(prog[l]) : /\ y[1] \notin {"push", "has_waiter", "is_owned_by"}
                                  /\ y[1] = "guard" => y[2] \in Gone(l)
    BY <1>0, <1>3, AtFacts
  <2>5. Has(o, "guard") => st[o] = "gone"
    <3> DEFINE g == <<"guard", o>>
    <3>1. g[1] = "guard" /\ g[2] = o /\ (Has(o, "guard") => g \in ToSet(prog[l]))
      BY <2>2 DEF Has
    <3> HIDE DEF g
    <3> QED
      BY <2>4, <3>1 DEF Gone
  <2>6. st[o] \in {"lock", "cond"} => Listed(o)
    BY <1>0, <2>1, <2>2 DEF LockWaits
  <2>7. \A d \in Coros : holds[d] \in Nat
    BY <1>0
  <2>8. Dropping(l, o, {x})
    BY <1>0, <1>1, <1>3, <2>1, <2>2, <2>3, <2>4, <2>5, <2>6, <2>7 DEF Dropping
  <2> HIDE DEF x, o
  <2> QED
    BY <1>2, <1>3, <2>8, DropStep
<1>4. CASE At(l, "guard") /\ release_if_owner(l, Arg(l), Rest(l)) /\ UNCHANGED holds
  <2> DEFINE o == Arg(l)
  <2>1. x = <<"guard", o>> /\ o \in Coros /\ home[o] = l /\ Has(o, "guard") /\ st[o] \in Phase("guard")
    BY <1>0, <1>4, HeadAt DEF OnCoro
  <2>2. CASE owner # o /\ Then(l, Rest(l)) /\ UNCHANGED <<lock, waiters>>
    BY <1>1, <1>4, <2>2, GuardLost DEF lock
  <2>3. CASE owner = o /\ release(l, Rest(l))
    <3>1. \A y \in ToSet(prog[l]) : y[1] \notin {"push", "has_waiter", "is_owned_by", "release", "erase_lock"}
      BY <1>0, <1>4, AtFacts
    <3>2. ~Releasing(l) /\ ~Has(o, "erase_lock")
      <4>1. <<"release">>[1] = "release" /\ <<"erase_lock", o>>[1] = "erase_lock"
        OBVIOUS
      <4> QED
        BY <2>1, <3>1, <4>1 DEF Releasing, Has
    <3>3. holds[o] \in Nat
      BY <1>0, <2>1
    <3>4. st[o] = "run"
      <4>1. st[o] \in {"run", "gone"}
        BY <2>1 DEF Phase
      <4>2. ASSUME st[o] = "gone" PROVE FALSE
        <5>1. holds[o] = 0
          BY <1>0, <2>1, <4>2 DEF Owning
        <5>2. Counts(o) /\ ~Leaving(o) /\ ~Enrolled(o)
          BY <1>0, <2>1, <2>3, <3>2, <4>2 DEF Owning, Leaving, Enrolled
        <5> QED
          BY <1>0, <5>1, <5>2 DEF Counts
      <4> QED
        BY <4>1, <4>2
    <3>5. recursion = holds[o]
      BY <1>0, <2>1, <2>3, <3>4 DEF Owning, Counts, Leaving
    <3>6. Dropping(l, o, {x})
      BY <1>0, <1>1, <1>4, <2>1, <2>3, <3>1, <3>2, <3>3, <3>4, <3>5 DEF Dropping
    <3> HIDE DEF x, o
    <3> QED
      BY <1>2, <1>4, <2>3, <3>6, DropStep
  <2> QED
    BY <1>4, <2>2, <2>3 DEF release_if_owner
<1>5. CASE At(l, "scope") /\ release_if_owner(l, Arg(l), Rest(l)) /\ holds' = [holds EXCEPT ![Arg(l)] = @ - 1]
  <2> DEFINE o == Arg(l)
             h == [holds EXCEPT ![o] = @ - 1]
             s == Tail(prog[l])
  <2>1. /\ x \in Instr /\ x[1] = "scope" /\ o = x[2] /\ s \in Seq(Instr)
        /\ Fits(Gone(l), holds, inside, x, s)
    BY <1>0, <1>5, HeadAt
  <2>2. x = <<"scope", o>> /\ o \in Coros /\ Gone(l) \in SUBSET Coros
    BY <2>1, InstrOf DEF Gone
  <2>3. o \in Gone(l) /\ holds[o] > 0
    <3>1. Fits(Gone(l), holds, inside, <<"scope", o>>, s)
      BY <2>1, <2>2
    <3> HIDE DEF x, o, s, h
    <3> QED
      BY ONLY <1>0, <2>1, <2>2, <3>1, ScopeOf
  <2>4. home[o] = l /\ st[o] = "gone"
    BY <2>3 DEF Gone
  <2>5. owner = o /\ ~Enrolled(o)
    BY <1>0, <2>2, <2>3 DEF Owning
  <2>6. \A y \in ToSet(prog[l]) : y[1] \notin {"push", "has_waiter", "is_owned_by", "release"}
    BY <1>0, <1>5, AtFacts
  <2>7. ~Releasing(l)
    <3>1. <<"release">>[1] = "release"
      OBVIOUS
    <3> QED
      BY <2>6, <3>1 DEF Releasing
  <2>8. h \in [Coros -> Nat] /\ h[o] = holds[o] - 1 /\ h[o] <= holds[o] /\ \A d \in Coros : d # o => h[d] = holds[d]
    BY <1>0, <2>2, <2>3
  <2>9. recursion = h[o]
    BY <1>0, <2>2, <2>4, <2>5, <2>7, <2>8 DEF Owning, Counts, Leaving
  <2>10. Dropping(l, o, {})
    <3>1. holds' = h /\ owner = o
      BY <1>5, <2>5
    <3> HIDE DEF h, o
    <3> QED
      BY <1>1, <2>2, <2>4, <2>5, <2>6, <2>7, <2>8, <2>9, <3>1 DEF Dropping
  <2>11. /\ Then(l, Rest(l)) => Plain(l, {}, {})
         /\ \A w \in Current : Then(l, <<<<"schedule", w>>>> \o Rest(l)) /\ Proper(l, <<"schedule", w>>)
                                   => Plain(l, {}, {<<"schedule", w>>})
    <3>1. holds' = h /\ h = [holds EXCEPT ![Arg(l)] = @ - 1] /\ h \in [Coros -> Nat]
      BY <1>5, <2>8
    <3> HIDE DEF h
    <3> QED
      BY <1>0, <1>1, <1>5, <3>1, ScopePlain
  <2>12. release(l, Rest(l))
    BY <1>5, <2>5 DEF release_if_owner
  <2> HIDE DEF o
  <2> QED
    BY <2>10, <2>11, <2>12, DropStep
<1> QED
  BY <1>3, <1>4, <1>5 DEF Unlock

\* A coroutine that does not wait for the lock it owns, when its loop begins to
\* release the lock.
LEMMA LocalMore ==
    ASSUME NEW d \in Coros, Local(d), owner # d \/ st[d] \notin {"lock", "cond"},
           st'[d] = st[d], home'[d] = home[d], owner' = d <=> owner = d,
           \A op \in {"erase_cond", "is_owned_by", "has_waiter"} : Has(d, op)' <=> Has(d, op),
           Enrolled(d)' <=> Enrolled(d), Releasing(home[d]) => Releasing(home[d])',
           HandedOn(d)' <=> HandedOn(d), Pushing(d)' <=> Pushing(d), Roused(d)' <=> Roused(d),
           d \in cancelled => d \in cancelled',
           Named(waiters', d) <=> Named(waiters, d), Named(cwaiters', d) <=> Named(cwaiters, d)
    PROVE  Local(d)'
<1>0. Named(waiters, d)' = Named(waiters', d) /\ Named(cwaiters, d)' = Named(cwaiters', d)
  BY DEF Named
<1>1. Asking(d)' <=> Asking(d)
  BY DEF Asking
<1>2. Listed(d)' <=> Listed(d)
  BY <1>0, <1>1 DEF Listed
<1> QED
  BY <1>0, <1>2 DEF Local

\* The release of c's lock begins on l, with y: nothing else changes for the others.
Begins(l, c, old, new) ==
    /\ c \in Coros /\ home[c] = l /\ owner' = owner
    /\ \A y \in old : y = <<"erase_lock", c>>
    /\ \A y \in new : y = <<"release">> \/ (y = <<"guard", c>> /\ st[c] = "run")
    /\ new # {} => owner = c
    /\ ~Releasing(l) /\ ~(Has(c, "guard") /\ st[c] = "run")
    /\ \A d \in Coros : d # c => (Named(waiters', d) <=> Named(waiters, d))
    /\ ~Named(waiters', c) /\ cwaiters' = cwaiters
    /\ st[c] \in {"run", "gone"} /\ (Has(c, "erase_lock") => <<"erase_lock", c>> \in old)
    /\ holds' \in [Coros -> Nat] /\ \A d \in Coros : d # c => holds'[d] = holds[d]
    /\ owner = c => recursion = holds'[c] /\ new # {}
    /\ holds'[c] <= holds[c] /\ UNCHANGED <<locked, recursion>>

\* A call of the lock that leaves the owner as it is.
LEMMA BeginStep ==
    ASSUME IInv, Unraced', NEW l \in Loops, NEW c, NEW old, NEW new, Plain(l, old, new), Begins(l, c, old, new),
           OnLock, List(waiters'), ToSet(waiters') \subseteq ToSet(waiters)
    PROVE  IInv'
<1>0. Base /\ LockInv /\ Owning /\ FrameTypes /\ holds \in [Coros -> Nat]
  BY DEF IInv, Base, LockInv, Owning
<1>1. List(waiters) /\ List(cwaiters) /\ \A d \in Coros : Local(d)
  BY <1>0, LocalOf
<1>n. /\ \A y \in old : y[1] = "erase_lock"
      /\ \A y \in new : y[1] \in {"release", "guard"}
  BY DEF Begins
<1>2. \A d \in Coros : View(l, old, new, d)
  BY <1>0, <1>n, PlainView
<1>3. ASSUME NEW d \in Coros
      PROVE  /\ st'[d] = st[d] /\ home'[d] = home[d] /\ (owner' = d <=> owner = d) /\ home[d] \in Loops
             /\ \A op \in {"erase_cond", "is_owned_by", "has_waiter"} : Has(d, op)' <=> Has(d, op)
             /\ Releasing(home[d]) => Releasing(home[d])'
             /\ (HandedOn(d)' <=> HandedOn(d)) /\ (Pushing(d)' <=> Pushing(d)) /\ (Roused(d)' <=> Roused(d))
             /\ (d \in cancelled => d \in cancelled')
             /\ (Has(d, "erase_lock")' <=> Has(d, "erase_lock") /\ <<"erase_lock", d>> \notin old)
             /\ (Has(d, "guard")' <=> Has(d, "guard") \/ <<"guard", d>> \in new)
             /\ (Releasing(home[d])' <=> Releasing(home[d]) \/ (home[d] = l /\ <<"release">> \in new))
  <2>1. /\ <<"schedule", Now(d)>> \notin new /\ <<"release">> \notin old
        /\ <<"hand_off", Now(d)>> \notin old \cup new /\ <<"push", Now(d)>> \notin old
        /\ \A op \in {"erase_cond", "is_owned_by", "has_waiter"} : <<op, d>> \notin old \cup new
        /\ <<"guard", d>> \notin old /\ <<"erase_lock", d>> \notin new
    <3>1. /\ <<"schedule", Now(d)>>[1] = "schedule" /\ <<"release">>[1] = "release"
          /\ <<"hand_off", Now(d)>>[1] = "hand_off" /\ <<"push", Now(d)>>[1] = "push"
          /\ \A op : <<op, d>>[1] = op
      OBVIOUS
    <3> QED
      BY <1>n, <3>1
  <2>2. View(l, old, new, d) /\ owner' = owner
    BY <1>2 DEF Begins
  <2> QED
    BY <2>1, <2>2 DEF View
<1>4. ASSUME NEW d \in Coros, d # c
      PROVE  /\ (Enrolled(d)' <=> Enrolled(d)) /\ (Has(d, "guard")' <=> Has(d, "guard"))
             /\ <<"guard", d>> \notin new
  <2>1. <<"erase_lock", d>> \notin old /\ <<"guard", d>> \notin new
    <3>1. <<"erase_lock", d>> # <<"erase_lock", c>> /\ <<"guard", d>> # <<"guard", c>>
          /\ <<"guard", d>> # <<"release">>
      BY <1>4
    <3> QED
      BY <3>1 DEF Begins
  <2> QED
    BY <1>3, <1>4, <2>1 DEF Enrolled
<1>c. c \in Coros /\ home[c] = l /\ owner' = owner /\ st[c] \in {"run", "gone"} /\ ~Enrolled(c)'
      /\ (Enrolled(c) <=> Has(c, "erase_lock"))
  BY <1>3 DEF Begins, Enrolled
<1>5. ASSUME NEW d \in Coros PROVE Local(d)'
  <2>1. CASE d # c
    <3>1. owner # d \/ st[d] \notin {"lock", "cond"} \/ new = {}
      BY <2>1 DEF Begins
    <3>2. Named(waiters', d) <=> Named(waiters, d)
      BY <2>1 DEF Begins
    <3>3. Named(cwaiters', d) <=> Named(cwaiters, d)
      BY DEF Begins
    <3>4. CASE owner # d \/ st[d] \notin {"lock", "cond"}
      BY <1>1, <1>3, <1>4, <2>1, <3>2, <3>3, <3>4, LocalMore
    <3>5. CASE new = {}
      <4>1. Releasing(home[d])' <=> Releasing(home[d])
        BY <1>3, <3>5
      <4>3. <<"erase_lock", d>> \notin old
        <5>1. <<"erase_lock", d>> # <<"erase_lock", c>>
          BY <2>1
        <5> QED
          BY <5>1 DEF Begins
      <4>2. \A op \in {"erase_lock", "erase_cond", "is_owned_by", "has_waiter"} : Has(d, op)' <=> Has(d, op)
        BY <1>3, <4>3
      <4> QED
        BY <1>1, <1>3, <3>2, <3>3, <4>1, <4>2, LocalKept DEF Unaffected
    <3> QED
      BY <3>1, <3>4, <3>5
  <2>2. CASE d = c
    <3>1. ~Named(waiters, c)' /\ Named(cwaiters, c)' = Named(cwaiters, c)
      BY DEF Begins, Named
    <3>2. Local(c) /\ st[c] \notin {"lock", "cond"} /\ st'[c] = st[c] /\ owner' = owner
      BY <1>1, <1>3, <1>c
    <3>3. /\ \A op \in {"erase_cond", "is_owned_by", "has_waiter"} : Has(c, op)' <=> Has(c, op)
          /\ (HandedOn(c)' <=> HandedOn(c)) /\ (Pushing(c)' <=> Pushing(c))
      BY <1>3, <1>c
    <3>4. Local(c)'
      BY <3>1, <3>2, <3>3 DEF Local
    <3> QED
      BY <2>2, <3>4
  <2> QED
    BY <2>1, <2>2
<1>6. Owning'
  <2>1. ASSUME NEW d \in Coros, owner' = d PROVE Counts(d)'
    <3>1. CASE d = c
      <4>1. recursion' = holds'[c] /\ new # {}
        BY <1>c, <2>1, <3>1 DEF Begins
      <4>2. PICK y \in new : y = <<"release">> \/ (y = <<"guard", c>> /\ st[c] = "run")
        BY <4>1 DEF Begins
      <4>3. Leaving(c)'
        BY <1>3, <1>c, <4>2 DEF Leaving
      <4> QED
        BY <3>1, <4>1, <4>3 DEF Counts
    <3>2. CASE d # c
      <4>1. new = {} /\ holds'[d] = holds[d] /\ recursion' = recursion /\ owner = d
        BY <1>c, <2>1, <3>2 DEF Begins
      <4>2. Releasing(home[d])' <=> Releasing(home[d])
        BY <1>3, <4>1
      <4>3. (Enrolled(d)' <=> Enrolled(d)) /\ (Leaving(d)' <=> Leaving(d))
        BY <1>3, <1>4, <3>2, <4>2 DEF Leaving
      <4> QED
        BY <1>0, <4>1, <4>3 DEF Owning, Counts
    <3> QED
      BY <3>1, <3>2
  <2>2. ASSUME NEW d \in Coros, holds'[d] > 0 PROVE owner' = d /\ ~Enrolled(d)'
    <3>1. holds[d] > 0
      BY <1>0, <1>c, <2>2 DEF Begins
    <3>2. owner = d /\ ~Enrolled(d)
      BY <1>0, <3>1 DEF Owning
    <3> QED
      BY <1>4, <1>c, <3>2
  <2>3. ASSUME NEW k \in Loops, Releasing(k)' PROVE owner' \in Coros /\ home'[owner'] = k
    <3>1. Releasing(k) \/ (k = l /\ new # {})
      <4> DEFINE r == <<"release">>
      <4>1. r[1] # "scope" /\ r \in ToSet(prog'[k])
        BY <2>3 DEF Releasing
      <4> HIDE DEF r
      <4>2. r \in ToSet(prog[k]) \/ (k = l /\ r \in new)
        BY <4>1 DEF Plain, Moves
      <4> QED
        BY <4>2 DEF r, Releasing
    <3>2. CASE Releasing(k)
      <4>1. owner \in Coros /\ home[owner] = k
        BY <1>0, <3>2 DEF Owning
      <4> QED
        BY <1>3, <1>c, <4>1
    <3>3. CASE k = l /\ new # {}
      <4>1. owner = c
        BY <3>3 DEF Begins
      <4> QED
        BY <1>3, <1>c, <3>3, <4>1
    <3> QED
      BY <3>1, <3>2, <3>3
  <2>4. ASSUME NEW d \in Coros, Has(d, "guard")' PROVE IF st'[d] = "run" THEN owner' = d ELSE holds'[d] = 0
    <3>1. CASE d # c
      <4>1. holds'[d] = holds[d] /\ Has(d, "guard")
        BY <1>4, <2>4, <3>1 DEF Begins
      <4> QED
        BY <1>0, <1>3, <1>c, <4>1 DEF Owning
    <3>2. CASE d = c
      <4>1. CASE <<"guard", c>> \in new
        <5>1. st[c] = "run" /\ owner = c
          <6>1. <<"guard", c>> # <<"release">>
            OBVIOUS
          <6> QED
            BY <4>1, <6>1 DEF Begins
        <5> QED
          BY <1>3, <1>c, <3>2, <5>1
      <4>2. CASE <<"guard", c>> \notin new
        <5>1. Has(c, "guard") /\ st[c] # "run"
          BY <1>3, <1>c, <2>4, <3>2, <4>2 DEF Begins
        <5>2. holds[c] = 0 /\ holds'[c] <= holds[c] /\ holds'[c] \in Nat
          BY <1>0, <1>c, <5>1 DEF Owning, Begins
        <5>3. holds'[c] = 0
          BY <5>2
        <5> QED
          BY <1>3, <1>c, <3>2, <5>1, <5>3
      <4> QED
        BY <4>1, <4>2
    <3> QED
      BY <3>1, <3>2
  <2>5. holds' \in [Coros -> Nat] /\ UNCHANGED <<locked, owner, recursion>>
    BY DEF Begins
  <2> QED
    BY <1>0, <2>1, <2>2, <2>3, <2>4, <2>5 DEF Owning
<1>7. Joined(waiters, waiters', {"lock", "cond"}) /\ Joined(cwaiters, cwaiters', {"cond"})
      /\ List(cwaiters')
  BY <1>1 DEF Joined, Begins
<1>8. LockInv'
  <2>1. \A y \in new : y[1] # "push"
    BY <1>n
  <2>2. \A d \in Coros : <<"hand_off", Now(d)>> \notin new
    <3>1. \A d : <<"hand_off", Now(d)>>[1] = "hand_off"
      OBVIOUS
    <3> QED
      BY <1>n, <3>1
  <2> QED
    BY <1>0, <1>5, <1>6, <1>7, <2>1, <2>2, PlainLocal
<1>9. Others(old, new, SemOps \cup EventOps \cup FutureOps, {"lock", "cond"})
  <2>1. \A d \in Coros : <<"schedule", Now(d)>> \notin new
    <3>1. \A d : <<"schedule", Now(d)>>[1] = "schedule"
      OBVIOUS
    <3> QED
      BY <1>n, <3>1
  <2> QED
    BY <1>n, <2>1 DEF Others, SemOps, EventOps, FutureOps
<1> QED
  BY <1>8, <1>9, LockOnly

\* Lock::on_waiter_destroyed.
LEMMA EraseLockStep ==
    ASSUME IInv, Unraced', NEW l \in Loops, EraseLock(l), OnLock
    PROVE  IInv'
<1> DEFINE x == Head(prog[l])
           c == Arg(l)
           r == <<"release">>
<1>0. /\ Base /\ LockInv /\ Owning /\ FrameTypes /\ holds \in [Coros -> Nat] /\ recursion \in Nat
      /\ List(waiters)
  BY DEF IInv, Base, LockInv, Owning, LockLists
<1>1. /\ Still /\ UNCHANGED <<holds, cwaiters, locked, owner, recursion>> /\ At(l, "erase_lock")
      /\ waiters' = erase_waiter(waiters, c)
      /\ Then(l, IF owner = c THEN <<r>> \o Rest(l) ELSE Rest(l))
  BY DEF EraseLock, Still, frames, on_waiter_destroyed, lock
<1>2. x = <<"erase_lock", c>> /\ c \in Coros /\ home[c] = l /\ Has(c, "erase_lock") /\ x[1] = "erase_lock"
  BY <1>0, <1>1, HeadAt DEF OnCoro
<1>3. (\A d \in Coros : Frozen(d)) /\ "erase_lock" \in Ordinary
  BY <1>1 DEF Frozen, Still, Ordinary, OnLock, semVars
<1>4. st[c] \in {"run", "gone"}
  BY <1>0, <1>2, ErasedEnded
<1>5. ~Releasing(l) /\ ~(Has(c, "guard") /\ st[c] = "run")
  <2>1. \A y \in ToSet(prog[l]) : y[1] # "release" /\ (y[1] = "guard" => y[2] \in Gone(l))
    BY <1>0, <1>1, AtFacts
  <2>2. r[1] = "release" /\ <<"guard", c>>[1] = "guard" /\ <<"guard", c>>[2] = c
    OBVIOUS
  <2>3. c \in Gone(l) => st[c] = "gone"
    BY DEF Gone
  <2> HIDE DEF r, c
  <2>4. Has(c, "guard") => <<"guard", c>> \in ToSet(prog[l])
    BY <1>2 DEF Has
  <2> QED
    BY <2>1, <2>2, <2>3, <2>4 DEF Releasing, r
<1>6. /\ List(waiters') /\ ToSet(waiters') \subseteq ToSet(waiters)
      /\ \A d : Named(waiters', d) <=> Named(waiters, d) /\ d # c
  BY <1>0, <1>1, ListErase
<1>7. owner = c => recursion = holds[c]
  <2> SUFFICES ASSUME owner = c PROVE recursion = holds[c]
    OBVIOUS
  <2>1. Enrolled(c) /\ ~Leaving(c)
    BY <1>2, <1>5 DEF Enrolled, Leaving
  <2>2. recursion = 0 /\ ~(holds[c] > 0) /\ holds[c] \in Nat
    BY <1>0, <1>2, <2>1 DEF Owning, Counts
  <2> QED
    BY <2>2
<1>8. ASSUME NEW new, Plain(l, {x}, new), \A y \in new : y = r, new # {} <=> owner = c
      PROVE  IInv'
  <2>1. holds[c] \in Nat /\ \A d \in Coros : holds'[d] = holds[d]
    BY <1>0, <1>1, <1>2
  <2>2. Begins(l, c, {x}, new)
    BY <1>0, <1>1, <1>2, <1>4, <1>5, <1>6, <1>7, <1>8, <2>1 DEF Begins
  <2> HIDE DEF x, c
  <2> QED
    BY <1>6, <1>8, <2>2, BeginStep
<1>9. CASE owner = c
  <2>1. r \in Instr /\ r[1] = "release"
    BY IsInstr
  <2>2. Then(l, <<r>> \o Rest(l))
    BY <1>1, <1>9
  <2>3. Follows(x, r)
    BY <1>2 DEF Follows
  <2>4. \A d \in Coros : r # <<"schedule", Now(d)>>
    OBVIOUS
  <2> HIDE DEF r, x
  <2>5. Proper(l, r)
    BY <2>1, <2>4 DEF Proper, OnCoro, OnWaiter
  <2>6. Plain(l, {x}, {r})
    BY <1>0, <1>1, <1>3, <2>1, <2>2, <2>3, <2>5, NextPlain DEF x
  <2> QED
    BY <1>8, <1>9, <2>6
<1>10. CASE owner # c
  <2>1. Plain(l, {x}, {})
    BY <1>0, <1>1, <1>3, <1>10, PopPlain
  <2> QED
    BY <1>8, <1>10, <2>1
<1> QED
  BY <1>9, <1>10

\* lock.release() by its holder, or the end of a Guard's scope.
LEMMA LockReleaseStep ==
    ASSUME IInv, Unraced', NEW c \in Coros, LockRelease(c), OnLock
    PROVE  IInv'
<1> DEFINE l == home[c]
<1>0. /\ Base /\ LockInv /\ Owning /\ FrameTypes /\ holds \in [Coros -> Nat] /\ recursion \in Nat
      /\ List(waiters)
  BY DEF IInv, Base, LockInv, Owning, LockLists
<1>1. /\ Still /\ UNCHANGED <<cwaiters, locked, owner, recursion, waiters>> /\ Calls(c) /\ holds[c] > 0
      /\ holds' = [holds EXCEPT ![c] = @ - 1]
  BY DEF LockRelease, Still, frames, lock
<1>2. /\ l \in Loops /\ l \in Active /\ st[c] = "run" /\ Idle(l)
      /\ (\A op : ~Has(c, op)) /\ ~Releasing(l)
  BY <1>0, <1>1, IdleFacts
<1>3. owner = c /\ ~Enrolled(c) /\ ~Leaving(c)
  BY <1>0, <1>1, <1>2 DEF Owning, Leaving
<1>4. /\ holds' \in [Coros -> Nat] /\ holds'[c] = holds[c] - 1 /\ holds'[c] <= holds[c]
      /\ \A d \in Coros : d # c => holds'[d] = holds[d]
  BY <1>0, <1>1
<1>5. recursion = holds'[c]
  BY <1>0, <1>3, <1>4 DEF Owning, Counts
<1>6. ~Named(waiters, c)
  <2>1. Local(c)
    BY <1>0, LocalOf
  <2> QED
    BY <1>3, <2>1 DEF Local
<1>7. \A d \in Coros : Frozen(d)
  BY <1>1, <1>2, <1>4 DEF Frozen, Still, OnLock, semVars
<1>8. ASSUME NEW y \in Instr, y = <<"release">> \/ y = <<"guard", c>>, Then(l, <<y>>)
      PROVE  IInv'
  <2>1. y[1] \in {"release", "guard"} /\ (y[1] = "guard" => y[2] = c)
    BY <1>8
  <2>2. \A d \in Coros : y # <<"schedule", Now(d)>>
    BY <1>8
  <2>3. Proper(l, y)
    BY <1>2, <2>1, <2>2 DEF Proper, OnCoro, OnWaiter, Phase
  <2>4. Plain(l, {}, {y})
    BY <1>0, <1>1, <1>2, <1>7, <1>8, <2>1, <2>3, CallPlain
  <2>5. Begins(l, c, {}, {y})
    BY <1>1, <1>2, <1>3, <1>4, <1>5, <1>6, <1>8 DEF Begins
  <2>6. List(waiters') /\ ToSet(waiters') \subseteq ToSet(waiters)
    BY <1>0, <1>1
  <2> QED
    BY <1>2, <2>4, <2>5, <2>6, BeginStep
<1>9. <<"release">> \in Instr /\ <<"guard", c>> \in Instr
  BY IsInstr DEF OnCoro
<1> QED
  BY <1>8, <1>9 DEF LockRelease

\* notify() and notify_all() are called.
LEMMA CondNotifyStep ==
    ASSUME IInv, Unraced', NEW l \in Loops, l \in Active, NEW all \in BOOLEAN, CondNotify(l, all), OnLock
    PROVE  IInv'
<1> DEFINE y == <<"notify", all>>
<1>0. Base /\ LockInv
  BY DEF IInv, Base
<1>1. Still /\ UNCHANGED lockVars /\ Idle(l) /\ Then(l, <<y>>)
  BY DEF CondNotify, Still, frames, lock, lockVars
<1>2. y \in Instr /\ y[1] = "notify"
  BY IsInstr
<1>3. \A d \in Coros : y # <<"schedule", Now(d)>>
  OBVIOUS
<1>4. \A d \in Coros : Frozen(d)
  BY <1>1 DEF Frozen, Still, lockVars, OnLock, semVars
<1> HIDE DEF y
<1>5. Proper(l, y)
  BY <1>2, <1>3 DEF Proper, OnCoro, OnWaiter
<1>6. Plain(l, {}, {y})
  BY <1>0, <1>1, <1>2, <1>4, <1>5, CallPlain
<1>7. Spares({}, {y}, LockOps, {"lock", "cond"})
  BY <1>2, <1>3 DEF Spares, LockOps
<1>8. LockInv'
  BY <1>0, <1>1, <1>6, <1>7, PlainOthers
<1>9. Others({}, {y}, SemOps \cup EventOps \cup FutureOps, {"lock", "cond"})
  BY <1>2, <1>3 DEF Others, SemOps, EventOps, FutureOps
<1> QED
  BY <1>6, <1>8, <1>9, LockOnly

-----------------------------------------------------------------------------
(* The lock, when a coroutine begins or ends a wait.                       *)

\* What the others see of a turn of c.
Aside(d, c, new) ==
    /\ st'[d] = st[d] /\ home'[d] = home[d] /\ home[d] \in Loops /\ Now(d)' = Now(d)
    /\ \A op \in OnCoro : Has(d, op)' <=> Has(d, op)
    /\ Releasing(home[d])' <=> Releasing(home[d]) \/ (home[d] = home[c] /\ <<"release">> \in new)
    /\ (HandedOn(d)' <=> HandedOn(d)) /\ (Pushing(d)' <=> Pushing(d)) /\ (Roused(d)' <=> Roused(d))
    /\ (d \in cancelled' <=> d \in cancelled)

\* A new wait, or none.
Fresh(c, new) ==
    /\ epoch'[c] = 0 \/ epoch'[c] > waits[c]
    /\ \A y \in new : y[1] # "hand_off" /\ (y[1] = "push" => y[2] = <<c, epoch'[c]>>)

\* Which instructions about waiters there are after a coroutine's turn.
LEMMA TurnMoves ==
    ASSUME Base, NEW c \in Coros, NEW new, Turn(c, new), NEW k \in Loops, NEW y,
           y[1] \in {"hand_off", "push", "release"}
    PROVE  /\ y \in ToSet(prog'[k]) <=> y \in ToSet(prog[k]) \/ (k = home[c] /\ y \in new)
           /\ y \notin ToSet(prog[home[c]])
<1>1. y[1] # "scope" /\ y \notin ToSet(prog[home[c]])
  BY DEF Turn, OnCoro
<1> QED
  BY <1>1 DEF Turn, Moves

\* What the coroutines see of another one's turn.
LEMMA TurnView ==
    ASSUME Base, NEW c \in Coros, NEW new, Turn(c, new), Fresh(c, new)
    PROVE  /\ \A d \in Coros : d # c => Aside(d, c, new)
           /\ (Releasing(home[c])' <=> <<"release">> \in new) /\ ~Releasing(home[c])
           /\ ~HandedOn(c)' /\ (Pushing(c)' <=> <<"push", <<c, epoch'[c]>>>> \in new)
           /\ \A op \in OnCoro : Has(c, op)' <=> <<op, c>> \in new
           /\ Roused(c)' <=> <<"future_schedule", c>> \in new
           /\ home' = home /\ home[c] \in Loops
<1>0. home' = home /\ home \in [Coros -> Loops]
  BY DEF Base, FrameTypes, Turn, Moves
<1>m. ASSUME NEW k \in Loops, NEW y, y[1] \in {"hand_off", "push", "release"}
      PROVE  /\ y \in ToSet(prog'[k]) <=> y \in ToSet(prog[k]) \/ (k = home[c] /\ y \in new)
             /\ y \notin ToSet(prog[home[c]])
  BY <1>m, TurnMoves
<1>r. ASSUME NEW k \in Loops
      PROVE  Releasing(k)' <=> Releasing(k) \/ (k = home[c] /\ <<"release">> \in new)
  <2>1. <<"release">>[1] = "release"
    OBVIOUS
  <2> QED
    BY <1>m, <2>1 DEF Releasing
<1>1. ASSUME NEW d \in Coros, d # c PROVE Aside(d, c, new)
  <2>1. st'[d] = st[d] /\ (d \in cancelled' <=> d \in cancelled)
    BY <1>1 DEF Turn
  <2>2. Now(d)' = Now(d) /\ (Roused(d)' <=> Roused(d))
    BY <1>1, TurnRoused
  <2>3. \A op \in OnCoro : Has(d, op)' <=> Has(d, op)
    BY <1>1, TurnHas
  <2> DEFINE h == <<"hand_off", Now(d)>>
             p == <<"push", Now(d)>>
  <2>4. h[1] = "hand_off" /\ p[1] = "push" /\ p[2] = Now(d) /\ Now(d) # <<c, epoch'[c]>>
    BY <1>1 DEF Now
  <2>5. /\ HandedOn(d) <=> \E k \in Loops : h \in ToSet(prog[k])
        /\ HandedOn(d)' <=> \E k \in Loops : h \in ToSet(prog'[k])
        /\ Pushing(d) <=> p \in ToSet(prog[home[d]])
        /\ Pushing(d)' <=> p \in ToSet(prog'[home[d]])
    BY <1>0, <2>2 DEF HandedOn, Pushing
  <2> HIDE DEF h, p
  <2>6. h \notin new /\ p \notin new
    BY <2>4 DEF Fresh
  <2>7. (HandedOn(d)' <=> HandedOn(d)) /\ (Pushing(d)' <=> Pushing(d))
    BY <1>0, <1>m, <2>4, <2>5, <2>6
  <2> QED
    BY <1>0, <1>r, <2>1, <2>2, <2>3, <2>7 DEF Aside
<1>2. (Releasing(home[c])' <=> <<"release">> \in new) /\ ~Releasing(home[c])
  <2>1. <<"release">>[1] = "release"
    OBVIOUS
  <2>2. ~Releasing(home[c])
    BY <1>0, <1>m, <2>1 DEF Releasing
  <2>3. Releasing(home[c])' <=> <<"release">> \in ToSet(prog'[home[c]])
    BY <1>0 DEF Releasing
  <2> QED
    BY <1>0, <1>m, <2>1, <2>2, <2>3
<1> DEFINE e == epoch'[c]
           h == <<"hand_off", <<c, e>>>>
           p == <<"push", <<c, e>>>>
<1>3. /\ h[1] = "hand_off" /\ p[1] = "push"
      /\ HandedOn(c)' <=> \E k \in Loops : h \in ToSet(prog'[k])
      /\ Pushing(c)' <=> p \in ToSet(prog'[home[c]])
  BY <1>0 DEF HandedOn, Pushing, Now
<1>4. \A k \in Loops : h \notin ToSet(prog[k]) /\ p \notin ToSet(prog[k])
  <2>1. e = 0 \/ (e \in Nat /\ e > waits[c])
    BY DEF Fresh, Turn
  <2> HIDE DEF e
  <2> QED
    BY <2>1, Unknown DEF OnWaiter
<1> HIDE DEF h, p
<1>5. h \notin new
  BY <1>3 DEF Fresh
<1>6. ~HandedOn(c)' /\ (Pushing(c)' <=> p \in new)
  BY <1>0, <1>m, <1>3, <1>4, <1>5
<1>7. (\A op \in OnCoro : Has(c, op)' <=> <<op, c>> \in new) /\ (Roused(c)' <=> <<"future_schedule", c>> \in new)
  BY TurnHas, TurnRoused
<1> QED
  BY <1>0, <1>1, <1>2, <1>6, <1>7 DEF p

\* The lock's invariant after a turn, from what holds of each coroutine.
LEMMA TurnLocal ==
    ASSUME Base, LockInv, NEW c \in Coros, NEW new, Turn(c, new), Fresh(c, new),
           List(waiters)', List(cwaiters)', Recent(waiters, {"lock", "cond"})', Recent(cwaiters, {"cond"})',
           Owning', \A d \in Coros : Local(d)'
    PROVE  LockInv'
<1>0. HandedOnce /\ Pushed /\ FrameTypes
  BY LocalOf DEF Base
<1>1. /\ home' = home /\ home \in [Coros -> Loops] /\ prog' \in [Loops -> Seq(Instr)]
  BY <1>0 DEF FrameTypes, Turn, Moves
<1>m. ASSUME NEW k \in Loops, NEW y, y[1] \in {"hand_off", "push", "release"}
      PROVE  /\ y \in ToSet(prog'[k]) <=> y \in ToSet(prog[k]) \/ (k = home[c] /\ y \in new)
             /\ y \notin ToSet(prog[home[c]])
  BY <1>m, TurnMoves
<1>4. /\ \A w \in ToSet(waiters') : w[1] \in Coros
      /\ \A w \in ToSet(cwaiters') : w[1] \in Coros
  <2>1. waiters' \in Seq(Current) /\ cwaiters' \in Seq(Current)
    BY DEF List
  <2>2. ToSet(waiters') \subseteq Current /\ ToSet(cwaiters') \subseteq Current
    BY <2>1, ToSetProperties
  <2> QED
    BY <2>2 DEF Current
<1>5. \A w \in ToSet(waiters') :
           (st'[w[1]] \in {"lock", "cond"} /\ w = Now(w[1])') \/ Has(w[1], "erase_lock")'
  <2> SUFFICES ASSUME NEW w \in ToSet(waiters')
               PROVE  (st'[w[1]] \in {"lock", "cond"} /\ w = Now(w[1])') \/ Has(w[1], "erase_lock")'
    OBVIOUS
  <2>1. w[1] \in Coros /\ Enrolled(w[1])'
    BY <1>4 DEF Local, Named
  <2>2. st'[w[1]] \in {"lock", "cond"} => w = Now(w[1])'
    BY DEF Recent
  <2> QED
    BY <2>1, <2>2 DEF Enrolled
<1>6. \A w \in ToSet(cwaiters') :
           IF st'[w[1]] = "cond" THEN w = Now(w[1])' ELSE Has(w[1], "erase_cond")'
  <2> SUFFICES ASSUME NEW w \in ToSet(cwaiters')
               PROVE  IF st'[w[1]] = "cond" THEN w = Now(w[1])' ELSE Has(w[1], "erase_cond")'
    OBVIOUS
  <2>1. w[1] \in Coros /\ (st'[w[1]] = "cond" \/ Has(w[1], "erase_cond")')
    BY <1>4 DEF Local, Named
  <2>2. st'[w[1]] = "cond" => w = Now(w[1])'
    BY DEF Recent
  <2> QED
    BY <2>1, <2>2
<1>7. \A d \in Coros, j, k \in Loops :
           <<"hand_off", Now(d)>>' \in ToSet(prog'[j]) \cap ToSet(prog'[k]) => j = k
  <2> SUFFICES ASSUME NEW d \in Coros, NEW j \in Loops, NEW k \in Loops,
                      <<"hand_off", Now(d)>>' \in ToSet(prog'[j]) \cap ToSet(prog'[k])
               PROVE  j = k
    OBVIOUS
  <2>0. HandedOn(d)'
    BY DEF HandedOn
  <2>1. d # c
    BY <2>0, TurnView
  <2>2. Now(d)' = Now(d)
    BY <2>1, TurnView DEF Aside
  <2> DEFINE h == <<"hand_off", Now(d)>>
  <2>3. h \in ToSet(prog'[j]) /\ h \in ToSet(prog'[k]) /\ h[1] = "hand_off"
    BY <2>2
  <2>4. \A i, m \in Loops : h \in ToSet(prog[i]) \cap ToSet(prog[m]) => i = m
    BY <1>0 DEF HandedOnce
  <2> HIDE DEF h
  <2>5. h \notin new
    BY <2>3 DEF Fresh
  <2> QED
    BY <1>m, <2>3, <2>4, <2>5
<1>8. ASSUME NEW k \in Loops, NEW x \in ToSet(prog'[k]), x[1] = "push"
      PROVE  /\ home'[x[2][1]] = k /\ x[2] = Now(x[2][1])' /\ st'[x[2][1]] = "cond" /\ Releasing(k)'
             /\ owner' = x[2][1] /\ ~Named(waiters, x[2][1])' /\ ~Named(cwaiters, x[2][1])'
             /\ ~HandedOn(x[2][1])'
  <2> DEFINE d == x[2][1]
  <2>3. x = <<"push", x[2]>> /\ d \in Coros
    <3>1. prog'[k] \in Seq(Instr)
      BY <1>1
    <3>2. x \in Instr
      BY <3>1, ToSetProperties
    <3> QED
      BY <1>8, <3>2, InstrOf DEF OnWaiter
  <2>4. home'[d] = k /\ x[2] = Now(d)'
    <3>1. CASE x \in ToSet(prog[k])
      <4>0. k # home[c]
        BY <1>m, <1>8, <3>1
      <4>1. home[d] = k /\ x[2] = Now(d) /\ k # home[c]
        BY <1>0, <1>8, <3>1, <4>0 DEF Pushed
      <4>2. d # c
        BY <4>1
      <4> HIDE DEF d
      <4>3. Now(d)' = Now(d)
        BY <2>3, <4>2, TurnView DEF Aside
      <4> QED
        BY <1>1, <4>1, <4>3
    <3>2. CASE k = home[c] /\ x \in new
      <4>1. x[2] = <<c, epoch'[c]>>
        BY <1>8, <3>2 DEF Fresh
      <4>2. d = c
        BY <4>1
      <4> QED
        BY <1>1, <3>2, <4>1, <4>2 DEF Now
    <3> QED
      BY <1>m, <1>8, <3>1, <3>2
  <2> HIDE DEF d
  <2>5. Pushing(d)'
    BY <2>3, <2>4 DEF Pushing
  <2>6. /\ st'[d] = "cond" /\ Releasing(home[d])' /\ owner' = d
        /\ ~Named(waiters, d)' /\ ~Named(cwaiters, d)' /\ ~HandedOn(d)'
    BY <2>3, <2>5 DEF Local
  <2>7. Releasing(k)'
    BY <2>4, <2>6 DEF Releasing
  <2> QED
    BY <2>4, <2>6, <2>7 DEF d
<1>9. LockLists'
  <2>1. \A d \in Coros :
        /\ ~(Named(waiters, d)' /\ Named(cwaiters, d)')
        /\ HandedOn(d)' => st'[d] = "cond" /\ ~Named(waiters, d)' /\ ~Named(cwaiters, d)'
        /\ (Has(d, "is_owned_by")' /\ ~Has(d, "erase_cond")') \/ Has(d, "has_waiter")' => ~Named(cwaiters, d)'
        /\ Has(d, "has_waiter")' => owner' # d
    BY DEF Local
  <2> QED
    BY <1>5, <1>6, <1>7, <1>8, <2>1 DEF LockLists
<1>10. LockWaits'
  BY DEF Local, LockWaits
<1> QED
  BY <1>9, <1>10 DEF LockInv

\* A wait begins, in state s.
Begun(c, s, new) ==
    /\ Moves(home[c], ToSet(prog[home[c]]), new)
    /\ \A y \in ToSet(prog[home[c]]) : y[1] \in OnCoro /\ y[2] = c
    /\ ~Queued(c) /\ begin_wait(c)
    /\ s \in {"lock", "cond", "acquire"} /\ st' = [st EXCEPT ![c] = s]
    /\ UNCHANGED <<ready, cancelled, abandoned>>
    /\ (\A y \in new : Owned(c, y)) /\ <<"event_suspend", c>> \notin new
    /\ \A y \in new : y[1] # "hand_off" /\ (y[1] = "push" => y[2] = <<c, waits[c] + 1>>)

\* A coroutine that begins a wait takes a turn.
LEMMA BeginTurn ==
    ASSUME Base, NEW c \in Coros, NEW s, NEW new, Begun(c, s, new)
    PROVE  /\ Turn(c, new) /\ Fresh(c, new) /\ Growing
           /\ waits'[c] = waits[c] + 1 /\ epoch'[c] = waits[c] + 1 /\ st'[c] = s
<1>0. FrameTypes
  BY DEF Base
<1>1. /\ waits' \in [Coros -> Nat] /\ epoch' \in [Coros -> Nat] /\ waits'[c] = waits[c] + 1
      /\ epoch'[c] = waits[c] + 1 /\ waits[c] \in Nat
      /\ \A d \in Coros : d # c => waits'[d] = waits[d] /\ epoch'[d] = epoch[d]
  BY <1>0 DEF FrameTypes, begin_wait, Begun
<1>2. /\ st' \in [Coros -> States] /\ st'[c] = s /\ \A d \in Coros : d # c => st'[d] = st[d]
  BY <1>0 DEF FrameTypes, States, Begun
<1>3. epoch'[c] # 0 /\ epoch'[c] <= waits'[c] /\ waits[c] <= waits'[c] /\ epoch'[c] > waits[c]
  BY <1>1
<1>4. cancelled' \subseteq cancelled /\ abandoned' \subseteq Coros
  BY <1>0 DEF FrameTypes, Begun
<1>5. Turn(c, new)
  BY <1>1, <1>2, <1>3, <1>4 DEF Turn, Begun
<1>6. Fresh(c, new)
  BY <1>1, <1>3 DEF Fresh, Begun
<1>7. Growing
  <2>1. home' = home
    BY DEF Moves, Begun
  <2>2. \A d \in Coros : waits[d] \in Nat
    BY <1>0 DEF FrameTypes
  <2> QED
    BY <1>1, <1>3, <2>1, <2>2 DEF Growing
<1> QED
  BY <1>1, <1>2, <1>5, <1>6, <1>7

\* ... and its waiter joins a list.
Joins(c, s, t) ==
    List(s) /\ ~Named(s, c) /\ waits'[c] = waits[c] + 1 /\ t = Append(s, <<c, waits[c] + 1>>)

\* The wait list that a coroutine joins as it suspends.
LEMMA JoinList ==
    ASSUME FrameTypes, Growing, NEW c \in Coros, NEW s, NEW t, Joins(c, s, t)
    PROVE  /\ t \in Seq(Current) /\ Distinct(t)
           /\ \A v, w \in ToSet(t) : v[1] = w[1] => v = w
           /\ \A w \in ToSet(t) : w[2] <= waits'[w[1]]
           /\ \A v : v \in ToSet(t) <=> v \in ToSet(s) \/ v = <<c, waits[c] + 1>>
           /\ \A d : Named(t, d) <=> Named(s, d) \/ d = c
<1> DEFINE w == <<c, waits[c] + 1>>
<1>1. /\ s \in Seq(Current) /\ Distinct(s) /\ (\A u, v \in ToSet(s) : u[1] = v[1] => u = v)
      /\ \A v \in ToSet(s) : v[2] <= waits'[v[1]]
  BY ListKept DEF Joins
<1>2. w \in Current /\ w[1] = c /\ w[2] = waits[c] + 1 /\ waits[c] \in Nat
  BY DEF FrameTypes, Current
<1>w. w = <<c, waits[c] + 1>>
  OBVIOUS
<1> HIDE DEF w
<1>3. w \notin ToSet(s)
  BY <1>2 DEF Named, Joins
<1>4. t \in Seq(Current) /\ ToSet(t) = ToSet(s) \cup {w} /\ Distinct(t)
  <2>1. t = Append(s, w)
    BY <1>w DEF Joins
  <2>2. Append(s, w) \in Seq(Current) /\ ToSet(Append(s, w)) = ToSet(s) \cup {w} /\ Distinct(Append(s, w))
    BY <1>1, <1>2, <1>3, AppendToSet
  <2> QED
    BY <2>1, <2>2
<1>5. w[2] <= waits'[w[1]]
  BY <1>2 DEF Joins
<1>6. \A v \in ToSet(s) : v[1] # c
  BY DEF Named, Joins
<1>7. \A d : Named(t, d) <=> Named(s, d) \/ d = c
  BY <1>2, <1>4 DEF Named
<1> QED
  BY <1>1, <1>2, <1>4, <1>5, <1>6, <1>7, <1>w

\* The others wait for the lock as before.
LEMMA TurnAside ==
    ASSUME Base, LockInv, NEW c \in Coros, NEW new, Turn(c, new), Fresh(c, new), NEW d \in Coros, d # c,
           owner' = d <=> owner = d, Named(waiters', d) <=> Named(waiters, d),
           Named(cwaiters', d) <=> Named(cwaiters, d), <<"release">> \notin new \/ owner # d
    PROVE  /\ Local(d)' /\ (Enrolled(d)' <=> Enrolled(d)) /\ (Has(d, "guard")' <=> Has(d, "guard"))
           /\ (owner = d => (Leaving(d)' <=> Leaving(d))) /\ st'[d] = st[d]
<1>0. Local(d)
  BY LocalOf
<1>1. Aside(d, c, new)
  BY TurnView
<1>2. {"guard", "erase_lock", "erase_cond", "is_owned_by", "has_waiter"} \subseteq OnCoro
  BY DEF OnCoro
<1>3. \A op \in {"guard", "erase_lock", "erase_cond", "is_owned_by", "has_waiter"} : Has(d, op)' <=> Has(d, op)
  BY <1>1, <1>2 DEF Aside
<1>4. Enrolled(d)' <=> Enrolled(d)
  BY <1>1, <1>3 DEF Enrolled, Aside
<1>5. owner = d => (Releasing(home[d])' <=> Releasing(home[d]))
  BY <1>1 DEF Aside
<1>6. owner = d => (Leaving(d)' <=> Leaving(d))
  BY <1>1, <1>3, <1>5 DEF Leaving, Aside
<1>7. CASE owner # d
  <2>1. Local(d)'
    BY <1>0, <1>1, <1>3, <1>4, <1>7, LocalMore DEF Aside
  <2> QED
    BY <1>1, <1>3, <1>4, <1>6, <2>1 DEF Aside
<1>8. CASE owner = d
  <2>1. Local(d)'
    BY <1>0, <1>1, <1>3, <1>5, <1>8, LocalKept DEF Aside, Unaffected
  <2> QED
    BY <1>1, <1>3, <1>4, <1>6, <2>1 DEF Aside
<1> QED
  BY <1>7, <1>8

\* A turn at the lock: the whole invariant from the part of the lock.
LEMMA TurnLock ==
    ASSUME IInv, Unraced', NEW c \in Coros, NEW new, Turn(c, new), OnLock, LockInv',
           \A y \in ToSet(prog[home[c]]) \cup new : y[1] \notin SemOps \cup EventOps \cup FutureOps,
           st[c] \notin {"acquire", "wait", "await"}, st'[c] \notin {"acquire", "wait", "await"}
    PROVE  IInv'
<1>0. Base /\ SemInv /\ EventInv /\ FutureInv
  BY DEF IInv, Base
<1>1. UNCHANGED <<semVars, eventVars, futVars>>
  BY DEF OnLock
<1>2. "scope" \notin SemOps /\ "scope" \notin EventOps /\ "scope" \notin FutureOps
  BY DEF SemOps, EventOps, FutureOps
<1>3. /\ TurnSpares(c, new, SemOps, {"acquire"}) /\ TurnSpares(c, new, EventOps, {"wait"})
      /\ TurnSpares(c, new, FutureOps, {"await"})
  BY <1>2 DEF TurnSpares
<1>4. Base' /\ SemInv' /\ EventInv' /\ FutureInv'
  BY <1>0, <1>1, <1>3, TurnOthers
<1> QED
  BY <1>4 DEF IInv, Base

\* acquire(), queued.
LEMMA AcquireWaitStep ==
    ASSUME IInv, Unraced', NEW c \in Coros, AcquireWait(c), OnLock
    PROVE  IInv'
<1> DEFINE l == home[c]
<1>0. Base /\ LockInv /\ Owning /\ FrameTypes /\ List(waiters) /\ List(cwaiters)
      /\ Recent(waiters, {"lock", "cond"}) /\ Recent(cwaiters, {"cond"}) /\ \A d \in Coros : Local(d)
  <2>1. Base /\ LockInv /\ Owning /\ FrameTypes
    BY DEF IInv, Base, LockInv
  <2> QED
    BY <2>1, LocalOf
<1>1. /\ Calls(c) /\ owner # c /\ begin_wait(c) /\ st' = [st EXCEPT ![c] = "lock"]
      /\ waiters' = Append(waiters, <<c, waits[c] + 1>>)
      /\ UNCHANGED <<home, holds, ready, prog, cancelled, abandoned, locked, owner, recursion, cwaiters>>
  BY DEF AcquireWait, lock
<1>2. /\ l \in Loops /\ l \in Active /\ st[c] = "run" /\ Idle(l) /\ ToSet(prog[l]) = {}
      /\ (\A op : ~Has(c, op)) /\ ~Releasing(l) /\ ~Roused(c)
  BY <1>0, <1>1, IdleFacts
<1>3. \A d \in Coros : Frozen(d)
  BY <1>0, <1>1, <1>2 DEF Frozen, FrameTypes, OnLock, semVars
<1>4. Moves(l, ToSet(prog[l]), {})
  <2>1. Moves(l, {}, {})
    <3>1. \A k \in Loops : Shape(k)
      BY <1>0 DEF Base, Calling
    <3> QED
      BY <1>0, <1>1, <1>2, <1>3, <3>1, SameMoves
  <2> QED
    BY <1>2, <2>1
<1>5. /\ Turn(c, {}) /\ Fresh(c, {}) /\ Growing
      /\ waits'[c] = waits[c] + 1 /\ epoch'[c] = waits[c] + 1 /\ st'[c] = "lock"
  <2>1. ~Queued(c)
    BY <1>2 DEF Roused
  <2>2. \A y \in ToSet(prog[home[c]]) : y[1] \in OnCoro /\ y[2] = c
    BY <1>2
  <2> QED
    <3>1. Begun(c, "lock", {})
      BY <1>1, <1>4, <2>1, <2>2 DEF Begun
    <3> DEFINE none == {}
    <3>2. Begun(c, "lock", none)
      BY <3>1
    <3> HIDE DEF none
    <3>3. /\ Turn(c, none) /\ Fresh(c, none) /\ Growing
          /\ waits'[c] = waits[c] + 1 /\ epoch'[c] = waits[c] + 1 /\ st'[c] = "lock"
      BY ONLY <1>0, <3>2, c \in Coros, BeginTurn
    <3> QED
      BY <3>3 DEF none
<1>6. ~Enrolled(c) /\ ~Named(waiters, c) /\ ~Named(cwaiters, c) /\ ~HandedOn(c)
  <2>1. ~Enrolled(c) /\ Local(c)
    BY <1>0, <1>2 DEF Enrolled
  <2> QED
    BY <1>2, <2>1 DEF Local
<1>7. /\ waiters' \in Seq(Current) /\ Distinct(waiters')
      /\ \A v, w \in ToSet(waiters') : v[1] = w[1] => v = w
      /\ \A w \in ToSet(waiters') : w[2] <= waits'[w[1]]
      /\ \A v : v \in ToSet(waiters') <=> v \in ToSet(waiters) \/ v = <<c, waits[c] + 1>>
      /\ \A d : Named(waiters', d) <=> Named(waiters, d) \/ d = c
  <2>1. Joins(c, waiters, waiters')
    BY <1>0, <1>1, <1>5, <1>6 DEF Joins
  <2> QED
    BY <1>0, <1>5, <2>1, JoinList
<1>8. List(waiters)' /\ List(cwaiters)'
  <2>1. List(waiters)'
    BY <1>7 DEF List
  <2>2. /\ cwaiters \in Seq(Current) /\ Distinct(cwaiters)
        /\ \A v, w \in ToSet(cwaiters) : v[1] = w[1] => v = w
        /\ \A w \in ToSet(cwaiters) : w[2] <= waits'[w[1]]
    BY <1>0, <1>5, ListKept
  <2> QED
    BY <1>1, <2>1, <2>2 DEF List
<1>v. /\ \A d \in Coros : d # c => Aside(d, c, {})
      /\ (Releasing(home[c])' <=> <<"release">> \in {})
      /\ ~HandedOn(c)' /\ (Pushing(c)' <=> <<"push", <<c, epoch'[c]>>>> \in {})
      /\ (\A op \in OnCoro : Has(c, op)' <=> <<op, c>> \in {})
      /\ Roused(c)' <=> <<"future_schedule", c>> \in {}
  <2> DEFINE none == {}
  <2>1. Turn(c, none) /\ Fresh(c, none)
    BY <1>5
  <2> HIDE DEF none
  <2>2. /\ \A d \in Coros : d # c => Aside(d, c, none)
        /\ (Releasing(home[c])' <=> <<"release">> \in none)
        /\ ~HandedOn(c)' /\ (Pushing(c)' <=> <<"push", <<c, epoch'[c]>>>> \in none)
        /\ (\A op \in OnCoro : Has(c, op)' <=> <<op, c>> \in none)
        /\ Roused(c)' <=> <<"future_schedule", c>> \in none
    BY <1>0, <2>1, TurnView
  <2> QED
    BY <2>2 DEF none
<1>c. /\ ~Releasing(home[c])' /\ ~HandedOn(c)' /\ ~Pushing(c)' /\ ~Roused(c)'
      /\ \A op \in {"guard", "erase_lock", "erase_cond", "is_owned_by", "has_waiter"} : ~Has(c, op)'
  <2>1. {"guard", "erase_lock", "erase_cond", "is_owned_by", "has_waiter"} \subseteq OnCoro
    BY DEF OnCoro
  <2> QED
    BY <1>v, <2>1
<1>9. Recent(waiters, {"lock", "cond"})' /\ Recent(cwaiters, {"cond"})'
  <2>1. ASSUME NEW w \in ToSet(waiters'), st'[w[1]] \in {"lock", "cond"} PROVE w = Now(w[1])'
    <3>1. CASE w = <<c, waits[c] + 1>>
      BY <1>5, <3>1 DEF Now
    <3>2. CASE w \in ToSet(waiters)
      <4>1. w[1] \in Coros /\ w[1] # c
        BY <1>0, <1>6, <3>2, ListMembers DEF Named
      <4>2. Aside(w[1], c, {})
        BY <1>v, <4>1
      <4> QED
        BY <1>0, <2>1, <3>2, <4>2 DEF Recent, Aside
    <3> QED
      BY <1>7, <3>1, <3>2
  <2>2. ASSUME NEW w \in ToSet(cwaiters'), st'[w[1]] = "cond" PROVE w = Now(w[1])'
    <3>0. w \in ToSet(cwaiters)
      BY <1>1
    <3>1. w[1] \in Coros /\ w[1] # c
      BY <1>0, <1>6, <3>0, ListMembers DEF Named
    <3>2. Aside(w[1], c, {})
      BY <1>v, <3>1
    <3> QED
      BY <1>0, <2>2, <3>0, <3>2 DEF Recent, Aside
  <2> QED
    BY <2>1, <2>2 DEF Recent
<1>10. ASSUME NEW d \in Coros, d # c
       PROVE  /\ Local(d)' /\ (Enrolled(d)' <=> Enrolled(d)) /\ (Has(d, "guard")' <=> Has(d, "guard"))
              /\ (owner = d => (Leaving(d)' <=> Leaving(d))) /\ st'[d] = st[d]
  <2>1. (owner' = d <=> owner = d) /\ (Named(waiters', d) <=> Named(waiters, d))
        /\ (Named(cwaiters', d) <=> Named(cwaiters, d)) /\ <<"release">> \notin {}
    BY <1>1, <1>7, <1>10
  <2> QED
    BY <1>0, <1>5, <1>10, <2>1, TurnAside
<1>11. Local(c)'
  <2>1. Named(waiters, c)' /\ ~Named(cwaiters, c)' /\ owner' # c
    BY <1>1, <1>6, <1>7 DEF Named
  <2>2. Enrolled(c)' /\ Listed(c)'
    BY <1>5, <2>1 DEF Enrolled, Listed
  <2> QED
    BY <1>5, <1>c, <2>1, <2>2 DEF Local
<1>12. Owning'
  <2>1. \A d \in Coros : owner' = d => Counts(d)'
    BY <1>0, <1>1, <1>10 DEF Owning, Counts
  <2>2. \A d \in Coros : holds'[d] > 0 => owner' = d /\ ~Enrolled(d)'
    BY <1>0, <1>1, <1>10 DEF Owning
  <2>3. \A k \in Loops : Releasing(k)' => owner' \in Coros /\ home'[owner'] = k
    BY <1>0, <1>1 DEF Owning, Releasing
  <2>4. \A d \in Coros : Has(d, "guard")' => IF st'[d] = "run" THEN owner' = d ELSE holds'[d] = 0
    BY <1>0, <1>1, <1>10, <1>c DEF Owning
  <2> QED
    BY <1>0, <1>1, <2>1, <2>2, <2>3, <2>4 DEF Owning
<1>13. LockInv'
  BY <1>0, <1>5, <1>8, <1>9, <1>10, <1>11, <1>12, TurnLocal
<1>14. \A y \in ToSet(prog[home[c]]) \cup {} : y[1] \notin SemOps \cup EventOps \cup FutureOps
  BY <1>2
<1> QED
  BY <1>2, <1>5, <1>13, <1>14, TurnLock

\* A list of two members.
LEMMA Pair ==
    ASSUME NEW T, NEW a \in T, NEW b \in T
    PROVE  /\ <<a, b>> = Led(a, <<b>>) /\ <<a, b>> \in Seq(T) /\ <<a, b>> # <<>> /\ Head(<<a, b>>) = a
           /\ Tail(<<a, b>>) = <<b>> /\ ToSet(<<a, b>>) = {a, b}
<1> DEFINE t == <<b>>
<1>1. t \in Seq(T) /\ ToSet(t) = {b}
  <2>1. /\ <<b>> \in Seq(T) /\ <<b>> # <<>> /\ Head(<<b>>) = b /\ Tail(<<b>>) = <<>>
        /\ ToSet(<<b>>) = {b} /\ Distinct(<<b>>)
    BY ONLY b \in T, Single
  <2> QED
    BY <2>1
<1>2. <<a, b>> = Led(a, t)
  <2> DEFINE u == <<a>>
             p == <<a, b>>
             q == u \o t
  <2>1. u \in Seq(T) /\ Len(u) = 1 /\ u[1] = a /\ Len(t) = 1 /\ t[1] = b
    OBVIOUS
  <2>2. p \in Seq(T) /\ Len(p) = 2 /\ p[1] = a /\ p[2] = b
    OBVIOUS
  <2> HIDE DEF u, p, t
  <2>3. q \in Seq(T) /\ Len(q) = 2 /\ \A i \in 1..2 : q[i] = IF i <= 1 THEN u[i] ELSE t[i - 1]
    BY <1>1, <2>1, ConcatProperties
  <2> HIDE DEF q
  <2>4. q[1] = a /\ q[2] = b
    BY <2>1, <2>3
  <2>5. \A i \in 1..2 : q[i] = p[i]
    BY <2>2, <2>4
  <2>6. q = p
    BY <2>2, <2>3, <2>5, SeqEqual
  <2> QED
    BY <2>6 DEF Led, q, p, u
<1> HIDE DEF t
<1>3. /\ Led(a, t) \in Seq(T) /\ Led(a, t) # <<>> /\ Head(Led(a, t)) = a /\ Tail(Led(a, t)) = t
      /\ ToSet(Led(a, t)) = {a} \cup ToSet(t)
  BY ONLY <1>1, a \in T, Prefixed
<1> QED
  BY <1>1, <1>2, <1>3 DEF t

\* Condition::wait: about to be queued, then the lock is released.
LEMMA CondWaitStep ==
    ASSUME IInv, Unraced', NEW c \in Coros, CondWait(c), OnLock
    PROVE  IInv'
<1> DEFINE l == home[c]
           w == <<c, waits[c] + 1>>
           a == <<"push", w>>
           r == <<"release">>
           new == {a, r}
<1>0. Base /\ LockInv /\ Owning /\ FrameTypes /\ List(waiters) /\ List(cwaiters)
      /\ Recent(waiters, {"lock", "cond"}) /\ Recent(cwaiters, {"cond"}) /\ \A d \in Coros : Local(d)
  <2>1. Base /\ LockInv /\ Owning /\ FrameTypes
    BY DEF IInv, Base, LockInv
  <2> QED
    BY <2>1, LocalOf
<1>1. /\ Calls(c) /\ holds[c] = 1 /\ begin_wait(c) /\ st' = [st EXCEPT ![c] = "cond"]
      /\ holds' = [holds EXCEPT ![c] = 0] /\ prog' = [prog EXCEPT ![l] = <<a, r>>]
      /\ UNCHANGED <<home, ready, cancelled, abandoned, locked, owner, recursion, waiters, cwaiters>>
  BY DEF CondWait, lock, Then
<1>2. /\ l \in Loops /\ l \in Active /\ st[c] = "run" /\ Idle(l) /\ ToSet(prog[l]) = {}
      /\ (\A op : ~Has(c, op)) /\ ~Releasing(l) /\ ~Roused(c)
  BY <1>0, <1>1, IdleFacts
<1>3. \A d \in Coros : Frozen(d)
  BY <1>0, <1>1, <1>2 DEF Frozen, FrameTypes, OnLock, semVars, Owning
<1>w. w \in Current /\ w[1] = c /\ w[2] = waits[c] + 1
  BY <1>0 DEF FrameTypes, Current
<1>a. a \in Instr /\ a[1] = "push" /\ a[2] = w /\ r \in Instr /\ r[1] = "release"
  BY <1>w, IsInstr DEF OnWaiter
<1>4. Moves(l, ToSet(prog[l]), new)
  <2> HIDE DEF a, r
  <2>0. /\ <<a, r>> \in Seq(Instr) /\ <<a, r>> # <<>> /\ Head(<<a, r>>) = a
        /\ Tail(<<a, r>>) = <<r>> /\ ToSet(<<a, r>>) = {a, r}
    BY <1>a, Pair
  <2> DEFINE p == <<a, r>>
  <2>1. p \in Seq(Instr) /\ p # <<>> /\ Head(p) = a /\ Tail(p) = <<r>> /\ ToSet(p) = new
    BY <2>0
  <2>2. prog' = [prog EXCEPT ![l] = p]
    BY <1>1
  <2> HIDE DEF p
  <2>3. Form(Gone(l)', holds', inside', p)
    BY <1>a, <2>1 DEF Form, Fits, r
  <2>4. \A k \in Loops : Shape(k)
    BY <1>0 DEF Base, Calling
  <2>5. Moves(l, ToSet(prog[l]), ToSet(p))
    BY <1>0, <1>1, <1>2, <1>3, <2>1, <2>2, <2>3, <2>4, SetMoves
  <2> QED
    BY <2>1, <2>5
<1>n. \A y \in new : /\ y[1] \in {"push", "release"} /\ (y[1] = "push" => y = a /\ y[2] = w)
                     /\ (y[1] = "release" => y = r)
  BY <1>a
<1>5. /\ Turn(c, new) /\ Fresh(c, new) /\ Growing
      /\ waits'[c] = waits[c] + 1 /\ epoch'[c] = waits[c] + 1 /\ st'[c] = "cond"
  <2>1. ~Queued(c)
    BY <1>2 DEF Roused
  <2>2. \A y \in ToSet(prog[home[c]]) : y[1] \in OnCoro /\ y[2] = c
    BY <1>2
  <2>3. waits'[c] = waits[c] + 1 /\ waits[c] \in Nat
    BY <1>0, <1>1 DEF begin_wait, FrameTypes
  <2>e. <<"event_suspend", c>>[1] = "event_suspend" /\ w = <<c, waits[c] + 1>>
    OBVIOUS
  <2> HIDE DEF new, a, r, w
  <2>4. \A y \in new : Owned(c, y)
    BY <1>n, <1>w, <2>3 DEF Owned, OnCoro, OnWaiter
  <2>5. <<"event_suspend", c>> \notin new
    BY <1>n, <2>e
  <2>6. \A y \in new : y[1] # "hand_off" /\ (y[1] = "push" => y[2] = <<c, waits[c] + 1>>)
    BY <1>n, <2>e
  <2>7. Begun(c, "cond", new)
    BY <1>1, <1>4, <2>1, <2>2, <2>4, <2>5, <2>6 DEF Begun
  <2> QED
    BY <1>0, <2>7, BeginTurn
<1>v. /\ (\A d \in Coros : d # c => Aside(d, c, new))
      /\ (Releasing(home[c])' <=> <<"release">> \in new) /\ ~Releasing(home[c])
      /\ ~HandedOn(c)' /\ (Pushing(c)' <=> <<"push", <<c, epoch'[c]>>>> \in new)
      /\ (\A op \in OnCoro : Has(c, op)' <=> <<op, c>> \in new)
      /\ (Roused(c)' <=> <<"future_schedule", c>> \in new)
      /\ home' = home /\ home[c] \in Loops
  <2> HIDE DEF new
  <2> QED
    BY <1>0, <1>5, TurnView
<1>c. /\ Releasing(home[c])' /\ ~HandedOn(c)' /\ Pushing(c)' /\ ~Roused(c)'
      /\ \A op \in {"guard", "erase_lock", "erase_cond", "is_owned_by", "has_waiter"} : ~Has(c, op)'
  <2>1. {"guard", "erase_lock", "erase_cond", "is_owned_by", "has_waiter"} \subseteq OnCoro
    BY DEF OnCoro
  <2>2. \A op : <<op, c>>[1] = op
    OBVIOUS
  <2>3. <<"push", <<c, epoch'[c]>>>> \in new /\ <<"release">> \in new
    BY <1>5
  <2> HIDE DEF new
  <2> QED
    BY <1>n, <1>v, <2>1, <2>2, <2>3
<1>o. owner = c /\ ~Enrolled(c) /\ recursion = 0
  <2>1. owner = c /\ ~Enrolled(c) /\ ~Leaving(c)
    BY <1>0, <1>1, <1>2 DEF Owning, Leaving
  <2> QED
    BY <1>0, <1>1, <2>1 DEF Owning, Counts
<1>6. ~Named(waiters, c) /\ ~Named(cwaiters, c)
  <2>1. Local(c)
    BY <1>0
  <2> QED
    BY <1>2, <1>o, <2>1 DEF Local
<1>8. List(waiters)' /\ List(cwaiters)'
  <2>1. ASSUME NEW s, List(s)
        PROVE  /\ s \in Seq(Current) /\ Distinct(s)
               /\ \A u, v \in ToSet(s) : u[1] = v[1] => u = v
               /\ \A v \in ToSet(s) : v[2] <= waits'[v[1]]
    BY <1>0, <1>5, <2>1, ListKept
  <2> HIDE DEF new
  <2> QED
    BY <1>0, <1>1, <2>1 DEF List
<1>9. Recent(waiters, {"lock", "cond"})' /\ Recent(cwaiters, {"cond"})'
  <2> HIDE DEF new
  <2>1. ASSUME NEW v, v \in ToSet(waiters) \/ v \in ToSet(cwaiters)
        PROVE  v[1] \in Coros /\ Now(v[1])' = Now(v[1]) /\ st'[v[1]] = st[v[1]]
    <3>1. v[1] \in Coros /\ v[1] # c
      BY <1>0, <1>6, <2>1, ListMembers DEF Named
    <3>2. Aside(v[1], c, new)
      BY <1>v, <3>1
    <3> QED
      BY <3>1, <3>2 DEF Aside
  <2> QED
    BY <1>0, <1>1, <2>1 DEF Recent
<1>10. ASSUME NEW d \in Coros, d # c
       PROVE  /\ Local(d)' /\ (Enrolled(d)' <=> Enrolled(d)) /\ (Has(d, "guard")' <=> Has(d, "guard"))
              /\ (owner = d => (Leaving(d)' <=> Leaving(d))) /\ st'[d] = st[d]
  <2> HIDE DEF new
  <2>1. (owner' = d <=> owner = d) /\ (Named(waiters', d) <=> Named(waiters, d))
        /\ (Named(cwaiters', d) <=> Named(cwaiters, d)) /\ owner # d
    BY <1>1, <1>o, <1>10
  <2> QED
    BY <1>0, <1>5, <1>10, <2>1, TurnAside
<1>11. Local(c)'
  <2>1. ~Named(waiters, c)' /\ ~Named(cwaiters, c)' /\ owner' = c
    BY <1>1, <1>6, <1>o DEF Named
  <2>2. Enrolled(c)' /\ Listed(c)'
    BY <1>5, <1>c DEF Enrolled, Listed
  <2> QED
    BY <1>5, <1>c, <2>1, <2>2 DEF Local
<1>12. Owning'
  <2>h. /\ holds' \in [Coros -> Nat] /\ holds'[c] = 0 /\ \A d \in Coros : d # c => holds'[d] = holds[d]
    BY <1>0, <1>1 DEF Owning
  <2>1. \A d \in Coros : owner' = d => Counts(d)'
    BY <1>1, <1>c, <1>o, <2>h DEF Leaving, Counts
  <2>2. \A d \in Coros : ~(holds'[d] > 0)
    BY <1>0, <1>o, <2>h DEF Owning
  <2>3. \A k \in Loops : Releasing(k)' => owner' \in Coros /\ home'[owner'] = k
    <3>1. ASSUME NEW k \in Loops, Releasing(k)' PROVE k = home[c]
      <4>1. k # home[c] => Releasing(k)
        BY <1>1, <3>1 DEF Releasing
      <4> QED
        BY <1>0, <1>o, <4>1 DEF Owning
    <3> QED
      BY <1>1, <1>o, <3>1
  <2>4. \A d \in Coros : Has(d, "guard")' => IF st'[d] = "run" THEN owner' = d ELSE holds'[d] = 0
    BY <1>0, <1>1, <1>10, <1>c, <2>h DEF Owning
  <2>5. /\ recursion' \in Nat /\ owner' \in Coros \cup {NoCoro} /\ locked' = (owner' # NoCoro)
        /\ owner' = NoCoro => recursion' = 0
    BY <1>0, <1>1 DEF Owning
  <2> QED
    BY <2>h, <2>1, <2>2, <2>3, <2>4, <2>5 DEF Owning
<1>13. LockInv'
  <2>1. \A d \in Coros : Local(d)'
    BY <1>10, <1>11
  <2> HIDE DEF new
  <2> QED
    BY <1>0, <1>5, <1>8, <1>9, <1>12, <2>1, TurnLocal
<1>14. \A y \in ToSet(prog[home[c]]) \cup new : y[1] \notin SemOps \cup EventOps \cup FutureOps
  <2>1. \A y \in new : y[1] \notin SemOps \cup EventOps \cup FutureOps
    BY <1>n DEF SemOps, EventOps, FutureOps
  <2> HIDE DEF new
  <2> QED
    BY <1>2, <2>1
<1>15. st[c] \notin {"acquire", "wait", "await"} /\ st'[c] \notin {"acquire", "wait", "await"}
  BY <1>2, <1>5
<1> HIDE DEF new
<1> QED
  BY <1>5, <1>13, <1>14, <1>15, TurnLock

=============================================================================
