------------------------- MODULE ReadyQueueProofs -------------------------
(***************************************************************************)
(* What the lists of handles and waiters do: scheduling several handles in *)
(* a row, and erasing a waiter, for queues of any length.  Both operators  *)
(* are loops in the code; the induction they need is done once, here.      *)
(***************************************************************************)
EXTENDS ReadyQueue, TLAPS, WellFoundedInduction, SequenceTheorems, FiniteSetTheorems

\* No handle occurs twice in the queue q.
Distinct(q) == \A i \in 1..Len(q), j \in 1..Len(q) : q[i] = q[j] => i = j

\* r is q with entries added at the end.
Extended(r, q) == Len(q) <= Len(r) /\ \A i \in 1..Len(q) : r[i] = q[i]

\* Before b comes a.
Before(q, a, b) == \A j \in 1..Len(q) : q[j] = b => \E i \in 1..(j - 1) : q[i] = a

-----------------------------------------------------------------------------
(* Induction, as a statement about sets.                                   *)

\* A set of numbers that is not empty has a least element.
LEMMA LeastElement ==
    ASSUME NEW S \in SUBSET Nat, S # {}
    PROVE  \E j \in S : \A k \in S : j <= k
<1> DEFINE R == OpToRel(<, Nat)
<1>1. \A j \in Nat, k \in Nat : k < j => <<k, j>> \in R
  BY Zenon DEF OpToRel
<1>2. IsWellFoundedOn(R, Nat)
  BY NatLessThanWellFounded
<1> HIDE DEF R
<1>3. PICK j \in S : \A k \in S : ~(<<k, j>> \in R)
  BY <1>2, WFMin
<1>4. \A k \in S : ~(k < j)
  BY <1>1, <1>3
<1> QED
  BY <1>3, <1>4

\* Induction up to n.
LEMMA Induct ==
    ASSUME NEW n \in Nat, NEW S,
           0 \in S, \A i \in 1..n : i - 1 \in S => i \in S
    PROVE  \A i \in 0..n : i \in S
<1> DEFINE Bad == {i \in 0..n : i \notin S}
<1> SUFFICES ASSUME Bad # {} PROVE FALSE
  OBVIOUS
<1>1. Bad \in SUBSET Nat
  OBVIOUS
<1>2. PICK j \in Bad : \A k \in Bad : j <= k
  BY <1>1, LeastElement
<1>3. j \in 1..n /\ j \notin S
  BY <1>2
<1>4. j - 1 \in 0..n /\ j - 1 \notin Bad
  BY <1>2, <1>3
<1> QED
  BY <1>3, <1>4

\* A recursion over the members of a list: g[i] is its i-th step.
Rounds(n, D) == [1..n -> [D -> D]]
Iterates(f, n, D, base, g) ==
    f \in [0..n -> D] /\ f[0] = base /\ \A i \in 1..n : f[i] = g[i][f[i - 1]]

\* It is well defined.
LEMMA IterationExists ==
    ASSUME NEW D, NEW n \in Nat, NEW base \in D, NEW g \in Rounds(n, D)
    PROVE  \E f : Iterates(f, n, D, base, g)
<1> USE DEF Rounds
<1> DEFINE Runs(f, m) == /\ f \in [0..m -> D] /\ f[0] = base
                         /\ \A i \in 1..m : f[i] = g[i][f[i - 1]]
           S == {m \in 0..n : \E f : Runs(f, m)}
<1>1. 0 \in S
  <2>1. Runs([i \in 0..0 |-> base], 0)
    OBVIOUS
  <2> HIDE DEF Runs
  <2> QED
    BY <2>1
<1>2. ASSUME NEW m \in 1..n, m - 1 \in S PROVE m \in S
  <2>1. PICK f : Runs(f, m - 1)
    BY <1>2
  <2> DEFINE p == [i \in 0..m |-> IF i = m THEN g[m][f[m - 1]] ELSE f[i]]
  <2>2. f[m - 1] \in D
    BY <2>1
  <2>3. g[m][f[m - 1]] \in D
    BY <2>2
  <2>4. p \in [0..m -> D]
    BY <2>1, <2>3
  <2>5. p[0] = base
    BY <2>1
  <2>6. ASSUME NEW i \in 1..m PROVE p[i] = g[i][p[i - 1]]
    <3>1. i - 1 \in 0..m /\ i - 1 # m /\ p[i - 1] = f[i - 1]
      OBVIOUS
    <3>2. CASE i = m
      BY <3>1, <3>2
    <3>3. CASE i # m
      <4>1. i \in 1..(m - 1) /\ p[i] = f[i]
        BY <3>3
      <4> QED
        BY <2>1, <3>1, <4>1
    <3> QED
      BY <3>2, <3>3
  <2> HIDE DEF p
  <2>7. Runs(p, m)
    BY <2>4, <2>5, <2>6
  <2> QED
    BY <2>7
<1> HIDE DEF S
<1>3. \A m \in 0..n : m \in S
  BY <1>1, <1>2, Induct
<1>4. n \in S
  BY <1>3
<1>5. PICK f : Runs(f, n)
  BY <1>4, Zenon DEF S
<1>6. Iterates(f, n, D, base, g)
  BY <1>5 DEF Iterates
<1> QED
  BY <1>6

-----------------------------------------------------------------------------
(* Erasing one waiter: std::find and erase.                                *)

LEMMA FirstIndex ==
    ASSUME NEW T, NEW s \in Seq(T), NEW c, NEW i \in 1..Len(s), s[i] = c
    PROVE  /\ SelectInSeq(s, LAMBDA v : v = c) \in 1..Len(s)
           /\ s[SelectInSeq(s, LAMBDA v : v = c)] = c
<1> DEFINE I == {j \in 1..Len(s) : s[j] = c}
<1>1. I # {} /\ I \in SUBSET Nat
  OBVIOUS
<1>2. \E j \in I : \A k \in I : j <= k
  BY <1>1, LeastElement
<1> HIDE DEF I
<1>3. Min(I) \in I
  BY <1>2 DEF Min
<1> USE DEF I
<1>4. SelectInSeq(s, LAMBDA v : v = c) = Min(I)
  BY <1>1 DEF SelectInSeq
<1> QED
  BY <1>3, <1>4

\* A list without its i-th entry.
LEMMA RemoveAtProperties ==
    ASSUME NEW T, NEW s \in Seq(T), NEW i \in 1..Len(s)
    PROVE  /\ RemoveAt(s, i) \in Seq(T)
           /\ Len(RemoveAt(s, i)) = Len(s) - 1
           /\ \A k \in 1..(i - 1) : RemoveAt(s, i)[k] = s[k]
           /\ \A k \in i..(Len(s) - 1) : RemoveAt(s, i)[k] = s[k + 1]
<1> DEFINE a == SubSeq(s, 1, i - 1)
           b == SubSeq(s, i + 1, Len(s))
<1>1. Len(s) \in Nat /\ i \in Int
  BY LenProperties
<1>2. /\ a \in Seq(T) /\ Len(a) = i - 1
      /\ \A k \in 1..(i - 1) : a[k] = s[k]
  BY <1>1, SubSeqProperties
<1>3. /\ b \in Seq(T) /\ Len(b) = Len(s) - i
      /\ \A k \in 1..(Len(s) - i) : b[k] = s[i + k]
  BY <1>1, SubSeqProperties
<1> HIDE DEF a, b
<1>4. /\ a \o b \in Seq(T) /\ Len(a \o b) = Len(a) + Len(b)
      /\ \A k \in 1..(Len(a) + Len(b)) :
            (a \o b)[k] = IF k <= Len(a) THEN a[k] ELSE b[k - Len(a)]
  BY <1>2, <1>3, ConcatProperties
<1>5. ASSUME NEW k \in 1..(i - 1)
      PROVE  (a \o b)[k] = s[k]
  <2>1. k \in 1..(Len(a) + Len(b)) /\ k <= Len(a)
    BY <1>1, <1>2, <1>3
  <2> QED
    BY <1>2, <1>4, <2>1
<1>6. ASSUME NEW k \in i..(Len(s) - 1)
      PROVE  (a \o b)[k] = s[k + 1]
  <2>1. k \in 1..(Len(a) + Len(b)) /\ ~(k <= Len(a)) /\ k - Len(a) = k - i + 1
    BY <1>1, <1>2, <1>3
  <2>2. k - i + 1 \in 1..(Len(s) - i) /\ i + (k - i + 1) = k + 1
    BY <1>1
  <2>3. (a \o b)[k] = b[k - i + 1]
    BY <1>4, <2>1
  <2>4. b[k - i + 1] = s[i + (k - i + 1)]
    BY <1>3, <2>2
  <2> QED
    BY <2>2, <2>3, <2>4
<1>7. Len(a \o b) = Len(s) - 1
  BY <1>1, <1>2, <1>3, <1>4
<1> QED
  BY <1>4, <1>5, <1>6, <1>7 DEF RemoveAt, a, b

\* In a list in which nobody is twice, the others stay.
LEMMA RemoveAtToSet ==
    ASSUME NEW T, NEW s \in Seq(T), Distinct(s), NEW i \in 1..Len(s)
    PROVE  /\ RemoveAt(s, i) \in Seq(T)
           /\ Distinct(RemoveAt(s, i))
           /\ ToSet(RemoveAt(s, i)) = ToSet(s) \ {s[i]}
           /\ Len(RemoveAt(s, i)) <= Len(s)
<1> DEFINE r == RemoveAt(s, i)
<1>2. /\ r \in Seq(T) /\ Len(r) = Len(s) - 1
      /\ \A k \in 1..(i - 1) : r[k] = s[k]
      /\ \A k \in i..(Len(s) - 1) : r[k] = s[k + 1]
  BY RemoveAtProperties
<1> HIDE DEF r
<1>l. Len(s) \in Nat /\ Len(r) \in Nat
  BY <1>2, LenProperties
<1>d. \A j \in 1..Len(s), k \in 1..Len(s) : s[j] = s[k] => j = k
  BY DEF Distinct
<1>i. ASSUME NEW k \in 1..Len(r)
      PROVE  \/ k \in 1..(i - 1) /\ k \in 1..Len(s) /\ r[k] = s[k]
             \/ k \in i..(Len(s) - 1) /\ k + 1 \in 1..Len(s) /\ r[k] = s[k + 1]
  BY <1>2, <1>l
<1>3. Distinct(r)
  <2> SUFFICES ASSUME NEW j \in 1..Len(r), NEW k \in 1..Len(r), r[j] = r[k]
               PROVE  j = k
    BY DEF Distinct
  <2> QED
    BY <1>d, <1>i, <1>l
<1>4. ASSUME NEW x \in ToSet(r) PROVE x \in ToSet(s) \ {s[i]}
  <2>1. PICK k \in 1..Len(r) : r[k] = x
    BY <1>2, LenProperties DEF ToSet
  <2>2. PICK j \in 1..Len(s) : j # i /\ s[j] = x
    BY <1>i, <1>l, <2>1
  <2> QED
    BY <1>d, <2>2, LenProperties DEF ToSet
<1>5. ASSUME NEW x \in ToSet(s) \ {s[i]} PROVE x \in ToSet(r)
  <2>1. PICK k \in 1..Len(s) : s[k] = x
    BY DEF ToSet
  <2>2. k # i
    BY <2>1
  <2>3. \/ k \in 1..(i - 1) /\ k \in 1..Len(r) /\ r[k] = x
        \/ k - 1 \in i..(Len(s) - 1) /\ k - 1 \in 1..Len(r) /\ r[k - 1] = s[(k - 1) + 1]
    BY <1>2, <1>l, <2>1, <2>2
  <2>4. (k - 1) + 1 = k
    BY <1>l
  <2> QED
    BY <1>2, <2>1, <2>3, <2>4, LenProperties DEF ToSet
<1> QED
  BY <1>2, <1>3, <1>4, <1>5, <1>l DEF r

\* In a list in which nobody is twice, erasing c takes out c and nobody else.
LEMMA RemoveFirstProperties ==
    ASSUME NEW T, NEW s \in Seq(T), Distinct(s), NEW c
    PROVE  /\ RemoveFirst(s, c) \in Seq(T)
           /\ Distinct(RemoveFirst(s, c))
           /\ ToSet(RemoveFirst(s, c)) = ToSet(s) \ {c}
           /\ Len(RemoveFirst(s, c)) <= Len(s)
<1>1. CASE ~ \E i \in 1..Len(s) : s[i] = c
  <2>1. RemoveFirst(s, c) = s
    BY <1>1 DEF RemoveFirst
  <2> QED
    BY <1>1, <2>1 DEF ToSet
<1>2. CASE \E i \in 1..Len(s) : s[i] = c
  <2> DEFINE i == SelectInSeq(s, LAMBDA v : v = c)
  <2>1. i \in 1..Len(s) /\ s[i] = c
    BY <1>2, FirstIndex
  <2>2. RemoveFirst(s, c) = RemoveAt(s, i)
    BY <1>2 DEF RemoveFirst
  <2> HIDE DEF i
  <2> QED
    BY <2>1, <2>2, RemoveAtToSet
<1> QED
  BY <1>1, <1>2

-----------------------------------------------------------------------------
(* Scheduling several handles in a row.                                    *)

Step(q, h) == IF Contains(q, h) THEN q ELSE Append(q, h)

\* One more handle: the queue gets it unless it has it.
LEMMA StepProperties ==
    ASSUME NEW T, NEW q \in Seq(T), NEW h \in T
    PROVE  /\ Step(q, h) \in Seq(T)
           /\ ToSet(Step(q, h)) = ToSet(q) \cup {h}
           /\ Distinct(q) => Distinct(Step(q, h))
           /\ Extended(Step(q, h), q)
<1>1. CASE Contains(q, h)
  BY <1>1, LenProperties DEF Step, Contains, ToSet, Extended
<1>2. CASE ~Contains(q, h)
  <2> DEFINE r == Append(q, h)
  <2>1. /\ r \in Seq(T) /\ Len(r) = Len(q) + 1 /\ Len(q) \in Nat
        /\ \A i \in 1..Len(q) : r[i] = q[i]
        /\ r[Len(q) + 1] = h
    BY AppendProperties
  <2>2. Step(q, h) = r
    BY <1>2 DEF Step
  <2> HIDE DEF r
  <2>3. \A i \in 1..Len(q) : q[i] # h
    BY <1>2 DEF Contains
  <2>4. ASSUME NEW i \in 1..Len(r) PROVE i \in 1..Len(q) \/ i = Len(q) + 1
    BY <2>1
  <2>5. Distinct(q) => Distinct(r)
    <3> SUFFICES ASSUME Distinct(q), NEW i \in 1..Len(r), NEW j \in 1..Len(r), r[i] = r[j]
                 PROVE  i = j
      BY DEF Distinct
    <3> QED
      BY <2>1, <2>3, <2>4 DEF Distinct
  <2>6. ToSet(r) \subseteq ToSet(q) \cup {h}
    BY <2>1, <2>4, LenProperties DEF ToSet
  <2>7. ToSet(q) \subseteq ToSet(r)
    BY <2>1, LenProperties DEF ToSet
  <2>8. h \in ToSet(r)
    BY <2>1, LenProperties DEF ToSet
  <2>9. Extended(r, q)
    BY <2>1 DEF Extended
  <2> QED
    BY <2>1, <2>2, <2>5, <2>6, <2>7, <2>8, <2>9
<1> QED
  BY <1>1, <1>2

\* The recursion is well defined: the queue after each of the handles.
LEMMA QueueAfterEach ==
    ASSUME NEW T, NEW rest \in Seq(T), NEW hs \in Seq(T)
    PROVE  \E q : q = [i \in 0..Len(hs) |->
                           IF i = 0 THEN rest ELSE Step(q[i - 1], hs[i])]
<1> DEFINE Runs(q, n) == /\ q \in [0..n -> Seq(T)] /\ q[0] = rest
                         /\ \A i \in 1..n : q[i] = Step(q[i - 1], hs[i])
           S == {n \in 0..Len(hs) : \E q : Runs(q, n)}
<1>l. Len(hs) \in Nat
  BY LenProperties
<1>1. 0 \in S
  <2>1. Runs([i \in 0..0 |-> rest], 0)
    OBVIOUS
  <2>2. 0 \in 0..Len(hs)
    BY <1>l
  <2> HIDE DEF Runs
  <2> QED
    BY <2>1, <2>2
<1>2. ASSUME NEW n \in 1..Len(hs), n - 1 \in S PROVE n \in S
  <2>1. PICK q : Runs(q, n - 1)
    BY <1>2
  <2> DEFINE p == [i \in 0..n |-> IF i = n THEN Step(q[n - 1], hs[n]) ELSE q[i]]
  <2>2. n - 1 \in 0..(n - 1) /\ hs[n] \in T
    BY <1>l
  <2>3. Step(q[n - 1], hs[n]) \in Seq(T)
    BY <2>1, <2>2, StepProperties
  <2>4. p \in [0..n -> Seq(T)]
    BY <1>l, <2>1, <2>3
  <2>5. p[0] = rest
    BY <1>l, <2>1
  <2>6. ASSUME NEW i \in 1..n PROVE p[i] = Step(p[i - 1], hs[i])
    <3>1. i - 1 \in 0..n /\ i - 1 # n /\ p[i - 1] = q[i - 1]
      BY <1>l
    <3>2. CASE i = n
      BY <3>1, <3>2
    <3>3. CASE i # n
      <4>1. i \in 1..(n - 1)
        BY <1>l, <3>3
      <4>2. p[i] = q[i]
        BY <1>l, <3>3
      <4> QED
        BY <2>1, <3>1, <4>1, <4>2
    <3> QED
      BY <3>2, <3>3
  <2> HIDE DEF p
  <2>7. Runs(p, n)
    BY <2>4, <2>5, <2>6
  <2> QED
    BY <1>l, <2>7
<1> HIDE DEF S
<1>3. \A n \in 0..Len(hs) : n \in S
  BY <1>l, <1>1, <1>2, Induct
<1>4. Len(hs) \in S
  BY <1>l, <1>3
<1>q. PICK q : Runs(q, Len(hs))
  BY <1>4, Zenon DEF S
<1>5. q = [i \in 0..Len(hs) |-> q[i]]
  BY <1>q
<1>6. ASSUME NEW i \in 0..Len(hs)
      PROVE  q[i] = IF i = 0 THEN rest ELSE Step(q[i - 1], hs[i])
  BY <1>l, <1>q
<1>7. q = [i \in 0..Len(hs) |-> IF i = 0 THEN rest ELSE Step(q[i - 1], hs[i])]
  BY <1>5, <1>6
<1> QED
  BY <1>7

\* Scheduling hs puts exactly hs into the queue, each handle once.
LEMMA ScheduledProperties ==
    ASSUME NEW T, NEW rest \in Seq(T), NEW hs \in Seq(T)
    PROVE  /\ Scheduled(rest, hs) \in Seq(T)
           /\ ToSet(Scheduled(rest, hs)) = ToSet(rest) \cup ToSet(hs)
           /\ Distinct(rest) => Distinct(Scheduled(rest, hs))
           /\ hs = <<>> => Scheduled(rest, hs) = rest
           /\ Extended(Scheduled(rest, hs), rest)
<1> DEFINE Is(f) == f = [i \in 0..Len(hs) |-> IF i = 0 THEN rest ELSE Step(f[i - 1], hs[i])]
           q == CHOOSE f : Is(f)
<1>l. Len(hs) \in Nat
  BY LenProperties
<1>1. Scheduled(rest, hs) = q[Len(hs)]
  BY DEF Scheduled, Step
<1>2. \E f : Is(f)
  BY QueueAfterEach
<1>3. Is(q)
  BY <1>2
<1> HIDE DEF q
<1>4. /\ q[0] = rest
      /\ \A i \in 1..Len(hs) : q[i] = Step(q[i - 1], hs[i])
  BY <1>l, <1>3
<1> HIDE DEF Is
<1> DEFINE Upto(n) == {hs[i] : i \in 1..n}
           Good(n) == /\ q[n] \in Seq(T)
                      /\ ToSet(q[n]) = ToSet(rest) \cup Upto(n)
                      /\ Distinct(rest) => Distinct(q[n])
                      /\ Extended(q[n], rest)
           S == {n \in 0..Len(hs) : Good(n)}
<1>5. 0 \in S
  <2>1. Upto(0) = {} /\ 0 \in 0..Len(hs)
    BY <1>l
  <2>2. Extended(rest, rest)
    BY LenProperties DEF Extended
  <2> QED
    BY <1>4, <2>1, <2>2
<1>6. ASSUME NEW n \in 1..Len(hs), n - 1 \in S PROVE n \in S
  <2>1. Good(n - 1)
    BY <1>6
  <2>2. hs[n] \in T /\ n \in 0..Len(hs)
    BY <1>l
  <2>3. Upto(n) = Upto(n - 1) \cup {hs[n]}
    BY <1>l
  <2> HIDE DEF Upto
  <2>4. q[n] = Step(q[n - 1], hs[n])
    BY <1>4
  <2>5. /\ q[n] \in Seq(T)
        /\ ToSet(q[n]) = ToSet(q[n - 1]) \cup {hs[n]}
        /\ Distinct(q[n - 1]) => Distinct(q[n])
        /\ Extended(q[n], rest)
    <3> DEFINE p == q[n - 1]
    <3>1. p \in Seq(T) /\ q[n] = Step(p, hs[n]) /\ Extended(p, rest)
      BY <2>1, <2>4
    <3> HIDE DEF p
    <3>2. /\ Step(p, hs[n]) \in Seq(T)
          /\ ToSet(Step(p, hs[n])) = ToSet(p) \cup {hs[n]}
          /\ Distinct(p) => Distinct(Step(p, hs[n]))
          /\ Extended(Step(p, hs[n]), p)
      BY <2>2, <3>1, StepProperties
    <3>3. Len(p) \in Nat /\ Len(rest) \in Nat /\ Len(Step(p, hs[n])) \in Nat
      BY <3>1, <3>2, LenProperties
    <3>4. Extended(Step(p, hs[n]), rest)
      BY <3>1, <3>2, <3>3 DEF Extended
    <3> QED
      BY <3>1, <3>2, <3>4 DEF p
  <2> QED
    BY <2>1, <2>2, <2>3, <2>5
<1> HIDE DEF S
<1>7. \A n \in 0..Len(hs) : n \in S
  BY <1>l, <1>5, <1>6, Induct
<1>8. Len(hs) \in S
  BY <1>l, <1>7
<1>9. Good(Len(hs))
  BY <1>8, Zenon DEF S
<1>10. Upto(Len(hs)) = ToSet(hs)
  BY LenProperties DEF ToSet
<1>11. hs = <<>> => Len(hs) = 0
  BY LenProperties
<1> QED
  BY <1>1, <1>4, <1>9, <1>10, <1>11

-----------------------------------------------------------------------------
(* Queues and their sets of handles.                                       *)

LEMMA InToSet ==
    ASSUME NEW T, NEW q \in Seq(T), NEW x
    PROVE  x \in ToSet(q) <=> \E i \in 1..Len(q) : q[i] = x
  BY LenProperties DEF ToSet

\* The handles of a list: none in the empty one, finitely many, and as many as
\* its length if nobody is twice in it.
LEMMA ToSetProperties ==
    ASSUME NEW T, NEW q \in Seq(T)
    PROVE  /\ ToSet(q) \subseteq T
           /\ q = <<>> <=> ToSet(q) = {}
           /\ IsFiniteSet(ToSet(q))
           /\ Distinct(q) => Cardinality(ToSet(q)) = Len(q)
           /\ \A x : Contains(q, x) <=> x \in ToSet(q)
<1>1. Len(q) \in Nat /\ DOMAIN q = 1..Len(q) /\ q \in [1..Len(q) -> T]
  BY LenProperties
<1>2. ToSet(q) \subseteq T
  BY <1>1 DEF ToSet
<1>3. q = <<>> <=> ToSet(q) = {}
  <2>1. q = <<>> <=> Len(q) = 0
    BY LenProperties, EmptySeq
  <2>2. Len(q) # 0 => 1 \in 1..Len(q)
    BY <1>1
  <2>3. Len(q) = 0 => 1..Len(q) = {}
    BY <1>1
  <2>4. 1..Len(q) = {} <=> ToSet(q) = {}
    BY <1>1 DEF ToSet
  <2> QED
    BY <2>1, <2>2, <2>3, <2>4
<1>4. IsFiniteSet(1..Len(q)) /\ Cardinality(1..Len(q)) = Len(q)
  BY <1>1, FS_Interval
<1>5. q \in Surjection(1..Len(q), ToSet(q))
  BY <1>1 DEF Surjection, ToSet
<1>6. IsFiniteSet(ToSet(q))
  BY <1>4, <1>5, FS_Surjection
<1>7. Distinct(q) => q \in Bijection(1..Len(q), ToSet(q))
  BY <1>1, <1>5 DEF Distinct, Bijection, Injection, IsInjective, ToSet
<1>8. Distinct(q) => Cardinality(ToSet(q)) = Len(q)
  <2> SUFFICES ASSUME Distinct(q) PROVE Cardinality(ToSet(q)) = Len(q)
    OBVIOUS
  <2>1. ExistsBijection(1..Len(q), ToSet(q))
    BY <1>7 DEF ExistsBijection
  <2> QED
    BY <1>4, <1>6, <2>1, FS_Bijection
<1>9. \A x : Contains(q, x) <=> x \in ToSet(q)
  BY <1>1 DEF Contains, ToSet
<1> QED
  BY <1>2, <1>3, <1>6, <1>8, <1>9

\* The loop takes the first entry of its queue.
LEMMA TailProperties ==
    ASSUME NEW T, NEW q \in Seq(T), q # <<>>
    PROVE  /\ Head(q) \in T /\ Tail(q) \in Seq(T)
           /\ Len(Tail(q)) = Len(q) - 1
           /\ ToSet(q) = ToSet(Tail(q)) \cup {Head(q)}
           /\ Distinct(q) => Distinct(Tail(q)) /\ Head(q) \notin ToSet(Tail(q))
<1> DEFINE r == Tail(q)
<1>1. /\ Len(q) \in Nat /\ Len(q) > 0 /\ Head(q) = q[1] /\ Head(q) \in T
      /\ r \in Seq(T) /\ Len(r) = Len(q) - 1
      /\ \A i \in 1..Len(r) : r[i] = q[i + 1]
  BY HeadTailProperties, LenProperties
<1> HIDE DEF r
<1>2. DOMAIN q = 1..Len(q) /\ DOMAIN r = 1..Len(r) /\ Len(r) \in Nat
  BY <1>1, LenProperties
<1>3. \A i \in 1..Len(q) : i = 1 \/ (i - 1 \in 1..Len(r) /\ (i - 1) + 1 = i)
  BY <1>1
<1>4. ASSUME NEW x \in ToSet(q) PROVE x \in ToSet(r) \cup {Head(q)}
  <2>1. PICK i \in 1..Len(q) : q[i] = x
    BY InToSet
  <2>2. CASE i = 1
    BY <1>1, <2>1, <2>2
  <2>3. CASE i # 1
    <3>1. i - 1 \in 1..Len(r) /\ (i - 1) + 1 = i
      BY <1>3, <2>3
    <3>2. r[i - 1] = x
      BY <1>1, <2>1, <3>1
    <3> QED
      BY <1>1, <3>1, <3>2, InToSet
  <2> QED
    BY <2>2, <2>3
<1>5. \A i \in 1..Len(r) : i + 1 \in 1..Len(q) /\ i + 1 # 1
  BY <1>1
<1>6. ToSet(r) \cup {Head(q)} \subseteq ToSet(q)
  BY <1>1, <1>2, <1>5 DEF ToSet
<1>7. ASSUME Distinct(q) PROVE Distinct(r) /\ Head(q) \notin ToSet(r)
  <2>1. Distinct(r)
    <3> SUFFICES ASSUME NEW i \in 1..Len(r), NEW j \in 1..Len(r), r[i] = r[j]
                 PROVE  i = j
      BY DEF Distinct
    <3>1. i + 1 = j + 1
      BY <1>1, <1>5, <1>7 DEF Distinct
    <3> QED
      BY <1>2, <3>1
  <2>2. ASSUME NEW i \in 1..Len(r) PROVE r[i] # q[1]
    BY <1>1, <1>5, <1>7 DEF Distinct
  <2> QED
    BY <1>1, <1>2, <2>1, <2>2 DEF ToSet
<1> QED
  BY <1>1, <1>4, <1>6, <1>7 DEF r

\* One more waiter at the end.
LEMMA AppendToSet ==
    ASSUME NEW T, NEW q \in Seq(T), NEW h \in T
    PROVE  /\ Append(q, h) \in Seq(T)
           /\ Len(Append(q, h)) = Len(q) + 1
           /\ ToSet(Append(q, h)) = ToSet(q) \cup {h}
           /\ Distinct(q) /\ h \notin ToSet(q) => Distinct(Append(q, h))
           /\ Extended(Append(q, h), q)
<1>0. Extended(Append(q, h), q)
  BY AppendProperties, LenProperties DEF Extended
<1>1. CASE h \in ToSet(q)
  <2> DEFINE r == Append(q, h)
  <2>1. /\ r \in Seq(T) /\ Len(r) = Len(q) + 1 /\ Len(q) \in Nat
        /\ \A i \in 1..Len(q) : r[i] = q[i]
        /\ r[Len(q) + 1] = h
    BY AppendProperties
  <2> HIDE DEF r
  <2>2. \A i \in 1..Len(r) : i \in 1..Len(q) \/ i = Len(q) + 1
    BY <2>1
  <2>3. ToSet(r) \subseteq ToSet(q) \cup {h}
    BY <2>1, <2>2, LenProperties DEF ToSet
  <2>4. ToSet(q) \cup {h} \subseteq ToSet(r)
    BY <2>1, LenProperties DEF ToSet
  <2> QED
    BY <1>0, <1>1, <2>1, <2>3, <2>4 DEF r
<1>2. CASE h \notin ToSet(q)
  <2>1. ~Contains(q, h)
    BY <1>2, ToSetProperties
  <2>2. Step(q, h) = Append(q, h)
    BY <2>1 DEF Step
  <2> QED
    <3>1. Append(q, h) \in Seq(T) /\ Len(Append(q, h)) = Len(q) + 1
      BY AppendProperties
    <3>2. /\ ToSet(Step(q, h)) = ToSet(q) \cup {h}
          /\ Distinct(q) => Distinct(Step(q, h))
      BY StepProperties
    <3> QED
      BY <1>0, <2>2, <3>1, <3>2
<1> QED
  BY <1>1, <1>2

\* The first k waiters, who are woken, and the ones that go on waiting.
LEMMA SplitProperties ==
    ASSUME NEW T, NEW q \in Seq(T), NEW k \in 0..Len(q)
    PROVE  /\ SubSeq(q, 1, k) \in Seq(T) /\ SubSeq(q, k + 1, Len(q)) \in Seq(T)
           /\ Len(SubSeq(q, 1, k)) = k /\ Len(SubSeq(q, k + 1, Len(q))) = Len(q) - k
           /\ ToSet(q) = ToSet(SubSeq(q, 1, k)) \cup ToSet(SubSeq(q, k + 1, Len(q)))
           /\ Distinct(q) => /\ Distinct(SubSeq(q, 1, k))
                             /\ Distinct(SubSeq(q, k + 1, Len(q)))
                             /\ ToSet(SubSeq(q, 1, k)) \cap ToSet(SubSeq(q, k + 1, Len(q))) = {}
<1> DEFINE a == SubSeq(q, 1, k)
           b == SubSeq(q, k + 1, Len(q))
<1>1. Len(q) \in Nat /\ k \in Nat /\ DOMAIN q = 1..Len(q)
  BY LenProperties
<1>k. \A n \in Nat : k \in 0..n /\ ~(k + 1 <= n) => k = n
  BY <1>1
<1>2. /\ a \in Seq(T) /\ Len(a) = k
      /\ \A i \in 1..k : a[i] = q[i]
  BY <1>1, SubSeqProperties
<1>3. /\ b \in Seq(T) /\ Len(b) = Len(q) - k
      /\ \A i \in 1..(Len(q) - k) : b[i] = q[k + i]
  <2>1. /\ k + 1 \in Int /\ \A i \in (k + 1)..Len(q) : q[i] \in T
        /\ Len(q) - (k + 1) + 1 = Len(q) - k
    BY <1>1
  <2>2. /\ b \in Seq(T) /\ Len(b) = IF k + 1 <= Len(q) THEN Len(q) - (k + 1) + 1 ELSE 0
        /\ \A i \in 1..(Len(q) - (k + 1) + 1) : b[i] = q[(k + 1) + i - 1]
    BY <1>1, <2>1, SubSeqProperties
  <2>3. Len(b) = Len(q) - k
    <3> HIDE DEF a, b
    <3>1. CASE k + 1 <= Len(q)
      BY <2>1, <2>2, <3>1
    <3>2. CASE ~(k + 1 <= Len(q))
      <4>1. k = Len(q)
        BY <1>1, <1>k, <3>2
      <4>2. Len(b) = 0
        BY <2>2, <3>2
      <4> QED
        BY <1>1, <4>1, <4>2
    <3> QED
      BY <3>1, <3>2
  <2>4. \A i \in 1..(Len(q) - k) : (k + 1) + i - 1 = k + i
    BY <1>1
  <2> QED
    BY <2>1, <2>2, <2>3, <2>4
<1> HIDE DEF a, b
<1>4. DOMAIN a = 1..k /\ DOMAIN b = 1..(Len(q) - k)
  BY <1>2, <1>3, LenProperties
<1>5. /\ \A i \in 1..k : i \in 1..Len(q)
      /\ \A i \in 1..(Len(q) - k) : k + i \in 1..Len(q) /\ k + i \notin 1..k
      /\ \A i \in 1..Len(q) : i \in 1..k \/ (i - k \in 1..(Len(q) - k) /\ k + (i - k) = i)
  BY <1>1
<1>6. ASSUME NEW x \in ToSet(a) \cup ToSet(b) PROVE x \in ToSet(q)
  <2>1. CASE x \in ToSet(a)
    BY <1>2, <1>5, <2>1, InToSet
  <2>2. CASE x \in ToSet(b)
    BY <1>3, <1>5, <2>2, InToSet
  <2> QED
    BY <2>1, <2>2
<1>7. ASSUME NEW x \in ToSet(q) PROVE x \in ToSet(a) \cup ToSet(b)
  <2>1. PICK i \in 1..Len(q) : q[i] = x
    BY InToSet
  <2>2. CASE i \in 1..k
    BY <1>2, <2>1, <2>2, InToSet
  <2>3. CASE i \notin 1..k
    <3>1. i - k \in 1..(Len(q) - k) /\ k + (i - k) = i
      BY <1>5, <2>3
    <3>2. b[i - k] = x
      BY <1>3, <2>1, <3>1
    <3> QED
      BY <1>3, <3>1, <3>2, InToSet
  <2> QED
    BY <2>2, <2>3
<1>8. ASSUME Distinct(q) PROVE Distinct(a) /\ Distinct(b) /\ ToSet(a) \cap ToSet(b) = {}
  <2>1. Distinct(a)
    BY <1>2, <1>5, <1>8 DEF Distinct
  <2>2. Distinct(b)
    <3> SUFFICES ASSUME NEW i \in 1..Len(b), NEW j \in 1..Len(b), b[i] = b[j]
                 PROVE  i = j
      BY DEF Distinct
    <3>1. k + i = k + j
      BY <1>3, <1>5, <1>8 DEF Distinct
    <3> QED
      BY <1>1, <1>3, <3>1
  <2>3. ASSUME NEW i \in 1..k, NEW j \in 1..(Len(q) - k) PROVE a[i] # b[j]
    <3>1. i \in 1..Len(q) /\ k + j \in 1..Len(q) /\ k + j # i
      BY <1>5
    <3>2. q[i] # q[k + j]
      BY <1>8, <3>1 DEF Distinct
    <3> QED
      BY <1>2, <1>3, <3>2
  <2> QED
    BY <1>4, <2>1, <2>2, <2>3 DEF ToSet
<1> QED
  BY <1>2, <1>3, <1>6, <1>7, <1>8 DEF a, b

\* Two lists one after the other.
LEMMA ConcatToSet ==
    ASSUME NEW T, NEW p \in Seq(T), NEW q \in Seq(T)
    PROVE  /\ p \o q \in Seq(T) /\ ToSet(p \o q) = ToSet(p) \cup ToSet(q)
           /\ Extended(p \o q, p)
           /\ Distinct(p) /\ Distinct(q) /\ ToSet(p) \cap ToSet(q) = {} => Distinct(p \o q)
<1>2. Range(p \o q) = Range(p) \cup Range(q)
  BY RangeConcatenation
<1> DEFINE r == p \o q
<1>3. /\ r \in Seq(T) /\ Len(r) = Len(p) + Len(q) /\ Len(p) \in Nat /\ Len(q) \in Nat
      /\ \A i \in 1..(Len(p) + Len(q)) : r[i] = IF i <= Len(p) THEN p[i] ELSE q[i - Len(p)]
  BY ConcatProperties, LenProperties
<1>4. ToSet(r) = ToSet(p) \cup ToSet(q)
  BY <1>2 DEF Range, ToSet
<1> HIDE DEF r
<1>5. Extended(r, p)
  BY <1>3 DEF Extended
<1>6. ASSUME Distinct(p), Distinct(q), ToSet(p) \cap ToSet(q) = {},
             NEW i \in 1..Len(r), NEW j \in 1..Len(r), r[i] = r[j]
      PROVE  i = j
  <2>1. \A n \in 1..Len(r) :
           \/ n \in 1..Len(p) /\ r[n] = p[n] /\ r[n] \in ToSet(p)
           \/ n - Len(p) \in 1..Len(q) /\ r[n] = q[n - Len(p)] /\ r[n] \in ToSet(q)
    BY <1>3, LenProperties DEF ToSet
  <2>2. \/ i \in 1..Len(p) /\ j \in 1..Len(p) /\ p[i] = p[j]
        \/ /\ i - Len(p) \in 1..Len(q) /\ j - Len(p) \in 1..Len(q)
           /\ q[i - Len(p)] = q[j - Len(p)]
    BY <1>6, <2>1
  <2>3. CASE i \in 1..Len(p) /\ j \in 1..Len(p) /\ p[i] = p[j]
    BY <1>6, <2>3 DEF Distinct
  <2>4. CASE /\ i - Len(p) \in 1..Len(q) /\ j - Len(p) \in 1..Len(q)
             /\ q[i - Len(p)] = q[j - Len(p)]
    <3>1. i - Len(p) = j - Len(p)
      BY <1>6, <2>4 DEF Distinct
    <3> QED
      BY <1>3, <3>1
  <2> QED
    BY <2>2, <2>3, <2>4
<1>7. Distinct(p) /\ Distinct(q) /\ ToSet(p) \cap ToSet(q) = {} => Distinct(r)
  BY <1>6 DEF Distinct
<1> QED
  BY <1>3, <1>4, <1>5, <1>7 DEF r

\* The empty list.
LEMMA NoWaiters ==
    ASSUME NEW T
    PROVE  <<>> \in Seq(T) /\ Distinct(<<>>) /\ ToSet(<<>>) = {}
<1> DEFINE q == <<>>
<1>1. q \in Seq(T) /\ Len(q) = 0 /\ q = <<>>
  BY EmptySeq
<1> HIDE DEF q
<1>2. 1..Len(q) = {}
  BY <1>1
<1>3. ToSet(q) = {}
  BY <1>1, ToSetProperties
<1>4. Distinct(q)
  BY <1>2 DEF Distinct
<1> QED
  BY <1>1, <1>3, <1>4

-----------------------------------------------------------------------------
(* The part of a list that is in a set.                                    *)

Keep(q, h, S) == IF h \in S THEN Append(q, h) ELSE q

LEMMA ListAfterEach ==
    ASSUME NEW T, NEW s \in Seq(T), NEW S
    PROVE  \E f : f = [i \in 0..Len(s) |->
                           IF i = 0 THEN <<>> ELSE Keep(f[i - 1], s[i], S)]
<1> DEFINE Runs(f, n) == /\ f \in [0..n -> Seq(T)] /\ f[0] = <<>>
                         /\ \A i \in 1..n : f[i] = Keep(f[i - 1], s[i], S)
           N == {n \in 0..Len(s) : \E f : Runs(f, n)}
<1>l. Len(s) \in Nat
  BY LenProperties
<1>e. <<>> \in Seq(T)
  BY EmptySeq
<1>1. 0 \in N
  <2>1. Runs([i \in 0..0 |-> <<>>], 0)
    BY <1>e
  <2>2. 0 \in 0..Len(s)
    BY <1>l
  <2> HIDE DEF Runs
  <2> QED
    BY <2>1, <2>2
<1>2. ASSUME NEW n \in 1..Len(s), n - 1 \in N PROVE n \in N
  <2>1. PICK f : Runs(f, n - 1)
    BY <1>2
  <2> DEFINE p == [i \in 0..n |-> IF i = n THEN Keep(f[n - 1], s[n], S) ELSE f[i]]
  <2>2. n - 1 \in 0..(n - 1) /\ s[n] \in T
    BY <1>l
  <2>3. Keep(f[n - 1], s[n], S) \in Seq(T)
    <3>1. f[n - 1] \in Seq(T)
      BY <2>1, <2>2
    <3> QED
      BY <2>2, <3>1, AppendProperties DEF Keep
  <2>4. p \in [0..n -> Seq(T)]
    BY <1>l, <2>1, <2>3
  <2>5. p[0] = <<>>
    BY <1>l, <2>1
  <2>6. ASSUME NEW i \in 1..n PROVE p[i] = Keep(p[i - 1], s[i], S)
    <3>1. i - 1 \in 0..n /\ i - 1 # n /\ p[i - 1] = f[i - 1]
      BY <1>l
    <3>2. CASE i = n
      BY <3>1, <3>2
    <3>3. CASE i # n
      <4>1. i \in 1..(n - 1)
        BY <1>l, <3>3
      <4>2. p[i] = f[i]
        BY <1>l, <3>3
      <4> QED
        BY <2>1, <3>1, <4>1, <4>2
    <3> QED
      BY <3>2, <3>3
  <2> HIDE DEF p
  <2>7. Runs(p, n)
    BY <2>4, <2>5, <2>6
  <2>8. n \in 0..Len(s)
    BY <1>l
  <2> HIDE DEF Runs
  <2> QED
    BY <2>7, <2>8
<1> HIDE DEF N
<1>3. \A n \in 0..Len(s) : n \in N
  BY <1>l, <1>1, <1>2, Induct
<1>4. Len(s) \in N
  BY <1>l, <1>3
<1>q. PICK f : Runs(f, Len(s))
  BY <1>4, Zenon DEF N
<1>5. f = [i \in 0..Len(s) |-> f[i]]
  BY <1>q
<1>6. ASSUME NEW i \in 0..Len(s)
      PROVE  f[i] = IF i = 0 THEN <<>> ELSE Keep(f[i - 1], s[i], S)
  BY <1>l, <1>q
<1>7. f = [i \in 0..Len(s) |-> IF i = 0 THEN <<>> ELSE Keep(f[i - 1], s[i], S)]
  BY <1>5, <1>6
<1> QED
  BY <1>7

\* The part has the members of s that are in S, each as often as s has it.
LEMMA FilteredProperties ==
    ASSUME NEW T, NEW s \in Seq(T), NEW S
    PROVE  /\ Filtered(s, S) \in Seq(T)
           /\ ToSet(Filtered(s, S)) = ToSet(s) \cap S
           /\ Distinct(s) => Distinct(Filtered(s, S))
<1> DEFINE Is(g) == g = [i \in 0..Len(s) |-> IF i = 0 THEN <<>> ELSE Keep(g[i - 1], s[i], S)]
           f == CHOOSE g : Is(g)
<1>l. Len(s) \in Nat
  BY LenProperties
<1>1. Filtered(s, S) = f[Len(s)]
  BY DEF Filtered, Keep
<1>2. \E g : Is(g)
  BY ListAfterEach
<1>3. Is(f)
  BY <1>2
<1> HIDE DEF f
<1>4. /\ f[0] = <<>>
      /\ \A i \in 1..Len(s) : f[i] = Keep(f[i - 1], s[i], S)
  BY <1>l, <1>3
<1> HIDE DEF Is
<1> DEFINE Upto(n) == {s[i] : i \in 1..n}
           Good(n) == /\ f[n] \in Seq(T)
                      /\ ToSet(f[n]) = Upto(n) \cap S
                      /\ Distinct(s) => Distinct(f[n])
           N == {n \in 0..Len(s) : Good(n)}
<1>5. 0 \in N
  <2>1. Upto(0) = {} /\ 0 \in 0..Len(s)
    BY <1>l
  <2>2. <<>> \in Seq(T) /\ Distinct(<<>>) /\ ToSet(<<>>) = {}
    BY NoWaiters
  <2> QED
    BY <1>4, <2>1, <2>2
<1>6. ASSUME NEW n \in 1..Len(s), n - 1 \in N PROVE n \in N
  <2>1. Good(n - 1)
    BY <1>6
  <2>2. s[n] \in T /\ n \in 0..Len(s)
    BY <1>l
  <2>3. Upto(n) = Upto(n - 1) \cup {s[n]}
    BY <1>l
  <2>4. Distinct(s) => s[n] \notin Upto(n - 1)
    <3> SUFFICES ASSUME Distinct(s), NEW i \in 1..(n - 1), s[i] = s[n] PROVE FALSE
      OBVIOUS
    <3>1. i \in 1..Len(s) /\ i # n
      BY <1>l
    <3> QED
      BY <3>1 DEF Distinct
  <2> HIDE DEF Upto
  <2> DEFINE p == f[n - 1]
  <2>5. f[n] = Keep(p, s[n], S)
    BY <1>4
  <2>6. p \in Seq(T) /\ ToSet(p) = Upto(n - 1) \cap S /\ (Distinct(s) => Distinct(p))
    BY <2>1
  <2> HIDE DEF p
  <2>7. CASE s[n] \in S
    <3>1. f[n] = Append(p, s[n])
      BY <2>5, <2>7 DEF Keep
    <3>2. /\ Append(p, s[n]) \in Seq(T) /\ ToSet(Append(p, s[n])) = ToSet(p) \cup {s[n]}
          /\ Distinct(p) /\ s[n] \notin ToSet(p) => Distinct(Append(p, s[n]))
      BY <2>2, <2>6, AppendToSet
    <3> QED
      BY <2>2, <2>3, <2>4, <2>6, <2>7, <3>1, <3>2
  <2>8. CASE s[n] \notin S
    <3>1. f[n] = p
      BY <2>5, <2>8 DEF Keep
    <3> QED
      BY <2>2, <2>3, <2>6, <2>8, <3>1
  <2> QED
    BY <2>7, <2>8
<1> HIDE DEF N
<1>7. \A n \in 0..Len(s) : n \in N
  BY <1>l, <1>5, <1>6, Induct
<1>8. Len(s) \in N
  BY <1>l, <1>7
<1>9. Good(Len(s))
  BY <1>8, Zenon DEF N
<1>10. Upto(Len(s)) = ToSet(s)
  BY LenProperties DEF ToSet
<1> QED
  BY <1>1, <1>9, <1>10

-----------------------------------------------------------------------------
(* Who comes first.                                                        *)

LEMMA BeforeExtended ==
    ASSUME NEW T, NEW q \in Seq(T), NEW r \in Seq(T), Extended(r, q),
           NEW a, NEW b, a \in ToSet(q), Before(q, a, b)
    PROVE  Before(r, a, b)
<1>l. Len(q) \in Nat /\ Len(r) \in Nat
  BY LenProperties
<1>e. /\ Len(q) <= Len(r) /\ \A i \in 1..Len(q) : r[i] = q[i]
  BY DEF Extended
<1>1. PICK m \in 1..Len(q) : q[m] = a
  BY InToSet
<1> SUFFICES ASSUME NEW j \in 1..Len(r), r[j] = b
             PROVE  \E i \in 1..(j - 1) : r[i] = a
  BY DEF Before
<1>2. CASE j \in 1..Len(q)
  <2>1. PICK i \in 1..(j - 1) : q[i] = a
    BY <1>e, <1>2 DEF Before
  <2>2. i \in 1..Len(q)
    BY <1>l, <1>2
  <2> QED
    BY <1>e, <2>1, <2>2
<1>3. CASE j \notin 1..Len(q)
  <2>1. m \in 1..(j - 1)
    BY <1>l, <1>3
  <2> QED
    BY <1>e, <1>1, <2>1
<1> QED
  BY <1>2, <1>3

LEMMA BeforeTail ==
    ASSUME NEW T, NEW q \in Seq(T), q # <<>>, NEW a, NEW b, a # Head(q), Before(q, a, b)
    PROVE  Before(Tail(q), a, b)
<1> DEFINE r == Tail(q)
<1>1. /\ Len(q) \in Nat /\ Len(q) > 0 /\ Head(q) = q[1]
      /\ r \in Seq(T) /\ Len(r) = Len(q) - 1
      /\ \A i \in 1..Len(r) : r[i] = q[i + 1]
  BY HeadTailProperties, LenProperties
<1> HIDE DEF r
<1>2. Before(r, a, b)
  <2> SUFFICES ASSUME NEW j \in 1..Len(r), r[j] = b
               PROVE  \E i \in 1..(j - 1) : r[i] = a
    BY DEF Before
  <2>1. j + 1 \in 1..Len(q) /\ q[j + 1] = b /\ (j + 1) - 1 = j
    BY <1>1
  <2>2. PICK i \in 1..j : q[i] = a
    BY <2>1 DEF Before
  <2>3. i # 1
    BY <1>1, <2>2
  <2>4. i - 1 \in 1..(j - 1) /\ i - 1 \in 1..Len(r) /\ (i - 1) + 1 = i
    BY <1>1, <2>3
  <2>5. r[i - 1] = a
    BY <1>1, <2>2, <2>4
  <2> QED
    BY <2>4, <2>5
<1> QED
  BY <1>2 DEF r

LEMMA BeforeProperties ==
    ASSUME NEW T, NEW q \in Seq(T), NEW a, NEW b
    PROVE  /\ b \notin ToSet(q) => Before(q, a, b)
           /\ q # <<>> /\ Head(q) = b => ~Before(q, a, b)
<1>1. ASSUME b \notin ToSet(q) PROVE Before(q, a, b)
  <2>1. \A j \in 1..Len(q) : q[j] # b
    BY <1>1, InToSet
  <2> QED
    BY <2>1 DEF Before
<1>2. ASSUME q # <<>>, Head(q) = b PROVE ~Before(q, a, b)
  <2>1. 1 \in 1..Len(q) /\ q[1] = b /\ 1..(1 - 1) = {}
    BY <1>2, HeadTailProperties, LenProperties, EmptySeq
  <2> QED
    BY <2>1 DEF Before
<1> QED
  BY <1>1, <1>2

-----------------------------------------------------------------------------
(* Counting waiters.                                                       *)

LEMMA DisjointUnion ==
    ASSUME NEW S, NEW W, IsFiniteSet(S), IsFiniteSet(W), S \cap W = {}
    PROVE  Cardinality(S \cup W) = Cardinality(S) + Cardinality(W)
<1>1. Cardinality(S) \in Nat /\ Cardinality(W) \in Nat
  BY FS_CardinalityType
<1>2. Cardinality(S \cap W) = 0
  BY FS_EmptySet
<1>3. Cardinality(S \cup W) = Cardinality(S) + Cardinality(W) - Cardinality(S \cap W)
  BY FS_Union
<1> QED
  BY <1>1, <1>2, <1>3

LEMMA OneMore ==
    ASSUME NEW S, NEW x, IsFiniteSet(S)
    PROVE  /\ IsFiniteSet(S \cup {x}) /\ Cardinality(S) \in Nat /\ Cardinality(S \cup {x}) \in Nat
           /\ x \notin S => Cardinality(S \cup {x}) = Cardinality(S) + 1
           /\ Cardinality(S \cup {x}) >= Cardinality(S)
<1>1. Cardinality(S) \in Nat
  BY FS_CardinalityType
<1>2. /\ IsFiniteSet(S \cup {x})
      /\ Cardinality(S \cup {x}) = IF x \in S THEN Cardinality(S) ELSE Cardinality(S) + 1
  BY FS_AddElement
<1> QED
  BY <1>1, <1>2

LEMMA OneFewer ==
    ASSUME NEW S, NEW x, IsFiniteSet(S)
    PROVE  /\ IsFiniteSet(S \ {x}) /\ Cardinality(S) \in Nat /\ Cardinality(S \ {x}) \in Nat
           /\ x \in S => Cardinality(S \ {x}) = Cardinality(S) - 1
           /\ Cardinality(S \ {x}) >= Cardinality(S) - 1
<1>1. Cardinality(S) \in Nat
  BY FS_CardinalityType
<1>2. /\ IsFiniteSet(S \ {x})
      /\ Cardinality(S \ {x}) = IF x \in S THEN Cardinality(S) - 1 ELSE Cardinality(S)
  BY FS_RemoveElement
<1>3. Cardinality(S \ {x}) \in Nat
  BY <1>2, FS_CardinalityType
<1> QED
  BY <1>1, <1>2, <1>3

-----------------------------------------------------------------------------
(* The order of a list, as a relation on its members.                      *)

\* x stands before y somewhere in q.
Precedes(q, x, y) == \E i \in 1..Len(q), j \in 1..Len(q) : i < j /\ q[i] = x /\ q[j] = y

\* r has members of q only, in the order of q.
Part(r, q) == ToSet(r) \subseteq ToSet(q) /\ \A x, y : Precedes(r, x, y) => Precedes(q, x, y)

LEMMA PartOrder ==
    /\ \A q : Part(q, q)
    /\ \A p, q, r : Part(p, q) /\ Part(q, r) => Part(p, r)
  BY DEF Part

LEMMA PartEmpty ==
    ASSUME NEW q
    PROVE  Part(<<>>, q)
<1>1. Len(<<>>) = 0 /\ ToSet(<<>>) = {}
  BY NoWaiters
<1>2. \A x, y : ~Precedes(<<>>, x, y)
  BY <1>1 DEF Precedes
<1> QED
  BY <1>1, <1>2 DEF Part

LEMMA PartTail ==
    ASSUME NEW T, NEW q \in Seq(T), q # <<>>
    PROVE  /\ Part(Tail(q), q)
           /\ \A y \in ToSet(Tail(q)) : Precedes(q, Head(q), y)
<1> DEFINE r == Tail(q)
<1>1. /\ Len(q) \in Nat /\ Len(q) > 0 /\ Head(q) = q[1] /\ r \in Seq(T) /\ Len(r) = Len(q) - 1
      /\ \A i \in 1..Len(r) : r[i] = q[i + 1]
  BY HeadTailProperties, LenProperties
<1>t. ToSet(r) \subseteq ToSet(q)
  BY TailProperties
<1> HIDE DEF r
<1>2. \A i \in 1..Len(r) : i + 1 \in 1..Len(q) /\ i \in Nat /\ 1 < i + 1
  BY <1>1
<1>3. ASSUME NEW x, NEW y, Precedes(r, x, y) PROVE Precedes(q, x, y)
  <2>1. PICK i \in 1..Len(r), j \in 1..Len(r) : i < j /\ r[i] = x /\ r[j] = y
    BY <1>3 DEF Precedes
  <2>2. i + 1 < j + 1 /\ i + 1 \in 1..Len(q) /\ j + 1 \in 1..Len(q)
    BY <1>2, <2>1
  <2>3. q[i + 1] = x /\ q[j + 1] = y
    BY <1>1, <2>1
  <2> QED
    BY <2>2, <2>3 DEF Precedes
<1>4. ASSUME NEW y \in ToSet(r) PROVE Precedes(q, Head(q), y)
  <2>1. PICK i \in 1..Len(r) : r[i] = y
    BY <1>1, InToSet
  <2>2. i + 1 \in 1..Len(q) /\ 1 \in 1..Len(q) /\ 1 < i + 1 /\ q[i + 1] = y /\ q[1] = Head(q)
    BY <1>1, <1>2, <2>1
  <2> QED
    BY <2>2 DEF Precedes
<1> QED
  BY <1>t, <1>3, <1>4 DEF r, Part

LEMMA ConcatPrecedes ==
    ASSUME NEW T, NEW p \in Seq(T), NEW q \in Seq(T)
    PROVE  \A x, y : Precedes(p \o q, x, y) <=>
               Precedes(p, x, y) \/ Precedes(q, x, y) \/ (x \in ToSet(p) /\ y \in ToSet(q))
<1> DEFINE r == p \o q
<1>1. /\ Len(p) \in Nat /\ Len(q) \in Nat /\ Len(r) = Len(p) + Len(q)
      /\ \A i \in 1..(Len(p) + Len(q)) : r[i] = IF i <= Len(p) THEN p[i] ELSE q[i - Len(p)]
  BY ConcatProperties, LenProperties
<1> HIDE DEF r
<1>2. \A i \in 1..Len(p) : p[i] \in ToSet(p)
  BY InToSet
<1>3. \A i \in 1..Len(q) : q[i] \in ToSet(q)
  BY InToSet
<1>4. ASSUME NEW x, NEW y, Precedes(r, x, y)
      PROVE  Precedes(p, x, y) \/ Precedes(q, x, y) \/ (x \in ToSet(p) /\ y \in ToSet(q))
  <2>0. PICK i \in 1..Len(r), j \in 1..Len(r) : i < j /\ r[i] = x /\ r[j] = y
    BY <1>4 DEF Precedes
  <2>1. CASE j <= Len(p)
    <3>1. i \in 1..Len(p) /\ j \in 1..Len(p) /\ r[i] = p[i] /\ r[j] = p[j]
      BY <1>1, <2>0, <2>1
    <3> QED
      BY <2>0, <3>1 DEF Precedes
  <2>2. CASE i <= Len(p) /\ ~(j <= Len(p))
    <3>1. i \in 1..Len(p) /\ j - Len(p) \in 1..Len(q) /\ r[i] = p[i] /\ r[j] = q[j - Len(p)]
      BY <1>1, <2>2
    <3> QED
      BY <1>2, <1>3, <2>0, <3>1
  <2>3. CASE ~(i <= Len(p))
    <3>1. /\ i - Len(p) \in 1..Len(q) /\ j - Len(p) \in 1..Len(q)
          /\ r[i] = q[i - Len(p)] /\ r[j] = q[j - Len(p)] /\ i - Len(p) < j - Len(p)
      BY <1>1, <2>0, <2>3
    <3> QED
      BY <2>0, <3>1 DEF Precedes
  <2> QED
    BY <1>1, <2>0, <2>1, <2>2, <2>3
<1>5. \A i \in 1..Len(p) : i \in 1..Len(r) /\ r[i] = p[i]
  BY <1>1
<1>6. ASSUME NEW i \in 1..Len(q)
      PROVE  i + Len(p) \in 1..Len(r) /\ r[i + Len(p)] = q[i] /\ \A j \in 1..Len(p) : j < i + Len(p)
  <2>1. i + Len(p) \in 1..(Len(p) + Len(q)) /\ ~(i + Len(p) <= Len(p)) /\ i + Len(p) - Len(p) = i
    BY <1>1
  <2> QED
    BY <1>1, <2>1
<1>7. ASSUME NEW x, NEW y, Precedes(p, x, y) PROVE Precedes(r, x, y)
  BY <1>5, <1>7 DEF Precedes
<1>8. ASSUME NEW x, NEW y, Precedes(q, x, y) PROVE Precedes(r, x, y)
  <2>0. PICK i \in 1..Len(q), j \in 1..Len(q) : i < j /\ q[i] = x /\ q[j] = y
    BY <1>8 DEF Precedes
  <2>1. i + Len(p) < j + Len(p)
    BY <1>1, <2>0
  <2> QED
    BY <1>6, <2>0, <2>1 DEF Precedes
<1>9. ASSUME NEW x, NEW y, x \in ToSet(p), y \in ToSet(q) PROVE Precedes(r, x, y)
  <2>1. PICK i \in 1..Len(p) : p[i] = x
    BY <1>9, InToSet
  <2>2. PICK j \in 1..Len(q) : q[j] = y
    BY <1>9, InToSet
  <2> QED
    BY <1>5, <1>6, <2>1, <2>2 DEF Precedes
<1>10. \A x, y : Precedes(r, x, y) <=>
           Precedes(p, x, y) \/ Precedes(q, x, y) \/ (x \in ToSet(p) /\ y \in ToSet(q))
  BY <1>4, <1>7, <1>8, <1>9
<1> QED
  BY <1>10 DEF r

LEMMA PartConcat ==
    ASSUME NEW T, NEW p \in Seq(T), NEW q \in Seq(T), NEW p2 \in Seq(T), NEW q2 \in Seq(T),
           Part(p2, p), Part(q2, q)
    PROVE  Part(p2 \o q2, p \o q)
<1>1. /\ ToSet(p \o q) = ToSet(p) \cup ToSet(q) /\ ToSet(p2 \o q2) = ToSet(p2) \cup ToSet(q2)
  BY ConcatToSet
<1>2. /\ \A x, y : Precedes(p \o q, x, y) <=>
            Precedes(p, x, y) \/ Precedes(q, x, y) \/ (x \in ToSet(p) /\ y \in ToSet(q))
      /\ \A x, y : Precedes(p2 \o q2, x, y) <=>
            Precedes(p2, x, y) \/ Precedes(q2, x, y) \/ (x \in ToSet(p2) /\ y \in ToSet(q2))
  BY ConcatPrecedes
<1> QED
  BY <1>1, <1>2 DEF Part

LEMMA AppendPrecedes ==
    ASSUME NEW T, NEW q \in Seq(T), NEW h \in T
    PROVE  \A x, y : Precedes(Append(q, h), x, y) <=> Precedes(q, x, y) \/ (x \in ToSet(q) /\ y = h)
<1> DEFINE r == Append(q, h)
<1>1. /\ Len(q) \in Nat /\ Len(r) = Len(q) + 1 /\ r[Len(q) + 1] = h
      /\ \A i \in 1..Len(q) : r[i] = q[i]
  BY AppendProperties, LenProperties
<1> HIDE DEF r
<1>2. /\ \A i \in 1..Len(q) : i \in 1..Len(r) /\ i < Len(q) + 1
      /\ Len(q) + 1 \in 1..Len(r)
      /\ \A i \in 1..Len(r), j \in 1..Len(r) : i < j =>
            i \in 1..Len(q) /\ (j \in 1..Len(q) \/ j = Len(q) + 1)
  BY <1>1
<1>3. \A x : x \in ToSet(q) <=> \E i \in 1..Len(q) : q[i] = x
  BY InToSet
<1>4. ASSUME NEW x, NEW y, Precedes(r, x, y)
      PROVE  Precedes(q, x, y) \/ (x \in ToSet(q) /\ y = h)
  <2>1. PICK i \in 1..Len(r), j \in 1..Len(r) : i < j /\ r[i] = x /\ r[j] = y
    BY <1>4 DEF Precedes
  <2> QED
    BY <1>1, <1>2, <1>3, <2>1 DEF Precedes
<1>5. ASSUME NEW x, NEW y, Precedes(q, x, y) \/ (x \in ToSet(q) /\ y = h)
      PROVE  Precedes(r, x, y)
  BY <1>1, <1>2, <1>3, <1>5 DEF Precedes
<1> QED
  BY <1>4, <1>5 DEF r

LEMMA FilteredPart ==
    ASSUME NEW T, NEW s \in Seq(T), NEW S
    PROVE  Part(Filtered(s, S), s)
<1> DEFINE Is(g) == g = [i \in 0..Len(s) |-> IF i = 0 THEN <<>> ELSE Keep(g[i - 1], s[i], S)]
           f == CHOOSE g : Is(g)
<1>l. Len(s) \in Nat
  BY LenProperties
<1>1. Filtered(s, S) = f[Len(s)]
  BY DEF Filtered, Keep
<1>2. \E g : Is(g)
  BY ListAfterEach
<1>3. Is(f)
  BY <1>2
<1> HIDE DEF f
<1>4. /\ f[0] = <<>>
      /\ \A i \in 1..Len(s) : f[i] = Keep(f[i - 1], s[i], S)
  BY <1>l, <1>3
<1> HIDE DEF Is
<1> DEFINE Upto(n) == {s[i] : i \in 1..n}
           Pair(n, x, y) == \E i \in 1..n, j \in 1..n : i < j /\ s[i] = x /\ s[j] = y
           Good(n) == /\ f[n] \in Seq(T) /\ ToSet(f[n]) \subseteq Upto(n)
                      /\ \A x, y : Precedes(f[n], x, y) => Pair(n, x, y)
           N == {n \in 0..Len(s) : Good(n)}
<1>5. 0 \in N
  <2>1. <<>> \in Seq(T) /\ ToSet(<<>>) = {} /\ Len(<<>>) = 0
    BY NoWaiters
  <2>2. \A x, y : ~Precedes(<<>>, x, y)
    BY <2>1 DEF Precedes
  <2>3. 0 \in 0..Len(s)
    BY <1>l
  <2> QED
    BY <1>4, <2>1, <2>2, <2>3
<1>6. ASSUME NEW n \in 1..Len(s), n - 1 \in N PROVE n \in N
  <2>1. Good(n - 1)
    BY <1>6
  <2>2. s[n] \in T /\ n \in 0..Len(s)
    BY <1>l
  <2>3. Upto(n) = Upto(n - 1) \cup {s[n]}
    BY <1>l
  <2>4. /\ \A x, y : Pair(n - 1, x, y) => Pair(n, x, y)
        /\ \A x \in Upto(n - 1) : Pair(n, x, s[n])
    <3>1. \A i \in 1..(n - 1) : i \in 1..n /\ n \in 1..n /\ i < n
      BY <1>l
    <3> QED
      BY <3>1
  <2> HIDE DEF Upto, Pair
  <2> DEFINE p == f[n - 1]
  <2>5. f[n] = Keep(p, s[n], S)
    BY <1>4
  <2>6. p \in Seq(T) /\ ToSet(p) \subseteq Upto(n - 1) /\ \A x, y : Precedes(p, x, y) => Pair(n - 1, x, y)
    BY <2>1
  <2> HIDE DEF p
  <2>7. CASE s[n] \in S
    <3>1. f[n] = Append(p, s[n])
      BY <2>5, <2>7 DEF Keep
    <3>2. Append(p, s[n]) \in Seq(T) /\ ToSet(Append(p, s[n])) = ToSet(p) \cup {s[n]}
      BY <2>2, <2>6, AppendToSet
    <3>3. \A x, y : Precedes(Append(p, s[n]), x, y) <=> Precedes(p, x, y) \/ (x \in ToSet(p) /\ y = s[n])
      BY <2>2, <2>6, AppendPrecedes
    <3> QED
      BY <2>2, <2>3, <2>4, <2>6, <3>1, <3>2, <3>3
  <2>8. CASE s[n] \notin S
    <3>1. f[n] = p
      BY <2>5, <2>8 DEF Keep
    <3> QED
      BY <2>2, <2>3, <2>4, <2>6, <3>1
  <2> QED
    BY <2>7, <2>8
<1> HIDE DEF N
<1>7. \A n \in 0..Len(s) : n \in N
  BY <1>l, <1>5, <1>6, Induct
<1>8. Len(s) \in N
  BY <1>l, <1>7
<1>9. Good(Len(s))
  BY <1>8, Zenon DEF N
<1>10. Upto(Len(s)) = ToSet(s) /\ \A x, y : Pair(Len(s), x, y) <=> Precedes(s, x, y)
  BY LenProperties DEF ToSet, Precedes
<1> QED
  BY <1>1, <1>9, <1>10 DEF Part

=============================================================================
