---------------------------- MODULE QueueProofs ----------------------------
(***************************************************************************)
(* The invariants of Queue, for any number of coroutines, any capacity and *)
(* any number of elements.                                                 *)
(***************************************************************************)
EXTENDS Queue, ReadyQueueProofs

-----------------------------------------------------------------------------
(* The inductive invariant.                                                *)

\* Nobody is twice in a list.
Lists ==
    /\ Distinct(ready) /\ Distinct(get_waiters)
    /\ Distinct(put_waiters) /\ Distinct(join_waiters)

\* Who is in which list: a waiter that was woken has left the queue's list, and
\* is in the loop's until it is resumed or dropped.
Places ==
    /\ \A c \in ToSet(get_waiters) : st[c] = "get" /\ c \notin reserved
    /\ \A c \in ToSet(put_waiters) : st[c] = "put" /\ c \notin reserved
    /\ \A c \in ToSet(join_waiters) : st[c] = "join"
    /\ \A c \in ToSet(ready) : st[c] \in {"get", "put", "join"}
    /\ \A c \in reserved : st[c] \in {"get", "put"}
    /\ reserved \cup cancelled \cup abandoned \subseteq ToSet(ready)

\* Why somebody is in the loop's list: cancelled, destroyed, woken with a
\* reservation, let go by a shutdown, or by the end of a join().
Called ==
    \A c \in ToSet(ready) : c \notin cancelled \cup abandoned =>
        /\ st[c] # "join" => c \in reserved \/ shut
        /\ c \notin ToSet(join_waiters)

Getters == {c \in reserved : st[c] = "get"}
Putters == {c \in reserved : st[c] = "put"}

\* The counters count the reservations.
Counters ==
    /\ reserved_getters = Cardinality(Getters)
    /\ reserved_putters = Cardinality(Putters)

\* Elements and slots, against what is reserved of them.
Stock ==
    /\ maxsize > 0 => items + reserved_putters <= maxsize
    /\ ~shut => reserved_getters <= items
    /\ NoLostElement
    /\ NeverStarved

\* What shutdown leaves behind, and the books of join().
Closed ==
    /\ shut => put_waiters = <<>>
    /\ shut /\ ~graceful => items = 0
    /\ UnfinishedExact
    /\ NobodyLeftBehind

IInv == TypeOK /\ Lists /\ Places /\ Called /\ Counters /\ Stock /\ Closed

-----------------------------------------------------------------------------
(* Waking waiters.                                                         *)

LEMMA Reservations ==
    ASSUME TypeOK, Places
    PROVE  /\ IsFiniteSet(reserved) /\ IsFiniteSet(Getters) /\ IsFiniteSet(Putters)
           /\ Cardinality(Getters) \in Nat /\ Cardinality(Putters) \in Nat
<1>1. IsFiniteSet(ToSet(ready))
  BY ToSetProperties DEF TypeOK
<1>2. reserved \subseteq ToSet(ready)
  BY DEF Places
<1>3. IsFiniteSet(reserved)
  BY <1>1, <1>2, FS_Subset
<1>4. Getters \subseteq reserved /\ Putters \subseteq reserved
  BY DEF Getters, Putters
<1>5. IsFiniteSet(Getters) /\ IsFiniteSet(Putters)
  BY <1>3, <1>4, FS_Subset
<1> QED
  BY <1>3, <1>5, FS_CardinalityType

\* What waking getters amounts to: a set of waiters gets the elements that nobody
\* has reserved.
LEMMA NotifyGetters ==
    ASSUME NEW n \in Nat, NEW rest \in Seq(Coros), NEW gw \in Seq(Coros), NEW rs, NEW rg \in Nat,
           Distinct(gw), Distinct(rest), notify_getters(n, rest, gw, rs, rg)
    PROVE  \E W \in SUBSET ToSet(gw) :
             /\ get_waiters' \in Seq(Coros) /\ Distinct(get_waiters')
             /\ ToSet(get_waiters') = ToSet(gw) \ W
             /\ reserved' = rs \cup W
             /\ IsFiniteSet(W) /\ Cardinality(W) \in Nat
             /\ reserved_getters' = rg + Cardinality(W)
             /\ ready' \in Seq(Coros) /\ Distinct(ready')
             /\ ToSet(ready') = ToSet(rest) \cup W
             /\ get_waiters' # <<>> => n <= reserved_getters'
             /\ rg <= n => reserved_getters' <= n
             /\ gw = <<>> => get_waiters' = <<>>
<1> DEFINE k == GettersToWake(n, gw, rg)
           woken == SubSeq(gw, 1, k)
           left == SubSeq(gw, k + 1, Len(gw))
<1>1. Len(gw) \in Nat
  BY LenProperties
<1>2. k \in 0..Len(gw)
  BY <1>1 DEF GettersToWake, Smaller, AtLeast0
<1>3. k < Len(gw) => n <= rg + k
  BY <1>1 DEF GettersToWake, Smaller, AtLeast0
<1>4. rg <= n => rg + k <= n
  BY <1>1 DEF GettersToWake, Smaller, AtLeast0
<1>5. /\ get_waiters' = left
      /\ reserved' = rs \cup ToSet(woken)
      /\ reserved_getters' = rg + k
      /\ ready' = Scheduled(rest, woken)
  BY DEF notify_getters
<1> HIDE DEF k
<1>6. /\ woken \in Seq(Coros) /\ left \in Seq(Coros)
      /\ Len(woken) = k /\ Len(left) = Len(gw) - k
      /\ ToSet(gw) = ToSet(woken) \cup ToSet(left)
      /\ Distinct(woken) /\ Distinct(left)
      /\ ToSet(woken) \cap ToSet(left) = {}
  BY <1>2, SplitProperties
<1> HIDE DEF woken, left
<1>7. /\ IsFiniteSet(ToSet(woken)) /\ Cardinality(ToSet(woken)) = k
      /\ left # <<>> => Len(left) # 0
      /\ gw = <<>> => ToSet(gw) = {}
      /\ left = <<>> <=> ToSet(left) = {}
  BY <1>6, ToSetProperties, LenProperties
<1>8. /\ Scheduled(rest, woken) \in Seq(Coros) /\ Distinct(Scheduled(rest, woken))
      /\ ToSet(Scheduled(rest, woken)) = ToSet(rest) \cup ToSet(woken)
  BY <1>6, ScheduledProperties
<1>9. get_waiters' # <<>> => n <= reserved_getters'
  <2> SUFFICES ASSUME left # <<>> PROVE n <= rg + k
    BY <1>5
  <2>1. Len(gw) - k # 0
    BY <1>6, <1>7
  <2>2. k < Len(gw)
    BY <1>1, <1>2, <2>1
  <2> QED
    BY <1>3, <2>2
<1>10. gw = <<>> => get_waiters' = <<>>
  BY <1>5, <1>6, <1>7
<1>11. k \in Nat
  BY <1>1, <1>2
<1> ToSet(woken) \in SUBSET ToSet(gw)
  BY <1>6
<1> WITNESS ToSet(woken) \in SUBSET ToSet(gw)
<1> QED
  BY <1>4, <1>5, <1>6, <1>7, <1>8, <1>9, <1>10, <1>11

\* The same for the producers and the free slots.
LEMMA NotifyPutters ==
    ASSUME NEW n \in Nat, NEW rest \in Seq(Coros), NEW pw \in Seq(Coros), NEW rs, NEW rp \in Nat,
           Distinct(pw), Distinct(rest), notify_putters(n, rest, pw, rs, rp)
    PROVE  \E W \in SUBSET ToSet(pw) :
             /\ put_waiters' \in Seq(Coros) /\ Distinct(put_waiters')
             /\ ToSet(put_waiters') = ToSet(pw) \ W
             /\ reserved' = rs \cup W
             /\ IsFiniteSet(W) /\ Cardinality(W) \in Nat
             /\ reserved_putters' = rp + Cardinality(W)
             /\ ready' \in Seq(Coros) /\ Distinct(ready')
             /\ ToSet(ready') = ToSet(rest) \cup W
             /\ put_waiters' # <<>> => full(n, reserved_putters')
             /\ maxsize > 0 /\ n + rp <= maxsize => n + reserved_putters' <= maxsize
             /\ pw = <<>> => put_waiters' = <<>>
<1> DEFINE k == PuttersToWake(n, pw, rp)
           woken == SubSeq(pw, 1, k)
           left == SubSeq(pw, k + 1, Len(pw))
<1>1. Len(pw) \in Nat /\ maxsize \in Nat
  BY LenProperties, QueueAssumption
<1>2. k \in 0..Len(pw)
  BY <1>1 DEF PuttersToWake, Smaller, AtLeast0
<1>3. k < Len(pw) => maxsize > 0 /\ n + (rp + k) >= maxsize
  BY <1>1 DEF PuttersToWake, Smaller, AtLeast0
<1>4. maxsize > 0 /\ n + rp <= maxsize => n + (rp + k) <= maxsize
  BY <1>1 DEF PuttersToWake, Smaller, AtLeast0
<1>5. /\ put_waiters' = left
      /\ reserved' = rs \cup ToSet(woken)
      /\ reserved_putters' = rp + k
      /\ ready' = Scheduled(rest, woken)
  BY DEF notify_putters
<1> HIDE DEF k
<1>6. /\ woken \in Seq(Coros) /\ left \in Seq(Coros)
      /\ Len(woken) = k /\ Len(left) = Len(pw) - k
      /\ ToSet(pw) = ToSet(woken) \cup ToSet(left)
      /\ Distinct(woken) /\ Distinct(left)
      /\ ToSet(woken) \cap ToSet(left) = {}
  BY <1>2, SplitProperties
<1> HIDE DEF woken, left
<1>7. /\ IsFiniteSet(ToSet(woken)) /\ Cardinality(ToSet(woken)) = k
      /\ left # <<>> => Len(left) # 0
      /\ pw = <<>> => ToSet(pw) = {}
      /\ left = <<>> <=> ToSet(left) = {}
  BY <1>6, ToSetProperties, LenProperties
<1>8. /\ Scheduled(rest, woken) \in Seq(Coros) /\ Distinct(Scheduled(rest, woken))
      /\ ToSet(Scheduled(rest, woken)) = ToSet(rest) \cup ToSet(woken)
  BY <1>6, ScheduledProperties
<1>9. put_waiters' # <<>> => full(n, reserved_putters')
  <2> SUFFICES ASSUME left # <<>> PROVE full(n, rp + k)
    BY <1>5
  <2>1. Len(pw) - k # 0
    BY <1>6, <1>7
  <2>2. k < Len(pw)
    BY <1>1, <1>2, <2>1
  <2> QED
    BY <1>3, <2>2 DEF full
<1>10. pw = <<>> => put_waiters' = <<>>
  BY <1>5, <1>6, <1>7
<1>11. k \in Nat
  BY <1>1, <1>2
<1> ToSet(woken) \in SUBSET ToSet(pw)
  BY <1>6
<1> WITNESS ToSet(woken) \in SUBSET ToSet(pw)
<1> QED
  BY <1>4, <1>5, <1>6, <1>7, <1>8, <1>9, <1>10, <1>11

-----------------------------------------------------------------------------
(* The actions.                                                            *)

\* What the invariant says of the types of the variables and of the sets of waiters.
Known ==
    /\ st \in [Coros -> {"run", "get", "put", "join", "gone"}]
    /\ ready \in Seq(Coros) /\ reserved \subseteq Coros
    /\ cancelled \subseteq Coros /\ abandoned \subseteq Coros
    /\ items \in Nat /\ reserved_getters \in Nat /\ reserved_putters \in Nat
    /\ get_waiters \in Seq(Coros) /\ put_waiters \in Seq(Coros) /\ join_waiters \in Seq(Coros)
    /\ unfinished \in Nat /\ inflight \in Nat
    /\ shut \in BOOLEAN /\ graceful \in BOOLEAN /\ starved \in BOOLEAN
    /\ maxsize \in Nat
    /\ Distinct(ready) /\ Distinct(get_waiters) /\ Distinct(put_waiters) /\ Distinct(join_waiters)
    /\ IsFiniteSet(Getters) /\ IsFiniteSet(Putters)
    /\ Cardinality(Getters) \in Nat /\ Cardinality(Putters) \in Nat
    /\ ToSet(ready) \subseteq Coros /\ ToSet(get_waiters) \subseteq Coros
    /\ ToSet(put_waiters) \subseteq Coros /\ ToSet(join_waiters) \subseteq Coros
    /\ get_waiters = <<>> <=> ToSet(get_waiters) = {}
    /\ put_waiters = <<>> <=> ToSet(put_waiters) = {}
    /\ join_waiters = <<>> <=> ToSet(join_waiters) = {}

LEMMA KnownFacts ==
    ASSUME IInv
    PROVE  Known
<1> USE DEF IInv
<1>1. /\ st \in [Coros -> {"run", "get", "put", "join", "gone"}]
      /\ ready \in Seq(Coros) /\ reserved \subseteq Coros
      /\ cancelled \subseteq Coros /\ abandoned \subseteq Coros
      /\ items \in Nat /\ reserved_getters \in Nat /\ reserved_putters \in Nat
      /\ get_waiters \in Seq(Coros) /\ put_waiters \in Seq(Coros) /\ join_waiters \in Seq(Coros)
      /\ unfinished \in Nat /\ inflight \in Nat
      /\ shut \in BOOLEAN /\ graceful \in BOOLEAN /\ starved \in BOOLEAN
      /\ maxsize \in Nat
  BY QueueAssumption DEF TypeOK
<1>2. Distinct(ready) /\ Distinct(get_waiters) /\ Distinct(put_waiters) /\ Distinct(join_waiters)
  BY DEF Lists
<1>3. /\ IsFiniteSet(Getters) /\ IsFiniteSet(Putters)
      /\ Cardinality(Getters) \in Nat /\ Cardinality(Putters) \in Nat
  BY Reservations
<1>4. /\ ToSet(ready) \subseteq Coros
      /\ ToSet(get_waiters) \subseteq Coros /\ (get_waiters = <<>> <=> ToSet(get_waiters) = {})
      /\ ToSet(put_waiters) \subseteq Coros /\ (put_waiters = <<>> <=> ToSet(put_waiters) = {})
      /\ ToSet(join_waiters) \subseteq Coros /\ (join_waiters = <<>> <=> ToSet(join_waiters) = {})
  BY <1>1, ToSetProperties
<1> QED
  BY <1>1, <1>2, <1>3, <1>4 DEF Known

\* get() finds an element nobody has reserved, and lets producers in.
LEMMA GetStep ==
    ASSUME IInv, NEW c \in Coros, Get(c)
    PROVE  IInv'
<1> USE DEF IInv
<1>k. Known
  BY KnownFacts
<1>1. /\ items > 0 /\ items' = items - 1 /\ inflight' = inflight + 1
      /\ reserved_getters = 0 /\ get_waiters = <<>>
      /\ notify_putters(items - 1, ready, put_waiters, reserved, reserved_putters)
      /\ UNCHANGED <<st, cancelled, abandoned, reserved_getters, get_waiters,
                     join_waiters, unfinished, shut, graceful, starved>>
  BY DEF Get, GetReady, Take, closing
<1>2. items - 1 \in Nat
  BY <1>k, <1>1 DEF Known
<1>3. PICK W \in SUBSET ToSet(put_waiters) :
          /\ put_waiters' \in Seq(Coros) /\ Distinct(put_waiters')
          /\ ToSet(put_waiters') = ToSet(put_waiters) \ W
          /\ reserved' = reserved \cup W
          /\ IsFiniteSet(W) /\ Cardinality(W) \in Nat
          /\ reserved_putters' = reserved_putters + Cardinality(W)
          /\ ready' \in Seq(Coros) /\ Distinct(ready')
          /\ ToSet(ready') = ToSet(ready) \cup W
          /\ put_waiters' # <<>> => full((items - 1), reserved_putters')
          /\ maxsize > 0 /\ (items - 1) + reserved_putters <= maxsize => (items - 1) + reserved_putters' <= maxsize
          /\ put_waiters = <<>> => put_waiters' = <<>>
  BY <1>k, <1>1, <1>2, NotifyPutters DEF Known
<1>c1. TypeOK'
  BY <1>k, <1>1, <1>2, <1>3 DEF Known, TypeOK
<1>c2. Lists'
  BY <1>k, <1>1, <1>2, <1>3 DEF Known, Lists
<1>c3. Places'
  BY <1>1, <1>3 DEF Places
<1>c4. Called'
  BY <1>1, <1>3 DEF Called, Places
<1>c5. Counters'
  <2>1. Getters' = Getters /\ Putters' = Putters \cup W /\ Putters \cap W = {}
    BY <1>1, <1>3 DEF Places, Getters, Putters
  <2>2. Cardinality(Putters') = Cardinality(Putters) + Cardinality(W)
    BY <1>k, <1>1, <1>3, <2>1, DisjointUnion DEF Known
  <2> QED
    BY <1>1, <1>3, <2>1, <2>2 DEF Counters
<1>c6. Stock'
  BY <1>k, <1>1, <1>2, <1>3 DEF Known, Stock, NoLostElement, NeverStarved, full
<1>c7. Closed'
  BY <1>k, <1>1, <1>2, <1>3 DEF Known, Closed, UnfinishedExact, NobodyLeftBehind, JoinWoken, NoWaitAfterDrain
<1> QED
  BY <1>c1, <1>c2, <1>c3, <1>c4, <1>c5, <1>c6, <1>c7

\* get() waits.
LEMMA GetWaitStep ==
    ASSUME IInv, NEW c \in Coros, GetWait(c)
    PROVE  IInv'
<1> USE DEF IInv
<1>k. Known
  BY KnownFacts
<1>1. /\ st[c] = "run" /\ ~(shut /\ items = 0) /\ st' = [st EXCEPT ![c] = "get"]
      /\ notify_getters(items, ready, Append(get_waiters, c), reserved, reserved_getters)
      /\ UNCHANGED <<cancelled, abandoned, items, reserved_putters, put_waiters,
                     join_waiters, unfinished, shut, graceful, inflight, starved>>
  BY DEF GetWait, closing
<1>2. /\ c \notin ToSet(ready) /\ c \notin ToSet(get_waiters) /\ c \notin reserved
      /\ c \notin ToSet(put_waiters) /\ c \notin ToSet(join_waiters)
  BY <1>1 DEF Places
<1> DEFINE q == Append(get_waiters, c)
<1>3. q \in Seq(Coros) /\ Distinct(q) /\ ToSet(q) = ToSet(get_waiters) \cup {c}
  BY <1>k, <1>2, AppendToSet DEF Known
<1> HIDE DEF q
<1>4. notify_getters(items, ready, q, reserved, reserved_getters)
  BY <1>1 DEF q
<1>5. PICK W \in SUBSET ToSet(q) :
          /\ get_waiters' \in Seq(Coros) /\ Distinct(get_waiters')
          /\ ToSet(get_waiters') = ToSet(q) \ W
          /\ reserved' = reserved \cup W
          /\ IsFiniteSet(W) /\ Cardinality(W) \in Nat
          /\ reserved_getters' = reserved_getters + Cardinality(W)
          /\ ready' \in Seq(Coros) /\ Distinct(ready')
          /\ ToSet(ready') = ToSet(ready) \cup W
          /\ get_waiters' # <<>> => items <= reserved_getters'
          /\ reserved_getters <= items => reserved_getters' <= items
          /\ q = <<>> => get_waiters' = <<>>
  BY <1>k, <1>3, <1>4, NotifyGetters DEF Known

<1>6. reserved' \subseteq Coros /\ reserved_getters' \in Nat
  BY <1>k, <1>3, <1>5 DEF Known
<1>s. /\ \A d \in Coros : d # c => st'[d] = st[d]
      /\ st'[c] = "get"
  BY <1>k, <1>1 DEF Known
<1>w. /\ W \subseteq ToSet(get_waiters) \cup {c}
      /\ ToSet(get_waiters') = (ToSet(get_waiters) \cup {c}) \ W
      /\ reserved' = reserved \cup W /\ ToSet(ready') = ToSet(ready) \cup W
      /\ UNCHANGED <<cancelled, abandoned, put_waiters, join_waiters, shut>>
      /\ ToSet(ready) \subseteq Coros /\ reserved \subseteq Coros
      /\ ToSet(get_waiters) \subseteq Coros /\ ToSet(put_waiters) \subseteq Coros
      /\ ToSet(join_waiters) \subseteq Coros
  BY <1>k, <1>1, <1>3, <1>5 DEF Known
<1>7. st' \in [Coros -> {"run", "get", "put", "join", "gone"}]
  BY <1>k, <1>1 DEF Known
<1>c1. TypeOK'
  BY <1>k, <1>5, <1>6, <1>7, <1>1 DEF Known, TypeOK
<1>c2. Lists'
  BY <1>k, <1>1, <1>2, <1>3, <1>5, <1>6, <1>7 DEF Known, Lists
<1>c3. Places'
  BY <1>2, <1>s, <1>w DEF Places
<1>c4. Called'
  BY <1>2, <1>s, <1>w DEF Called, Places
<1>c5. Counters'
  <2>1. Putters' = Putters /\ Getters' = Getters \cup W /\ Getters \cap W = {}
    BY <1>1, <1>2, <1>5, <1>s, <1>w DEF Places, Getters, Putters
  <2>2. Cardinality(Getters') = Cardinality(Getters) + Cardinality(W)
    BY <1>k, <1>1, <1>2, <1>5, <1>s, <1>w, <2>1, DisjointUnion DEF Known
  <2> QED
    BY <1>1, <1>2, <1>5, <1>s, <1>w, <2>1, <2>2 DEF Counters
<1>c6. Stock'
  BY <1>k, <1>1, <1>2, <1>3, <1>5, <1>6, <1>7 DEF Known, Stock, NoLostElement, NeverStarved, full
<1>c7. Closed'
  BY <1>k, <1>1, <1>2, <1>3, <1>5, <1>6, <1>7 DEF Known, Closed, UnfinishedExact, NobodyLeftBehind, JoinWoken, NoWaitAfterDrain
<1> QED
  BY <1>c1, <1>c2, <1>c3, <1>c4, <1>c5, <1>c6, <1>c7

\* put() finds a free slot, and lets consumers in.
LEMMA PutStep ==
    ASSUME IInv, NEW c \in Coros, Put(c)
    PROVE  IInv'
<1> USE DEF IInv
<1>k. Known
  BY KnownFacts
<1>1. /\ ~shut /\ ~full(items, reserved_putters)
      /\ items' = items + 1 /\ unfinished' = unfinished + 1
      /\ notify_getters(items + 1, ready, get_waiters, reserved, reserved_getters)
      /\ UNCHANGED <<st, cancelled, abandoned, reserved_putters, put_waiters,
                     join_waiters, shut, graceful, inflight, starved>>
  BY DEF Put, PutItem, closing
<1>2. items + 1 \in Nat
  BY <1>k DEF Known
<1>3. PICK W \in SUBSET ToSet(get_waiters) :
          /\ get_waiters' \in Seq(Coros) /\ Distinct(get_waiters')
          /\ ToSet(get_waiters') = ToSet(get_waiters) \ W
          /\ reserved' = reserved \cup W
          /\ IsFiniteSet(W) /\ Cardinality(W) \in Nat
          /\ reserved_getters' = reserved_getters + Cardinality(W)
          /\ ready' \in Seq(Coros) /\ Distinct(ready')
          /\ ToSet(ready') = ToSet(ready) \cup W
          /\ get_waiters' # <<>> => (items + 1) <= reserved_getters'
          /\ reserved_getters <= (items + 1) => reserved_getters' <= (items + 1)
          /\ get_waiters = <<>> => get_waiters' = <<>>
  BY <1>k, <1>1, <1>2, NotifyGetters DEF Known

<1>4. reserved' \subseteq Coros /\ reserved_getters' \in Nat
  BY <1>k, <1>3 DEF Known
<1>c1. TypeOK'
  BY <1>k, <1>1, <1>2, <1>3, <1>4 DEF Known, TypeOK
<1>c2. Lists'
  BY <1>k, <1>1, <1>2, <1>3, <1>4 DEF Known, Lists
<1>c3. Places'
  BY <1>k, <1>1, <1>2, <1>3, <1>4 DEF Known, Places
<1>c4. Called'
  BY <1>k, <1>1, <1>2, <1>3, <1>4 DEF Known, Called, Places
<1>c5. Counters'
  <2>1. Putters' = Putters /\ Getters' = Getters \cup W /\ Getters \cap W = {}
    BY <1>1, <1>3 DEF Places, Getters, Putters
  <2>2. Cardinality(Getters') = Cardinality(Getters) + Cardinality(W)
    BY <1>k, <1>1, <1>3, <2>1, DisjointUnion DEF Known
  <2> QED
    BY <1>1, <1>3, <2>1, <2>2 DEF Counters
<1>c6. Stock'
  BY <1>k, <1>1, <1>2, <1>3, <1>4 DEF Known, Stock, NoLostElement, NeverStarved, full
<1>c7. Closed'
  BY <1>k, <1>1, <1>2, <1>3, <1>4 DEF Known, Closed, UnfinishedExact, NobodyLeftBehind, JoinWoken, NoWaitAfterDrain
<1> QED
  BY <1>c1, <1>c2, <1>c3, <1>c4, <1>c5, <1>c6, <1>c7

\* put() waits.
LEMMA PutWaitStep ==
    ASSUME IInv, NEW c \in Coros, PutWait(c)
    PROVE  IInv'
<1> USE DEF IInv
<1>k. Known
  BY KnownFacts
<1>1. /\ st[c] = "run" /\ ~shut /\ st' = [st EXCEPT ![c] = "put"]
      /\ notify_putters(items, ready, Append(put_waiters, c), reserved, reserved_putters)
      /\ UNCHANGED <<cancelled, abandoned, items, reserved_getters, get_waiters,
                     join_waiters, unfinished, shut, graceful, inflight, starved>>
  BY DEF PutWait, closing
<1>2. /\ c \notin ToSet(ready) /\ c \notin ToSet(get_waiters) /\ c \notin reserved
      /\ c \notin ToSet(put_waiters) /\ c \notin ToSet(join_waiters)
  BY <1>1 DEF Places
<1> DEFINE q == Append(put_waiters, c)
<1>3. q \in Seq(Coros) /\ Distinct(q) /\ ToSet(q) = ToSet(put_waiters) \cup {c}
  BY <1>k, <1>2, AppendToSet DEF Known
<1> HIDE DEF q
<1>4. notify_putters(items, ready, q, reserved, reserved_putters)
  BY <1>1 DEF q
<1>5. PICK W \in SUBSET ToSet(q) :
          /\ put_waiters' \in Seq(Coros) /\ Distinct(put_waiters')
          /\ ToSet(put_waiters') = ToSet(q) \ W
          /\ reserved' = reserved \cup W
          /\ IsFiniteSet(W) /\ Cardinality(W) \in Nat
          /\ reserved_putters' = reserved_putters + Cardinality(W)
          /\ ready' \in Seq(Coros) /\ Distinct(ready')
          /\ ToSet(ready') = ToSet(ready) \cup W
          /\ put_waiters' # <<>> => full(items, reserved_putters')
          /\ maxsize > 0 /\ items + reserved_putters <= maxsize => items + reserved_putters' <= maxsize
          /\ q = <<>> => put_waiters' = <<>>
  BY <1>k, <1>3, <1>4, NotifyPutters DEF Known

<1>6. reserved' \subseteq Coros /\ reserved_putters' \in Nat
  BY <1>k, <1>3, <1>5 DEF Known
<1>s. /\ \A d \in Coros : d # c => st'[d] = st[d]
      /\ st'[c] = "put"
  BY <1>k, <1>1 DEF Known
<1>w. /\ W \subseteq ToSet(put_waiters) \cup {c}
      /\ ToSet(put_waiters') = (ToSet(put_waiters) \cup {c}) \ W
      /\ reserved' = reserved \cup W /\ ToSet(ready') = ToSet(ready) \cup W
      /\ UNCHANGED <<cancelled, abandoned, get_waiters, join_waiters, shut>>
      /\ ToSet(ready) \subseteq Coros /\ reserved \subseteq Coros
      /\ ToSet(get_waiters) \subseteq Coros /\ ToSet(put_waiters) \subseteq Coros
      /\ ToSet(join_waiters) \subseteq Coros
  BY <1>k, <1>1, <1>3, <1>5 DEF Known
<1>c1. TypeOK'
  BY <1>k, <1>1, <1>2, <1>3, <1>5, <1>6 DEF Known, TypeOK
<1>c2. Lists'
  BY <1>k, <1>1, <1>2, <1>3, <1>5, <1>6 DEF Known, Lists
<1>c3. Places'
  BY <1>2, <1>s, <1>w DEF Places
<1>c4. Called'
  BY <1>2, <1>s, <1>w DEF Called, Places
<1>c5. Counters'
  <2>1. Getters' = Getters /\ Putters' = Putters \cup W /\ Putters \cap W = {}
    BY <1>1, <1>2, <1>5, <1>s, <1>w DEF Places, Getters, Putters
  <2>2. Cardinality(Putters') = Cardinality(Putters) + Cardinality(W)
    BY <1>k, <1>1, <1>2, <1>5, <1>s, <1>w, <2>1, DisjointUnion DEF Known
  <2> QED
    BY <1>1, <1>2, <1>5, <1>s, <1>w, <2>1, <2>2 DEF Counters
<1>c6. Stock'
  BY <1>k, <1>1, <1>2, <1>3, <1>5, <1>6 DEF Known, Stock, NoLostElement, NeverStarved, full
<1>c7. Closed'
  BY <1>k, <1>1, <1>2, <1>3, <1>5, <1>6 DEF Known, Closed, UnfinishedExact, NobodyLeftBehind, JoinWoken, NoWaitAfterDrain
<1> QED
  BY <1>c1, <1>c2, <1>c3, <1>c4, <1>c5, <1>c6, <1>c7

\* join() waits.
LEMMA JoinStep ==
    ASSUME IInv, NEW c \in Coros, join(c)
    PROVE  IInv'
<1> USE DEF IInv
<1>k. Known
  BY KnownFacts
<1>1. /\ st[c] = "run" /\ unfinished > 0 /\ st' = [st EXCEPT ![c] = "join"]
      /\ join_waiters' = Append(join_waiters, c)
      /\ UNCHANGED <<ready, cancelled, abandoned, items, reserved, reserved_getters,
                     reserved_putters, get_waiters, put_waiters, unfinished, shut, graceful,
                     inflight, starved>>
  BY DEF join, closing
<1>2. /\ c \notin ToSet(ready) /\ c \notin ToSet(get_waiters) /\ c \notin reserved
      /\ c \notin ToSet(put_waiters) /\ c \notin ToSet(join_waiters)
  BY <1>1 DEF Places
<1>3. /\ join_waiters' \in Seq(Coros) /\ Distinct(join_waiters')
      /\ ToSet(join_waiters') = ToSet(join_waiters) \cup {c}
  BY <1>k, <1>1, <1>2, AppendToSet DEF Known
<1>c1. TypeOK'
  BY <1>k, <1>1, <1>2, <1>3 DEF Known, TypeOK
<1>c2. Lists'
  BY <1>k, <1>1, <1>2, <1>3 DEF Known, Lists
<1>c3. Places'
  BY <1>k, <1>1, <1>2, <1>3 DEF Known, Places
<1>c4. Called'
  BY <1>k, <1>1, <1>2, <1>3 DEF Known, Called, Places
<1>c5. Counters'
  <2>1. Getters' = Getters /\ Putters' = Putters
    BY <1>k, <1>1, <1>2 DEF Known, Places, Getters, Putters
  <2> QED
    BY <1>1, <2>1 DEF Counters
<1>c6. Stock'
  BY <1>k, <1>1, <1>2, <1>3 DEF Known, Stock, NoLostElement, NeverStarved, full
<1>c7. Closed'
  BY <1>k, <1>1, <1>2, <1>3 DEF Known, Closed, UnfinishedExact, NobodyLeftBehind, JoinWoken, NoWaitAfterDrain
<1> QED
  BY <1>c1, <1>c2, <1>c3, <1>c4, <1>c5, <1>c6, <1>c7

\* The last task_done() lets everybody in join() go.
LEMMA TaskDoneStep ==
    ASSUME IInv, task_done
    PROVE  IInv'
<1> USE DEF IInv
<1>k. Known
  BY KnownFacts
<1>1. /\ inflight > 0 /\ unfinished > 0
      /\ inflight' = inflight - 1 /\ unfinished' = unfinished - 1
      /\ IF unfinished = 1
         THEN join_waiters' = <<>> /\ ready' = Scheduled(ready, join_waiters)
         ELSE UNCHANGED <<join_waiters, ready>>
      /\ UNCHANGED <<st, cancelled, abandoned, items, reserved, reserved_getters,
                     reserved_putters, get_waiters, put_waiters, shut, graceful, starved>>
  BY DEF task_done, closing
<1>2. /\ Scheduled(ready, join_waiters) \in Seq(Coros)
      /\ Distinct(Scheduled(ready, join_waiters))
      /\ ToSet(Scheduled(ready, join_waiters)) = ToSet(ready) \cup ToSet(join_waiters)
  BY <1>k, ScheduledProperties DEF Known
<1>3. <<>> \in Seq(Coros) /\ Distinct(<<>>) /\ ToSet(<<>>) = {}
  BY NoWaiters
<1>4. \/ /\ unfinished = 1 /\ join_waiters' = <<>> /\ ToSet(join_waiters') = {}
         /\ ready' \in Seq(Coros) /\ Distinct(ready')
         /\ ToSet(ready') = ToSet(ready) \cup ToSet(join_waiters)
      \/ unfinished # 1 /\ join_waiters' = join_waiters /\ ready' = ready
  BY <1>1, <1>2, <1>3
<1>5. /\ join_waiters' \in Seq(Coros) /\ Distinct(join_waiters')
      /\ ready' \in Seq(Coros) /\ Distinct(ready')
  BY <1>k, <1>3, <1>4 DEF Known
<1>6. UNCHANGED <<st, cancelled, abandoned, items, reserved, reserved_getters,
                  reserved_putters, get_waiters, put_waiters, shut, graceful, starved>>
  BY <1>1
<1>7. /\ inflight > 0 /\ unfinished > 0
      /\ inflight' = inflight - 1 /\ unfinished' = unfinished - 1
  BY <1>1
<1>c1. TypeOK'
  BY <1>k, <1>4, <1>5, <1>6, <1>7 DEF Known, TypeOK
<1>c2. Lists'
  BY <1>k, <1>4, <1>5, <1>6, <1>7 DEF Known, Lists
<1>c3. Places'
  BY <1>k, <1>4, <1>5, <1>6, <1>7 DEF Known, Places
<1>c4. Called'
  BY <1>k, <1>4, <1>5, <1>6, <1>7 DEF Known, Called, Places
<1>c5. Counters'
  <2>1. Getters' = Getters /\ Putters' = Putters
    BY <1>k, <1>6 DEF Known, Places, Getters, Putters
  <2> QED
    BY <1>6, <2>1 DEF Counters
<1>c6. Stock'
  BY <1>k, <1>4, <1>5, <1>6, <1>7 DEF Known, Stock, NoLostElement, NeverStarved, full
<1>c7. Closed'
  BY <1>k, <1>4, <1>5, <1>6, <1>7 DEF Known, Closed, UnfinishedExact, NobodyLeftBehind, JoinWoken, NoWaitAfterDrain
<1> QED
  BY <1>c1, <1>c2, <1>c3, <1>c4, <1>c5, <1>c6, <1>c7

\* A waiter is cancelled.
LEMMA CancelStep ==
    ASSUME IInv, NEW c \in Coros, Cancel(c)
    PROVE  IInv'
<1> USE DEF IInv
<1>k. Known
  BY KnownFacts
<1>1. /\ st[c] \in {"get", "put", "join"} /\ c \notin abandoned
      /\ cancelled' = cancelled \cup {c}
      /\ ready' = Scheduled(ready, <<c>>)
      /\ UNCHANGED <<st, abandoned, items, reserved, reserved_getters,
                     reserved_putters, get_waiters, put_waiters, join_waiters,
                     unfinished, shut, graceful, inflight, starved>>
  BY DEF Cancel, closing
<1> DEFINE h == <<c>>
<1>2. h \in Seq(Coros) /\ ToSet(h) = {c} /\ ready' = Scheduled(ready, h)
  BY <1>1 DEF ToSet
<1> HIDE DEF h
<1>3. /\ ready' \in Seq(Coros) /\ Distinct(ready')
      /\ ToSet(ready') = ToSet(ready) \cup {c}
  BY <1>k, <1>2, ScheduledProperties DEF Known
<1>c1. TypeOK'
  BY <1>k, <1>1, <1>3 DEF Known, TypeOK
<1>c2. Lists'
  BY <1>k, <1>1, <1>3 DEF Known, Lists
<1>c3. Places'
  BY <1>k, <1>1, <1>3 DEF Known, Places
<1>c4. Called'
  BY <1>k, <1>1, <1>3 DEF Known, Called, Places
<1>c5. Counters'
  <2>1. Getters' = Getters /\ Putters' = Putters
    BY <1>k, <1>1 DEF Known, Places, Getters, Putters
  <2> QED
    BY <1>1, <2>1 DEF Counters
<1>c6. Stock'
  BY <1>k, <1>1, <1>3 DEF Known, Stock, NoLostElement, NeverStarved, full
<1>c7. Closed'
  BY <1>k, <1>1, <1>3 DEF Known, Closed, UnfinishedExact, NobodyLeftBehind, JoinWoken, NoWaitAfterDrain
<1> QED
  BY <1>c1, <1>c2, <1>c3, <1>c4, <1>c5, <1>c6, <1>c7

\* The front of the ready queue.
LEMMA AtTheFront ==
    ASSUME IInv, NEW c, ready # <<>>, c = Head(ready)
    PROVE  /\ c \in Coros /\ c \in ToSet(ready)
           /\ Tail(ready) \in Seq(Coros) /\ Distinct(Tail(ready))
           /\ ToSet(Tail(ready)) = ToSet(ready) \ {c}
<1>1. ready \in Seq(Coros) /\ Distinct(ready)
  BY DEF IInv, TypeOK, Lists
<1> QED
  BY <1>1, TailProperties

\* A getter or putter that leaves: the counters lose its reservation, if it has one.
LEMMA OneLess ==
    ASSUME IInv, NEW c \in Coros
    PROVE  /\ st[c] = "get" =>
                 /\ LessReserved(c, reserved_getters) = Cardinality(Getters \ {c})
                 /\ Putters \ {c} = Putters
           /\ st[c] = "put" =>
                 /\ LessReserved(c, reserved_putters) = Cardinality(Putters \ {c})
                 /\ Getters \ {c} = Getters
           /\ IsFiniteSet(Getters \ {c}) /\ Cardinality(Getters \ {c}) \in Nat
           /\ IsFiniteSet(Putters \ {c}) /\ Cardinality(Putters \ {c}) \in Nat
           /\ st[c] = "get" /\ c \in reserved => reserved_getters > 0
<1>1. /\ IsFiniteSet(Getters) /\ IsFiniteSet(Putters)
      /\ Cardinality(Getters) \in Nat /\ Cardinality(Putters) \in Nat
  BY KnownFacts DEF Known
<1>2. reserved_getters = Cardinality(Getters) /\ reserved_putters = Cardinality(Putters)
  BY DEF IInv, Counters
<1>3. /\ IsFiniteSet(Getters \ {c}) /\ IsFiniteSet(Putters \ {c})
      /\ Cardinality(Getters \ {c}) = IF c \in Getters THEN Cardinality(Getters) - 1 ELSE Cardinality(Getters)
      /\ Cardinality(Putters \ {c}) = IF c \in Putters THEN Cardinality(Putters) - 1 ELSE Cardinality(Putters)
  BY <1>1, FS_RemoveElement
<1>4. Cardinality(Getters \ {c}) \in Nat /\ Cardinality(Putters \ {c}) \in Nat
  BY <1>3, FS_CardinalityType
<1>5. /\ st[c] = "get" => c \notin Putters /\ (c \in Getters <=> c \in reserved)
      /\ st[c] = "put" => c \notin Getters /\ (c \in Putters <=> c \in reserved)
  BY DEF Getters, Putters
<1>6. st[c] = "get" /\ c \in reserved => reserved_getters > 0
  BY <1>1, <1>2, <1>3, <1>4, <1>5
<1> QED
  BY <1>2, <1>3, <1>4, <1>5, <1>6 DEF LessReserved

\* A waiter that is taken out of a list.
LEMMA Erased ==
    ASSUME IInv, NEW c
    PROVE  /\ RemoveFirst(get_waiters, c) \in Seq(Coros) /\ Distinct(RemoveFirst(get_waiters, c))
           /\ ToSet(RemoveFirst(get_waiters, c)) = ToSet(get_waiters) \ {c}
           /\ get_waiters = <<>> => RemoveFirst(get_waiters, c) = <<>>
           /\ RemoveFirst(put_waiters, c) \in Seq(Coros) /\ Distinct(RemoveFirst(put_waiters, c))
           /\ ToSet(RemoveFirst(put_waiters, c)) = ToSet(put_waiters) \ {c}
           /\ put_waiters = <<>> => RemoveFirst(put_waiters, c) = <<>>
           /\ RemoveFirst(join_waiters, c) \in Seq(Coros) /\ Distinct(RemoveFirst(join_waiters, c))
           /\ ToSet(RemoveFirst(join_waiters, c)) = ToSet(join_waiters) \ {c}
           /\ join_waiters = <<>> => RemoveFirst(join_waiters, c) = <<>>
<1>1. ASSUME NEW q \in Seq(Coros), Distinct(q)
      PROVE  /\ RemoveFirst(q, c) \in Seq(Coros) /\ Distinct(RemoveFirst(q, c))
             /\ ToSet(RemoveFirst(q, c)) = ToSet(q) \ {c}
             /\ q = <<>> => RemoveFirst(q, c) = <<>>
  <2>1. /\ RemoveFirst(q, c) \in Seq(Coros) /\ Distinct(RemoveFirst(q, c))
        /\ ToSet(RemoveFirst(q, c)) = ToSet(q) \ {c}
    BY <1>1, RemoveFirstProperties
  <2>2. q = <<>> <=> ToSet(q) = {}
    BY ToSetProperties
  <2> DEFINE r == RemoveFirst(q, c)
  <2>3. r \in Seq(Coros)
    BY <2>1
  <2> HIDE DEF r
  <2>4. r = <<>> <=> ToSet(r) = {}
    BY <2>3, ToSetProperties
  <2> QED
    BY <2>1, <2>2, <2>4 DEF r
<1>2. /\ get_waiters \in Seq(Coros) /\ put_waiters \in Seq(Coros) /\ join_waiters \in Seq(Coros)
      /\ Distinct(get_waiters) /\ Distinct(put_waiters) /\ Distinct(join_waiters)
  BY KnownFacts DEF Known
<1> QED
  BY <1>1, <1>2

\* A getter is resumed and takes its element.
LEMMA GetResumeStep ==
    ASSUME IInv, NEW c, ready # <<>>, c = Head(ready), c \notin cancelled \cup abandoned,
           UNCHANGED <<cancelled, abandoned>>, 
           st[c] = "get", items > 0, GetResume(c)
    PROVE  IInv'
<1> USE DEF IInv
<1>k. Known
  BY KnownFacts
<1>r. /\ c \in Coros /\ c \in ToSet(ready)
      /\ Tail(ready) \in Seq(Coros) /\ Distinct(Tail(ready))
      /\ ToSet(Tail(ready)) = ToSet(ready) \ {c}
  BY AtTheFront

<1>1. /\ st' = [st EXCEPT ![c] = "run"]
      /\ reserved_getters' = LessReserved(c, reserved_getters)
      /\ get_waiters' = RemoveFirst(get_waiters, c)
      /\ items' = items - 1 /\ inflight' = inflight + 1
      /\ notify_putters(items - 1, Tail(ready), put_waiters, reserved \ {c}, reserved_putters)
      /\ UNCHANGED <<starved, join_waiters, unfinished, shut, graceful>>
  BY DEF GetResume, Take, closing
<1>2. items - 1 \in Nat
  BY <1>k DEF Known

<1>s. /\ st' \in [Coros -> {"run", "get", "put", "join", "gone"}]
      /\ \A d \in Coros : d # c => st'[d] = st[d]
      /\ st'[c] = "run"
  BY <1>k, <1>r, <1>1 DEF Known

<1>g. /\ get_waiters' \in Seq(Coros) /\ Distinct(get_waiters')
      /\ ToSet(get_waiters') = ToSet(get_waiters) \ {c}
      /\ get_waiters = <<>> => get_waiters' = <<>>
  BY <1>1, Erased
<1>l. /\ reserved_getters' = Cardinality(Getters \ {c}) /\ reserved_getters' \in Nat
      /\ Putters \ {c} = Putters
  BY <1>r, <1>1, OneLess
<1>m. reserved_getters' = IF c \in reserved THEN reserved_getters - 1 ELSE reserved_getters
  BY <1>1 DEF LessReserved
<1> DEFINE n == items - 1
           rest == Tail(ready)
           kept == reserved \ {c}
<1>4. /\ n \in Nat /\ rest \in Seq(Coros) /\ Distinct(rest)
      /\ put_waiters \in Seq(Coros) /\ Distinct(put_waiters) /\ reserved_putters \in Nat
      /\ notify_putters(n, rest, put_waiters, kept, reserved_putters)
  BY <1>k, <1>r, <1>1, <1>2 DEF Known
<1> HIDE DEF n, rest, kept
<1>3. PICK W \in SUBSET ToSet(put_waiters) :
          /\ put_waiters' \in Seq(Coros) /\ Distinct(put_waiters')
          /\ ToSet(put_waiters') = ToSet(put_waiters) \ W
          /\ reserved' = kept \cup W
          /\ IsFiniteSet(W) /\ Cardinality(W) \in Nat
          /\ reserved_putters' = reserved_putters + Cardinality(W)
          /\ ready' \in Seq(Coros) /\ Distinct(ready')
          /\ ToSet(ready') = ToSet(rest) \cup W
          /\ put_waiters' # <<>> => full(n, reserved_putters')
          /\ maxsize > 0 /\ n + reserved_putters <= maxsize => n + reserved_putters' <= maxsize
          /\ put_waiters = <<>> => put_waiters' = <<>>
  BY <1>4, NotifyPutters

<1>5. /\ n = items - 1 /\ kept = reserved \ {c} /\ rest = Tail(ready)
  BY DEF n, kept, rest
<1>w. /\ W \subseteq ToSet(put_waiters) /\ ToSet(put_waiters') = ToSet(put_waiters) \ W
      /\ ToSet(get_waiters') = ToSet(get_waiters) \ {c}
      /\ reserved' = (reserved \ {c}) \cup W
      /\ ToSet(ready') = (ToSet(ready) \ {c}) \cup W
      /\ UNCHANGED <<cancelled, abandoned, join_waiters, shut>>
      /\ c \notin ToSet(put_waiters) /\ c \notin ToSet(join_waiters)
      /\ ToSet(ready) \subseteq Coros /\ reserved \subseteq Coros
      /\ ToSet(get_waiters) \subseteq Coros /\ ToSet(put_waiters) \subseteq Coros
      /\ ToSet(join_waiters) \subseteq Coros
  BY <1>k, <1>r, <1>g, <1>1, <1>3, <1>5 DEF Known, Places
<1>x. ~shut => c \in reserved
  BY <1>r DEF Called
<1>y. /\ reserved' \subseteq Coros /\ reserved_putters' \in Nat
      /\ items' \in Nat /\ inflight' \in Nat
  BY <1>k, <1>w, <1>1, <1>2, <1>3 DEF Known
<1>c1. TypeOK'
  BY <1>k, <1>1, <1>3, <1>s, <1>g, <1>l, <1>y DEF Known, TypeOK
<1>c2. Lists'
  BY <1>k, <1>1, <1>3, <1>g DEF Known, Lists
<1>c3. Places'
  BY <1>r, <1>s, <1>w DEF Places
<1>c4. Called'
  BY <1>r, <1>s, <1>w DEF Called, Places
<1>c5. Counters'
  <2>1. Getters' = Getters \ {c} /\ Putters' = Putters \cup W /\ Putters \cap W = {}
    BY <1>s, <1>w, <1>r DEF Places, Getters, Putters
  <2>2. Cardinality(Putters') = Cardinality(Putters) + Cardinality(W)
    BY <1>k, <1>3, <2>1, DisjointUnion DEF Known
  <2> QED
    BY <1>l, <1>3, <2>1, <2>2 DEF Counters
<1>c6. Stock'
  <2>1. maxsize > 0 => items' + reserved_putters' <= maxsize
    BY <1>k, <1>1, <1>3, <1>5 DEF Known, Stock
  <2>2. ~shut' => reserved_getters' <= items'
    BY <1>k, <1>1, <1>m, <1>x DEF Known, Stock
  <2>3. get_waiters' # <<>> => items' <= reserved_getters'
    BY <1>k, <1>1, <1>m, <1>g DEF Known, Stock, NoLostElement
  <2>4. put_waiters' # <<>> => full(items', reserved_putters')
    BY <1>1, <1>3, <1>5
  <2> QED
    BY <1>1, <2>1, <2>2, <2>3, <2>4 DEF Stock, NoLostElement, NeverStarved, full
<1>c7. Closed'
  BY <1>k, <1>1, <1>3, <1>g DEF Known, Closed, UnfinishedExact, NobodyLeftBehind, JoinWoken, NoWaitAfterDrain
<1> QED
  BY <1>c1, <1>c2, <1>c3, <1>c4, <1>c5, <1>c6, <1>c7

\* A getter is resumed with nothing to take: only after a shutdown.
LEMMA GetEmptyStep ==
    ASSUME IInv, NEW c, ready # <<>>, c = Head(ready), c \notin cancelled \cup abandoned,
           UNCHANGED <<cancelled, abandoned>>, 
           st[c] = "get", ~(items > 0), GetResume(c)
    PROVE  IInv'
<1> USE DEF IInv
<1>k. Known
  BY KnownFacts
<1>r. /\ c \in Coros /\ c \in ToSet(ready)
      /\ Tail(ready) \in Seq(Coros) /\ Distinct(Tail(ready))
      /\ ToSet(Tail(ready)) = ToSet(ready) \ {c}
  BY AtTheFront

<1>1. /\ st' = [st EXCEPT ![c] = "run"]
      /\ reserved_getters' = LessReserved(c, reserved_getters)
      /\ get_waiters' = RemoveFirst(get_waiters, c)
      /\ starved' = (starved \/ ~shut)
      /\ ready' = Tail(ready) /\ reserved' = reserved \ {c}
      /\ UNCHANGED <<items, inflight, reserved_putters, put_waiters, join_waiters, unfinished,
                     shut, graceful>>
  BY DEF GetResume, closing

<1>s. /\ st' \in [Coros -> {"run", "get", "put", "join", "gone"}]
      /\ \A d \in Coros : d # c => st'[d] = st[d]
      /\ st'[c] = "run"
  BY <1>k, <1>r, <1>1 DEF Known

<1>g. /\ get_waiters' \in Seq(Coros) /\ Distinct(get_waiters')
      /\ ToSet(get_waiters') = ToSet(get_waiters) \ {c}
      /\ get_waiters = <<>> => get_waiters' = <<>>
  BY <1>1, Erased
<1>l. /\ reserved_getters' = Cardinality(Getters \ {c}) /\ reserved_getters' \in Nat
      /\ Putters \ {c} = Putters /\ (c \in reserved => reserved_getters > 0)
  BY <1>r, <1>1, OneLess
<1>w. /\ ToSet(get_waiters') = ToSet(get_waiters) \ {c}
      /\ reserved' = reserved \ {c}
      /\ ToSet(ready') = ToSet(ready) \ {c}
      /\ UNCHANGED <<cancelled, abandoned, put_waiters, join_waiters, shut>>
      /\ c \notin ToSet(put_waiters) /\ c \notin ToSet(join_waiters)
      /\ ToSet(ready) \subseteq Coros /\ reserved \subseteq Coros
      /\ ToSet(get_waiters) \subseteq Coros /\ ToSet(put_waiters) \subseteq Coros
      /\ ToSet(join_waiters) \subseteq Coros
  BY <1>k, <1>r, <1>g, <1>1 DEF Known, Places
<1>x. shut
  BY <1>k, <1>r, <1>l DEF Known, Called, Stock
<1>y. starved' = starved
  BY <1>k, <1>1, <1>x DEF Known
<1>c1. TypeOK'
  BY <1>k, <1>1, <1>r, <1>s, <1>g, <1>l, <1>w, <1>y DEF Known, TypeOK
<1>c2. Lists'
  BY <1>k, <1>1, <1>r, <1>g DEF Known, Lists
<1>c3. Places'
  BY <1>r, <1>s, <1>w DEF Places
<1>c4. Called'
  BY <1>r, <1>s, <1>w DEF Called, Places
<1>c5. Counters'
  <2>1. Getters' = Getters \ {c} /\ Putters' = Putters
    BY <1>s, <1>w, <1>r, <1>l DEF Places, Getters, Putters
  <2> QED
    BY <1>l, <1>1, <2>1 DEF Counters
<1>c6. Stock'
  BY <1>k, <1>1, <1>l, <1>g, <1>x, <1>y DEF Known, Stock, NoLostElement, NeverStarved, full
<1>c7. Closed'
  BY <1>k, <1>1, <1>g DEF Known, Closed, UnfinishedExact, NobodyLeftBehind, JoinWoken, NoWaitAfterDrain
<1> QED
  BY <1>c1, <1>c2, <1>c3, <1>c4, <1>c5, <1>c6, <1>c7

\* A putter is resumed and puts its element into the slot it was given.
LEMMA PutResumeStep ==
    ASSUME IInv, NEW c, ready # <<>>, c = Head(ready), c \notin cancelled \cup abandoned,
           UNCHANGED <<cancelled, abandoned>>, 
           st[c] = "put", ~shut, PutResume(c)
    PROVE  IInv'
<1> USE DEF IInv
<1>k. Known
  BY KnownFacts
<1>r. /\ c \in Coros /\ c \in ToSet(ready)
      /\ Tail(ready) \in Seq(Coros) /\ Distinct(Tail(ready))
      /\ ToSet(Tail(ready)) = ToSet(ready) \ {c}
  BY AtTheFront

<1>1. /\ st' = [st EXCEPT ![c] = "run"]
      /\ reserved_putters' = LessReserved(c, reserved_putters)
      /\ put_waiters' = RemoveFirst(put_waiters, c)
      /\ items' = items + 1 /\ unfinished' = unfinished + 1
      /\ notify_getters(items + 1, Tail(ready), get_waiters, reserved \ {c}, reserved_getters)
      /\ UNCHANGED <<join_waiters, shut, graceful, inflight, starved>>
  BY DEF PutResume, PutItem, closing
<1>2. items + 1 \in Nat
  BY <1>k DEF Known

<1>s. /\ st' \in [Coros -> {"run", "get", "put", "join", "gone"}]
      /\ \A d \in Coros : d # c => st'[d] = st[d]
      /\ st'[c] = "run"
  BY <1>k, <1>r, <1>1 DEF Known

<1>g. /\ put_waiters' \in Seq(Coros) /\ Distinct(put_waiters')
      /\ ToSet(put_waiters') = ToSet(put_waiters) \ {c}
      /\ put_waiters = <<>> => put_waiters' = <<>>
  BY <1>1, Erased
<1>l. /\ reserved_putters' = Cardinality(Putters \ {c}) /\ reserved_putters' \in Nat
      /\ Getters \ {c} = Getters
  BY <1>r, <1>1, OneLess
<1>m. c \in reserved /\ reserved_putters' = reserved_putters - 1
  BY <1>r, <1>1 DEF LessReserved, Called
<1> DEFINE n == items + 1
           rest == Tail(ready)
           kept == reserved \ {c}
<1>4. /\ n \in Nat /\ rest \in Seq(Coros) /\ Distinct(rest)
      /\ get_waiters \in Seq(Coros) /\ Distinct(get_waiters) /\ reserved_getters \in Nat
      /\ notify_getters(n, rest, get_waiters, kept, reserved_getters)
  BY <1>k, <1>r, <1>1, <1>2 DEF Known
<1> HIDE DEF n, rest, kept
<1>3. PICK W \in SUBSET ToSet(get_waiters) :
          /\ get_waiters' \in Seq(Coros) /\ Distinct(get_waiters')
          /\ ToSet(get_waiters') = ToSet(get_waiters) \ W
          /\ reserved' = kept \cup W
          /\ IsFiniteSet(W) /\ Cardinality(W) \in Nat
          /\ reserved_getters' = reserved_getters + Cardinality(W)
          /\ ready' \in Seq(Coros) /\ Distinct(ready')
          /\ ToSet(ready') = ToSet(rest) \cup W
          /\ get_waiters' # <<>> => n <= reserved_getters'
          /\ reserved_getters <= n => reserved_getters' <= n
          /\ get_waiters = <<>> => get_waiters' = <<>>
  BY <1>4, NotifyGetters

<1>5. /\ n = items + 1 /\ kept = reserved \ {c} /\ rest = Tail(ready)
  BY DEF n, kept, rest
<1>w. /\ W \subseteq ToSet(get_waiters) /\ ToSet(get_waiters') = ToSet(get_waiters) \ W
      /\ ToSet(put_waiters') = ToSet(put_waiters) \ {c}
      /\ reserved' = (reserved \ {c}) \cup W
      /\ ToSet(ready') = (ToSet(ready) \ {c}) \cup W
      /\ UNCHANGED <<cancelled, abandoned, join_waiters, shut>>
      /\ c \notin ToSet(get_waiters) /\ c \notin ToSet(join_waiters)
      /\ ToSet(ready) \subseteq Coros /\ reserved \subseteq Coros
      /\ ToSet(get_waiters) \subseteq Coros /\ ToSet(put_waiters) \subseteq Coros
      /\ ToSet(join_waiters) \subseteq Coros
  BY <1>k, <1>r, <1>g, <1>1, <1>3, <1>5 DEF Known, Places
<1>y. /\ reserved' \subseteq Coros /\ reserved_getters' \in Nat
      /\ items' \in Nat /\ unfinished' \in Nat
  BY <1>k, <1>w, <1>1, <1>2, <1>3 DEF Known
<1>c1. TypeOK'
  BY <1>k, <1>1, <1>3, <1>s, <1>g, <1>l, <1>y DEF Known, TypeOK
<1>c2. Lists'
  BY <1>k, <1>1, <1>3, <1>g DEF Known, Lists
<1>c3. Places'
  BY <1>r, <1>s, <1>w DEF Places
<1>c4. Called'
  BY <1>r, <1>s, <1>w DEF Called, Places
<1>c5. Counters'
  <2>1. Putters' = Putters \ {c} /\ Getters' = Getters \cup W /\ Getters \cap W = {}
    BY <1>s, <1>w, <1>r DEF Places, Getters, Putters
  <2>2. Cardinality(Getters') = Cardinality(Getters) + Cardinality(W)
    BY <1>k, <1>3, <2>1, DisjointUnion DEF Known
  <2> QED
    BY <1>l, <1>3, <2>1, <2>2 DEF Counters
<1>c6. Stock'
  <2>1. maxsize > 0 => items' + reserved_putters' <= maxsize
    BY <1>k, <1>1, <1>m DEF Known, Stock
  <2>2. ~shut' => reserved_getters' <= items'
    BY <1>k, <1>1, <1>3, <1>5 DEF Known, Stock
  <2>3. get_waiters' # <<>> => items' <= reserved_getters'
    BY <1>1, <1>3, <1>5
  <2>4. put_waiters' # <<>> => full(items', reserved_putters')
    BY <1>k, <1>1, <1>m, <1>g DEF Known, Stock, NoLostElement, full
  <2> QED
    BY <1>1, <2>1, <2>2, <2>3, <2>4 DEF Stock, NoLostElement, NeverStarved, full
<1>c7. Closed'
  BY <1>k, <1>1, <1>3, <1>g DEF Known, Closed, UnfinishedExact, NobodyLeftBehind, JoinWoken, NoWaitAfterDrain
<1> QED
  BY <1>c1, <1>c2, <1>c3, <1>c4, <1>c5, <1>c6, <1>c7

\* A putter is resumed after a shutdown: it gives its slot back and throws.
LEMMA PutShutStep ==
    ASSUME IInv, NEW c, ready # <<>>, c = Head(ready), c \notin cancelled \cup abandoned,
           UNCHANGED <<cancelled, abandoned>>, 
           st[c] = "put", shut, PutResume(c)
    PROVE  IInv'
<1> USE DEF IInv
<1>k. Known
  BY KnownFacts
<1>r. /\ c \in Coros /\ c \in ToSet(ready)
      /\ Tail(ready) \in Seq(Coros) /\ Distinct(Tail(ready))
      /\ ToSet(Tail(ready)) = ToSet(ready) \ {c}
  BY AtTheFront

<1>1. /\ st' = [st EXCEPT ![c] = "run"]
      /\ reserved_putters' = LessReserved(c, reserved_putters)
      /\ put_waiters' = RemoveFirst(put_waiters, c)
      /\ ready' = Tail(ready) /\ reserved' = reserved \ {c}
      /\ UNCHANGED <<items, unfinished, reserved_getters, get_waiters, join_waiters, shut,
                     graceful, inflight, starved>>
  BY DEF PutResume, closing

<1>s. /\ st' \in [Coros -> {"run", "get", "put", "join", "gone"}]
      /\ \A d \in Coros : d # c => st'[d] = st[d]
      /\ st'[c] = "run"
  BY <1>k, <1>r, <1>1 DEF Known

<1>g. /\ put_waiters' \in Seq(Coros) /\ Distinct(put_waiters')
      /\ ToSet(put_waiters') = ToSet(put_waiters) \ {c}
      /\ put_waiters = <<>> => put_waiters' = <<>>
  BY <1>1, Erased
<1>l. /\ reserved_putters' = Cardinality(Putters \ {c}) /\ reserved_putters' \in Nat
      /\ Getters \ {c} = Getters
  BY <1>r, <1>1, OneLess
<1>m. reserved_putters' <= reserved_putters
  BY <1>k, <1>1 DEF Known, LessReserved
<1>w. /\ ToSet(put_waiters') = ToSet(put_waiters) \ {c}
      /\ reserved' = reserved \ {c}
      /\ ToSet(ready') = ToSet(ready) \ {c}
      /\ UNCHANGED <<cancelled, abandoned, get_waiters, join_waiters, shut>>
      /\ c \notin ToSet(get_waiters) /\ c \notin ToSet(join_waiters)
      /\ ToSet(ready) \subseteq Coros /\ reserved \subseteq Coros
      /\ ToSet(get_waiters) \subseteq Coros /\ ToSet(put_waiters) \subseteq Coros
      /\ ToSet(join_waiters) \subseteq Coros
  BY <1>k, <1>r, <1>g, <1>1 DEF Known, Places
<1>c1. TypeOK'
  BY <1>k, <1>1, <1>r, <1>s, <1>g, <1>l, <1>w DEF Known, TypeOK
<1>c2. Lists'
  BY <1>k, <1>1, <1>r, <1>g DEF Known, Lists
<1>c3. Places'
  BY <1>r, <1>s, <1>w DEF Places
<1>c4. Called'
  BY <1>r, <1>s, <1>w DEF Called, Places
<1>c5. Counters'
  <2>1. Putters' = Putters \ {c} /\ Getters' = Getters
    BY <1>s, <1>w, <1>r, <1>l DEF Places, Getters, Putters
  <2> QED
    BY <1>l, <1>1, <2>1 DEF Counters
<1>c6. Stock'
  BY <1>k, <1>1, <1>l, <1>m, <1>g DEF Known, Closed, Stock, NoLostElement, NeverStarved, full
<1>c7. Closed'
  BY <1>k, <1>1, <1>g DEF Known, Closed, UnfinishedExact, NobodyLeftBehind, JoinWoken, NoWaitAfterDrain
<1> QED
  BY <1>c1, <1>c2, <1>c3, <1>c4, <1>c5, <1>c6, <1>c7

\* A coroutine is resumed from join().
LEMMA JoinResumeStep ==
    ASSUME IInv, NEW c, ready # <<>>, c = Head(ready), c \notin cancelled \cup abandoned,
           UNCHANGED <<cancelled, abandoned>>, 
           st[c] = "join", JoinResume(c)
    PROVE  IInv'
<1> USE DEF IInv
<1>k. Known
  BY KnownFacts
<1>r. /\ c \in Coros /\ c \in ToSet(ready)
      /\ Tail(ready) \in Seq(Coros) /\ Distinct(Tail(ready))
      /\ ToSet(Tail(ready)) = ToSet(ready) \ {c}
  BY AtTheFront

<1>1. /\ st' = [st EXCEPT ![c] = "run"]
      /\ ready' = Tail(ready)
      /\ UNCHANGED <<items, reserved, reserved_getters, reserved_putters, get_waiters, put_waiters,
                     join_waiters, unfinished, shut, graceful, inflight, starved>>
  BY DEF JoinResume, closing

<1>s. /\ st' \in [Coros -> {"run", "get", "put", "join", "gone"}]
      /\ \A d \in Coros : d # c => st'[d] = st[d]
      /\ st'[c] = "run"
  BY <1>k, <1>r, <1>1 DEF Known

<1>w. /\ ToSet(ready') = ToSet(ready) \ {c}
      /\ UNCHANGED <<cancelled, abandoned, reserved, get_waiters, put_waiters, join_waiters, shut>>
      /\ c \notin ToSet(get_waiters) /\ c \notin ToSet(put_waiters) /\ c \notin reserved
      /\ c \notin ToSet(join_waiters)
      /\ ToSet(ready) \subseteq Coros /\ reserved \subseteq Coros
      /\ ToSet(get_waiters) \subseteq Coros /\ ToSet(put_waiters) \subseteq Coros
      /\ ToSet(join_waiters) \subseteq Coros
  BY <1>k, <1>r, <1>1 DEF Known, Places, Called
<1>c1. TypeOK'
  BY <1>k, <1>1, <1>r, <1>s DEF Known, TypeOK
<1>c2. Lists'
  BY <1>k, <1>1, <1>r DEF Known, Lists
<1>c3. Places'
  BY <1>r, <1>s, <1>w DEF Places
<1>c4. Called'
  BY <1>r, <1>s, <1>w DEF Called, Places
<1>c5. Counters'
  <2>1. Putters' = Putters /\ Getters' = Getters
    BY <1>s, <1>w, <1>r DEF Getters, Putters
  <2> QED
    BY <1>1, <2>1 DEF Counters
<1>c6. Stock'
  BY <1>k, <1>1 DEF Known, Stock, NoLostElement, NeverStarved, full
<1>c7. Closed'
  BY <1>k, <1>1 DEF Known, Closed, UnfinishedExact, NobodyLeftBehind, JoinWoken, NoWaitAfterDrain
<1> QED
  BY <1>c1, <1>c2, <1>c3, <1>c4, <1>c5, <1>c6, <1>c7

\* A getter is dropped: the element it was woken for goes to the next one.
LEMMA GetDroppedStep ==
    ASSUME IInv, NEW c \in Coros, NEW rest \in Seq(Coros), Distinct(rest), ToSet(rest) = ToSet(ready) \ {c},
           NEW v \in {"run", "gone"}, st' = [st EXCEPT ![c] = v],
           cancelled' = cancelled \ {c}, abandoned' = abandoned \ {c},
           st[c] = "get", GetDropped(c, rest)
    PROVE  IInv'
<1> USE DEF IInv
<1>k. Known
  BY KnownFacts
<1> DEFINE q == RemoveFirst(get_waiters, c)
           kept == reserved \ {c}
           r == LessReserved(c, reserved_getters)
<1>1. /\ notify_getters(items, rest, q, kept, r)
      /\ UNCHANGED <<items, reserved_putters, put_waiters, join_waiters, unfinished, shut, graceful,
                     inflight, starved>>
  BY DEF GetDropped, closing
<1>2. /\ q \in Seq(Coros) /\ Distinct(q) /\ ToSet(q) = ToSet(get_waiters) \ {c}
      /\ get_waiters = <<>> => q = <<>>
  BY Erased
<1>3. r = Cardinality(Getters \ {c}) /\ r \in Nat /\ IsFiniteSet(Getters \ {c}) /\ Putters \ {c} = Putters
  BY OneLess
<1>4. r <= reserved_getters /\ kept = reserved \ {c} /\ items \in Nat
  BY <1>k DEF Known, LessReserved
<1> HIDE DEF q, kept, r

<1>s. /\ st' \in [Coros -> {"run", "get", "put", "join", "gone"}]
      /\ \A d \in Coros : d # c => st'[d] = st[d]
      /\ st'[c] \in {"run", "gone"}
  BY <1>k DEF Known
<1>n. /\ items \in Nat /\ rest \in Seq(Coros) /\ Distinct(rest)
      /\ q \in Seq(Coros) /\ Distinct(q) /\ r \in Nat /\ notify_getters(items, rest, q, kept, r)
  BY <1>1, <1>2, <1>3, <1>4
<1>5. PICK W \in SUBSET ToSet(q) :
          /\ get_waiters' \in Seq(Coros) /\ Distinct(get_waiters')
          /\ ToSet(get_waiters') = ToSet(q) \ W
          /\ reserved' = kept \cup W
          /\ IsFiniteSet(W) /\ Cardinality(W) \in Nat
          /\ reserved_getters' = r + Cardinality(W)
          /\ ready' \in Seq(Coros) /\ Distinct(ready')
          /\ ToSet(ready') = ToSet(rest) \cup W
          /\ get_waiters' # <<>> => items <= reserved_getters'
          /\ r <= items => reserved_getters' <= items
          /\ q = <<>> => get_waiters' = <<>>
  BY ONLY <1>n, NotifyGetters

<1>w. /\ W \subseteq ToSet(get_waiters) \ {c}
      /\ ToSet(get_waiters') = (ToSet(get_waiters) \ {c}) \ W
      /\ reserved' = (reserved \ {c}) \cup W
      /\ ToSet(ready') = (ToSet(ready) \ {c}) \cup W
      /\ UNCHANGED <<put_waiters, join_waiters, shut>>
      /\ c \notin ToSet(put_waiters) /\ c \notin ToSet(join_waiters)
      /\ ToSet(ready) \subseteq Coros /\ reserved \subseteq Coros
      /\ ToSet(get_waiters) \subseteq Coros /\ ToSet(put_waiters) \subseteq Coros
      /\ ToSet(join_waiters) \subseteq Coros
  BY <1>k, <1>1, <1>2, <1>4, <1>5 DEF Known, Places
<1>x. reserved_getters' \in Nat
  BY <1>3, <1>5
<1>z. cancelled' \subseteq Coros /\ abandoned' \subseteq Coros
  BY <1>k DEF Known
<1>y. /\ reserved' \subseteq Coros /\ reserved_getters' \in Nat
      /\ cancelled' \subseteq Coros /\ abandoned' \subseteq Coros
  BY <1>w, <1>x, <1>z
<1>c1. TypeOK'
  BY <1>k, <1>1, <1>s, <1>5, <1>y DEF Known, TypeOK
<1>c2. Lists'
  BY <1>k, <1>1, <1>5 DEF Known, Lists
<1>c3. Places'
  BY <1>s, <1>w DEF Places
<1>c4. Called'
  BY <1>s, <1>w DEF Called, Places
<1>c5. Counters'
  <2>1. Putters' = Putters /\ Getters' = (Getters \ {c}) \cup W /\ (Getters \ {c}) \cap W = {}
    BY <1>s, <1>w DEF Places, Getters, Putters
  <2>2. Cardinality(Getters') = Cardinality(Getters \ {c}) + Cardinality(W)
    BY <1>3, <1>5, <2>1, DisjointUnion
  <2> QED
    BY <1>1, <1>3, <1>5, <2>1, <2>2 DEF Counters
<1>c6. Stock'
  <2>1. maxsize > 0 => items' + reserved_putters' <= maxsize
    BY <1>1 DEF Stock
  <2>2. ~shut' => reserved_getters' <= items'
    BY <1>k, <1>1, <1>3, <1>4, <1>5 DEF Known, Stock
  <2>3. get_waiters' # <<>> => items' <= reserved_getters'
    BY <1>1, <1>5
  <2>4. put_waiters' # <<>> => full(items', reserved_putters')
    BY <1>1 DEF Stock, NoLostElement
  <2> QED
    BY <1>1, <2>1, <2>2, <2>3, <2>4 DEF Stock, NoLostElement, NeverStarved, full
<1>c7. Closed'
  BY <1>k, <1>1, <1>2, <1>5 DEF Known, Closed, UnfinishedExact, NobodyLeftBehind, JoinWoken, NoWaitAfterDrain
<1> QED
  BY <1>c1, <1>c2, <1>c3, <1>c4, <1>c5, <1>c6, <1>c7

\* A putter is dropped: its slot goes to the next one.
LEMMA PutDroppedStep ==
    ASSUME IInv, NEW c \in Coros, NEW rest \in Seq(Coros), Distinct(rest), ToSet(rest) = ToSet(ready) \ {c},
           NEW v \in {"run", "gone"}, st' = [st EXCEPT ![c] = v],
           cancelled' = cancelled \ {c}, abandoned' = abandoned \ {c},
           st[c] = "put", PutDropped(c, rest)
    PROVE  IInv'
<1> USE DEF IInv
<1>k. Known
  BY KnownFacts
<1> DEFINE q == RemoveFirst(put_waiters, c)
           kept == reserved \ {c}
           r == LessReserved(c, reserved_putters)
<1>1. /\ notify_putters(items, rest, q, kept, r)
      /\ UNCHANGED <<items, reserved_getters, get_waiters, join_waiters, unfinished, shut, graceful,
                     inflight, starved>>
  BY DEF PutDropped, closing
<1>2. /\ q \in Seq(Coros) /\ Distinct(q) /\ ToSet(q) = ToSet(put_waiters) \ {c}
      /\ put_waiters = <<>> => q = <<>>
  BY Erased
<1>3. r = Cardinality(Putters \ {c}) /\ r \in Nat /\ IsFiniteSet(Putters \ {c}) /\ Getters \ {c} = Getters
  BY OneLess
<1>4. r <= reserved_putters /\ kept = reserved \ {c} /\ items \in Nat
  BY <1>k DEF Known, LessReserved
<1> HIDE DEF q, kept, r

<1>s. /\ st' \in [Coros -> {"run", "get", "put", "join", "gone"}]
      /\ \A d \in Coros : d # c => st'[d] = st[d]
      /\ st'[c] \in {"run", "gone"}
  BY <1>k DEF Known
<1>5. PICK W \in SUBSET ToSet(q) :
          /\ put_waiters' \in Seq(Coros) /\ Distinct(put_waiters')
          /\ ToSet(put_waiters') = ToSet(q) \ W
          /\ reserved' = kept \cup W
          /\ IsFiniteSet(W) /\ Cardinality(W) \in Nat
          /\ reserved_putters' = r + Cardinality(W)
          /\ ready' \in Seq(Coros) /\ Distinct(ready')
          /\ ToSet(ready') = ToSet(rest) \cup W
          /\ put_waiters' # <<>> => full(items, reserved_putters')
          /\ maxsize > 0 /\ items + r <= maxsize => items + reserved_putters' <= maxsize
          /\ q = <<>> => put_waiters' = <<>>
  BY <1>1, <1>2, <1>3, <1>4, NotifyPutters

<1>w. /\ W \subseteq ToSet(put_waiters) \ {c}
      /\ ToSet(put_waiters') = (ToSet(put_waiters) \ {c}) \ W
      /\ reserved' = (reserved \ {c}) \cup W
      /\ ToSet(ready') = (ToSet(ready) \ {c}) \cup W
      /\ UNCHANGED <<get_waiters, join_waiters, shut>>
      /\ c \notin ToSet(get_waiters) /\ c \notin ToSet(join_waiters)
      /\ ToSet(ready) \subseteq Coros /\ reserved \subseteq Coros
      /\ ToSet(get_waiters) \subseteq Coros /\ ToSet(put_waiters) \subseteq Coros
      /\ ToSet(join_waiters) \subseteq Coros
  BY <1>k, <1>1, <1>2, <1>4, <1>5 DEF Known, Places
<1>x. reserved_putters' \in Nat
  BY <1>3, <1>5
<1>z. cancelled' \subseteq Coros /\ abandoned' \subseteq Coros
  BY <1>k DEF Known
<1>y. /\ reserved' \subseteq Coros /\ reserved_putters' \in Nat
      /\ cancelled' \subseteq Coros /\ abandoned' \subseteq Coros
  BY <1>w, <1>x, <1>z
<1>c1. TypeOK'
  BY <1>k, <1>1, <1>s, <1>5, <1>y DEF Known, TypeOK
<1>c2. Lists'
  BY <1>k, <1>1, <1>5 DEF Known, Lists
<1>c3. Places'
  BY <1>s, <1>w DEF Places
<1>c4. Called'
  BY <1>s, <1>w DEF Called, Places
<1>c5. Counters'
  <2>1. Getters' = Getters /\ Putters' = (Putters \ {c}) \cup W /\ (Putters \ {c}) \cap W = {}
    BY <1>s, <1>w DEF Places, Getters, Putters
  <2>2. Cardinality(Putters') = Cardinality(Putters \ {c}) + Cardinality(W)
    BY <1>3, <1>5, <2>1, DisjointUnion
  <2> QED
    BY <1>1, <1>3, <1>5, <2>1, <2>2 DEF Counters
<1>c6. Stock'
  <2>a. maxsize \in Nat /\ reserved_putters \in Nat
        /\ (maxsize > 0 => items + reserved_putters <= maxsize)
    BY <1>k DEF Known, Stock
  <2>b. maxsize > 0 => items + r <= maxsize
    BY <2>a, <1>3, <1>4
  <2>1. maxsize > 0 => items' + reserved_putters' <= maxsize
    BY <1>1, <1>5, <2>b
  <2>2. ~shut' => reserved_getters' <= items'
    BY <1>1 DEF Stock
  <2>3. get_waiters' # <<>> => items' <= reserved_getters'
    BY <1>1 DEF Stock, NoLostElement
  <2>4. put_waiters' # <<>> => full(items', reserved_putters')
    BY <1>1, <1>5
  <2> QED
    BY <1>1, <2>1, <2>2, <2>3, <2>4 DEF Stock, NoLostElement, NeverStarved, full
<1>c7. Closed'
  BY <1>k, <1>1, <1>2, <1>5 DEF Known, Closed, UnfinishedExact, NobodyLeftBehind, JoinWoken, NoWaitAfterDrain
<1> QED
  BY <1>c1, <1>c2, <1>c3, <1>c4, <1>c5, <1>c6, <1>c7

\* A coroutine in join() is dropped.
LEMMA JoinDroppedStep ==
    ASSUME IInv, NEW c \in Coros, NEW rest \in Seq(Coros), Distinct(rest), ToSet(rest) = ToSet(ready) \ {c},
           NEW v \in {"run", "gone"}, st' = [st EXCEPT ![c] = v],
           cancelled' = cancelled \ {c}, abandoned' = abandoned \ {c},
           st[c] = "join", JoinDropped(c, rest)
    PROVE  IInv'
<1> USE DEF IInv
<1>k. Known
  BY KnownFacts
<1>1. /\ join_waiters' = RemoveFirst(join_waiters, c) /\ ready' = rest
      /\ UNCHANGED <<items, reserved, reserved_getters, reserved_putters, get_waiters, put_waiters,
                     unfinished, shut, graceful, inflight, starved>>
  BY DEF JoinDropped, closing
<1>2. /\ join_waiters' \in Seq(Coros) /\ Distinct(join_waiters')
      /\ ToSet(join_waiters') = ToSet(join_waiters) \ {c}
      /\ join_waiters = <<>> => join_waiters' = <<>>
  BY <1>1, Erased

<1>s. /\ st' \in [Coros -> {"run", "get", "put", "join", "gone"}]
      /\ \A d \in Coros : d # c => st'[d] = st[d]
      /\ st'[c] \in {"run", "gone"}
  BY <1>k DEF Known

<1>w. /\ ToSet(ready') = ToSet(ready) \ {c} /\ ToSet(join_waiters') = ToSet(join_waiters) \ {c}
      /\ UNCHANGED <<reserved, get_waiters, put_waiters, shut>>
      /\ c \notin ToSet(get_waiters) /\ c \notin ToSet(put_waiters) /\ c \notin reserved
      /\ ToSet(ready) \subseteq Coros /\ reserved \subseteq Coros
      /\ ToSet(get_waiters) \subseteq Coros /\ ToSet(put_waiters) \subseteq Coros
      /\ ToSet(join_waiters) \subseteq Coros
  BY <1>k, <1>1, <1>2 DEF Known, Places
<1>y. cancelled' \subseteq Coros /\ abandoned' \subseteq Coros
  BY <1>k DEF Known
<1>c1. TypeOK'
  BY <1>k, <1>1, <1>2, <1>s, <1>y DEF Known, TypeOK
<1>c2. Lists'
  BY <1>k, <1>1, <1>2 DEF Known, Lists
<1>c3. Places'
  BY <1>s, <1>w DEF Places
<1>c4. Called'
  BY <1>s, <1>w DEF Called, Places
<1>c5. Counters'
  <2>1. Putters' = Putters /\ Getters' = Getters
    BY <1>s, <1>w DEF Getters, Putters
  <2> QED
    BY <1>1, <2>1 DEF Counters
<1>c6. Stock'
  BY <1>k, <1>1 DEF Known, Stock, NoLostElement, NeverStarved, full
<1>c7. Closed'
  BY <1>k, <1>1, <1>2 DEF Known, Closed, UnfinishedExact, NobodyLeftBehind, JoinWoken, NoWaitAfterDrain
<1> QED
  BY <1>c1, <1>c2, <1>c3, <1>c4, <1>c5, <1>c6, <1>c7

\* A frame that is in the ready queue is left to the loop.
LEMMA AbandonStep ==
    ASSUME IInv, NEW c \in Coros, c \in ToSet(ready), abandoned' = abandoned \cup {c},
           UNCHANGED <<st, cancelled, items, reserved, reserved_getters,
                       reserved_putters, get_waiters, put_waiters, join_waiters,
                       unfinished, shut, graceful, inflight, starved, ready>>
    PROVE  IInv'
<1> USE DEF IInv
<1>1. TypeOK'
  BY DEF TypeOK
<1>2. Lists'
  BY DEF Lists
<1>3. Places' /\ Called'
  BY DEF Places, Called
<1>4. Counters'
  BY DEF Counters, Getters, Putters
<1>5. Stock' /\ Closed'
  BY DEF Stock, Closed, NoLostElement, NeverStarved, full, UnfinishedExact, NobodyLeftBehind,
         JoinWoken, NoWaitAfterDrain
<1> QED
  BY <1>1, <1>2, <1>3, <1>4, <1>5

\* shutdown() lets everybody go who is still in a list.
LEMMA ShutdownStep ==
    ASSUME IInv, NEW immediate \in BOOLEAN, shutdown(immediate)
    PROVE  IInv'
<1> USE DEF IInv
<1>k. Known
  BY KnownFacts
<1> DEFINE joins == IF ~shut /\ unfinished' = 0 THEN join_waiters ELSE <<>>
           hs == put_waiters \o get_waiters \o joins
<1>1. /\ shut' = TRUE /\ graceful' = (graceful \/ ~immediate)
      /\ items' = IF immediate THEN 0 ELSE items
      /\ unfinished' = IF immediate THEN Undiscarded ELSE unfinished
      /\ put_waiters' = <<>> /\ get_waiters' = <<>>
      /\ UNCHANGED <<st, cancelled, abandoned, reserved, reserved_getters,
                     reserved_putters, inflight, starved>>
  BY DEF shutdown
<1>2. /\ ready' = Scheduled(ready, hs)
      /\ join_waiters' = IF joins # <<>> THEN <<>> ELSE join_waiters
  BY DEF shutdown
<1>3. <<>> \in Seq(Coros) /\ Distinct(<<>>) /\ ToSet(<<>>) = {}
  BY NoWaiters
<1>4. \/ ~shut /\ unfinished' = 0 /\ joins = join_waiters
      \/ ~(~shut /\ unfinished' = 0) /\ joins = <<>>
  OBVIOUS
<1>5. joins \in Seq(Coros) /\ ToSet(joins) \subseteq ToSet(join_waiters)
  BY <1>k, <1>3, <1>4 DEF Known
<1> HIDE DEF joins
<1>6. hs \in Seq(Coros) /\ ToSet(hs) = ToSet(put_waiters) \cup ToSet(get_waiters) \cup ToSet(joins)
  <2> DEFINE pg == put_waiters \o get_waiters
  <2>1. pg \in Seq(Coros) /\ ToSet(pg) = ToSet(put_waiters) \cup ToSet(get_waiters)
    BY <1>k, ConcatToSet DEF Known
  <2> HIDE DEF pg
  <2>2. pg \o joins \in Seq(Coros) /\ ToSet(pg \o joins) = ToSet(pg) \cup ToSet(joins)
    BY <1>5, <2>1, ConcatToSet
  <2> QED
    BY <2>1, <2>2 DEF pg
<1> HIDE DEF hs
<1>7. /\ ready' \in Seq(Coros) /\ Distinct(ready')
      /\ ToSet(ready') = ToSet(ready) \cup ToSet(hs)
  BY <1>k, <1>2, <1>6, ScheduledProperties DEF Known
<1>8. /\ joins # <<>> <=> ToSet(joins) # {}
      /\ \/ ToSet(joins) = {} /\ join_waiters' = join_waiters
         \/ ToSet(joins) # {} /\ join_waiters' = <<>> /\ ToSet(join_waiters') = {}
  BY <1>2, <1>3, <1>5, ToSetProperties
<1>9. /\ join_waiters' \in Seq(Coros) /\ Distinct(join_waiters')
  BY <1>k, <1>3, <1>8 DEF Known
<1>w. /\ ToSet(ready') = ToSet(ready) \cup ToSet(put_waiters) \cup ToSet(get_waiters) \cup ToSet(joins)
      /\ ToSet(joins) \subseteq ToSet(join_waiters)
      /\ \/ ToSet(joins) = {} /\ ToSet(join_waiters') = ToSet(join_waiters)
         \/ ToSet(join_waiters') = {}
      /\ ToSet(put_waiters') = {} /\ ToSet(get_waiters') = {} /\ shut'
      /\ UNCHANGED <<st, reserved, cancelled, abandoned>>
  BY <1>1, <1>3, <1>5, <1>6, <1>7, <1>8
<1>n. Undiscarded \in Nat /\ items' \in Nat /\ unfinished' \in Nat /\ items' <= items
  BY <1>k, <1>1 DEF Known, Undiscarded
<1>c1. TypeOK'
  BY <1>k, <1>1, <1>3, <1>7, <1>9, <1>n DEF Known, TypeOK
<1>c2. Lists'
  BY <1>1, <1>3, <1>7, <1>9 DEF Lists
<1>c3. Places'
  BY <1>w DEF Places
<1>c4. Called'
  BY <1>w DEF Called, Places
<1>c5. Counters'
  <2>1. Getters' = Getters /\ Putters' = Putters
    BY <1>k, <1>1 DEF Known, Places, Getters, Putters
  <2> QED
    BY <1>1, <2>1 DEF Counters
<1>c6. Stock'
  BY <1>k, <1>1, <1>n DEF Known, Stock, NoLostElement, NeverStarved, full
<1>c7. Closed'
  <2>1. (shut' => put_waiters' = <<>>) /\ (shut' /\ ~graceful' => items' = 0)
    BY <1>k, <1>1 DEF Known
  <2>2. UnfinishedExact'
    BY <1>k, <1>1 DEF Known, Closed, UnfinishedExact, Undiscarded
  <2>3. NoWaitAfterDrain'
    BY <1>1 DEF NoWaitAfterDrain
  <2>4. ASSUME ~graceful', unfinished' = 0 PROVE join_waiters' = <<>>
    <3>1. ~graceful /\ immediate
      BY <1>k, <1>1, <2>4 DEF Known
    <3>2. CASE ~shut
      BY <1>k, <1>2, <1>4, <2>4, <3>2 DEF Known
    <3>3. CASE shut
      <4>1. items = 0 /\ unfinished = 0
        BY <1>k, <1>1, <2>4, <3>1, <3>3 DEF Known, Closed, Undiscarded
      <4>2. join_waiters = <<>>
        BY <3>1, <4>1 DEF Closed, NobodyLeftBehind, JoinWoken
      <4> QED
        BY <1>2, <4>2
    <3> QED
      BY <3>2, <3>3
  <2> QED
    BY <2>1, <2>2, <2>3, <2>4 DEF Closed, NobodyLeftBehind, JoinWoken
<1> QED
  BY <1>c1, <1>c2, <1>c3, <1>c4, <1>c5, <1>c6, <1>c7

\* A waiter is dropped, whatever it waits for.
LEMMA DroppedStep ==
    ASSUME IInv, NEW c \in Coros, NEW rest \in Seq(Coros), Distinct(rest), ToSet(rest) = ToSet(ready) \ {c},
           NEW v \in {"run", "gone"}, st' = [st EXCEPT ![c] = v],
           cancelled' = cancelled \ {c}, abandoned' = abandoned \ {c},
           Dropped(c, rest)
    PROVE  IInv'
  BY GetDroppedStep, PutDroppedStep, JoinDroppedStep DEF Dropped

LEMMA ResumeStep ==
    ASSUME IInv, NEW c \in Coros, Resume(c)
    PROVE  IInv'
<1>1. CASE st[c] = "get" /\ GetResume(c)
  BY <1>1, GetResumeStep, GetEmptyStep DEF Resume
<1>2. CASE st[c] = "put" /\ PutResume(c)
  BY <1>2, PutResumeStep, PutShutStep DEF Resume
<1>3. CASE st[c] = "join" /\ JoinResume(c)
  BY <1>3, JoinResumeStep DEF Resume
<1> QED
  BY <1>1, <1>2, <1>3 DEF Resume

LEMMA ResumeDroppedStep ==
    ASSUME IInv, NEW c \in Coros, ResumeDropped(c)
    PROVE  IInv'
<1> DEFINE v == IF c \in abandoned THEN "gone" ELSE "run"
           rest == Tail(ready)
<1>1. /\ Dropped(c, rest) /\ st' = [st EXCEPT ![c] = v]
      /\ cancelled' = cancelled \ {c} /\ abandoned' = abandoned \ {c}
      /\ v \in {"run", "gone"}
  BY DEF ResumeDropped
<1>2. rest \in Seq(Coros) /\ Distinct(rest) /\ ToSet(rest) = ToSet(ready) \ {c}
  BY AtTheFront DEF ResumeDropped
<1> HIDE DEF v, rest
<1> QED
  BY <1>1, <1>2, DroppedStep

LEMMA DestroyStep ==
    ASSUME IInv, NEW c \in Coros, Destroy(c)
    PROVE  IInv'
<1>1. CASE c \in ToSet(ready)
  BY <1>1, AbandonStep DEF Destroy, closing
<1>2. CASE c \notin ToSet(ready)
  <2>1. /\ Dropped(c, ready) /\ st' = [st EXCEPT ![c] = "gone"]
        /\ UNCHANGED <<cancelled, abandoned>>
    BY <1>2 DEF Destroy
  <2>2. cancelled' = cancelled \ {c} /\ abandoned' = abandoned \ {c}
    BY <1>2, <2>1 DEF IInv, Places
  <2>3. ready \in Seq(Coros) /\ Distinct(ready) /\ ToSet(ready) = ToSet(ready) \ {c}
    BY <1>2 DEF IInv, TypeOK, Lists
  <2> QED
    BY <2>1, <2>2, <2>3, DroppedStep
<1> QED
  BY <1>1, <1>2

LEMMA InitIInv == Init => IInv
<1> SUFFICES ASSUME Init PROVE IInv
  OBVIOUS
<1> USE DEF Init
<1>1. <<>> \in Seq(Coros) /\ Distinct(<<>>) /\ ToSet(<<>>) = {}
  BY NoWaiters
<1>2. TypeOK
  BY <1>1 DEF TypeOK
<1>3. Lists /\ Places /\ Called
  BY <1>1 DEF Lists, Places, Called
<1>4. Counters
  <2>1. Getters = {} /\ Putters = {}
    BY DEF Getters, Putters
  <2> QED
    BY <2>1, FS_EmptySet DEF Counters
<1>5. Stock /\ Closed
  BY QueueAssumption DEF Stock, Closed, NoLostElement, NeverStarved, full, UnfinishedExact,
         NobodyLeftBehind, JoinWoken, NoWaitAfterDrain
<1> QED
  BY <1>2, <1>3, <1>4, <1>5 DEF IInv

LEMMA StutterIInv == ASSUME IInv, UNCHANGED vars PROVE IInv'
<1> USE DEF vars, closing, IInv
<1>1. TypeOK' /\ Lists' /\ Places' /\ Called'
  BY DEF TypeOK, Lists, Places, Called
<1>2. Counters'
  BY DEF Counters, Getters, Putters
<1>3. Stock' /\ Closed'
  BY DEF Stock, Closed, NoLostElement, NeverStarved, full, UnfinishedExact,
         NobodyLeftBehind, JoinWoken, NoWaitAfterDrain
<1> QED
  BY <1>1, <1>2, <1>3

LEMMA NextIInv == ASSUME IInv, Next PROVE IInv'
<1>1. ASSUME NEW c \in Coros,
             \/ Get(c) \/ GetWait(c) \/ Put(c) \/ PutWait(c) \/ join(c)
             \/ Resume(c) \/ ResumeDropped(c) \/ Cancel(c) \/ Destroy(c)
      PROVE  IInv'
  BY <1>1, GetStep, GetWaitStep, PutStep, PutWaitStep, JoinStep, ResumeStep,
     ResumeDroppedStep, CancelStep, DestroyStep
<1>2. ASSUME NEW immediate \in Shutdowns, shutdown(immediate) PROVE IInv'
  <2>1. immediate \in BOOLEAN
    BY QueueAssumption
  <2> QED
    BY <1>2, <2>1, ShutdownStep
<1> QED
  BY <1>1, <1>2, TaskDoneStep DEF Next

LEMMA Invariance == Spec => []IInv
<1>1. IInv /\ [Next]_vars => IInv'
  BY NextIInv, StutterIInv
<1> QED
  BY <1>1, InitIInv, PTL DEF Spec

-----------------------------------------------------------------------------
(* The theorems.                                                           *)

\* The variables of the queue keep their types (queue.hpp).
THEOREM TypeCorrect == Spec => []TypeOK
<1>1. IInv => TypeOK
  BY DEF IInv
<1> QED
  BY <1>1, Invariance, PTL

\* reserved_getters_ and reserved_putters_ count exactly the woken waiters that are
\* still to be resumed, and the capacity is never exceeded with the reserved slots
\* counted (notify_getters, notify_putters, remove_get_waiter, remove_put_waiter).
THEOREM ReservationsAreHeld == Spec => []ReservationsHeld
<1>1. IInv => ReservationsHeld
  BY DEF IInv, Counters, Stock, Places, Getters, Putters, ReservationsHeld
<1> QED
  BY <1>1, Invariance, PTL

\* A getter that was woken finds its element, whoever calls get() or is cancelled in
\* between: the state get_awaiter::await_resume calls unreachable is.
THEOREM ElementIsThere == Spec => []NeverStarved
<1>1. IInv => NeverStarved
  BY DEF IInv, Stock
<1> QED
  BY <1>1, Invariance, PTL

\* No consumer sleeps on an element nobody reserved, no producer on a free slot
\* (on_waiter_destroyed passes the reservation of a dropped waiter on).
THEOREM NothingLeftLying == Spec => []NoLostElement
<1>1. IInv => NoLostElement
  BY DEF IInv, Stock
<1> QED
  BY <1>1, Invariance, PTL

\* unfinished_tasks_ is the number of the elements queued and in flight, through
\* cancelled puts and both kinds of shutdown (task_done, shutdown).
THEOREM BooksBalance == Spec => []UnfinishedExact
<1>1. IInv => UnfinishedExact
  BY DEF IInv, Closed
<1> QED
  BY <1>1, Invariance, PTL

\* As long as every shutdown() is an immediate one, nobody stays in join() when the
\* count is 0, nor in get() when the queue is shut and empty.
THEOREM ImmediateShutdownFreesAll == Spec => []NobodyLeftBehind
<1>1. IInv => NobodyLeftBehind
  BY DEF IInv, Closed
<1> QED
  BY <1>1, Invariance, PTL

=============================================================================
