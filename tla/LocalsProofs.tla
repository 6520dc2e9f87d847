---------------------------- MODULE LocalsProofs ----------------------------
(***************************************************************************)
(* The pool and the channels of Locals, for any number of coroutines, any  *)
(* limits and capacities, and any program that uses them: first the pool,  *)
(* then channels and select().                                             *)
(***************************************************************************)
EXTENDS Locals, ReadyQueueProofs

-----------------------------------------------------------------------------
(* The inductive invariant.                                                *)

\* Coroutines whose resource is being made
Making == {c \in Coros : st[c] = "create"}

\* Waiters that have been woken and have not looked yet
Woken == {c \in Coros : st[c] = "acquire" /\ c \notin ToSet(poolWaiters)}

PoolTypes ==
    /\ st \in [Coros -> {"run", "acquire", "create", "gone"}]
    /\ ready \in Seq(Coros) /\ poolWaiters \in Seq(Coros)
    /\ cancelled \subseteq Coros /\ abandoned \subseteq Coros /\ holding \subseteq Coros
    /\ idle \in Nat /\ in_use \in Nat
    /\ poolClosed \in BOOLEAN

\* Who is in which list.  A waiter of the pool that is in the loop's list although
\* nobody woke it has been cancelled: it will not compete for a resource.
Places ==
    /\ Distinct(ready) /\ Distinct(poolWaiters)
    /\ \A c \in ToSet(ready) : st[c] \in {"acquire", "create"}
    /\ \A c \in ToSet(poolWaiters) : st[c] = "acquire"
    /\ \A c \in ToSet(poolWaiters) \cap ToSet(ready) : c \in cancelled
    /\ \A c \in holding : st[c] = "run"

Counts ==
    /\ IsFiniteSet(holding) /\ IsFiniteSet(Making) /\ IsFiniteSet(Woken)
    /\ in_use = Cardinality(holding) + Cardinality(Making)

Limit ==
    /\ max_agents > 0 => idle + in_use <= max_agents
    /\ idle <= max_idle

Enough ==
    poolWaiters # <<>> =>
        ~poolClosed /\ max_agents > 0 /\ Cardinality(Woken) >= max_agents - in_use

PoolInv == PoolTypes /\ Places /\ Counts /\ Limit /\ Enough

\* A program that makes calls to channels leaves the pool alone.
Unused ==
    /\ st \in [Coros -> {"run", "chan", "gone"}]
    /\ idle = 0 /\ in_use = 0 /\ poolWaiters = <<>> /\ holding = {}

IInv ==
    /\ max_agents \in Nat
    /\ calls = {} => PoolInv
    /\ calls # {} => Unused

-----------------------------------------------------------------------------
(* Facts used in every step.                                               *)

Known ==
    /\ PoolTypes /\ Places /\ Counts /\ Limit /\ Enough /\ max_agents \in Nat
    /\ ToSet(ready) \subseteq Coros /\ ToSet(poolWaiters) \subseteq Coros
    /\ poolWaiters = <<>> <=> ToSet(poolWaiters) = {}
    /\ Cardinality(holding) \in Nat /\ Cardinality(Making) \in Nat /\ Cardinality(Woken) \in Nat
    /\ Making \subseteq Coros /\ Woken \subseteq Coros

LEMMA KnownFacts ==
    ASSUME PoolInv, max_agents \in Nat
    PROVE  Known
<1>1. ready \in Seq(Coros) /\ poolWaiters \in Seq(Coros)
  BY DEF PoolInv, PoolTypes
<1>2. /\ ToSet(ready) \subseteq Coros /\ ToSet(poolWaiters) \subseteq Coros
      /\ poolWaiters = <<>> <=> ToSet(poolWaiters) = {}
  BY <1>1, ToSetProperties
<1>3. IsFiniteSet(holding) /\ IsFiniteSet(Making) /\ IsFiniteSet(Woken)
  BY DEF PoolInv, Counts
<1>4. Cardinality(holding) \in Nat /\ Cardinality(Making) \in Nat /\ Cardinality(Woken) \in Nat
  BY <1>3, FS_CardinalityType
<1>5. Making \subseteq Coros /\ Woken \subseteq Coros
  BY DEF Making, Woken
<1> QED
  BY <1>2, <1>4, <1>5 DEF Known, PoolInv

LEMMA OneHandle ==
    ASSUME NEW T, NEW h \in T
    PROVE  <<h>> \in Seq(T) /\ ToSet(<<h>>) = {h} /\ Distinct(<<h>>)
<1> DEFINE one == <<h>>
<1>1. one \in Seq(T) /\ Len(one) = 1 /\ one[1] = h
  OBVIOUS
<1> HIDE DEF one
<1>2. \A x : x \in ToSet(one) <=> \E i \in 1..Len(one) : one[i] = x
  BY <1>1, InToSet
<1>3. \A x : x \in ToSet(one) <=> x = h
  BY <1>1, <1>2
<1>4. one \in Seq(T) /\ ToSet(one) = {h} /\ Distinct(one)
  BY <1>1, <1>3 DEF Distinct
<1> QED
  BY <1>4 DEF one

\* wake_one: the first waiter, if there is one, moves to the ready queue.
LEMMA WakeOne ==
    ASSUME NEW q \in Seq(Coros), Distinct(q), NEW rest \in Seq(Coros), Distinct(rest)
    PROVE  \E H \in SUBSET ToSet(q) :
             /\ AfterFirst(q) \in Seq(Coros) /\ Distinct(AfterFirst(q))
             /\ ToSet(AfterFirst(q)) = ToSet(q) \ H
             /\ Scheduled(rest, First(q)) \in Seq(Coros) /\ Distinct(Scheduled(rest, First(q)))
             /\ ToSet(Scheduled(rest, First(q))) = ToSet(rest) \cup H
             /\ \/ q = <<>> /\ H = {}
                \/ q # <<>> /\ \E h \in Coros : H = {h}
<1>e. <<>> \in Seq(Coros) /\ Distinct(<<>>) /\ ToSet(<<>>) = {}
  BY NoWaiters
<1>1. CASE q = <<>>
  <2>1. First(q) = <<>> /\ AfterFirst(q) = <<>>
    BY <1>1 DEF First, AfterFirst
  <2>2. Scheduled(rest, First(q)) = rest
    BY <1>e, <2>1, ScheduledProperties
  <2> {} \in SUBSET ToSet(q)
    OBVIOUS
  <2> WITNESS {} \in SUBSET ToSet(q)
  <2>3. ToSet(rest) = ToSet(rest) \cup {}
    OBVIOUS
  <2> QED
    BY <1>1, <1>e, <2>1, <2>2, <2>3
<1>2. CASE q # <<>>
  <2> DEFINE h == Head(q)
             one == <<Head(q)>>
  <2>1. First(q) = one /\ AfterFirst(q) = Tail(q)
    BY <1>2 DEF First, AfterFirst
  <2>2. /\ h \in Coros /\ Tail(q) \in Seq(Coros) /\ ToSet(q) = ToSet(Tail(q)) \cup {h}
        /\ Distinct(Tail(q)) /\ h \notin ToSet(Tail(q))
    BY <1>2, TailProperties
  <2>3. one \in Seq(Coros) /\ ToSet(one) = {h}
    BY <2>2, OneHandle
  <2> HIDE DEF h, one
  <2>4. /\ Scheduled(rest, one) \in Seq(Coros) /\ Distinct(Scheduled(rest, one))
        /\ ToSet(Scheduled(rest, one)) = ToSet(rest) \cup {h}
    BY <2>3, ScheduledProperties
  <2>5. {h} \in SUBSET ToSet(q) /\ ToSet(Tail(q)) = ToSet(q) \ {h}
    BY <2>2
  <2> {h} \in SUBSET ToSet(q)
    BY <2>5
  <2> WITNESS {h} \in SUBSET ToSet(q)
  <2> QED
    BY <1>2, <2>1, <2>2, <2>4, <2>5
<1> QED
  BY <1>1, <1>2

\* A wait that is abandoned leaves the ready queue, if it was there.
LEMMA UnwindsFacts ==
    ASSUME Known, NEW c \in Coros, NEW ws, st[c] \in {"acquire", "create"}, Unwinds(c, ws)
    PROVE  \E rest \in Seq(Coros), v \in {"run", "gone"} :
             /\ Distinct(rest) /\ ToSet(rest) = ToSet(ready) \ {c}
             /\ ready' = Scheduled(rest, ws)
             /\ st' = [st EXCEPT ![c] = v]
             /\ cancelled' = cancelled \ {c} /\ abandoned' = abandoned \ {c}
<1>1. cancelled' = cancelled \ {c} /\ abandoned' = abandoned \ {c}
  BY DEF Unwinds
<1>2. ready \in Seq(Coros) /\ Distinct(ready)
  BY DEF Known, PoolTypes, Places
<1>3. CASE /\ ready # <<>> /\ c = Head(ready)
           /\ st' = [st EXCEPT ![c] = IF c \in abandoned THEN "gone" ELSE "run"]
           /\ ready' = Scheduled(Tail(ready), ws)
  <2>1. /\ Tail(ready) \in Seq(Coros) /\ Distinct(Tail(ready))
        /\ ToSet(Tail(ready)) = ToSet(ready) \ {c}
    BY <1>2, <1>3, TailProperties
  <2>2. PICK v \in {"run", "gone"} : v = IF c \in abandoned THEN "gone" ELSE "run"
    OBVIOUS
  <2> QED
    BY <1>1, <1>3, <2>1, <2>2
<1>4. CASE /\ ~Contains(ready, c)
           /\ st' = [st EXCEPT ![c] = "gone"]
           /\ ready' = Scheduled(ready, ws)
  <2>1. c \notin ToSet(ready)
    BY <1>2, <1>4, ToSetProperties
  <2>2. ToSet(ready) = ToSet(ready) \ {c}
    BY <2>1
  <2> QED
    BY <1>1, <1>2, <1>4, <2>2
<1> QED
  BY <1>3, <1>4 DEF Unwinds

-----------------------------------------------------------------------------
(* The steps of the pool.                                                  *)

\* One pass through the loop of acquire(), by a new caller or a woken waiter: a
\* waiter that leaves the woken ones either uses up what it was woken for or finds
\* nothing.
LEMMA AcquireStep ==
    ASSUME PoolInv, max_agents \in Nat, NEW c \in Coros, NEW what \in Steps,
           st[c] \in {"run", "acquire"}, c \notin holding, c \notin ToSet(poolWaiters),
           acquire_impl(c, what),
           st' = [st EXCEPT ![c] = what],
           ready' \in Seq(Coros), Distinct(ready'), ToSet(ready') = ToSet(ready) \ {c},
           UNCHANGED <<cancelled, abandoned, max_agents, poolClosed>>
    PROVE  PoolInv'
<1>k. Known
  BY KnownFacts
<1>s. /\ st' \in [Coros -> {"run", "acquire", "create", "gone"}]
      /\ st'[c] = what /\ \A d \in Coros : d # c => st'[d] = st[d]
  BY <1>k DEF Known, PoolTypes, Steps
<1>t. /\ idle \in Nat /\ in_use \in Nat /\ holding \subseteq Coros /\ max_agents \in Nat
      /\ poolWaiters \in Seq(Coros) /\ ToSet(poolWaiters) \subseteq Coros /\ Distinct(poolWaiters)
      /\ ToSet(ready) \subseteq Coros
      /\ IsFiniteSet(holding) /\ IsFiniteSet(Making) /\ IsFiniteSet(Woken)
      /\ in_use = Cardinality(holding) + Cardinality(Making)
      /\ c \notin Making
  BY <1>k DEF Known, PoolTypes, Places, Counts, Making
<1>w. /\ IsFiniteSet(Woken \ {c}) /\ Cardinality(Woken) \in Nat /\ Cardinality(Woken \ {c}) \in Nat
      /\ Cardinality(Woken \ {c}) >= Cardinality(Woken) - 1
  BY <1>t, OneFewer
<1>h. /\ IsFiniteSet(holding \cup {c}) /\ IsFiniteSet(Making \cup {c})
      /\ Cardinality(holding \cup {c}) = Cardinality(holding) + 1
      /\ Cardinality(Making \cup {c}) = Cardinality(Making) + 1
      /\ Cardinality(holding) \in Nat /\ Cardinality(Making) \in Nat
  BY <1>t, OneMore
<1>l. PoolInv => Limit /\ Enough /\ Places /\ PoolTypes
  BY DEF PoolInv
<1>1. CASE what = "run" /\ poolClosed /\ UNCHANGED <<idle, in_use, poolWaiters, holding>>
  <2>1. Woken' = Woken \ {c} /\ Making' = Making
    BY <1>1, <1>s, <1>t DEF Woken, Making
  <2>2. PoolTypes'
    BY <1>1, <1>s, <1>l DEF PoolTypes
  <2>3. Places'
    BY <1>1, <1>s, <1>l, <1>t DEF Places
  <2>4. Counts'
    BY <1>1, <1>t, <1>w, <2>1 DEF Counts
  <2>5. Limit' /\ Enough'
    BY <1>1, <1>l DEF Limit, Enough
  <2> QED
    BY <2>2, <2>3, <2>4, <2>5 DEF PoolInv
<1>2. CASE /\ what = "run" /\ ~poolClosed /\ idle > 0
           /\ idle' = idle - 1 /\ in_use' = in_use + 1 /\ holding' = holding \cup {c}
           /\ UNCHANGED poolWaiters
  <2>1. Woken' = Woken \ {c} /\ Making' = Making
    BY <1>2, <1>s, <1>t DEF Woken, Making
  <2>2. PoolTypes'
    BY <1>2, <1>s, <1>t, <1>l DEF PoolTypes
  <2>3. Places'
    BY <1>2, <1>s, <1>l, <1>t DEF Places
  <2>4. Counts'
    BY <1>2, <1>t, <1>w, <1>h, <2>1 DEF Counts
  <2>5. Limit'
    BY <1>2, <1>t, <1>l, PoolAssumption DEF Limit
  <2>6. Enough'
    BY <1>2, <1>t, <1>w, <1>l, <2>1 DEF Enough
  <2> QED
    BY <2>2, <2>3, <2>4, <2>5, <2>6 DEF PoolInv
<1>3. CASE /\ what = "acquire" /\ ~poolClosed /\ idle = 0 /\ ~can_create
           /\ poolWaiters' = Append(poolWaiters, c)
           /\ UNCHANGED <<idle, in_use, holding>>
  <2>0. /\ poolWaiters' \in Seq(Coros) /\ ToSet(poolWaiters') = ToSet(poolWaiters) \cup {c}
        /\ Distinct(poolWaiters')
    BY <1>3, <1>t, AppendToSet
  <2>1. Woken' = Woken \ {c} /\ Making' = Making
    BY <1>3, <1>s, <1>t, <2>0 DEF Woken, Making
  <2>2. PoolTypes'
    BY <1>3, <1>s, <1>t, <1>l, <2>0 DEF PoolTypes
  <2>3. Places'
    BY <1>3, <1>s, <1>l, <1>t, <2>0 DEF Places
  <2>4. Counts'
    BY <1>3, <1>t, <1>w, <1>h, <2>1 DEF Counts
  <2>5. Limit'
    BY <1>3, <1>l DEF Limit
  <2>6. Enough'
    BY <1>3, <1>t, <1>w, <2>1 DEF Enough, can_create
  <2> QED
    BY <2>2, <2>3, <2>4, <2>5, <2>6 DEF PoolInv
<1>4. CASE /\ what = "create" /\ idle = 0 /\ can_create
           /\ in_use' = in_use + 1
           /\ UNCHANGED <<idle, poolWaiters, holding>>
  <2>1. Woken' = Woken \ {c} /\ Making' = Making \cup {c}
    BY <1>4, <1>s, <1>t DEF Woken, Making
  <2>2. PoolTypes'
    BY <1>4, <1>s, <1>t, <1>l DEF PoolTypes
  <2>3. Places'
    BY <1>4, <1>s, <1>l, <1>t DEF Places
  <2>4. Counts'
    BY <1>4, <1>t, <1>w, <1>h, <2>1 DEF Counts
  <2>5. Limit'
    BY <1>4, <1>t, <1>l, PoolAssumption DEF Limit, can_create
  <2>6. Enough'
    BY <1>4, <1>t, <1>w, <1>l, <2>1 DEF Enough
  <2> QED
    BY <2>2, <2>3, <2>4, <2>5, <2>6 DEF PoolInv
<1> QED
  BY <1>1, <1>2, <1>3, <1>4 DEF acquire_impl

\* A slot may become an idle resource.
LEMMA Exchange ==
    ASSUME NEW i \in Nat, NEW u \in Nat, NEW j \in Nat, NEW v \in Nat, NEW m \in Nat,
           j <= i + 1, v = u - 1, i + u <= m
    PROVE  j + v <= m
  OBVIOUS

\* A slot is given back, by a lease or by a resource that is not made after all,
\* and one waiter is woken for it.
LEMMA SlotFreed ==
    ASSUME PoolInv, max_agents \in Nat, NEW c \in Coros,
           c \in holding \/ st[c] = "create",
           NEW rest \in Seq(Coros), Distinct(rest), ToSet(rest) = ToSet(ready) \ {c},
           ready' = Scheduled(rest, First(poolWaiters)), poolWaiters' = AfterFirst(poolWaiters),
           in_use' = in_use - 1, holding' = holding \ {c},
           st' \in [Coros -> {"run", "acquire", "create", "gone"}],
           st'[c] \in {"run", "gone"}, \A d \in Coros : d # c => st'[d] = st[d],
           cancelled' \subseteq cancelled, cancelled \ {c} \subseteq cancelled',
           abandoned' \subseteq abandoned,
           idle' \in Nat, idle' <= idle + 1, idle' <= max_idle,
           UNCHANGED <<max_agents, poolClosed>>
    PROVE  PoolInv'
<1>k. Known
  BY KnownFacts
<1>l. Limit /\ Enough /\ Places /\ PoolTypes
  BY DEF PoolInv
<1>t. /\ idle \in Nat /\ in_use \in Nat /\ holding \subseteq Coros
      /\ poolWaiters \in Seq(Coros) /\ ToSet(poolWaiters) \subseteq Coros /\ Distinct(poolWaiters)
      /\ ToSet(ready) \subseteq Coros
      /\ cancelled \subseteq Coros /\ abandoned \subseteq Coros /\ poolClosed \in BOOLEAN
      /\ poolWaiters = <<>> <=> ToSet(poolWaiters) = {}
  BY <1>k DEF Known, PoolTypes, Places
<1>f. /\ IsFiniteSet(holding) /\ IsFiniteSet(Making) /\ IsFiniteSet(Woken)
      /\ in_use = Cardinality(holding) + Cardinality(Making)
      /\ Cardinality(holding) \in Nat /\ Cardinality(Making) \in Nat /\ Cardinality(Woken) \in Nat
  BY <1>k DEF Known, Counts
<1>n. in_use' \in Nat
  <2>1. c \in holding => Cardinality(holding) # 0
    BY <1>f, FS_EmptySet
  <2>2. st[c] = "create" => c \in Making
    BY DEF Making
  <2>3. c \in Making => Cardinality(Making) # 0
    BY <1>f, FS_EmptySet
  <2> QED
    BY <1>f, <2>1, <2>2, <2>3
<1>1. PICK H \in SUBSET ToSet(poolWaiters) :
             /\ poolWaiters' \in Seq(Coros) /\ Distinct(poolWaiters')
             /\ ToSet(poolWaiters') = ToSet(poolWaiters) \ H
             /\ ready' \in Seq(Coros) /\ Distinct(ready')
             /\ ToSet(ready') = ToSet(rest) \cup H
             /\ \/ poolWaiters = <<>> /\ H = {}
                \/ poolWaiters # <<>> /\ \E h \in Coros : H = {h}
  BY <1>t, WakeOne
<1>2. /\ \A d \in H : st[d] = "acquire" /\ d # c /\ d \in Coros
      /\ c \notin ToSet(poolWaiters)
      /\ c \notin Woken /\ Woken \cap H = {}
      /\ Woken' = Woken \cup H
  BY <1>l, <1>t, <1>1 DEF Places, Woken
<1>3. Making' = Making \ {c}
  BY DEF Making
<1>4. PoolTypes'
  BY <1>n, <1>t, <1>1 DEF PoolTypes
<1>5. Places'
  BY <1>l, <1>t, <1>1, <1>2 DEF Places
<1>6. /\ IsFiniteSet(holding') /\ IsFiniteSet(Making')
      /\ in_use' = Cardinality(holding') + Cardinality(Making')
  <2>1. CASE c \in holding
    <3>1. c \notin Making
      BY <1>l, <2>1 DEF Places, Making
    <3>2. Making' = Making
      BY <1>3, <3>1
    <3>3. IsFiniteSet(holding \ {c}) /\ Cardinality(holding \ {c}) = Cardinality(holding) - 1
      BY <1>f, <2>1, OneFewer
    <3>4. Cardinality(holding') = Cardinality(holding) - 1 /\ Cardinality(Making') = Cardinality(Making)
      BY <3>2, <3>3
    <3>5. IsFiniteSet(holding') /\ IsFiniteSet(Making')
      BY <1>f, <3>2, <3>3
    <3> QED
      BY <1>f, <3>4, <3>5
  <2>2. CASE st[c] = "create"
    <3>1. c \notin holding /\ c \in Making
      BY <1>l, <2>2 DEF Places, Making
    <3>2. holding' = holding
      BY <3>1
    <3>3. IsFiniteSet(Making \ {c}) /\ Cardinality(Making \ {c}) = Cardinality(Making) - 1
      BY <1>f, <3>1, OneFewer
    <3>4. Cardinality(holding') = Cardinality(holding) /\ Cardinality(Making') = Cardinality(Making) - 1
      BY <1>3, <3>2, <3>3
    <3>5. IsFiniteSet(holding') /\ IsFiniteSet(Making')
      BY <1>f, <1>3, <3>2, <3>3
    <3> QED
      BY <1>f, <3>4, <3>5
  <2> QED
    BY <2>1, <2>2
<1>7. /\ IsFiniteSet(Woken') /\ Cardinality(Woken') \in Nat
      /\ poolWaiters # <<>> => Cardinality(Woken') = Cardinality(Woken) + 1
  <2>1. CASE poolWaiters = <<>>
    BY <1>f, <1>1, <1>2, <2>1
  <2>2. CASE poolWaiters # <<>>
    <3>1. PICK h \in Coros : H = {h}
      BY <1>1, <2>2
    <3>2. h \notin Woken /\ Woken' = Woken \cup {h}
      BY <1>2, <3>1
    <3> QED
      BY <1>f, <3>2, OneMore
  <2> QED
    BY <2>1, <2>2
<1>8. Counts'
  BY <1>6, <1>7 DEF Counts
<1>9. Limit'
  <2>1. max_agents > 0 => idle + in_use <= max_agents
    BY <1>l DEF Limit
  <2>a. /\ idle \in Nat /\ in_use \in Nat /\ idle' \in Nat /\ max_agents \in Nat
        /\ idle' <= idle + 1 /\ in_use' = in_use - 1 /\ in_use' \in Nat
    BY <1>t, <1>n
  <2>2. max_agents > 0 => idle' + in_use' <= max_agents
    BY <2>a, <2>1, Exchange
  <2> QED
    BY <2>2 DEF Limit
<1>10. Enough'
  <2>1. poolWaiters' # <<>> => poolWaiters # <<>>
    <3>1. poolWaiters' = <<>> <=> ToSet(poolWaiters') = {}
      BY <1>1, ToSetProperties
    <3> QED
      BY <1>t, <1>1, <3>1
  <2> QED
    BY <1>t, <1>f, <1>l, <1>7, <2>1 DEF Enough
<1> QED
  BY <1>4, <1>5, <1>8, <1>9, <1>10 DEF PoolInv

\* ~pool_acquire_awaiter: a wake-up that the dropped waiter had is passed on, if
\* there is something to get.
LEMMA WaiterDropped ==
    ASSUME PoolInv, max_agents \in Nat, NEW c \in Coros, st[c] = "acquire", PoolDrop(c)
    PROVE  PoolInv'
<1>k. Known
  BY KnownFacts
<1>l. Limit /\ Enough /\ Places /\ PoolTypes
  BY DEF PoolInv
<1> DEFINE q == RemoveFirst(poolWaiters, c)
           wake == idle > 0 \/ can_create
<1>0. /\ Unwinds(c, IF wake THEN First(q) ELSE <<>>)
      /\ poolWaiters' = IF wake THEN AfterFirst(q) ELSE q
      /\ UNCHANGED <<max_agents, idle, in_use, poolClosed, holding>>
  BY DEF PoolDrop
<1>t. /\ idle \in Nat /\ in_use \in Nat /\ holding \subseteq Coros
      /\ poolWaiters \in Seq(Coros) /\ ToSet(poolWaiters) \subseteq Coros /\ Distinct(poolWaiters)
      /\ ToSet(ready) \subseteq Coros
      /\ cancelled \subseteq Coros /\ abandoned \subseteq Coros /\ poolClosed \in BOOLEAN
      /\ poolWaiters = <<>> <=> ToSet(poolWaiters) = {}
      /\ c \notin holding /\ c \notin Making
  BY <1>k DEF Known, PoolTypes, Places, Making
<1>f. /\ IsFiniteSet(holding) /\ IsFiniteSet(Making) /\ IsFiniteSet(Woken)
      /\ in_use = Cardinality(holding) + Cardinality(Making)
      /\ Cardinality(Woken) \in Nat
  BY <1>k DEF Known, Counts
<1>1. q \in Seq(Coros) /\ Distinct(q) /\ ToSet(q) = ToSet(poolWaiters) \ {c}
  BY <1>t, RemoveFirstProperties
<1>2. PICK rest \in Seq(Coros), v \in {"run", "gone"} :
             /\ Distinct(rest) /\ ToSet(rest) = ToSet(ready) \ {c}
             /\ ready' = Scheduled(rest, IF wake THEN First(q) ELSE <<>>)
             /\ st' = [st EXCEPT ![c] = v]
             /\ cancelled' = cancelled \ {c} /\ abandoned' = abandoned \ {c}
  BY <1>k, <1>0, UnwindsFacts
<1>s. /\ st' \in [Coros -> {"run", "acquire", "create", "gone"}]
      /\ st'[c] \in {"run", "gone"} /\ \A d \in Coros : d # c => st'[d] = st[d]
  BY <1>2, <1>l DEF PoolTypes
<1>m. Making' = Making
  BY <1>s, <1>t DEF Making
<1>w. /\ IsFiniteSet(Woken \ {c}) /\ Cardinality(Woken \ {c}) \in Nat
      /\ Cardinality(Woken \ {c}) >= Cardinality(Woken) - 1
  BY <1>f, OneFewer
<1>lim. Limit'
  BY <1>0, <1>l DEF Limit
<1> HIDE DEF q
<1>3. CASE wake
  <2>0. poolWaiters' = AfterFirst(q) /\ ready' = Scheduled(rest, First(q))
    BY <1>0, <1>2, <1>3
  <2> HIDE DEF wake
  <2>n. q \in Seq(Coros) /\ Distinct(q) /\ rest \in Seq(Coros) /\ Distinct(rest)
    BY <1>1, <1>2
  <2>1. PICK H \in SUBSET ToSet(q) :
             /\ poolWaiters' \in Seq(Coros) /\ Distinct(poolWaiters')
             /\ ToSet(poolWaiters') = ToSet(q) \ H
             /\ ready' \in Seq(Coros) /\ Distinct(ready')
             /\ ToSet(ready') = ToSet(rest) \cup H
             /\ \/ q = <<>> /\ H = {}
                \/ q # <<>> /\ \E h \in Coros : H = {h}
    BY <2>n, <2>0, WakeOne
  <2>2. /\ \A d \in H : st[d] = "acquire" /\ d # c /\ d \in Coros
        /\ Woken \cap H = {}
        /\ Woken' = (Woken \ {c}) \cup H
    BY <1>l, <1>t, <1>1, <1>s, <2>1 DEF Places, Woken
  <2>3. PoolTypes'
    BY <1>0, <1>t, <1>l, <1>2, <1>s, <2>1 DEF PoolTypes
  <2>4. Places'
    BY <1>0, <1>l, <1>t, <1>1, <1>2, <1>s, <2>1, <2>2 DEF Places
  <2>5. /\ IsFiniteSet(Woken')
        /\ poolWaiters' # <<>> => Cardinality(Woken') >= Cardinality(Woken) /\ poolWaiters # <<>>
    <3>1. q = <<>> <=> ToSet(q) = {}
      BY <1>1, ToSetProperties
    <3>2. poolWaiters' = <<>> <=> ToSet(poolWaiters') = {}
      BY <2>1, ToSetProperties
    <3>3. CASE q = <<>>
      BY <1>w, <2>1, <2>2, <3>1, <3>2, <3>3
    <3>4. CASE q # <<>>
      <4>1. PICK h \in Coros : H = {h}
        BY <2>1, <3>4
      <4>2. h \notin Woken \ {c} /\ Woken' = (Woken \ {c}) \cup {h} /\ poolWaiters # <<>>
        BY <1>t, <1>1, <2>2, <3>1, <3>4, <4>1
      <4>3. IsFiniteSet(Woken') /\ Cardinality(Woken') = Cardinality(Woken \ {c}) + 1
        BY <1>w, <4>2, OneMore
      <4> QED
        BY <1>f, <1>w, <4>2, <4>3
    <3> QED
      BY <3>3, <3>4
  <2>6. Counts'
    BY <1>0, <1>f, <1>m, <2>5 DEF Counts
  <2>7. Enough'
    <3>1. IsFiniteSet(Woken') => Cardinality(Woken') \in Nat
      BY FS_CardinalityType
    <3> QED
      BY <1>0, <1>t, <1>f, <1>l, <2>5, <3>1 DEF Enough
  <2> QED
    BY <1>lim, <2>3, <2>4, <2>6, <2>7 DEF PoolInv
<1>4. CASE ~wake
  <2>e. <<>> \in Seq(Coros)
    BY NoWaiters
  <2>0. poolWaiters' = q /\ ready' = rest
    <3>1. Scheduled(rest, <<>>) = rest
      BY <2>e, ScheduledProperties
    <3> QED
      BY <1>0, <1>2, <1>4, <3>1
  <2>1. Woken' = Woken \ {c}
    BY <1>1, <1>s, <2>0 DEF Woken
  <2>3. PoolTypes'
    BY <1>0, <1>1, <1>t, <1>l, <1>2, <1>s, <2>0 DEF PoolTypes
  <2>4. Places'
    BY <1>0, <1>l, <1>t, <1>1, <1>2, <1>s, <2>0 DEF Places
  <2>6. Counts'
    BY <1>0, <1>f, <1>m, <1>w, <2>1 DEF Counts
  <2>7. Enough'
    <3>1. q # <<>> => poolWaiters # <<>>
      <4>1. q = <<>> <=> ToSet(q) = {}
        BY <1>1, ToSetProperties
      <4> QED
        BY <1>t, <1>1, <4>1
    <3>2. poolWaiters # <<>> => ~poolClosed /\ max_agents > 0 /\ in_use >= max_agents
      BY <1>4, <1>t, <1>l DEF Enough, can_create
    <3> QED
      BY <1>0, <1>t, <1>w, <2>0, <2>1, <3>1, <3>2 DEF Enough
  <2> QED
    BY <1>lim, <2>3, <2>4, <2>6, <2>7 DEF PoolInv
<1> QED
  BY <1>3, <1>4

\* The other steps of the pool.
LEMMA AcquireCall ==
    ASSUME PoolInv, max_agents \in Nat, NEW c \in Coros, PoolAcquire(c)
    PROVE  PoolInv'
<1>k. Known
  BY KnownFacts
<1>1. PICK what \in Steps : acquire_impl(c, what) /\ Proceeds(c, what, <<>>)
  BY DEF PoolAcquire
<1>2. c \notin holding /\ UNCHANGED <<max_agents, poolClosed>>
  BY DEF PoolAcquire
<1>3. /\ st[c] = "run" /\ st' = [st EXCEPT ![c] = what]
      /\ ready' = Scheduled(ready, <<>>) /\ UNCHANGED <<cancelled, abandoned>>
  BY <1>1 DEF Proceeds
<1>4. ready \in Seq(Coros) /\ Distinct(ready) /\ c \notin ToSet(ready) /\ c \notin ToSet(poolWaiters)
  BY <1>k, <1>3 DEF Known, PoolTypes, Places
<1>5. ready' = ready
  BY <1>3, <1>4, NoWaiters, ScheduledProperties
<1>6. ready' \in Seq(Coros) /\ Distinct(ready') /\ ToSet(ready') = ToSet(ready) \ {c}
  BY <1>4, <1>5
<1>9. /\ st[c] \in {"run", "acquire"} /\ c \notin holding /\ c \notin ToSet(poolWaiters)
      /\ acquire_impl(c, what) /\ what \in Steps /\ st' = [st EXCEPT ![c] = what]
      /\ ready' \in Seq(Coros) /\ Distinct(ready') /\ ToSet(ready') = ToSet(ready) \ {c}
      /\ UNCHANGED <<cancelled, abandoned, max_agents, poolClosed>>
  BY <1>1, <1>2, <1>3, <1>4, <1>6
<1> QED
  BY <1>9, AcquireStep

LEMMA AcquireRetry ==
    ASSUME PoolInv, max_agents \in Nat, NEW c \in Coros, PoolRetry(c)
    PROVE  PoolInv'
<1>k. Known
  BY KnownFacts
<1>1. PICK what \in Steps : acquire_impl(c, what) /\ Resumes(c, what, <<>>)
  BY DEF PoolRetry
<1>2. st[c] = "acquire" /\ UNCHANGED <<max_agents, poolClosed>>
  BY DEF PoolRetry
<1>3. /\ ready # <<>> /\ c = Head(ready) /\ c \notin cancelled
      /\ st' = [st EXCEPT ![c] = what]
      /\ ready' = Scheduled(Tail(ready), <<>>) /\ UNCHANGED <<cancelled, abandoned>>
  BY <1>1 DEF Resumes
<1>4. /\ ready \in Seq(Coros) /\ Distinct(ready) /\ c \notin holding
  BY <1>k, <1>2 DEF Known, PoolTypes, Places
<1>5. /\ Tail(ready) \in Seq(Coros) /\ Distinct(Tail(ready)) /\ ToSet(Tail(ready)) = ToSet(ready) \ {c}
      /\ c \in ToSet(ready)
  BY <1>3, <1>4, TailProperties
<1>6. c \notin ToSet(poolWaiters)
  BY <1>k, <1>3, <1>5 DEF Known, Places
<1>7. ready' = Tail(ready)
  BY <1>3, <1>5, NoWaiters, ScheduledProperties
<1>8. ready' \in Seq(Coros) /\ Distinct(ready') /\ ToSet(ready') = ToSet(ready) \ {c}
  BY <1>5, <1>7
<1>9. /\ st[c] \in {"run", "acquire"} /\ c \notin holding /\ c \notin ToSet(poolWaiters)
      /\ acquire_impl(c, what) /\ what \in Steps /\ st' = [st EXCEPT ![c] = what]
      /\ ready' \in Seq(Coros) /\ Distinct(ready') /\ ToSet(ready') = ToSet(ready) \ {c}
      /\ UNCHANGED <<cancelled, abandoned, max_agents, poolClosed>>
  BY <1>1, <1>2, <1>3, <1>4, <1>6, <1>8
<1> QED
  BY <1>9, AcquireStep

LEMMA FactoryStep ==
    ASSUME PoolInv, max_agents \in Nat, NEW c \in Coros, FactoryEnds(c)
    PROVE  PoolInv'
<1>k. Known
  BY KnownFacts
<1>1. /\ st[c] = "create" /\ ~Contains(ready, c) /\ ready' = Append(ready, c)
      /\ UNCHANGED <<st, cancelled, abandoned, max_agents, idle, in_use, poolWaiters, poolClosed, holding>>
  BY DEF FactoryEnds, poolVars
<1>2. ready \in Seq(Coros) /\ Distinct(ready)
  BY <1>k DEF Known, PoolTypes, Places
<1>3. c \notin ToSet(ready)
  BY <1>1, <1>2, ToSetProperties
<1>4. ready' \in Seq(Coros) /\ Distinct(ready') /\ ToSet(ready') = ToSet(ready) \cup {c}
  BY <1>1, <1>2, <1>3, AppendToSet
<1>5. Making' = Making /\ Woken' = Woken
  BY <1>1 DEF Making, Woken
<1>6. PoolTypes' /\ Counts' /\ Limit' /\ Enough'
  BY <1>k, <1>1, <1>4, <1>5 DEF Known, PoolTypes, Counts, Limit, Enough
<1>7. Places'
  BY <1>k, <1>1, <1>4 DEF Known, Places
<1> QED
  BY <1>6, <1>7 DEF PoolInv

LEMMA CreatedStep ==
    ASSUME PoolInv, max_agents \in Nat, NEW c \in Coros, Created(c)
    PROVE  PoolInv'
<1>k. Known
  BY KnownFacts
<1>l. Limit /\ Enough /\ Places /\ PoolTypes /\ Counts
  BY DEF PoolInv
<1>1. st[c] = "create" /\ UNCHANGED <<max_agents, idle, poolClosed>>
  BY DEF Created
<1>2. ready \in Seq(Coros) /\ Distinct(ready) /\ c \notin holding /\ c \in Making
  BY <1>l, <1>1 DEF PoolTypes, Places, Making
<1>3. ASSUME NEW ws, Resumes(c, "run", ws)
      PROVE  /\ st' = [st EXCEPT ![c] = "run"] /\ ready' = Scheduled(Tail(ready), ws)
             /\ UNCHANGED <<cancelled, abandoned>>
             /\ Tail(ready) \in Seq(Coros) /\ Distinct(Tail(ready))
             /\ ToSet(Tail(ready)) = ToSet(ready) \ {c}
             /\ st' \in [Coros -> {"run", "acquire", "create", "gone"}]
             /\ st'[c] = "run" /\ \A d \in Coros : d # c => st'[d] = st[d]
  <2>1. /\ ready # <<>> /\ c = Head(ready)
        /\ st' = [st EXCEPT ![c] = "run"] /\ ready' = Scheduled(Tail(ready), ws)
        /\ UNCHANGED <<cancelled, abandoned>>
    BY <1>3 DEF Resumes
  <2>2. /\ Tail(ready) \in Seq(Coros) /\ Distinct(Tail(ready))
        /\ ToSet(Tail(ready)) = ToSet(ready) \ {c}
    BY <1>2, <2>1, TailProperties
  <2>3. /\ st' \in [Coros -> {"run", "acquire", "create", "gone"}]
        /\ st'[c] = "run" /\ \A d \in Coros : d # c => st'[d] = st[d]
    BY <1>l, <2>1 DEF PoolTypes
  <2> QED
    BY <2>1, <2>2, <2>3
<1>4. CASE /\ Resumes(c, "run", <<>>) /\ holding' = holding \cup {c}
           /\ UNCHANGED <<in_use, poolWaiters>>
  <2>1. /\ ready' = Scheduled(Tail(ready), <<>>) /\ UNCHANGED <<cancelled, abandoned>>
        /\ Tail(ready) \in Seq(Coros) /\ Distinct(Tail(ready))
        /\ ToSet(Tail(ready)) = ToSet(ready) \ {c}
        /\ st' \in [Coros -> {"run", "acquire", "create", "gone"}]
        /\ st'[c] = "run" /\ \A d \in Coros : d # c => st'[d] = st[d]
    BY <1>3, <1>4
  <2>2. ready' = Tail(ready)
    BY <2>1, NoWaiters, ScheduledProperties
  <2>3. Making' = Making \ {c} /\ Woken' = Woken
    BY <1>1, <1>4, <2>1 DEF Making, Woken
  <2>4. PoolTypes'
    BY <1>l, <1>1, <1>4, <2>1, <2>2 DEF PoolTypes
  <2>5. Places'
    BY <1>k, <1>l, <1>1, <1>4, <2>1, <2>2 DEF Known, Places, PoolTypes
  <2>6. Counts'
    <3>1. /\ IsFiniteSet(holding \cup {c}) /\ Cardinality(holding \cup {c}) = Cardinality(holding) + 1
          /\ Cardinality(holding) \in Nat
      BY <1>2, <1>l, OneMore DEF Counts
    <3>2. /\ IsFiniteSet(Making \ {c}) /\ Cardinality(Making \ {c}) = Cardinality(Making) - 1
          /\ Cardinality(Making) \in Nat
      BY <1>2, <1>l, OneFewer DEF Counts
    <3>3. /\ IsFiniteSet(holding') /\ IsFiniteSet(Making') /\ IsFiniteSet(Woken')
          /\ Cardinality(holding') = Cardinality(holding) + 1 /\ Cardinality(Making') = Cardinality(Making) - 1
      BY <1>l, <1>4, <2>3, <3>1, <3>2 DEF Counts
    <3> QED
      BY <1>l, <1>4, <3>1, <3>2, <3>3 DEF Counts
  <2>7. Limit' /\ Enough'
    BY <1>l, <1>1, <1>4, <2>3 DEF Limit, Enough
  <2> QED
    BY <2>4, <2>5, <2>6, <2>7 DEF PoolInv
<1>5. CASE /\ Unreserve(First(poolWaiters)) /\ Resumes(c, "run", First(poolWaiters))
           /\ UNCHANGED holding
  <2>1. /\ ready' = Scheduled(Tail(ready), First(poolWaiters)) /\ UNCHANGED <<cancelled, abandoned>>
        /\ Tail(ready) \in Seq(Coros) /\ Distinct(Tail(ready))
        /\ ToSet(Tail(ready)) = ToSet(ready) \ {c}
        /\ st' \in [Coros -> {"run", "acquire", "create", "gone"}]
        /\ st'[c] = "run" /\ \A d \in Coros : d # c => st'[d] = st[d]
    BY <1>3, <1>5
  <2>2. in_use' = in_use - 1 /\ poolWaiters' = AfterFirst(poolWaiters) /\ holding' = holding \ {c}
    BY <1>2, <1>5 DEF Unreserve
  <2>3. idle' \in Nat /\ idle' <= idle + 1 /\ idle' <= max_idle
    BY <1>l, <1>1, PoolAssumption DEF Limit, PoolTypes
  <2> QED
    BY <1>1, <2>1, <2>2, <2>3, SlotFreed
<1> QED
  BY <1>4, <1>5 DEF Created

LEMMA CreationDropped ==
    ASSUME PoolInv, max_agents \in Nat, NEW c \in Coros, st[c] = "create", PoolDrop(c)
    PROVE  PoolInv'
<1>k. Known
  BY KnownFacts
<1>l. Limit /\ Places /\ PoolTypes
  BY DEF PoolInv
<1>1. /\ Unreserve(First(poolWaiters)) /\ Unwinds(c, First(poolWaiters))
      /\ UNCHANGED <<max_agents, idle, poolClosed, holding>>
  BY DEF PoolDrop
<1>2. PICK rest \in Seq(Coros), v \in {"run", "gone"} :
             /\ Distinct(rest) /\ ToSet(rest) = ToSet(ready) \ {c}
             /\ ready' = Scheduled(rest, First(poolWaiters))
             /\ st' = [st EXCEPT ![c] = v]
             /\ cancelled' = cancelled \ {c} /\ abandoned' = abandoned \ {c}
  BY <1>k, <1>1, UnwindsFacts
<1>3. /\ st' \in [Coros -> {"run", "acquire", "create", "gone"}]
      /\ st'[c] \in {"run", "gone"} /\ \A d \in Coros : d # c => st'[d] = st[d]
  BY <1>2, <1>l DEF PoolTypes
<1>4. in_use' = in_use - 1 /\ poolWaiters' = AfterFirst(poolWaiters) /\ holding' = holding \ {c}
  BY <1>1, <1>l DEF Unreserve, Places
<1>5. idle' \in Nat /\ idle' <= idle + 1 /\ idle' <= max_idle
  BY <1>l, <1>1, PoolAssumption DEF Limit, PoolTypes
<1>6. /\ cancelled' \subseteq cancelled /\ cancelled \ {c} \subseteq cancelled'
      /\ abandoned' \subseteq abandoned
  BY <1>2
<1> QED
  BY <1>1, <1>2, <1>3, <1>4, <1>5, <1>6, SlotFreed

LEMMA ReleaseStep ==
    ASSUME PoolInv, max_agents \in Nat, NEW c \in Coros, NEW keep \in BOOLEAN, Release(c, keep)
    PROVE  PoolInv'
<1>l. Limit /\ Places /\ PoolTypes
  BY DEF PoolInv
<1>1. /\ c \in holding /\ holding' = holding \ {c}
      /\ idle' = IF keep /\ ~poolClosed /\ idle < max_idle THEN idle + 1 ELSE idle
      /\ in_use' = in_use - 1
      /\ ready' = Scheduled(ready, First(poolWaiters)) /\ poolWaiters' = AfterFirst(poolWaiters)
      /\ UNCHANGED <<st, cancelled, abandoned, max_agents, poolClosed>>
  BY DEF Release
<1>2. /\ ready \in Seq(Coros) /\ Distinct(ready) /\ st[c] = "run" /\ ToSet(ready) = ToSet(ready) \ {c}
  BY <1>l, <1>1 DEF PoolTypes, Places
<1>3. idle' \in Nat /\ idle' <= idle + 1 /\ idle' <= max_idle
  BY <1>l, <1>1, PoolAssumption DEF Limit, PoolTypes
<1>4. /\ st' \in [Coros -> {"run", "acquire", "create", "gone"}]
      /\ st'[c] \in {"run", "gone"} /\ \A d \in Coros : d # c => st'[d] = st[d]
      /\ cancelled' \subseteq cancelled /\ cancelled \ {c} \subseteq cancelled'
      /\ abandoned' \subseteq abandoned
  BY <1>l, <1>1, <1>2 DEF PoolTypes
<1> QED
  BY <1>1, <1>2, <1>3, <1>4, SlotFreed

LEMMA CloseStep ==
    ASSUME PoolInv, max_agents \in Nat, PoolClose
    PROVE  PoolInv'
<1>k. Known
  BY KnownFacts
<1>l. Limit /\ Places /\ PoolTypes /\ Counts
  BY DEF PoolInv
<1>1. /\ poolClosed' = TRUE /\ idle' = 0
      /\ ready' = Scheduled(ready, poolWaiters) /\ poolWaiters' = <<>>
      /\ UNCHANGED <<st, cancelled, abandoned, max_agents, in_use, holding>>
  BY DEF PoolClose
<1>2. poolWaiters' \in Seq(Coros) /\ Distinct(poolWaiters') /\ ToSet(poolWaiters') = {}
  BY <1>1, NoWaiters
<1>3. /\ ready' \in Seq(Coros) /\ Distinct(ready')
      /\ ToSet(ready') = ToSet(ready) \cup ToSet(poolWaiters)
  BY <1>l, <1>1, ScheduledProperties DEF PoolTypes, Places
<1>4. Making' = Making /\ Woken' = Woken \cup ToSet(poolWaiters)
  BY <1>k, <1>l, <1>1, <1>2 DEF Making, Woken, Places, Known
<1>5. IsFiniteSet(Woken')
  <2>1. IsFiniteSet(ToSet(poolWaiters)) /\ IsFiniteSet(Woken)
    BY <1>l, ToSetProperties DEF PoolTypes, Counts
  <2> QED
    BY <1>4, <2>1, FS_Union
<1>6. PoolTypes'
  BY <1>l, <1>1, <1>2, <1>3 DEF PoolTypes
<1>7. Places'
  BY <1>l, <1>1, <1>2, <1>3 DEF Places
<1>8. Counts'
  BY <1>l, <1>1, <1>4, <1>5 DEF Counts
<1>9. Limit'
  BY <1>l, <1>1, PoolAssumption DEF Limit, PoolTypes
<1>10. Enough'
  BY <1>1 DEF Enough
<1> QED
  BY <1>6, <1>7, <1>8, <1>9, <1>10 DEF PoolInv

\* A waiter is cancelled, or its Task destroyed while it is in the ready queue.
LEMMA EndStep ==
    ASSUME PoolInv, max_agents \in Nat, NEW c \in Coros, Cancel(c) \/ Abandon(c), UNCHANGED poolVars
    PROVE  PoolInv'
<1>k. Known
  BY KnownFacts
<1>l. Limit /\ Enough /\ Places /\ PoolTypes /\ Counts
  BY DEF PoolInv
<1>1. UNCHANGED <<st, max_agents, idle, in_use, poolWaiters, poolClosed, holding>>
  BY DEF poolVars, Cancel, Abandon
<1>2. Making' = Making /\ Woken' = Woken
  BY <1>1 DEF Making, Woken
<1>3. Counts' /\ Limit' /\ Enough'
  BY <1>l, <1>1, <1>2 DEF Counts, Limit, Enough
<1>4. st[c] \in {"acquire", "create"}
  BY <1>l DEF Cancel, Abandon, Waits, PoolTypes
<1>5. CASE Cancel(c)
  <2>1. /\ cancelled' = cancelled \cup {c} /\ ready' = Scheduled(ready, <<c>>) /\ UNCHANGED abandoned
    BY <1>5 DEF Cancel
  <2>2. <<c>> \in Seq(Coros) /\ ToSet(<<c>>) = {c}
    BY OneHandle
  <2> DEFINE one == <<c>>
  <2> HIDE DEF one
  <2>3. /\ ready' = Scheduled(ready, one) /\ one \in Seq(Coros) /\ ToSet(one) = {c}
    BY <2>1, <2>2 DEF one
  <2>4. ready' \in Seq(Coros) /\ Distinct(ready') /\ ToSet(ready') = ToSet(ready) \cup {c}
    BY <1>l, <2>3, ScheduledProperties DEF PoolTypes, Places
  <2>5. PoolTypes'
    BY <1>l, <1>1, <2>1, <2>4 DEF PoolTypes
  <2>6. Places'
    BY <1>l, <1>1, <1>4, <2>1, <2>4 DEF Places
  <2> QED
    BY <1>3, <2>5, <2>6 DEF PoolInv
<1>6. CASE Abandon(c)
  <2>1. abandoned' = abandoned \cup {c} /\ UNCHANGED <<ready, cancelled>>
    BY <1>6 DEF Abandon
  <2>2. PoolTypes'
    BY <1>l, <1>1, <2>1 DEF PoolTypes
  <2>3. Places'
    BY <1>l, <1>1, <2>1 DEF Places
  <2> QED
    BY <1>3, <2>2, <2>3 DEF PoolInv
<1> QED
  BY <1>5, <1>6

-----------------------------------------------------------------------------
(* The theorems.                                                           *)

\* In a program that makes calls to channels the pool is not used.
LEMMA ChannelStep ==
    ASSUME Unused, ChannelNext \/ EndNext
    PROVE  Unused'
<1>1. UNCHANGED poolVars
  BY DEF ChannelNext, EndNext
<1>2. st' = st \/ \E c \in Coros, v \in {"run", "chan", "gone"} : st' = [st EXCEPT ![c] = v]
  <2>1. ASSUME NEW c \in Coros, ChanCall(c)
        PROVE  \E v \in {"run", "chan", "gone"} : st' = [st EXCEPT ![c] = v]
    <3>1. PICK s \in calls : CallNow(c, s) \/ CallWait(c, s)
      BY <2>1 DEF ChanCall
    <3>2. CASE CallNow(c, s)
      BY <3>2 DEF CallNow, Proceeds
    <3>3. CASE CallWait(c, s)
      BY <3>3 DEF CallWait, Proceeds
    <3> QED
      BY <3>1, <3>2, <3>3
  <2>2. ASSUME NEW c \in Coros, ChanTimer(c)
        PROVE  st' = st
    BY <2>2 DEF ChanTimer
  <2>3. ASSUME NEW c \in Coros, ChanResume(c)
        PROVE  \E v \in {"run", "chan", "gone"} : st' = [st EXCEPT ![c] = v]
    BY <2>3 DEF ChanResume, Resumes
  <2>4. ASSUME NEW c \in Coros, ChanDrop(c)
        PROVE  \E v \in {"run", "chan", "gone"} : st' = [st EXCEPT ![c] = v]
    <3>1. PICK ws : Unwinds(c, ws)
      BY <2>4 DEF ChanDrop
    <3>2. st' = [st EXCEPT ![c] = IF c \in abandoned THEN "gone" ELSE "run"] \/ st' = [st EXCEPT ![c] = "gone"]
      BY <3>1 DEF Unwinds
    <3> QED
      BY <3>2
  <2>5. ASSUME NEW ch \in Chans, ChanClose(ch)
        PROVE  st' = st
    BY <2>5 DEF ChanClose
  <2>6. ASSUME NEW c \in Coros, Cancel(c) \/ Abandon(c)
        PROVE  st' = st
    BY <2>6 DEF Cancel, Abandon
  <2> QED
    BY <2>1, <2>2, <2>3, <2>4, <2>5, <2>6 DEF ChannelNext, EndNext, ChanStep
<1>3. st' \in [Coros -> {"run", "chan", "gone"}]
  BY <1>2 DEF Unused
<1> QED
  BY <1>1, <1>3 DEF Unused, poolVars

LEMMA PoolSteps ==
    ASSUME PoolInv, max_agents \in Nat, PoolNext \/ EndNext
    PROVE  PoolInv' /\ UNCHANGED <<calls, max_agents>>
<1>1. CASE PoolNext
  <2>1. ASSUME NEW c \in Coros, PoolStep(c)
        PROVE  PoolInv' /\ UNCHANGED max_agents
    <3>1. CASE PoolAcquire(c)
      BY <3>1, AcquireCall DEF PoolAcquire
    <3>2. CASE PoolRetry(c)
      BY <3>2, AcquireRetry DEF PoolRetry
    <3>3. CASE FactoryEnds(c)
      BY <3>3, FactoryStep DEF FactoryEnds, poolVars
    <3>4. CASE Created(c)
      BY <3>4, CreatedStep DEF Created
    <3>5. CASE PoolDrop(c)
      <4>1. (st[c] = "acquire" \/ st[c] = "create") /\ UNCHANGED max_agents
        BY <3>5 DEF PoolDrop
      <4> QED
        BY <3>5, <4>1, WaiterDropped, CreationDropped
    <3>6. ASSUME NEW keep \in BOOLEAN, Release(c, keep)
          PROVE  PoolInv' /\ UNCHANGED max_agents
      BY <3>6, ReleaseStep DEF Release
    <3> QED
      BY <2>1, <3>1, <3>2, <3>3, <3>4, <3>5, <3>6 DEF PoolStep
  <2>2. PoolClose => PoolInv' /\ UNCHANGED max_agents
    BY CloseStep DEF PoolClose
  <2>3. UNCHANGED calls /\ ((\E c \in Coros : PoolStep(c)) \/ PoolClose)
    BY <1>1 DEF PoolNext, chanVars
  <2> QED
    BY <2>1, <2>2, <2>3
<1>2. CASE EndNext
  <2>1. PICK c \in Coros : Cancel(c) \/ Abandon(c)
    BY <1>2 DEF EndNext
  <2>2. UNCHANGED poolVars /\ UNCHANGED <<calls, max_agents>>
    BY <1>2 DEF EndNext, chanVars, poolVars
  <2> QED
    BY <2>1, <2>2, EndStep
<1> QED
  BY <1>1, <1>2

LEMMA Invariant == Spec => []IInv
<1>1. Init => IInv
  <2> SUFFICES ASSUME Init PROVE IInv
    OBVIOUS
  <2>1. max_agents \in Nat
    BY PoolAssumption DEF Init, PoolInit
  <2>2. /\ st = [c \in Coros |-> "run"] /\ ready = <<>> /\ cancelled = {} /\ abandoned = {}
        /\ idle = 0 /\ in_use = 0 /\ poolWaiters = <<>> /\ poolClosed = FALSE /\ holding = {}
    BY DEF Init, LocalInit, PoolInit
  <2>3. Unused
    BY <2>2 DEF Unused
  <2>4. Making = {} /\ Woken = {}
    BY <2>2 DEF Making, Woken
  <2>5. <<>> \in Seq(Coros) /\ Distinct(<<>>) /\ ToSet(<<>>) = {}
    BY NoWaiters
  <2>6. PoolTypes
    BY <2>2, <2>5 DEF PoolTypes
  <2>7. Places
    BY <2>2, <2>5 DEF Places
  <2>8. Counts
    BY <2>2, <2>4, FS_EmptySet DEF Counts
  <2>9. Limit /\ Enough
    BY <2>1, <2>2, PoolAssumption DEF Limit, Enough
  <2> QED
    BY <2>1, <2>3, <2>6, <2>7, <2>8, <2>9 DEF IInv, PoolInv
<1>2. IInv /\ [Next]_vars => IInv'
  <2> SUFFICES ASSUME IInv, [Next]_vars PROVE IInv'
    OBVIOUS
  <2>1. CASE Next /\ calls = {}
    BY <2>1, PoolSteps DEF IInv, Next
  <2>2. CASE Next /\ calls # {}
    <3>1. ChannelNext \/ EndNext
      BY <2>2 DEF Next
    <3>2. UNCHANGED max_agents
      BY <3>1 DEF ChannelNext, EndNext, poolVars
    <3>3. UNCHANGED calls
      BY <3>1 DEF ChannelNext, EndNext, chanVars, ChanStep, ChanCall, ChanTimer, ChanResume, ChanDrop, ChanClose
    <3> QED
      BY <2>2, <3>1, <3>2, <3>3, ChannelStep DEF IInv
  <2>3. CASE UNCHANGED vars
    BY <2>3 DEF vars, frames, chanVars, poolVars, IInv, PoolInv, PoolTypes, Places, Counts, Limit,
                Enough, Unused, Making, Woken
  <2> QED
    BY <2>1, <2>2, <2>3
<1> QED
  BY <1>1, <1>2, PTL DEF Spec

\* in_use is the number of leases and of resources being made, and with the idle
\* ones never more than max_agents, for any number of coroutines, any limits, and
\* factories that fail, are cancelled or end after close().
THEOREM PoolNeverOversubscribed == Spec => []PoolExact
<1>1. IInv => PoolExact
  <2> SUFFICES ASSUME IInv PROVE PoolExact
    OBVIOUS
  <2>1. CASE calls = {}
    BY <2>1 DEF IInv, PoolInv, Counts, Limit, PoolExact, Making
  <2>2. CASE calls # {}
    <3>1. /\ idle = 0 /\ in_use = 0 /\ holding = {} /\ max_agents \in Nat
          /\ {c \in Coros : st[c] = "create"} = {}
      BY <2>2 DEF IInv, Unused
    <3> QED
      BY <3>1, FS_EmptySet, PoolAssumption DEF PoolExact
  <2> QED
    BY <2>1, <2>2
<1> QED
  BY <1>1, Invariant, PTL

\* Whoever waits for a resource, waits for one that is used or that a woken waiter
\* is about to take (wake_one, ~pool_acquire_awaiter, ~pool_reservation).
THEOREM NoIdleResource == Spec => []WakeUpsSuffice
<1>1. IInv => WakeUpsSuffice
  <2> SUFFICES ASSUME IInv, poolWaiters # <<>> PROVE WakeUpsSuffice
    BY DEF WakeUpsSuffice
  <2>1. calls = {}
    BY DEF IInv, Unused
  <2>2. PoolInv
    BY <2>1 DEF IInv
  <2>3. \A c : Contains(poolWaiters, c) <=> c \in ToSet(poolWaiters)
    BY <2>2, ToSetProperties DEF PoolInv, PoolTypes
  <2>4. {c \in Coros : st[c] = "acquire" /\ ~Contains(poolWaiters, c)} = Woken
    BY <2>3 DEF Woken
  <2> QED
    BY <2>2, <2>4 DEF PoolInv, Enough, WakeUpsSuffice
<1> QED
  BY <1>1, Invariant, PTL

-----------------------------------------------------------------------------
(* Channels: what the functions on channel_state do.                       *)

Node == Coros \X Nat \X Nat

ChanState ==
    [buffer : [Chans -> Seq(Nat)], senders : [Chans -> Seq(Node)],
     receivers : [Chans -> Seq(Node)], closed : SUBSET Chans,
     winner : [Coros -> Nat], hand : [Coros -> Nat], woken : Seq(Coros)]

\* The nodes that wait to send
Offers(S) == UNION {ToSet(S.senders[ch]) : ch \in Chans}

\* Nothing of c is in a list of S.
NoNodes(S, c) ==
    \A ch \in Chans : /\ \A n \in ToSet(S.senders[ch]) : n[1] # c
                      /\ \A n \in ToSet(S.receivers[ch]) : n[1] # c

\* A node stands for a branch of its coroutine's operation.
IsBranch(n, dir, ch) ==
    /\ n[2] \in 1..Len(op[n[1]].branches)
    /\ op[n[1]].branches[n[2]].dir = dir /\ op[n[1]].branches[n[2]].ch = ch

ChanTypes ==
    /\ chan \in ChanState /\ chan.woken = <<>>
    /\ op \in [Coros -> Operation] /\ sent \in Nat
    /\ calls \in Programs /\ accepted \subseteq 1..sent

\* A coroutine that is in no call has no operation.
Operations ==
    \A c \in Coros : IF st[c] = "chan" THEN op[c] \in calls
                     ELSE op[c] = NoOp /\ chan.winner[c] = 0

\* Each waiting branch is one node, with a value of its own if it sends.
Nodes ==
    /\ \A ch \in Chans : Distinct(chan.senders[ch]) /\ Distinct(chan.receivers[ch])
    /\ \A ch \in Chans : \A n \in ToSet(chan.senders[ch]) :
           IsBranch(n, "send", ch) /\ n[3] \in 1..sent /\ n[3] \notin accepted
    /\ \A ch \in Chans : \A n \in ToSet(chan.receivers[ch]) : IsBranch(n, "recv", ch) /\ n[3] = 0
    /\ \A m \in Offers(chan), n \in Offers(chan) :
           m[3] = n[3] \/ (m[1] = n[1] /\ m[2] = n[2]) => m = n

\* An operation without a select is out of the lists when it is decided, and
\* nobody is handed a value without being decided.
Decided ==
    \A c \in Coros : /\ chan.winner[c] # 0 /\ ~op[c].select => NoNodes(chan, c)
                     /\ chan.winner[c] = 0 => chan.hand[c] = 0

\* A value is in one buffer.
BuffersApart(S) ==
    /\ \A ch \in Chans : Distinct(S.buffer[ch])
    /\ \A ch \in Chans, dh \in Chans :
           ch # dh => ToSet(S.buffer[ch]) \cap ToSet(S.buffer[dh]) = {}

\* The values that were discarded or lost
Waste == excused \cup lost

ChanInv == ChanTypes /\ Operations /\ Nodes /\ Decided /\ BuffersApart(chan) /\ OnePlace

-----------------------------------------------------------------------------
(* The channels in the middle of a step.                                   *)

\* T comes from chan by serving nodes and by erasing others.
Reached(T) ==
    /\ T \in ChanState
    /\ \A ch \in Chans : /\ ToSet(T.senders[ch]) \subseteq ToSet(chan.senders[ch])
                          /\ ToSet(T.receivers[ch]) \subseteq ToSet(chan.receivers[ch])
                          /\ Distinct(T.senders[ch]) /\ Distinct(T.receivers[ch])
    /\ \A c \in Coros : chan.winner[c] # 0 =>
           T.winner[c] = chan.winner[c] /\ T.hand[c] = chan.hand[c]
    /\ \A c \in Coros : op[c] = NoOp => T.winner[c] = chan.winner[c]
    /\ \A c \in Coros : T.winner[c] # 0 /\ ~op[c].select => NoNodes(T, c)
    /\ \A c \in Coros : T.winner[c] = 0 => T.hand[c] = 0
    /\ \A n \in Offers(T) : n[3] \notin Served(T)

LEMMA OffersAre ==
    \A S, n : n \in Offers(S) <=> \E ch \in Chans : n \in ToSet(S.senders[ch])
  BY Zenon DEF Offers

LEMMA ServedAre ==
    \A T, v : v \in Served(T) <=>
        \E m \in Offers(chan) : chan.winner[m[1]] = 0 /\ T.winner[m[1]] = m[2] /\ v = m[3]
<1> TAKE T, v
<1>1. Served(T) = {n[3] : n \in {m \in Offers(chan) :
                                    chan.winner[m[1]] = 0 /\ T.winner[m[1]] = m[2]}}
  BY DEF Served, Offers
<1> QED
  BY <1>1

\* What is known of the nodes of chan
LEMMA NodeFacts ==
    ASSUME ChanInv
    PROVE  /\ \A n \in Offers(chan) : /\ n \in Node /\ n[1] \in Coros /\ n[2] \in Nat \ {0}
                                       /\ n[3] \in 1..sent /\ n[3] \notin accepted
           /\ \A ch \in Chans : \A n \in ToSet(chan.senders[ch]) :
                 n \in Offers(chan) /\ n \in Node /\ IsBranch(n, "send", ch)
           /\ \A ch \in Chans : \A n \in ToSet(chan.receivers[ch]) :
                 n \in Node /\ n[1] \in Coros /\ n[2] \in Nat \ {0} /\ IsBranch(n, "recv", ch)
<1>1. ASSUME NEW ch \in Chans
      PROVE  ToSet(chan.senders[ch]) \subseteq Node /\ ToSet(chan.receivers[ch]) \subseteq Node
  <2>1. chan.senders[ch] \in Seq(Node) /\ chan.receivers[ch] \in Seq(Node)
    BY DEF ChanInv, ChanTypes, ChanState
  <2> QED
    BY <2>1, ToSetProperties
<1>2. \A n \in Node : n[1] \in Coros /\ n[2] \in Nat /\ n[3] \in Nat
  BY DEF Node
<1>3. ASSUME NEW ch \in Chans, NEW n \in ToSet(chan.senders[ch])
      PROVE  /\ n \in Node /\ n[1] \in Coros /\ n[2] \in Nat \ {0} /\ IsBranch(n, "send", ch)
             /\ n[3] \in 1..sent /\ n[3] \notin accepted
  <2>1. IsBranch(n, "send", ch) /\ n[3] \in 1..sent /\ n[3] \notin accepted
    BY DEF ChanInv, Nodes
  <2>2. n \in Node /\ n[1] \in Coros /\ n[2] \in Nat
    BY <1>1, <1>2
  <2>3. n[2] # 0
    BY <2>1 DEF IsBranch
  <2> QED
    BY <2>1, <2>2, <2>3
<1>4. ASSUME NEW ch \in Chans, NEW n \in ToSet(chan.receivers[ch])
      PROVE  n \in Node /\ n[1] \in Coros /\ n[2] \in Nat \ {0} /\ IsBranch(n, "recv", ch)
  <2>1. IsBranch(n, "recv", ch)
    BY DEF ChanInv, Nodes
  <2>2. n \in Node /\ n[1] \in Coros /\ n[2] \in Nat
    BY <1>1, <1>2
  <2>3. n[2] # 0
    BY <2>1 DEF IsBranch
  <2> QED
    BY <2>1, <2>2, <2>3
<1> QED
  BY <1>3, <1>4, OffersAre

\* Nothing has been served yet.
LEMMA StartReached ==
    ASSUME ChanInv
    PROVE  Reached(chan) /\ Served(chan) = {}
<1>1. Served(chan) = {}
  BY ServedAre, NodeFacts
<1>2. /\ chan \in ChanState
      /\ \A ch \in Chans : Distinct(chan.senders[ch]) /\ Distinct(chan.receivers[ch])
      /\ \A c \in Coros : chan.winner[c] # 0 /\ ~op[c].select => NoNodes(chan, c)
      /\ \A c \in Coros : chan.winner[c] = 0 => chan.hand[c] = 0
  BY DEF ChanInv, ChanTypes, Nodes, Decided
<1> QED
  BY <1>1, <1>2 DEF Reached

\* Nodes are erased, or nothing but buffers and marks changes.
LEMMA FewerNodes ==
    ASSUME NEW T, NEW U \in ChanState, Reached(T), U.winner = T.winner, U.hand = T.hand,
           \A ch \in Chans : /\ ToSet(U.senders[ch]) \subseteq ToSet(T.senders[ch])
                             /\ ToSet(U.receivers[ch]) \subseteq ToSet(T.receivers[ch])
                             /\ Distinct(U.senders[ch]) /\ Distinct(U.receivers[ch])
    PROVE  Reached(U) /\ Served(U) = Served(T)
<1>1. Served(U) = Served(T)
  BY DEF Served
<1>2. \A n \in Offers(U) : n \in Offers(T)
  BY OffersAre
<1>3. \A c \in Coros : NoNodes(T, c) => NoNodes(U, c)
  BY DEF NoNodes
<1>4. \A n \in Offers(U) : n[3] \notin Served(U)
  BY <1>1, <1>2 DEF Reached
<1>5. \A ch \in Chans : /\ ToSet(U.senders[ch]) \subseteq ToSet(chan.senders[ch])
                        /\ ToSet(U.receivers[ch]) \subseteq ToSet(chan.receivers[ch])
                        /\ Distinct(U.senders[ch]) /\ Distinct(U.receivers[ch])
  BY DEF Reached
<1>6. /\ \A c \in Coros : chan.winner[c] # 0 =>
             U.winner[c] = chan.winner[c] /\ U.hand[c] = chan.hand[c]
      /\ \A c \in Coros : op[c] = NoOp => U.winner[c] = chan.winner[c]
      /\ \A c \in Coros : U.winner[c] # 0 /\ ~op[c].select => NoNodes(U, c)
      /\ \A c \in Coros : U.winner[c] = 0 => U.hand[c] = 0
  BY <1>3 DEF Reached
<1> QED
  BY <1>1, <1>4, <1>5, <1>6 DEF Reached

\* An operation without a select has one branch.
LEMMA OneBranch ==
    ASSUME ChanInv, NEW c \in Coros, ~op[c].select, NEW i \in 1..Len(op[c].branches)
    PROVE  i = 1
<1>1. Len(op[c].branches) # 0
  BY SMT
<1>2. NoOp.branches = <<>> /\ Len(<<>>) = 0
  BY DEF NoOp
<1>3. op[c] \in calls /\ calls \in Programs
  BY <1>1, <1>2 DEF ChanInv, Operations, ChanTypes
<1>4. Len(op[c].branches) = 1
  BY <1>3, ChannelAssumption
<1> QED
  BY <1>4

\* A node belongs to a call that is under way.
LEMMA BranchOfCall ==
    ASSUME NEW n, NEW dir, NEW ch, IsBranch(n, dir, ch)
    PROVE  op[n[1]] # NoOp
<1>1. NoOp.branches = <<>> /\ Len(<<>>) = 0
  BY DEF NoOp
<1>2. n[2] \in 1..Len(op[n[1]].branches)
  BY DEF IsBranch
<1> QED
  BY <1>1, <1>2

\* The nodes that are left of an operation without a select when n is served
LEMMA OnlyNode ==
    ASSUME ChanInv, NEW n, NEW ch \in Chans, ~op[n[1]].select,
           n \in ToSet(chan.senders[ch]) \/ n \in ToSet(chan.receivers[ch]),
           NEW m, NEW dh \in Chans, m[1] = n[1],
           m \in ToSet(chan.senders[dh]) \/ m \in ToSet(chan.receivers[dh])
    PROVE  m = n /\ dh = ch
<1>1. n[1] \in Coros /\ n \in Node /\ m \in Node
  BY NodeFacts
<1>2. IsBranch(n, "send", ch) \/ IsBranch(n, "recv", ch)
  BY NodeFacts
<1>3. IsBranch(m, "send", dh) \/ IsBranch(m, "recv", dh)
  BY NodeFacts
<1>4. n[2] \in 1..Len(op[n[1]].branches) /\ m[2] \in 1..Len(op[n[1]].branches)
  BY <1>2, <1>3 DEF IsBranch
<1>5. n[2] = 1 /\ m[2] = 1
  BY <1>1, <1>4, OneBranch
<1>6. dh = ch
  BY <1>2, <1>3, <1>5 DEF IsBranch
<1>7. CASE n \in ToSet(chan.senders[ch])
  <2>1. IsBranch(n, "send", ch)
    BY <1>7, NodeFacts
  <2>2. ~IsBranch(m, "recv", dh)
    BY <2>1, <1>5 DEF IsBranch
  <2>3. m \in ToSet(chan.senders[dh])
    BY <2>2, NodeFacts
  <2>4. m \in Offers(chan) /\ n \in Offers(chan)
    BY <1>7, <2>3, OffersAre
  <2> QED
    BY <1>5, <1>6, <2>4 DEF ChanInv, Nodes
<1>8. CASE n \in ToSet(chan.receivers[ch]) /\ n \notin ToSet(chan.senders[ch])
  <2>1. IsBranch(n, "recv", ch)
    BY <1>8, NodeFacts
  <2>2. ~IsBranch(m, "send", dh)
    BY <2>1, <1>5 DEF IsBranch
  <2>3. m \in ToSet(chan.receivers[dh])
    BY <2>2, NodeFacts
  <2>4. m[3] = 0 /\ n[3] = 0
    BY <1>8, <2>3 DEF ChanInv, Nodes
  <2>5. m = <<m[1], m[2], m[3]>> /\ n = <<n[1], n[2], n[3]>>
    BY <1>1 DEF Node
  <2> QED
    BY <1>5, <1>6, <2>4, <2>5
<1> QED
  BY <1>7, <1>8

\* From T to U the node n at the head of the sender list of ch is served.
SenderStep(T, U, ch, n) ==
    /\ Pending(T, ch) /\ n = Head(T.senders[ch])
    /\ U.senders = [T.senders EXCEPT ![ch] = Tail(T.senders[ch])]
    /\ U.receivers = T.receivers /\ U.hand = T.hand
    /\ U.winner = [T.winner EXCEPT ![n[1]] = n[2]]

LEMMA SenderServed ==
    ASSUME ChanInv, NEW T, NEW U \in ChanState, NEW ch \in Chans, Reached(T),
           NEW n, SenderStep(T, U, ch, n)
    PROVE  /\ Reached(U) /\ Served(U) = Served(T) \cup {n[3]}
           /\ n[3] \in 1..sent /\ n[3] \notin accepted /\ n[3] \notin Served(T)
<1>0. /\ T \in ChanState /\ T.senders[ch] \in Seq(Node) /\ T.senders[ch] # <<>>
      /\ T.winner[n[1]] = 0 /\ n = Head(T.senders[ch])
      /\ U.receivers = T.receivers /\ U.hand = T.hand
  BY DEF Reached, ChanState, Pending, gate_open, SenderStep
<1>1. Distinct(T.senders[ch])
  BY DEF Reached
<1>2. /\ n \in ToSet(T.senders[ch]) /\ Distinct(Tail(T.senders[ch]))
      /\ n \notin ToSet(Tail(T.senders[ch]))
      /\ ToSet(Tail(T.senders[ch])) \subseteq ToSet(T.senders[ch])
  BY <1>0, <1>1, TailProperties
<1>3. U.senders[ch] = Tail(T.senders[ch]) /\ \A dh \in Chans : dh # ch => U.senders[dh] = T.senders[dh]
  BY <1>0 DEF ChanState, SenderStep
<1>4. /\ n \in Offers(T) /\ n \in ToSet(chan.senders[ch]) /\ n \in Offers(chan)
      /\ n[1] \in Coros /\ n[2] # 0 /\ IsBranch(n, "send", ch)
      /\ n[3] \in 1..sent /\ n[3] \notin accepted
  <2>1. n \in Offers(T) /\ n \in ToSet(chan.senders[ch]) /\ n \in Offers(chan)
    BY <1>2, OffersAre DEF Reached
  <2> QED
    BY <2>1, NodeFacts
<1>5. chan.winner[n[1]] = 0
  BY <1>0, <1>4 DEF Reached
<1>6. n[3] \notin Served(T)
  BY <1>4 DEF Reached
<1>7. U.winner[n[1]] = n[2] /\ \A c \in Coros : c # n[1] => U.winner[c] = T.winner[c]
  BY <1>0, <1>4 DEF ChanState, SenderStep
<1>8. \A v : v \in Served(U) <=> v \in Served(T) \/ v = n[3]
  <2>1. ASSUME NEW m \in Offers(chan), chan.winner[m[1]] = 0, U.winner[m[1]] = m[2]
        PROVE  m[3] \in Served(T) \/ m[3] = n[3]
    <3>1. CASE m[1] = n[1]
      BY <1>4, <1>7, <2>1, <3>1 DEF ChanInv, Nodes
    <3>2. CASE m[1] # n[1]
      <4>1. T.winner[m[1]] = m[2]
        BY <1>7, <2>1, <3>2, NodeFacts
      <4> QED
        BY <2>1, <4>1, ServedAre
    <3> QED
      BY <3>1, <3>2
  <2>2. ASSUME NEW m \in Offers(chan), chan.winner[m[1]] = 0, T.winner[m[1]] = m[2]
        PROVE  m[3] \in Served(U)
    <3>1. m[1] # n[1] /\ m[1] \in Coros
      BY <1>0, <2>2, NodeFacts
    <3>2. U.winner[m[1]] = m[2]
      BY <1>7, <2>2, <3>1
    <3> QED
      BY <2>2, <3>2, ServedAre
  <2>3. n[3] \in Served(U)
    BY <1>4, <1>5, <1>7, ServedAre
  <2> TAKE v
  <2>4. ASSUME v \in Served(U) PROVE v \in Served(T) \/ v = n[3]
    <3>1. PICK m \in Offers(chan) : chan.winner[m[1]] = 0 /\ U.winner[m[1]] = m[2] /\ v = m[3]
      BY <2>4, ServedAre
    <3> QED
      BY <2>1, <3>1
  <2>5. ASSUME v \in Served(T) PROVE v \in Served(U)
    <3>1. PICK m \in Offers(chan) : chan.winner[m[1]] = 0 /\ T.winner[m[1]] = m[2] /\ v = m[3]
      BY <2>5, ServedAre
    <3> QED
      BY <2>2, <3>1
  <2> QED
    BY <2>3, <2>4, <2>5
<1>9. \A dh \in Chans : \A m \in ToSet(U.senders[dh]) :
          m \in ToSet(T.senders[dh]) /\ m \in ToSet(chan.senders[dh]) /\ m # n
  <2> TAKE dh \in Chans
  <2> TAKE m \in ToSet(U.senders[dh])
  <2>1. m \in ToSet(T.senders[dh])
    BY <1>2, <1>3
  <2>2. m \in ToSet(chan.senders[dh])
    BY <2>1 DEF Reached
  <2>3. CASE dh = ch
    BY <1>2, <1>3, <2>1, <2>2, <2>3
  <2>4. CASE dh # ch
    <3>1. IsBranch(m, "send", dh)
      BY <2>2, NodeFacts
    <3>2. m # n
      BY <1>4, <2>4, <3>1 DEF IsBranch
    <3> QED
      BY <2>1, <2>2, <3>2
  <2> QED
    BY <2>3, <2>4
<1>10. \A m \in Offers(U) : m[3] \notin Served(U)
  <2> TAKE m \in Offers(U)
  <2>1. m \in Offers(T) /\ m \in Offers(chan) /\ m # n
    BY <1>9, OffersAre
  <2>2. m[3] \notin Served(T)
    BY <2>1 DEF Reached
  <2>3. m[3] # n[3]
    BY <1>4, <2>1 DEF ChanInv, Nodes
  <2> QED
    BY <1>8, <2>2, <2>3
<1>11. \A dh \in Chans : /\ ToSet(U.senders[dh]) \subseteq ToSet(chan.senders[dh])
                        /\ ToSet(U.receivers[dh]) \subseteq ToSet(chan.receivers[dh])
                        /\ Distinct(U.senders[dh]) /\ Distinct(U.receivers[dh])
  <2> TAKE dh \in Chans
  <2>1. ToSet(U.senders[dh]) \subseteq ToSet(chan.senders[dh])
    BY <1>9
  <2>2. Distinct(U.senders[dh])
    <3>1. CASE dh = ch
      BY <1>2, <1>3, <3>1
    <3>2. CASE dh # ch
      BY <1>3, <3>2 DEF Reached
    <3> QED
      BY <3>1, <3>2
  <2>3. ToSet(U.receivers[dh]) \subseteq ToSet(chan.receivers[dh]) /\ Distinct(U.receivers[dh])
    BY <1>0 DEF Reached
  <2> QED
    BY <2>1, <2>2, <2>3
<1>12. \A c \in Coros : chan.winner[c] # 0 =>
           U.winner[c] = chan.winner[c] /\ U.hand[c] = chan.hand[c]
  BY <1>0, <1>5, <1>7 DEF Reached
<1>n. \A c \in Coros : op[c] = NoOp => U.winner[c] = chan.winner[c]
  <2>1. op[n[1]] # NoOp
    BY <1>4, BranchOfCall
  <2> QED
    BY <1>7, <2>1 DEF Reached
<1>13. ASSUME NEW c \in Coros, U.winner[c] # 0, ~op[c].select PROVE NoNodes(U, c)
  <2>1. CASE c # n[1]
    <3>1. NoNodes(T, c)
      BY <1>7, <1>13, <2>1 DEF Reached
    <3> QED
      BY <1>0, <1>9, <3>1 DEF NoNodes
  <2>2. CASE c = n[1]
    <3>1. ASSUME NEW dh \in Chans, NEW m \in ToSet(U.senders[dh]) PROVE m[1] # c
      <4>1. m \in ToSet(chan.senders[dh]) /\ m # n /\ ~op[n[1]].select
        BY <1>9, <1>13, <2>2
      <4>2. m[1] = n[1] => m = n
        BY <1>4, <4>1, OnlyNode
      <4> QED
        BY <2>2, <4>1, <4>2
    <3>2. ASSUME NEW dh \in Chans, NEW m \in ToSet(U.receivers[dh]) PROVE m[1] # c
      <4>1. m \in ToSet(chan.receivers[dh])
        BY <1>11
      <4>2. SUFFICES ASSUME m[1] = c PROVE FALSE
        OBVIOUS
      <4>5. ~op[n[1]].select /\ m[1] = n[1]
        BY <1>13, <2>2, <4>2
      <4>3. m = n /\ dh = ch
        BY <1>4, <4>1, <4>5, OnlyNode
      <4>4. IsBranch(m, "recv", dh)
        BY <4>1, NodeFacts
      <4> QED
        BY <1>4, <4>3, <4>4 DEF IsBranch
    <3> QED
      BY <3>1, <3>2 DEF NoNodes
  <2> QED
    BY <2>1, <2>2
<1>14. \A c \in Coros : U.winner[c] = 0 => U.hand[c] = 0
  BY <1>0, <1>4, <1>7 DEF Reached
<1>15. Served(U) = Served(T) \cup {n[3]}
  BY <1>8
<1> QED
  BY <1>4, <1>6, <1>10, <1>11, <1>12, <1>n, <1>13, <1>14, <1>15 DEF Reached

\* From T to U the node n in the receiver list of ch is handed v.
ReceiverStep(T, U, ch, n, v) ==
    /\ \E i \in 1..Len(T.receivers[ch]) :
          n = T.receivers[ch][i] /\ U.receivers = [T.receivers EXCEPT ![ch] = RemoveAt(@, i)]
    /\ T.winner[n[1]] = 0
    /\ U.senders = T.senders
    /\ U.winner = [T.winner EXCEPT ![n[1]] = n[2]] /\ U.hand = [T.hand EXCEPT ![n[1]] = v]

LEMMA ReceiverServed ==
    ASSUME ChanInv, NEW T, NEW U \in ChanState, NEW ch \in Chans, Reached(T),
           NEW n, NEW v \in Nat, ReceiverStep(T, U, ch, n, v)
    PROVE  /\ Reached(U) /\ Served(U) = Served(T)
           /\ n[1] \in Coros /\ chan.winner[n[1]] = 0 /\ T.winner[n[1]] = 0
<1>0. /\ T \in ChanState /\ T.receivers[ch] \in Seq(Node)
      /\ T.winner[n[1]] = 0 /\ U.senders = T.senders /\ Distinct(T.receivers[ch])
  BY DEF Reached, ChanState, ReceiverStep
<1>1. PICK i \in 1..Len(T.receivers[ch]) :
         n = T.receivers[ch][i] /\ U.receivers = [T.receivers EXCEPT ![ch] = RemoveAt(@, i)]
  BY DEF ReceiverStep
<1>2. /\ n \in ToSet(T.receivers[ch]) /\ Distinct(RemoveAt(T.receivers[ch], i))
      /\ ToSet(RemoveAt(T.receivers[ch], i)) = ToSet(T.receivers[ch]) \ {n}
  BY <1>0, <1>1, RemoveAtToSet, InToSet
<1>3. /\ U.receivers[ch] = RemoveAt(T.receivers[ch], i)
      /\ \A dh \in Chans : dh # ch => U.receivers[dh] = T.receivers[dh]
  BY <1>0, <1>1 DEF ChanState
<1>4. /\ n \in ToSet(chan.receivers[ch]) /\ n[1] \in Coros /\ n[2] # 0
      /\ IsBranch(n, "recv", ch)
  <2>1. n \in ToSet(chan.receivers[ch])
    BY <1>2 DEF Reached
  <2> QED
    BY <2>1, NodeFacts
<1>5. chan.winner[n[1]] = 0
  BY <1>0, <1>4 DEF Reached
<1>7. /\ U.winner[n[1]] = n[2]
      /\ \A c \in Coros : c # n[1] => U.winner[c] = T.winner[c] /\ U.hand[c] = T.hand[c]
  BY <1>0, <1>4 DEF ChanState, ReceiverStep
<1>8. \A w : w \in Served(U) <=> w \in Served(T)
  <2>1. ASSUME NEW m \in Offers(chan), U.winner[m[1]] = m[2]
        PROVE  m[1] # n[1] /\ m[1] \in Coros
    <3>1. PICK dh \in Chans : m \in ToSet(chan.senders[dh])
      BY <2>1, OffersAre
    <3>2. IsBranch(m, "send", dh) /\ m[1] \in Coros
      BY <3>1, NodeFacts
    <3>3. ~(m[1] = n[1] /\ m[2] = n[2])
      BY <1>4, <3>2 DEF IsBranch
    <3> QED
      BY <1>7, <2>1, <3>2, <3>3
  <2>2. ASSUME NEW m \in Offers(chan), T.winner[m[1]] = m[2]
        PROVE  m[1] # n[1] /\ m[1] \in Coros
    BY <1>0, <2>2, NodeFacts
  <2>3. \A m \in Offers(chan) : U.winner[m[1]] = m[2] <=> T.winner[m[1]] = m[2]
    BY <1>7, <2>1, <2>2
  <2> TAKE w
  <2>4. ASSUME w \in Served(U) PROVE w \in Served(T)
    <3>1. PICK m \in Offers(chan) : chan.winner[m[1]] = 0 /\ U.winner[m[1]] = m[2] /\ w = m[3]
      BY <2>4, ServedAre
    <3> QED
      BY <2>3, <3>1, ServedAre
  <2>5. ASSUME w \in Served(T) PROVE w \in Served(U)
    <3>1. PICK m \in Offers(chan) : chan.winner[m[1]] = 0 /\ T.winner[m[1]] = m[2] /\ w = m[3]
      BY <2>5, ServedAre
    <3> QED
      BY <2>3, <3>1, ServedAre
  <2> QED
    BY <2>4, <2>5
<1>9. \A dh \in Chans : \A m \in ToSet(U.receivers[dh]) :
          m \in ToSet(T.receivers[dh]) /\ m \in ToSet(chan.receivers[dh]) /\ m # n
  <2> TAKE dh \in Chans
  <2> TAKE m \in ToSet(U.receivers[dh])
  <2>1. m \in ToSet(T.receivers[dh])
    BY <1>2, <1>3
  <2>2. m \in ToSet(chan.receivers[dh])
    BY <2>1 DEF Reached
  <2>3. CASE dh = ch
    BY <1>2, <1>3, <2>1, <2>2, <2>3
  <2>4. CASE dh # ch
    <3>1. IsBranch(m, "recv", dh)
      BY <2>2, NodeFacts
    <3>2. m # n
      BY <1>4, <2>4, <3>1 DEF IsBranch
    <3> QED
      BY <2>1, <2>2, <3>2
  <2> QED
    BY <2>3, <2>4
<1>10. \A m \in Offers(U) : m[3] \notin Served(U)
  <2> TAKE m \in Offers(U)
  <2>1. m \in Offers(T)
    BY <1>0, OffersAre
  <2> QED
    BY <1>8, <2>1 DEF Reached
<1>11. \A dh \in Chans : /\ ToSet(U.senders[dh]) \subseteq ToSet(chan.senders[dh])
                        /\ ToSet(U.receivers[dh]) \subseteq ToSet(chan.receivers[dh])
                        /\ Distinct(U.senders[dh]) /\ Distinct(U.receivers[dh])
  <2> TAKE dh \in Chans
  <2>1. ToSet(U.receivers[dh]) \subseteq ToSet(chan.receivers[dh])
    BY <1>9
  <2>2. Distinct(U.receivers[dh])
    <3>1. CASE dh = ch
      BY <1>2, <1>3, <3>1
    <3>2. CASE dh # ch
      BY <1>3, <3>2 DEF Reached
    <3> QED
      BY <3>1, <3>2
  <2>3. ToSet(U.senders[dh]) \subseteq ToSet(chan.senders[dh]) /\ Distinct(U.senders[dh])
    BY <1>0 DEF Reached
  <2> QED
    BY <2>1, <2>2, <2>3
<1>12. \A c \in Coros : chan.winner[c] # 0 =>
           U.winner[c] = chan.winner[c] /\ U.hand[c] = chan.hand[c]
  BY <1>5, <1>7 DEF Reached
<1>n. \A c \in Coros : op[c] = NoOp => U.winner[c] = chan.winner[c]
  <2>1. op[n[1]] # NoOp
    BY <1>4, BranchOfCall
  <2> QED
    BY <1>7, <2>1 DEF Reached
<1>13. ASSUME NEW c \in Coros, U.winner[c] # 0, ~op[c].select PROVE NoNodes(U, c)
  <2>1. CASE c # n[1]
    <3>1. NoNodes(T, c)
      BY <1>7, <1>13, <2>1 DEF Reached
    <3> QED
      BY <1>0, <1>9, <3>1 DEF NoNodes
  <2>2. CASE c = n[1]
    <3>1. ASSUME NEW dh \in Chans, NEW m \in ToSet(U.receivers[dh]) PROVE m[1] # c
      <4>1. m \in ToSet(chan.receivers[dh]) /\ m # n /\ ~op[n[1]].select
        BY <1>9, <1>13, <2>2
      <4>2. m[1] = n[1] => m = n
        BY <1>4, <4>1, OnlyNode
      <4> QED
        BY <2>2, <4>1, <4>2
    <3>2. ASSUME NEW dh \in Chans, NEW m \in ToSet(U.senders[dh]) PROVE m[1] # c
      <4>1. m \in ToSet(chan.senders[dh])
        BY <1>11
      <4>2. SUFFICES ASSUME m[1] = c PROVE FALSE
        OBVIOUS
      <4>5. ~op[n[1]].select /\ m[1] = n[1]
        BY <1>13, <2>2, <4>2
      <4>3. m = n /\ dh = ch
        BY <1>4, <4>1, <4>5, OnlyNode
      <4>4. IsBranch(m, "send", dh)
        BY <4>1, NodeFacts
      <4> QED
        BY <1>4, <4>3, <4>4 DEF IsBranch
    <3> QED
      BY <3>1, <3>2 DEF NoNodes
  <2> QED
    BY <2>1, <2>2
<1>14. \A c \in Coros : U.winner[c] = 0 => U.hand[c] = 0
  BY <1>4, <1>7 DEF Reached
<1>15. Served(U) = Served(T)
  BY <1>8
<1> QED
  BY <1>0, <1>4, <1>5, <1>10, <1>11, <1>12, <1>n, <1>13, <1>14, <1>15 DEF Reached

-----------------------------------------------------------------------------
(* Buffers.                                                                *)

\* The values in the buffers
Contents(S) == UNION {ToSet(S.buffer[ch]) : ch \in Chans}

LEMMA ContentsAre ==
    \A S, v : v \in Contents(S) <=> \E ch \in Chans : v \in ToSet(S.buffer[ch])
  BY Zenon DEF Contents

\* Only the buffer of ch changes, and keeps its values apart.
OneBuffer(T, U, ch) ==
    /\ \A dh \in Chans : dh # ch => U.buffer[dh] = T.buffer[dh]
    /\ Distinct(U.buffer[ch])

\* A value that is in no buffer enters one.
LEMMA ValueEnters ==
    ASSUME NEW T, NEW U, NEW ch \in Chans, NEW v, BuffersApart(T), v \notin Contents(T),
           OneBuffer(T, U, ch), ToSet(U.buffer[ch]) = ToSet(T.buffer[ch]) \cup {v}
    PROVE  BuffersApart(U) /\ Contents(U) = Contents(T) \cup {v}
<1>1. \A dh \in Chans : v \notin ToSet(T.buffer[dh])
  BY ContentsAre
<1>2. \A dh \in Chans : dh # ch => U.buffer[dh] = T.buffer[dh]
  BY DEF OneBuffer
<1>3. \A dh \in Chans : Distinct(U.buffer[dh])
  BY <1>2 DEF OneBuffer, BuffersApart
<1>4. ASSUME NEW dh \in Chans, NEW eh \in Chans, dh # eh
      PROVE  ToSet(U.buffer[dh]) \cap ToSet(U.buffer[eh]) = {}
  <2>1. ToSet(T.buffer[dh]) \cap ToSet(T.buffer[eh]) = {}
    BY <1>4 DEF BuffersApart
  <2>2. CASE dh = ch
    BY <1>1, <1>2, <1>4, <2>1, <2>2
  <2>3. CASE eh = ch
    BY <1>1, <1>2, <1>4, <2>1, <2>3
  <2>4. CASE dh # ch /\ eh # ch
    BY <1>2, <2>1, <2>4
  <2> QED
    BY <2>2, <2>3, <2>4
<1>5. \A w : w \in Contents(U) <=> w \in Contents(T) \/ w = v
  <2> TAKE w
  <2>1. w \in Contents(U) <=> \E dh \in Chans : w \in ToSet(U.buffer[dh])
    BY ContentsAre
  <2>2. w \in Contents(T) <=> \E dh \in Chans : w \in ToSet(T.buffer[dh])
    BY ContentsAre
  <2>3. \A dh \in Chans : w \in ToSet(U.buffer[dh]) <=> w \in ToSet(T.buffer[dh]) \/ (dh = ch /\ w = v)
    BY <1>2
  <2> QED
    BY <2>1, <2>2, <2>3
<1> QED
  BY <1>3, <1>4, <1>5 DEF BuffersApart

\* A value leaves its buffer.
LEMMA ValueLeaves ==
    ASSUME NEW T, NEW U, NEW ch \in Chans, NEW v, BuffersApart(T), v \in ToSet(T.buffer[ch]),
           OneBuffer(T, U, ch), ToSet(U.buffer[ch]) = ToSet(T.buffer[ch]) \ {v}
    PROVE  BuffersApart(U) /\ Contents(U) = Contents(T) \ {v} /\ v \in Contents(T)
<1>1. \A dh \in Chans : dh # ch => v \notin ToSet(T.buffer[dh])
  BY DEF BuffersApart
<1>2. \A dh \in Chans : dh # ch => U.buffer[dh] = T.buffer[dh]
  BY DEF OneBuffer
<1>3. \A dh \in Chans : Distinct(U.buffer[dh])
  BY <1>2 DEF OneBuffer, BuffersApart
<1>4. ASSUME NEW dh \in Chans, NEW eh \in Chans, dh # eh
      PROVE  ToSet(U.buffer[dh]) \cap ToSet(U.buffer[eh]) = {}
  <2>1. ToSet(T.buffer[dh]) \cap ToSet(T.buffer[eh]) = {}
    BY <1>4 DEF BuffersApart
  <2>2. ToSet(U.buffer[dh]) \subseteq ToSet(T.buffer[dh])
    BY <1>2
  <2>3. ToSet(U.buffer[eh]) \subseteq ToSet(T.buffer[eh])
    BY <1>2
  <2> QED
    BY <2>1, <2>2, <2>3
<1>5. \A w : w \in Contents(U) <=> w \in Contents(T) /\ w # v
  <2> TAKE w
  <2>1. w \in Contents(U) <=> \E dh \in Chans : w \in ToSet(U.buffer[dh])
    BY ContentsAre
  <2>2. w \in Contents(T) <=> \E dh \in Chans : w \in ToSet(T.buffer[dh])
    BY ContentsAre
  <2>3. \A dh \in Chans : w \in ToSet(U.buffer[dh]) <=> w \in ToSet(T.buffer[dh]) /\ w # v
    BY <1>1, <1>2
  <2> QED
    BY <2>1, <2>2, <2>3
<1>6. v \in Contents(T)
  BY ContentsAre
<1> QED
  BY <1>3, <1>4, <1>5, <1>6 DEF BuffersApart

\* The buffers stay as they are.
LEMMA SameBuffers ==
    ASSUME NEW T, NEW U, U.buffer = T.buffer
    PROVE  Contents(U) = Contents(T) /\ (BuffersApart(T) => BuffersApart(U))
  BY DEF Contents, BuffersApart

-----------------------------------------------------------------------------
(* The functions on channel_state, one after the other.                    *)

\* T comes from chan by letting senders into the buffers, which held B before.
Kept(B, T) ==
    /\ Reached(T) /\ T.hand = chan.hand
    /\ BuffersApart(T) /\ Contents(T) = B \cup Served(T)

\* Nodes only leave the lists.
Shrunk(S, T) ==
    \A ch \in Chans : /\ ToSet(T.senders[ch]) \subseteq ToSet(S.senders[ch])
                      /\ ToSet(T.receivers[ch]) \subseteq ToSet(S.receivers[ch])

LEMMA ShrunkTransitive ==
    \A S, T, U : Shrunk(S, T) /\ Shrunk(T, U) => Shrunk(S, U)
  BY DEF Shrunk

LEMMA SettleFields ==
    ASSUME NEW S \in ChanState, NEW n \in Node, NEW v \in Nat
    PROVE  /\ Settle(S, n, v) \in ChanState
           /\ Settle(S, n, v).winner = [S.winner EXCEPT ![n[1]] = n[2]]
           /\ Settle(S, n, v).hand = [S.hand EXCEPT ![n[1]] = v]
           /\ Settle(S, n, v).senders = S.senders /\ Settle(S, n, v).receivers = S.receivers
           /\ Settle(S, n, v).buffer = S.buffer /\ Settle(S, n, v).closed = S.closed
<1>1. n[1] \in Coros /\ n[2] \in Nat
  BY DEF Node
<1>2. Append(S.woken, n[1]) \in Seq(Coros)
  BY <1>1, AppendProperties DEF ChanState
<1>3. Settle(S, n, v) \in ChanState
  BY <1>1, <1>2 DEF Settle, ChanState
<1> QED
  BY <1>3 DEF Settle, ChanState

LEMMA SenderHead ==
    ASSUME NEW S \in ChanState, NEW ch \in Chans, Pending(S, ch)
    PROVE  /\ Head(S.senders[ch]) \in Node /\ Tail(S.senders[ch]) \in Seq(Node)
           /\ ToSet(Tail(S.senders[ch])) \subseteq ToSet(S.senders[ch])
<1>1. S.senders[ch] \in Seq(Node) /\ S.senders[ch] # <<>>
  BY DEF ChanState, Pending
<1> QED
  BY <1>1, TailProperties

LEMMA TakePendingIs ==
    ASSUME NEW S, Reached(S), NEW ch \in Chans, Pending(S, ch)
    PROVE  /\ channel_take_pending_sender(S, ch) \in ChanState
           /\ SenderStep(S, channel_take_pending_sender(S, ch), ch, Head(S.senders[ch]))
           /\ channel_take_pending_sender(S, ch).buffer = S.buffer
           /\ channel_take_pending_sender(S, ch).closed = S.closed
<1> DEFINE n == Head(S.senders[ch])
           q == Tail(S.senders[ch])
           T == [S EXCEPT !.senders[ch] = q]
           U == Settle(T, n, 0)
<1>0. S \in ChanState
  BY DEF Reached
<1>1. n \in Node /\ q \in Seq(Node)
  BY <1>0, SenderHead
<1>2. channel_take_pending_sender(S, ch) = U
  BY DEF channel_take_pending_sender
<1>h. n[1] \in Coros /\ S.winner[n[1]] = 0 /\ S.hand[n[1]] = 0
  BY <1>1 DEF Pending, gate_open, Node, Reached
<1> HIDE DEF q, n
<1>3. /\ T \in ChanState /\ T.winner = S.winner /\ T.hand = S.hand /\ T.buffer = S.buffer
      /\ T.receivers = S.receivers /\ T.senders = [S.senders EXCEPT ![ch] = q]
      /\ T.closed = S.closed
  BY <1>0, <1>1 DEF ChanState
<1> HIDE DEF T
<1>4. /\ U \in ChanState /\ U.winner = [S.winner EXCEPT ![n[1]] = n[2]]
      /\ U.hand = [S.hand EXCEPT ![n[1]] = 0] /\ U.senders = [S.senders EXCEPT ![ch] = q]
      /\ U.receivers = S.receivers /\ U.buffer = S.buffer /\ U.closed = S.closed
  <2>1. /\ U \in ChanState /\ U.winner = [T.winner EXCEPT ![n[1]] = n[2]]
        /\ U.hand = [T.hand EXCEPT ![n[1]] = 0] /\ U.senders = T.senders
        /\ U.receivers = T.receivers /\ U.buffer = T.buffer /\ U.closed = T.closed
    <3>1. T \in ChanState /\ n \in Node /\ 0 \in Nat
      BY <1>1, <1>3
    <3> QED
      BY <3>1, SettleFields
  <2> HIDE DEF U
  <2> QED
    BY <1>3, <2>1
<1> HIDE DEF U
<1>5. [S.hand EXCEPT ![n[1]] = 0] = S.hand
  BY <1>0, <1>h DEF ChanState
<1> QED
  BY <1>2, <1>4, <1>5 DEF SenderStep, n, q

LEMMA PromoteKept ==
    ASSUME ChanInv, NEW B, B \subseteq accepted, NEW T, Kept(B, T), NEW ch \in Chans,
           Pending(T, ch)
    PROVE  Kept(B, Promote(T, ch)) /\ Shrunk(T, Promote(T, ch))
<1> DEFINE n == Head(T.senders[ch])
           q == Tail(T.senders[ch])
           b == Append(T.buffer[ch], n[3])
           V == [T EXCEPT !.senders[ch] = q, !.buffer[ch] = b]
           U == Settle(V, n, 0)
<1>0. T \in ChanState /\ Reached(T) /\ BuffersApart(T) /\ Contents(T) = B \cup Served(T)
  BY DEF Reached, Kept
<1>1. n \in Node /\ q \in Seq(Node) /\ ToSet(q) \subseteq ToSet(T.senders[ch])
  BY <1>0, SenderHead
<1>2. T.buffer[ch] \in Seq(Nat) /\ n[3] \in Nat /\ Distinct(T.buffer[ch])
  BY <1>0, <1>1 DEF ChanState, Node, BuffersApart
<1>3. /\ b \in Seq(Nat) /\ ToSet(b) = ToSet(T.buffer[ch]) \cup {n[3]}
      /\ n[3] \notin ToSet(T.buffer[ch]) => Distinct(b)
  BY <1>2, AppendToSet
<1>4. Promote(T, ch) = U
  BY DEF Promote
<1>h. n[1] \in Coros /\ T.winner[n[1]] = 0 /\ T.hand[n[1]] = 0
  BY <1>0, <1>1 DEF Pending, gate_open, Node, Reached
<1>p. Pending(T, ch) /\ n = Head(T.senders[ch]) /\ q = Tail(T.senders[ch])
  OBVIOUS
<1> HIDE DEF q, n, b
<1>5. /\ V \in ChanState /\ V.winner = T.winner /\ V.hand = T.hand
      /\ V.buffer = [T.buffer EXCEPT ![ch] = b]
      /\ V.receivers = T.receivers /\ V.senders = [T.senders EXCEPT ![ch] = q]
  BY <1>0, <1>1, <1>3 DEF ChanState
<1> HIDE DEF V
<1>6. /\ U \in ChanState /\ U.winner = [T.winner EXCEPT ![n[1]] = n[2]]
      /\ U.hand = [T.hand EXCEPT ![n[1]] = 0] /\ U.senders = [T.senders EXCEPT ![ch] = q]
      /\ U.receivers = T.receivers /\ U.buffer = [T.buffer EXCEPT ![ch] = b]
  BY <1>1, <1>5, SettleFields
<1> HIDE DEF U
<1>7. U.hand = T.hand
  BY <1>0, <1>h, <1>6 DEF ChanState
<1>8. SenderStep(T, U, ch, n)
  BY <1>p, <1>6, <1>7 DEF SenderStep
<1>9. /\ Reached(U) /\ Served(U) = Served(T) \cup {n[3]}
      /\ n[3] \notin accepted /\ n[3] \notin Served(T)
  BY <1>0, <1>6, <1>8, SenderServed
<1>10. n[3] \notin Contents(T)
  BY <1>0, <1>9
<1>11. /\ U.buffer[ch] = b /\ \A dh \in Chans : dh # ch => U.buffer[dh] = T.buffer[dh]
       /\ U.senders[ch] = q /\ \A dh \in Chans : dh # ch => U.senders[dh] = T.senders[dh]
  BY <1>0, <1>6 DEF ChanState
<1>12. OneBuffer(T, U, ch)
  BY <1>3, <1>10, <1>11, ContentsAre DEF OneBuffer
<1>13. BuffersApart(U) /\ Contents(U) = Contents(T) \cup {n[3]}
  BY <1>0, <1>3, <1>10, <1>11, <1>12, ValueEnters
<1>14. Kept(B, U)
  BY <1>0, <1>7, <1>9, <1>13 DEF Kept
<1>15. Shrunk(T, U)
  BY <1>1, <1>6, <1>11 DEF Shrunk
<1> QED
  BY <1>4, <1>14, <1>15

\* One round of channel_promote_senders
PromoteOne(S, ch) ==
    IF Pending(S, ch) /\ channel_has_room(S, ch) THEN Promote(S, ch) ELSE S

\* What channel_promote_senders may come to from S
Promotable(B, S) == {T \in ChanState : Kept(B, T) /\ Shrunk(S, T)}

LEMMA PromoteOneKept ==
    ASSUME ChanInv, NEW B, B \subseteq accepted, NEW S, NEW ch \in Chans,
           NEW T \in Promotable(B, S)
    PROVE  PromoteOne(T, ch) \in Promotable(B, S)
<1>1. Kept(B, T) /\ Shrunk(S, T)
  BY DEF Promotable
<1>2. CASE Pending(T, ch) /\ channel_has_room(T, ch)
  <2>1. Kept(B, Promote(T, ch)) /\ Shrunk(T, Promote(T, ch))
    BY <1>1, <1>2, PromoteKept
  <2>2. Shrunk(S, Promote(T, ch)) /\ Promote(T, ch) \in ChanState
    BY <1>1, <2>1, ShrunkTransitive DEF Kept, Reached
  <2> QED
    BY <1>2, <2>1, <2>2 DEF PromoteOne, Promotable
<1>3. CASE ~(Pending(T, ch) /\ channel_has_room(T, ch))
  BY <1>3 DEF PromoteOne
<1> QED
  BY <1>2, <1>3

\* The rounds of channel_promote_senders, in a set D that no round leaves
Promotes(f, S, ch, D) ==
    /\ f \in [0..Len(S.senders[ch]) -> D] /\ f[0] = S
    /\ \A i \in 1..Len(S.senders[ch]) : f[i] = PromoteOne(f[i - 1], ch)
    /\ channel_promote_senders(S, ch) = f[Len(S.senders[ch])]

LEMMA PromoteRounds ==
    ASSUME NEW D, NEW S \in D, NEW ch, Len(S.senders[ch]) \in Nat,
           \A U \in D : PromoteOne(U, ch) \in D
    PROVE  \E f : Promotes(f, S, ch, D)
<1> DEFINE n == Len(S.senders[ch])
           Is(f) == f = [i \in 0..n |-> IF i = 0 THEN S ELSE PromoteOne(f[i - 1], ch)]
           T == CHOOSE f : Is(f)
           g == [i \in 1..n |-> [U \in D |-> PromoteOne(U, ch)]]
<1>1. n \in Nat
  OBVIOUS
<1>2. channel_promote_senders(S, ch) = T[n]
  BY DEF channel_promote_senders, PromoteOne
<1> HIDE DEF n
<1>4. g \in Rounds(n, D)
  BY DEF Rounds
<1> HIDE DEF g
<1>5. PICK f : f \in [0..n -> D] /\ f[0] = S /\ \A i \in 1..n : f[i] = g[i][f[i - 1]]
  <2>1. \E f : Iterates(f, n, D, S, g)
    BY <1>1, <1>4, IterationExists
  <2> QED
    BY <2>1, Zenon DEF Iterates
<1>6. ASSUME NEW i \in 1..n PROVE f[i] = PromoteOne(f[i - 1], ch)
  <2>1. i - 1 \in 0..n
    BY <1>1
  <2>2. f[i - 1] \in D /\ f[i] = g[i][f[i - 1]]
    BY <1>5, <2>1
  <2> QED
    BY <2>2, Zenon DEF g
<1>7. Is(f)
  <2>1. f = [i \in 0..n |-> f[i]]
    BY <1>5
  <2>2. \A i \in 0..n : f[i] = IF i = 0 THEN S ELSE PromoteOne(f[i - 1], ch)
    BY <1>1, <1>5, <1>6
  <2> QED
    BY <2>1, <2>2
<1>8. Is(T)
  BY <1>7
<1> HIDE DEF T
<1>9. T[0] = S /\ \A i \in 1..n : T[i] = PromoteOne(T[i - 1], ch)
  BY <1>1, <1>8
<1> DEFINE N == {i \in 0..n : T[i] \in D}
<1>10. 0 \in N
  BY <1>1, <1>9
<1>11. ASSUME NEW i \in 1..n, i - 1 \in N PROVE i \in N
  BY <1>1, <1>9, <1>11
<1> HIDE DEF N
<1>12. \A i \in 0..n : i \in N
  BY <1>1, <1>10, <1>11, Induct
<1>13. T \in [0..n -> D]
  <2>1. \A i \in 0..n : T[i] \in D
    BY <1>12 DEF N
  <2>2. T = [i \in 0..n |-> T[i]]
    BY <1>8
  <2> QED
    BY <2>1, <2>2
<1> QED
  BY <1>2, <1>9, <1>13 DEF n, Promotes

\* channel_promote_senders: what one round keeps, all keep.
LEMMA PromoteAllKept ==
    ASSUME ChanInv, NEW B, B \subseteq accepted, NEW S, Kept(B, S), NEW ch \in Chans
    PROVE  /\ Kept(B, channel_promote_senders(S, ch))
           /\ Shrunk(S, channel_promote_senders(S, ch))
<1> DEFINE D == Promotable(B, S)
<1>0. S \in ChanState /\ Len(S.senders[ch]) \in Nat
  BY LenProperties DEF Kept, Reached, ChanState
<1>1. S \in D
  BY <1>0 DEF Promotable, Shrunk
<1>2. \A U \in D : PromoteOne(U, ch) \in D
  BY PromoteOneKept
<1> HIDE DEF D
<1>3. channel_promote_senders(S, ch) \in D
  <2>1. PICK f : Promotes(f, S, ch, D)
    BY <1>0, <1>1, <1>2, PromoteRounds
  <2>2. Len(S.senders[ch]) \in 0..Len(S.senders[ch])
    BY <1>0
  <2> QED
    BY <2>1, <2>2 DEF Promotes
<1> QED
  BY <1>3 DEF D, Promotable

\* The node of branch i of c is erased from a list.
LEMMA EraseProperties ==
    ASSUME NEW q \in Seq(Node), NEW c, NEW i
    PROVE  /\ Erase(q, c, i) \in Seq(Node)
           /\ ToSet(Erase(q, c, i)) = {n \in ToSet(q) : ~(n[1] = c /\ n[2] = i)}
           /\ Distinct(q) => Distinct(Erase(q, c, i))
<1> DEFINE E == {n \in ToSet(q) : ~(n[1] = c /\ n[2] = i)}
<1>1. Erase(q, c, i) = Filtered(q, E)
  BY DEF Erase
<1>2. ToSet(q) \cap E = E
  OBVIOUS
<1> HIDE DEF E
<1>3. /\ Filtered(q, E) \in Seq(Node) /\ ToSet(Filtered(q, E)) = ToSet(q) \cap E
      /\ Distinct(q) => Distinct(Filtered(q, E))
  BY FilteredProperties
<1> QED
  BY <1>1, <1>2, <1>3 DEF E

LEMMA DropReceiverKept ==
    ASSUME ChanInv, NEW B, NEW T, Kept(B, T), NEW ch \in Chans, NEW c, NEW i
    PROVE  /\ Kept(B, channel_drop_receiver(T, ch, c, i))
           /\ Shrunk(T, channel_drop_receiver(T, ch, c, i))
           /\ \A n \in ToSet(channel_drop_receiver(T, ch, c, i).receivers[ch]) : ~(n[1] = c /\ n[2] = i)
<1> DEFINE q == Erase(T.receivers[ch], c, i)
           U == [T EXCEPT !.receivers[ch] = q]
<1>0. T \in ChanState /\ Reached(T) /\ T.receivers[ch] \in Seq(Node) /\ Distinct(T.receivers[ch])
  BY DEF Kept, Reached, ChanState
<1>1. q \in Seq(Node) /\ ToSet(q) = {n \in ToSet(T.receivers[ch]) : ~(n[1] = c /\ n[2] = i)} /\ Distinct(q)
  BY <1>0, EraseProperties
<1>2. channel_drop_receiver(T, ch, c, i) = U
  BY DEF channel_drop_receiver
<1> HIDE DEF q
<1>3. /\ U \in ChanState /\ U.winner = T.winner /\ U.hand = T.hand /\ U.buffer = T.buffer
      /\ U.senders = T.senders /\ U.receivers = [T.receivers EXCEPT ![ch] = q]
  BY <1>0, <1>1 DEF ChanState
<1> HIDE DEF U
<1>4. U.receivers[ch] = q /\ \A dh \in Chans : dh # ch => U.receivers[dh] = T.receivers[dh]
  BY <1>0, <1>3 DEF ChanState
<1>5. Shrunk(T, U)
  BY <1>1, <1>3, <1>4 DEF Shrunk
<1>6. \A dh \in Chans : Distinct(U.senders[dh]) /\ Distinct(U.receivers[dh])
  BY <1>0, <1>1, <1>3, <1>4 DEF Reached
<1>7. Reached(U) /\ Served(U) = Served(T)
  BY <1>0, <1>3, <1>5, <1>6, FewerNodes DEF Shrunk
<1>8. Kept(B, U)
  BY <1>3, <1>7, SameBuffers DEF Kept
<1> QED
  BY <1>1, <1>2, <1>4, <1>5, <1>8

LEMMA DropSenderKept ==
    ASSUME ChanInv, NEW B, B \subseteq accepted, NEW T, Kept(B, T), NEW ch \in Chans, NEW c, NEW i
    PROVE  /\ Kept(B, channel_drop_sender(T, ch, c, i))
           /\ Shrunk(T, channel_drop_sender(T, ch, c, i))
           /\ \A n \in ToSet(channel_drop_sender(T, ch, c, i).senders[ch]) : ~(n[1] = c /\ n[2] = i)
<1> DEFINE q == Erase(T.senders[ch], c, i)
           U == [T EXCEPT !.senders[ch] = q]
           V == channel_promote_senders(U, ch)
<1>0. T \in ChanState /\ Reached(T) /\ T.senders[ch] \in Seq(Node) /\ Distinct(T.senders[ch])
  BY DEF Kept, Reached, ChanState
<1>1. q \in Seq(Node) /\ ToSet(q) = {n \in ToSet(T.senders[ch]) : ~(n[1] = c /\ n[2] = i)} /\ Distinct(q)
  BY <1>0, EraseProperties
<1>2. channel_drop_sender(T, ch, c, i) = V
  BY DEF channel_drop_sender
<1> HIDE DEF q, V
<1>3. /\ U \in ChanState /\ U.winner = T.winner /\ U.hand = T.hand /\ U.buffer = T.buffer
      /\ U.receivers = T.receivers /\ U.senders = [T.senders EXCEPT ![ch] = q]
  BY <1>0, <1>1 DEF ChanState
<1> HIDE DEF U
<1>4. U.senders[ch] = q /\ \A dh \in Chans : dh # ch => U.senders[dh] = T.senders[dh]
  BY <1>0, <1>3 DEF ChanState
<1>5. Shrunk(T, U)
  BY <1>1, <1>3, <1>4 DEF Shrunk
<1>6. \A dh \in Chans : Distinct(U.senders[dh]) /\ Distinct(U.receivers[dh])
  BY <1>0, <1>1, <1>3, <1>4 DEF Reached
<1>7. Reached(U) /\ Served(U) = Served(T)
  BY <1>0, <1>3, <1>5, <1>6, FewerNodes DEF Shrunk
<1>8. Kept(B, U)
  BY <1>3, <1>7, SameBuffers DEF Kept
<1>9. Kept(B, V) /\ Shrunk(U, V)
  BY <1>8, PromoteAllKept DEF V
<1>10. Shrunk(T, V)
  BY <1>5, <1>9, ShrunkTransitive
<1>11. \A n \in ToSet(V.senders[ch]) : ~(n[1] = c /\ n[2] = i)
  BY <1>1, <1>4, <1>9 DEF Shrunk
<1> QED
  BY <1>2, <1>9, <1>10, <1>11

\* The branch i of c, which is b, is in no list.
Cleared(T, c, i, b) ==
    IF b.dir = "send" THEN \A n \in ToSet(T.senders[b.ch]) : ~(n[1] = c /\ n[2] = i)
    ELSE \A n \in ToSet(T.receivers[b.ch]) : ~(n[1] = c /\ n[2] = i)

LEMMA ClearedStays ==
    ASSUME NEW S, NEW T, Shrunk(S, T), NEW c, NEW i, NEW b \in Branch, Cleared(S, c, i, b)
    PROVE  Cleared(T, c, i, b)
<1>1. b.ch \in Chans
  BY DEF Branch
<1> QED
  BY <1>1 DEF Cleared, Shrunk

LEMMA DisarmKept ==
    ASSUME ChanInv, NEW B, B \subseteq accepted, NEW T, Kept(B, T), NEW c, NEW i, NEW b \in Branch
    PROVE  /\ Kept(B, Disarm(T, c, i, b)) /\ Shrunk(T, Disarm(T, c, i, b))
           /\ Cleared(Disarm(T, c, i, b), c, i, b)
<1>1. b.ch \in Chans
  BY DEF Branch
<1>2. CASE b.dir = "send"
  <2>1. Disarm(T, c, i, b) = channel_drop_sender(T, b.ch, c, i)
    BY <1>2 DEF Disarm
  <2> QED
    BY <1>1, <1>2, <2>1, DropSenderKept DEF Cleared
<1>3. CASE b.dir # "send"
  <2>1. Disarm(T, c, i, b) = channel_drop_receiver(T, b.ch, c, i)
    BY <1>3 DEF Disarm
  <2> QED
    BY <1>1, <1>3, <2>1, DropReceiverKept DEF Cleared
<1> QED
  BY <1>2, <1>3

\* What DisarmAll may come to from S
Disarmable(B) == {T \in ChanState : Kept(B, T)}

\* The rounds of DisarmAll, in a set D that no round leaves
Disarms(f, S, c, bs, D) ==
    /\ f \in [0..Len(bs) -> D] /\ f[0] = S
    /\ \A i \in 1..Len(bs) : f[i] = Disarm(f[i - 1], c, i, bs[i])
    /\ DisarmAll(S, c, bs) = f[Len(bs)]

LEMMA DisarmRounds ==
    ASSUME NEW D, NEW S \in D, NEW c, NEW bs, Len(bs) \in Nat,
           \A U \in D, i \in 1..Len(bs) : Disarm(U, c, i, bs[i]) \in D
    PROVE  \E f : Disarms(f, S, c, bs, D)
<1> DEFINE n == Len(bs)
           Is(f) == f = [i \in 0..n |-> IF i = 0 THEN S ELSE Disarm(f[i - 1], c, i, bs[i])]
           T == CHOOSE f : Is(f)
           g == [i \in 1..n |-> [U \in D |-> Disarm(U, c, i, bs[i])]]
<1>1. n \in Nat
  OBVIOUS
<1>2. DisarmAll(S, c, bs) = T[n]
  BY DEF DisarmAll
<1>3. \A U \in D, i \in 1..n : Disarm(U, c, i, bs[i]) \in D
  OBVIOUS
<1> HIDE DEF n
<1>4. g \in Rounds(n, D)
  BY <1>3 DEF Rounds
<1> HIDE DEF g
<1>5. PICK f : f \in [0..n -> D] /\ f[0] = S /\ \A i \in 1..n : f[i] = g[i][f[i - 1]]
  <2>1. \E f : Iterates(f, n, D, S, g)
    BY <1>1, <1>4, IterationExists
  <2> QED
    BY <2>1, Zenon DEF Iterates
<1>6. ASSUME NEW i \in 1..n PROVE f[i] = Disarm(f[i - 1], c, i, bs[i])
  <2>1. i - 1 \in 0..n
    BY <1>1
  <2>2. f[i - 1] \in D /\ f[i] = g[i][f[i - 1]]
    BY <1>5, <2>1
  <2> QED
    BY <2>2, Zenon DEF g
<1>7. Is(f)
  <2>1. f = [i \in 0..n |-> f[i]]
    BY <1>5
  <2>2. \A i \in 0..n : f[i] = IF i = 0 THEN S ELSE Disarm(f[i - 1], c, i, bs[i])
    BY <1>1, <1>5, <1>6
  <2> QED
    BY <2>1, <2>2
<1>8. Is(T)
  BY <1>7
<1> HIDE DEF T
<1>9. T[0] = S /\ \A i \in 1..n : T[i] = Disarm(T[i - 1], c, i, bs[i])
  BY <1>1, <1>8
<1> DEFINE N == {i \in 0..n : T[i] \in D}
<1>10. 0 \in N
  BY <1>1, <1>9
<1>11. ASSUME NEW i \in 1..n, i - 1 \in N PROVE i \in N
  BY <1>1, <1>3, <1>9, <1>11
<1> HIDE DEF N
<1>12. \A i \in 0..n : i \in N
  BY <1>1, <1>10, <1>11, Induct
<1>13. T \in [0..n -> D]
  <2>1. \A i \in 0..n : T[i] \in D
    BY <1>12 DEF N
  <2>2. T = [i \in 0..n |-> T[i]]
    BY <1>8
  <2> QED
    BY <2>1, <2>2
<1> QED
  BY <1>2, <1>9, <1>13 DEF n, Disarms

LEMMA DisarmAllKept ==
    ASSUME ChanInv, NEW B, B \subseteq accepted, NEW S, Kept(B, S), NEW c, NEW bs \in Seq(Branch)
    PROVE  /\ Kept(B, DisarmAll(S, c, bs))
           /\ \A j \in 1..Len(bs) : Cleared(DisarmAll(S, c, bs), c, j, bs[j])
<1> DEFINE n == Len(bs)
           D == Disarmable(B)
<1>1. n \in Nat /\ \A i \in 1..n : bs[i] \in Branch
  BY LenProperties
<1>s. S \in D
  BY DEF Disarmable, Kept, Reached
<1>3. \A U \in D, i \in 1..n : /\ Disarm(U, c, i, bs[i]) \in D /\ Shrunk(U, Disarm(U, c, i, bs[i]))
                              /\ Cleared(Disarm(U, c, i, bs[i]), c, i, bs[i])
  <2> TAKE U \in D, i \in 1..n
  <2>1. Kept(B, U) /\ bs[i] \in Branch
    BY <1>1 DEF Disarmable
  <2>2. /\ Kept(B, Disarm(U, c, i, bs[i])) /\ Shrunk(U, Disarm(U, c, i, bs[i]))
        /\ Cleared(Disarm(U, c, i, bs[i]), c, i, bs[i])
    BY <2>1, DisarmKept
  <2>3. Disarm(U, c, i, bs[i]) \in ChanState
    BY <2>2 DEF Kept, Reached
  <2> QED
    BY <2>2, <2>3 DEF Disarmable
<1> HIDE DEF D
<1>9. PICK T : /\ T \in [0..n -> D] /\ T[0] = S
               /\ \A i \in 1..n : T[i] = Disarm(T[i - 1], c, i, bs[i])
               /\ DisarmAll(S, c, bs) = T[n]
  <2>1. \A U \in D, i \in 1..Len(bs) : Disarm(U, c, i, bs[i]) \in D
    BY <1>3
  <2>2. S \in D /\ Len(bs) \in Nat
    BY <1>1, <1>s
  <2>3. \E f : Disarms(f, S, c, bs, D)
    BY ONLY <2>1, <2>2, DisarmRounds
  <2> QED
    BY <2>3, Zenon DEF Disarms
<1> HIDE DEF n
<1> DEFINE N == {i \in 0..n : \A j \in 1..i : Cleared(T[i], c, j, bs[j])}
<1>10. 0 \in N
  BY <1>1
<1>11. ASSUME NEW i \in 1..n, i - 1 \in N PROVE i \in N
  <2>1. T[i - 1] \in D /\ (\A j \in 1..(i - 1) : Cleared(T[i - 1], c, j, bs[j])) /\ i \in 0..n
    BY <1>1, <1>9, <1>11
  <2>2. Shrunk(T[i - 1], T[i]) /\ Cleared(T[i], c, i, bs[i])
    BY <1>3, <1>9, <2>1
  <2>3. ASSUME NEW j \in 1..i PROVE Cleared(T[i], c, j, bs[j])
    <3>1. CASE j = i
      BY <2>2, <3>1
    <3>2. CASE j # i
      <4>1. j \in 1..(i - 1) /\ bs[j] \in Branch
        BY <1>1, <3>2
      <4>2. Cleared(T[i - 1], c, j, bs[j])
        BY <2>1, <4>1
      <4> QED
        BY <2>2, <4>1, <4>2, ClearedStays
    <3> QED
      BY <3>1, <3>2
  <2> QED
    BY <2>1, <2>3
<1> HIDE DEF N
<1>12. n \in N
  <2>1. \A i \in 1..n : i - 1 \in N => i \in N
    BY <1>11
  <2>2. \A i \in 0..n : i \in N
    BY <1>1, <1>10, <2>1, Induct
  <2> QED
    BY <1>1, <2>2
<1>13. T[n] \in D /\ \A j \in 1..n : Cleared(T[n], c, j, bs[j])
  BY <1>1, <1>9, <1>12 DEF N
<1> QED
  BY <1>9, <1>13 DEF D, Disarmable, n

\* The books before a step
LEMMA StartKept ==
    ASSUME ChanInv
    PROVE  /\ Kept(Contents(chan), chan) /\ Contents(chan) \subseteq accepted
           /\ Buffered = Contents(chan)
<1>1. Reached(chan) /\ Served(chan) = {}
  BY StartReached
<1>2. Buffered = Contents(chan)
  BY DEF Buffered, Contents
<1>3. Contents(chan) \subseteq accepted
  BY <1>2 DEF ChanInv, OnePlace, Gone
<1>4. BuffersApart(chan)
  BY DEF ChanInv
<1> QED
  BY <1>1, <1>2, <1>3, <1>4 DEF Kept

\* The guards and destructors that run at the end of a wait leave nothing of c.
LEMMA CleanedKept ==
    ASSUME ChanInv, NEW c \in Coros
    PROVE  Kept(Contents(chan), Cleaned(c)) /\ NoNodes(Cleaned(c), c)
<1> DEFINE B == Contents(chan)
<1>0. Kept(B, chan) /\ B \subseteq accepted
  BY StartKept
<1> HIDE DEF B
<1>1. CASE op[c].select \/ chan.winner[c] = 0
  <2> DEFINE bs == op[c].branches
             T == DisarmAll(chan, c, bs)
  <2>1. bs \in Seq(Branch)
    BY DEF ChanInv, ChanTypes, Operation
  <2>2. Kept(B, T) /\ \A j \in 1..Len(bs) : Cleared(T, c, j, bs[j])
    BY <1>0, <2>1, DisarmAllKept
  <2>3. Cleaned(c) = T
    BY <1>1 DEF Cleaned
  <2> HIDE DEF T
  <2>4. ASSUME NEW ch \in Chans, NEW n \in ToSet(T.senders[ch]) PROVE n[1] # c
    <3>1. n \in ToSet(chan.senders[ch])
      BY <2>2 DEF Kept, Reached
    <3>2. IsBranch(n, "send", ch)
      BY <3>1, NodeFacts
    <3>3. SUFFICES ASSUME n[1] = c PROVE FALSE
      OBVIOUS
    <3>4. n[2] \in 1..Len(bs) /\ bs[n[2]].dir = "send" /\ bs[n[2]].ch = ch
      BY <3>2, <3>3 DEF IsBranch
    <3> QED
      BY <2>2, <3>3, <3>4 DEF Cleared
  <2>5. ASSUME NEW ch \in Chans, NEW n \in ToSet(T.receivers[ch]) PROVE n[1] # c
    <3>1. n \in ToSet(chan.receivers[ch])
      BY <2>2 DEF Kept, Reached
    <3>2. IsBranch(n, "recv", ch)
      BY <3>1, NodeFacts
    <3>3. SUFFICES ASSUME n[1] = c PROVE FALSE
      OBVIOUS
    <3>4. n[2] \in 1..Len(bs) /\ bs[n[2]].dir = "recv" /\ bs[n[2]].ch = ch
      BY <3>2, <3>3 DEF IsBranch
    <3> QED
      BY <2>2, <3>3, <3>4 DEF Cleared
  <2> QED
    BY <2>2, <2>3, <2>4, <2>5 DEF NoNodes, B
<1>2. CASE ~(op[c].select \/ chan.winner[c] = 0)
  <2>1. Cleaned(c) = chan
    BY <1>2 DEF Cleaned
  <2>2. NoNodes(chan, c)
    BY <1>2 DEF ChanInv, Decided
  <2> QED
    BY <1>0, <2>1, <2>2 DEF B
<1> QED
  BY <1>1, <1>2

-----------------------------------------------------------------------------
(* A call that waits.                                                      *)

\* The branches that send get new values, each its own.
LEMMA ValuesOffered ==
    ASSUME NEW bs \in Seq(Branch), sent \in Nat
    PROVE  /\ Offered(bs) \in Nat /\ \A i \in 1..Len(bs) : ValueOf(bs, i) \in Nat
           /\ \A i \in 1..Len(bs) : bs[i].dir = "send" =>
                 ValueOf(bs, i) > sent /\ ValueOf(bs, i) <= sent + Offered(bs)
           /\ \A i \in 1..Len(bs), j \in 1..Len(bs) :
                 bs[j].dir = "send" /\ i < j => ValueOf(bs, i) # ValueOf(bs, j)
<1> DEFINE P(i) == {j \in 1..i : bs[j].dir = "send"}
           A == {j \in DOMAIN bs : bs[j].dir = "send"}
<1>1. Len(bs) \in Nat /\ DOMAIN bs = 1..Len(bs)
  BY LenProperties
<1>2. IsFiniteSet(A) /\ Cardinality(A) \in Nat
  <2>1. IsFiniteSet(1..Len(bs))
    BY <1>1, FS_Interval
  <2>2. A \in SUBSET (1..Len(bs))
    BY <1>1
  <2> QED
    BY <2>1, <2>2, FS_Subset, FS_CardinalityType
<1>3. ASSUME NEW i \in 1..Len(bs)
      PROVE  IsFiniteSet(P(i)) /\ Cardinality(P(i)) \in Nat /\ Cardinality(P(i)) <= Cardinality(A)
  <2>1. P(i) \in SUBSET A
    BY <1>1
  <2> QED
    BY <1>2, <2>1, FS_Subset, FS_CardinalityType
<1>4. ASSUME NEW i \in 1..Len(bs), bs[i].dir = "send" PROVE Cardinality(P(i)) # 0
  <2>1. i \in P(i)
    BY <1>1, <1>4
  <2> QED
    BY <1>3, <2>1, FS_EmptySet
<1>5. ASSUME NEW i \in 1..Len(bs), NEW j \in 1..Len(bs), bs[j].dir = "send", i < j
      PROVE  Cardinality(P(i)) # Cardinality(P(j))
  <2>1. P(i) \in SUBSET P(j) /\ j \in P(j) /\ j \notin P(i)
    BY <1>1, <1>5
  <2>2. Cardinality(P(j)) = Cardinality(P(i)) => P(j) = P(i)
    BY <1>3, <2>1, FS_Subset
  <2> QED
    BY <2>1, <2>2
<1>6. Offered(bs) = Cardinality(A) /\ \A i \in 1..Len(bs) : ValueOf(bs, i) = sent + Cardinality(P(i))
  BY DEF Offered, ValueOf
<1> HIDE DEF P, A
<1> QED
  BY <1>1, <1>2, <1>3, <1>4, <1>5, <1>6

\* The node of branch i of c
ArmNode(c, i, b, v) == <<c, i, IF b.dir = "send" THEN v ELSE 0>>
NewNode(c, bs, i) == ArmNode(c, i, bs[i], ValueOf(bs, i))

\* The nodes of the first i branches have been added to those of chan.
Armed(T, c, bs, i) ==
    /\ T \in ChanState
    /\ T.winner = chan.winner /\ T.hand = chan.hand /\ T.buffer = chan.buffer /\ T.woken = chan.woken
    /\ T.closed = chan.closed
    /\ \A ch \in Chans : Distinct(T.senders[ch]) /\ Distinct(T.receivers[ch])
    /\ \A ch \in Chans : \A n \in ToSet(T.senders[ch]) :
          \/ n \in ToSet(chan.senders[ch])
          \/ \E j \in 1..i : bs[j].dir = "send" /\ bs[j].ch = ch /\ n = NewNode(c, bs, j)
    /\ \A ch \in Chans : \A n \in ToSet(T.receivers[ch]) :
          \/ n \in ToSet(chan.receivers[ch])
          \/ \E j \in 1..i : bs[j].dir = "recv" /\ bs[j].ch = ch /\ n = NewNode(c, bs, j)

\* From T to U the branch b is armed with the node n.
ArmStep(T, U, b, n) ==
    /\ U \in ChanState
    /\ U.winner = T.winner /\ U.hand = T.hand /\ U.buffer = T.buffer /\ U.woken = T.woken
    /\ U.closed = T.closed
    /\ b.dir = "send" => /\ U.receivers = T.receivers
                         /\ U.senders = [T.senders EXCEPT ![b.ch] = Append(@, n)]
    /\ b.dir # "send" => /\ U.senders = T.senders
                         /\ U.receivers = [T.receivers EXCEPT ![b.ch] = Append(@, n)]

LEMMA ArmFields ==
    ASSUME NEW T \in ChanState, NEW c \in Coros, NEW i \in Nat, NEW b \in Branch, NEW v \in Nat
    PROVE  /\ ArmNode(c, i, b, v) \in Node /\ Arm(T, c, i, b, v) \in ChanState
           /\ ArmStep(T, Arm(T, c, i, b, v), b, ArmNode(c, i, b, v))
<1> DEFINE U == Arm(T, c, i, b, v)
           n == ArmNode(c, i, b, v)
<1>1. n \in Node /\ b.ch \in Chans
  BY DEF Node, Branch, ArmNode
<1>2. T.senders[b.ch] \in Seq(Node) /\ T.receivers[b.ch] \in Seq(Node)
  BY <1>1 DEF ChanState
<1>3. Append(T.senders[b.ch], n) \in Seq(Node) /\ Append(T.receivers[b.ch], n) \in Seq(Node)
  BY <1>1, <1>2, AppendProperties
<1>4. CASE b.dir = "send"
  <2>1. U = [T EXCEPT !.senders[b.ch] = Append(@, n)]
    BY <1>4 DEF Arm, ArmNode
  <2> HIDE DEF U, n
  <2>2. /\ U \in ChanState
        /\ U.winner = T.winner /\ U.hand = T.hand /\ U.buffer = T.buffer /\ U.woken = T.woken
        /\ U.closed = T.closed
        /\ U.receivers = T.receivers
        /\ U.senders = [T.senders EXCEPT ![b.ch] = Append(@, n)]
    BY <1>1, <1>3, <2>1 DEF ChanState
  <2>3. ArmStep(T, U, b, n)
    BY <1>4, <2>2 DEF ArmStep
  <2> QED
    BY <1>1, <2>2, <2>3 DEF U, n
<1>5. CASE b.dir # "send"
  <2>1. U = [T EXCEPT !.receivers[b.ch] = Append(@, n)]
    BY <1>5 DEF Arm, ArmNode
  <2> HIDE DEF U, n
  <2>2. /\ U \in ChanState
        /\ U.winner = T.winner /\ U.hand = T.hand /\ U.buffer = T.buffer /\ U.woken = T.woken
        /\ U.closed = T.closed
        /\ U.senders = T.senders
        /\ U.receivers = [T.receivers EXCEPT ![b.ch] = Append(@, n)]
    BY <1>1, <1>3, <2>1 DEF ChanState
  <2>3. ArmStep(T, U, b, n)
    BY <1>5, <2>2 DEF ArmStep
  <2> QED
    BY <1>1, <2>2, <2>3 DEF U, n
<1> QED
  BY <1>4, <1>5

LEMMA ArmOne ==
    ASSUME ChanInv, NEW c \in Coros, NoNodes(chan, c), NEW bs \in Seq(Branch),
           NEW i \in 1..Len(bs), NEW T, Armed(T, c, bs, i - 1)
    PROVE  Armed(Arm(T, c, i, bs[i], ValueOf(bs, i)), c, bs, i)
<1> DEFINE b == bs[i]
           U == Arm(T, c, i, b, ValueOf(bs, i))
           n == NewNode(c, bs, i)
<1>0. i \in Nat /\ b \in Branch /\ b.ch \in Chans /\ Len(bs) \in Nat /\ b.dir \in {"send", "recv"}
  <2>1. Len(bs) \in Nat /\ i \in Nat
    BY LenProperties
  <2>2. b \in Branch
    OBVIOUS
  <2> QED
    BY <2>1, <2>2 DEF Branch
<1>1. ValueOf(bs, i) \in Nat
  BY ValuesOffered DEF ChanInv, ChanTypes
<1>2. T \in ChanState
  BY DEF Armed
<1>3. /\ U \in ChanState /\ n \in Node
      /\ U.winner = T.winner /\ U.hand = T.hand /\ U.buffer = T.buffer /\ U.woken = T.woken
      /\ U.closed = T.closed
      /\ b.dir = "send" => /\ U.receivers = T.receivers
                           /\ U.senders = [T.senders EXCEPT ![b.ch] = Append(@, n)]
      /\ b.dir # "send" => /\ U.senders = T.senders
                           /\ U.receivers = [T.receivers EXCEPT ![b.ch] = Append(@, n)]
  <2>1. ArmStep(T, U, b, n) /\ n \in Node
    BY <1>0, <1>1, <1>2, ArmFields DEF NewNode
  <2> HIDE DEF U, n, b
  <2> QED
    BY <2>1 DEF ArmStep
<1>4. n[1] = c /\ n[2] = i
  BY DEF NewNode, ArmNode
<1>5. ASSUME NEW ch \in Chans
      PROVE  n \notin ToSet(T.senders[ch]) /\ n \notin ToSet(T.receivers[ch])
  <2>1. n \notin ToSet(chan.senders[ch]) /\ n \notin ToSet(chan.receivers[ch])
    BY <1>4 DEF NoNodes
  <2>2. \A j \in 1..(i - 1) : n # NewNode(c, bs, j)
    <3> TAKE j \in 1..(i - 1)
    <3>1. NewNode(c, bs, j)[2] = j /\ j # i
      BY <1>0 DEF NewNode, ArmNode
    <3> QED
      BY <1>4, <3>1
  <2> HIDE DEF n
  <2> QED
    BY <2>1, <2>2 DEF Armed
<1>b. b.dir = bs[i].dir /\ b.ch = bs[i].ch /\ n = NewNode(c, bs, i)
  OBVIOUS
<1> HIDE DEF U, n, b
<1>6. /\ U.winner = chan.winner /\ U.hand = chan.hand /\ U.buffer = chan.buffer
      /\ U.woken = chan.woken /\ U.closed = chan.closed
  BY <1>3 DEF Armed
<1>7. ASSUME NEW ch \in Chans
      PROVE  /\ Distinct(U.senders[ch])
             /\ \A m \in ToSet(U.senders[ch]) :
                   m \in ToSet(T.senders[ch]) \/ (m = n /\ b.dir = "send" /\ b.ch = ch)
  <2>1. T.senders[ch] \in Seq(Node) /\ Distinct(T.senders[ch])
    BY <1>2 DEF ChanState, Armed
  <2>2. CASE b.dir = "send" /\ b.ch = ch
    <3>1. U.senders[ch] = Append(T.senders[ch], n)
      BY <1>2, <1>3, <2>2 DEF ChanState
    <3> QED
      BY <1>3, <1>5, <2>1, <2>2, <3>1, AppendToSet
  <2>3. CASE ~(b.dir = "send" /\ b.ch = ch)
    <3>1. U.senders[ch] = T.senders[ch]
      BY <1>2, <1>3, <2>3 DEF ChanState
    <3> QED
      BY <2>1, <3>1
  <2> QED
    BY <2>2, <2>3
<1>8. ASSUME NEW ch \in Chans
      PROVE  /\ Distinct(U.receivers[ch])
             /\ \A m \in ToSet(U.receivers[ch]) :
                   m \in ToSet(T.receivers[ch]) \/ (m = n /\ b.dir = "recv" /\ b.ch = ch)
  <2>1. T.receivers[ch] \in Seq(Node) /\ Distinct(T.receivers[ch])
    BY <1>2 DEF ChanState, Armed
  <2>2. CASE b.dir = "recv" /\ b.ch = ch
    <3>1. U.receivers[ch] = Append(T.receivers[ch], n)
      BY <1>2, <1>3, <2>2 DEF ChanState
    <3> QED
      BY <1>3, <1>5, <2>1, <2>2, <3>1, AppendToSet
  <2>3. CASE ~(b.dir = "recv" /\ b.ch = ch)
    <3>1. U.receivers[ch] = T.receivers[ch]
      BY <1>0, <1>2, <1>3, <2>3 DEF ChanState
    <3> QED
      BY <2>1, <3>1
  <2> QED
    BY <2>2, <2>3
<1>9. \A j \in 1..(i - 1) : j \in 1..i
  BY <1>0
<1>10. ASSUME NEW ch \in Chans, NEW m \in ToSet(U.senders[ch])
       PROVE  \/ m \in ToSet(chan.senders[ch])
              \/ \E j \in 1..i : bs[j].dir = "send" /\ bs[j].ch = ch /\ m = NewNode(c, bs, j)
  <2>1. CASE m \in ToSet(T.senders[ch])
    BY <1>9, <2>1 DEF Armed
  <2>2. CASE m = n /\ b.dir = "send" /\ b.ch = ch
    <3>1. i \in 1..i
      BY <1>0
    <3>2. bs[i].dir = "send" /\ bs[i].ch = ch /\ m = NewNode(c, bs, i)
      BY <1>b, <2>2
    <3> QED
      BY <3>1, <3>2
  <2> QED
    BY <1>7, <2>1, <2>2
<1>11. ASSUME NEW ch \in Chans, NEW m \in ToSet(U.receivers[ch])
       PROVE  \/ m \in ToSet(chan.receivers[ch])
              \/ \E j \in 1..i : bs[j].dir = "recv" /\ bs[j].ch = ch /\ m = NewNode(c, bs, j)
  <2>1. CASE m \in ToSet(T.receivers[ch])
    BY <1>9, <2>1 DEF Armed
  <2>2. CASE m = n /\ b.dir = "recv" /\ b.ch = ch
    <3>1. i \in 1..i
      BY <1>0
    <3>2. bs[i].dir = "recv" /\ bs[i].ch = ch /\ m = NewNode(c, bs, i)
      BY <1>b, <2>2
    <3> QED
      BY <3>1, <3>2
  <2> QED
    BY <1>8, <2>1, <2>2
<1>12. Armed(U, c, bs, i)
  BY <1>3, <1>6, <1>7, <1>8, <1>10, <1>11 DEF Armed
<1> QED
  BY <1>12 DEF U, b

\* Senders wait in the order of the calls: a list is as it was if no branch sends to
\* its channel, and a plain send is last.
InLine(T, c, bs, i) ==
    /\ \A ch \in Chans : (\A j \in 1..i : ~(bs[j].dir = "send" /\ bs[j].ch = ch)) =>
           T.senders[ch] = chan.senders[ch]
    /\ i = 1 /\ bs[1].dir = "send" =>
           T.senders[bs[1].ch] = Append(chan.senders[bs[1].ch], NewNode(c, bs, 1))

LEMMA ArmOneInLine ==
    ASSUME ChanInv, NEW c \in Coros, NEW bs \in Seq(Branch), NEW i \in 1..Len(bs),
           NEW T \in ChanState, InLine(T, c, bs, i - 1)
    PROVE  InLine(Arm(T, c, i, bs[i], ValueOf(bs, i)), c, bs, i)
<1> DEFINE b == bs[i]
           U == Arm(T, c, i, b, ValueOf(bs, i))
           n == NewNode(c, bs, i)
<1>0. i \in Nat /\ i >= 1 /\ b \in Branch /\ b.ch \in Chans /\ Len(bs) \in Nat
  <2>1. Len(bs) \in Nat /\ i \in Nat /\ i >= 1
    BY LenProperties
  <2>2. b \in Branch
    OBVIOUS
  <2> QED
    BY <2>1, <2>2 DEF Branch
<1>1. ValueOf(bs, i) \in Nat
  BY ValuesOffered DEF ChanInv, ChanTypes
<1>2. ArmStep(T, U, b, n)
  BY <1>0, <1>1, ArmFields DEF NewNode
<1>b. b = bs[i] /\ n = NewNode(c, bs, i)
  OBVIOUS
<1> HIDE DEF U, n, b
<1>3. ASSUME NEW ch \in Chans, \A j \in 1..i : ~(bs[j].dir = "send" /\ bs[j].ch = ch)
      PROVE  U.senders[ch] = chan.senders[ch]
  <2>1. i \in 1..i /\ \A j \in 1..(i - 1) : j \in 1..i
    BY <1>0
  <2>2. T.senders[ch] = chan.senders[ch]
    BY <1>3, <2>1 DEF InLine
  <2>3. ~(b.dir = "send" /\ b.ch = ch)
    BY <1>3, <1>b, <2>1
  <2>4. T.senders \in [Chans -> Seq(Node)]
    BY DEF ChanState
  <2>5. U.senders[ch] = T.senders[ch]
    BY <1>2, <2>3, <2>4 DEF ArmStep
  <2> QED
    BY <2>2, <2>5
<1>4. ASSUME i = 1, bs[1].dir = "send"
      PROVE  U.senders[bs[1].ch] = Append(chan.senders[bs[1].ch], NewNode(c, bs, 1))
  <2>1. b = bs[1] /\ n = NewNode(c, bs, 1) /\ b.dir = "send"
    BY <1>4, <1>b
  <2>2. T.senders[b.ch] = chan.senders[b.ch]
    BY <1>0, <1>4 DEF InLine
  <2>3. T.senders \in [Chans -> Seq(Node)]
    BY DEF ChanState
  <2>4. U.senders[b.ch] = Append(T.senders[b.ch], n)
    BY <1>0, <1>2, <2>1, <2>3 DEF ArmStep
  <2> QED
    BY <2>1, <2>2, <2>4
<1>5. InLine(U, c, bs, i)
  BY <1>3, <1>4 DEF InLine
<1> QED
  BY <1>5 DEF U, b

LEMMA ArmAllArmed ==
    ASSUME ChanInv, NEW c \in Coros, NoNodes(chan, c), NEW bs \in Seq(Branch)
    PROVE  Armed(ArmAll(c, bs), c, bs, Len(bs)) /\ InLine(ArmAll(c, bs), c, bs, Len(bs))
<1> DEFINE n == Len(bs)
           Is(f) == f = [i \in 0..n |->
                            IF i = 0 THEN chan ELSE Arm(f[i - 1], c, i, bs[i], ValueOf(bs, i))]
           T == CHOOSE f : Is(f)
           g == [i \in 1..n |-> [U \in ChanState |-> Arm(U, c, i, bs[i], ValueOf(bs, i))]]
<1>1. n \in Nat /\ \A i \in 1..n : bs[i] \in Branch /\ i \in Nat
  BY LenProperties
<1>2. ArmAll(c, bs) = T[n]
  BY DEF ArmAll
<1>s. chan \in ChanState
  BY DEF ChanInv, ChanTypes
<1>v. \A i \in 1..n : ValueOf(bs, i) \in Nat
  BY ValuesOffered DEF ChanInv, ChanTypes
<1> HIDE DEF n
<1>3. \A U \in ChanState, i \in 1..n : Arm(U, c, i, bs[i], ValueOf(bs, i)) \in ChanState
  BY <1>1, <1>v, ArmFields
<1>4. g \in Rounds(n, ChanState)
  BY <1>3 DEF Rounds
<1> HIDE DEF g
<1>5. PICK f : f \in [0..n -> ChanState] /\ f[0] = chan /\ \A i \in 1..n : f[i] = g[i][f[i - 1]]
  <2>1. \E f : Iterates(f, n, ChanState, chan, g)
    BY <1>1, <1>4, <1>s, IterationExists
  <2> QED
    BY <2>1, Zenon DEF Iterates
<1>6. ASSUME NEW i \in 1..n PROVE f[i] = Arm(f[i - 1], c, i, bs[i], ValueOf(bs, i))
  <2>1. i - 1 \in 0..n
    BY <1>1
  <2>2. f[i - 1] \in ChanState /\ f[i] = g[i][f[i - 1]]
    BY <1>5, <2>1
  <2> QED
    BY <2>2, Zenon DEF g
<1>7. Is(f)
  <2>1. f = [i \in 0..n |-> f[i]]
    BY <1>5
  <2>2. \A i \in 0..n : f[i] = IF i = 0 THEN chan ELSE Arm(f[i - 1], c, i, bs[i], ValueOf(bs, i))
    BY <1>1, <1>5, <1>6
  <2> QED
    BY <2>1, <2>2
<1>8. Is(T)
  BY <1>7
<1> HIDE DEF T
<1>9. T[0] = chan /\ \A i \in 1..n : T[i] = Arm(T[i - 1], c, i, bs[i], ValueOf(bs, i))
  BY <1>1, <1>8
<1> DEFINE N == {i \in 0..n : Armed(T[i], c, bs, i) /\ InLine(T[i], c, bs, i)}
<1>10. 0 \in N
  <2>1. Armed(chan, c, bs, 0)
    BY <1>s DEF Armed, ChanInv, Nodes
  <2>2. InLine(chan, c, bs, 0)
    BY DEF InLine
  <2> QED
    BY <1>1, <1>9, <2>1, <2>2
<1>11. ASSUME NEW i \in 1..n, i - 1 \in N PROVE i \in N
  <2>1. Armed(T[i - 1], c, bs, i - 1) /\ InLine(T[i - 1], c, bs, i - 1) /\ i \in 0..n
    BY <1>1, <1>11
  <2>2. Armed(T[i], c, bs, i)
    BY <1>9, <2>1, ArmOne DEF n
  <2>3. T[i - 1] \in ChanState
    BY <2>1 DEF Armed
  <2>4. InLine(T[i], c, bs, i)
    BY <1>9, <2>1, <2>3, ArmOneInLine DEF n
  <2> QED
    BY <2>1, <2>2, <2>4
<1> HIDE DEF N
<1>12. n \in N
  <2>1. \A i \in 1..n : i - 1 \in N => i \in N
    BY <1>11
  <2>2. \A i \in 0..n : i \in N
    BY <1>1, <1>10, <2>1, Induct
  <2> QED
    BY <1>1, <2>2
<1>13. Armed(T[n], c, bs, n) /\ InLine(T[n], c, bs, n)
  BY <1>12 DEF N
<1> QED
  BY <1>2, <1>13 DEF n

-----------------------------------------------------------------------------
(* Where the accepted values are: in the buffers, in hands, received, or   *)
(* nowhere any more.                                                       *)

HandsOf(h) == {h[c] : c \in Coros} \ {0}
OneHand(h) == \A c \in Coros, d \in Coros : h[c] = h[d] /\ c # d => h[c] = 0

Books(C, h, A, R, X) ==
    /\ A = C \cup HandsOf(h) \cup R \cup X
    /\ C \cap (HandsOf(h) \cup R \cup X) = {}
    /\ HandsOf(h) \cap (R \cup X) = {} /\ R \cap X = {}
    /\ OneHand(h)

LEMMA HandsAre ==
    \A h, v : v \in HandsOf(h) <=> v # 0 /\ \E c \in Coros : h[c] = v
  BY DEF HandsOf

\* Senders were let into the buffers.
LEMMA BooksServe ==
    ASSUME NEW C, NEW h, NEW A, NEW R, NEW X, Books(C, h, A, R, X), NEW W, W \cap A = {}
    PROVE  Books(C \cup W, h, A \cup W, R, X)
  BY DEF Books

\* A value is received, out of a buffer or from a sender.
LEMMA BooksReceive ==
    ASSUME NEW C, NEW h, NEW A, NEW R, NEW X, Books(C, h, A, R, X), NEW v, v \in C
    PROVE  Books(C \ {v}, h, A, R \cup {v}, X)
  BY DEF Books

\* A new value is handed to d.
LEMMA BooksGive ==
    ASSUME NEW C, NEW h \in [Coros -> Nat], NEW A, NEW R, NEW X, Books(C, h, A, R, X),
           NEW v \in Nat, v # 0, v \notin A, NEW d \in Coros, h[d] = 0
    PROVE  Books(C, [h EXCEPT ![d] = v], A \cup {v}, R, X)
<1> DEFINE k == [h EXCEPT ![d] = v]
<1>1. k[d] = v /\ \A c \in Coros : c # d => k[c] = h[c]
  OBVIOUS
<1> HIDE DEF k
<1>2. v \notin HandsOf(h)
  BY DEF Books
<1>3. \A c \in Coros : h[c] # v
  BY <1>2, HandsAre
<1>4. \A w : w \in HandsOf(k) <=> w \in HandsOf(h) \/ w = v
  <2> TAKE w
  <2>1. w \in HandsOf(k) <=> w # 0 /\ \E c \in Coros : k[c] = w
    BY HandsAre
  <2>2. w \in HandsOf(h) <=> w # 0 /\ \E c \in Coros : h[c] = w
    BY HandsAre
  <2> QED
    BY <1>1, <2>1, <2>2
<1>5. HandsOf(k) = HandsOf(h) \cup {v}
  BY <1>4
<1>6. OneHand(k)
  BY <1>1, <1>3 DEF Books, OneHand
<1>7. Books(C, k, A \cup {v}, R, X)
  BY <1>5, <1>6 DEF Books
<1> QED
  BY <1>7 DEF k

\* What c has in its hand is taken away.
LEMMA BooksClear ==
    ASSUME NEW C, NEW h \in [Coros -> Nat], NEW A, NEW R, NEW X, Books(C, h, A, R, X),
           NEW c \in Coros
    PROVE  /\ h[c] = 0 => Books(C, [h EXCEPT ![c] = 0], A, R, X)
           /\ h[c] # 0 => /\ Books(C, [h EXCEPT ![c] = 0], A, R \cup {h[c]}, X)
                          /\ Books(C, [h EXCEPT ![c] = 0], A, R, X \cup {h[c]})
                          /\ Books(C, [h EXCEPT ![c] = 0], A \ {h[c]}, R, X)
                          /\ h[c] \in A
<1> DEFINE k == [h EXCEPT ![c] = 0]
           v == h[c]
<1>1. k[c] = 0 /\ \A d \in Coros : d # c => k[d] = h[d]
  OBVIOUS
<1>2. CASE v = 0
  <2>1. k = h
    BY <1>2
  <2> QED
    BY <1>2, <2>1
<1>3. CASE v # 0
  <2>1. \A d \in Coros : d # c => h[d] # v
    BY <1>3 DEF Books, OneHand
  <2>2. v \in HandsOf(h)
    BY <1>3, HandsAre
  <2> HIDE DEF k
  <2>3. \A w : w \in HandsOf(k) <=> w \in HandsOf(h) /\ w # v
    <3> TAKE w
    <3>1. w \in HandsOf(k) <=> w # 0 /\ \E d \in Coros : k[d] = w
      BY HandsAre
    <3>2. w \in HandsOf(h) <=> w # 0 /\ \E d \in Coros : h[d] = w
      BY HandsAre
    <3> QED
      BY <1>1, <2>1, <3>1, <3>2
  <2>4. HandsOf(k) = HandsOf(h) \ {v}
    BY <2>3
  <2>5. OneHand(k)
    BY <1>1 DEF Books, OneHand
  <2> HIDE DEF v
  <2>6. Books(C, k, A, R \cup {v}, X)
    BY <2>2, <2>4, <2>5 DEF Books
  <2>7. Books(C, k, A, R, X \cup {v})
    BY <2>2, <2>4, <2>5 DEF Books
  <2>8. Books(C, k, A \ {v}, R, X) /\ v \in A
    BY <2>2, <2>4, <2>5 DEF Books
  <2> QED
    BY <1>3, <2>6, <2>7, <2>8 DEF k, v
<1> QED
  BY <1>2, <1>3

\* OnePlace and the books say the same.
LEMMA BooksNow ==
    ASSUME ChanInv
    PROVE  Books(Contents(chan), chan.hand, accepted, received, Waste)
<1>1. Buffered = Contents(chan) /\ Handed = HandsOf(chan.hand)
  BY DEF Buffered, Contents, Handed, HandsOf
<1>2. /\ accepted = Buffered \cup Handed \cup received \cup Waste
      /\ Buffered \cap (Handed \cup received \cup Waste) = {}
      /\ Handed \cap (received \cup Waste) = {} /\ received \cap Waste = {}
      /\ \A c, d \in Coros : chan.hand[c] = chan.hand[d] /\ c # d => chan.hand[c] = 0
  BY DEF ChanInv, OnePlace, Apart, Gone, Waste
<1> QED
  BY <1>1, <1>2 DEF Books, OneHand

LEMMA BooksNext ==
    ASSUME chan' \in ChanState, BuffersApart(chan'),
           Books(Contents(chan'), chan'.hand, accepted', received', Waste')
    PROVE  OnePlace'
<1>1. Buffered' = Contents(chan') /\ Handed' = HandsOf(chan'.hand)
  BY DEF Buffered, Contents, Handed, HandsOf
<1>2. \A ch \in Chans : IsInjective(chan'.buffer[ch])
  <2> TAKE ch \in Chans
  <2>1. chan'.buffer[ch] \in Seq(Nat) /\ Distinct(chan'.buffer[ch])
    BY DEF ChanState, BuffersApart
  <2>2. DOMAIN chan'.buffer[ch] = 1..Len(chan'.buffer[ch])
    BY <2>1, LenProperties
  <2> QED
    BY <2>1, <2>2 DEF IsInjective, Distinct
<1>3. /\ accepted' = Contents(chan') \cup HandsOf(chan'.hand) \cup received' \cup Waste'
      /\ Contents(chan') \cap (HandsOf(chan'.hand) \cup received' \cup Waste') = {}
      /\ HandsOf(chan'.hand) \cap (received' \cup Waste') = {} /\ received' \cap Waste' = {}
      /\ \A c, d \in Coros : chan'.hand[c] = chan'.hand[d] /\ c # d => chan'.hand[c] = 0
  BY DEF Books, OneHand
<1> QED
  BY <1>1, <1>2, <1>3 DEF OnePlace, Apart, Gone, Waste

-----------------------------------------------------------------------------
(* From the channels in the middle of a step to the next state.            *)

\* The values a step served were offered before and are new among the accepted.
LEMMA ServedNew ==
    ASSUME ChanInv, NEW T
    PROVE  Served(T) \subseteq 1..sent /\ Served(T) \cap accepted = {}
  BY ServedAre, NodeFacts

\* The lists of T are those of the next state, where no operation with a node in
\* them has ended.
ListsNext(T) ==
    /\ chan'.senders = T.senders /\ chan'.receivers = T.receivers
    /\ \A c \in Coros : NoNodes(T, c) \/ op'[c] = op[c]
    /\ sent' \in Nat /\ sent' >= sent
    /\ accepted' \cap (1..sent) \subseteq accepted \cup Served(T)

LEMMA NodesNext ==
    ASSUME ChanInv, NEW T, Reached(T), ListsNext(T)
    PROVE  Nodes'
<1>1. chan'.senders = T.senders /\ chan'.receivers = T.receivers
  BY DEF ListsNext
<1>2. \A ch \in Chans : Distinct(chan'.senders[ch]) /\ Distinct(chan'.receivers[ch])
  BY <1>1 DEF Reached
<1>3. ASSUME NEW ch \in Chans, NEW n \in ToSet(chan'.senders[ch])
      PROVE  n \in Offers(chan) /\ IsBranch(n, "send", ch)' /\ n[3] \in 1..sent' /\ n[3] \notin accepted'
  <2>1. n \in ToSet(T.senders[ch]) /\ n \in ToSet(chan.senders[ch]) /\ n \in Offers(T)
    BY <1>1, OffersAre DEF Reached
  <2>2. /\ n \in Offers(chan) /\ IsBranch(n, "send", ch) /\ n[1] \in Coros
        /\ n[3] \in 1..sent /\ n[3] \notin accepted
    BY <2>1, NodeFacts
  <2>3. op'[n[1]] = op[n[1]]
    BY <2>1, <2>2 DEF ListsNext, NoNodes
  <2>4. n[3] \notin Served(T)
    BY <2>1 DEF Reached
  <2>5. IsBranch(n, "send", ch)'
    BY <2>2, <2>3 DEF IsBranch
  <2>6. n[3] \in 1..sent' /\ n[3] \notin accepted'
    BY <2>2, <2>4 DEF ListsNext, ChanInv, ChanTypes
  <2> QED
    BY <2>2, <2>5, <2>6
<1>4. ASSUME NEW ch \in Chans, NEW n \in ToSet(chan'.receivers[ch])
      PROVE  IsBranch(n, "recv", ch)' /\ n[3] = 0
  <2>1. n \in ToSet(T.receivers[ch]) /\ n \in ToSet(chan.receivers[ch])
    BY <1>1 DEF Reached
  <2>2. IsBranch(n, "recv", ch) /\ n[1] \in Coros
    BY <2>1, NodeFacts
  <2>3. op'[n[1]] = op[n[1]]
    BY <2>1, <2>2 DEF ListsNext, NoNodes
  <2>4. n[3] = 0
    BY <2>1 DEF ChanInv, Nodes
  <2> QED
    BY <2>2, <2>3, <2>4 DEF IsBranch
<1>5. \A m \in Offers(chan'), n \in Offers(chan') :
         m[3] = n[3] \/ (m[1] = n[1] /\ m[2] = n[2]) => m = n
  <2>1. \A m \in Offers(chan') : m \in Offers(chan)
    BY <1>3, OffersAre
  <2> QED
    BY <2>1 DEF ChanInv, Nodes
<1> QED
  BY <1>2, <1>3, <1>4, <1>5 DEF Nodes, Offers

\* What OneBranchCommits says of a step
Stays ==
    \A c \in Coros : chan.winner[c] # 0 /\ op'[c] # NoOp =>
        chan'.winner[c] = chan.winner[c] /\ chan'.hand[c] = chan.hand[c]

\* A step that ends no operation
GoesOn(T) ==
    /\ chan' = [T EXCEPT !.woken = <<>>]
    /\ \A c \in Coros : st'[c] = st[c]
    /\ calls' = calls /\ op' = op /\ sent' \in Nat /\ sent' >= sent
    /\ \E E \in SUBSET ((sent + 1)..sent') : accepted' = accepted \cup Served(T) \cup E
    /\ BuffersApart(T) /\ Books(Contents(T), T.hand, accepted', received', Waste')

LEMMA GoesOnInv ==
    ASSUME ChanInv, NEW T, Reached(T), GoesOn(T)
    PROVE  ChanInv' /\ Stays
<1>0. /\ chan \in ChanState /\ op \in [Coros -> Operation] /\ sent \in Nat /\ calls \in Programs
      /\ accepted \subseteq 1..sent /\ T \in ChanState
  BY DEF ChanInv, ChanTypes, Reached
<1>1. /\ chan' \in ChanState /\ chan'.woken = <<>> /\ chan'.winner = T.winner /\ chan'.hand = T.hand
      /\ chan'.buffer = T.buffer /\ chan'.senders = T.senders /\ chan'.receivers = T.receivers
  <2>1. <<>> \in Seq(Coros)
    BY NoWaiters
  <2>2. chan' = [T EXCEPT !.woken = <<>>]
    BY DEF GoesOn
  <2> QED
    BY <1>0, <2>1, <2>2 DEF ChanState
<1>2. sent' \in Nat /\ sent' >= sent /\ op' = op /\ calls' = calls
  BY DEF GoesOn
<1>3. accepted' \subseteq 1..sent' /\ accepted' \cap (1..sent) \subseteq accepted \cup Served(T)
  <2>1. PICK E \in SUBSET ((sent + 1)..sent') : accepted' = accepted \cup Served(T) \cup E
    BY DEF GoesOn
  <2>2. Served(T) \subseteq 1..sent
    BY ServedNew
  <2>3. 1..sent \subseteq 1..sent' /\ E \subseteq 1..sent' /\ E \cap (1..sent) = {}
    BY <1>0, <1>2
  <2> QED
    BY <1>0, <2>1, <2>2, <2>3
<1>4. ChanTypes'
  BY <1>0, <1>1, <1>2, <1>3 DEF ChanTypes
<1>5. ListsNext(T)
  BY <1>1, <1>2, <1>3 DEF ListsNext
<1>6. Nodes'
  BY <1>5, NodesNext
<1>7. Operations'
  <2> SUFFICES ASSUME NEW c \in Coros
               PROVE  IF st'[c] = "chan" THEN op'[c] \in calls'
                      ELSE op'[c] = NoOp /\ chan'.winner[c] = 0
    BY DEF Operations
  <2>1. st'[c] = st[c]
    BY DEF GoesOn
  <2>2. IF st[c] = "chan" THEN op[c] \in calls ELSE op[c] = NoOp /\ chan.winner[c] = 0
    BY DEF ChanInv, Operations
  <2>3. op[c] = NoOp => T.winner[c] = chan.winner[c]
    BY DEF Reached
  <2> QED
    BY <1>1, <1>2, <2>1, <2>2, <2>3
<1>8. Decided'
  <2>1. \A c \in Coros : NoNodes(T, c) => NoNodes(chan', c)
    BY <1>1 DEF NoNodes
  <2>2. \A c \in Coros : chan'.winner[c] # 0 /\ ~op'[c].select => NoNodes(chan', c)
    BY <1>1, <1>2, <2>1 DEF Reached
  <2>3. \A c \in Coros : chan'.winner[c] = 0 => chan'.hand[c] = 0
    BY <1>1 DEF Reached
  <2> QED
    BY <2>2, <2>3 DEF Decided, NoNodes
<1>9. BuffersApart(chan') /\ Contents(chan') = Contents(T)
  BY <1>1, SameBuffers DEF GoesOn
<1>10. Books(Contents(chan'), chan'.hand, accepted', received', Waste')
  BY <1>1, <1>9 DEF GoesOn
<1>11. OnePlace'
  BY <1>1, <1>9, <1>10, BooksNext
<1>12. BuffersApart(chan)'
  BY <1>9 DEF BuffersApart
<1>13. Stays
  BY <1>1 DEF Stays, Reached
<1> QED
  BY <1>4, <1>6, <1>7, <1>8, <1>11, <1>12, <1>13 DEF ChanInv

\* A step that ends the operation of c
Ends(c, T) ==
    /\ chan' = Forget(T, c)
    /\ op' = [op EXCEPT ![c] = NoOp]
    /\ st'[c] # "chan" /\ \A d \in Coros : d # c => st'[d] = st[d]
    /\ calls' = calls /\ sent' = sent /\ accepted' = accepted \cup Served(T)
    /\ BuffersApart(T) /\ NoNodes(T, c)
    /\ Books(Contents(T), [T.hand EXCEPT ![c] = 0], accepted', received', Waste')

LEMMA NoOpIsOperation == NoOp \in Operation
<1>1. <<>> \in Seq(Branch)
  BY EmptySeq
<1> QED
  BY <1>1 DEF NoOp, Operation

LEMMA EndsInv ==
    ASSUME ChanInv, NEW T, Reached(T), NEW c \in Coros, Ends(c, T)
    PROVE  ChanInv' /\ Stays
<1>0. /\ chan \in ChanState /\ op \in [Coros -> Operation] /\ sent \in Nat /\ calls \in Programs
      /\ accepted \subseteq 1..sent /\ T \in ChanState
  BY DEF ChanInv, ChanTypes, Reached
<1>1. /\ chan' \in ChanState /\ chan'.woken = <<>>
      /\ chan'.winner = [T.winner EXCEPT ![c] = 0] /\ chan'.hand = [T.hand EXCEPT ![c] = 0]
      /\ chan'.buffer = T.buffer /\ chan'.senders = T.senders /\ chan'.receivers = T.receivers
  <2>1. <<>> \in Seq(Coros)
    BY NoWaiters
  <2>2. chan' = [T EXCEPT !.winner[c] = 0, !.hand[c] = 0, !.woken = <<>>]
    BY DEF Ends, Forget
  <2> QED
    BY <1>0, <2>1, <2>2 DEF ChanState
<1>w. /\ chan'.winner[c] = 0 /\ chan'.hand[c] = 0
      /\ \A d \in Coros : d # c => chan'.winner[d] = T.winner[d] /\ chan'.hand[d] = T.hand[d]
  BY <1>0, <1>1 DEF ChanState
<1>2. sent' \in Nat /\ sent' >= sent /\ calls' = calls /\ sent' = sent
  BY <1>0 DEF Ends
<1>o. op' \in [Coros -> Operation] /\ op'[c] = NoOp /\ \A d \in Coros : d # c => op'[d] = op[d]
  BY <1>0, NoOpIsOperation DEF Ends
<1>3. accepted' \subseteq 1..sent' /\ accepted' \cap (1..sent) \subseteq accepted \cup Served(T)
  <2>1. accepted' = accepted \cup Served(T)
    BY DEF Ends
  <2>2. Served(T) \subseteq 1..sent
    BY ServedNew
  <2> QED
    BY <1>0, <1>2, <2>1, <2>2
<1>4. ChanTypes'
  BY <1>0, <1>1, <1>2, <1>3, <1>o DEF ChanTypes
<1>5. ListsNext(T)
  <2>1. \A d \in Coros : NoNodes(T, d) \/ op'[d] = op[d]
    BY <1>o DEF Ends
  <2> QED
    BY <1>1, <1>2, <1>3, <2>1 DEF ListsNext
<1>6. Nodes'
  BY <1>5, NodesNext
<1>7. Operations'
  <2> SUFFICES ASSUME NEW d \in Coros
               PROVE  IF st'[d] = "chan" THEN op'[d] \in calls'
                      ELSE op'[d] = NoOp /\ chan'.winner[d] = 0
    BY DEF Operations
  <2>1. CASE d = c
    BY <1>o, <1>w, <2>1 DEF Ends
  <2>2. CASE d # c
    <3>1. st'[d] = st[d]
      BY <2>2 DEF Ends
    <3>2. IF st[d] = "chan" THEN op[d] \in calls ELSE op[d] = NoOp /\ chan.winner[d] = 0
      BY DEF ChanInv, Operations
    <3>3. op[d] = NoOp => T.winner[d] = chan.winner[d]
      BY DEF Reached
    <3> QED
      BY <1>2, <1>o, <1>w, <2>2, <3>1, <3>2, <3>3
  <2> QED
    BY <2>1, <2>2
<1>8. Decided'
  <2>1. \A d \in Coros : NoNodes(T, d) => NoNodes(chan', d)
    BY <1>1 DEF NoNodes
  <2>2. \A d \in Coros : chan'.winner[d] # 0 /\ ~op'[d].select => NoNodes(chan', d)
    BY <1>o, <1>w, <2>1 DEF Reached
  <2>3. \A d \in Coros : chan'.winner[d] = 0 => chan'.hand[d] = 0
    BY <1>w DEF Reached
  <2> QED
    BY <2>2, <2>3 DEF Decided, NoNodes
<1>9. BuffersApart(chan') /\ Contents(chan') = Contents(T)
  BY <1>1, SameBuffers DEF Ends
<1>10. Books(Contents(chan'), chan'.hand, accepted', received', Waste')
  BY <1>1, <1>9 DEF Ends
<1>11. OnePlace'
  BY <1>1, <1>9, <1>10, BooksNext
<1>12. BuffersApart(chan)'
  BY <1>9 DEF BuffersApart
<1>13. Stays
  BY <1>o, <1>w DEF Stays, Reached
<1> QED
  BY <1>4, <1>6, <1>7, <1>8, <1>11, <1>12, <1>13 DEF ChanInv

-----------------------------------------------------------------------------
(* The branches that commit at once, and the values that come back.        *)

\* The receiver that channel_deliver chooses
LEMMA WaitingOpen ==
    ASSUME NEW S \in ChanState, NEW ch \in Chans, Waiting(S, ch) # 0
    PROVE  /\ Waiting(S, ch) \in 1..Len(S.receivers[ch])
           /\ gate_open(S, S.receivers[ch][Waiting(S, ch)])
<1> DEFINE q == S.receivers[ch]
           I == {i \in 1..Len(q) : gate_open(S, q[i])}
<1>1. Waiting(S, ch) = IF I # {} THEN Min(I) ELSE 0
  BY DEF Waiting, SelectInSeq
<1>2. I # {} /\ I \in SUBSET Nat
  BY <1>1
<1>3. \E j \in I : \A k \in I : j <= k
  BY <1>2, LeastElement
<1> HIDE DEF I
<1>4. Min(I) \in I
  BY <1>3 DEF Min
<1> QED
  BY <1>1, <1>2, <1>4 DEF I

\* From chan to T the value v is handed to d.
Given(T, d, v) ==
    /\ Reached(T) /\ Served(T) = {} /\ T.buffer = chan.buffer
    /\ d \in Coros /\ chan.winner[d] = 0 /\ T.hand = [chan.hand EXCEPT ![d] = v]

LEMMA DeliverGives ==
    ASSUME ChanInv, NEW ch \in Chans, NEW v \in Nat, Waiting(chan, ch) # 0
    PROVE  \E d : Given(channel_deliver(chan, ch, v), d, v)
<1> DEFINE i == Waiting(chan, ch)
           n == chan.receivers[ch][i]
           q == RemoveAt(chan.receivers[ch], i)
           T == [chan EXCEPT !.receivers[ch] = q]
           U == Settle(T, n, v)
<1>0. chan \in ChanState /\ Reached(chan) /\ Served(chan) = {}
  BY StartReached DEF Reached
<1>1. i \in 1..Len(chan.receivers[ch]) /\ gate_open(chan, n) /\ chan.receivers[ch] \in Seq(Node)
  BY <1>0, WaitingOpen DEF ChanState
<1>2. n \in Node /\ q \in Seq(Node)
  BY <1>1, RemoveAtProperties
<1>3. channel_deliver(chan, ch, v) = U
  BY DEF channel_deliver
<1>q. q = RemoveAt(chan.receivers[ch], i) /\ n = chan.receivers[ch][i]
  OBVIOUS
<1> HIDE DEF q, n, i
<1>4. /\ T \in ChanState /\ T.winner = chan.winner /\ T.hand = chan.hand /\ T.buffer = chan.buffer
      /\ T.senders = chan.senders /\ T.receivers = [chan.receivers EXCEPT ![ch] = q]
  BY <1>0, <1>2 DEF ChanState
<1> HIDE DEF T
<1>5. /\ U \in ChanState /\ U.winner = [T.winner EXCEPT ![n[1]] = n[2]]
      /\ U.hand = [T.hand EXCEPT ![n[1]] = v]
      /\ U.senders = T.senders /\ U.receivers = T.receivers /\ U.buffer = T.buffer
  <2>1. T \in ChanState /\ n \in Node
    BY <1>2, <1>4
  <2> QED
    BY <2>1, SettleFields
<1> HIDE DEF U
<1>6. chan.winner[n[1]] = 0
  BY <1>1 DEF gate_open
<1>7. U.receivers = [chan.receivers EXCEPT ![ch] = RemoveAt(@, i)]
  BY <1>q, <1>4, <1>5
<1>8. ReceiverStep(chan, U, ch, n, v)
  BY <1>1, <1>q, <1>4, <1>5, <1>6, <1>7 DEF ReceiverStep
<1>9. Reached(U) /\ Served(U) = Served(chan) /\ n[1] \in Coros
  BY <1>0, <1>5, <1>8, ReceiverServed
<1>10. Given(U, n[1], v)
  BY <1>0, <1>4, <1>5, <1>6, <1>9 DEF Given
<1> QED
  BY <1>3, <1>10

\* From chan to T only the buffer of ch changes, to q.
Refilled(T, ch, q) == T = [chan EXCEPT !.buffer[ch] = q]

LEMMA RefilledReached ==
    ASSUME ChanInv, NEW ch \in Chans, NEW q \in Seq(Nat), Distinct(q), NEW T, Refilled(T, ch, q)
    PROVE  /\ Reached(T) /\ Served(T) = {} /\ T.hand = chan.hand /\ T.buffer[ch] = q
           /\ OneBuffer(chan, T, ch)
<1>0. chan \in ChanState /\ Reached(chan) /\ Served(chan) = {}
  BY StartReached DEF Reached
<1>1. /\ T \in ChanState /\ T.winner = chan.winner /\ T.hand = chan.hand
      /\ T.senders = chan.senders /\ T.receivers = chan.receivers
      /\ T.buffer = [chan.buffer EXCEPT ![ch] = q]
  BY <1>0 DEF ChanState, Refilled
<1>2. T.buffer[ch] = q /\ \A dh \in Chans : dh # ch => T.buffer[dh] = chan.buffer[dh]
  BY <1>0, <1>1 DEF ChanState
<1>3. OneBuffer(chan, T, ch)
  BY <1>2 DEF OneBuffer
<1>4. \A dh \in Chans : /\ ToSet(T.senders[dh]) \subseteq ToSet(chan.senders[dh])
                        /\ ToSet(T.receivers[dh]) \subseteq ToSet(chan.receivers[dh])
                        /\ Distinct(T.senders[dh]) /\ Distinct(T.receivers[dh])
  BY <1>0, <1>1 DEF Reached
<1>5. Reached(T) /\ Served(T) = Served(chan)
  BY <1>0, <1>1, <1>4, FewerNodes
<1> QED
  BY <1>0, <1>1, <1>2, <1>3, <1>5

\* From chan to T the value v enters a buffer, last or first.
Stored(T, v) ==
    /\ Reached(T) /\ Served(T) = {} /\ T.hand = chan.hand
    /\ BuffersApart(T) /\ Contents(T) = Contents(chan) \cup {v}

LEMMA AppendStores ==
    ASSUME ChanInv, NEW ch \in Chans, NEW v \in Nat, v \notin Contents(chan)
    PROVE  /\ Stored([chan EXCEPT !.buffer[ch] = Append(@, v)], v)
           /\ Stored([chan EXCEPT !.buffer[ch] = Cons(v, @)], v)
<1>1. /\ BuffersApart(chan) /\ chan.buffer[ch] \in Seq(Nat) /\ Distinct(chan.buffer[ch])
      /\ v \notin ToSet(chan.buffer[ch])
  BY ContentsAre DEF ChanInv, ChanTypes, ChanState, BuffersApart
<1>2. ASSUME NEW T, NEW q \in Seq(Nat), Distinct(q), ToSet(q) = ToSet(chan.buffer[ch]) \cup {v},
             Refilled(T, ch, q)
      PROVE  Stored(T, v)
  <2>1. /\ Reached(T) /\ Served(T) = {} /\ T.hand = chan.hand /\ T.buffer[ch] = q
        /\ OneBuffer(chan, T, ch)
    BY <1>2, RefilledReached
  <2>2. BuffersApart(T) /\ Contents(T) = Contents(chan) \cup {v}
    BY <1>1, <1>2, <2>1, ValueEnters
  <2> QED
    BY <2>1, <2>2 DEF Stored
<1>3. Stored([chan EXCEPT !.buffer[ch] = Append(@, v)], v)
  <2> DEFINE q == Append(chan.buffer[ch], v)
             T == [chan EXCEPT !.buffer[ch] = q]
  <2>1. q \in Seq(Nat) /\ Distinct(q) /\ ToSet(q) = ToSet(chan.buffer[ch]) \cup {v}
    BY <1>1, AppendToSet
  <2>2. Refilled(T, ch, q)
    BY DEF Refilled
  <2>3. Stored(T, v)
    <3> HIDE DEF q, T
    <3> QED
      BY <1>2, <2>1, <2>2
  <2> QED
    BY <2>3
<1>4. Stored([chan EXCEPT !.buffer[ch] = Cons(v, @)], v)
  <2> DEFINE q == Cons(v, chan.buffer[ch])
             T == [chan EXCEPT !.buffer[ch] = q]
             one == <<v>>
  <2>1. one \in Seq(Nat) /\ Distinct(one) /\ ToSet(one) = {v}
    BY OneHandle
  <2>2. q = one \o chan.buffer[ch]
    BY DEF Cons
  <2>3. q \in Seq(Nat) /\ Distinct(q) /\ ToSet(q) = ToSet(chan.buffer[ch]) \cup {v}
    <3> HIDE DEF q, one
    <3> QED
      BY <1>1, <2>1, <2>2, ConcatToSet
  <2>4. Refilled(T, ch, q)
    BY DEF Refilled
  <2>5. Stored(T, v)
    <3> HIDE DEF q, T, one
    <3> QED
      BY <1>2, <2>3, <2>4
  <2> QED
    BY <2>5
<1> QED
  BY <1>3, <1>4

\* The value that was handed over or stored is one more in the books.
LEMMA GivenBooks ==
    ASSUME ChanInv, NEW T, NEW d, NEW v \in Nat, Given(T, d, v),
           NEW h \in [Coros -> Nat], h[d] = 0, NEW A, NEW R, NEW X,
           Books(Contents(chan), h, A, R, X), v # 0, v \notin A
    PROVE  BuffersApart(T) /\ Books(Contents(T), [h EXCEPT ![d] = v], A \cup {v}, R, X)
<1>1. d \in Coros /\ T.buffer = chan.buffer /\ BuffersApart(chan)
  BY DEF Given, ChanInv
<1>2. BuffersApart(T) /\ Contents(T) = Contents(chan)
  BY <1>1, SameBuffers
<1> QED
  BY <1>1, <1>2, BooksGive

LEMMA StoredBooks ==
    ASSUME NEW T, NEW v, Stored(T, v), NEW h, NEW A, NEW R, NEW X,
           Books(Contents(chan), h, A, R, X), v \notin A
    PROVE  BuffersApart(T) /\ Books(Contents(T), h, A \cup {v}, R, X)
<1>1. BuffersApart(T) /\ Contents(T) = Contents(chan) \cup {v}
  BY DEF Stored
<1>2. {v} \cap A = {}
  OBVIOUS
<1>3. Books(Contents(chan) \cup {v}, h, A \cup {v}, R, X)
  BY <1>2, BooksServe
<1> QED
  BY <1>1, <1>3

\* commit_accept: a new value has its place.
LEMMA AcceptBooks ==
    ASSUME ChanInv, NEW ch \in Chans, NEW v \in Nat, v > sent
    PROVE  /\ Reached(Accept(chan, ch, v)) /\ Served(Accept(chan, ch, v)) = {}
           /\ BuffersApart(Accept(chan, ch, v))
           /\ Books(Contents(Accept(chan, ch, v)), Accept(chan, ch, v).hand, accepted \cup {v},
                    received, Waste)
<1> DEFINE T == Accept(chan, ch, v)
<1>1. v # 0 /\ v \notin accepted /\ v \notin Contents(chan)
  <2>1. accepted \subseteq 1..sent /\ sent \in Nat
    BY DEF ChanInv, ChanTypes
  <2> QED
    BY <2>1, StartKept
<1>2. Books(Contents(chan), chan.hand, accepted, received, Waste)
  BY BooksNow
<1>3. CASE Waiting(chan, ch) # 0
  <2>1. T = channel_deliver(chan, ch, v)
    BY <1>3 DEF Accept
  <2>2. PICK d : Given(T, d, v)
    BY <1>3, <2>1, DeliverGives
  <2> HIDE DEF T
  <2>3. d \in Coros /\ chan.hand \in [Coros -> Nat] /\ chan.hand[d] = 0
    BY <2>2 DEF Given, ChanInv, ChanTypes, ChanState, Decided
  <2>4. BuffersApart(T) /\ Books(Contents(T), [chan.hand EXCEPT ![d] = v], accepted \cup {v}, received, Waste)
    BY <1>1, <1>2, <2>2, <2>3, GivenBooks
  <2>5. Reached(T) /\ Served(T) = {} /\ T.hand = [chan.hand EXCEPT ![d] = v]
    BY <2>2 DEF Given
  <2> QED
    BY <2>4, <2>5 DEF T
<1>4. CASE Waiting(chan, ch) = 0
  <2>1. T = [chan EXCEPT !.buffer[ch] = Append(@, v)]
    BY <1>4 DEF Accept
  <2>2. Stored(T, v)
    BY <1>1, <2>1, AppendStores
  <2> HIDE DEF T
  <2>3. BuffersApart(T) /\ Books(Contents(T), chan.hand, accepted \cup {v}, received, Waste)
    BY <1>1, <1>2, <2>2, StoredBooks
  <2>4. Reached(T) /\ Served(T) = {} /\ T.hand = chan.hand
    BY <2>2 DEF Stored
  <2> QED
    BY <2>3, <2>4 DEF T
<1> QED
  BY <1>3, <1>4

\* commit_take: the value is received, and the senders that enter the buffer are
\* accepted.
LEMMA TakeBooks ==
    ASSUME ChanInv, NEW ch \in Chans, CanTake(chan, ch)
    PROVE  /\ Reached(TakeNext(chan, ch)) /\ BuffersApart(TakeNext(chan, ch))
           /\ Books(Contents(TakeNext(chan, ch)), TakeNext(chan, ch).hand,
                    accepted \cup Served(TakeNext(chan, ch)),
                    received \cup {NextValue(chan, ch)}, Waste)
<1> DEFINE T == TakeNext(chan, ch)
           C == Contents(chan)
<1>1. Books(C, chan.hand, accepted, received, Waste)
  BY BooksNow
<1>2. C \subseteq accepted /\ chan \in ChanState /\ BuffersApart(chan) /\ Reached(chan) /\ Served(chan) = {}
  BY StartKept, StartReached DEF ChanInv, ChanTypes
<1>3. CASE chan.buffer[ch] # <<>>
  <2> DEFINE q == Tail(chan.buffer[ch])
             v == Head(chan.buffer[ch])
             U == [chan EXCEPT !.buffer[ch] = q]
  <2>1. chan.buffer[ch] \in Seq(Nat) /\ Distinct(chan.buffer[ch])
    BY <1>2 DEF ChanState, BuffersApart
  <2>2. /\ q \in Seq(Nat) /\ Distinct(q) /\ v \in ToSet(chan.buffer[ch])
        /\ ToSet(q) = ToSet(chan.buffer[ch]) \ {v}
    BY <1>3, <2>1, TailProperties
  <2>3. T = channel_promote_senders(U, ch) /\ NextValue(chan, ch) = v
    BY <1>3 DEF TakeNext, NextValue
  <2>4. Refilled(U, ch, q)
    BY DEF Refilled
  <2> HIDE DEF q, v, U, T
  <2>5. /\ Reached(U) /\ Served(U) = {} /\ U.hand = chan.hand /\ U.buffer[ch] = q
        /\ OneBuffer(chan, U, ch)
    BY <2>2, <2>4, RefilledReached
  <2>6. BuffersApart(U) /\ Contents(U) = C \ {v} /\ v \in C
    BY <1>2, <2>2, <2>5, ValueLeaves
  <2>7. Kept(C \ {v}, U)
    BY <2>5, <2>6 DEF Kept
  <2>8. Kept(C \ {v}, T)
    BY <1>2, <2>3, <2>7, PromoteAllKept
  <2>9. Reached(T) /\ T.hand = chan.hand /\ BuffersApart(T) /\ Contents(T) = (C \ {v}) \cup Served(T)
    BY <2>8 DEF Kept
  <2>10. Books(C \ {v}, chan.hand, accepted, received \cup {v}, Waste)
    BY <1>1, <2>6, BooksReceive
  <2>11. Served(T) \cap accepted = {}
    BY ServedNew
  <2>12. Books((C \ {v}) \cup Served(T), chan.hand, accepted \cup Served(T), received \cup {v}, Waste)
    BY <2>10, <2>11, BooksServe
  <2>13. Books(Contents(T), T.hand, accepted \cup Served(T), received \cup {v}, Waste)
    BY <2>9, <2>12
  <2> QED
    BY <2>3, <2>9, <2>13 DEF T
<1>4. CASE chan.buffer[ch] = <<>>
  <2> DEFINE n == Head(chan.senders[ch])
             v == n[3]
  <2>1. Pending(chan, ch)
    BY <1>4 DEF CanTake
  <2>2. T = channel_take_pending_sender(chan, ch) /\ NextValue(chan, ch) = v
    BY <1>4 DEF TakeNext, NextValue
  <2>3. T \in ChanState /\ SenderStep(chan, T, ch, n) /\ T.buffer = chan.buffer
    BY <1>2, <2>1, <2>2, TakePendingIs
  <2> HIDE DEF n, T
  <2>4. Reached(T) /\ Served(T) = Served(chan) \cup {v} /\ v \notin accepted
    BY <1>2, <2>3, SenderServed
  <2>5. T.hand = chan.hand
    BY <2>3 DEF SenderStep
  <2>6. BuffersApart(T) /\ Contents(T) = C
    BY <1>2, <2>3, SameBuffers
  <2> HIDE DEF v
  <2>7. Served(T) = {v} /\ {v} \cap accepted = {}
    BY <1>2, <2>4
  <2>8. Books(C \cup {v}, chan.hand, accepted \cup {v}, received, Waste)
    BY <1>1, <2>7, BooksServe
  <2>9. v \in C \cup {v} /\ (C \cup {v}) \ {v} = C
    BY <1>2, <2>4
  <2>10. Books((C \cup {v}) \ {v}, chan.hand, accepted \cup {v}, received \cup {v}, Waste)
    BY <2>8, <2>9, BooksReceive
  <2>11. Books(Contents(T), T.hand, accepted \cup Served(T), received \cup {v}, Waste)
    BY <2>5, <2>6, <2>7, <2>9, <2>10
  <2> QED
    BY <2>2, <2>4, <2>6, <2>11 DEF T
<1> QED
  BY <1>3, <1>4

-----------------------------------------------------------------------------
(* The steps of a program that uses channels.                              *)

LEMMA FirstReadyIndex ==
    ASSUME NEW bs \in Seq(Branch)
    PROVE  /\ FirstReady(bs) # 0 =>
                 FirstReady(bs) \in 1..Len(bs) /\ Ready(chan, bs[FirstReady(bs)])
           /\ FirstReady(bs) = 0 => \A i \in 1..Len(bs) : ~Ready(chan, bs[i])
<1> DEFINE I == {i \in 1..Len(bs) : Ready(chan, bs[i])}
<1>1. FirstReady(bs) = IF I # {} THEN Min(I) ELSE 0
  BY DEF FirstReady, SelectInSeq
<1>2. CASE I # {}
  <2>1. I \in SUBSET Nat /\ 0 \notin I
    OBVIOUS
  <2>2. \E j \in I : \A k \in I : j <= k
    BY <1>2, <2>1, LeastElement
  <2> HIDE DEF I
  <2>3. Min(I) \in I
    BY <2>2 DEF Min
  <2>4. FirstReady(bs) \in I /\ FirstReady(bs) # 0
    BY <1>1, <1>2, <2>1, <2>3
  <2> QED
    BY <2>4 DEF I
<1>3. CASE I = {}
  BY <1>1, <1>3
<1> QED
  BY <1>2, <1>3

\* What is known of a call
LEMMA CallFacts ==
    ASSUME ChanInv, NEW s \in calls
    PROVE  /\ s \in Operation /\ s.branches \in Seq(Branch) /\ Offered(s.branches) \in Nat
           /\ sent \in Nat /\ sent + Offered(s.branches) \in Nat
           /\ sent + Offered(s.branches) >= sent
<1>1. calls \in Programs /\ sent \in Nat
  BY DEF ChanInv, ChanTypes
<1>2. s \in Operation
  BY <1>1, ChannelAssumption
<1>3. s.branches \in Seq(Branch)
  BY <1>2 DEF Operation
<1>4. Offered(s.branches) \in Nat
  BY <1>1, <1>3, ValuesOffered
<1> QED
  BY <1>1, <1>2, <1>3, <1>4

LEMMA CallNowInv ==
    ASSUME ChanInv, Unused, NEW c \in Coros, NEW s \in calls, CallNow(c, s),
           sent' = sent + Offered(s.branches), UNCHANGED <<calls, Waste>>
    PROVE  ChanInv' /\ Stays
<1> DEFINE i == FirstReady(s.branches)
           b == s.branches[i]
           v == ValueOf(s.branches, i)
           T == Commit(chan, b, v)
           E == IF b.dir = "send" THEN {v} ELSE {}
           R == IF b.dir = "recv" /\ CanTake(chan, b.ch) THEN {NextValue(chan, b.ch)} ELSE {}
<1>0. /\ s.branches \in Seq(Branch) /\ sent' \in Nat /\ sent' >= sent /\ sent \in Nat
      /\ sent' = sent + Offered(s.branches)
  BY CallFacts
<1>1. /\ i # 0 /\ Proceeds(c, "run", T.woken) /\ chan' = [T EXCEPT !.woken = <<>>]
      /\ accepted' = accepted \cup Served(T) \cup E /\ received' = received \cup R /\ op' = op
  BY DEF CallNow
<1>2. i \in 1..Len(s.branches)
  BY <1>0, <1>1, FirstReadyIndex
<1> HIDE DEF i
<1>3. b \in Branch /\ v \in Nat /\ (b.dir = "send" => v > sent /\ v <= sent')
  BY <1>0, <1>2, ValuesOffered
<1> HIDE DEF b, v
<1>4. b.ch \in Chans /\ b.dir \in {"send", "recv"}
  BY <1>3 DEF Branch
<1>5. \A d \in Coros : st'[d] = st[d]
  <2>1. st[c] = "run" /\ st' = [st EXCEPT ![c] = "run"]
    BY <1>1 DEF Proceeds
  <2> QED
    BY <2>1 DEF Unused
<1>6. E \in SUBSET ((sent + 1)..sent')
  BY <1>0, <1>3
<1>7. /\ Reached(T) /\ BuffersApart(T)
      /\ Books(Contents(T), T.hand, accepted \cup Served(T) \cup E, received \cup R, Waste)
  <2>1. CASE b.dir = "send"
    <3>1. T = Accept(chan, b.ch, v)
      BY <2>1 DEF Commit
    <3>2. E = {v} /\ R = {}
      BY <2>1
    <3> HIDE DEF T, E, R
    <3>3. /\ Reached(T) /\ Served(T) = {} /\ BuffersApart(T)
          /\ Books(Contents(T), T.hand, accepted \cup {v}, received, Waste)
      BY <1>3, <1>4, <2>1, <3>1, AcceptBooks
    <3>4. accepted \cup Served(T) \cup E = accepted \cup {v} /\ received \cup R = received
      BY <3>2, <3>3
    <3> QED
      BY <3>3, <3>4
  <2>2. CASE b.dir = "recv" /\ CanTake(chan, b.ch)
    <3>1. T = TakeNext(chan, b.ch)
      BY <2>2 DEF Commit
    <3>2. E = {} /\ R = {NextValue(chan, b.ch)}
      BY <2>2
    <3> HIDE DEF T, E, R
    <3>3. /\ Reached(T) /\ BuffersApart(T)
          /\ Books(Contents(T), T.hand, accepted \cup Served(T), received \cup R, Waste)
      BY <1>4, <2>2, <3>1, <3>2, TakeBooks
    <3>4. accepted \cup Served(T) \cup E = accepted \cup Served(T)
      BY <3>2
    <3> QED
      BY <3>3, <3>4
  <2>3. CASE b.dir = "recv" /\ ~CanTake(chan, b.ch)
    <3>1. T = chan
      BY <2>3 DEF Commit
    <3>2. E = {} /\ R = {}
      BY <2>3
    <3> HIDE DEF T, E, R
    <3>3. Reached(T) /\ Served(T) = {} /\ BuffersApart(T)
      BY <3>1, StartReached DEF ChanInv
    <3>4. Books(Contents(T), T.hand, accepted, received, Waste)
      BY <3>1, BooksNow
    <3>5. accepted \cup Served(T) \cup E = accepted /\ received \cup R = received
      BY <3>2, <3>3
    <3> QED
      BY <3>3, <3>4, <3>5
  <2> QED
    BY <1>4, <2>1, <2>2, <2>3
<1> HIDE DEF T, E, R
<1>8. GoesOn(T)
  BY <1>0, <1>1, <1>5, <1>6, <1>7 DEF GoesOn
<1> QED
  BY <1>7, <1>8, GoesOnInv

\* A call whose branches all wait is the operation of c.
Suspends(c, s) ==
    /\ st[c] = "run" /\ st' = [st EXCEPT ![c] = "chan"]
    /\ op' = [op EXCEPT ![c] = s] /\ sent' = sent + Offered(s.branches)
    /\ UNCHANGED <<calls, accepted, received, Waste>>

LEMMA IdleHasNoNodes ==
    ASSUME ChanInv, NEW c \in Coros, st[c] # "chan"
    PROVE  NoNodes(chan, c) /\ op[c] = NoOp /\ chan.winner[c] = 0
<1>1. op[c] = NoOp /\ chan.winner[c] = 0
  BY DEF ChanInv, Operations
<1>2. ASSUME NEW ch \in Chans
      PROVE  /\ \A n \in ToSet(chan.senders[ch]) : n[1] # c
             /\ \A n \in ToSet(chan.receivers[ch]) : n[1] # c
  BY <1>1, NodeFacts, BranchOfCall
<1> QED
  BY <1>1, <1>2 DEF NoNodes

\* The lists of the next state, whatever was armed
LEMMA ArmedNodes ==
    ASSUME ChanInv, NEW c \in Coros, st[c] # "chan", NEW s \in calls, Suspends(c, s),
           Armed(chan', c, s.branches, Len(s.branches))
    PROVE  Nodes'
<1> DEFINE bs == s.branches
<1>0. /\ bs \in Seq(Branch) /\ Offered(bs) \in Nat /\ sent \in Nat /\ Len(bs) \in Nat
      /\ sent' = sent + Offered(bs) /\ sent' >= sent /\ sent' \in Nat
  BY CallFacts, LenProperties DEF Suspends
<1>1. op'[c] = s /\ \A d \in Coros : d # c => op'[d] = op[d]
  BY DEF Suspends, ChanInv, ChanTypes
<1>2. NoNodes(chan, c)
  BY IdleHasNoNodes
<1>3. accepted' = accepted /\ accepted \subseteq 1..sent
  BY DEF Suspends, ChanInv, ChanTypes
<1>4. ASSUME NEW j \in 1..Len(bs)
      PROVE  LET n == NewNode(c, bs, j) IN
             /\ n[1] = c /\ n[2] = j
             /\ bs[j].dir = "send" => n[3] = ValueOf(bs, j) /\ n[3] \in (sent + 1)..sent'
             /\ bs[j].dir = "recv" => n[3] = 0
  <2>1. bs[j].dir = "send" => ValueOf(bs, j) \in (sent + 1)..sent'
    BY <1>0, ValuesOffered
  <2> QED
    BY <2>1 DEF NewNode, ArmNode
<1>5. ASSUME NEW ch \in Chans, NEW n \in ToSet(chan'.senders[ch])
      PROVE  \/ n \in ToSet(chan.senders[ch])
             \/ \E j \in 1..Len(bs) : bs[j].dir = "send" /\ bs[j].ch = ch /\ n = NewNode(c, bs, j)
  BY DEF Armed
<1>6. ASSUME NEW ch \in Chans, NEW n \in ToSet(chan'.receivers[ch])
      PROVE  \/ n \in ToSet(chan.receivers[ch])
             \/ \E j \in 1..Len(bs) : bs[j].dir = "recv" /\ bs[j].ch = ch /\ n = NewNode(c, bs, j)
  BY DEF Armed
<1>7. ASSUME NEW ch \in Chans, NEW n \in ToSet(chan'.senders[ch])
      PROVE  IsBranch(n, "send", ch)' /\ n[3] \in 1..sent' /\ n[3] \notin accepted'
  <2>1. CASE n \in ToSet(chan.senders[ch])
    <3>1. n \in Offers(chan) /\ IsBranch(n, "send", ch)
      BY <2>1, NodeFacts
    <3>2. n[1] \in Coros /\ n[3] \in 1..sent /\ n[3] \notin accepted
      BY <3>1, NodeFacts
    <3>3. n[1] # c
      BY <1>2, <2>1 DEF NoNodes
    <3>4. op'[n[1]] = op[n[1]]
      BY <1>1, <3>2, <3>3
    <3>5. IsBranch(n, "send", ch)'
      BY <3>1, <3>4 DEF IsBranch
    <3> QED
      BY <1>0, <1>3, <3>2, <3>5
  <2>2. ASSUME NEW j \in 1..Len(bs), bs[j].dir = "send", bs[j].ch = ch, n = NewNode(c, bs, j)
        PROVE  IsBranch(n, "send", ch)' /\ n[3] \in 1..sent' /\ n[3] \notin accepted'
    <3>1. n[1] = c /\ n[2] = j /\ n[3] \in (sent + 1)..sent'
      BY <1>4, <2>2
    <3>2. IsBranch(n, "send", ch)'
      BY <1>1, <2>2, <3>1 DEF IsBranch
    <3>3. n[3] \in 1..sent' /\ n[3] \notin accepted'
      BY <1>0, <1>3, <3>1
    <3> QED
      BY <3>2, <3>3
  <2> QED
    BY <1>5, <2>1, <2>2
<1>8. ASSUME NEW ch \in Chans, NEW n \in ToSet(chan'.receivers[ch])
      PROVE  IsBranch(n, "recv", ch)' /\ n[3] = 0
  <2>1. CASE n \in ToSet(chan.receivers[ch])
    <3>1. n[1] \in Coros /\ IsBranch(n, "recv", ch)
      BY <2>1, NodeFacts
    <3>2. n[3] = 0
      BY <2>1 DEF ChanInv, Nodes
    <3>3. n[1] # c
      BY <1>2, <2>1 DEF NoNodes
    <3>4. op'[n[1]] = op[n[1]]
      BY <1>1, <3>1, <3>3
    <3> QED
      BY <3>1, <3>2, <3>4 DEF IsBranch
  <2>2. ASSUME NEW j \in 1..Len(bs), bs[j].dir = "recv", bs[j].ch = ch, n = NewNode(c, bs, j)
        PROVE  IsBranch(n, "recv", ch)' /\ n[3] = 0
    <3>1. n[1] = c /\ n[2] = j /\ n[3] = 0
      BY <1>4, <2>2
    <3> QED
      BY <1>1, <2>2, <3>1 DEF IsBranch
  <2> QED
    BY <1>6, <2>1, <2>2
<1>9. ASSUME NEW m \in Offers(chan'), NEW n \in Offers(chan'),
             m[3] = n[3] \/ (m[1] = n[1] /\ m[2] = n[2])
      PROVE  m = n
  <2>1. ASSUME NEW k \in Offers(chan')
        PROVE  \/ k \in Offers(chan) /\ k[1] # c /\ k[3] <= sent
               \/ \E j \in 1..Len(bs) : bs[j].dir = "send" /\ k = NewNode(c, bs, j)
    <3>1. PICK ch \in Chans : k \in ToSet(chan'.senders[ch])
      BY OffersAre
    <3>2. CASE k \in ToSet(chan.senders[ch])
      <4>1. k \in Offers(chan) /\ k[1] # c
        BY <1>2, <3>2, OffersAre DEF NoNodes
      <4>2. k[3] \in 1..sent
        BY <4>1, NodeFacts
      <4> QED
        BY <1>0, <4>1, <4>2
    <3> QED
      BY <1>5, <3>1, <3>2
  <2>2. CASE m \in Offers(chan) /\ n \in Offers(chan)
    BY <1>9, <2>2 DEF ChanInv, Nodes
  <2>3. ASSUME NEW k \in Offers(chan), k[1] # c, k[3] <= sent, NEW j \in 1..Len(bs), bs[j].dir = "send"
        PROVE  k[3] # NewNode(c, bs, j)[3] /\ k[1] # NewNode(c, bs, j)[1]
    BY <1>0, <1>4, <2>3
  <2>4. ASSUME NEW j \in 1..Len(bs), NEW k \in 1..Len(bs), bs[j].dir = "send", bs[k].dir = "send",
               m = NewNode(c, bs, j), n = NewNode(c, bs, k)
        PROVE  m = n
    <3>1. m[2] = j /\ n[2] = k /\ m[3] = ValueOf(bs, j) /\ n[3] = ValueOf(bs, k)
      BY <1>4, <2>4
    <3>2. j < k => ValueOf(bs, j) # ValueOf(bs, k)
      BY <1>0, <2>4, ValuesOffered
    <3>3. k < j => ValueOf(bs, j) # ValueOf(bs, k)
      BY <1>0, <2>4, ValuesOffered
    <3>4. j = k
      BY <1>0, <1>9, <3>1, <3>2, <3>3
    <3> QED
      BY <2>4, <3>4
  <2> QED
    BY <1>9, <2>1, <2>2, <2>3, <2>4
<1>10. \A ch \in Chans : Distinct(chan'.senders[ch]) /\ Distinct(chan'.receivers[ch])
  BY DEF Armed
<1> QED
  BY <1>7, <1>8, <1>9, <1>10 DEF Nodes, Offers

LEMMA SuspendsInv ==
    ASSUME ChanInv, Unused, NEW c \in Coros, NEW s \in calls, Suspends(c, s),
           Armed(chan', c, s.branches, Len(s.branches))
    PROVE  ChanInv' /\ Stays
<1> DEFINE bs == s.branches
<1>0. /\ chan \in ChanState /\ op \in [Coros -> Operation] /\ calls \in Programs
      /\ accepted \subseteq 1..sent /\ chan.woken = <<>>
  BY DEF ChanInv, ChanTypes
<1>1. /\ chan' \in ChanState /\ chan'.winner = chan.winner /\ chan'.hand = chan.hand
      /\ chan'.buffer = chan.buffer /\ chan'.woken = chan.woken
  BY DEF Armed
<1>2. /\ s \in Operation /\ sent \in Nat /\ sent' \in Nat /\ sent' >= sent /\ st[c] # "chan"
  BY CallFacts DEF Suspends
<1>3. /\ calls' = calls /\ accepted' = accepted /\ received' = received /\ Waste' = Waste
  BY DEF Suspends
<1>4. /\ op' \in [Coros -> Operation] /\ op'[c] = s /\ st'[c] = "chan"
      /\ \A d \in Coros : d # c => op'[d] = op[d] /\ st'[d] = st[d]
  BY <1>0, <1>2 DEF Suspends, Unused
<1>5. NoNodes(chan, c) /\ chan.winner[c] = 0
  BY <1>2, IdleHasNoNodes
<1>6. Nodes'
  BY <1>2, ArmedNodes
<1>7. ChanTypes'
  BY <1>0, <1>1, <1>2, <1>3, <1>4 DEF ChanTypes
<1>8. Operations'
  <2> SUFFICES ASSUME NEW d \in Coros
               PROVE  IF st'[d] = "chan" THEN op'[d] \in calls'
                      ELSE op'[d] = NoOp /\ chan'.winner[d] = 0
    BY DEF Operations
  <2>1. IF st[d] = "chan" THEN op[d] \in calls ELSE op[d] = NoOp /\ chan.winner[d] = 0
    BY DEF ChanInv, Operations
  <2> QED
    BY <1>1, <1>3, <1>4, <2>1
<1>9. Decided'
  <2>1. ASSUME NEW d \in Coros, d # c, NoNodes(chan, d)
        PROVE  NoNodes(chan', d)
    <3>1. \A j \in 1..Len(bs) : NewNode(c, bs, j)[1] = c
      BY DEF NewNode, ArmNode
    <3>2. ASSUME NEW ch \in Chans, NEW n \in ToSet(chan'.senders[ch])
          PROVE  n[1] # d
      <4>1. n \in ToSet(chan.senders[ch]) \/ \E j \in 1..Len(bs) : n = NewNode(c, bs, j)
        BY DEF Armed
      <4> QED
        BY <2>1, <3>1, <4>1 DEF NoNodes
    <3>3. ASSUME NEW ch \in Chans, NEW n \in ToSet(chan'.receivers[ch])
          PROVE  n[1] # d
      <4>1. n \in ToSet(chan.receivers[ch]) \/ \E j \in 1..Len(bs) : n = NewNode(c, bs, j)
        BY DEF Armed
      <4> QED
        BY <2>1, <3>1, <4>1 DEF NoNodes
    <3> QED
      BY <3>2, <3>3 DEF NoNodes
  <2>2. \A d \in Coros : chan'.winner[d] # 0 /\ ~op'[d].select => NoNodes(chan', d)
    <3> TAKE d \in Coros
    <3>1. chan.winner[d] # 0 /\ ~op[d].select => NoNodes(chan, d)
      BY DEF ChanInv, Decided
    <3> QED
      BY <1>1, <1>4, <1>5, <2>1, <3>1
  <2>3. \A d \in Coros : chan'.winner[d] = 0 => chan'.hand[d] = 0
    BY <1>1 DEF ChanInv, Decided
  <2> QED
    BY <2>2, <2>3 DEF Decided, NoNodes
<1>10. BuffersApart(chan') /\ Contents(chan') = Contents(chan)
  BY <1>1, SameBuffers DEF ChanInv
<1>11. Books(Contents(chan'), chan'.hand, accepted', received', Waste')
  BY <1>1, <1>3, <1>10, BooksNow
<1>12. OnePlace'
  BY <1>1, <1>10, <1>11, BooksNext
<1>13. BuffersApart(chan)'
  BY <1>10 DEF BuffersApart
<1>14. Stays
  BY <1>1 DEF Stays
<1> QED
  BY <1>6, <1>7, <1>8, <1>9, <1>12, <1>13, <1>14 DEF ChanInv

\* A call that was rejected is the operation of c, which has no node.
Joins(c, s, T) ==
    /\ st[c] = "run" /\ st' = [st EXCEPT ![c] = "chan"]
    /\ op' = [op EXCEPT ![c] = s] /\ sent' = sent + Offered(s.branches)
    /\ chan' = [T EXCEPT !.woken = <<>>] /\ accepted' = accepted \cup Served(T)
    /\ UNCHANGED <<calls, received, Waste>>

LEMMA JoinsInv ==
    ASSUME ChanInv, Unused, NEW c \in Coros, NEW s \in calls, NEW T,
           Kept(Contents(chan), T), Joins(c, s, T)
    PROVE  ChanInv' /\ Stays
<1>0. /\ chan \in ChanState /\ op \in [Coros -> Operation] /\ calls \in Programs
      /\ accepted \subseteq 1..sent /\ Reached(T) /\ T \in ChanState
  BY DEF ChanInv, ChanTypes, Kept, Reached
<1>1. /\ chan' \in ChanState /\ chan'.woken = <<>> /\ chan'.winner = T.winner /\ chan'.hand = T.hand
      /\ chan'.buffer = T.buffer /\ chan'.senders = T.senders /\ chan'.receivers = T.receivers
  <2>1. <<>> \in Seq(Coros)
    BY NoWaiters
  <2>2. chan' = [T EXCEPT !.woken = <<>>]
    BY DEF Joins
  <2> QED
    BY <1>0, <2>1, <2>2 DEF ChanState
<1>2. s \in Operation /\ sent \in Nat /\ sent' \in Nat /\ sent' >= sent /\ st[c] # "chan"
  BY CallFacts DEF Joins
<1>3. calls' = calls /\ accepted' = accepted \cup Served(T) /\ received' = received /\ Waste' = Waste
  BY DEF Joins
<1>4. /\ op' \in [Coros -> Operation] /\ op'[c] = s /\ st'[c] = "chan"
      /\ \A d \in Coros : d # c => op'[d] = op[d] /\ st'[d] = st[d]
  BY <1>0, <1>2 DEF Joins, Unused
<1>5. NoNodes(chan, c) /\ op[c] = NoOp /\ chan.winner[c] = 0
  BY <1>2, IdleHasNoNodes
<1>6. NoNodes(T, c) /\ T.winner[c] = 0
  BY <1>0, <1>5 DEF Reached, NoNodes
<1>7. accepted' \subseteq 1..sent' /\ accepted' \cap (1..sent) \subseteq accepted \cup Served(T)
  <2>1. Served(T) \subseteq 1..sent
    BY ServedNew
  <2>2. 1..sent \subseteq 1..sent'
    BY <1>2
  <2> QED
    BY <1>0, <1>3, <2>1, <2>2
<1>8. ChanTypes'
  BY <1>0, <1>1, <1>2, <1>3, <1>4, <1>7 DEF ChanTypes
<1>9. Nodes'
  <2>1. ListsNext(T)
    BY <1>1, <1>2, <1>4, <1>6, <1>7 DEF ListsNext
  <2> QED
    BY <1>0, <2>1, NodesNext
<1>10. Operations'
  <2> SUFFICES ASSUME NEW d \in Coros
               PROVE  IF st'[d] = "chan" THEN op'[d] \in calls'
                      ELSE op'[d] = NoOp /\ chan'.winner[d] = 0
    BY DEF Operations
  <2>1. IF st[d] = "chan" THEN op[d] \in calls ELSE op[d] = NoOp /\ chan.winner[d] = 0
    BY DEF ChanInv, Operations
  <2>2. op[d] = NoOp => T.winner[d] = chan.winner[d]
    BY <1>0 DEF Reached
  <2> QED
    BY <1>1, <1>3, <1>4, <2>1, <2>2
<1>11. Decided'
  <2>1. \A d \in Coros : NoNodes(T, d) => NoNodes(chan', d)
    BY <1>1 DEF NoNodes
  <2>2. \A d \in Coros : chan'.winner[d] # 0 /\ ~op'[d].select => NoNodes(chan', d)
    BY <1>0, <1>1, <1>4, <1>6, <2>1 DEF Reached
  <2>3. \A d \in Coros : chan'.winner[d] = 0 => chan'.hand[d] = 0
    BY <1>0, <1>1 DEF Reached
  <2> QED
    BY <2>2, <2>3 DEF Decided, NoNodes
<1>12. BuffersApart(chan') /\ Contents(chan') = Contents(T)
  BY <1>1, SameBuffers DEF Kept
<1>13. Books(Contents(chan'), chan'.hand, accepted', received', Waste')
  <2>1. Books(Contents(chan), chan.hand, accepted, received, Waste) /\ Served(T) \cap accepted = {}
    BY BooksNow, ServedNew
  <2>2. Books(Contents(chan) \cup Served(T), chan.hand, accepted \cup Served(T), received, Waste)
    BY <2>1, BooksServe
  <2>3. Contents(T) = Contents(chan) \cup Served(T) /\ T.hand = chan.hand
    BY DEF Kept
  <2> QED
    BY <1>1, <1>3, <1>12, <2>2, <2>3
<1>14. OnePlace'
  BY <1>1, <1>12, <1>13, BooksNext
<1>15. BuffersApart(chan)'
  BY <1>12 DEF BuffersApart
<1>16. Stays
  BY <1>0, <1>1 DEF Stays, Reached
<1> QED
  BY <1>8, <1>9, <1>10, <1>11, <1>14, <1>15, <1>16 DEF ChanInv

\* What a rejected send leaves
LEMMA RejectKept ==
    ASSUME ChanInv, NEW s \in calls
    PROVE  /\ s.branches[1].ch \in Chans /\ Kept(Contents(chan), Reject(s))
           /\ Contents(chan) \subseteq accepted /\ Kept(Contents(chan), chan)
<1>1. calls \in Programs
  BY DEF ChanInv, ChanTypes
<1>2. s.branches \in Seq(Branch) /\ s.branches # <<>>
  BY <1>1, ChannelAssumption DEF Operation
<1>3. 1 \in 1..Len(s.branches)
  BY <1>2, EmptySeq, LenProperties
<1>4. s.branches[1] \in Branch
  BY <1>2, <1>3, ElementOfSeq
<1>5. s.branches[1].ch \in Chans
  BY <1>4 DEF Branch
<1>6. Kept(Contents(chan), chan) /\ Contents(chan) \subseteq accepted
  BY StartKept
<1>7. Kept(Contents(chan), channel_promote_senders(chan, s.branches[1].ch))
  BY <1>5, <1>6, PromoteAllKept
<1> QED
  BY <1>5, <1>6, <1>7 DEF Reject

LEMMA CallWaitInv ==
    ASSUME ChanInv, Unused, NEW c \in Coros, NEW s \in calls, CallWait(c, s),
           sent' = sent + Offered(s.branches), UNCHANGED <<calls, Waste>>
    PROVE  ChanInv' /\ Stays
<1> DEFINE bs == s.branches
           T == Reject(s)
<1>1. /\ st[c] = "run" /\ st' = [st EXCEPT ![c] = "chan"]
      /\ op' = [op EXCEPT ![c] = s] /\ received' = received
  BY DEF CallWait, Proceeds
<1>2. CASE Rejected(s)
  <2>1. chan' = [T EXCEPT !.woken = <<>>] /\ accepted' = accepted \cup Served(T)
    BY <1>2 DEF CallWait
  <2>2. Kept(Contents(chan), T)
    BY RejectKept
  <2> HIDE DEF T
  <2>3. Joins(c, s, T)
    BY <1>1, <2>1 DEF Joins
  <2> QED
    BY <2>2, <2>3, JoinsInv
<1>3. CASE ~Rejected(s)
  <2>1. chan' = ArmAll(c, bs) /\ accepted' = accepted
    BY <1>3 DEF CallWait
  <2>2. Suspends(c, s)
    BY <1>1, <2>1 DEF Suspends
  <2>3. bs \in Seq(Branch) /\ Len(bs) \in Nat
    BY CallFacts, LenProperties
  <2>4. NoNodes(chan, c)
    BY <1>1, IdleHasNoNodes
  <2>5. Armed(ArmAll(c, bs), c, bs, Len(bs))
    BY <2>3, <2>4, ArmAllArmed
  <2>6. Armed(chan', c, bs, Len(bs))
    BY <2>1, <2>5
  <2> QED
    BY <2>2, <2>6, SuspendsInv
<1> QED
  BY <1>2, <1>3

\* A step that leaves the channels and the operations alone
LEMMA NothingChanges ==
    ASSUME ChanInv, UNCHANGED chanVars, \A c \in Coros : st'[c] = "chan" <=> st[c] = "chan"
    PROVE  ChanInv' /\ Stays
<1>1. UNCHANGED <<calls, chan, op, accepted, sent, received, Waste>>
  BY DEF chanVars, hist, Waste
<1>2. ChanTypes' /\ Nodes' /\ Decided' /\ BuffersApart(chan)' /\ OnePlace' /\ Stays
  <2>1. ChanTypes' /\ Decided' /\ Stays
    BY <1>1 DEF ChanInv, ChanTypes, Decided, NoNodes, Stays
  <2>2. Nodes'
    BY <1>1 DEF ChanInv, Nodes, IsBranch, Offers
  <2>3. BuffersApart(chan)' /\ OnePlace'
    <3>1. UNCHANGED <<excused, lost>>
      BY DEF chanVars, hist
    <3> QED
      BY <1>1, <3>1 DEF ChanInv, BuffersApart, OnePlace, Apart, Gone, Buffered, Handed
  <2> QED
    BY <2>1, <2>2, <2>3
<1>3. Operations'
  BY <1>1 DEF ChanInv, Operations
<1> QED
  BY <1>2, <1>3 DEF ChanInv

\* channel_close
LEMMA ChanCloseInv ==
    ASSUME ChanInv, NEW ch \in Chans, ChanClose(ch)
    PROVE  ChanInv' /\ Stays
<1> DEFINE T == channel_close(chan, ch)
           q == IF chan.buffer[ch] = <<>> THEN <<>> ELSE chan.receivers[ch]
           w == chan.woken \o Owners(chan.senders[ch])
                  \o (IF chan.buffer[ch] = <<>> THEN Owners(chan.receivers[ch]) ELSE <<>>)
<1>0. /\ chan \in ChanState /\ Reached(chan) /\ Served(chan) = {} /\ sent \in Nat
      /\ chan.senders[ch] \in Seq(Node) /\ chan.receivers[ch] \in Seq(Node)
  BY StartReached DEF ChanInv, ChanTypes, ChanState
<1>1. /\ chan' = [T EXCEPT !.woken = <<>>]
      /\ UNCHANGED <<st, calls, op, accepted, sent, received, Waste>>
  BY DEF ChanClose, hist, Waste
<1>2. /\ q \in Seq(Node) /\ <<>> \in Seq(Node)
      /\ ToSet(q) \subseteq ToSet(chan.receivers[ch]) /\ Distinct(q)
      /\ ToSet(<<>>) = {} /\ Distinct(<<>>)
  BY <1>0, NoWaiters DEF ChanInv, Nodes
<1>3. w \in Seq(Coros)
  <2>1. ASSUME NEW r \in Seq(Node)
        PROVE  Owners(r) \in Seq(Coros)
    <3>1. Len(r) \in Nat /\ DOMAIN r = 1..Len(r) /\ \A j \in 1..Len(r) : r[j] \in Node
      BY LenProperties, ElementOfSeq
    <3>2. \A j \in 1..Len(r) : r[j][1] \in Coros
      BY <3>1 DEF Node
    <3>3. Owners(r) = [j \in 1..Len(r) |-> r[j][1]]
      BY <3>1 DEF Owners
    <3> QED
      BY <3>1, <3>2, <3>3, IsASeq
  <2>2. <<>> \in Seq(Coros) /\ chan.woken \in Seq(Coros)
    BY <1>0, NoWaiters DEF ChanState
  <2>3. Owners(chan.senders[ch]) \in Seq(Coros) /\ Owners(chan.receivers[ch]) \in Seq(Coros)
    BY <1>0, <2>1
  <2> QED
    BY <2>2, <2>3, ConcatProperties
<1>4. T = [chan EXCEPT !.closed = @ \cup {ch}, !.senders[ch] = <<>>, !.receivers[ch] = q, !.woken = w]
  BY DEF channel_close
<1> HIDE DEF q, w, T
<1>5. /\ T \in ChanState /\ T.winner = chan.winner /\ T.hand = chan.hand /\ T.buffer = chan.buffer
      /\ T.senders = [chan.senders EXCEPT ![ch] = <<>>]
      /\ T.receivers = [chan.receivers EXCEPT ![ch] = q]
  BY <1>0, <1>2, <1>3, <1>4 DEF ChanState
<1>6. /\ T.senders[ch] = <<>> /\ T.receivers[ch] = q
      /\ \A dh \in Chans : dh # ch =>
            T.senders[dh] = chan.senders[dh] /\ T.receivers[dh] = chan.receivers[dh]
  BY <1>0, <1>5 DEF ChanState
<1>7. \A dh \in Chans : /\ ToSet(T.senders[dh]) \subseteq ToSet(chan.senders[dh])
                        /\ ToSet(T.receivers[dh]) \subseteq ToSet(chan.receivers[dh])
                        /\ Distinct(T.senders[dh]) /\ Distinct(T.receivers[dh])
  BY <1>2, <1>6 DEF ChanInv, Nodes
<1>8. Reached(T) /\ Served(T) = {}
  BY <1>0, <1>5, <1>7, FewerNodes
<1>9. BuffersApart(T) /\ Contents(T) = Contents(chan)
  BY <1>5, SameBuffers DEF ChanInv
<1>10. Books(Contents(T), T.hand, accepted', received', Waste')
  BY <1>1, <1>5, <1>9, BooksNow
<1>11. \E E \in SUBSET ((sent + 1)..sent') : accepted' = accepted \cup Served(T) \cup E
  <2>1. accepted' = accepted \cup Served(T) \cup {} /\ {} \in SUBSET ((sent + 1)..sent')
    BY <1>1, <1>8
  <2> QED
    BY <2>1
<1>12. sent' \in Nat /\ sent' >= sent /\ calls' = calls /\ op' = op /\ \A c \in Coros : st'[c] = st[c]
  BY <1>0, <1>1
<1>13. GoesOn(T)
  BY <1>1, <1>9, <1>10, <1>11, <1>12 DEF GoesOn
<1> QED
  BY <1>8, <1>13, GoesOnInv

\* The end of a wait leaves the values that were let into the buffers.
LEMMA CleanedBooks ==
    ASSUME ChanInv, NEW c \in Coros
    PROVE  /\ Reached(Cleaned(c)) /\ BuffersApart(Cleaned(c)) /\ NoNodes(Cleaned(c), c)
           /\ Cleaned(c).hand = chan.hand /\ chan.hand \in [Coros -> Nat]
           /\ Books(Contents(Cleaned(c)), chan.hand, accepted \cup Served(Cleaned(c)), received, Waste)
<1> DEFINE T == Cleaned(c)
           C == Contents(chan)
<1>1. Kept(C, T) /\ NoNodes(T, c)
  BY CleanedKept
<1> HIDE DEF T
<1>2. Reached(T) /\ T.hand = chan.hand /\ BuffersApart(T) /\ Contents(T) = C \cup Served(T)
  BY <1>1 DEF Kept
<1>3. Books(C, chan.hand, accepted, received, Waste)
  BY BooksNow
<1>4. Served(T) \cap accepted = {}
  BY ServedNew
<1>5. Books(C \cup Served(T), chan.hand, accepted \cup Served(T), received, Waste)
  BY <1>3, <1>4, BooksServe
<1>6. chan.hand \in [Coros -> Nat]
  BY DEF ChanInv, ChanTypes, ChanState
<1> QED
  BY <1>1, <1>2, <1>5, <1>6 DEF T

LEMMA ChanResumeInv ==
    ASSUME ChanInv, Unused, NEW c \in Coros, ChanResume(c)
    PROVE  ChanInv' /\ Stays
<1> DEFINE T == Cleaned(c)
           v == chan.hand[c]
           A == accepted \cup Served(T)
<1>1. /\ chan' = Forget(T, c) /\ op' = [op EXCEPT ![c] = NoOp] /\ accepted' = A
      /\ received' = received \cup (IF v # 0 THEN {v} ELSE {})
      /\ calls' = calls /\ sent' = sent /\ Waste' = Waste
      /\ st' = [st EXCEPT ![c] = "run"]
  BY DEF ChanResume, Resumes, Waste
<1>2. st'[c] # "chan" /\ \A d \in Coros : d # c => st'[d] = st[d]
  BY <1>1 DEF Unused
<1>3. /\ Reached(T) /\ BuffersApart(T) /\ NoNodes(T, c) /\ T.hand = chan.hand
      /\ chan.hand \in [Coros -> Nat]
      /\ Books(Contents(T), chan.hand, A, received, Waste)
  BY CleanedBooks
<1> HIDE DEF T, A
<1>4. Books(Contents(T), [chan.hand EXCEPT ![c] = 0], A, received', Waste')
  <2>1. CASE v = 0
    <3>1. received' = received /\ Waste' = Waste
      BY <1>1, <2>1
    <3> QED
      BY <1>3, <2>1, <3>1, BooksClear
  <2>2. CASE v # 0
    <3>1. received' = received \cup {v} /\ Waste' = Waste
      BY <1>1, <2>2
    <3>2. Books(Contents(T), [chan.hand EXCEPT ![c] = 0], A, received \cup {v}, Waste)
      BY <1>3, <2>2, BooksClear
    <3> QED
      BY <3>1, <3>2
  <2> QED
    BY <2>1, <2>2
<1>5. Books(Contents(T), [T.hand EXCEPT ![c] = 0], accepted', received', Waste')
  BY <1>1, <1>3, <1>4
<1>6. accepted' = accepted \cup Served(T)
  BY <1>1 DEF A
<1>7. Ends(c, T)
  BY <1>1, <1>2, <1>3, <1>5, <1>6 DEF Ends
<1> QED
  BY <1>3, <1>7, EndsInv

\* channel_return_value: a value that comes back is delivered, stored or discarded.
LEMMA ReturnBooks ==
    ASSUME ChanInv, NEW c \in Coros, chan.hand[c] # 0, NEW ch \in Chans, NEW T,
           T = channel_return_value(chan, ch, chan.hand[c])
    PROVE  /\ Reached(T) /\ BuffersApart(T) /\ Served(T) = {}
           /\ Books(Contents(T), [T.hand EXCEPT ![c] = 0], accepted, received,
                    Waste \cup Discarded(chan, ch, chan.hand[c]))
<1> DEFINE v == chan.hand[c]
           C == Contents(chan)
           h == [chan.hand EXCEPT ![c] = 0]
           X == Waste \cup Discarded(chan, ch, v)
<1>0. /\ chan \in ChanState /\ chan.hand \in [Coros -> Nat] /\ v \in Nat /\ v # 0
      /\ BuffersApart(chan)
  BY DEF ChanInv, ChanTypes, ChanState
<1>1. Books(C, chan.hand, accepted, received, Waste)
  BY BooksNow
<1>2. /\ Books(C, h, accepted, received, Waste \cup {v})
      /\ Books(C, h, accepted \ {v}, received, Waste) /\ v \in accepted
  BY <1>0, <1>1, BooksClear
<1>3. v \notin C
  <2>1. v \in HandsOf(chan.hand)
    BY <1>0, HandsAre
  <2> QED
    BY <1>1, <2>1 DEF Books
<1>4. h \in [Coros -> Nat] /\ h[c] = 0 /\ \A d \in Coros : d # c => h[d] = chan.hand[d]
  BY <1>0
<1>5. (accepted \ {v}) \cup {v} = accepted /\ v \notin accepted \ {v}
  BY <1>2
<1>w. chan.winner[c] # 0
  BY DEF ChanInv, Decided
<1>6. CASE Waiting(chan, ch) # 0
  <2>1. T = channel_deliver(chan, ch, v) /\ X = Waste
    BY <1>6 DEF channel_return_value, Discarded
  <2> HIDE DEF h, X
  <2>2. PICK d : Given(T, d, v)
    BY <1>0, <1>6, <2>1, DeliverGives
  <2>3. /\ d \in Coros /\ chan.winner[d] = 0 /\ Reached(T) /\ Served(T) = {}
        /\ T.hand = [chan.hand EXCEPT ![d] = v]
    BY <2>2 DEF Given
  <2>4. d # c /\ h[d] = 0
    BY <1>4, <1>w, <2>3 DEF ChanInv, Decided
  <2>5. BuffersApart(T) /\ Books(Contents(T), [h EXCEPT ![d] = v], (accepted \ {v}) \cup {v}, received, Waste)
    <3> DEFINE A == accepted \ {v}
    <3>1. h \in [Coros -> Nat] /\ h[d] = 0 /\ v \in Nat /\ v # 0 /\ v \notin A
      BY <1>0, <1>4, <1>5, <2>4
    <3>2. Books(C, h, A, received, Waste)
      BY <1>2
    <3> HIDE DEF A, v
    <3>3. BuffersApart(T) /\ Books(Contents(T), [h EXCEPT ![d] = v], A \cup {v}, received, Waste)
      BY <2>2, <3>1, <3>2, GivenBooks
    <3> QED
      BY <3>3 DEF A
  <2>6. [h EXCEPT ![d] = v] = [T.hand EXCEPT ![c] = 0]
    BY <1>0, <2>3, <2>4 DEF h
  <2>7. Books(Contents(T), [T.hand EXCEPT ![c] = 0], accepted, received, X)
    BY <1>5, <2>1, <2>5, <2>6
  <2> QED
    BY <2>3, <2>5, <2>7 DEF X
<1>7. CASE Waiting(chan, ch) = 0 /\ channel_has_room(chan, ch)
  <2>1. T = [chan EXCEPT !.buffer[ch] = Cons(v, @)] /\ X = Waste
    BY <1>7 DEF channel_return_value, Discarded
  <2>2. Stored(T, v)
    BY <1>0, <1>3, <2>1, AppendStores
  <2> HIDE DEF h, X
  <2>3. BuffersApart(T) /\ Books(Contents(T), h, (accepted \ {v}) \cup {v}, received, Waste)
    BY <1>2, <1>5, <2>2, StoredBooks
  <2>4. Reached(T) /\ Served(T) = {} /\ T.hand = chan.hand
    BY <2>2 DEF Stored
  <2>5. Books(Contents(T), [T.hand EXCEPT ![c] = 0], accepted, received, X)
    BY <1>5, <2>1, <2>3, <2>4 DEF h
  <2> QED
    BY <2>3, <2>4, <2>5 DEF X
<1>8. CASE Waiting(chan, ch) = 0 /\ ~channel_has_room(chan, ch)
  <2>1. T = chan /\ X = Waste \cup {v}
    BY <1>8 DEF channel_return_value, Discarded
  <2>2. Reached(T) /\ Served(T) = {}
    BY <2>1, StartReached
  <2>3. Books(Contents(T), [T.hand EXCEPT ![c] = 0], accepted, received, X)
    BY <1>2, <2>1
  <2> QED
    BY <1>0, <2>1, <2>2, <2>3
<1> QED
  BY <1>6, <1>7, <1>8

LEMMA ChanDropInv ==
    ASSUME ChanInv, Unused, NEW c \in Coros, ChanDrop(c)
    PROVE  ChanInv' /\ Stays
<1> DEFINE v == chan.hand[c]
           back == v # 0 /\ ~op[c].select
           ch == op[c].branches[1].ch
           S == IF back THEN channel_return_value(chan, ch, v) ELSE Cleaned(c)
<1>1. /\ st[c] = "chan" /\ Unwinds(c, Others(S, c)) /\ op' = [op EXCEPT ![c] = NoOp]
      /\ chan' = Forget(S, c) /\ accepted' = accepted \cup Served(S)
      /\ calls' = calls /\ sent' = sent /\ received' = received
  BY DEF ChanDrop
<1>d. /\ excused' = excused \cup (IF back THEN Discarded(chan, ch, v) ELSE {})
      /\ lost' = lost \cup (IF op[c].select /\ v # 0 THEN {v} ELSE {})
  BY DEF ChanDrop
<1>2. st'[c] # "chan" /\ \A d \in Coros : d # c => st'[d] = st[d]
  <2>1. \/ st' = [st EXCEPT ![c] = IF c \in abandoned THEN "gone" ELSE "run"]
        \/ st' = [st EXCEPT ![c] = "gone"]
    BY <1>1 DEF Unwinds
  <2> QED
    BY <2>1 DEF Unused
<1> DEFINE T == S
<1>3. CASE back
  <2>1. ch \in Chans
    <3>1. op[c] \in calls /\ calls \in Programs
      BY <1>1 DEF ChanInv, Operations, ChanTypes
    <3>2. op[c].branches \in Seq(Branch) /\ op[c].branches # <<>>
      BY <3>1, CallFacts, ChannelAssumption
    <3>3. 1 \in 1..Len(op[c].branches)
      BY <3>2, EmptySeq, LenProperties
    <3>4. op[c].branches[1] \in Branch
      BY <3>2, <3>3, ElementOfSeq
    <3> QED
      BY <3>4 DEF Branch
  <2>2. T = channel_return_value(chan, ch, v) /\ Waste' = Waste \cup Discarded(chan, ch, v)
    <3>1. excused' = excused \cup Discarded(chan, ch, v) /\ lost' = lost
      BY <1>3, <1>d
    <3> QED
      BY <1>3, <3>1 DEF Waste
  <2>3. chan.winner[c] # 0 /\ ~op[c].select
    BY <1>3 DEF ChanInv, Decided
  <2>4. v # 0
    BY <1>3
  <2> HIDE DEF S, T, ch
  <2>5. /\ Reached(T) /\ BuffersApart(T) /\ Served(T) = {}
        /\ Books(Contents(T), [T.hand EXCEPT ![c] = 0], accepted, received, Waste')
    BY <2>1, <2>2, <2>4, ReturnBooks
  <2>6. NoNodes(T, c)
    BY <2>3, <2>5 DEF Reached
  <2>7. accepted' = accepted /\ accepted' = accepted \cup Served(T) /\ chan' = Forget(T, c)
    BY <1>1, <2>5 DEF T
  <2>8. Ends(c, T)
    BY <1>1, <1>2, <2>5, <2>6, <2>7 DEF Ends
  <2> QED
    BY <2>5, <2>8, EndsInv
<1>4. CASE ~back
  <2> DEFINE A == accepted \cup Served(T)
  <2>1. T = Cleaned(c) /\ Waste' = Waste \cup (IF v # 0 THEN {v} ELSE {}) /\ accepted' = A
    <3>1. excused' = excused /\ lost' = lost \cup (IF v # 0 THEN {v} ELSE {})
      BY <1>4, <1>d
    <3> QED
      BY <1>1, <1>4, <3>1 DEF Waste
  <2>2. chan' = Forget(T, c)
    BY <1>1
  <2> HIDE DEF S, T, A
  <2>3. /\ Reached(T) /\ BuffersApart(T) /\ NoNodes(T, c) /\ T.hand = chan.hand
        /\ chan.hand \in [Coros -> Nat]
        /\ Books(Contents(T), chan.hand, A, received, Waste)
    BY <2>1, CleanedBooks DEF A
  <2>4. Books(Contents(T), [chan.hand EXCEPT ![c] = 0], A, received, Waste')
    <3>1. CASE v = 0
      <4>1. Waste' = Waste
        BY <2>1, <3>1
      <4> QED
        BY <2>3, <3>1, <4>1, BooksClear
    <3>2. CASE v # 0
      <4>1. Waste' = Waste \cup {v}
        BY <2>1, <3>2
      <4>2. Books(Contents(T), [chan.hand EXCEPT ![c] = 0], A, received, Waste \cup {v})
        BY <2>3, <3>2, BooksClear
      <4> QED
        BY <4>1, <4>2
    <3> QED
      BY <3>1, <3>2
  <2>5. Books(Contents(T), [T.hand EXCEPT ![c] = 0], accepted', received', Waste')
    BY <1>1, <2>1, <2>3, <2>4
  <2>6. accepted' = accepted \cup Served(T)
    BY <2>1 DEF A
  <2>7. Ends(c, T)
    BY <1>1, <1>2, <2>2, <2>3, <2>5, <2>6 DEF Ends
  <2> QED
    BY <2>3, <2>7, EndsInv
<1> QED
  BY <1>3, <1>4

LEMMA ChannelSteps ==
    ASSUME ChanInv, Unused, ChannelNext \/ EndNext
    PROVE  ChanInv' /\ Stays
<1>1. ASSUME NEW c \in Coros, ChanCall(c)
      PROVE  ChanInv' /\ Stays
  <2>1. PICK s \in calls : /\ CallNow(c, s) \/ CallWait(c, s)
                           /\ sent' = sent + Offered(s.branches)
    BY <1>1 DEF ChanCall
  <2>2. UNCHANGED <<calls, Waste>>
    BY <1>1 DEF ChanCall, Waste
  <2> QED
    BY <2>1, <2>2, CallNowInv, CallWaitInv
<1>2. ASSUME NEW c \in Coros, ChanTimer(c) \/ ((Cancel(c) \/ Abandon(c)) /\ UNCHANGED chanVars)
      PROVE  ChanInv' /\ Stays
  <2>1. UNCHANGED chanVars /\ st' = st
    BY <1>2 DEF ChanTimer, Cancel, Abandon
  <2> QED
    BY <2>1, NothingChanges
<1>3. CASE ChannelNext
  <2>1. ASSUME NEW c \in Coros, ChanStep(c)
        PROVE  ChanInv' /\ Stays
    BY <1>1, <1>2, <2>1, ChanResumeInv, ChanDropInv DEF ChanStep
  <2> QED
    BY <1>3, <2>1, ChanCloseInv DEF ChannelNext
<1>4. CASE EndNext
  BY <1>2, <1>4 DEF EndNext
<1> QED
  BY <1>3, <1>4

\* Where the pool is used, no coroutine is in a call to a channel.
LEMMA PoolLeavesChannels ==
    ASSUME IInv, IInv', calls = {}, ChanInv, UNCHANGED chanVars
    PROVE  ChanInv' /\ Stays
<1>1. calls' = {}
  BY DEF chanVars
<1>2. PoolTypes /\ PoolTypes'
  BY <1>1 DEF IInv, PoolInv
<1>3. \A c \in Coros : st[c] # "chan" /\ st'[c] # "chan"
  BY <1>2 DEF PoolTypes
<1> QED
  BY <1>3, NothingChanges

LEMMA ChanStart == Init => ChanInv
<1> SUFFICES ASSUME Init PROVE ChanInv
  OBVIOUS
<1>1. /\ calls \in Programs /\ op = [c \in Coros |-> NoOp] /\ st = [c \in Coros |-> "run"]
      /\ sent = 0 /\ accepted = {} /\ received = {} /\ Waste = {}
      /\ chan = [buffer |-> [ch \in Chans |-> <<>>], senders |-> [ch \in Chans |-> <<>>],
                 receivers |-> [ch \in Chans |-> <<>>], closed |-> {},
                 winner |-> [c \in Coros |-> 0], hand |-> [c \in Coros |-> 0], woken |-> <<>>]
  BY DEF Init, LocalInit, ChanInit, Waste
<1>2. <<>> \in Seq(Coros) /\ <<>> \in Seq(Node) /\ <<>> \in Seq(Nat) /\ Distinct(<<>>) /\ ToSet(<<>>) = {}
  BY NoWaiters
<1>3. /\ chan \in ChanState /\ chan.woken = <<>>
      /\ \A ch \in Chans : chan.buffer[ch] = <<>> /\ chan.senders[ch] = <<>> /\ chan.receivers[ch] = <<>>
      /\ \A c \in Coros : chan.winner[c] = 0 /\ chan.hand[c] = 0
  BY <1>1, <1>2 DEF ChanState
<1>4. ChanTypes
  <2>1. op \in [Coros -> Operation]
    BY <1>1, NoOpIsOperation
  <2> QED
    BY <1>1, <1>3, <2>1 DEF ChanTypes
<1>5. Operations
  BY <1>1, <1>3 DEF Operations
<1>6. Nodes
  <2>1. Offers(chan) = {}
    BY <1>2, <1>3, OffersAre
  <2> QED
    BY <1>2, <1>3, <2>1 DEF Nodes
<1>7. Decided
  BY <1>3 DEF Decided
<1>8. BuffersApart(chan)
  BY <1>2, <1>3 DEF BuffersApart
<1>9. OnePlace
  <2>1. Buffered = {}
    BY <1>2, <1>3 DEF Buffered
  <2>2. Handed = {}
    BY <1>3 DEF Handed
  <2>3. \A ch \in Chans : IsInjective(chan.buffer[ch])
    BY <1>3 DEF IsInjective
  <2> QED
    BY <1>1, <1>3, <2>1, <2>2, <2>3 DEF OnePlace, Apart, Gone, Waste
<1> QED
  BY <1>4, <1>5, <1>6, <1>7, <1>8, <1>9 DEF ChanInv

LEMMA ChanNext ==
    ASSUME IInv, IInv', ChanInv, [Next]_vars
    PROVE  ChanInv' /\ [Stays]_chanVars
<1>1. CASE Next /\ calls = {}
  <2>1. UNCHANGED chanVars
    BY <1>1 DEF Next, PoolNext, EndNext
  <2> QED
    BY <1>1, <2>1, PoolLeavesChannels
<1>2. CASE Next /\ calls # {}
  BY <1>2, ChannelSteps DEF Next, IInv
<1>3. CASE UNCHANGED vars
  <2>1. UNCHANGED chanVars /\ UNCHANGED st
    BY <1>3 DEF vars, frames
  <2> QED
    BY <2>1, NothingChanges
<1> QED
  BY <1>1, <1>2, <1>3

LEMMA ChanInvariant == Spec => [](IInv /\ ChanInv) /\ [][Stays]_chanVars
<1>1. Init => ChanInv
  BY ChanStart
<1>2. IInv /\ IInv' /\ ChanInv /\ [Next]_vars => ChanInv' /\ [Stays]_chanVars
  BY ChanNext
<1> QED
  BY <1>1, <1>2, Invariant, PTL DEF Spec

-----------------------------------------------------------------------------
(* The theorems about channels.                                            *)

\* Every accepted value is in one buffer, in one receiver's hands, received,
\* discarded by a recv that found the buffer full, or lost with a select that was
\* dropped after it was served, whoever is cancelled, destroyed or closed
\* meanwhile, for any number of coroutines, channels and branches, and any
\* capacities (channel_deliver, channel_promote_senders, channel_return_value,
\* ~settle_guard).
THEOREM ValuesInOnePlace == Spec => []OnePlace
<1>1. ChanInv => OnePlace
  BY DEF ChanInv
<1> QED
  BY <1>1, ChanInvariant, PTL

\* Once a branch of a select was served, no other is, and what it was handed stays
\* until the select has ended (gate_claim, gate_open).
THEOREM SelectCommitsOnce == Spec => OneBranchCommits
<1>1. [Stays]_chanVars <=>
      [\A c \in Coros : chan.winner[c] # 0 /\ op'[c] # NoOp =>
          chan'.winner[c] = chan.winner[c] /\ chan'.hand[c] = chan.hand[c]]_chanVars
  BY DEF Stays
<1> QED
  BY <1>1, ChanInvariant, PTL DEF OneBranchCommits

-----------------------------------------------------------------------------
(* How sender and receiver find each other, and the order of the values.   *)

\* Nobody waits to receive from ch.
NoReceiver(S, ch) == \A n \in ToSet(S.receivers[ch]) : ~gate_open(S, n)

\* Where there is a value, a sender or the end of the channel, nobody waits to
\* receive; at the end nobody waits to send.
OneSide(S, ch) ==
    /\ S.buffer[ch] # <<>> \/ S.senders[ch] # <<>> \/ ch \in S.closed => NoReceiver(S, ch)
    /\ S.senders[ch] # <<>> => ch \notin S.closed

\* Who waits to send finds no room.
Full(S, ch) == S.senders[ch] # <<>> => ~channel_has_room(S, ch)

Meets(S, ch) == OneSide(S, ch) /\ Full(S, ch)

\* What is buffered and then what waits
Line(S, ch) == S.buffer[ch] \o Values(S.senders[ch])

LEMMA WaitingIs ==
    ASSUME NEW S \in ChanState, NEW ch \in Chans
    PROVE  Waiting(S, ch) # 0 <=> ~NoReceiver(S, ch)
<1> DEFINE q == S.receivers[ch]
           I == {i \in 1..Len(q) : gate_open(S, q[i])}
<1>1. Waiting(S, ch) = IF I # {} THEN Min(I) ELSE 0
  BY DEF Waiting, SelectInSeq
<1>2. \A n : n \in ToSet(q) <=> \E i \in 1..Len(q) : q[i] = n
  BY InToSet DEF ChanState
<1>3. I = {} <=> NoReceiver(S, ch)
  BY <1>2 DEF NoReceiver
<1>4. CASE I = {}
  BY <1>1, <1>3, <1>4
<1>5. CASE I # {}
  <2>1. I \in SUBSET Nat /\ 0 \notin I
    OBVIOUS
  <2>2. \E j \in I : \A k \in I : j <= k
    BY <1>5, <2>1, LeastElement
  <2> HIDE DEF I
  <2>3. Min(I) \in I
    BY <2>2 DEF Min
  <2> QED
    BY <1>1, <1>3, <1>5, <2>1, <2>3
<1> QED
  BY <1>4, <1>5

LEMMA ValuesProperties ==
    ASSUME NEW q \in Seq(Node)
    PROVE  /\ Values(q) \in Seq(Nat) /\ Len(Values(q)) = Len(q)
           /\ \A i \in 1..Len(q) : Values(q)[i] = q[i][3]
           /\ \A v : v \in ToSet(Values(q)) <=> \E n \in ToSet(q) : n[3] = v
<1>1. Len(q) \in Nat /\ DOMAIN q = 1..Len(q) /\ \A i \in 1..Len(q) : q[i] \in Node
  BY LenProperties
<1>2. \A n \in Node : n[3] \in Nat
  BY DEF Node
<1>3. Values(q) = [i \in 1..Len(q) |-> q[i][3]]
  BY <1>1 DEF Values
<1>4. Values(q) \in Seq(Nat) /\ Len(Values(q)) = Len(q)
  BY <1>1, <1>2, <1>3
<1>5. \A i \in 1..Len(q) : Values(q)[i] = q[i][3]
  BY <1>3
<1>6. \A v : v \in ToSet(Values(q)) <=> \E i \in 1..Len(Values(q)) : Values(q)[i] = v
  BY <1>4, InToSet
<1>7. \A n : n \in ToSet(q) <=> \E i \in 1..Len(q) : q[i] = n
  BY InToSet
<1> HIDE DEF Values
<1> QED
  BY <1>4, <1>5, <1>6, <1>7

LEMMA ValuesPrecede ==
    ASSUME NEW q \in Seq(Node)
    PROVE  \A x, y : Precedes(Values(q), x, y) <=>
               \E m, n : Precedes(q, m, n) /\ m[3] = x /\ n[3] = y
<1>1. Len(Values(q)) = Len(q) /\ \A i \in 1..Len(q) : Values(q)[i] = q[i][3]
  BY ValuesProperties
<1> QED
  BY <1>1 DEF Precedes

LEMMA ValuesPart ==
    ASSUME NEW p \in Seq(Node), NEW q \in Seq(Node), Part(p, q)
    PROVE  Part(Values(p), Values(q))
<1>1. ToSet(Values(p)) \subseteq ToSet(Values(q))
  BY ValuesProperties DEF Part
<1>2. \A x, y : Precedes(Values(p), x, y) => Precedes(Values(q), x, y)
  BY ValuesPrecede DEF Part
<1> QED
  BY <1>1, <1>2 DEF Part

\* The sender list without its head
LEMMA ValuesTail ==
    ASSUME NEW q \in Seq(Node), q # <<>>
    PROVE  /\ Part(Values(Tail(q)), Values(q)) /\ Head(q)[3] \in ToSet(Values(q))
           /\ Head(q)[3] \in Nat
           /\ \A y \in ToSet(Values(Tail(q))) : Precedes(Values(q), Head(q)[3], y)
<1>1. Head(q) \in ToSet(q) /\ Tail(q) \in Seq(Node) /\ Head(q) \in Node
  BY TailProperties
<1>2. Part(Tail(q), q) /\ \A y \in ToSet(Tail(q)) : Precedes(q, Head(q), y)
  BY PartTail
<1>3. Part(Values(Tail(q)), Values(q))
  BY <1>1, <1>2, ValuesPart
<1>4. Head(q)[3] \in ToSet(Values(q)) /\ Head(q)[3] \in Nat
  BY <1>1, ValuesProperties DEF Node
<1>5. ASSUME NEW y \in ToSet(Values(Tail(q))) PROVE Precedes(Values(q), Head(q)[3], y)
  <2>1. PICK n \in ToSet(Tail(q)) : n[3] = y
    BY <1>1, ValuesProperties
  <2> QED
    BY <1>2, <2>1, ValuesPrecede
<1> QED
  BY <1>3, <1>4, <1>5

LEMMA ValuesAppend ==
    ASSUME NEW q \in Seq(Node), NEW n \in Node
    PROVE  /\ ToSet(Values(Append(q, n))) = ToSet(Values(q)) \cup {n[3]}
           /\ \A x, y : Precedes(Values(Append(q, n)), x, y) =>
                 Precedes(Values(q), x, y) \/ (x \in ToSet(Values(q)) /\ y = n[3])
<1> DEFINE r == Append(q, n)
<1>1. r \in Seq(Node) /\ ToSet(r) = ToSet(q) \cup {n}
  BY AppendToSet
<1>2. \A x, y : Precedes(r, x, y) <=> Precedes(q, x, y) \/ (x \in ToSet(q) /\ y = n)
  BY AppendPrecedes
<1> HIDE DEF r
<1>3. ToSet(Values(r)) = ToSet(Values(q)) \cup {n[3]}
  BY <1>1, ValuesProperties
<1>4. ASSUME NEW x, NEW y, Precedes(Values(r), x, y)
      PROVE  Precedes(Values(q), x, y) \/ (x \in ToSet(Values(q)) /\ y = n[3])
  <2>1. PICK k, m : Precedes(r, k, m) /\ k[3] = x /\ m[3] = y
    BY <1>1, <1>4, ValuesPrecede
  <2>2. CASE Precedes(q, k, m)
    BY <2>1, <2>2, ValuesPrecede
  <2>3. CASE k \in ToSet(q) /\ m = n
    BY <2>1, <2>3, ValuesProperties
  <2> QED
    BY <1>2, <2>1, <2>2, <2>3
<1> QED
  BY <1>3, <1>4 DEF r

\* The order of a line, list by list
LEMMA LineIs ==
    ASSUME NEW S \in ChanState, NEW ch \in Chans
    PROVE  /\ S.buffer[ch] \in Seq(Nat) /\ S.senders[ch] \in Seq(Node)
           /\ Values(S.senders[ch]) \in Seq(Nat) /\ Line(S, ch) \in Seq(Nat)
           /\ ToSet(Line(S, ch)) = ToSet(S.buffer[ch]) \cup ToSet(Values(S.senders[ch]))
           /\ \A x, y : Precedes(Line(S, ch), x, y) <=>
                 \/ Precedes(S.buffer[ch], x, y) \/ Precedes(Values(S.senders[ch]), x, y)
                 \/ x \in ToSet(S.buffer[ch]) /\ y \in ToSet(Values(S.senders[ch]))
<1>1. S.buffer[ch] \in Seq(Nat) /\ S.senders[ch] \in Seq(Node)
  BY DEF ChanState
<1>2. Values(S.senders[ch]) \in Seq(Nat)
  BY <1>1, ValuesProperties
<1>3. Line(S, ch) \in Seq(Nat) /\ ToSet(Line(S, ch)) = ToSet(S.buffer[ch]) \cup ToSet(Values(S.senders[ch]))
  BY <1>1, <1>2, ConcatToSet DEF Line
<1>4. \A x, y : Precedes(Line(S, ch), x, y) <=>
                 \/ Precedes(S.buffer[ch], x, y) \/ Precedes(Values(S.senders[ch]), x, y)
                 \/ x \in ToSet(S.buffer[ch]) /\ y \in ToSet(Values(S.senders[ch]))
  BY <1>1, <1>2, ConcatPrecedes DEF Line
<1> QED
  BY <1>1, <1>2, <1>3, <1>4

\* The two lists of a channel each lose members.
LEMMA LinePart ==
    ASSUME NEW S \in ChanState, NEW T \in ChanState, NEW ch \in Chans,
           Part(T.buffer[ch], S.buffer[ch]), Part(T.senders[ch], S.senders[ch])
    PROVE  Part(Line(T, ch), Line(S, ch))
<1>1. /\ S.buffer[ch] \in Seq(Nat) /\ S.senders[ch] \in Seq(Node) /\ Values(S.senders[ch]) \in Seq(Nat)
      /\ T.buffer[ch] \in Seq(Nat) /\ T.senders[ch] \in Seq(Node) /\ Values(T.senders[ch]) \in Seq(Nat)
  BY LineIs
<1>2. Part(Values(T.senders[ch]), Values(S.senders[ch]))
  BY <1>1, ValuesPart
<1> QED
  BY <1>1, <1>2, PartConcat DEF Line

\* From T to U no receiver and, but for those of ch, no value or sender moves in.
Elsewhere(T, U, ch) ==
    /\ U \in ChanState /\ U.closed = T.closed
    /\ \A dh \in Chans : dh # ch => U.buffer[dh] = T.buffer[dh] /\ U.senders[dh] = T.senders[dh]
    /\ \A dh \in Chans : ToSet(U.receivers[dh]) \subseteq ToSet(T.receivers[dh])
    /\ \A c \in Coros : T.winner[c] # 0 => U.winner[c] # 0

\* Values and senders of ch leave or move up.
Eased(T, U, ch) ==
    /\ Elsewhere(T, U, ch) /\ Part(Line(U, ch), Line(T, ch))
    /\ OneSide(T, ch) => OneSide(U, ch)

LEMMA EasedOrder ==
    ASSUME NEW ch
    PROVE  /\ \A T \in ChanState : Eased(T, T, ch)
           /\ \A S, T, U : Eased(S, T, ch) /\ Eased(T, U, ch) => Eased(S, U, ch)
<1>1. \A T \in ChanState : Elsewhere(T, T, ch)
  BY DEF Elsewhere
<1>2. \A S, T, U : Elsewhere(S, T, ch) /\ Elsewhere(T, U, ch) => Elsewhere(S, U, ch)
  BY DEF Elsewhere
<1> QED
  BY <1>1, <1>2, PartOrder DEF Eased

LEMMA ElsewhereFacts ==
    ASSUME NEW T \in ChanState, NEW U, NEW ch, Elsewhere(T, U, ch), NEW dh \in Chans
    PROVE  /\ NoReceiver(T, dh) => NoReceiver(U, dh)
           /\ dh # ch => /\ Line(U, dh) = Line(T, dh) /\ (Meets(T, dh) => Meets(U, dh))
<1>1. NoReceiver(T, dh) => NoReceiver(U, dh)
  <2> SUFFICES ASSUME NoReceiver(T, dh), NEW n \in ToSet(U.receivers[dh])
               PROVE  ~gate_open(U, n)
    BY DEF NoReceiver
  <2>1. n \in ToSet(T.receivers[dh])
    BY DEF Elsewhere
  <2>2. n \in Node
    BY <2>1, ToSetProperties DEF ChanState
  <2>3. n[1] \in Coros /\ T.winner[n[1]] # 0
    BY <2>1, <2>2 DEF NoReceiver, gate_open, Node
  <2> QED
    BY <2>3 DEF Elsewhere, gate_open
<1>2. ASSUME dh # ch
      PROVE  /\ U.buffer[dh] = T.buffer[dh] /\ U.senders[dh] = T.senders[dh] /\ U.closed = T.closed
  BY <1>2 DEF Elsewhere
<1>3. dh # ch => Line(U, dh) = Line(T, dh)
  BY <1>2 DEF Line
<1>4. dh # ch /\ Meets(T, dh) => Meets(U, dh)
  BY <1>1, <1>2 DEF Meets, OneSide, Full, channel_has_room
<1> QED
  BY <1>1, <1>3, <1>4

\* The state after Promote
LEMMA PromoteFields ==
    ASSUME NEW T \in ChanState, NEW ch \in Chans, Pending(T, ch)
    PROVE  \E n \in Node, U \in ChanState :
              /\ n = Head(T.senders[ch]) /\ U = Promote(T, ch) /\ n[2] \in Nat
              /\ U.senders = [T.senders EXCEPT ![ch] = Tail(T.senders[ch])]
              /\ U.buffer = [T.buffer EXCEPT ![ch] = Append(T.buffer[ch], n[3])]
              /\ U.receivers = T.receivers /\ U.closed = T.closed
              /\ U.winner = [T.winner EXCEPT ![n[1]] = n[2]]
<1> DEFINE n == Head(T.senders[ch])
           q == Tail(T.senders[ch])
           b == Append(T.buffer[ch], n[3])
           V == [T EXCEPT !.senders[ch] = q, !.buffer[ch] = b]
           U == Settle(V, n, 0)
<1>1. n \in Node /\ q \in Seq(Node)
  BY SenderHead
<1>2. T.buffer[ch] \in Seq(Nat) /\ n[3] \in Nat /\ n[2] \in Nat
  BY <1>1 DEF ChanState, Node
<1>3. b \in Seq(Nat)
  BY <1>2, AppendToSet
<1>4. Promote(T, ch) = U
  BY DEF Promote
<1>p. n = Head(T.senders[ch]) /\ q = Tail(T.senders[ch]) /\ b = Append(T.buffer[ch], n[3])
  OBVIOUS
<1> HIDE DEF q, n, b
<1>5. /\ V \in ChanState /\ V.winner = T.winner /\ V.closed = T.closed
      /\ V.buffer = [T.buffer EXCEPT ![ch] = b]
      /\ V.receivers = T.receivers /\ V.senders = [T.senders EXCEPT ![ch] = q]
  BY <1>1, <1>3 DEF ChanState
<1> HIDE DEF V
<1>6. /\ U \in ChanState /\ U.winner = [V.winner EXCEPT ![n[1]] = n[2]]
      /\ U.senders = V.senders /\ U.receivers = V.receivers
      /\ U.buffer = V.buffer /\ U.closed = V.closed
  <2>1. V \in ChanState /\ n \in Node /\ 0 \in Nat
    BY <1>1, <1>5
  <2>2. PICK v \in Nat : v = 0
    OBVIOUS
  <2>3. U = Settle(V, n, v)
    BY <2>2
  <2> HIDE DEF U
  <2>4. /\ Settle(V, n, v) \in ChanState
        /\ Settle(V, n, v).winner = [V.winner EXCEPT ![n[1]] = n[2]]
        /\ Settle(V, n, v).hand = [V.hand EXCEPT ![n[1]] = v]
        /\ Settle(V, n, v).senders = V.senders /\ Settle(V, n, v).receivers = V.receivers
        /\ Settle(V, n, v).buffer = V.buffer /\ Settle(V, n, v).closed = V.closed
    BY <2>1, SettleFields
  <2> QED
    BY <2>3, <2>4
<1> HIDE DEF U
<1>7. /\ U.winner = [T.winner EXCEPT ![n[1]] = n[2]]
      /\ U.senders = [T.senders EXCEPT ![ch] = q] /\ U.closed = T.closed
      /\ U.receivers = T.receivers /\ U.buffer = [T.buffer EXCEPT ![ch] = b]
  BY <1>5, <1>6
<1> QED
  BY <1>1, <1>2, <1>4, <1>p, <1>6, <1>7

LEMMA PromoteEases ==
    ASSUME ChanInv, NEW T, Reached(T), NEW ch \in Chans, Pending(T, ch)
    PROVE  /\ Eased(T, Promote(T, ch), ch)
           /\ Len(Promote(T, ch).senders[ch]) = Len(T.senders[ch]) - 1
<1>0. T \in ChanState
  BY DEF Reached
<1>1. PICK n \in Node, U \in ChanState :
              /\ n = Head(T.senders[ch]) /\ U = Promote(T, ch) /\ n[2] \in Nat
              /\ U.senders = [T.senders EXCEPT ![ch] = Tail(T.senders[ch])]
              /\ U.buffer = [T.buffer EXCEPT ![ch] = Append(T.buffer[ch], n[3])]
              /\ U.receivers = T.receivers /\ U.closed = T.closed
              /\ U.winner = [T.winner EXCEPT ![n[1]] = n[2]]
  BY <1>0, PromoteFields
<1> DEFINE b == T.buffer[ch]
           q == T.senders[ch]
<1>2. /\ b \in Seq(Nat) /\ q \in Seq(Node) /\ q # <<>> /\ n = Head(q) /\ n[3] \in Nat
      /\ Values(q) \in Seq(Nat)
  <2>1. q # <<>>
    BY DEF Pending
  <2>2. n[3] \in Nat
    BY DEF Node
  <2>3. b \in Seq(Nat) /\ q \in Seq(Node) /\ Values(q) \in Seq(Nat)
    BY <1>0, LineIs
  <2> QED
    BY <1>1, <2>1, <2>2, <2>3
<1>3. U.buffer[ch] = Append(b, n[3]) /\ U.senders[ch] = Tail(q)
  BY <1>0, <1>1 DEF ChanState
<1>w. \A c \in Coros : T.winner[c] # 0 => U.winner[c] # 0
  <2>1. n[2] # 0
    <3>1. n \in ToSet(T.senders[ch])
      BY <1>2, TailProperties
    <3>2. n \in ToSet(chan.senders[ch])
      BY <3>1 DEF Reached
    <3>3. n \in Offers(chan)
      BY <3>2, NodeFacts
    <3> QED
      BY <3>3, NodeFacts
  <2>2. T.winner \in [Coros -> Nat]
    BY <1>0 DEF ChanState
  <2> QED
    BY <1>1, <2>1, <2>2
<1>4. Elsewhere(T, U, ch)
  <2>1. \A dh \in Chans : dh # ch => U.buffer[dh] = T.buffer[dh] /\ U.senders[dh] = T.senders[dh]
    BY <1>0, <1>1 DEF ChanState
  <2> QED
    BY <1>1, <1>w, <2>1 DEF Elsewhere
<1> HIDE DEF b, q
<1>5. /\ ToSet(Append(b, n[3])) = ToSet(b) \cup {n[3]}
      /\ \A x, y : Precedes(Append(b, n[3]), x, y) <=> Precedes(b, x, y) \/ (x \in ToSet(b) /\ y = n[3])
  <2>1. b \in Seq(Nat) /\ n[3] \in Nat
    BY <1>2
  <2>2. ToSet(Append(b, n[3])) = ToSet(b) \cup {n[3]}
    BY <2>1, AppendToSet
  <2>3. \A x, y : Precedes(Append(b, n[3]), x, y) <=> Precedes(b, x, y) \/ (x \in ToSet(b) /\ y = n[3])
    BY <2>1, AppendPrecedes
  <2> QED
    BY <2>2, <2>3
<1>6. /\ Part(Values(Tail(q)), Values(q)) /\ n[3] \in ToSet(Values(q))
      /\ \A y \in ToSet(Values(Tail(q))) : Precedes(Values(q), n[3], y)
  BY <1>2, ValuesTail
<1>7. /\ ToSet(Line(T, ch)) = ToSet(b) \cup ToSet(Values(q))
      /\ \A x, y : Precedes(Line(T, ch), x, y) <=>
            Precedes(b, x, y) \/ Precedes(Values(q), x, y) \/ (x \in ToSet(b) /\ y \in ToSet(Values(q)))
  BY <1>0, LineIs DEF b, q
<1>8. /\ ToSet(Line(U, ch)) = ToSet(Append(b, n[3])) \cup ToSet(Values(Tail(q)))
      /\ \A x, y : Precedes(Line(U, ch), x, y) <=>
            \/ Precedes(Append(b, n[3]), x, y) \/ Precedes(Values(Tail(q)), x, y)
            \/ x \in ToSet(Append(b, n[3])) /\ y \in ToSet(Values(Tail(q)))
  BY <1>3, LineIs
<1>9. Part(Line(U, ch), Line(T, ch))
  <2>1. ToSet(Line(U, ch)) \subseteq ToSet(Line(T, ch))
    BY <1>5, <1>6, <1>7, <1>8 DEF Part
  <2>2. ASSUME NEW x, NEW y, Precedes(Line(U, ch), x, y) PROVE Precedes(Line(T, ch), x, y)
    <3>1. CASE Precedes(Append(b, n[3]), x, y)
      BY <1>5, <1>6, <1>7, <3>1
    <3>2. CASE Precedes(Values(Tail(q)), x, y)
      BY <1>6, <1>7, <3>2 DEF Part
    <3>3. CASE x \in ToSet(Append(b, n[3])) /\ y \in ToSet(Values(Tail(q)))
      <4>1. y \in ToSet(Values(q)) /\ Precedes(Values(q), n[3], y)
        BY <1>6, <3>3 DEF Part
      <4> QED
        BY <1>5, <1>7, <3>3, <4>1
    <3> QED
      BY <1>8, <2>2, <3>1, <3>2, <3>3
  <2> QED
    BY <2>1, <2>2 DEF Part
<1>10. ASSUME OneSide(T, ch) PROVE OneSide(U, ch)
  <2>1. NoReceiver(T, ch) /\ ch \notin T.closed
    BY <1>2, <1>10 DEF OneSide, q
  <2>2. NoReceiver(U, ch)
    BY <1>0, <1>4, <2>1, ElsewhereFacts
  <2> QED
    BY <1>1, <2>1, <2>2 DEF OneSide
<1>11. Len(Tail(q)) = Len(q) - 1
  <2>1. q \in Seq(Node) /\ q # <<>>
    BY <1>2
  <2> QED
    BY <2>1, HeadTailProperties
<1> QED
  BY <1>1, <1>3, <1>4, <1>9, <1>10, <1>11 DEF Eased, q

\* On a channel that no select sends to, every sender that waits may be served.
LEMMA OpenSenders ==
    ASSUME ChanInv, NEW T, Reached(T), NEW ch \in Chans, ch \notin SelectSends,
           T.senders[ch] # <<>>
    PROVE  Pending(T, ch)
<1> DEFINE n == Head(T.senders[ch])
<1>1. T.senders[ch] \in Seq(Node)
  BY DEF Reached, ChanState
<1>2. n \in ToSet(T.senders[ch]) /\ n \in Node
  BY <1>1, TailProperties
<1> HIDE DEF n
<1>3. n[1] \in Coros
  BY <1>2 DEF Node
<1>4. n \in ToSet(chan.senders[ch])
  BY <1>2 DEF Reached
<1>5. IsBranch(n, "send", ch)
  BY <1>4, NodeFacts
<1>6. op[n[1]] # NoOp
  BY <1>5, BranchOfCall
<1>7. op[n[1]] \in calls
  BY <1>3, <1>6 DEF ChanInv, Operations
<1>8. op[n[1]].branches \in Seq(Branch)
  BY <1>7, CallFacts
<1> DEFINE bs == op[n[1]].branches
           s == op[n[1]]
<1>9. n[2] \in 1..Len(bs) /\ bs[n[2]].dir = "send" /\ bs[n[2]].ch = ch
  BY <1>5 DEF IsBranch
<1>10. bs[n[2]] = [dir |-> "send", ch |-> ch]
  <2>1. bs[n[2]] \in Branch
    BY <1>8, <1>9, ElementOfSeq
  <2> QED
    BY <1>9, <2>1 DEF Branch
<1>11. Contains(bs, [dir |-> "send", ch |-> ch])
  BY <1>9, <1>10 DEF Contains
<1>12. ~s.select
  BY <1>7, <1>11 DEF SelectSends
<1>13. T.winner[n[1]] = 0
  <2>1. ~NoNodes(T, n[1])
    BY <1>2 DEF NoNodes
  <2> QED
    BY <1>3, <1>12, <2>1 DEF Reached
<1> QED
  BY <1>13 DEF Pending, gate_open, n

\* One round, and how it brings the loop nearer to its end
LEMMA PromoteOneEases ==
    ASSUME ChanInv, NEW T, Reached(T), NEW ch \in Chans
    PROVE  /\ Eased(T, PromoteOne(T, ch), ch)
           /\ ch \notin SelectSends =>
                 \/ Full(PromoteOne(T, ch), ch)
                 \/ ~Full(T, ch) /\ Len(PromoteOne(T, ch).senders[ch]) = Len(T.senders[ch]) - 1
<1>0. T \in ChanState
  BY DEF Reached
<1>1. CASE Pending(T, ch) /\ channel_has_room(T, ch)
  <2>1. PromoteOne(T, ch) = Promote(T, ch) /\ ~Full(T, ch)
    BY <1>1 DEF PromoteOne, Full, Pending
  <2> QED
    BY <1>1, <2>1, PromoteEases
<1>2. CASE ~(Pending(T, ch) /\ channel_has_room(T, ch))
  <2>1. PromoteOne(T, ch) = T
    BY <1>2 DEF PromoteOne
  <2>2. ch \notin SelectSends => Full(T, ch)
    BY <1>2, OpenSenders DEF Full
  <2>3. Eased(T, T, ch)
    BY <1>0, EasedOrder
  <2> QED
    BY <2>1, <2>2, <2>3
<1> QED
  BY <1>1, <1>2

LEMMA PromoteAllEases ==
    ASSUME ChanInv, NEW B, B \subseteq accepted, NEW S, Kept(B, S), NEW ch \in Chans
    PROVE  /\ Eased(S, channel_promote_senders(S, ch), ch)
           /\ ch \notin SelectSends => Full(channel_promote_senders(S, ch), ch)
<1> DEFINE n == Len(S.senders[ch])
           D == Promotable(B, S)
<1>0. S \in ChanState /\ n \in Nat
  BY LenProperties DEF Kept, Reached, ChanState
<1>1. S \in D
  BY <1>0 DEF Promotable, Shrunk
<1>2. \A U \in D : PromoteOne(U, ch) \in D
  BY PromoteOneKept
<1>r. \A U \in D : U \in ChanState /\ Reached(U)
  BY DEF Promotable, Kept
<1> HIDE DEF D
<1>3. PICK f : Promotes(f, S, ch, D)
  BY <1>0, <1>1, <1>2, PromoteRounds
<1>4. /\ f \in [0..n -> D] /\ f[0] = S /\ \A i \in 1..n : f[i] = PromoteOne(f[i - 1], ch)
      /\ channel_promote_senders(S, ch) = f[n]
  BY <1>3 DEF Promotes
<1>l. \A i \in 0..n : Len(f[i].senders[ch]) \in Nat
  BY <1>4, <1>r, LenProperties DEF ChanState
<1>n. n = Len(f[0].senders[ch])
  BY <1>4
<1> HIDE DEF n
<1> DEFINE Done(i) == Full(f[i], ch) \/ Len(f[i].senders[ch]) <= n - i
           N == {i \in 0..n : Eased(S, f[i], ch) /\ (ch \notin SelectSends => Done(i))}
<1>5. 0 \in N
  <2>1. Eased(S, f[0], ch) /\ 0 \in 0..n
    <3>1. Eased(S, S, ch)
      BY <1>0, EasedOrder
    <3> QED
      BY <1>0, <1>4, <3>1
  <2>2. Done(0)
    BY <1>0, <1>n
  <2> QED
    BY <2>1, <2>2
<1>6. ASSUME NEW i \in 1..n, i - 1 \in N PROVE i \in N
  <2>1. i - 1 \in 0..n /\ i \in 0..n /\ Eased(S, f[i - 1], ch) /\ (ch \notin SelectSends => Done(i - 1))
    BY <1>0, <1>6
  <2>2. f[i - 1] \in D /\ Reached(f[i - 1]) /\ f[i] = PromoteOne(f[i - 1], ch)
    BY <1>4, <1>r, <2>1
  <2>3. /\ Eased(f[i - 1], f[i], ch)
        /\ ch \notin SelectSends =>
              \/ Full(f[i], ch)
              \/ ~Full(f[i - 1], ch) /\ Len(f[i].senders[ch]) = Len(f[i - 1].senders[ch]) - 1
    BY <2>2, PromoteOneEases
  <2>4. Eased(S, f[i], ch)
    BY <2>1, <2>3, EasedOrder
  <2>5. ASSUME ch \notin SelectSends, ~Full(f[i], ch) PROVE Len(f[i].senders[ch]) <= n - i
    <3>1. ~Full(f[i - 1], ch) /\ Len(f[i].senders[ch]) = Len(f[i - 1].senders[ch]) - 1
      BY <2>3, <2>5
    <3>2. Len(f[i - 1].senders[ch]) <= n - (i - 1)
      BY <2>1, <2>5, <3>1
    <3>3. Len(f[i - 1].senders[ch]) \in Nat /\ i \in Nat
      BY <1>l, <2>1
    <3> QED
      BY <1>0, <3>1, <3>2, <3>3
  <2> QED
    BY <2>1, <2>4, <2>5
<1> HIDE DEF N
<1>7. \A i \in 0..n : i \in N
  BY <1>0, <1>5, <1>6, Induct
<1>8. n \in N /\ n \in 0..n
  BY <1>0, <1>7
<1>9. Eased(S, f[n], ch) /\ (ch \notin SelectSends => Done(n))
  BY <1>8 DEF N
<1>10. Done(n) => Full(f[n], ch)
  <2>1. SUFFICES ASSUME Len(f[n].senders[ch]) <= n - n PROVE Full(f[n], ch)
    OBVIOUS
  <2>2. Len(f[n].senders[ch]) = 0
    BY <1>0, <1>l, <1>8, <2>1
  <2>3. f[n].senders[ch] \in Seq(Node)
    BY <1>4, <1>r, <1>8 DEF ChanState
  <2>4. f[n].senders[ch] = <<>>
    BY <2>2, <2>3, EmptySeq
  <2> QED
    BY <2>4 DEF Full
<1> QED
  BY <1>4, <1>9, <1>10

\* Values and senders leave or move up, on any channel, and where no select sends
\* sender and receiver meet.
Settles(T, U) ==
    /\ U \in ChanState /\ U.closed = T.closed
    /\ \A ch \in Chans : /\ Part(Line(U, ch), Line(T, ch))
                         /\ ch \notin SelectSends /\ Meets(T, ch) => Meets(U, ch)

LEMMA SettlesOrder ==
    /\ \A T \in ChanState : Settles(T, T)
    /\ \A S, T, U : Settles(S, T) /\ Settles(T, U) => Settles(S, U)
<1>1. \A T \in ChanState : Settles(T, T)
  BY PartOrder DEF Settles
<1>2. ASSUME NEW S, NEW T, NEW U, Settles(S, T), Settles(T, U) PROVE Settles(S, U)
  BY <1>2, PartOrder DEF Settles
<1> QED
  BY <1>1, <1>2

LEMMA EasedSettles ==
    ASSUME NEW T \in ChanState, NEW U, NEW ch \in Chans, Eased(T, U, ch),
           ch \notin SelectSends /\ Meets(T, ch) => Full(U, ch)
    PROVE  Settles(T, U)
<1>1. Elsewhere(T, U, ch) /\ Part(Line(U, ch), Line(T, ch)) /\ (OneSide(T, ch) => OneSide(U, ch))
  BY DEF Eased
<1>2. ASSUME NEW dh \in Chans
      PROVE  /\ Part(Line(U, dh), Line(T, dh))
             /\ dh \notin SelectSends /\ Meets(T, dh) => Meets(U, dh)
  <2>1. CASE dh = ch
    BY <1>1, <2>1 DEF Meets
  <2>2. CASE dh # ch
    <3>1. Line(U, dh) = Line(T, dh) /\ (Meets(T, dh) => Meets(U, dh))
      BY <1>1, <2>2, ElsewhereFacts
    <3> QED
      BY <3>1, PartOrder
  <2> QED
    BY <2>1, <2>2
<1> QED
  BY <1>1, <1>2 DEF Settles, Elsewhere

LEMMA DropReceiverSettles ==
    ASSUME NEW T \in ChanState, NEW ch \in Chans, NEW c, NEW i
    PROVE  Settles(T, channel_drop_receiver(T, ch, c, i))
<1> DEFINE q == Erase(T.receivers[ch], c, i)
           U == [T EXCEPT !.receivers[ch] = q]
<1>1. q \in Seq(Node) /\ ToSet(q) \subseteq ToSet(T.receivers[ch])
  <2>1. T.receivers[ch] \in Seq(Node)
    BY DEF ChanState
  <2> QED
    BY <2>1, EraseProperties
<1>2. channel_drop_receiver(T, ch, c, i) = U
  BY DEF channel_drop_receiver
<1> HIDE DEF q
<1>3. /\ U \in ChanState /\ U.winner = T.winner /\ U.buffer = T.buffer /\ U.closed = T.closed
      /\ U.senders = T.senders /\ U.receivers = [T.receivers EXCEPT ![ch] = q]
  BY <1>1 DEF ChanState
<1> HIDE DEF U
<1>4. \A dh \in Chans : ToSet(U.receivers[dh]) \subseteq ToSet(T.receivers[dh])
  <2>1. U.receivers[ch] = q /\ \A dh \in Chans : dh # ch => U.receivers[dh] = T.receivers[dh]
    BY <1>3 DEF ChanState
  <2> QED
    BY <1>1, <2>1
<1>5. Elsewhere(T, U, ch)
  BY <1>3, <1>4 DEF Elsewhere
<1>6. NoReceiver(T, ch) => NoReceiver(U, ch)
  BY <1>5, ElsewhereFacts
<1>7. OneSide(T, ch) => OneSide(U, ch)
  BY <1>3, <1>6 DEF OneSide
<1>8. Line(U, ch) = Line(T, ch) /\ (Full(T, ch) => Full(U, ch))
  BY <1>3 DEF Line, Full, channel_has_room
<1>9. Eased(T, U, ch)
  BY <1>5, <1>7, <1>8, PartOrder DEF Eased
<1>10. Meets(T, ch) => Full(U, ch)
  BY <1>8 DEF Meets
<1>11. Settles(T, U)
  BY <1>9, <1>10, EasedSettles
<1> QED
  BY <1>2, <1>11

LEMMA DropSenderSettles ==
    ASSUME ChanInv, NEW B, B \subseteq accepted, NEW T, Kept(B, T), NEW ch \in Chans, NEW c, NEW i
    PROVE  Settles(T, channel_drop_sender(T, ch, c, i))
<1> DEFINE q == Erase(T.senders[ch], c, i)
           U == [T EXCEPT !.senders[ch] = q]
           V == channel_promote_senders(U, ch)
<1>0. T \in ChanState /\ Reached(T) /\ T.senders[ch] \in Seq(Node) /\ Distinct(T.senders[ch])
  BY DEF Kept, Reached, ChanState
<1>1. q \in Seq(Node) /\ ToSet(q) = {n \in ToSet(T.senders[ch]) : ~(n[1] = c /\ n[2] = i)} /\ Distinct(q)
  BY <1>0, EraseProperties
<1>p. Part(q, T.senders[ch])
  BY <1>0, FilteredPart DEF Erase
<1>2. channel_drop_sender(T, ch, c, i) = V
  BY DEF channel_drop_sender
<1> HIDE DEF q, V
<1>3. /\ U \in ChanState /\ U.winner = T.winner /\ U.hand = T.hand /\ U.buffer = T.buffer
      /\ U.receivers = T.receivers /\ U.senders = [T.senders EXCEPT ![ch] = q] /\ U.closed = T.closed
  BY <1>0, <1>1 DEF ChanState
<1> HIDE DEF U
<1>4. U.senders[ch] = q /\ \A dh \in Chans : dh # ch => U.senders[dh] = T.senders[dh]
  BY <1>0, <1>3 DEF ChanState
<1>5. \A dh \in Chans : /\ ToSet(U.senders[dh]) \subseteq ToSet(T.senders[dh])
                        /\ ToSet(U.receivers[dh]) \subseteq ToSet(T.receivers[dh])
                        /\ Distinct(U.senders[dh]) /\ Distinct(U.receivers[dh])
  BY <1>0, <1>1, <1>3, <1>4 DEF Reached
<1>6. Reached(U) /\ Served(U) = Served(T)
  BY <1>0, <1>3, <1>5, FewerNodes
<1>7. Kept(B, U)
  BY <1>3, <1>6, SameBuffers DEF Kept
<1>8. Eased(T, U, ch)
  <2>1. Elsewhere(T, U, ch)
    BY <1>3, <1>4, <1>5 DEF Elsewhere
  <2>2. Part(U.buffer[ch], T.buffer[ch]) /\ Part(U.senders[ch], T.senders[ch])
    BY <1>3, <1>4, <1>p, PartOrder
  <2>3. Part(Line(U, ch), Line(T, ch))
    BY <1>0, <1>3, <2>2, LinePart
  <2>4. U.senders[ch] # <<>> => T.senders[ch] # <<>>
    <3>1. SUFFICES ASSUME T.senders[ch] = <<>> PROVE q = <<>>
      BY <1>4
    <3>2. ToSet(q) = {}
      BY <1>1, <3>1, NoWaiters
    <3> QED
      BY <1>1, <3>2, TailProperties
  <2>5. NoReceiver(T, ch) => NoReceiver(U, ch)
    BY <1>0, <2>1, ElsewhereFacts
  <2>6. OneSide(T, ch) => OneSide(U, ch)
    BY <1>3, <2>4, <2>5 DEF OneSide
  <2> QED
    BY <2>1, <2>3, <2>6 DEF Eased
<1>9. Eased(U, V, ch) /\ (ch \notin SelectSends => Full(V, ch))
  BY <1>7, PromoteAllEases DEF V
<1>10. Eased(T, V, ch)
  BY <1>8, <1>9, EasedOrder
<1> QED
  BY <1>0, <1>2, <1>9, <1>10, EasedSettles

LEMMA DisarmSettles ==
    ASSUME ChanInv, NEW B, B \subseteq accepted, NEW T, Kept(B, T), NEW c, NEW i, NEW b \in Branch
    PROVE  Settles(T, Disarm(T, c, i, b))
<1>1. b.ch \in Chans /\ T \in ChanState
  BY DEF Branch, Kept, Reached
<1>2. CASE b.dir = "send"
  <2>1. Disarm(T, c, i, b) = channel_drop_sender(T, b.ch, c, i)
    BY <1>2 DEF Disarm
  <2> QED
    BY <1>1, <2>1, DropSenderSettles
<1>3. CASE b.dir # "send"
  <2>1. Disarm(T, c, i, b) = channel_drop_receiver(T, b.ch, c, i)
    BY <1>3 DEF Disarm
  <2> QED
    BY <1>1, <2>1, DropReceiverSettles
<1> QED
  BY <1>2, <1>3

LEMMA DisarmAllSettles ==
    ASSUME ChanInv, NEW B, B \subseteq accepted, NEW S, Kept(B, S), NEW c, NEW bs \in Seq(Branch)
    PROVE  Settles(S, DisarmAll(S, c, bs))
<1> DEFINE n == Len(bs)
           D == Disarmable(B)
<1>1. n \in Nat /\ \A i \in 1..n : bs[i] \in Branch
  BY LenProperties
<1>s. S \in D
  BY DEF Disarmable, Kept, Reached
<1>3. \A U \in D, i \in 1..n : Disarm(U, c, i, bs[i]) \in D /\ Settles(U, Disarm(U, c, i, bs[i]))
  <2> TAKE U \in D, i \in 1..n
  <2>1. Kept(B, U) /\ bs[i] \in Branch
    BY <1>1 DEF Disarmable
  <2>2. Kept(B, Disarm(U, c, i, bs[i])) /\ Settles(U, Disarm(U, c, i, bs[i]))
    BY <2>1, DisarmKept, DisarmSettles
  <2>3. Disarm(U, c, i, bs[i]) \in ChanState
    BY <2>2 DEF Kept, Reached
  <2> QED
    BY <2>2, <2>3 DEF Disarmable
<1>t. S \in ChanState
  BY DEF Kept, Reached
<1> HIDE DEF D
<1>9. PICK T : /\ T \in [0..n -> D] /\ T[0] = S
               /\ \A i \in 1..n : T[i] = Disarm(T[i - 1], c, i, bs[i])
               /\ DisarmAll(S, c, bs) = T[n]
  <2>1. \A U \in D, i \in 1..Len(bs) : Disarm(U, c, i, bs[i]) \in D
    BY <1>3
  <2>2. S \in D /\ Len(bs) \in Nat
    BY <1>1, <1>s
  <2>3. \E f : Disarms(f, S, c, bs, D)
    BY ONLY <2>1, <2>2, DisarmRounds
  <2> QED
    BY <2>3, Zenon DEF Disarms
<1> HIDE DEF n
<1> DEFINE N == {i \in 0..n : Settles(S, T[i])}
<1>10. 0 \in N
  <2>1. Settles(S, S)
    BY <1>t, SettlesOrder
  <2> QED
    BY <1>1, <1>9, <2>1
<1>11. ASSUME NEW i \in 1..n, i - 1 \in N PROVE i \in N
  <2>1. T[i - 1] \in D /\ Settles(S, T[i - 1]) /\ i \in 0..n
    BY <1>1, <1>9, <1>11
  <2>2. Settles(T[i - 1], T[i])
    BY <1>3, <1>9, <2>1
  <2>3. Settles(S, T[i])
    BY <2>1, <2>2, SettlesOrder
  <2> QED
    BY <2>1, <2>3
<1> HIDE DEF N
<1>12. \A i \in 0..n : i \in N
  BY <1>1, <1>10, <1>11, Induct
<1>13. n \in N
  BY <1>1, <1>12
<1>14. Settles(S, T[n])
  BY <1>13 DEF N
<1> QED
  BY <1>9, <1>14

\* The end of a wait
LEMMA CleanedSettles ==
    ASSUME ChanInv, NEW c \in Coros
    PROVE  Settles(chan, Cleaned(c))
<1>1. CASE op[c].select \/ chan.winner[c] = 0
  <2>1. op[c].branches \in Seq(Branch)
    BY DEF ChanInv, ChanTypes, Operation
  <2>2. Cleaned(c) = DisarmAll(chan, c, op[c].branches)
    BY <1>1 DEF Cleaned
  <2>3. Kept(Contents(chan), chan) /\ Contents(chan) \subseteq accepted
    BY StartKept
  <2> QED
    BY <2>1, <2>2, <2>3, DisarmAllSettles
<1>2. CASE ~(op[c].select \/ chan.winner[c] = 0)
  <2>1. Cleaned(c) = chan /\ chan \in ChanState
    BY <1>2 DEF Cleaned, ChanInv, ChanTypes
  <2> QED
    BY <2>1, SettlesOrder
<1> QED
  BY <1>1, <1>2

\* commit_take
LEMMA TakeSettles ==
    ASSUME ChanInv, NEW ch \in Chans, CanTake(chan, ch)
    PROVE  Settles(chan, TakeNext(chan, ch))
<1>0. chan \in ChanState /\ BuffersApart(chan) /\ Reached(chan) /\ Contents(chan) \subseteq accepted
  BY StartKept, StartReached DEF ChanInv, ChanTypes
<1>1. CASE chan.buffer[ch] # <<>>
  <2> DEFINE q == Tail(chan.buffer[ch])
             v == Head(chan.buffer[ch])
             U == [chan EXCEPT !.buffer[ch] = q]
             B == Contents(chan) \ {v}
  <2>1. chan.buffer[ch] \in Seq(Nat) /\ Distinct(chan.buffer[ch])
    BY <1>0 DEF ChanState, BuffersApart
  <2>2. /\ q \in Seq(Nat) /\ Distinct(q) /\ v \in ToSet(chan.buffer[ch])
        /\ ToSet(q) = ToSet(chan.buffer[ch]) \ {v}
    BY <1>1, <2>1, TailProperties
  <2>p. Part(q, chan.buffer[ch])
    BY <1>1, <2>1, PartTail
  <2>3. TakeNext(chan, ch) = channel_promote_senders(U, ch)
    BY <1>1 DEF TakeNext
  <2>4. Refilled(U, ch, q)
    BY DEF Refilled
  <2> HIDE DEF q, v
  <2>5. /\ U \in ChanState /\ U.closed = chan.closed /\ U.senders = chan.senders
        /\ U.receivers = chan.receivers /\ U.winner = chan.winner
        /\ U.buffer = [chan.buffer EXCEPT ![ch] = q]
    BY <1>0, <2>2 DEF ChanState
  <2> HIDE DEF U
  <2>6. /\ Reached(U) /\ Served(U) = {} /\ U.hand = chan.hand /\ U.buffer[ch] = q
        /\ OneBuffer(chan, U, ch)
    BY <2>2, <2>4, RefilledReached
  <2>7. BuffersApart(U) /\ Contents(U) = B
    BY <1>0, <2>2, <2>6, ValueLeaves
  <2>8. Kept(B, U) /\ B \subseteq accepted
    BY <1>0, <2>6, <2>7 DEF Kept
  <2>9. Elsewhere(chan, U, ch)
    <3>1. \A dh \in Chans : dh # ch => U.buffer[dh] = chan.buffer[dh]
      BY <1>0, <2>5 DEF ChanState
    <3> QED
      BY <2>5, <3>1 DEF Elsewhere
  <2>10. Part(Line(U, ch), Line(chan, ch))
    <3>1. Part(U.buffer[ch], chan.buffer[ch]) /\ Part(U.senders[ch], chan.senders[ch])
      BY <2>p, <2>5, <2>6, PartOrder
    <3> QED
      BY <1>0, <2>5, <3>1, LinePart
  <2>11. OneSide(chan, ch) => OneSide(U, ch)
    <3>1. NoReceiver(chan, ch) => NoReceiver(U, ch)
      BY <1>0, <2>9, ElsewhereFacts
    <3> QED
      BY <1>1, <2>5, <3>1 DEF OneSide
  <2>12. Eased(chan, U, ch)
    BY <2>9, <2>10, <2>11 DEF Eased
  <2> HIDE DEF B
  <2>13. /\ Eased(U, channel_promote_senders(U, ch), ch)
         /\ ch \notin SelectSends => Full(channel_promote_senders(U, ch), ch)
    BY <2>8, PromoteAllEases
  <2>14. Eased(chan, TakeNext(chan, ch), ch) /\ (ch \notin SelectSends => Full(TakeNext(chan, ch), ch))
    BY <2>3, <2>12, <2>13, EasedOrder
  <2> QED
    BY <1>0, <2>14, EasedSettles
<1>2. CASE chan.buffer[ch] = <<>>
  <2> DEFINE U == TakeNext(chan, ch)
             n == Head(chan.senders[ch])
             q == chan.senders[ch]
  <2>1. Pending(chan, ch)
    BY <1>2 DEF CanTake
  <2>2. U = channel_take_pending_sender(chan, ch)
    BY <1>2 DEF TakeNext
  <2>3. U \in ChanState /\ SenderStep(chan, U, ch, n) /\ U.buffer = chan.buffer /\ U.closed = chan.closed
    BY <1>0, <2>1, <2>2, TakePendingIs
  <2>4. q \in Seq(Node) /\ q # <<>>
    BY <1>0, <2>1 DEF ChanState, Pending
  <2>5. n[1] \in Coros /\ n[2] # 0
    <3>1. n \in ToSet(chan.senders[ch])
      BY <2>4, TailProperties
    <3>2. n \in Offers(chan)
      BY <3>1, NodeFacts
    <3> QED
      BY <3>2, NodeFacts
  <2> HIDE DEF U, n
  <2>6. /\ U.senders = [chan.senders EXCEPT ![ch] = Tail(q)] /\ U.receivers = chan.receivers
        /\ U.winner = [chan.winner EXCEPT ![n[1]] = n[2]]
    BY <2>3 DEF SenderStep
  <2>7. U.senders[ch] = Tail(q) /\ \A dh \in Chans : dh # ch => U.senders[dh] = chan.senders[dh]
    BY <1>0, <2>6 DEF ChanState
  <2>8. \A c \in Coros : chan.winner[c] # 0 => U.winner[c] # 0
    BY <1>0, <2>5, <2>6 DEF ChanState
  <2>9. Elsewhere(chan, U, ch)
    BY <2>3, <2>6, <2>7, <2>8 DEF Elsewhere
  <2>10. Part(Line(U, ch), Line(chan, ch))
    <3>1. Part(U.buffer[ch], chan.buffer[ch]) /\ Part(U.senders[ch], chan.senders[ch])
      BY <2>3, <2>4, <2>7, PartOrder, PartTail
    <3> QED
      BY <1>0, <2>3, <3>1, LinePart
  <2>11. OneSide(chan, ch) => OneSide(U, ch)
    <3>1. NoReceiver(chan, ch) => NoReceiver(U, ch)
      BY <1>0, <2>9, ElsewhereFacts
    <3> QED
      BY <2>3, <2>4, <3>1 DEF OneSide
  <2>12. Eased(chan, U, ch)
    BY <2>9, <2>10, <2>11 DEF Eased
  <2>13. Meets(chan, ch) => Full(U, ch)
    BY <2>3, <2>4 DEF Meets, Full, channel_has_room
  <2>14. Settles(chan, U)
    BY <1>0, <2>12, <2>13, EasedSettles
  <2> QED
    BY <2>14 DEF U
<1> QED
  BY <1>1, <1>2

\* From chan to T the value v is handed to d, who waits on ch.
Hands(T, d, v, ch) ==
    /\ Elsewhere(chan, T, ch) /\ T.buffer = chan.buffer /\ T.senders = chan.senders
    /\ d \in Coros /\ T.hand = [chan.hand EXCEPT ![d] = v]
    /\ op[d].select \/ op[d].branches[1].ch = ch

LEMMA DeliverHands ==
    ASSUME ChanInv, NEW ch \in Chans, NEW v \in Nat, Waiting(chan, ch) # 0
    PROVE  \E d : Hands(channel_deliver(chan, ch, v), d, v, ch)
<1> DEFINE i == Waiting(chan, ch)
           n == chan.receivers[ch][i]
           q == RemoveAt(chan.receivers[ch], i)
           T == [chan EXCEPT !.receivers[ch] = q]
           U == Settle(T, n, v)
<1>0. chan \in ChanState
  BY DEF ChanInv, ChanTypes
<1>1. i \in 1..Len(chan.receivers[ch]) /\ chan.receivers[ch] \in Seq(Node)
  BY <1>0, WaitingOpen DEF ChanState
<1>2. n \in Node /\ q \in Seq(Node) /\ n \in ToSet(chan.receivers[ch])
  BY <1>1, RemoveAtProperties, InToSet
<1>s. ToSet(q) \subseteq ToSet(chan.receivers[ch])
  <2>1. Distinct(chan.receivers[ch])
    BY DEF ChanInv, Nodes
  <2> QED
    BY <1>1, <2>1, RemoveAtToSet
<1>3. channel_deliver(chan, ch, v) = U
  BY DEF channel_deliver
<1> HIDE DEF q, n, i
<1>4. /\ T \in ChanState /\ T.winner = chan.winner /\ T.hand = chan.hand /\ T.buffer = chan.buffer
      /\ T.senders = chan.senders /\ T.receivers = [chan.receivers EXCEPT ![ch] = q]
      /\ T.closed = chan.closed
  BY <1>0, <1>2 DEF ChanState
<1> HIDE DEF T
<1>5. /\ U \in ChanState /\ U.winner = [T.winner EXCEPT ![n[1]] = n[2]]
      /\ U.hand = [T.hand EXCEPT ![n[1]] = v]
      /\ U.senders = T.senders /\ U.receivers = T.receivers /\ U.buffer = T.buffer
      /\ U.closed = T.closed
  <2>1. T \in ChanState /\ n \in Node
    BY <1>2, <1>4
  <2> QED
    BY <2>1, SettleFields
<1> HIDE DEF U
<1>6. n[1] \in Coros /\ n[2] \in Nat \ {0} /\ IsBranch(n, "recv", ch)
  BY <1>2, NodeFacts
<1>7. \A dh \in Chans : ToSet(U.receivers[dh]) \subseteq ToSet(chan.receivers[dh])
  <2>1. U.receivers[ch] = q /\ \A dh \in Chans : dh # ch => U.receivers[dh] = chan.receivers[dh]
    BY <1>0, <1>4, <1>5 DEF ChanState
  <2> QED
    BY <1>s, <2>1
<1>8. \A c \in Coros : chan.winner[c] # 0 => U.winner[c] # 0
  BY <1>0, <1>4, <1>5, <1>6 DEF ChanState
<1>9. Elsewhere(chan, U, ch)
  BY <1>4, <1>5, <1>7, <1>8 DEF Elsewhere
<1>10. op[n[1]].select \/ op[n[1]].branches[1].ch = ch
  <2>1. n[2] \in 1..Len(op[n[1]].branches) /\ op[n[1]].branches[n[2]].ch = ch
    BY <1>6 DEF IsBranch
  <2>2. ~op[n[1]].select => n[2] = 1
    BY <1>6, <2>1, OneBranch
  <2> QED
    BY <2>1, <2>2
<1>11. Hands(U, n[1], v, ch)
  BY <1>4, <1>5, <1>6, <1>9, <1>10 DEF Hands
<1> QED
  BY <1>3, <1>11

-----------------------------------------------------------------------------
(* The invariant of the channels that no select sends to.  R holds the     *)
(* values that dropped receivers returned.                                 *)

\* Values that were returned come first; the others are in the order in which they
\* were offered, and follow smaller ones only.
Ordered(q, R) ==
    \A x, y : Precedes(q, x, y) => (y \in R => x \in R) /\ (y \notin R => x < y)

\* d may still return to ch the value it was handed.
Holds(T, d, ch) == T.hand[d] # 0 /\ ~op[d].select /\ op[d].branches[1].ch = ch

\* Such a value is older than all that was not returned itself.
Ahead(T, R, ch) ==
    \A d \in Coros : Holds(T, d, ch) => \A x \in ToSet(Line(T, ch)) : x \in R \/ T.hand[d] < x

Flows(T, R, ch) == Meets(T, ch) /\ Ordered(Line(T, ch), R) /\ Ahead(T, R, ch)

FlowInv ==
    /\ returned \subseteq 1..sent
    /\ \A ch \in Chans \ SelectSends : Flows(chan, returned, ch)

\* What is known of the values of a line
LEMMA LineFacts ==
    ASSUME ChanInv, NEW ch \in Chans
    PROVE  /\ sent \in Nat /\ ToSet(Line(chan, ch)) \subseteq 1..sent
           /\ \A d \in Coros : chan.hand[d] # 0 =>
                 chan.hand[d] \in 1..sent /\ chan.hand[d] \notin ToSet(Line(chan, ch))
<1>0. chan \in ChanState /\ sent \in Nat /\ accepted \subseteq 1..sent
  BY DEF ChanInv, ChanTypes
<1>1. ToSet(Line(chan, ch)) = ToSet(chan.buffer[ch]) \cup ToSet(Values(chan.senders[ch]))
  BY <1>0, LineIs
<1>2. ToSet(chan.buffer[ch]) \subseteq Buffered /\ Buffered \subseteq accepted
  <2>1. Buffered = Contents(chan) /\ Contents(chan) \subseteq accepted
    BY StartKept
  <2> QED
    BY <2>1, ContentsAre
<1>3. \A v \in ToSet(Values(chan.senders[ch])) : v \in 1..sent /\ v \notin accepted
  <2> TAKE v \in ToSet(Values(chan.senders[ch]))
  <2>1. PICK n \in ToSet(chan.senders[ch]) : n[3] = v
    BY <1>0, ValuesProperties DEF ChanState
  <2>2. n \in Offers(chan)
    BY NodeFacts
  <2> QED
    BY <2>1, <2>2, NodeFacts
<1>4. ASSUME NEW d \in Coros, chan.hand[d] # 0
      PROVE  chan.hand[d] \in accepted /\ chan.hand[d] \notin Buffered
  <2>1. chan.hand[d] \in Handed
    BY <1>4 DEF Handed
  <2> QED
    BY <2>1 DEF ChanInv, OnePlace, Apart
<1> QED
  BY <1>0, <1>1, <1>2, <1>3, <1>4

\* A line that loses members is still in order.
LEMMA OrderedPart ==
    ASSUME NEW p, NEW q, NEW R, Part(p, q), Ordered(q, R)
    PROVE  Ordered(p, R)
  BY DEF Part, Ordered

LEMMA FlowsSettle ==
    ASSUME NEW T, Settles(chan, T), T.hand = chan.hand, NEW R, NEW ch \in Chans,
           ch \notin SelectSends, Flows(chan, R, ch)
    PROVE  Flows(T, R, ch)
<1>1. Meets(T, ch) /\ Part(Line(T, ch), Line(chan, ch))
  BY DEF Settles, Flows
<1>2. Ordered(Line(T, ch), R)
  BY <1>1, OrderedPart DEF Flows
<1>3. Ahead(T, R, ch)
  BY <1>1 DEF Flows, Ahead, Holds, Part
<1> QED
  BY <1>1, <1>2, <1>3 DEF Flows

\* A value that is in no line is returned.
LEMMA FlowsLater ==
    ASSUME NEW T, NEW R, NEW ch \in Chans, Flows(T, R, ch), NEW v, v \notin ToSet(Line(T, ch)),
           T \in ChanState
    PROVE  Flows(T, R \cup {v}, ch)
<1> DEFINE q == Line(T, ch)
<1>1. \A x, y : Precedes(q, x, y) => y \in ToSet(q) /\ x \in ToSet(q)
  <2>1. \A x : x \in ToSet(q) <=> \E i \in 1..Len(q) : q[i] = x
    BY LineIs, InToSet
  <2> QED
    BY <2>1 DEF Precedes
<1>2. Ordered(q, R) /\ Ahead(T, R, ch) /\ Meets(T, ch) /\ v \notin ToSet(q)
  BY DEF Flows
<1> HIDE DEF q
<1>3. Ordered(q, R \cup {v})
  BY <1>1, <1>2 DEF Ordered
<1>4. Ahead(T, R \cup {v}, ch)
  BY <1>2 DEF Ahead
<1> QED
  BY <1>2, <1>3, <1>4 DEF Flows, q

\* channel_deliver: where somebody waits to receive, the line is empty.
LEMMA FlowsDeliver ==
    ASSUME ChanInv, NEW R, NEW ch \in Chans, ch \notin SelectSends, Flows(chan, R, ch),
           NEW dh \in Chans, ~NoReceiver(chan, dh), NEW T, NEW d, NEW v, Hands(T, d, v, dh)
    PROVE  Flows(T, R, ch)
<1>0. chan \in ChanState /\ T \in ChanState
  BY DEF ChanInv, ChanTypes, Hands, Elsewhere
<1>1. /\ Elsewhere(chan, T, dh) /\ T.buffer = chan.buffer /\ T.senders = chan.senders
      /\ T.closed = chan.closed
      /\ d \in Coros /\ T.hand = [chan.hand EXCEPT ![d] = v]
      /\ op[d].select \/ op[d].branches[1].ch = dh
  BY DEF Hands, Elsewhere
<1>2. Line(T, ch) = Line(chan, ch)
  BY <1>1 DEF Line
<1>3. CASE ch = dh
  <2>1. chan.buffer[ch] = <<>> /\ chan.senders[ch] = <<>> /\ ch \notin chan.closed
    BY <1>3 DEF Flows, Meets, OneSide
  <2>2. Meets(T, ch)
    BY <1>1, <2>1 DEF Meets, OneSide, Full
  <2>3. ToSet(Line(T, ch)) = {}
    <3>1. ToSet(chan.buffer[ch]) = {} /\ ToSet(chan.senders[ch]) = {}
      BY <2>1, NoWaiters
    <3>2. ToSet(Values(chan.senders[ch])) = {}
      BY <1>0, <3>1, ValuesProperties DEF ChanState
    <3> QED
      BY <1>0, <1>2, <3>1, <3>2, LineIs
  <2>4. Ordered(Line(T, ch), R)
    BY <1>2 DEF Flows
  <2>5. Ahead(T, R, ch)
    BY <2>3 DEF Ahead
  <2> QED
    BY <2>2, <2>4, <2>5 DEF Flows
<1>4. CASE ch # dh
  <2>1. Meets(T, ch)
    BY <1>0, <1>1, <1>4, ElsewhereFacts DEF Flows
  <2>2. Ordered(Line(T, ch), R)
    BY <1>2 DEF Flows
  <2>3. Ahead(T, R, ch)
    <3> SUFFICES ASSUME NEW e \in Coros, Holds(T, e, ch), NEW x \in ToSet(Line(T, ch))
                 PROVE  x \in R \/ T.hand[e] < x
      BY DEF Ahead
    <3>1. e # d
      BY <1>1, <1>4 DEF Holds
    <3>2. T.hand[e] = chan.hand[e]
      BY <1>0, <1>1, <3>1 DEF ChanState
    <3>3. Holds(chan, e, ch)
      BY <3>2 DEF Holds
    <3> QED
      BY <1>2, <3>2, <3>3 DEF Flows, Ahead
  <2> QED
    BY <2>1, <2>2, <2>3 DEF Flows
<1> QED
  BY <1>3, <1>4

LEMMA FlowsElsewhere ==
    ASSUME NEW dh, NEW T, Elsewhere(chan, T, dh), T.hand = chan.hand, chan \in ChanState,
           NEW R, NEW ch \in Chans, ch # dh, Flows(chan, R, ch)
    PROVE  Flows(T, R, ch)
<1>1. Line(T, ch) = Line(chan, ch) /\ Meets(T, ch)
  BY ElsewhereFacts DEF Flows
<1> QED
  BY <1>1 DEF Flows, Ahead, Holds

\* The buffer of dh becomes q.
LEMMA RefillElsewhere ==
    ASSUME ChanInv, NEW dh \in Chans, NEW q \in Seq(Nat), NEW T, Refilled(T, dh, q)
    PROVE  /\ Elsewhere(chan, T, dh) /\ T \in ChanState /\ T.hand = chan.hand /\ T.buffer[dh] = q
           /\ T.senders = chan.senders /\ T.receivers = chan.receivers /\ T.winner = chan.winner
<1>0. chan \in ChanState
  BY DEF ChanInv, ChanTypes
<1>1. /\ T \in ChanState /\ T.winner = chan.winner /\ T.hand = chan.hand /\ T.closed = chan.closed
      /\ T.senders = chan.senders /\ T.receivers = chan.receivers
      /\ T.buffer = [chan.buffer EXCEPT ![dh] = q]
  BY <1>0 DEF ChanState, Refilled
<1>2. T.buffer[dh] = q /\ \A eh \in Chans : eh # dh => T.buffer[eh] = chan.buffer[eh]
  BY <1>0, <1>1 DEF ChanState
<1>3. Elsewhere(chan, T, dh)
  BY <1>1, <1>2 DEF Elsewhere
<1> QED
  BY <1>1, <1>2, <1>3

\* Where there is room nobody waits to send: the line is the buffer.
LEMMA RefillLine ==
    ASSUME ChanInv, NEW ch \in Chans, Meets(chan, ch), NoReceiver(chan, ch), channel_has_room(chan, ch),
           NEW q \in Seq(Nat), NEW T, Refilled(T, ch, q)
    PROVE  Meets(T, ch) /\ Line(T, ch) = q /\ Line(chan, ch) = chan.buffer[ch]
<1>0. chan \in ChanState /\ chan.buffer[ch] \in Seq(Nat)
  BY DEF ChanInv, ChanTypes, ChanState
<1>1. /\ Elsewhere(chan, T, ch) /\ T.buffer[ch] = q /\ T.senders = chan.senders
  BY RefillElsewhere
<1>2. chan.senders[ch] = <<>>
  BY DEF Meets, Full
<1>3. T.senders[ch] = <<>>
  BY <1>1, <1>2
<1>4. NoReceiver(T, ch)
  BY <1>0, <1>1, ElsewhereFacts
<1>5. Meets(T, ch)
  BY <1>3, <1>4 DEF Meets, OneSide, Full
<1>6. Values(<<>>) = <<>>
  <2>1. <<>> \in Seq(Node) /\ Len(<<>>) = 0
    BY EmptySeq
  <2>2. Values(<<>>) \in Seq(Nat) /\ Len(Values(<<>>)) = 0
    BY <2>1, ValuesProperties
  <2> QED
    BY <2>2, EmptySeq
<1>7. \A r \in Seq(Nat) : r \o <<>> = r
  OBVIOUS
<1> QED
  BY <1>0, <1>1, <1>2, <1>3, <1>5, <1>6, <1>7 DEF Line

\* A new value enters the buffer.
LEMMA FlowsAppend ==
    ASSUME ChanInv, NEW R, R \subseteq 1..sent, NEW ch \in Chans, ch \notin SelectSends,
           Flows(chan, R, ch),
           NEW dh \in Chans, NoReceiver(chan, dh), channel_has_room(chan, dh),
           NEW v \in Nat, v > sent, NEW T, Refilled(T, dh, Append(chan.buffer[dh], v))
    PROVE  Flows(T, R, ch)
<1> DEFINE p == chan.buffer[dh]
           q == Append(p, v)
<1>0. chan \in ChanState /\ p \in Seq(Nat) /\ sent \in Nat
  BY DEF ChanInv, ChanTypes, ChanState
<1>1. q \in Seq(Nat) /\ ToSet(q) = ToSet(p) \cup {v}
  BY <1>0, AppendToSet
<1>2. \A x, y : Precedes(q, x, y) <=> Precedes(p, x, y) \/ (x \in ToSet(p) /\ y = v)
  BY <1>0, AppendPrecedes
<1>3. Refilled(T, dh, q)
  OBVIOUS
<1> HIDE DEF q
<1>4. Elsewhere(chan, T, dh) /\ T.hand = chan.hand
  BY <1>1, <1>3, RefillElsewhere
<1>5. CASE ch # dh
  BY <1>0, <1>4, <1>5, FlowsElsewhere
<1>6. CASE ch = dh
  <2>1. Meets(T, ch) /\ Line(T, ch) = q /\ Line(chan, ch) = p
    <3>1. Meets(chan, ch)
      BY DEF Flows
    <3> HIDE DEF p
    <3> QED
      BY <1>1, <1>3, <1>6, <3>1, RefillLine DEF p
  <2>2. ToSet(p) \subseteq 1..sent /\ \A d \in Coros : chan.hand[d] # 0 => chan.hand[d] \in 1..sent
    BY <1>6, <2>1, LineFacts
  <2>3. v \notin R /\ \A x \in 1..sent : x < v
    BY <1>0
  <2>4. Ordered(p, R) /\ Ahead(chan, R, ch)
    BY <2>1 DEF Flows
  <2> HIDE DEF p
  <2>5. Ordered(q, R)
    BY <1>2, <2>2, <2>3, <2>4 DEF Ordered
  <2>6. Ahead(T, R, ch)
    <3> SUFFICES ASSUME NEW d \in Coros, Holds(T, d, ch), NEW x \in ToSet(q)
                 PROVE  x \in R \/ T.hand[d] < x
      BY <2>1 DEF Ahead
    <3>1. Holds(chan, d, ch) /\ T.hand[d] = chan.hand[d] /\ chan.hand[d] \in 1..sent
      BY <1>4, <2>2 DEF Holds
    <3>2. CASE x = v
      BY <2>3, <3>1, <3>2
    <3>3. CASE x \in ToSet(p)
      BY <2>1, <2>4, <3>1, <3>3 DEF Ahead
    <3> QED
      BY <1>1, <3>2, <3>3
  <2> QED
    BY <2>1, <2>5, <2>6 DEF Flows
<1> QED
  BY <1>5, <1>6

\* A value that was handed to c enters the buffer again, first.
LEMMA FlowsCons ==
    ASSUME ChanInv, NEW R, NEW ch \in Chans, ch \notin SelectSends, Flows(chan, R, ch),
           NEW dh \in Chans, NoReceiver(chan, dh), channel_has_room(chan, dh),
           NEW c \in Coros, Holds(chan, c, dh),
           NEW T, Refilled(T, dh, Cons(chan.hand[c], chan.buffer[dh]))
    PROVE  Flows(T, R \cup {chan.hand[c]}, ch)
<1> DEFINE p == chan.buffer[dh]
           v == chan.hand[c]
           one == <<v>>
           q == Cons(v, p)
<1>0. chan \in ChanState /\ p \in Seq(Nat) /\ v \in Nat /\ v # 0
  BY DEF ChanInv, ChanTypes, ChanState, Holds
<1>1. one \in Seq(Nat) /\ ToSet(one) = {v} /\ Len(one) = 1
  BY <1>0, OneHandle
<1>2. q = one \o p
  BY DEF Cons
<1>3. \A x, y : ~Precedes(one, x, y)
  BY <1>1 DEF Precedes
<1>4. Refilled(T, dh, q)
  OBVIOUS
<1> HIDE DEF one
<1>5. q \in Seq(Nat) /\ ToSet(q) = {v} \cup ToSet(p)
  BY <1>0, <1>1, <1>2, ConcatToSet
<1>6. \A x, y : Precedes(q, x, y) <=> Precedes(p, x, y) \/ (x = v /\ y \in ToSet(p))
  <2>1. \A x, y : Precedes(one \o p, x, y) <=>
            Precedes(one, x, y) \/ Precedes(p, x, y) \/ (x \in ToSet(one) /\ y \in ToSet(p))
    BY <1>0, <1>1, ConcatPrecedes
  <2> QED
    BY <1>1, <1>2, <1>3, <2>1
<1> HIDE DEF q
<1>7. Elsewhere(chan, T, dh) /\ T.hand = chan.hand /\ T \in ChanState
  BY <1>4, <1>5, RefillElsewhere
<1>8. v \notin ToSet(Line(chan, ch))
  BY <1>0, LineFacts
<1>9. CASE ch # dh
  <2>1. Flows(T, R, ch)
    BY <1>0, <1>7, <1>9, FlowsElsewhere
  <2>2. Line(T, ch) = Line(chan, ch)
    BY <1>0, <1>7, <1>9, ElsewhereFacts
  <2> QED
    BY <1>7, <1>8, <2>1, <2>2, FlowsLater
<1>10. CASE ch = dh
  <2>1. Meets(T, ch) /\ Line(T, ch) = q /\ Line(chan, ch) = p
    <3>1. Meets(chan, ch)
      BY DEF Flows
    <3> QED
      BY <1>4, <1>5, <1>10, <3>1, RefillLine
  <2>2. Ordered(p, R) /\ Ahead(chan, R, ch) /\ v \notin ToSet(p)
    BY <1>8, <2>1 DEF Flows
  <2>3. Holds(chan, c, ch)
    BY <1>10
  <2>4. \A x \in ToSet(p) : x \in R \/ v < x
    BY <2>1, <2>2, <2>3 DEF Ahead
  <2>5. \A x, y : Precedes(p, x, y) => y \in ToSet(p)
    <3>1. \A x : x \in ToSet(p) <=> \E i \in 1..Len(p) : p[i] = x
      BY <1>0, InToSet
    <3> QED
      BY <3>1 DEF Precedes
  <2> HIDE DEF p, v
  <2>6. Ordered(q, R \cup {v})
    BY <1>6, <2>2, <2>4, <2>5 DEF Ordered
  <2>7. Ahead(T, R \cup {v}, ch)
    <3> SUFFICES ASSUME NEW d \in Coros, Holds(T, d, ch), NEW x \in ToSet(q)
                 PROVE  x \in R \cup {v} \/ T.hand[d] < x
      BY <2>1 DEF Ahead
    <3>1. Holds(chan, d, ch) /\ T.hand[d] = chan.hand[d]
      BY <1>7 DEF Holds
    <3>2. x \in ToSet(p) => x \in R \/ chan.hand[d] < x
      BY <2>1, <2>2, <3>1 DEF Ahead
    <3> QED
      BY <1>5, <3>1, <3>2
  <2>8. Flows(T, R \cup {v}, ch)
    BY <2>1, <2>6, <2>7 DEF Flows
  <2> QED
    BY <2>8 DEF v
<1> QED
  BY <1>9, <1>10

\* From T, in the middle of a step, to the next state: operations may end, and who
\* has no node left is forgotten.
Closes(T) ==
    /\ T \in ChanState /\ chan'.buffer = T.buffer /\ chan'.senders = T.senders
    /\ chan'.receivers = T.receivers /\ chan'.closed = T.closed
    /\ \A d \in Coros : chan'.winner[d] = T.winner[d] \/ NoNodes(T, d)
    /\ \A d \in Coros : chan'.hand[d] = 0 \/ (chan'.hand[d] = T.hand[d] /\ op'[d] = op[d])
    /\ calls' = calls /\ returned' \subseteq 1..sent'

LEMMA FlowsNext ==
    ASSUME NEW T, Closes(T),
           \A ch \in Chans : ch \notin SelectSends => Flows(T, returned', ch)
    PROVE  FlowInv'
<1>0. /\ T \in ChanState /\ chan'.buffer = T.buffer /\ chan'.senders = T.senders
      /\ chan'.receivers = T.receivers /\ chan'.closed = T.closed
      /\ \A d \in Coros : chan'.winner[d] = T.winner[d] \/ NoNodes(T, d)
      /\ \A d \in Coros : chan'.hand[d] = 0 \/ (chan'.hand[d] = T.hand[d] /\ op'[d] = op[d])
      /\ calls' = calls /\ returned' \subseteq 1..sent'
  BY DEF Closes
<1>1. SelectSends' = SelectSends
  BY <1>0 DEF SelectSends
<1>2. ASSUME NEW ch \in Chans, ch \notin SelectSends
      PROVE  Flows(chan, returned, ch)'
  <2>1. Meets(T, ch) /\ Ordered(Line(T, ch), returned') /\ Ahead(T, returned', ch)
    BY <1>2 DEF Flows
  <2>2. Line(chan', ch) = Line(T, ch)
    BY <1>0 DEF Line
  <2>3. NoReceiver(T, ch) => NoReceiver(chan', ch)
    <3> SUFFICES ASSUME NoReceiver(T, ch), NEW n \in ToSet(chan'.receivers[ch])
                 PROVE  ~gate_open(chan', n)
      BY DEF NoReceiver
    <3>1. n \in ToSet(T.receivers[ch])
      BY <1>0
    <3>2. n \in Node
      BY <1>0, <3>1, ToSetProperties DEF ChanState
    <3>3. n[1] \in Coros /\ T.winner[n[1]] # 0
      BY <3>1, <3>2 DEF NoReceiver, gate_open, Node
    <3>4. ~NoNodes(T, n[1])
      BY <3>1 DEF NoNodes
    <3> QED
      BY <1>0, <3>3, <3>4 DEF gate_open
  <2>4. Meets(chan', ch)
    BY <1>0, <2>1, <2>3 DEF Meets, OneSide, Full, channel_has_room
  <2>5. Meets(chan, ch)'
    BY <2>4 DEF Meets, OneSide, Full, channel_has_room, NoReceiver, gate_open
  <2>6. Ordered(Line(chan, ch), returned)'
    <3>1. Ordered(Line(chan', ch), returned')
      BY <2>1, <2>2
    <3> QED
      BY <3>1 DEF Ordered, Line, Precedes, Values
  <2>7. Ahead(chan, returned, ch)'
    <3>1. ASSUME NEW d \in Coros, Holds(chan, d, ch)', NEW x \in ToSet(Line(chan', ch))
          PROVE  x \in returned' \/ chan'.hand[d] < x
      <4>1. chan'.hand[d] # 0 /\ ~op'[d].select /\ op'[d].branches[1].ch = ch
        BY <3>1 DEF Holds
      <4>2. chan'.hand[d] = T.hand[d] /\ op'[d] = op[d]
        BY <1>0, <4>1
      <4>3. Holds(T, d, ch)
        BY <4>1, <4>2 DEF Holds
      <4> QED
        BY <2>1, <2>2, <3>1, <4>2, <4>3 DEF Ahead
    <3> QED
      BY <3>1 DEF Ahead, Line, Values
  <2> QED
    BY <2>5, <2>6, <2>7 DEF Flows
<1> QED
  BY <1>0, <1>1, <1>2 DEF FlowInv

\* A step that changes no channel
LEMMA FlowsStay ==
    ASSUME ChanInv, FlowInv, UNCHANGED <<calls, chan, op, sent, returned>>
    PROVE  FlowInv'
<1>1. chan \in ChanState
  BY DEF ChanInv, ChanTypes
<1>2. Closes(chan)
  BY <1>1 DEF Closes, FlowInv
<1>3. \A ch \in Chans : ch \notin SelectSends => Flows(chan, returned', ch)
  BY DEF FlowInv
<1> QED
  BY <1>2, <1>3, FlowsNext

\* A step that only serves, and ends no operation
LEMMA GoesOnFlows ==
    ASSUME ChanInv, FlowInv, NEW T, T \in ChanState, chan' = [T EXCEPT !.woken = <<>>],
           op' = op, calls' = calls, returned' = returned, sent' \in Nat, sent' >= sent,
           \A ch \in Chans : ch \notin SelectSends => Flows(T, returned, ch)
    PROVE  FlowInv'
<1>1. /\ chan'.winner = T.winner /\ chan'.hand = T.hand /\ chan'.closed = T.closed
      /\ chan'.buffer = T.buffer /\ chan'.senders = T.senders /\ chan'.receivers = T.receivers
  BY DEF ChanState
<1>2. returned' \subseteq 1..sent'
  <2>1. sent \in Nat
    BY DEF ChanInv, ChanTypes
  <2> QED
    BY <2>1 DEF FlowInv
<1>3. Closes(T)
  BY <1>1, <1>2 DEF Closes
<1>4. \A ch \in Chans : ch \notin SelectSends => Flows(T, returned', ch)
  OBVIOUS
<1> QED
  BY <1>3, <1>4, FlowsNext

\* commit_accept
LEMMA AcceptFlows ==
    ASSUME ChanInv, FlowInv, NEW dh \in Chans, CanAccept(chan, dh), NEW v \in Nat, v > sent,
           NEW ch \in Chans, ch \notin SelectSends
    PROVE  Flows(Accept(chan, dh, v), returned, ch)
<1> DEFINE T == Accept(chan, dh, v)
<1>0. chan \in ChanState /\ chan.buffer[dh] \in Seq(Nat)
  BY DEF ChanInv, ChanTypes, ChanState
<1>1. Flows(chan, returned, ch) /\ returned \subseteq 1..sent
  BY DEF FlowInv
<1>2. Waiting(chan, dh) # 0 <=> ~NoReceiver(chan, dh)
  BY <1>0, WaitingIs
<1>3. CASE Waiting(chan, dh) # 0
  <2>1. T = channel_deliver(chan, dh, v)
    BY <1>3 DEF Accept
  <2>2. PICK d : Hands(T, d, v, dh)
    BY <1>3, <2>1, DeliverHands
  <2> HIDE DEF T
  <2>3. Flows(T, returned, ch)
    BY <1>1, <1>2, <1>3, <2>2, FlowsDeliver
  <2> QED
    BY <2>3 DEF T
<1>4. CASE Waiting(chan, dh) = 0
  <2>1. T = [chan EXCEPT !.buffer[dh] = Append(@, v)]
    BY <1>4 DEF Accept
  <2>2. Refilled(T, dh, Append(chan.buffer[dh], v))
    BY <2>1 DEF Refilled
  <2>3. channel_has_room(chan, dh)
    BY <1>4 DEF CanAccept
  <2> HIDE DEF T
  <2>4. Flows(T, returned, ch)
    BY <1>1, <1>2, <1>4, <2>2, <2>3, FlowsAppend
  <2> QED
    BY <2>4 DEF T
<1> QED
  BY <1>3, <1>4

\* commit_take takes nothing from a receiver's hands.
LEMMA TakeHand ==
    ASSUME ChanInv, NEW ch \in Chans, CanTake(chan, ch)
    PROVE  TakeNext(chan, ch).hand = chan.hand
<1> DEFINE T == TakeNext(chan, ch)
           C == Contents(chan)
<1>0. C \subseteq accepted /\ chan \in ChanState /\ BuffersApart(chan) /\ Reached(chan)
  BY StartKept, StartReached DEF ChanInv, ChanTypes
<1>1. CASE chan.buffer[ch] # <<>>
  <2> DEFINE q == Tail(chan.buffer[ch])
             v == Head(chan.buffer[ch])
             U == [chan EXCEPT !.buffer[ch] = q]
  <2>1. chan.buffer[ch] \in Seq(Nat) /\ Distinct(chan.buffer[ch])
    BY <1>0 DEF ChanState, BuffersApart
  <2>2. /\ q \in Seq(Nat) /\ Distinct(q) /\ v \in ToSet(chan.buffer[ch])
        /\ ToSet(q) = ToSet(chan.buffer[ch]) \ {v}
    BY <1>1, <2>1, TailProperties
  <2>3. T = channel_promote_senders(U, ch)
    BY <1>1 DEF TakeNext
  <2>4. Refilled(U, ch, q)
    BY DEF Refilled
  <2> HIDE DEF q, v, U, T
  <2>5. /\ Reached(U) /\ Served(U) = {} /\ U.hand = chan.hand /\ U.buffer[ch] = q
        /\ OneBuffer(chan, U, ch)
    BY <2>2, <2>4, RefilledReached
  <2>6. BuffersApart(U) /\ Contents(U) = C \ {v} /\ v \in C
    BY <1>0, <2>2, <2>5, ValueLeaves
  <2>7. Kept(C \ {v}, U)
    BY <2>5, <2>6 DEF Kept
  <2>8. Kept(C \ {v}, T)
    BY <1>0, <2>3, <2>7, PromoteAllKept
  <2> QED
    BY <2>8 DEF Kept, T
<1>2. CASE chan.buffer[ch] = <<>>
  <2>1. Pending(chan, ch)
    BY <1>2 DEF CanTake
  <2>2. T = channel_take_pending_sender(chan, ch)
    BY <1>2 DEF TakeNext
  <2>3. SenderStep(chan, T, ch, Head(chan.senders[ch]))
    BY <1>0, <2>1, <2>2, TakePendingIs
  <2> QED
    BY <2>3 DEF SenderStep
<1> QED
  BY <1>1, <1>2

LEMMA CallNowFlows ==
    ASSUME ChanInv, FlowInv, NEW c \in Coros, NEW s \in calls, CallNow(c, s),
           sent' = sent + Offered(s.branches), UNCHANGED <<calls, returned>>
    PROVE  FlowInv'
<1> DEFINE i == FirstReady(s.branches)
           b == s.branches[i]
           v == ValueOf(s.branches, i)
           T == Commit(chan, b, v)
<1>0. /\ s.branches \in Seq(Branch) /\ sent' \in Nat /\ sent' >= sent /\ sent \in Nat
      /\ sent' = sent + Offered(s.branches)
  BY CallFacts
<1>1. i # 0 /\ chan' = [T EXCEPT !.woken = <<>>] /\ op' = op
  BY DEF CallNow
<1>2. i \in 1..Len(s.branches) /\ Ready(chan, b)
  BY <1>0, <1>1, FirstReadyIndex
<1> HIDE DEF i
<1>3. b \in Branch /\ v \in Nat /\ (b.dir = "send" => v > sent /\ v <= sent')
  BY <1>0, <1>2, ValuesOffered
<1> HIDE DEF b, v
<1>4. b.ch \in Chans /\ b.dir \in {"send", "recv"}
  BY <1>3 DEF Branch
<1>5. chan \in ChanState /\ \A ch \in Chans : ch \notin SelectSends => Flows(chan, returned, ch)
  BY DEF ChanInv, ChanTypes, FlowInv
<1>6. T \in ChanState /\ \A ch \in Chans : ch \notin SelectSends => Flows(T, returned, ch)
  <2>1. CASE b.dir = "send"
    <3>1. T = Accept(chan, b.ch, v) /\ CanAccept(chan, b.ch)
      BY <1>2, <2>1 DEF Commit, Ready
    <3> HIDE DEF T
    <3>2. T \in ChanState
      BY <1>3, <1>4, <2>1, <3>1, AcceptBooks DEF Reached
    <3>3. \A ch \in Chans : ch \notin SelectSends => Flows(T, returned, ch)
      BY <1>3, <1>4, <2>1, <3>1, AcceptFlows
    <3> QED
      BY <3>2, <3>3
  <2>2. CASE b.dir = "recv" /\ CanTake(chan, b.ch)
    <3>1. T = TakeNext(chan, b.ch)
      BY <2>2 DEF Commit
    <3> HIDE DEF T
    <3>2. Settles(chan, T) /\ T.hand = chan.hand
      BY <1>4, <2>2, <3>1, TakeSettles, TakeHand
    <3>3. T \in ChanState
      BY <3>2 DEF Settles
    <3>4. \A ch \in Chans : ch \notin SelectSends => Flows(T, returned, ch)
      BY <1>5, <3>2, FlowsSettle
    <3> QED
      BY <3>3, <3>4
  <2>3. CASE b.dir = "recv" /\ ~CanTake(chan, b.ch)
    <3>1. T = chan
      BY <2>3 DEF Commit
    <3> QED
      BY <1>5, <3>1
  <2> QED
    BY <1>4, <2>1, <2>2, <2>3
<1> HIDE DEF T
<1> QED
  BY <1>0, <1>1, <1>6, GoesOnFlows

\* The call s of c, none of whose branches is ready, is armed.
Queues(T, c, s) ==
    /\ Armed(T, c, s.branches, Len(s.branches)) /\ InLine(T, c, s.branches, Len(s.branches))
    /\ \A i \in 1..Len(s.branches) : ~Ready(chan, s.branches[i])
    /\ ~Rejected(s)

\* A plain send is armed on ch.
LEMMA ArmedSendFlows ==
    ASSUME ChanInv, FlowInv, NEW c \in Coros, NEW s \in calls, NEW T, Queues(T, c, s),
           NEW ch \in Chans, ch \notin SelectSends,
           ~s.select, Len(s.branches) = 1, s.branches[1].dir = "send", s.branches[1].ch = ch
    PROVE  Flows(T, returned, ch)
<1> DEFINE bs == s.branches
           v == ValueOf(bs, 1)
           n == NewNode(c, bs, 1)
<1>0. /\ chan \in ChanState /\ sent \in Nat /\ bs \in Seq(Branch) /\ 1 \in 1..Len(bs)
      /\ returned \subseteq 1..sent /\ Flows(chan, returned, ch)
  BY CallFacts DEF FlowInv, ChanInv, ChanTypes
<1>1. /\ T \in ChanState /\ T.winner = chan.winner /\ T.hand = chan.hand /\ T.buffer = chan.buffer
      /\ T.closed = chan.closed
      /\ \A m \in ToSet(T.receivers[ch]) : m \in ToSet(chan.receivers[ch])
  BY DEF Queues, Armed
<1>2. v \in Nat /\ v > sent
  BY <1>0, ValuesOffered
<1>3. T.senders[ch] = Append(chan.senders[ch], n)
  BY DEF Queues, InLine
<1>4. n \in Node /\ n[3] = v
  BY <1>2 DEF NewNode, ArmNode, Node
<1>5. ch \notin chan.closed /\ NoReceiver(chan, ch) /\ ~channel_has_room(chan, ch)
  <2>1. ~Ready(chan, bs[1])
    BY <1>0 DEF Queues
  <2>2. ch \notin chan.closed
    BY DEF Queues, Rejected
  <2>3. ~CanAccept(chan, ch)
    BY <2>1, <2>2 DEF Ready
  <2> QED
    BY <1>0, <2>2, <2>3, WaitingIs DEF CanAccept
<1>6. Meets(T, ch)
  <2>1. NoReceiver(T, ch)
    BY <1>1, <1>5 DEF NoReceiver, gate_open
  <2>2. ~channel_has_room(T, ch)
    BY <1>1, <1>5 DEF channel_has_room
  <2> QED
    BY <1>1, <1>5, <2>1, <2>2 DEF Meets, OneSide, Full
<1> HIDE DEF n, v
<1> DEFINE p == Line(chan, ch)
           q == Line(T, ch)
<1>7. /\ ToSet(q) = ToSet(p) \cup {v}
      /\ \A x, y : Precedes(q, x, y) => Precedes(p, x, y) \/ (x \in ToSet(p) /\ y = v)
  <2>1. chan.senders[ch] \in Seq(Node)
    BY <1>0 DEF ChanState
  <2>2. /\ ToSet(Values(T.senders[ch])) = ToSet(Values(chan.senders[ch])) \cup {v}
        /\ \A x, y : Precedes(Values(T.senders[ch]), x, y) =>
               Precedes(Values(chan.senders[ch]), x, y) \/ (x \in ToSet(Values(chan.senders[ch])) /\ y = v)
    BY <1>3, <1>4, <2>1, ValuesAppend
  <2>3. /\ ToSet(p) = ToSet(chan.buffer[ch]) \cup ToSet(Values(chan.senders[ch]))
        /\ \A x, y : Precedes(p, x, y) <=>
              \/ Precedes(chan.buffer[ch], x, y) \/ Precedes(Values(chan.senders[ch]), x, y)
              \/ x \in ToSet(chan.buffer[ch]) /\ y \in ToSet(Values(chan.senders[ch]))
    BY <1>0, LineIs
  <2>4. /\ ToSet(q) = ToSet(chan.buffer[ch]) \cup ToSet(Values(T.senders[ch]))
        /\ \A x, y : Precedes(q, x, y) <=>
              \/ Precedes(chan.buffer[ch], x, y) \/ Precedes(Values(T.senders[ch]), x, y)
              \/ x \in ToSet(chan.buffer[ch]) /\ y \in ToSet(Values(T.senders[ch]))
    BY <1>1, LineIs
  <2> HIDE DEF p, q
  <2> QED
    BY <2>2, <2>3, <2>4
<1>8. ToSet(p) \subseteq 1..sent /\ \A d \in Coros : chan.hand[d] # 0 => chan.hand[d] \in 1..sent
  BY LineFacts
<1>9. Ordered(p, returned) /\ Ahead(chan, returned, ch)
  BY <1>0 DEF Flows
<1>10. v \notin returned /\ \A x \in 1..sent : x < v
  BY <1>0, <1>2
<1>11. Ordered(q, returned)
  <2> HIDE DEF p, q
  <2> QED
    BY <1>7, <1>8, <1>9, <1>10 DEF Ordered
<1>12. Ahead(T, returned, ch)
  <2> SUFFICES ASSUME NEW d \in Coros, Holds(T, d, ch), NEW x \in ToSet(q)
               PROVE  x \in returned \/ T.hand[d] < x
    BY DEF Ahead
  <2>1. Holds(chan, d, ch) /\ T.hand[d] = chan.hand[d] /\ chan.hand[d] \in 1..sent
    BY <1>1, <1>8 DEF Holds
  <2>2. CASE x = v
    BY <1>10, <2>1, <2>2
  <2>3. CASE x \in ToSet(p)
    BY <1>9, <2>1, <2>3 DEF Ahead
  <2> QED
    BY <1>7, <2>2, <2>3
<1> QED
  BY <1>6, <1>11, <1>12 DEF Flows

\* No branch of the call sends to ch.
LEMMA ArmedRecvFlows ==
    ASSUME ChanInv, FlowInv, NEW c \in Coros, NEW s \in calls, NEW T, Queues(T, c, s),
           NEW ch \in Chans, ch \notin SelectSends,
           \A j \in 1..Len(s.branches) : ~(s.branches[j].dir = "send" /\ s.branches[j].ch = ch)
    PROVE  Flows(T, returned, ch)
<1> DEFINE bs == s.branches
<1>0. chan \in ChanState /\ Flows(chan, returned, ch) /\ Reached(chan)
  BY StartReached DEF FlowInv, ChanInv, ChanTypes
<1>1. /\ T \in ChanState /\ T.winner = chan.winner /\ T.hand = chan.hand /\ T.buffer = chan.buffer
      /\ T.closed = chan.closed
      /\ \A m \in ToSet(T.receivers[ch]) :
            m \in ToSet(chan.receivers[ch]) \/ \E j \in 1..Len(bs) : bs[j].dir = "recv" /\ bs[j].ch = ch
  BY DEF Queues, Armed
<1>2. T.senders[ch] = chan.senders[ch]
  BY DEF Queues, InLine
<1>3. Line(T, ch) = Line(chan, ch)
  BY <1>1, <1>2 DEF Line
<1>4. Meets(T, ch)
  <2>1. CASE \E j \in 1..Len(bs) : bs[j].dir = "recv" /\ bs[j].ch = ch
    <3>1. PICK j \in 1..Len(bs) : bs[j].dir = "recv" /\ bs[j].ch = ch
      BY <2>1
    <3>2. ~CanTake(chan, ch) /\ ch \notin chan.closed
      BY <3>1 DEF Queues, Ready
    <3>3. chan.buffer[ch] = <<>> /\ chan.senders[ch] = <<>>
      BY <1>0, <3>2, OpenSenders DEF CanTake
    <3> QED
      BY <1>1, <1>2, <3>2, <3>3 DEF Meets, OneSide, Full
  <2>2. CASE ~ \E j \in 1..Len(bs) : bs[j].dir = "recv" /\ bs[j].ch = ch
    <3>1. NoReceiver(chan, ch) => NoReceiver(T, ch)
      BY <1>1, <2>2 DEF NoReceiver, gate_open
    <3>2. Meets(chan, ch)
      BY <1>0 DEF Flows
    <3> QED
      BY <1>1, <1>2, <3>1, <3>2 DEF Meets, OneSide, Full, channel_has_room
  <2> QED
    BY <2>1, <2>2
<1> QED
  BY <1>0, <1>1, <1>3, <1>4 DEF Flows, Ahead, Holds

LEMMA ArmedFlows ==
    ASSUME ChanInv, FlowInv, NEW c \in Coros, NEW s \in calls, NEW T, Queues(T, c, s),
           NEW ch \in Chans, ch \notin SelectSends
    PROVE  Flows(T, returned, ch)
<1> DEFINE bs == s.branches
<1>1. CASE \A j \in 1..Len(bs) : ~(bs[j].dir = "send" /\ bs[j].ch = ch)
  BY <1>1, ArmedRecvFlows
<1>2. CASE \E j \in 1..Len(bs) : bs[j].dir = "send" /\ bs[j].ch = ch
  <2>1. PICK j \in 1..Len(bs) : bs[j].dir = "send" /\ bs[j].ch = ch
    BY <1>2
  <2>2. bs \in Seq(Branch) /\ bs[j] \in Branch
    BY CallFacts
  <2>3. bs[j] = [dir |-> "send", ch |-> ch]
    BY <2>1, <2>2 DEF Branch
  <2>4. Contains(bs, [dir |-> "send", ch |-> ch])
    <3>1. bs[j] \in ToSet(bs)
      BY <2>2, InToSet
    <3> QED
      BY <2>2, <2>3, <3>1, ToSetProperties
  <2>5. ~s.select
    BY <2>4 DEF SelectSends
  <2>6. Len(bs) = 1
    <3>1. calls \in Programs
      BY DEF ChanInv, ChanTypes
    <3> QED
      BY <2>5, <3>1, ChannelAssumption
  <2>7. j = 1
    BY <2>6
  <2> QED
    BY <2>1, <2>5, <2>6, <2>7, ArmedSendFlows
<1> QED
  BY <1>1, <1>2

\* channel_drop_sender of a rejected send lets waiting senders in.
LEMMA RejectFlows ==
    ASSUME ChanInv, FlowInv, NEW s \in calls
    PROVE  /\ Reject(s) \in ChanState /\ Reject(s).hand = chan.hand
           /\ \A ch \in Chans : ch \notin SelectSends => Flows(Reject(s), returned, ch)
<1> DEFINE dh == s.branches[1].ch
           T == channel_promote_senders(chan, dh)
<1>1. /\ dh \in Chans /\ Contents(chan) \subseteq accepted /\ Kept(Contents(chan), chan)
      /\ Kept(Contents(chan), T)
  BY RejectKept DEF Reject
<1>2. T = Reject(s)
  BY DEF Reject
<1>3. Eased(chan, T, dh) /\ (dh \notin SelectSends => Full(T, dh))
  BY <1>1, PromoteAllEases
<1> HIDE DEF dh, T
<1>4. chan \in ChanState
  BY DEF ChanInv, ChanTypes
<1>5. Settles(chan, T)
  BY <1>1, <1>3, <1>4, EasedSettles
<1>6. T \in ChanState /\ T.hand = chan.hand
  BY <1>1 DEF Kept, Reached
<1>7. \A ch \in Chans : ch \notin SelectSends => Flows(T, returned, ch)
  BY <1>5, <1>6, FlowsSettle DEF FlowInv
<1> QED
  BY <1>2, <1>6, <1>7

LEMMA CallWaitFlows ==
    ASSUME ChanInv, FlowInv, NEW c \in Coros, NEW s \in calls, CallWait(c, s),
           sent' = sent + Offered(s.branches), UNCHANGED <<calls, returned>>
    PROVE  FlowInv'
<1> DEFINE bs == s.branches
           T == IF Rejected(s) THEN Reject(s) ELSE ArmAll(c, bs)
<1>1. st[c] = "run" /\ op' = [op EXCEPT ![c] = s] /\ FirstReady(bs) = 0
  BY DEF CallWait, Proceeds
<1>2. /\ bs \in Seq(Branch) /\ sent \in Nat /\ sent' \in Nat /\ sent' >= sent
  BY CallFacts
<1>3. NoNodes(chan, c) /\ chan.winner[c] = 0 /\ chan.hand[c] = 0
  BY <1>1, IdleHasNoNodes DEF ChanInv, Decided
<1>4. chan \in ChanState /\ op \in [Coros -> Operation] /\ returned \subseteq 1..sent
  BY DEF ChanInv, ChanTypes, FlowInv
<1>5. /\ T \in ChanState /\ T.hand = chan.hand
      /\ \A ch \in Chans : ch \notin SelectSends => Flows(T, returned, ch)
  <2>1. CASE Rejected(s)
    BY <2>1, RejectFlows
  <2>2. CASE ~Rejected(s)
    <3> DEFINE U == ArmAll(c, bs)
    <3>1. Armed(U, c, bs, Len(bs)) /\ InLine(U, c, bs, Len(bs))
      BY <1>2, <1>3, ArmAllArmed
    <3>2. \A i \in 1..Len(bs) : ~Ready(chan, bs[i])
      BY <1>1, <1>2, FirstReadyIndex
    <3>3. T = U
      BY <2>2
    <3> HIDE DEF U
    <3>4. Queues(U, c, s)
      BY <2>2, <3>1, <3>2 DEF Queues
    <3>5. U \in ChanState /\ U.hand = chan.hand
      BY <3>1 DEF Armed
    <3>6. \A ch \in Chans : ch \notin SelectSends => Flows(U, returned, ch)
      BY <3>4, ArmedFlows
    <3> QED
      BY <3>3, <3>5, <3>6
  <2> QED
    BY <2>1, <2>2
<1>s. /\ chan'.winner = T.winner /\ chan'.hand = T.hand /\ chan'.closed = T.closed
      /\ chan'.buffer = T.buffer /\ chan'.senders = T.senders /\ chan'.receivers = T.receivers
  <2>1. CASE Rejected(s)
    <3>1. chan' = [T EXCEPT !.woken = <<>>]
      BY <2>1 DEF CallWait
    <3> HIDE DEF T
    <3> QED
      BY <1>5, <3>1 DEF ChanState
  <2>2. CASE ~Rejected(s)
    BY <2>2 DEF CallWait
  <2> QED
    BY <2>1, <2>2
<1> HIDE DEF T
<1>6. \A d \in Coros : chan'.hand[d] = 0 \/ (chan'.hand[d] = T.hand[d] /\ op'[d] = op[d])
  BY <1>1, <1>3, <1>4, <1>5, <1>s
<1>7. returned' \subseteq 1..sent'
  BY <1>2, <1>4
<1>8. Closes(T)
  BY <1>5, <1>6, <1>7, <1>s DEF Closes
<1>9. \A ch \in Chans : ch \notin SelectSends => Flows(T, returned', ch)
  BY <1>5
<1> QED
  BY <1>8, <1>9, FlowsNext

\* The operation of c ends.
LEMMA EndsFlows ==
    ASSUME ChanInv, NEW c \in Coros, NEW T, T \in ChanState, NoNodes(T, c), chan' = Forget(T, c),
           op' = [op EXCEPT ![c] = NoOp], calls' = calls, sent' = sent, returned' \subseteq 1..sent,
           \A ch \in Chans : ch \notin SelectSends => Flows(T, returned', ch)
    PROVE  FlowInv'
<1>1. /\ chan'.winner = [T.winner EXCEPT ![c] = 0] /\ chan'.hand = [T.hand EXCEPT ![c] = 0]
      /\ chan'.closed = T.closed /\ chan'.buffer = T.buffer /\ chan'.senders = T.senders
      /\ chan'.receivers = T.receivers
  BY DEF ChanState, Forget
<1>2. chan'.hand[c] = 0 /\ \A d \in Coros : d # c =>
          chan'.winner[d] = T.winner[d] /\ chan'.hand[d] = T.hand[d] /\ op'[d] = op[d]
  BY <1>1 DEF ChanState, ChanInv, ChanTypes
<1>3. \A d \in Coros : chan'.winner[d] = T.winner[d] \/ NoNodes(T, d)
  BY <1>2
<1>4. \A d \in Coros : chan'.hand[d] = 0 \/ (chan'.hand[d] = T.hand[d] /\ op'[d] = op[d])
  BY <1>2
<1>5. Closes(T)
  BY <1>1, <1>3, <1>4 DEF Closes
<1> QED
  BY <1>5, FlowsNext

\* What the frame leaves behind
LEMMA CleanedFlows ==
    ASSUME ChanInv, FlowInv, NEW c \in Coros
    PROVE  /\ Cleaned(c) \in ChanState /\ NoNodes(Cleaned(c), c)
           /\ \A ch \in Chans : ch \notin SelectSends => Flows(Cleaned(c), returned, ch)
<1> DEFINE T == Cleaned(c)
<1>1. NoNodes(T, c) /\ T.hand = chan.hand
  BY CleanedBooks
<1>2. Settles(chan, T)
  BY CleanedSettles
<1> HIDE DEF T
<1>3. T \in ChanState
  BY <1>2 DEF Settles
<1>4. \A ch \in Chans : ch \notin SelectSends => Flows(T, returned, ch)
  BY <1>1, <1>2, FlowsSettle DEF FlowInv
<1> QED
  BY <1>1, <1>3, <1>4 DEF T

LEMMA ChanResumeFlows ==
    ASSUME ChanInv, FlowInv, NEW c \in Coros, ChanResume(c)
    PROVE  FlowInv'
<1> DEFINE T == Cleaned(c)
<1>1. /\ chan' = Forget(T, c) /\ op' = [op EXCEPT ![c] = NoOp]
      /\ calls' = calls /\ sent' = sent /\ returned' = returned
  BY DEF ChanResume
<1>2. /\ T \in ChanState /\ NoNodes(T, c)
      /\ \A ch \in Chans : ch \notin SelectSends => Flows(T, returned, ch)
  BY CleanedFlows
<1> HIDE DEF T
<1>3. returned' \subseteq 1..sent
  BY <1>1 DEF FlowInv
<1>4. \A ch \in Chans : ch \notin SelectSends => Flows(T, returned', ch)
  BY <1>1, <1>2
<1> QED
  BY <1>1, <1>2, <1>3, <1>4, EndsFlows

\* channel_return_value
LEMMA ReturnFlows ==
    ASSUME ChanInv, FlowInv, NEW c \in Coros, NEW dh \in Chans, Holds(chan, c, dh),
           NEW T, T = channel_return_value(chan, dh, chan.hand[c]),
           NEW ch \in Chans, ch \notin SelectSends
    PROVE  Flows(T, returned \cup {chan.hand[c]}, ch)
<1> DEFINE v == chan.hand[c]
<1>0. chan \in ChanState /\ v \in Nat /\ v # 0
  BY DEF ChanInv, ChanTypes, ChanState, Holds
<1>1. Flows(chan, returned, ch)
  BY DEF FlowInv
<1>2. Waiting(chan, dh) # 0 <=> ~NoReceiver(chan, dh)
  BY <1>0, WaitingIs
<1>3. v \notin ToSet(Line(chan, ch))
  BY <1>0, LineFacts
<1>4. CASE Waiting(chan, dh) # 0
  <2>1. T = channel_deliver(chan, dh, v)
    BY <1>4 DEF channel_return_value
  <2> HIDE DEF v
  <2>2. PICK d : Hands(T, d, v, dh)
    BY <1>0, <1>4, <2>1, DeliverHands
  <2>3. Flows(T, returned, ch)
    BY <1>1, <1>2, <1>4, <2>2, FlowsDeliver
  <2>4. T \in ChanState /\ Line(T, ch) = Line(chan, ch)
    BY <2>2 DEF Hands, Elsewhere, Line
  <2>5. Flows(T, returned \cup {v}, ch)
    BY <1>3, <2>3, <2>4, FlowsLater
  <2> QED
    BY <2>5 DEF v
<1>5. CASE Waiting(chan, dh) = 0 /\ channel_has_room(chan, dh)
  <2>1. T = [chan EXCEPT !.buffer[dh] = Cons(v, @)]
    BY <1>5 DEF channel_return_value
  <2>2. Refilled(T, dh, Cons(v, chan.buffer[dh]))
    BY <2>1 DEF Refilled
  <2> QED
    BY <1>1, <1>2, <1>5, <2>2, FlowsCons
<1>6. CASE Waiting(chan, dh) = 0 /\ ~channel_has_room(chan, dh)
  <2>1. T = chan
    BY <1>6 DEF channel_return_value
  <2>2. Flows(chan, returned \cup {v}, ch)
    BY <1>0, <1>1, <1>3, FlowsLater
  <2> QED
    BY <2>1, <2>2
<1> QED
  BY <1>4, <1>5, <1>6

LEMMA ChanDropFlows ==
    ASSUME ChanInv, FlowInv, NEW c \in Coros, ChanDrop(c)
    PROVE  FlowInv'
<1> DEFINE v == chan.hand[c]
           back == v # 0 /\ ~op[c].select
           ch == op[c].branches[1].ch
           T == IF back THEN channel_return_value(chan, ch, v) ELSE Cleaned(c)
<1>1. /\ st[c] = "chan" /\ op' = [op EXCEPT ![c] = NoOp] /\ chan' = Forget(T, c)
      /\ calls' = calls /\ sent' = sent
      /\ returned' = IF back THEN returned \cup {v} ELSE returned
  BY DEF ChanDrop
<1>2. returned \subseteq 1..sent
  BY DEF FlowInv
<1>3. CASE back
  <2>1. ch \in Chans
    <3>1. op[c] \in calls /\ calls \in Programs
      BY <1>1 DEF ChanInv, Operations, ChanTypes
    <3>2. op[c].branches \in Seq(Branch) /\ op[c].branches # <<>>
      BY <3>1, CallFacts, ChannelAssumption
    <3>3. 1 \in 1..Len(op[c].branches)
      BY <3>2, EmptySeq, LenProperties
    <3>4. op[c].branches[1] \in Branch
      BY <3>2, <3>3, ElementOfSeq
    <3> QED
      BY <3>4 DEF Branch
  <2>2. T = channel_return_value(chan, ch, v) /\ returned' = returned \cup {v}
    BY <1>1, <1>3
  <2>3. Holds(chan, c, ch)
    BY <1>3 DEF Holds
  <2>4. chan.winner[c] # 0 /\ v # 0 /\ ~op[c].select
    BY <1>3 DEF ChanInv, Decided
  <2> HIDE DEF T, ch
  <2>5. Reached(T)
    BY <2>1, <2>2, <2>4, ReturnBooks
  <2>6. NoNodes(T, c) /\ T \in ChanState
    BY <2>4, <2>5 DEF Reached
  <2>7. \A dh \in Chans : dh \notin SelectSends => Flows(T, returned', dh)
    BY <2>1, <2>2, <2>3, ReturnFlows
  <2>8. returned' \subseteq 1..sent
    <3>1. v \in 1..sent
      BY <2>1, <2>4, LineFacts
    <3> QED
      BY <1>2, <2>2, <3>1
  <2> QED
    BY <1>1, <2>6, <2>7, <2>8, EndsFlows
<1>4. CASE ~back
  <2>1. T = Cleaned(c) /\ returned' = returned
    BY <1>1, <1>4
  <2> HIDE DEF T
  <2>2. /\ T \in ChanState /\ NoNodes(T, c)
        /\ \A dh \in Chans : dh \notin SelectSends => Flows(T, returned', dh)
    BY <2>1, CleanedFlows
  <2> QED
    BY <1>1, <1>2, <2>1, <2>2, EndsFlows
<1> QED
  BY <1>3, <1>4

\* channel_close
LEMMA ChanCloseFlows ==
    ASSUME ChanInv, FlowInv, NEW ch \in Chans, ChanClose(ch)
    PROVE  FlowInv'
<1> DEFINE q == IF chan.buffer[ch] = <<>> THEN <<>> ELSE chan.receivers[ch]
           T == [chan EXCEPT !.closed = @ \cup {ch}, !.senders[ch] = <<>>, !.receivers[ch] = q]
<1>0. /\ chan \in ChanState /\ sent \in Nat /\ chan.senders[ch] \in Seq(Node)
      /\ chan.receivers[ch] \in Seq(Node) /\ chan.buffer[ch] \in Seq(Nat)
  BY DEF ChanInv, ChanTypes, ChanState
<1>1. /\ chan' = [channel_close(chan, ch) EXCEPT !.woken = <<>>]
      /\ UNCHANGED <<calls, op, sent, returned>>
  BY DEF ChanClose, hist
<1>2. q \in Seq(Node) /\ <<>> \in Seq(Node) /\ ToSet(<<>>) = {} /\ (chan.buffer[ch] = <<>> => ToSet(q) = {})
  BY <1>0, NoWaiters
<1>3. chan' = [T EXCEPT !.woken = <<>>]
  BY <1>0, <1>1 DEF channel_close, ChanState
<1>q. chan.buffer[ch] # <<>> => q = chan.receivers[ch]
  OBVIOUS
<1> HIDE DEF q
<1>4. /\ T \in ChanState /\ T.winner = chan.winner /\ T.hand = chan.hand /\ T.buffer = chan.buffer
      /\ T.senders = [chan.senders EXCEPT ![ch] = <<>>]
      /\ T.receivers = [chan.receivers EXCEPT ![ch] = q] /\ T.closed = chan.closed \cup {ch}
  BY <1>0, <1>2 DEF ChanState
<1> HIDE DEF T
<1>5. /\ T.senders[ch] = <<>> /\ T.receivers[ch] = q
      /\ \A dh \in Chans : dh # ch =>
            T.senders[dh] = chan.senders[dh] /\ T.receivers[dh] = chan.receivers[dh]
  BY <1>0, <1>4 DEF ChanState
<1>6. ASSUME NEW dh \in Chans, dh \notin SelectSends PROVE Flows(T, returned, dh)
  <2>0. Flows(chan, returned, dh)
    BY <1>6 DEF FlowInv
  <2>1. CASE dh # ch
    <3>1. Line(T, dh) = Line(chan, dh)
      BY <1>4, <1>5, <2>1 DEF Line
    <3>2. dh \in T.closed <=> dh \in chan.closed
      BY <1>4, <2>1
    <3>3. Meets(T, dh)
      BY <1>4, <1>5, <2>0, <2>1, <3>2 DEF Flows, Meets, OneSide, Full, NoReceiver, gate_open, channel_has_room
    <3> QED
      BY <1>4, <2>0, <3>1, <3>3 DEF Flows, Ahead, Holds
  <2>2. CASE dh = ch
    <3>1. NoReceiver(T, ch)
      <4>1. CASE chan.buffer[ch] = <<>>
        BY <1>2, <1>5, <4>1 DEF NoReceiver
      <4>2. CASE chan.buffer[ch] # <<>>
        <5>1. NoReceiver(chan, ch)
          BY <2>0, <2>2, <4>2 DEF Flows, Meets, OneSide
        <5> QED
          BY <1>q, <1>4, <1>5, <4>2, <5>1 DEF NoReceiver, gate_open
      <4> QED
        BY <4>1, <4>2
    <3>2. Meets(T, ch)
      BY <1>5, <3>1 DEF Meets, OneSide, Full
    <3>3. Part(Line(T, ch), Line(chan, ch))
      <4>1. Part(T.buffer[ch], chan.buffer[ch]) /\ Part(T.senders[ch], chan.senders[ch])
        BY <1>4, <1>5, PartOrder, PartEmpty
      <4> QED
        BY <1>0, <1>4, <4>1, LinePart
    <3>4. Ordered(Line(T, ch), returned)
      BY <2>0, <2>2, <3>3, OrderedPart DEF Flows
    <3>5. Ahead(T, returned, ch)
      BY <1>4, <2>0, <2>2, <3>3 DEF Flows, Ahead, Holds, Part
    <3> QED
      BY <2>2, <3>2, <3>4, <3>5 DEF Flows
  <2> QED
    BY <2>1, <2>2
<1>7. op' = op /\ calls' = calls /\ returned' = returned /\ sent' \in Nat /\ sent' >= sent
  BY <1>0, <1>1
<1>8. T \in ChanState
  BY <1>4
<1> QED
  BY <1>3, <1>6, <1>7, <1>8, GoesOnFlows

LEMMA FlowStart == Init => FlowInv
<1> SUFFICES ASSUME Init PROVE FlowInv
  OBVIOUS
<1>1. /\ returned = {}
      /\ chan = [buffer |-> [ch \in Chans |-> <<>>], senders |-> [ch \in Chans |-> <<>>],
                 receivers |-> [ch \in Chans |-> <<>>], closed |-> {},
                 winner |-> [c \in Coros |-> 0], hand |-> [c \in Coros |-> 0], woken |-> <<>>]
  BY DEF Init, ChanInit
<1>2. chan \in ChanState
  BY ChanStart DEF ChanInv, ChanTypes
<1>3. ASSUME NEW ch \in Chans PROVE Flows(chan, returned, ch)
  <2>1. /\ chan.buffer[ch] = <<>> /\ chan.senders[ch] = <<>> /\ ch \notin chan.closed
        /\ \A c \in Coros : chan.hand[c] = 0
    BY <1>1, <1>3
  <2>2. Meets(chan, ch)
    BY <2>1 DEF Meets, OneSide, Full
  <2>3. Line(chan, ch) = <<>> /\ Len(<<>>) = 0
    <3>1. ToSet(<<>>) = {} /\ Len(<<>>) = 0 /\ <<>> \in Seq(Nat)
      BY NoWaiters
    <3>2. ToSet(Values(chan.senders[ch])) = {}
      BY <1>2, <2>1, <3>1, ValuesProperties DEF ChanState
    <3>3. ToSet(Line(chan, ch)) = {} /\ Line(chan, ch) \in Seq(Nat)
      BY <1>2, <2>1, <3>1, <3>2, LineIs
    <3> QED
      BY <3>1, <3>3, ToSetProperties
  <2>4. Ordered(Line(chan, ch), returned)
    <3>1. \A x, y : ~Precedes(<<>>, x, y)
      BY <2>3 DEF Precedes
    <3> QED
      BY <2>3, <3>1 DEF Ordered
  <2>5. Ahead(chan, returned, ch)
    BY <2>1 DEF Ahead, Holds
  <2> QED
    BY <2>2, <2>4, <2>5 DEF Flows
<1> QED
  BY <1>1, <1>3 DEF FlowInv

LEMMA FlowNext ==
    ASSUME ChanInv, FlowInv, [Next]_vars
    PROVE  FlowInv'
<1>1. ASSUME NEW c \in Coros, ChanCall(c)
      PROVE  FlowInv'
  <2>1. PICK s \in calls : /\ CallNow(c, s) \/ CallWait(c, s)
                           /\ sent' = sent + Offered(s.branches)
    BY <1>1 DEF ChanCall
  <2>2. UNCHANGED <<calls, returned>>
    BY <1>1 DEF ChanCall
  <2> QED
    BY <2>1, <2>2, CallNowFlows, CallWaitFlows
<1>2. ASSUME UNCHANGED chanVars
      PROVE  FlowInv'
  <2>1. UNCHANGED <<calls, chan, op, sent, returned>>
    BY <1>2 DEF chanVars, hist
  <2> QED
    BY <2>1, FlowsStay
<1>3. CASE ChannelNext
  <2>1. ASSUME NEW c \in Coros, ChanStep(c)
        PROVE  FlowInv'
    <3>1. CASE ChanTimer(c)
      <4>1. UNCHANGED chanVars
        BY <3>1 DEF ChanTimer
      <4> QED
        BY <1>2, <4>1
    <3> QED
      BY <1>1, <2>1, <3>1, ChanResumeFlows, ChanDropFlows DEF ChanStep
  <2> QED
    BY <1>3, <2>1, ChanCloseFlows DEF ChannelNext
<1>4. CASE PoolNext \/ EndNext \/ UNCHANGED vars
  <2>1. UNCHANGED chanVars
    BY <1>4 DEF PoolNext, EndNext, vars
  <2> QED
    BY <1>2, <2>1
<1> QED
  BY <1>3, <1>4 DEF Next

LEMMA FlowInvariant == Spec => [](ChanInv /\ FlowInv)
<1>1. Init => FlowInv
  BY FlowStart
<1>2. ChanInv /\ FlowInv /\ [Next]_vars => FlowInv'
  BY FlowNext
<1> QED
  BY <1>1, <1>2, ChanInvariant, PTL DEF Spec

\* Nobody is twice in a line.
LEMMA LineDistinct ==
    ASSUME ChanInv, NEW ch \in Chans
    PROVE  Line(chan, ch) \in Seq(Nat) /\ Distinct(Line(chan, ch))
<1> DEFINE p == chan.buffer[ch]
           s == chan.senders[ch]
           q == Values(s)
<1>0. chan \in ChanState
  BY DEF ChanInv, ChanTypes
<1>1. p \in Seq(Nat) /\ s \in Seq(Node) /\ q \in Seq(Nat) /\ Line(chan, ch) \in Seq(Nat)
  BY <1>0, LineIs
<1>2. Distinct(p) /\ Distinct(s)
  BY DEF ChanInv, BuffersApart, Nodes
<1>3. \A n \in ToSet(s) : n \in Offers(chan) /\ n[3] \notin accepted
  BY NodeFacts
<1>4. \A m \in ToSet(s), n \in ToSet(s) : m[3] = n[3] => m = n
  BY <1>3 DEF ChanInv, Nodes
<1>5. /\ Len(q) = Len(s) /\ \A i \in 1..Len(s) : q[i] = s[i][3]
      /\ \A v : v \in ToSet(q) <=> \E n \in ToSet(s) : n[3] = v
  BY <1>1, ValuesProperties
<1>6. \A i \in 1..Len(s) : s[i] \in ToSet(s)
  BY <1>1, InToSet
<1>7. ToSet(p) \subseteq accepted
  <2>1. Contents(chan) \subseteq accepted
    BY StartKept
  <2> QED
    BY <2>1, ContentsAre
<1> HIDE DEF q, s, p
<1>8. Distinct(q)
  BY <1>2, <1>4, <1>5, <1>6 DEF Distinct
<1>9. ToSet(p) \cap ToSet(q) = {}
  BY <1>3, <1>5, <1>7
<1>10. Distinct(p \o q)
  BY <1>1, <1>2, <1>8, <1>9, ConcatToSet
<1> QED
  BY <1>1, <1>10 DEF Line, p, q, s

\* On a channel no select sends to, nobody waits to receive while a value or a sender
\* is there, nobody waits to send while there is room, and nobody waits on a closed
\* channel, for any number of coroutines and channels, any capacities, and waits that
\* are cancelled or destroyed (channel_promote_senders, channel_drop_sender,
\* channel_close).
THEOREM SendersAndReceiversMeet == Spec => []Matched
<1>1. ChanInv /\ FlowInv => Matched
  <2> SUFFICES ASSUME ChanInv, FlowInv, NEW ch \in Chans \ SelectSends
               PROVE  /\ MeetOn(ch)
                      /\ ch \in chan.closed =>
                            chan.senders[ch] = <<>> /\ (Waiting(chan, ch) # 0 => chan.buffer[ch] # <<>>)
    BY DEF Matched
  <2>1. OneSide(chan, ch) /\ Full(chan, ch)
    BY DEF FlowInv, Flows, Meets
  <2>2. Waiting(chan, ch) # 0 <=> ~NoReceiver(chan, ch)
    BY WaitingIs DEF ChanInv, ChanTypes
  <2> QED
    BY <2>1, <2>2 DEF OneSide, Full, MeetOn, CanTake, Pending
<1> QED
  BY <1>1, FlowInvariant, PTL

\* On a channel no select sends to, the values are buffered, and wait to be, in the
\* order in which they were offered; a value that one cancelled recv returned is
\* first again (channel_promote_senders, channel_take_pending_sender,
\* channel_return_value).
THEOREM ValuesInOrder == Spec => []InOrder
<1>1. ChanInv /\ FlowInv => InOrder
  <2> DEFINE late == IF Cardinality(returned) <= 1 THEN {} ELSE returned
  <2> SUFFICES ASSUME ChanInv, FlowInv, NEW ch \in Chans \ SelectSends,
                      NEW i \in DOMAIN Line(chan, ch), NEW j \in DOMAIN Line(chan, ch), i < j,
                      Line(chan, ch)[i] \notin late, Line(chan, ch)[j] \notin late
               PROVE  Line(chan, ch)[i] < Line(chan, ch)[j]
    BY DEF InOrder, LineInOrder, Line
  <2> DEFINE q == Line(chan, ch)
             x == q[i]
             y == q[j]
  <2>1. q \in Seq(Nat) /\ Distinct(q)
    BY LineDistinct
  <2>2. Ordered(q, returned) /\ returned \subseteq 1..sent /\ sent \in Nat
    BY DEF FlowInv, Flows, ChanInv, ChanTypes
  <2> HIDE DEF q
  <2>3. i \in 1..Len(q) /\ j \in 1..Len(q)
    BY <2>1, LenProperties DEF q
  <2>4. x # y
    BY <2>1, <2>3 DEF Distinct
  <2>5. Precedes(q, x, y)
    BY <2>3 DEF Precedes
  <2>6. (y \in returned => x \in returned) /\ (y \notin returned => x < y)
    BY <2>2, <2>5 DEF Ordered
  <2>7. ~(x \in returned /\ y \in returned /\ Cardinality(returned) <= 1)
    <3> SUFFICES ASSUME x \in returned, y \in returned, Cardinality(returned) <= 1 PROVE FALSE
      OBVIOUS
    <3> HIDE DEF x, y
    <3>1. IsFiniteSet(returned)
      <4>1. 1 \in Int /\ sent \in Int
        BY <2>2
      <4>2. IsFiniteSet(1..sent)
        BY <4>1, FS_Interval
      <4> QED
        BY <2>2, <4>2, FS_Subset
    <3>2. IsFiniteSet({x}) /\ Cardinality({x}) = 1 /\ y \notin {x}
      BY <2>4, FS_Singleton
    <3>3. Cardinality({x} \cup {y}) = 2
      <4>1. Cardinality({x} \cup {y}) = Cardinality({x}) + 1
        BY <3>2, OneMore
      <4> QED
        BY <3>2, <4>1
    <3>4. {x} \cup {y} \subseteq returned
      OBVIOUS
    <3>5. Cardinality({x} \cup {y}) <= Cardinality(returned) /\ Cardinality(returned) \in Nat
      BY <3>1, <3>4, FS_Subset, FS_CardinalityType
    <3> QED
      BY <3>3, <3>5
  <2>8. y \notin returned
    <3>1. x \notin late /\ y \notin late
      BY DEF q
    <3> QED
      BY <2>6, <2>7, <3>1
  <2>9. x < y
    BY <2>6, <2>8
  <2> QED
    BY <2>9 DEF q
<1> QED
  BY <1>1, FlowInvariant, PTL

=============================================================================
