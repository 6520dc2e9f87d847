---------------------------- MODULE MCPrimitives ----------------------------
(* Instances of Primitives for TLC. *)
EXTENDS Primitives

CONSTANTS c1, c2, c3, l1, l2

OneHome == {[c \in Coros |-> l1]}
AllHomes == OneHome \cup {[c \in Coros |-> IF c = c1 THEN l1 ELSE l2]}

\* Three coroutines and the lock; two and everything else; two and a mixture.
Locking == [cast |-> {c1, c2, c3}, uses |-> {"lock"}]
Signals == [cast |-> {c1, c2}, uses |-> {"semaphore", "event", "future"}]
Mixed   == [cast |-> {c1, c2}, uses |-> {"lock", "event"}]
LivePrograms == {Locking, Signals}

\* With MaxWait = 2 a coroutine waits on two primitives at most: pairs are enough.
Pairs == {[cast |-> {c1, c2}, uses |-> Signals.uses \ {p}] : p \in Signals.uses}
AllPrograms == {Locking, Mixed} \cup Pairs

\* One primitive alone.
LockOnly == {Locking}
FutureOnly == {[cast |-> {c1, c2}, uses |-> {"future"}]}
=============================================================================
