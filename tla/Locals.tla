------------------------------- MODULE Locals -------------------------------
(***************************************************************************)
(* Coroutines of one loop that use channels, select() and a pool.  What    *)
(* they share is the frame of the waiter: its one entry in the ready queue *)
(* and its cancellation.  A program that makes no call to a channel uses   *)
(* the pool.                                                               *)
(***************************************************************************)
EXTENDS Channel, Pool

vars == <<frames, chanVars, poolVars>>

\* The limit of the pool matters only where it is used.
Init ==
    /\ LocalInit /\ ChanInit /\ PoolInit
    /\ calls # {} => max_agents = 0

ChannelNext ==
    /\ (\E c \in Coros : ChanStep(c)) \/ (\E ch \in Chans : ChanClose(ch))
    /\ UNCHANGED poolVars

PoolNext ==
    /\ (\E c \in Coros : PoolStep(c)) \/ PoolClose
    /\ UNCHANGED chanVars

EndNext == (\E c \in Coros : Cancel(c) \/ Abandon(c)) /\ UNCHANGED <<chanVars, poolVars>>

Next == IF calls = {} THEN PoolNext \/ EndNext ELSE ChannelNext \/ EndNext

Spec == Init /\ [][Next]_vars

=============================================================================
