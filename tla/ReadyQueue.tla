---------------------------- MODULE ReadyQueue ----------------------------
(***************************************************************************)
(* The ready queue of an event loop, as the coroutines of that loop see it *)
(* (event_loop.hpp).  The module EventLoop models the queue in full.       *)
(***************************************************************************)
EXTENDS Integers, FiniteSets, SequencesExt

\* EventLoop::schedule for each of hs: a handle already queued is dropped.
Scheduled(rest, hs) ==
    LET q[i \in 0..Len(hs)] ==
            IF i = 0 THEN rest
            ELSE LET before == q[i - 1]
                 IN  IF Contains(before, hs[i]) THEN before ELSE Append(before, hs[i])
    IN  q[Len(hs)]

\* The members of s that are in S, in their order.
Filtered(s, S) ==
    LET f[i \in 0..Len(s)] ==
            IF i = 0 THEN <<>>
            ELSE IF s[i] \in S THEN Append(f[i - 1], s[i]) ELSE f[i - 1]
    IN  f[Len(s)]

=============================================================================
