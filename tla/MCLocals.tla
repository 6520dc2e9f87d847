------------------------------ MODULE MCLocals ------------------------------
(* Instances of Locals for TLC. *)
EXTENDS Locals

CONSTANTS bounded, direct  \* a bounded channel and a rendezvous

Capacity == [ch \in Chans |-> IF ch = bounded THEN 2 ELSE 0]

R(ch) == [dir |-> "recv", ch |-> ch]
S(ch) == [dir |-> "send", ch |-> ch]
Call(br) == [NoOp EXCEPT !.branches = <<br>>]
Select(bs) == [NoOp EXCEPT !.branches = bs, !.select = TRUE]

\* Send and recv on a bounded channel; a select that receives from both channels,
\* with a timer; a select that sends to the rendezvous or receives from the
\* bounded channel; the other way round with a default.
OneChannel == {Call(R(bounded)), Call(S(bounded))}
TwoReceives == {Call(S(bounded)), Call(S(direct)), [Select(<<R(bounded), R(direct)>>) EXCEPT !.timer = TRUE]}
SendOrReceive == {Call(S(bounded)), Call(S(direct)), Call(R(direct)), Select(<<S(direct), R(bounded)>>)}
NoWait == {Call(S(direct)), Call(R(direct)), [Select(<<R(direct), S(bounded)>>) EXCEPT !.default = TRUE]}
TwoSends == {Call(S(bounded)), Call(R(bounded)), [Select(<<S(bounded), S(bounded)>>) EXCEPT !.timer = TRUE]}
PoolOnly == {}

AllPrograms == {OneChannel, TwoReceives, SendOrReceive, NoWait, TwoSends, PoolOnly}
SelectSend == {SendOrReceive}
SelectReceive == {TwoReceives}
Plain == {OneChannel}

Symmetry == Permutations(Coros)
=============================================================================
