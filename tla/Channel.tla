------------------------------ MODULE Channel ------------------------------
(***************************************************************************)
(* coro::channel and coro::select (include/coro/channel.hpp, select.hpp):  *)
(* bounded and rendezvous channels whose waiting senders and receivers are *)
(* handed over directly, and a select that waits on several channels and   *)
(* commits exactly one of its branches.                                    *)
(*                                                                         *)
(* A pending operation of a coroutine is a list of branches: one for send  *)
(* and recv, several for a select.  A node in a wait list is <<coroutine,  *)
(* branch number, value>>.  winner is select_state::winner and, for send   *)
(* and recv, the node's taken or delivered.  Values are numbered in the    *)
(* order in which they are offered.  all_receivers_gone always comes with  *)
(* send_closed and is tested with it only.                                 *)
(* The module Locals gives it, or the pool, the coroutines of one loop.    *)
(***************************************************************************)
EXTENDS Local

CONSTANTS Chans,
          capacity,    \* of each channel; 0: rendezvous
          Programs,    \* the sets of calls a program may make
          MaxSends     \* bound on the values offered

\* A call: send and recv have one branch, a select may have several, a timer
\* (after) and a default.
Branch == [dir : {"send", "recv"}, ch : Chans]
Operation == [branches : Seq(Branch), select : BOOLEAN, timer : BOOLEAN, default : BOOLEAN]

ASSUME ChannelAssumption ==
    /\ capacity \in [Chans -> Nat] /\ MaxSends \in Nat
    /\ \A P \in Programs :
          /\ P \subseteq Operation
          /\ \A s \in P : s.branches # <<>> /\ (~s.select => Len(s.branches) = 1)

VARIABLES calls,       \* the calls of this program: chosen once
          chan,        \* the channels and the nodes, as one record
          op,          \* the pending operation of each coroutine
          sent,        \* values offered so far
          accepted,    \* history: values the channel has taken from their sender
          received,    \* history: values returned by a recv or a select
          excused,     \* history: returned values that found the buffer full
          lost,        \* history: values that went with a dropped select
          returned     \* history: values returned to the channel by a dropped recv

hist == <<sent, received, excused, lost, returned>>
chanVars == <<calls, chan, op, accepted, hist>>

\* No call is pending.
NoOp == [branches |-> <<>>, select |-> FALSE, timer |-> FALSE, default |-> FALSE]

\* The channels some select sends to
SelectSends ==
    {ch \in Chans : \E s \in calls : s.select /\ Contains(s.branches, [dir |-> "send", ch |-> ch])}

-----------------------------------------------------------------------------
(* The functions on channel_state.  S is a value of chan; S.woken collects *)
(* the handles passed to channel_wake.                                     *)

channel_has_room(S, ch) == Len(S.buffer[ch]) < capacity[ch]

\* gate_open: the select of the node is undecided.  A node of a plain send or
\* recv leaves the list when it is served.
gate_open(S, node) == S.winner[node[1]] = 0

\* gate_claim, and the node's owner is woken; v: the value it is handed
Settle(S, node, v) ==
    [S EXCEPT !.winner[node[1]] = node[2], !.hand[node[1]] = v, !.woken = Append(@, node[1])]

\* The first receiver that may be served, 0: none.
Waiting(S, ch) == SelectInSeq(S.receivers[ch], LAMBDA n : gate_open(S, n))

channel_deliver(S, ch, v) ==
    LET i == Waiting(S, ch) IN
    Settle([S EXCEPT !.receivers[ch] = RemoveAt(@, i)], S.receivers[ch][i], v)

\* A sender's value goes to a waiting receiver, or into the buffer.
CanAccept(S, ch) == Waiting(S, ch) # 0 \/ channel_has_room(S, ch)
Accept(S, ch, v) ==
    IF Waiting(S, ch) # 0 THEN channel_deliver(S, ch, v)
    ELSE [S EXCEPT !.buffer[ch] = Append(@, v)]

\* Mutant: a pending sender is served without asking its gate.
PendingAny(S, ch) == S.senders[ch] # <<>>

\* channel_take_pending_sender: only the head of the list is looked at.
Pending(S, ch) == S.senders[ch] # <<>> /\ gate_open(S, Head(S.senders[ch]))
channel_take_pending_sender(S, ch) ==
    Settle([S EXCEPT !.senders[ch] = Tail(@)], Head(S.senders[ch]), 0)

\* Mutant: nobody is let in when a slot becomes free.
PromoteNobody(S, ch) == S

\* The head of the sender list enters the buffer.
Promote(S, ch) ==
    LET node == Head(S.senders[ch]) IN
    Settle([S EXCEPT !.senders[ch] = Tail(@), !.buffer[ch] = Append(@, node[3])], node, 0)

\* channel_promote_senders: senders enter the buffer in order, while there is
\* room and the head of the list may be served.
channel_promote_senders(S, ch) ==
    LET T[i \in 0..Len(S.senders[ch])] ==
            IF i = 0 THEN S
            ELSE LET U == T[i - 1]
                 IN  IF Pending(U, ch) /\ channel_has_room(U, ch) THEN Promote(U, ch) ELSE U
    IN  T[Len(S.senders[ch])]

\* The next value of the channel and the state after it was taken.
CanTake(S, ch) == S.buffer[ch] # <<>> \/ Pending(S, ch)
NextValue(S, ch) == IF S.buffer[ch] # <<>> THEN Head(S.buffer[ch]) ELSE Head(S.senders[ch])[3]
TakeNext(S, ch) ==
    IF S.buffer[ch] # <<>>
    THEN channel_promote_senders([S EXCEPT !.buffer[ch] = Tail(@)], ch)
    ELSE channel_take_pending_sender(S, ch)

\* Mutant: a value that comes back is put last.
ReturnLast(S, ch, v) ==
    IF Waiting(S, ch) # 0 THEN channel_deliver(S, ch, v)
    ELSE IF channel_has_room(S, ch) THEN [S EXCEPT !.buffer[ch] = Append(@, v)]
    ELSE S

\* channel_return_value: to the next receiver, or first in the buffer; with the
\* buffer full it is discarded ("缓冲已满时仍丢弃").
channel_return_value(S, ch, v) ==
    IF Waiting(S, ch) # 0 THEN channel_deliver(S, ch, v)
    ELSE IF channel_has_room(S, ch) THEN [S EXCEPT !.buffer[ch] = Cons(v, @)]
    ELSE S
Discarded(S, ch, v) ==
    IF Waiting(S, ch) = 0 /\ ~channel_has_room(S, ch) THEN {v} ELSE {}

\* The node of branch i of c leaves a list.
Erase(q, c, i) == Filtered(q, {n \in ToSet(q) : ~(n[1] = c /\ n[2] = i)})
channel_drop_sender(S, ch, c, i) ==
    channel_promote_senders([S EXCEPT !.senders[ch] = Erase(@, c, i)], ch)
channel_drop_receiver(S, ch, c, i) == [S EXCEPT !.receivers[ch] = Erase(@, c, i)]

Owners(q) == [i \in DOMAIN q |-> q[i][1]]

\* channel_close: all senders are woken, receivers only if the buffer is empty.
channel_close(S, ch) ==
    LET eof == S.buffer[ch] = <<>> IN
    [S EXCEPT !.closed = @ \cup {ch},
              !.senders[ch] = <<>>,
              !.receivers[ch] = IF eof THEN <<>> ELSE @,
              !.woken = @ \o Owners(S.senders[ch])
                          \o (IF eof THEN Owners(S.receivers[ch]) ELSE <<>>)]

-----------------------------------------------------------------------------
(* One branch of an operation.                                             *)

\* probe_can_accept, probe_has_message, and the await_ready of send and recv
Ready(S, b) ==
    IF b.dir = "send" THEN b.ch \notin S.closed /\ CanAccept(S, b.ch)
    ELSE CanTake(S, b.ch) \/ b.ch \in S.closed

\* commit_accept, commit_take; a closed channel that is drained gives EOF.
Commit(S, b, v) ==
    IF b.dir = "send" THEN Accept(S, b.ch, v)
    ELSE IF CanTake(S, b.ch) THEN TakeNext(S, b.ch) ELSE S

\* arm_for_select and the await_suspend of send and recv: the node is queued.
Arm(S, c, i, b, v) ==
    IF b.dir = "send" THEN [S EXCEPT !.senders[b.ch] = Append(@, <<c, i, v>>)]
    ELSE [S EXCEPT !.receivers[b.ch] = Append(@, <<c, i, 0>>)]

Disarm(S, c, i, b) ==
    IF b.dir = "send" THEN channel_drop_sender(S, b.ch, c, i)
    ELSE channel_drop_receiver(S, b.ch, c, i)

\* ~settle_guard: every branch, in order.  While the select is undecided, dropping
\* one of its nodes may let a later one of its own in.
DisarmAll(S, c, bs) ==
    LET T[i \in 0..Len(bs)] == IF i = 0 THEN S ELSE Disarm(T[i - 1], c, i, bs[i])
    IN  T[Len(bs)]

\* The operation of c is over.
Forget(S, c) == [S EXCEPT !.winner[c] = 0, !.hand[c] = 0, !.woken = <<>>]

\* The number of the value that branch i offers
ValueOf(bs, i) == sent + Cardinality({j \in 1..i : bs[j].dir = "send"})

\* The senders that the step from chan to S served: their values are accepted.
Served(S) ==
    {n[3] : n \in {m \in UNION {ToSet(chan.senders[ch]) : ch \in Chans} :
                      chan.winner[m[1]] = 0 /\ S.winner[m[1]] = m[2]}}

-----------------------------------------------------------------------------
(* Calls.                                                                  *)

\* The first branch that is ready is committed: the scan always starts with
\* branch 0, as rotation belongs to the one call.
FirstReady(bs) == SelectInSeq(bs, LAMBDA b : Ready(chan, b))

Offered(bs) == Cardinality({i \in DOMAIN bs : bs[i].dir = "send"})

\* send, try_send, recv, try_recv and select where a branch is ready
CallNow(c, s) ==
    LET i == FirstReady(s.branches) IN
    /\ i # 0
    /\ LET b == s.branches[i]
           v == ValueOf(s.branches, i)
           S == Commit(chan, b, v)
       IN  /\ Proceeds(c, "run", S.woken)
           /\ chan' = [S EXCEPT !.woken = <<>>]
           /\ accepted' = accepted \cup Served(S) \cup (IF b.dir = "send" THEN {v} ELSE {})
           /\ received' = received \cup
                 (IF b.dir = "recv" /\ CanTake(chan, b.ch) THEN {NextValue(chan, b.ch)} ELSE {})
    /\ UNCHANGED op

\* Every branch is armed, in order.
ArmAll(c, bs) ==
    LET T[i \in 0..Len(bs)] ==
            IF i = 0 THEN chan ELSE Arm(T[i - 1], c, i, bs[i], ValueOf(bs, i))
    IN  T[Len(bs)]

\* A plain send to a closed channel suspends and schedules itself at once.
Rejected(s) == ~s.select /\ s.branches[1].dir = "send" /\ s.branches[1].ch \in chan.closed

\* Its node is queued last and dropped again, which lets waiting senders in.
Reject(s) == channel_promote_senders(chan, s.branches[1].ch)

\* No branch is ready: every branch is armed.  A select with a default, or whose
\* deadline has passed, returns instead and changes nothing.
CallWait(c, s) ==
    /\ FirstReady(s.branches) = 0 /\ ~s.default
    /\ IF Rejected(s)
       THEN /\ Proceeds(c, "chan", Append(Reject(s).woken, c))
            /\ chan' = [Reject(s) EXCEPT !.woken = <<>>]
            /\ accepted' = accepted \cup Served(Reject(s))
       ELSE /\ Proceeds(c, "chan", <<>>)
            /\ chan' = ArmAll(c, s.branches)
            /\ UNCHANGED accepted
    /\ op' = [op EXCEPT ![c] = s]
    /\ UNCHANGED received

ChanCall(c) ==
    /\ st[c] = "run"
    /\ \E s \in calls :
          /\ sent + Offered(s.branches) <= MaxSends
          /\ CallNow(c, s) \/ CallWait(c, s)
          /\ sent' = sent + Offered(s.branches)
    /\ UNCHANGED <<calls, excused, lost, returned>>

\* The deadline of after() has passed: the timer schedules the select.
ChanTimer(c) ==
    /\ op[c].timer /\ ~Contains(ready, c)
    /\ ready' = Append(ready, c)
    /\ UNCHANGED <<st, cancelled, abandoned, chanVars>>

-----------------------------------------------------------------------------
(* The end of a wait.                                                      *)

\* What the frame leaves behind: ~settle_guard of a select, ~channel_send_awaiter,
\* which is the same for a node that was not served.
Cleaned(c) ==
    IF op[c].select \/ chan.winner[c] = 0 THEN DisarmAll(chan, c, op[c].branches) ELSE chan

\* Whom the clean-up of c wakes.  A wake-up of c itself reaches a frame that has
\* ended, which the loop skips.
Others(S, c) == Filtered(S.woken, Coros \ {c})

\* await_resume: served, or woken by close or by the timer.
ChanResume(c) ==
    /\ st[c] = "chan"
    /\ Resumes(c, "run", Others(Cleaned(c), c))
    /\ chan' = Forget(Cleaned(c), c)
    /\ op' = [op EXCEPT ![c] = NoOp]
    /\ accepted' = accepted \cup Served(Cleaned(c))
    /\ received' = received \cup (IF chan.hand[c] # 0 THEN {chan.hand[c]} ELSE {})
    /\ UNCHANGED <<calls, sent, excused, lost, returned>>

\* Mutant: a value that was handed to a cancelled recv goes with it.
DropWithValue(c) ==
    /\ st[c] = "chan"
    /\ Unwinds(c, Others(Cleaned(c), c))
    /\ chan' = Forget(Cleaned(c), c)
    /\ op' = [op EXCEPT ![c] = NoOp]
    /\ accepted' = accepted \cup Served(Cleaned(c))
    /\ UNCHANGED <<calls, sent, received, excused, lost, returned>>

\* The wait is cancelled or its frame destroyed.  A recv that has been handed a
\* value returns it to the channel; a select does not, and the value is lost.
ChanDrop(c) ==
    /\ st[c] = "chan"
    /\ op' = [op EXCEPT ![c] = NoOp]
    /\ LET v == chan.hand[c]
           back == v # 0 /\ ~op[c].select
           ch == op[c].branches[1].ch
           S == IF back THEN channel_return_value(chan, ch, v) ELSE Cleaned(c)
       IN  /\ Unwinds(c, Others(S, c))
           /\ chan' = Forget(S, c)
           /\ accepted' = accepted \cup Served(S)
           /\ returned' = IF back THEN returned \cup {v} ELSE returned
           /\ excused' = excused \cup (IF back THEN Discarded(chan, ch, v) ELSE {})
           /\ lost' = lost \cup (IF op[c].select /\ v # 0 THEN {v} ELSE {})
    /\ UNCHANGED <<calls, sent, received>>

\* sender::close, or the release of the last sender or of the last receiver
ChanClose(ch) ==
    LET S == channel_close(chan, ch) IN
    /\ chan' = [S EXCEPT !.woken = <<>>]
    /\ ready' = Scheduled(ready, S.woken)
    /\ UNCHANGED <<st, cancelled, abandoned, calls, op, accepted, hist>>

ChanStep(c) == ChanCall(c) \/ ChanTimer(c) \/ ChanResume(c) \/ ChanDrop(c)

ChanInit ==
    /\ calls \in Programs
    /\ chan = [buffer |-> [ch \in Chans |-> <<>>], senders |-> [ch \in Chans |-> <<>>],
               receivers |-> [ch \in Chans |-> <<>>], closed |-> {},
               winner |-> [c \in Coros |-> 0], hand |-> [c \in Coros |-> 0], woken |-> <<>>]
    /\ op = [c \in Coros |-> NoOp]
    /\ sent = 0 /\ accepted = {} /\ received = {} /\ excused = {}
    /\ lost = {} /\ returned = {}

-----------------------------------------------------------------------------
(* Properties.                                                             *)

Buffered == UNION {ToSet(chan.buffer[ch]) : ch \in Chans}
Handed == {chan.hand[c] : c \in Coros} \ {0}

\* The values that left the channel, and no value is in two places.
Gone == received \cup excused \cup lost
Apart ==
    /\ Buffered \cap (Handed \cup Gone) = {} /\ Handed \cap Gone = {}
    /\ received \cap (excused \cup lost) = {}
    /\ \A ch \in Chans : IsInjective(chan.buffer[ch])
    /\ \A c, d \in Coros : chan.hand[c] = chan.hand[d] /\ c # d => chan.hand[c] = 0

\* Every accepted value is in one place only: in a buffer, in the hands of one
\* receiver, received, discarded by a recv that found the buffer full, or lost
\* with a select that was dropped after it was served.  Nothing else is ever
\* received, and a plain recv loses nothing ("已交接的值不得丢", channel.hpp:35).
OnePlace == Apart /\ accepted = Buffered \cup Handed \cup Gone

\* The same for every waiter, a select too: cancelled or destroyed after the
\* handover, it must not take the value with it (channel.hpp:35).
ExactlyOnce == Apart /\ accepted = Buffered \cup Handed \cup received \cup excused

\* A select commits one branch only: once a branch has been served, no other is,
\* and what it was handed is not replaced, until the select has ended, however
\* long it takes the loop to resume it ("只有赢家消费消息或提交发送").
OneBranchCommits ==
    [][\A c \in Coros : chan.winner[c] # 0 /\ op'[c] # NoOp =>
          chan'.winner[c] = chan.winner[c] /\ chan'.hand[c] = chan.hand[c]]_chanVars

Values(q) == [i \in DOMAIN q |-> q[i][3]]

\* What is buffered and then what waits is in the order it was offered, the
\* values in late aside.
LineInOrder(ch, late) ==
    LET line == chan.buffer[ch] \o Values(chan.senders[ch]) IN
    \A i, j \in DOMAIN line :
        i < j /\ line[i] \notin late /\ line[j] \notin late => line[i] < line[j]

\* Senders do not overtake each other on a channel no select sends to; a value
\* that one cancelled recv returned is first again, and several returned values
\* disturb no order but their own.
InOrder ==
    \A ch \in Chans \ SelectSends :
        LineInOrder(ch, IF Cardinality(returned) <= 1 THEN {} ELSE returned)

\* Every value a cancelled recv returns is first again, however many do: "它本来
\* 就是这个通道里最早的值" (channel.hpp:168).
OldestFirst == \A ch \in Chans \ SelectSends : LineInOrder(ch, {})

\* Nobody waits to receive while there is a value or a sender that could be
\* served, and nobody waits to send while there is room.
MeetOn(ch) ==
    /\ Waiting(chan, ch) # 0 => ~CanTake(chan, ch)
    /\ Pending(chan, ch) => ~channel_has_room(chan, ch)

\* Sender and receiver find each other whoever comes first and whoever is
\* cancelled meanwhile, and nobody waits on a closed channel, on the channels no
\* select sends to.
Matched ==
    \A ch \in Chans \ SelectSends :
        /\ MeetOn(ch)
        /\ ch \in chan.closed =>
              chan.senders[ch] = <<>> /\ (Waiting(chan, ch) # 0 => chan.buffer[ch] # <<>>)

\* Sender and receiver find each other on every channel, so that they never wait
\* for each other for ever ("交接必须是双向可达的").
AlwaysMeet == \A ch \in Chans : MeetOn(ch)

=============================================================================
