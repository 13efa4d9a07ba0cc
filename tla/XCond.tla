------------------------------- MODULE XCond -------------------------------
(***************************************************************************)
(* The condition variable of xsync/waiter.go, as operators on a record.    *)
(*                                                                         *)
(* notify is a channel with one slot.  A send goes directly to the first   *)
(* goroutine that is parked in a receive, else into the slot, else it is   *)
(* dropped by the select's default.  A goroutine inside Wait has counted   *)
(* itself and released the lock but is not parked at once: it is entering, *)
(* then parked, then ready (it has received) or failed (its context ended) *)
(* until it holds the lock again and uncounts itself.                      *)
(***************************************************************************)
EXTENDS Naturals, Sequences, FiniteSets

NewCond == [waiters |-> 0,     \* the counter of the code
            token   |-> FALSE, \* the channel's slot is full
            parked  |-> <<>>,  \* goroutines blocked in the receive, in order
            ready   |-> {},    \* goroutines that received, without the lock yet
            failed  |-> {},    \* goroutines whose context ended, same
            closed  |-> FALSE] \* the channel is closed

Parked(c) == {c.parked[i] : i \in DOMAIN c.parked}

Entering(c, p) == p \notin Parked(c) \cup c.ready \cup c.failed

\* Wait up to the Unlock.
WaitEnter(c) == [c EXCEPT !.waiters = @ + 1]

\* The select of Wait, when a receive is possible ...
CanReceive(c, p) == Entering(c, p) /\ (c.token \/ c.closed)

Receive(c, p) == [c EXCEPT !.token = FALSE, !.ready = @ \cup {p}]

\* ... when it is not ...
Park(c, p) == [c EXCEPT !.parked = Append(@, p)]

\* The channel's queue of receivers s without p, which is in it once at most.
Unpark(s, p) ==
  IF \E i \in DOMAIN s : s[i] = p
  THEN LET k == CHOOSE i \in DOMAIN s : s[i] = p
       IN  SubSeq(s, 1, k - 1) \o SubSeq(s, k + 1, Len(s))
  ELSE s

\* ... and when the context ends, before or after the goroutine parked.
Expire(c, p) == [c EXCEPT !.parked = Unpark(@, p), !.failed = @ \cup {p}]

\* Mutant: the return with the context's error does not uncount the goroutine.
WaitLeaveKeeps(c, p) ==
  [c EXCEPT !.waiters = IF p \in c.failed THEN @ ELSE @ - 1,
            !.ready = @ \ {p}, !.failed = @ \ {p}]

\* Wait after it has the lock again.
WaitLeave(c, p) ==
  [c EXCEPT !.waiters = @ - 1, !.ready = @ \ {p}, !.failed = @ \ {p}]

\* Mutant: a channel without a slot.
SignalUnbuffered(c) ==
  IF c.waiters > 0 /\ c.parked # <<>>
  THEN [c EXCEPT !.parked = Tail(@), !.ready = @ \cup {Head(c.parked)}]
  ELSE c

Signal(c) ==
  IF c.waiters = 0 THEN c
  ELSE IF c.parked # <<>>
       THEN [c EXCEPT !.parked = Tail(@), !.ready = @ \cup {Head(c.parked)}]
       ELSE [c EXCEPT !.token = TRUE]

\* Mutant: wakes the parked goroutines and leaves nothing in the slot.
BroadcastParked(c) ==
  [c EXCEPT !.parked = <<>>, !.ready = @ \cup Parked(c)]

\* waiters times Signal: all that are parked, and the slot if there are more.
Broadcast(c) ==
  [c EXCEPT !.parked = <<>>,
            !.ready = @ \cup Parked(c),
            !.token = @ \/ c.waiters > Len(c.parked)]

\* Sending on a closed channel panics.
SendPanics(c) == c.closed /\ c.waiters > 0

\* Mutant: closing wakes nobody.
DestroySilent(c) == [c EXCEPT !.closed = TRUE]

Destroy(c) ==
  [c EXCEPT !.closed = TRUE, !.parked = <<>>, !.ready = @ \cup Parked(c)]
=============================================================================
