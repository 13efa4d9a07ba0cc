---------------------------- MODULE CondClients ----------------------------
(***************************************************************************)
(* Goroutines that use one xsync.Cond the way its comments ask for: Wait,  *)
(* Signal and Broadcast under the lock.  The stretch a goroutine runs      *)
(* under the lock is one step, so the lock needs no variable.              *)
(***************************************************************************)
EXTENDS XCond

CONSTANTS Waiter,    \* goroutines that call Wait
          MayExpire, \* those whose context may end
          MaxCalls   \* bound on the calls of Signal and Broadcast

ASSUME CondAssumption == IsFiniteSet(Waiter) /\ MaxCalls \in Nat

VARIABLES cond,    \* the condition variable
          inside,  \* the goroutines inside Wait
          calls,   \* calls of Signal and Broadcast so far
          owed,    \* a wake-up was sent since a goroutine last left Wait
          panicked

clientVars == <<cond, inside, calls, owed, panicked>>

ClientInit ==
  /\ cond = NewCond
  /\ inside = {}
  /\ calls = 0 /\ owed = FALSE /\ panicked = FALSE

Wait(p) ==
  /\ ~panicked /\ p \notin inside
  /\ cond' = WaitEnter(cond)
  /\ inside' = inside \cup {p}
  /\ UNCHANGED <<calls, owed, panicked>>

Select(p) ==
  /\ ~panicked /\ p \in inside /\ Entering(cond, p)
  /\ \/ CanReceive(cond, p) /\ cond' = Receive(cond, p)
     \/ ~CanReceive(cond, p) /\ cond' = Park(cond, p)
  /\ UNCHANGED <<inside, calls, owed, panicked>>

ContextDone(p) ==
  /\ ~panicked /\ p \in inside \cap MayExpire
  /\ p \notin cond.ready \cup cond.failed
  /\ cond' = Expire(cond, p)
  /\ UNCHANGED <<inside, calls, owed, panicked>>

Return(p) ==
  /\ ~panicked /\ p \in cond.ready \cup cond.failed
  /\ cond' = WaitLeave(cond, p)
  /\ inside' = inside \ {p}
  /\ owed' = FALSE
  /\ UNCHANGED <<calls, panicked>>

Call ==
  /\ ~panicked /\ calls < MaxCalls
  /\ calls' = calls + 1
  /\ owed' = (owed \/ inside # {})
  /\ UNCHANGED inside
  /\ \/ /\ SendPanics(cond)
        /\ panicked' = TRUE
        /\ UNCHANGED cond
     \/ /\ ~SendPanics(cond)
        /\ UNCHANGED panicked
        /\ cond' = Signal(cond) \/ cond' = Broadcast(cond)

DestroyCond ==
  /\ ~panicked /\ ~cond.closed
  /\ cond' = Destroy(cond)
  /\ UNCHANGED <<inside, calls, owed, panicked>>

ClientNext ==
  \/ \E p \in Waiter : Wait(p) \/ Select(p) \/ ContextDone(p) \/ Return(p)
  \/ Call
  \/ DestroyCond
  \/ panicked /\ UNCHANGED clientVars

\* A goroutine that can run does run, and a mutex is not held for ever.
ClientSpec ==
  /\ ClientInit /\ [][ClientNext]_clientVars
  /\ \A p \in Waiter : WF_clientVars(Select(p)) /\ WF_clientVars(Return(p))

-----------------------------------------------------------------------------
\* Every variable has its type; the count of Wait stays within the number of
\* goroutines.
ClientTypeOK ==
  /\ cond.waiters \in 0..Cardinality(Waiter)
  /\ cond.token \in BOOLEAN /\ cond.closed \in BOOLEAN
  /\ cond.parked \in Seq(Waiter)
  /\ cond.ready \subseteq Waiter /\ cond.failed \subseteq Waiter
  /\ inside \subseteq Waiter
  /\ calls \in 0..MaxCalls /\ owed \in BOOLEAN /\ panicked \in BOOLEAN

\* The counter that decides whether Signal sends at all, and how often Broadcast
\* does, is the number of goroutines inside Wait, although each counts itself
\* before it releases the lock and uncounts itself, on either return, only after
\* it has taken the lock again.  A call of Signal or Broadcast that somebody waited
\* for has left its wake-up in the channel or with a goroutine, until one leaves.
WaitersCounted ==
  /\ ClientTypeOK
  /\ cond.waiters = Cardinality(inside)
  /\ owed /\ ~panicked => cond.token \/ cond.ready # {}

\* A wake-up sent while somebody waits is not lost, even when nobody is parked
\* yet: some goroutine leaves Wait.
SignalWakesOne == owed ~> (~owed \/ panicked)

\* Destroy lets everyone who waits leave.
DestroyWakesAll ==
  \A p \in Waiter : (p \in inside /\ cond.closed) ~> (p \notin inside \/ panicked)
=============================================================================
