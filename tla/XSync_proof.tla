---------------------------- MODULE XSync_proof ----------------------------
(***************************************************************************)
(* The condition variable of xsync/waiter.go and the pipe that is built on *)
(* it, xpipe/pipe.go.                                                      *)
(*                                                                         *)
(* The condition variable keeps its books for any number of goroutines:    *)
(* the counter is the number of goroutines inside Wait, and a wake-up is   *)
(* in the channel or with a goroutine until one leaves.  The pipe delivers *)
(* the stream intact and loses no wake-up, for any buffer size, any        *)
(* lengths of reads and writes, and any order of closes, deadlines and the *)
(* end of the context.                                                     *)
(***************************************************************************)
EXTENDS CondClients, XPipe, FiniteSetTheorems, SequenceTheorems, TLAPS

ClientCond ==
  [waiters : Nat, token : BOOLEAN, parked : Seq(Waiter),
   ready : SUBSET Waiter, failed : SUBSET Waiter, closed : BOOLEAN]

Distinct(s) == \A i, j \in DOMAIN s : s[i] = s[j] => i = j

(***************************************************************************)
(* The inductive invariant.  That no goroutine is parked twice is said of  *)
(* the positions in the queue; and whoever is parked, ready or failed is   *)
(* inside Wait, so that one who enters is none of them.  That nobody is    *)
(* parked while the slot is full is needed for Signal, which then sends to *)
(* whoever is parked and does not look at the slot.                        *)
(***************************************************************************)
Queue ==
  /\ Distinct(cond.parked)
  /\ cond.token \/ cond.closed => cond.parked = <<>>
  /\ Parked(cond) \cap (cond.ready \cup cond.failed) = {}
  /\ cond.ready \cap cond.failed = {}

Counted ==
  /\ Parked(cond) \cup cond.ready \cup cond.failed \subseteq inside
  /\ cond.waiters = Cardinality(inside)

ClientTypes ==
  /\ cond \in ClientCond /\ inside \subseteq Waiter
  /\ calls \in 0..MaxCalls /\ owed \in BOOLEAN /\ panicked \in BOOLEAN

Sent == owed /\ ~panicked => cond.token \/ cond.ready # {}

CondInv == ClientTypes /\ Queue /\ Counted /\ Sent

(***************************************************************************)
(* Facts about the queue of receivers.                                     *)
(***************************************************************************)
\* Park appends a goroutine that is not in the queue.
LEMMA AppendDistinct ==
  ASSUME NEW S, NEW s \in Seq(S), NEW p \in S, Distinct(s), \A i \in DOMAIN s : s[i] # p
  PROVE  /\ Append(s, p) \in Seq(S) /\ Distinct(Append(s, p))
         /\ \A i \in DOMAIN Append(s, p) : Append(s, p)[i] = p \/ \E j \in DOMAIN s : Append(s, p)[i] = s[j]
  <1> DEFINE t == Append(s, p)
  <1>1. /\ t \in Seq(S) /\ Len(t) = Len(s) + 1 /\ Len(s) \in Nat
        /\ \A i \in 1..Len(s) : t[i] = s[i]
        /\ t[Len(s) + 1] = p
    BY AppendProperties, LenProperties
  <1>2. DOMAIN t = 1..(Len(s) + 1) /\ DOMAIN s = 1..Len(s)
    BY <1>1, LenProperties
  <1> HIDE DEF t
  <1>3. \A i \in DOMAIN t : i = Len(s) + 1 \/ i \in DOMAIN s
    BY <1>1, <1>2
  <1>4. Distinct(t)
    BY <1>1, <1>2, <1>3 DEF Distinct
  <1>5. \A i \in DOMAIN t : t[i] = p \/ \E j \in DOMAIN s : t[i] = s[j]
    BY <1>1, <1>2, <1>3
  <1> QED
    BY <1>1, <1>4, <1>5 DEF t

\* A send wakes the first of the queue.
LEMMA TailDistinct ==
  ASSUME NEW S, NEW s \in Seq(S), s # <<>>, Distinct(s)
  PROVE  /\ Tail(s) \in Seq(S) /\ Distinct(Tail(s)) /\ Head(s) \in S
         /\ 1 \in DOMAIN s /\ Head(s) = s[1]
         /\ \A i \in DOMAIN Tail(s) : Tail(s)[i] # Head(s) /\ \E j \in DOMAIN s : Tail(s)[i] = s[j]
  <1> DEFINE t == Tail(s)
  <1>1. /\ t \in Seq(S) /\ Len(t) = Len(s) - 1 /\ Len(s) \in Nat \ {0} /\ Head(s) \in S
        /\ \A i \in 1..Len(t) : t[i] = s[i + 1]
    BY HeadTailProperties, EmptySeq
  <1>2. DOMAIN t = 1..(Len(s) - 1) /\ DOMAIN s = 1..Len(s)
    BY <1>1, LenProperties
  <1>3. Head(s) = s[1]
    OBVIOUS
  <1> HIDE DEF t
  <1>4. \A i \in DOMAIN t : i + 1 \in DOMAIN s /\ i \in Nat /\ i # 0 /\ t[i] = s[i + 1]
    BY <1>1, <1>2
  <1>5. Distinct(t)
    BY <1>4 DEF Distinct
  <1>6. 1 \in DOMAIN s
    BY <1>1, <1>2
  <1>7. \A i \in DOMAIN t : t[i] # Head(s) /\ \E j \in DOMAIN s : t[i] = s[j]
    BY <1>3, <1>4, <1>6 DEF Distinct
  <1> QED
    BY <1>1, <1>3, <1>5, <1>6, <1>7 DEF t

\* A goroutine whose context ended is taken out of the queue, and nobody else.
LEMMA UnparkDistinct ==
  ASSUME NEW S, NEW s \in Seq(S), NEW p, Distinct(s)
  PROVE  /\ Unpark(s, p) \in Seq(S) /\ Distinct(Unpark(s, p))
         /\ \A i \in DOMAIN Unpark(s, p) :
              Unpark(s, p)[i] # p /\ \E j \in DOMAIN s : Unpark(s, p)[i] = s[j]
         /\ s = <<>> => Unpark(s, p) = <<>>
  <1>1. CASE ~ \E i \in DOMAIN s : s[i] = p
    BY <1>1 DEF Unpark
  <1>2. CASE \E i \in DOMAIN s : s[i] = p
    <2>1. PICK k \in DOMAIN s : s[k] = p /\ k = CHOOSE i \in DOMAIN s : s[i] = p
      BY <1>2
    <2>2. Len(s) \in Nat /\ DOMAIN s = 1..Len(s) /\ k \in 1..Len(s)
      BY <2>1, LenProperties
    <2> DEFINE a == SubSeq(s, 1, k - 1)
               b == SubSeq(s, k + 1, Len(s))
               t == a \o b
    <2>3. Unpark(s, p) = t
      BY <1>2, <2>1, Zenon DEF Unpark
    <2>4. \A i \in 1..Len(s) : s[i] \in S
      BY ElementOfSeq
    <2>5. /\ a \in Seq(S) /\ Len(a) = k - 1
          /\ \A i \in 1..(k - 1) : a[i] = s[i]
      <3>1. \A i \in 1..(k - 1) : s[i] \in S
        BY <2>2, <2>4
      <3>2. /\ a \in Seq(S) /\ Len(a) = (IF 1 <= k - 1 THEN (k - 1) - 1 + 1 ELSE 0)
            /\ \A i \in 1..((k - 1) - 1 + 1) : a[i] = s[1 + i - 1]
        BY <2>2, <3>1, SubSeqProperties
      <3> QED
        BY <2>2, <3>2
    <2>6. /\ b \in Seq(S) /\ Len(b) = Len(s) - k
          /\ \A i \in 1..(Len(s) - k) : b[i] = s[k + i]
      <3>1. \A i \in (k + 1)..Len(s) : s[i] \in S
        BY <2>2, <2>4
      <3>2. /\ b \in Seq(S) /\ Len(b) = (IF k + 1 <= Len(s) THEN Len(s) - (k + 1) + 1 ELSE 0)
            /\ \A i \in 1..(Len(s) - (k + 1) + 1) : b[i] = s[(k + 1) + i - 1]
        BY <2>2, <3>1, SubSeqProperties, SMTT(30)
      <3> QED
        BY <2>2, <3>2, SMTT(30)
    <2> HIDE DEF a, b
    <2>7. /\ t \in Seq(S) /\ Len(t) = Len(s) - 1
          /\ \A i \in 1..(Len(s) - 1) : t[i] = IF i <= k - 1 THEN a[i] ELSE b[i - (k - 1)]
      <3>1. /\ t \in Seq(S) /\ Len(t) = Len(a) + Len(b)
            /\ \A i \in 1..(Len(a) + Len(b)) : t[i] = IF i <= Len(a) THEN a[i] ELSE b[i - Len(a)]
        BY <2>5, <2>6, ConcatProperties, Zenon
      <3>2. Len(a) = k - 1 /\ Len(a) + Len(b) = Len(s) - 1
        BY <2>2, <2>5, <2>6
      <3> HIDE DEF t
      <3> QED
        BY <3>1, <3>2, SMTT(30)
    <2>8. DOMAIN t = 1..(Len(s) - 1)
      BY <2>7, LenProperties
    <2> HIDE DEF t
    <2> DEFINE at(i) == IF i < k THEN i ELSE i + 1
    <2>9. ASSUME NEW i \in DOMAIN t
          PROVE  at(i) \in DOMAIN s /\ at(i) # k /\ t[i] = s[at(i)]
      <3>1. CASE i < k
        <4>1. i \in 1..(k - 1) /\ i \in 1..(Len(s) - 1) /\ i <= k - 1
          BY <2>2, <2>8, <3>1
        <4>2. t[i] = a[i]
          BY <2>7, <4>1, Zenon
        <4>3. t[i] = s[i]
          BY <2>5, <4>1, <4>2
        <4> QED
          BY <2>2, <3>1, <4>1, <4>3
      <3>2. CASE ~(i < k)
        <4>1. i \in 1..(Len(s) - 1) /\ ~(i <= k - 1) /\ i - (k - 1) \in 1..(Len(s) - k)
          BY <2>2, <2>8, <3>2
        <4>2. t[i] = b[i - (k - 1)]
          BY <2>7, <4>1, Zenon
        <4>3. t[i] = s[k + (i - (k - 1))] /\ k + (i - (k - 1)) = i + 1
          BY <2>2, <2>6, <4>1, <4>2, SMTT(30)
        <4> QED
          BY <2>2, <3>2, <4>1, <4>3
      <3> QED
        BY <3>1, <3>2
    <2>10. \A i, j \in DOMAIN t : at(i) = at(j) => i = j
      BY <2>2, <2>8
    <2> HIDE DEF at
    <2>11. Distinct(t)
      BY <2>9, <2>10 DEF Distinct
    <2>12. \A i \in DOMAIN t : t[i] # p /\ \E j \in DOMAIN s : t[i] = s[j]
      BY <2>1, <2>9 DEF Distinct
    <2>13. s # <<>>
      BY <2>2
    <2> QED
      BY <2>3, <2>7, <2>11, <2>12, <2>13
  <1> QED
    BY <1>1, <1>2

(***************************************************************************)
(* Each action preserves the invariant.                                    *)
(***************************************************************************)
\* A new condition variable; nobody waits.
LEMMA ClientInitInv == ClientInit => CondInv
  <1> SUFFICES ASSUME ClientInit PROVE CondInv
    OBVIOUS
  <1>1. ClientTypes
    <2>1. <<>> \in Seq(Waiter)
      BY EmptySeq
    <2>2. cond \in ClientCond
      BY <2>1 DEF ClientInit, NewCond, ClientCond
    <2>3. calls \in 0..MaxCalls
      BY CondAssumption DEF ClientInit
    <2> QED
      BY <2>2, <2>3, Zenon DEF ClientInit, ClientTypes
  <1>2. cond.parked = <<>> /\ cond.ready = {} /\ cond.failed = {} /\ cond.waiters = 0 /\ inside = {}
    BY DEF ClientInit, NewCond
  <1>3. DOMAIN <<>> = {}
    OBVIOUS
  <1>4. Parked(cond) = {}
    BY <1>2, <1>3 DEF Parked
  <1>5. Queue
    BY <1>2, <1>3, <1>4 DEF Queue, Distinct
  <1> QED
    BY <1>1, <1>2, <1>4, <1>5, FS_EmptySet DEF ClientInit, CondInv, Counted, Sent

\* Wait counts the goroutine before it gives up the lock.
LEMMA WaitInv ==
  ASSUME CondInv, NEW p \in Waiter, Wait(p)
  PROVE  CondInv'
  <1>1. /\ cond' \in ClientCond /\ cond'.waiters = cond.waiters + 1
        /\ cond'.token = cond.token /\ cond'.closed = cond.closed /\ cond'.parked = cond.parked
        /\ cond'.ready = cond.ready /\ cond'.failed = cond.failed
    BY DEF Wait, WaitEnter, CondInv, ClientTypes, ClientCond
  <1>2. ClientTypes'
    BY <1>1 DEF Wait, CondInv, ClientTypes
  <1>3. Parked(cond') = Parked(cond)
    BY <1>1 DEF Parked
  <1>4. Queue'
    BY <1>1, <1>3 DEF CondInv, Queue
  <1>5. IsFiniteSet(inside)
    BY CondAssumption, FS_Subset DEF CondInv, ClientTypes
  <1>6. inside' = inside \cup {p} /\ p \notin inside
    BY DEF Wait
  <1>7. Cardinality(inside \cup {p}) = Cardinality(inside) + 1
    BY <1>5, <1>6, FS_AddElement, Zenon
  <1>8. Counted'
    BY <1>1, <1>3, <1>6, <1>7 DEF CondInv, Counted
  <1> QED
    BY <1>1, <1>2, <1>4, <1>8 DEF Wait, CondInv, Sent

\* The select of Wait takes the token, or parks when there is none.
LEMMA SelectInv ==
  ASSUME CondInv, NEW p \in Waiter, Select(p)
  PROVE  CondInv'
  <1>1. /\ p \in inside /\ p \notin Parked(cond) \cup cond.ready \cup cond.failed
        /\ UNCHANGED <<inside, calls, owed, panicked>>
    BY DEF Select, Entering
  <1>2. CASE CanReceive(cond, p) /\ cond' = Receive(cond, p)
    <2>1. /\ cond' \in ClientCond /\ cond'.waiters = cond.waiters
          /\ cond'.token = FALSE /\ cond'.closed = cond.closed /\ cond'.parked = cond.parked
          /\ cond'.ready = cond.ready \cup {p} /\ cond'.failed = cond.failed
      BY <1>2, Zenon DEF Receive, CondInv, ClientTypes, ClientCond
    <2>2. Parked(cond') = Parked(cond)
      BY <2>1 DEF Parked
    <2>3. Queue'
      BY <1>1, <2>1, <2>2 DEF CondInv, Queue
    <2>4. Counted'
      BY <1>1, <2>1, <2>2 DEF CondInv, Counted
    <2> QED
      BY <1>1, <2>1, <2>3, <2>4 DEF CondInv, ClientTypes, Sent
  <1>3. CASE ~CanReceive(cond, p) /\ cond' = Park(cond, p)
    <2>1. cond.parked \in Seq(Waiter) /\ \A i \in DOMAIN cond.parked : cond.parked[i] # p
      BY <1>1 DEF CondInv, ClientTypes, ClientCond, Parked
    <2>2. /\ Append(cond.parked, p) \in Seq(Waiter) /\ Distinct(Append(cond.parked, p))
          /\ \A i \in DOMAIN Append(cond.parked, p) :
               Append(cond.parked, p)[i] = p \/ \E j \in DOMAIN cond.parked : Append(cond.parked, p)[i] = cond.parked[j]
      BY <2>1, AppendDistinct DEF CondInv, Queue
    <2>3. /\ cond' \in ClientCond /\ cond'.waiters = cond.waiters
          /\ cond'.token = cond.token /\ cond'.closed = cond.closed
          /\ cond'.parked = Append(cond.parked, p)
          /\ cond'.ready = cond.ready /\ cond'.failed = cond.failed
      BY <1>3, <2>2, Zenon DEF Park, CondInv, ClientTypes, ClientCond
    <2>4. Parked(cond') \subseteq Parked(cond) \cup {p}
      BY <2>2, <2>3 DEF Parked
    <2>5. ~cond.token /\ ~cond.closed
      BY <1>3 DEF CanReceive, Select
    <2>6. Queue'
      BY <1>1, <2>2, <2>3, <2>4, <2>5 DEF CondInv, Queue
    <2>7. Counted'
      BY <1>1, <2>3, <2>4 DEF CondInv, Counted
    <2> QED
      BY <1>1, <2>3, <2>6, <2>7 DEF CondInv, ClientTypes, Sent
  <1> QED
    BY <1>2, <1>3 DEF Select

\* The context of a goroutine that sleeps or is about to ends.
LEMMA ContextDoneInv ==
  ASSUME CondInv, NEW p \in Waiter, ContextDone(p)
  PROVE  CondInv'
  <1> DEFINE t == Unpark(cond.parked, p)
  <1>1. /\ t \in Seq(Waiter) /\ Distinct(t)
        /\ \A i \in DOMAIN t : t[i] # p /\ \E j \in DOMAIN cond.parked : t[i] = cond.parked[j]
        /\ cond.parked = <<>> => t = <<>>
    BY UnparkDistinct DEF CondInv, ClientTypes, ClientCond, Queue
  <1> HIDE DEF t
  <1>2. /\ cond' \in ClientCond /\ cond'.waiters = cond.waiters
        /\ cond'.token = cond.token /\ cond'.closed = cond.closed
        /\ cond'.parked = t /\ cond'.ready = cond.ready /\ cond'.failed = cond.failed \cup {p}
    BY <1>1, Zenon DEF ContextDone, Expire, CondInv, ClientTypes, ClientCond, t
  <1>3. Parked(cond') \subseteq Parked(cond) /\ p \notin Parked(cond')
    BY <1>1, <1>2 DEF Parked
  <1>4. p \in inside /\ p \notin cond.ready /\ UNCHANGED <<inside, calls, owed, panicked>>
    BY DEF ContextDone
  <1>5. Queue'
    BY <1>1, <1>2, <1>3, <1>4 DEF CondInv, Queue
  <1>6. Counted'
    BY <1>2, <1>3, <1>4 DEF CondInv, Counted
  <1> QED
    BY <1>2, <1>4, <1>5, <1>6 DEF CondInv, ClientTypes, Sent

\* Wait returns with the lock and uncounts the goroutine.
LEMMA ReturnInv ==
  ASSUME CondInv, NEW p \in Waiter, Return(p)
  PROVE  CondInv'
  <1>1. p \in cond.ready \cup cond.failed /\ p \in inside /\ p \notin Parked(cond)
    BY DEF Return, CondInv, Counted, Queue
  <1>2. IsFiniteSet(inside)
    BY CondAssumption, FS_Subset DEF CondInv, ClientTypes
  <1>3. Cardinality(inside \ {p}) = Cardinality(inside) - 1
    BY <1>1, <1>2, FS_RemoveElement, Zenon
  <1>4. Cardinality(inside \ {p}) \in Nat
    BY <1>2, FS_Subset, FS_CardinalityType
  <1>5. /\ cond' \in ClientCond /\ cond'.waiters = cond.waiters - 1
        /\ cond'.token = cond.token /\ cond'.closed = cond.closed /\ cond'.parked = cond.parked
        /\ cond'.ready = cond.ready \ {p} /\ cond'.failed = cond.failed \ {p}
    BY <1>3, <1>4, Zenon DEF Return, WaitLeave, CondInv, ClientTypes, ClientCond, Counted
  <1>6. Parked(cond') = Parked(cond)
    BY <1>5 DEF Parked
  <1>7. ClientTypes'
    BY <1>5, Zenon DEF Return, CondInv, ClientTypes
  <1>8. Queue'
    BY <1>5, <1>6 DEF CondInv, Queue
  <1>9. Counted'
    BY <1>1, <1>3, <1>5, <1>6 DEF Return, CondInv, Counted
  <1> QED
    BY <1>7, <1>8, <1>9 DEF Return, CondInv, Sent

\* With somebody inside Wait, a call leaves a wake-up behind.
LEMMA SentNow ==
  ASSUME CondInv, cond.waiters > 0, NEW d, d = Signal(cond) \/ d = Broadcast(cond)
  PROVE  d.token \/ d.ready # {}
  <1>1. cond \in ClientCond /\ cond.parked \in Seq(Waiter) /\ cond.waiters \in Nat
    BY DEF CondInv, ClientTypes, ClientCond
  <1>2. CASE cond.parked # <<>>
    <2>1. /\ Head(cond.parked) = cond.parked[1] /\ 1 \in DOMAIN cond.parked
      BY <1>1, <1>2, TailDistinct DEF CondInv, Queue
    <2>2. Head(cond.parked) \in Parked(cond)
      BY <2>1 DEF Parked
    <2>3. CASE d = Signal(cond)
      <3>1. d.ready = cond.ready \cup {Head(cond.parked)}
        BY <1>1, <1>2, <2>3 DEF Signal, ClientCond
      <3> QED
        BY <3>1
    <2>4. CASE d = Broadcast(cond)
      <3>1. d.ready = cond.ready \cup Parked(cond)
        BY <1>1, <2>4, Zenon DEF Broadcast, ClientCond
      <3> QED
        BY <2>2, <3>1
    <2> QED
      BY <2>3, <2>4
  <1>3. CASE cond.parked = <<>>
    <2>1. CASE d = Signal(cond)
      BY <1>1, <1>3, <2>1 DEF Signal, ClientCond
    <2>2. CASE d = Broadcast(cond)
      <3>1. Len(cond.parked) = 0
        BY <1>3
      <3>2. cond.waiters > Len(cond.parked)
        BY <3>1
      <3>3. d.token = (cond.token \/ cond.waiters > Len(cond.parked))
        BY <1>1, <2>2, Zenon DEF Broadcast, ClientCond
      <3> QED
        BY <3>2, <3>3
    <2> QED
      BY <2>1, <2>2
  <1> QED
    BY <1>2, <1>3

\* Signal and Broadcast: to whoever is parked, else into the slot.
LEMMA CallInv ==
  ASSUME CondInv, Call
  PROVE  CondInv'
  <1>1. UNCHANGED inside /\ calls' \in 0..MaxCalls /\ owed' \in BOOLEAN /\ panicked' \in BOOLEAN
    <2>1. calls' \in 0..MaxCalls
      BY CondAssumption DEF Call, CondInv, ClientTypes
    <2>2. owed' \in BOOLEAN
      BY DEF Call
    <2>3. panicked' \in BOOLEAN
      BY Zenon DEF Call, CondInv, ClientTypes
    <2> QED
      BY <2>1, <2>2, <2>3 DEF Call
  <1>a. inside # {} => cond.waiters > 0
    <2>1. IsFiniteSet(inside)
      BY CondAssumption, FS_Subset DEF CondInv, ClientTypes
    <2>2. Cardinality(inside) \in Nat /\ (Cardinality(inside) = 0 <=> inside = {})
      BY <2>1, FS_CardinalityType, FS_EmptySet
    <2> QED
      BY <2>2 DEF CondInv, Counted
  <1>2. CASE UNCHANGED cond
    <2>1. Sent'
      <3>1. CASE panicked'
        BY <3>1 DEF Sent
      <3>2. CASE ~panicked'
        <4>1. ~panicked /\ (cond = Signal(cond) \/ cond = Broadcast(cond)) /\ owed' = (owed \/ inside # {})
          BY <1>2, <3>2 DEF Call
        <4>2. CASE inside = {}
          BY <1>2, <4>1, <4>2 DEF CondInv, Sent
        <4>3. CASE inside # {}
          <5>1. cond.token \/ cond.ready # {}
            BY <1>a, <4>1, <4>3, SentNow
          <5> QED
            BY <1>2, <5>1 DEF Sent
        <4> QED
          BY <4>2, <4>3
      <3> QED
        BY <3>1, <3>2
    <2> QED
      BY <1>1, <1>2, <2>1 DEF CondInv, ClientTypes, Queue, Counted, Parked
  <1>3. CASE cond.parked # <<>> /\ cond' = Signal(cond) /\ cond' # cond
    <2> DEFINE s == cond.parked
    <2>1. /\ Tail(s) \in Seq(Waiter) /\ Distinct(Tail(s)) /\ Head(s) \in Waiter
          /\ 1 \in DOMAIN s /\ Head(s) = s[1]
          /\ \A i \in DOMAIN Tail(s) : Tail(s)[i] # Head(s) /\ \E j \in DOMAIN s : Tail(s)[i] = s[j]
      BY <1>3, TailDistinct DEF CondInv, ClientTypes, ClientCond, Queue
    <2>2. /\ cond' \in ClientCond /\ cond'.waiters = cond.waiters
          /\ cond'.token = cond.token /\ cond'.closed = cond.closed /\ cond'.parked = Tail(s)
          /\ cond'.ready = cond.ready \cup {Head(s)} /\ cond'.failed = cond.failed
      BY <1>3, <2>1, Zenon DEF Signal, CondInv, ClientTypes, ClientCond
    <2>3. /\ Head(s) \in Parked(cond)
          /\ Parked(cond') \subseteq Parked(cond) /\ Head(s) \notin Parked(cond')
      BY <2>1, <2>2 DEF Parked
    <2>4. ~cond.token /\ ~cond.closed
      BY <1>3 DEF CondInv, Queue
    <2>5. Queue'
      BY <2>1, <2>2, <2>3, <2>4 DEF CondInv, Queue
    <2>6. Counted'
      BY <1>1, <2>2, <2>3 DEF CondInv, Counted
    <2> QED
      BY <1>1, <2>2, <2>5, <2>6 DEF CondInv, ClientTypes, Sent
  <1>4. CASE cond.parked = <<>> /\ cond' = Signal(cond) /\ cond' # cond
    <2>1. /\ cond' \in ClientCond /\ cond'.waiters = cond.waiters
          /\ cond'.token = TRUE /\ cond'.closed = cond.closed /\ cond'.parked = cond.parked
          /\ cond'.ready = cond.ready /\ cond'.failed = cond.failed
      BY <1>4, Zenon DEF Signal, CondInv, ClientTypes, ClientCond
    <2>2. Parked(cond') = Parked(cond)
      BY <2>1 DEF Parked
    <2>3. Queue'
      BY <1>4, <2>1, <2>2 DEF CondInv, Queue
    <2>4. Counted'
      BY <1>1, <2>1, <2>2 DEF CondInv, Counted
    <2> QED
      BY <1>1, <2>1, <2>3, <2>4 DEF CondInv, ClientTypes, Sent
  <1>5. CASE cond' = Broadcast(cond)
    <2>1. /\ cond' \in ClientCond /\ cond'.waiters = cond.waiters
          /\ cond'.closed = cond.closed /\ cond'.parked = <<>>
          /\ cond'.ready = cond.ready \cup Parked(cond) /\ cond'.failed = cond.failed
      <3>1. Parked(cond) \subseteq Waiter
        BY DEF CondInv, ClientTypes, Counted
      <3>2. (cond.token \/ cond.waiters > Len(cond.parked)) \in BOOLEAN
        OBVIOUS
      <3>3. <<>> \in Seq(Waiter)
        BY EmptySeq
      <3> QED
        BY <1>5, <3>1, <3>2, <3>3, Zenon DEF Broadcast, CondInv, ClientTypes, ClientCond
    <2>2. DOMAIN <<>> = {}
      OBVIOUS
    <2>3. Parked(cond') = {}
      BY <2>1, <2>2 DEF Parked
    <2>4. Queue'
      BY <2>1, <2>2, <2>3 DEF CondInv, Queue, Distinct
    <2>5. Counted'
      BY <1>1, <2>1, <2>3 DEF CondInv, Counted
    <2>6. Sent'
      <3>1. CASE inside # {}
        <4>1. cond'.token \/ cond'.ready # {}
          BY <1>5, <1>a, <3>1, SentNow
        <4> QED
          BY <4>1 DEF Sent
      <3>2. CASE inside = {}
        <4>1. owed' = owed /\ ~panicked /\ (cond.token => cond'.token)
          BY <1>5, <3>2, Zenon DEF Call, Broadcast, CondInv, ClientTypes, ClientCond
        <4> QED
          BY <2>1, <4>1 DEF CondInv, Sent
      <3> QED
        BY <3>1, <3>2
    <2> QED
      BY <1>1, <2>1, <2>4, <2>5, <2>6 DEF CondInv, ClientTypes
  <1> QED
    BY <1>2, <1>3, <1>4, <1>5 DEF Call

\* Destroy closes the channel: everyone parked receives.
LEMMA DestroyInv ==
  ASSUME CondInv, DestroyCond
  PROVE  CondInv'
  <1>1. Parked(cond) \subseteq Waiter /\ <<>> \in Seq(Waiter)
    BY EmptySeq DEF CondInv, ClientTypes, Counted
  <1>2. /\ cond' \in ClientCond /\ cond'.waiters = cond.waiters /\ cond'.parked = <<>>
        /\ cond'.ready = cond.ready \cup Parked(cond) /\ cond'.failed = cond.failed
        /\ cond'.token = cond.token
    BY <1>1, Zenon DEF DestroyCond, Destroy, CondInv, ClientTypes, ClientCond
  <1>3. DOMAIN <<>> = {}
    OBVIOUS
  <1>4. Parked(cond') = {}
    BY <1>2, <1>3 DEF Parked
  <1>5. Queue'
    BY <1>2, <1>3, <1>4 DEF CondInv, Queue, Distinct
  <1>6. Counted'
    BY <1>2, <1>4 DEF DestroyCond, CondInv, Counted
  <1> QED
    BY <1>2, <1>5, <1>6 DEF DestroyCond, CondInv, ClientTypes, Sent

\* Every step preserves the invariant.
LEMMA ClientNextInv == CondInv /\ [ClientNext]_clientVars => CondInv'
  <1> SUFFICES ASSUME CondInv, [ClientNext]_clientVars PROVE CondInv'
    OBVIOUS
  <1>1. CASE UNCHANGED clientVars
    BY <1>1 DEF clientVars, CondInv, ClientTypes, Queue, Counted, Parked, Sent
  <1> QED
    BY <1>1, WaitInv, SelectInv, ContextDoneInv, ReturnInv, CallInv, DestroyInv DEF ClientNext

\* The invariant gives what the goroutines rely on.
LEMMA InvImplies == CondInv => WaitersCounted
  <1> SUFFICES ASSUME CondInv PROVE WaitersCounted
    OBVIOUS
  <1>2. Cardinality(inside) <= Cardinality(Waiter) /\ Cardinality(Waiter) \in Nat
    BY CondAssumption, FS_Subset, FS_CardinalityType DEF CondInv, ClientTypes
  <1>3. cond.waiters \in 0..Cardinality(Waiter)
    BY <1>2 DEF CondInv, ClientTypes, ClientCond, Counted
  <1>4. ClientTypeOK
    BY <1>3 DEF CondInv, ClientTypes, ClientCond, ClientTypeOK
  <1> QED
    BY <1>4 DEF CondInv, Counted, Sent, WaitersCounted

(***************************************************************************)
(* ClientSpec implies that WaitersCounted always holds: for any number of  *)
(* goroutines in Wait and any order of Signal, Broadcast, Destroy and      *)
(* contexts that end, waiters counts exactly the goroutines inside Wait,   *)
(* and the wake-up of a call that found somebody there is in the channel   *)
(* or with a goroutine until one leaves.                                   *)
(***************************************************************************)
THEOREM Counting == ClientSpec => []WaitersCounted
  BY ClientInitInv, ClientNextInv, InvImplies, PTL DEF ClientSpec

-----------------------------------------------------------------------------
(***************************************************************************)
(* Each trigger has one goroutine p that may wait on it.  w says whether p *)
(* is inside Wait.                                                         *)
(***************************************************************************)
CondType(p) ==
  [waiters : {0, 1}, token : BOOLEAN, parked : {<<>>, <<p>>},
   ready : {{}, {p}}, failed : {{}, {p}}, closed : {FALSE}]

CondOK(c, p, w) ==
  /\ c \in CondType(p)
  /\ c.waiters = (IF w THEN 1 ELSE 0)
  /\ c.token => c.parked = <<>>
  /\ c.parked # <<>> => c.ready = {} /\ c.failed = {}
  /\ ~w => c.parked = <<>> /\ c.ready = {} /\ c.failed = {}

\* p is parked, or about to park if it finds no token.
Sleepy(c, p) == p \notin c.ready \cup c.failed

(***************************************************************************)
(* What the operations do to a trigger.                                    *)
(***************************************************************************)
LEMMA EmptyPair == ASSUME NEW p
                   PROVE  /\ <<>> # <<p>> /\ DOMAIN <<>> = {} /\ DOMAIN <<p>> = {1}
                          /\ <<p>>[1] = p /\ Len(<<>>) = 0 /\ Len(<<p>>) = 1
  OBVIOUS

\* Who is parked, for the two queues that occur.
LEMMA ParkedIs ==
  ASSUME NEW c, NEW p
  PROVE  /\ c.parked = <<>> => Parked(c) = {}
         /\ c.parked = <<p>> => Parked(c) = {p}
  BY EmptyPair DEF Parked

\* Wait up to the Unlock.
LEMMA EnterOK ==
  ASSUME NEW c, NEW p, CondOK(c, p, FALSE)
  PROVE  CondOK(WaitEnter(c), p, TRUE)
  <1> DEFINE d == WaitEnter(c)
  <1>0. c.waiters + 1 = 1
    BY DEF CondOK
  <1>1. /\ d \in CondType(p) /\ d.waiters = 1 /\ d.token = c.token /\ d.parked = c.parked
        /\ d.ready = c.ready /\ d.failed = c.failed
    BY <1>0, Zenon DEF CondOK, CondType, WaitEnter
  <1> HIDE DEF d
  <1>2. CondOK(d, p, TRUE)
    BY <1>1 DEF CondOK
  <1> QED
    BY <1>2, Zenon DEF d

\* Wait after it has the lock again.
LEMMA LeaveOK ==
  ASSUME NEW c, NEW p, CondOK(c, p, TRUE), ~Sleepy(c, p)
  PROVE  CondOK(WaitLeave(c, p), p, FALSE)
  <1> DEFINE d == WaitLeave(c, p)
  <1>0. c.waiters - 1 = 0
    BY DEF CondOK
  <1>1. c.ready \ {p} = {} /\ c.failed \ {p} = {}
    BY DEF CondOK, CondType
  <1>2. c.parked = <<>>
    BY DEF CondOK, CondType, Sleepy
  <1>3. /\ d \in CondType(p) /\ d.waiters = 0 /\ d.token = c.token /\ d.parked = c.parked
        /\ d.ready = {} /\ d.failed = {}
    BY <1>0, <1>1, Zenon DEF CondOK, CondType, WaitLeave
  <1> HIDE DEF d
  <1>4. CondOK(d, p, FALSE)
    BY <1>2, <1>3 DEF CondOK
  <1> QED
    BY <1>4, Zenon DEF d

\* Broadcast: p is awake, or finds the token before it parks.
LEMMA BroadcastOK ==
  ASSUME NEW c, NEW p, NEW w \in BOOLEAN, CondOK(c, p, w)
  PROVE  /\ CondOK(Broadcast(c), p, w)
         /\ w => ~Sleepy(Broadcast(c), p) \/ Broadcast(c).token
  <1> DEFINE d == Broadcast(c)
             tok == c.token \/ c.waiters > Len(c.parked)
             rdy == c.ready \cup Parked(c)
  <1>1. c.parked \in {<<>>, <<p>>}
    BY DEF CondOK, CondType
  <1>2. Parked(c) \in {{}, {p}}
    BY <1>1, ParkedIs
  <1>3. rdy \in {{}, {p}} /\ tok \in BOOLEAN
    BY <1>2 DEF CondOK, CondType
  <1>4. d = [c EXCEPT !.parked = <<>>, !.ready = rdy, !.token = tok]
    BY DEF Broadcast
  <1> HIDE DEF d, tok, rdy
  <1>5. /\ d \in CondType(p) /\ d.waiters = c.waiters /\ d.token = tok /\ d.parked = <<>>
        /\ d.ready = rdy /\ d.failed = c.failed
    BY <1>3, <1>4, Zenon DEF CondOK, CondType
  <1>6. ~w => rdy = {} /\ c.failed = {}
    BY ParkedIs DEF CondOK, rdy
  <1>7. CondOK(d, p, w)
    BY <1>5, <1>6 DEF CondOK
  <1>8. ASSUME w
        PROVE  ~Sleepy(d, p) \/ d.token
    <2>1. CASE c.parked = <<p>>
      BY <1>5, <2>1, ParkedIs DEF Sleepy, rdy
    <2>2. CASE c.parked = <<>>
      <3>1. c.waiters = 1 /\ Len(c.parked) = 0
        BY <1>8, <2>2, EmptyPair DEF CondOK
      <3>2. tok
        BY <3>1 DEF tok
      <3> QED
        BY <1>5, <3>2
    <2> QED
      BY <1>1, <2>1, <2>2
  <1> QED
    BY <1>7, <1>8 DEF d

\* The select of Wait.
LEMMA ReceiveOK ==
  ASSUME NEW c, NEW p, CondOK(c, p, TRUE), CanReceive(c, p)
  PROVE  CondOK(Receive(c, p), p, TRUE) /\ ~Sleepy(Receive(c, p), p)
  <1> DEFINE d == Receive(c, p)
  <1>1. c.parked = <<>> /\ c.ready \cup {p} = {p}
    BY Zenon DEF CanReceive, CondOK, CondType
  <1>2. /\ d \in CondType(p) /\ d.waiters = c.waiters /\ d.token = FALSE /\ d.parked = <<>>
        /\ d.ready = {p} /\ d.failed = c.failed
    BY <1>1, Zenon DEF CondOK, CondType, Receive
  <1> HIDE DEF d
  <1>3. CondOK(d, p, TRUE) /\ ~Sleepy(d, p)
    BY <1>2 DEF CondOK, Sleepy
  <1> QED
    BY <1>3, Zenon DEF d

\* ... and parks only when there is no token.
LEMMA ParkOK ==
  ASSUME NEW c, NEW p, CondOK(c, p, TRUE), Entering(c, p), ~CanReceive(c, p)
  PROVE  CondOK(Park(c, p), p, TRUE) /\ ~c.token
  <1> DEFINE d == Park(c, p)
  <1>1. c.parked = <<>> /\ c.ready = {} /\ c.failed = {} /\ ~c.token
    BY ParkedIs DEF Entering, CanReceive, CondOK, CondType
  <1>2. Append(c.parked, p) = <<p>>
    BY <1>1
  <1>3. /\ d \in CondType(p) /\ d.waiters = c.waiters /\ d.token = FALSE
        /\ d.ready = {} /\ d.failed = {}
    BY <1>1, <1>2, Zenon DEF CondOK, CondType, Park
  <1> HIDE DEF d
  <1>4. CondOK(d, p, TRUE)
    BY <1>3 DEF CondOK
  <1> QED
    BY <1>1, <1>4, Zenon DEF d

\* The context ends for p, parked or about to park.
LEMMA ExpireOK ==
  ASSUME NEW c, NEW p, CondOK(c, p, TRUE), Sleepy(c, p)
  PROVE  CondOK(Expire(c, p), p, TRUE) /\ ~Sleepy(Expire(c, p), p)
  <1> DEFINE d == Expire(c, p)
  <1>1. Unpark(c.parked, p) = <<>>
    <2>1. CASE c.parked = <<>>
      BY <2>1, EmptyPair DEF Unpark
    <2>2. CASE c.parked = <<p>>
      <3>1. \A k : k \in DOMAIN c.parked => k = 1
        BY <2>2, EmptyPair
      <3>2. (\E i \in DOMAIN c.parked : c.parked[i] = p) /\ (CHOOSE i \in DOMAIN c.parked : c.parked[i] = p) = 1
        BY <2>2, <3>1, EmptyPair
      <3>3. Unpark(c.parked, p) = SubSeq(c.parked, 1, 1 - 1) \o SubSeq(c.parked, 1 + 1, Len(c.parked))
        BY <3>2, Zenon DEF Unpark
      <3>4. SubSeq(c.parked, 1, 1 - 1) = <<>> /\ SubSeq(c.parked, 1 + 1, Len(c.parked)) = <<>>
        BY <2>2, EmptyPair, SubSeqEmpty
      <3> QED
        BY <3>3, <3>4
    <2> QED
      BY <2>1, <2>2 DEF CondOK, CondType
  <1>2. c.failed \cup {p} = {p}
    BY DEF CondOK, CondType
  <1>3. /\ d \in CondType(p) /\ d.waiters = c.waiters /\ d.token = c.token /\ d.parked = <<>>
        /\ d.ready = c.ready /\ d.failed = {p}
    BY <1>1, <1>2, Zenon DEF CondOK, CondType, Expire
  <1> HIDE DEF d
  <1>4. CondOK(d, p, TRUE) /\ ~Sleepy(d, p)
    BY <1>3 DEF CondOK, Sleepy
  <1> QED
    BY <1>4, Zenon DEF d

(***************************************************************************)
(* What Read and Write do to the stream.                                   *)
(***************************************************************************)
\* Read moves the first n bytes of the buffer b to the end of the output o.
LEMMA Taken ==
  ASSUME NEW o \in Seq(Nat), NEW b \in Seq(Nat), NEW n \in 0..Len(b)
  PROVE  /\ o \o SubSeq(b, 1, n) \in Seq(Nat) /\ SubSeq(b, n + 1, Len(b)) \in Seq(Nat)
         /\ Len(SubSeq(b, n + 1, Len(b))) <= Len(b)
         /\ (o \o SubSeq(b, 1, n)) \o SubSeq(b, n + 1, Len(b)) = o \o b
  <1>1. Len(b) \in Nat /\ n \in Nat /\ \A i \in 1..Len(b) : b[i] \in Nat
    BY LenProperties, ElementOfSeq
  <1>2. SubSeq(b, 1, n) \in Seq(Nat)
    BY <1>1, SubSeqProperties
  <1>3. SubSeq(b, n + 1, Len(b)) \in Seq(Nat) /\ Len(SubSeq(b, n + 1, Len(b))) <= Len(b)
    <2>1. \A i \in (n + 1)..Len(b) : b[i] \in Nat
      BY <1>1
    <2>2. /\ SubSeq(b, n + 1, Len(b)) \in Seq(Nat)
          /\ Len(SubSeq(b, n + 1, Len(b))) = IF n + 1 <= Len(b) THEN Len(b) - (n + 1) + 1 ELSE 0
      BY <1>1, <2>1, SubSeqProperties
    <2> QED
      BY <1>1, <2>2
  <1>4. SubSeq(b, 1, n) \o SubSeq(b, n + 1, Len(b)) = SubSeq(b, 1, Len(b))
    <2>1. 1 \in 1..(Len(b) + 1) /\ n \in (1 - 1)..Len(b) /\ Len(b) \in n..Len(b)
      BY <1>1
    <2> QED
      BY <2>1, ConcatAdjacentSubSeq, Zenon
  <1>5. SubSeq(b, 1, Len(b)) = b
    BY SubSeqFull
  <1>6. (o \o SubSeq(b, 1, n)) \o SubSeq(b, n + 1, Len(b)) = o \o (SubSeq(b, 1, n) \o SubSeq(b, n + 1, Len(b)))
    <2> DEFINE x == SubSeq(b, 1, n)
               y == SubSeq(b, n + 1, Len(b))
    <2>1. x \in Seq(Nat) /\ y \in Seq(Nat)
      BY <1>2, <1>3
    <2> HIDE DEF x, y
    <2>2. (o \o x) \o y = o \o (x \o y)
      BY ONLY <2>1, o \in Seq(Nat), ConcatAssociative, SMTT(30)
    <2> QED
      BY <2>2, Zenon DEF x, y
  <1>7. o \o SubSeq(b, 1, n) \in Seq(Nat)
    BY <1>2, ConcatProperties
  <1> QED
    BY <1>3, <1>4, <1>5, <1>6, <1>7, Zenon

\* The bytes from k + 1 on, n of them.
LEMMA Bytes ==
  ASSUME NEW k \in Nat, NEW n \in Nat
  PROVE  /\ [i \in 1..n |-> k + i] \in Seq(Nat)
         /\ Len([i \in 1..n |-> k + i]) = n
  <1> DEFINE s == [i \in 1..n |-> k + i]
  <1>1. s \in [1..n -> Nat]
    OBVIOUS
  <1>2. s \in Seq(Nat)
    BY <1>1, SeqDef
  <1>3. DOMAIN s = 1..n
    OBVIOUS
  <1> HIDE DEF s
  <1>4. Len(s) = n
    BY <1>2, <1>3, LenProperties
  <1> QED
    BY <1>2, <1>4 DEF s

\* The first k bytes, and the n bytes that follow them.
FirstBytes(k) == [i \in 1..k |-> i]
NextBytes(k, n) == [i \in 1..n |-> k + i]

\* Write appends the next n bytes to a stream of k bytes.
LEMMA Appended ==
  ASSUME NEW o \in Seq(Nat), NEW b \in Seq(Nat), NEW k \in Nat, NEW n \in Nat,
         o \o b = FirstBytes(k)
  PROVE  /\ b \o NextBytes(k, n) \in Seq(Nat)
         /\ Len(b \o NextBytes(k, n)) = Len(b) + n
         /\ o \o (b \o NextBytes(k, n)) = FirstBytes(k + n)
  <1> DEFINE s == [i \in 1..k |-> i]
             t == [i \in 1..n |-> k + i]
             u == [i \in 1..(k + n) |-> i]
  <1>1. t \in Seq(Nat) /\ Len(t) = n
    BY Bytes
  <1>2. s \in Seq(Nat) /\ Len(s) = k
    <2>1. s = [i \in 1..k |-> 0 + i]
      OBVIOUS
    <2>2. [i \in 1..k |-> 0 + i] \in Seq(Nat) /\ Len([i \in 1..k |-> 0 + i]) = k
      BY Bytes
    <2> HIDE DEF s
    <2> QED
      BY <2>1, <2>2
  <1>3. u \in Seq(Nat) /\ Len(u) = k + n
    <2>1. u = [i \in 1..(k + n) |-> 0 + i]
      OBVIOUS
    <2>2. [i \in 1..(k + n) |-> 0 + i] \in Seq(Nat) /\ Len([i \in 1..(k + n) |-> 0 + i]) = k + n
      <3>1. k + n \in Nat
        OBVIOUS
      <3> HIDE DEF s, t, u
      <3> QED
        BY <3>1, Bytes
    <2> HIDE DEF u
    <2> QED
      BY <2>1, <2>2
  <1>4. \A i \in 1..k : s[i] = i
    OBVIOUS
  <1>5. \A i \in 1..n : t[i] = k + i
    OBVIOUS
  <1>6. \A i \in 1..(k + n) : u[i] = i
    OBVIOUS
  <1>7. o \o b = s
    BY DEF FirstBytes
  <1> HIDE DEF s, t, u
  <1>8. /\ s \o t \in Seq(Nat) /\ Len(s \o t) = k + n
        /\ \A i \in 1..(k + n) : (s \o t)[i] = IF i <= k THEN s[i] ELSE t[i - k]
    <2>1. /\ s \o t \in Seq(Nat) /\ Len(s \o t) = Len(s) + Len(t)
          /\ \A i \in 1..(Len(s) + Len(t)) : (s \o t)[i] = IF i <= Len(s) THEN s[i] ELSE t[i - Len(s)]
      BY ONLY <1>1, <1>2, ConcatProperties, Zenon
    <2> QED
      BY <1>1, <1>2, <2>1, Zenon
  <1>9. ASSUME NEW i \in 1..(k + n)
        PROVE  (s \o t)[i] = u[i]
    <2> DEFINE v == s \o t
    <2>1. v[i] = IF i <= k THEN s[i] ELSE t[i - k]
      BY <1>8, Zenon
    <2> HIDE DEF v
    <2> SUFFICES v[i] = u[i]
      BY DEF v
    <2>2. CASE i <= k
      BY <1>4, <1>6, <2>1, <2>2
    <2>3. CASE ~(i <= k)
      <3>1. i - k \in 1..n /\ k + (i - k) = i
        BY <2>3
      <3>2. t[i - k] = i
        BY <1>5, <3>1
      <3> QED
        BY <1>6, <2>1, <2>3, <3>2
    <2> QED
      BY <2>2, <2>3, Zenon DEF v
  <1>10. s \o t = u
    BY <1>3, <1>8, <1>9, SeqEqual, Zenon
  <1>11. o \o (b \o t) = u
    <2>1. (o \o b) \o t = o \o (b \o t)
      <3> HIDE DEF t
      <3>1. t \in Seq(Nat)
        BY <1>1
      <3> QED
        BY ONLY <3>1, o \in Seq(Nat), b \in Seq(Nat), ConcatAssociative, SMTT(30)
    <2> QED
      BY <1>7, <1>10, <2>1, Zenon
  <1>12. b \o t \in Seq(Nat) /\ Len(b \o t) = Len(b) + n
    BY <1>1, ConcatProperties, Zenon
  <1> QED
    BY <1>11, <1>12, Zenon DEF t, u, FirstBytes, NextBytes

(***************************************************************************)
(* The inductive invariant.  A side whose goroutine is inside Wait and not *)
(* awake has the token in its channel as soon as there is a reason to wake *)
(* up: this is what closes the gap between the unlock of Wait and the      *)
(* receive.  After a clean close the writer is out for good, and a reader  *)
(* told so has left nothing in the buffer.                                 *)
(***************************************************************************)
Types ==
  /\ buffer \in Seq(Nat) /\ Len(buffer) <= MaxBufferSize
  /\ closing \in {"no", "clean", "early"} /\ ctxDone \in BOOLEAN
  /\ rdeadline \in Deadlines /\ wdeadline \in Deadlines
  /\ rpc \in {"idle", "lock", "wait"} /\ wpc \in {"idle", "lock", "wait"}
  /\ rlen \in ReadLen \cup {0} /\ todo \in Nat /\ done \in Nat /\ acked \in Nat
  /\ acked + done + todo <= MaxBytes
  /\ out \in Seq(Nat) /\ rerr \in {"nil", "deadline", "closed", "context"}

ReadSide(rt) ==
  /\ rpc = "wait" => CondOK(rt, R, TRUE)
  /\ rpc # "wait" => CondOK(rt, R, FALSE)

WriteSide(wt) ==
  /\ wpc = "wait" => CondOK(wt, W, TRUE)
  /\ wpc # "wait" => CondOK(wt, W, FALSE)

ReaderTold ==
  /\ ReadSide(rTrigger)
  /\ rpc = "wait" /\ Sleepy(rTrigger, R) /\ (buffer # <<>> \/ closed) => rTrigger.token

WriterTold ==
  /\ WriteSide(wTrigger)
  /\ wpc = "wait" /\ Sleepy(wTrigger, W) /\ (Len(buffer) < MaxBufferSize \/ closed) => wTrigger.token

Stream == out \o buffer = [i \in 1..(acked + done) |-> i]

Closing ==
  /\ wpc = "idle" => done = 0 /\ todo = 0
  /\ rerr = "closed" => closed
  /\ closing = "clean" => wpc = "idle"
  /\ closing = "clean" /\ rerr = "closed" => buffer = <<>>

PipeInv == Types /\ ReaderTold /\ WriterTold /\ Stream /\ Closing

(***************************************************************************)
(* The two sides of the pipe, one at a time.                               *)
(***************************************************************************)
\* A side that is sent a Broadcast is told whatever has changed.
LEMMA ReadBroadcast ==
  ASSUME NEW rt, ReadSide(rt), rTrigger' = Broadcast(rt), rpc' = rpc
  PROVE  ReaderTold'
  BY BroadcastOK, Zenon DEF ReadSide, ReaderTold

\* The same for the writer.
LEMMA WriteBroadcast ==
  ASSUME NEW wt, WriteSide(wt), wTrigger' = Broadcast(wt), wpc' = wpc
  PROVE  WriterTold'
  BY BroadcastOK, Zenon DEF WriteSide, WriterTold

\* A side that is not told had nothing new to learn.
LEMMA ReadKept ==
  ASSUME ReaderTold, UNCHANGED <<rTrigger, rpc, closing>>, buffer' # <<>> => buffer # <<>>
  PROVE  ReaderTold'
  BY Zenon DEF ReaderTold, ReadSide, closed

\* The same for the writer.
LEMMA WriteKept ==
  ASSUME WriterTold, UNCHANGED <<wTrigger, wpc, closing>>, Len(buffer') < MaxBufferSize => Len(buffer) < MaxBufferSize
  PROVE  WriterTold'
  BY Zenon DEF WriterTold, WriteSide, closed

\* A side that is not waiting needs nothing.
LEMMA ReadRests ==
  ASSUME NEW rt, CondOK(rt, R, FALSE), rTrigger' = rt, rpc' # "wait"
  PROVE  ReaderTold'
  BY Zenon DEF ReaderTold, ReadSide

\* The same for the writer.
LEMMA WriteRests ==
  ASSUME NEW wt, CondOK(wt, W, FALSE), wTrigger' = wt, wpc' # "wait"
  PROVE  WriterTold'
  BY Zenon DEF WriterTold, WriteSide

\* A side begins to wait when there is a reason to.
LEMMA ReadWaits ==
  ASSUME NEW rt, CondOK(rt, R, FALSE), rTrigger' = WaitEnter(rt), rpc' = "wait",
         buffer' = <<>>, ~closed'
  PROVE  ReaderTold'
  BY EnterOK, Zenon DEF ReaderTold, ReadSide

\* The same for the writer, when the buffer is full.
LEMMA WriteWaits ==
  ASSUME NEW wt, CondOK(wt, W, FALSE), wTrigger' = WaitEnter(wt), wpc' = "wait",
         Len(buffer') = MaxBufferSize, ~closed', MaxBufferSize \in Nat
  PROVE  WriterTold'
  <1>1. ~(Len(buffer') < MaxBufferSize)
    OBVIOUS
  <1>2. CondOK(wTrigger', W, TRUE)
    BY EnterOK, Zenon
  <1> QED
    BY <1>1, <1>2, Zenon DEF WriterTold, WriteSide

\* The select of Wait and the end of the context, for either side.
LEMMA SelectOK ==
  ASSUME NEW c, NEW p, NEW d, CondOK(c, p, TRUE), Entering(c, p),
         \/ CanReceive(c, p) /\ d = Receive(c, p)
         \/ ~CanReceive(c, p) /\ d = Park(c, p)
  PROVE  CondOK(d, p, TRUE) /\ (~Sleepy(d, p) \/ ~c.token)
  BY ReceiveOK, ParkOK, Zenon

\* An entering goroutine has not been woken yet.
LEMMA EnteringSleepy ==
  ASSUME NEW c, NEW p, Entering(c, p)
  PROVE  Sleepy(c, p)
  BY DEF Entering, Sleepy

(***************************************************************************)
(* Read.                                                                   *)
(***************************************************************************)
\* Read takes what the buffer has, up to the length asked for.
LEMMA TakeStep ==
  ASSUME PipeInv, NEW n, n = Least(Len(buffer), rlen),
         out' = out \o SubSeq(buffer, 1, n), buffer' = SubSeq(buffer, n + 1, Len(buffer)),
         ReadReturn("nil"), closing' \in {"no", "clean", "early"}, closing' = "clean" => closing = "clean",
         UNCHANGED <<dlVars, wVars>>
  PROVE  Types' /\ Stream' /\ Closing'
  <1>1. out \in Seq(Nat) /\ buffer \in Seq(Nat) /\ Len(buffer) \in Nat /\ rlen \in Nat
    BY PipeAssumption, LenProperties DEF PipeInv, Types
  <1>2. n \in 0..Len(buffer)
    BY <1>1 DEF Least
  <1>3. /\ out' \in Seq(Nat) /\ buffer' \in Seq(Nat) /\ Len(buffer') <= Len(buffer)
        /\ out' \o buffer' = out \o buffer
    BY <1>1, <1>2, Taken, Zenon
  <1>4. Len(buffer') \in Nat
    BY <1>3, LenProperties
  <1>5. Len(buffer') <= MaxBufferSize
    BY <1>1, <1>3, <1>4, PipeAssumption DEF PipeInv, Types
  <1>6. Types'
    BY <1>3, <1>5, Zenon DEF PipeInv, Types, ReadReturn, dlVars, wVars
  <1>7. Stream'
    BY <1>3, Zenon DEF PipeInv, Stream, wVars
  <1>8. Closing'
    BY DEF PipeInv, Closing, ReadReturn, wVars
  <1> QED
    BY <1>6, <1>7, <1>8

\* Read returns without data, or goes on.
LEMMA ReadFrame ==
  ASSUME PipeInv, UNCHANGED <<buffer, out, dlVars, wVars>>,
         rpc' \in {"idle", "lock", "wait"}, rlen' \in ReadLen \cup {0}, rerr' \in {"nil", "deadline", "closed", "context"},
         closing' \in {"no", "clean", "early"}, closing' = "clean" => closing = "clean",
         closing # "no" => closing' = closing,
         rerr' # rerr /\ rerr' = "closed" => closed' /\ buffer = <<>>
  PROVE  Types' /\ Stream' /\ Closing'
  <1>1. Types'
    BY DEF PipeInv, Types, dlVars, wVars
  <1>2. Stream'
    BY DEF PipeInv, Stream, wVars
  <1>3. Closing'
    BY DEF PipeInv, Closing, wVars, closed
  <1> QED
    BY <1>1, <1>2, <1>3

\* Read: the check before the lock.
LEMMA ReadInv ==
  ASSUME PipeInv, NEW n \in ReadLen, Read(n)
  PROVE  PipeInv'
  <1>1. /\ UNCHANGED <<buffer, closing, rTrigger, wTrigger, dlVars, wVars, out>>
        /\ rpc = "idle" /\ rpc' \in {"idle", "lock"} /\ rlen' \in ReadLen \cup {0}
        /\ rerr' \in {"deadline", rerr}
    BY DEF Read, condVars, PipeInv, Types
  <1>2. Types' /\ Stream' /\ Closing'
    BY <1>1, ReadFrame DEF PipeInv, Types
  <1>3. ReaderTold'
    BY <1>1, ReadRests, Zenon DEF PipeInv, ReaderTold, ReadSide
  <1>4. WriterTold'
    BY <1>1, WriteKept DEF PipeInv, wVars
  <1> QED
    BY <1>2, <1>3, <1>4 DEF PipeInv

\* The loop of Read, entered with the lock.
LEMMA ReadLoopInv ==
  ASSUME PipeInv, NEW rt, NEW err, CondOK(rt, R, FALSE), ReadLoop(rt, err), UNCHANGED <<dlVars, wVars>>,
         err \in {"nil", "deadline", "closed"}, err = "nil" => ~closed, err = "closed" => closed
  PROVE  PipeInv'
  <1>1. CASE buffer # <<>> /\ ReadTake(rt)
    <2>1. Types' /\ Stream' /\ Closing'
      BY <1>1, TakeStep, Zenon DEF ReadTake, PipeInv, Types
    <2>2. ReaderTold'
      BY <1>1, ReadRests, Zenon DEF ReadTake, ReadReturn
    <2>3. WriterTold'
      BY <1>1, WriteBroadcast, Zenon DEF ReadTake, PipeInv, WriterTold, wVars
    <2> QED
      BY <2>1, <2>2, <2>3 DEF PipeInv
  <1>2. CASE buffer = <<>> /\ ~(buffer # <<>> /\ ReadTake(rt))
    <2>1. /\ UNCHANGED <<buffer, closing, out, wTrigger>>
          /\ IF err = "nil"
             THEN rpc' = "wait" /\ rTrigger' = WaitEnter(rt) /\ UNCHANGED <<rlen, rerr>>
             ELSE ReadReturn(err) /\ rTrigger' = rt
      BY <1>2 DEF ReadLoop
    <2>2. WriterTold'
      BY <2>1, WriteKept DEF PipeInv, wVars
    <2>3. CASE err = "nil"
      <3>1. ~closed
        BY <2>3
      <3>2. ReaderTold'
        BY <1>2, <2>1, <2>3, <3>1, ReadWaits, Zenon DEF closed
      <3>3. Types' /\ Stream' /\ Closing'
        BY <2>1, <2>3, ReadFrame DEF PipeInv, Types
      <3> QED
        BY <2>2, <3>2, <3>3 DEF PipeInv
    <2>4. CASE err # "nil"
      <3>1. err \in {"deadline", "closed"} /\ (err = "closed" => closed)
        BY <2>4
      <3>2. ReaderTold'
        BY <2>1, <2>4, ReadRests, Zenon DEF ReadReturn
      <3>3. Types' /\ Stream' /\ Closing'
        BY <1>2, <2>1, <2>4, <3>1, ReadFrame DEF PipeInv, Types, ReadReturn, closed
      <3> QED
        BY <2>2, <3>2, <3>3 DEF PipeInv
    <2> QED
      BY <2>3, <2>4
  <1> QED
    BY <1>1, <1>2 DEF ReadLoop

\* Read, once it has the lock.
LEMMA ReadLockedInv ==
  ASSUME PipeInv, ReadLocked
  PROVE  PipeInv'
  <1>1. /\ ReadLoop(rTrigger, waitError(rdeadline)) /\ UNCHANGED <<dlVars, wVars>>
        /\ CondOK(rTrigger, R, FALSE)
    BY Zenon DEF ReadLocked, PipeInv, ReaderTold, ReadSide
  <1>2. /\ waitError(rdeadline) \in {"nil", "deadline", "closed"}
        /\ waitError(rdeadline) = "nil" => ~closed
        /\ waitError(rdeadline) = "closed" => closed
    BY DEF waitError
  <1> QED
    BY <1>1, <1>2, ReadLoopInv, Zenon

\* A reader that was woken holds the lock again.
LEMMA ReadWokenInv ==
  ASSUME PipeInv, ReadWoken
  PROVE  PipeInv'
  <1>1. UNCHANGED <<dlVars, wVars>> /\ CondOK(rTrigger, R, TRUE)
    BY Zenon DEF ReadWoken, PipeInv, ReaderTold, ReadSide
  <1>2. CASE R \in rTrigger.ready /\ ReadLoop(WaitLeave(rTrigger, R), wokenError(rdeadline))
    <2>1. CondOK(WaitLeave(rTrigger, R), R, FALSE)
      BY <1>1, <1>2, LeaveOK, Zenon DEF Sleepy
    <2>2. /\ wokenError(rdeadline) \in {"nil", "deadline", "closed"}
          /\ wokenError(rdeadline) = "nil" => ~closed
          /\ wokenError(rdeadline) = "closed" => closed
      BY DEF wokenError
    <2> QED
      BY <1>1, <1>2, <2>1, <2>2, ReadLoopInv, Zenon
  <1>3. CASE R \in rTrigger.failed /\ ~(R \in rTrigger.ready /\ ReadLoop(WaitLeave(rTrigger, R), wokenError(rdeadline)))
    <2> DEFINE rt == WaitLeave(rTrigger, R)
               rt2 == IF closed THEN rt ELSE Broadcast(rt)
               wt2 == IF closed THEN wTrigger ELSE Broadcast(wTrigger)
               n == Least(Len(buffer), rlen)
    <2>1. CondOK(rt, R, FALSE)
      BY <1>1, <1>3, LeaveOK, Zenon DEF Sleepy
    <2>2. CondOK(rt2, R, FALSE)
      BY <2>1, BroadcastOK, Zenon
    <2>3. WriteSide(wTrigger)
      BY DEF PipeInv, WriterTold
    <2>4. WriteSide(wt2)
      BY <2>3, BroadcastOK, Zenon DEF WriteSide
    <2>5. /\ closing' = (IF closed THEN closing ELSE "early") /\ rTrigger' = rt2
          /\ IF buffer = <<>>
             THEN ReadReturn("context") /\ wTrigger' = wt2 /\ UNCHANGED <<buffer, out>>
             ELSE /\ out' = out \o SubSeq(buffer, 1, n)
                  /\ buffer' = SubSeq(buffer, n + 1, Len(buffer))
                  /\ wTrigger' = Broadcast(wt2)
                  /\ ReadReturn("nil")
      BY <1>3, Zenon DEF ReadWoken
    <2> HIDE DEF rt2, n
    <2>6. ReaderTold'
      BY <2>2, <2>5, ReadRests, Zenon DEF ReadReturn
    <2>7. /\ closing' \in {"no", "clean", "early"}
          /\ closing' = "clean" => closing = "clean"
          /\ closing # "no" => closing' = closing
      BY <2>5 DEF PipeInv, Types, closed
    <2>8. wpc' = wpc
      BY <1>1 DEF wVars
    <2>9. CASE buffer = <<>>
      <3>1. ReadReturn("context") /\ wTrigger' = wt2 /\ UNCHANGED <<buffer, out>>
        BY <2>5, <2>9
      <3>2. Types' /\ Stream' /\ Closing'
        BY <1>1, <2>7, <3>1, ReadFrame DEF ReadReturn, PipeInv, Types
      <3>3. WriterTold'
        <4>1. CASE closed
          BY <2>5, <2>8, <3>1, <4>1, WriteKept DEF PipeInv
        <4>2. CASE ~closed
          BY <2>3, <2>8, <3>1, <4>2, WriteBroadcast
        <4> QED
          BY <4>1, <4>2
      <3> QED
        BY <2>6, <3>2, <3>3 DEF PipeInv
    <2>10. CASE buffer # <<>>
      <3> HIDE DEF wt2
      <3>1. Types' /\ Stream' /\ Closing'
        BY <1>1, <2>5, <2>7, <2>10, TakeStep, Zenon DEF n
      <3>2. WriterTold'
        BY <2>4, <2>5, <2>8, <2>10, WriteBroadcast
      <3> QED
        BY <2>6, <3>1, <3>2 DEF PipeInv
    <2> QED
      BY <2>9, <2>10
  <1> QED
    BY <1>2, <1>3 DEF ReadWoken

\* A reader inside Wait receives, parks, or sees that the context ended.
LEMMA ReadSelectInv ==
  ASSUME PipeInv, ReadSelect \/ ReadExpire
  PROVE  PipeInv'
  <1>1. /\ rpc = "wait" /\ CondOK(rTrigger, R, TRUE)
        /\ UNCHANGED <<buffer, closing, wTrigger, dlVars, rVars, wVars>>
    BY Zenon DEF ReadSelect, ReadExpire, PipeInv, ReaderTold, ReadSide
  <1>2. Types' /\ Stream' /\ Closing'
    BY <1>1, ReadFrame DEF rVars, PipeInv, Types
  <1>3. WriterTold'
    BY <1>1, WriteKept DEF PipeInv, wVars
  <1>4. CASE ReadSelect
    <2>1. CondOK(rTrigger', R, TRUE) /\ (~Sleepy(rTrigger', R) \/ ~rTrigger.token) /\ Sleepy(rTrigger, R)
      BY <1>1, <1>4, SelectOK, EnteringSleepy, Zenon DEF ReadSelect, SelectStep
    <2>2. rTrigger.token \/ ~(buffer # <<>> \/ closed)
      BY <1>1, <2>1 DEF PipeInv, ReaderTold
    <2>3. ReaderTold'
      BY <1>1, <2>1, <2>2, Zenon DEF ReaderTold, ReadSide, rVars, closed
    <2> QED
      BY <1>2, <1>3, <2>3 DEF PipeInv
  <1>5. CASE ReadExpire
    <2>1. CondOK(rTrigger', R, TRUE) /\ ~Sleepy(rTrigger', R)
      BY <1>1, <1>5, ExpireOK, Zenon DEF ReadExpire, ExpireStep, Sleepy
    <2>2. ReaderTold'
      BY <1>1, <2>1, Zenon DEF ReaderTold, ReadSide, rVars
    <2> QED
      BY <1>2, <1>3, <2>2 DEF PipeInv
  <1> QED
    BY <1>4, <1>5

(***************************************************************************)
(* Write.                                                                  *)
(***************************************************************************)
\* Write: the checks before the lock.
LEMMA WriteInv ==
  ASSUME PipeInv, NEW n \in WriteLen, Write(n)
  PROVE  PipeInv'
  <1>1. UNCHANGED <<buffer, closing, rTrigger, wTrigger, dlVars, rVars>> /\ wpc = "idle" /\ acked + n <= MaxBytes
    BY DEF Write, condVars
  <1>2. ReaderTold'
    BY <1>1, ReadKept DEF PipeInv, rVars
  <1>3. CASE UNCHANGED wVars
    BY <1>1, <1>2, <1>3, ReadFrame, WriteKept DEF PipeInv, Types, rVars, wVars
  <1>4. CASE ~closed /\ wpc' = "lock" /\ todo' = n /\ done' = 0 /\ UNCHANGED acked
    <2>1. n \in Nat /\ done = 0 /\ acked \in Nat
      BY <1>1, PipeAssumption DEF PipeInv, Closing, Types
    <2>2. acked' + done' + todo' <= MaxBytes
      BY <1>1, <1>4, <2>1
    <2>3. Types'
      BY <1>1, <1>4, <2>1, <2>2 DEF PipeInv, Types, dlVars, rVars
    <2>4. Stream'
      BY <1>1, <1>4, <2>1 DEF PipeInv, Stream, rVars
    <2>5. Closing'
      BY <1>1, <1>4 DEF PipeInv, Closing, rVars, closed
    <2>6. WriterTold'
      BY <1>1, <1>4, WriteRests, Zenon DEF PipeInv, WriterTold, WriteSide
    <2> QED
      BY <1>2, <2>3, <2>4, <2>5, <2>6 DEF PipeInv
  <1> QED
    BY <1>3, <1>4 DEF Write

\* The loop of Write appends what fits, then returns or waits for room.
LEMMA WriteLoopInv ==
  ASSUME PipeInv, NEW wt, CondOK(wt, W, FALSE), wpc # "idle", WriteLoop(wt), UNCHANGED <<dlVars, rVars>>
  PROVE  PipeInv'
  <1> DEFINE n == Least(todo, MaxBufferSize - Len(buffer))
             k == acked + done
  <1>1. /\ buffer' = buffer \o NextBytes(k, n)
        /\ rTrigger' = IF n > 0 THEN Broadcast(rTrigger) ELSE rTrigger
        /\ IF n = todo \/ waitError(wdeadline) # "nil"
           THEN WriteReturn(done + n) /\ wTrigger' = wt
           ELSE /\ wpc' = "wait" /\ todo' = todo - n /\ done' = done + n
                /\ wTrigger' = WaitEnter(wt)
                /\ UNCHANGED acked
        /\ UNCHANGED closing
    BY DEF WriteLoop, NextBytes
  <1>2. /\ out \in Seq(Nat) /\ buffer \in Seq(Nat) /\ Len(buffer) \in Nat /\ Len(buffer) <= MaxBufferSize
        /\ todo \in Nat /\ done \in Nat /\ acked \in Nat /\ MaxBufferSize \in Nat /\ MaxBytes \in Nat
        /\ acked + done + todo <= MaxBytes
    BY PipeAssumption, LenProperties DEF PipeInv, Types
  <1>3. n \in Nat /\ n <= todo /\ n <= MaxBufferSize - Len(buffer) /\ k \in Nat
    BY <1>2 DEF Least
  <1>4. n # todo => n = MaxBufferSize - Len(buffer)
    BY <1>2 DEF Least
  <1>5. out \o buffer = FirstBytes(k)
    BY DEF PipeInv, Stream, FirstBytes
  <1> HIDE DEF n, k
  <1>6. /\ buffer' \in Seq(Nat) /\ Len(buffer') = Len(buffer) + n
        /\ out \o buffer' = FirstBytes(k + n)
    <2>1. /\ buffer \o NextBytes(k, n) \in Seq(Nat)
          /\ Len(buffer \o NextBytes(k, n)) = Len(buffer) + n
          /\ out \o (buffer \o NextBytes(k, n)) = FirstBytes(k + n)
      <3>1. out \in Seq(Nat) /\ buffer \in Seq(Nat) /\ k \in Nat /\ n \in Nat
        BY <1>2, <1>3
      <3> QED
        BY ONLY <1>5, <3>1, Appended, ZenonT(30)
    <2> QED
      BY <1>1, <2>1, Zenon
  <1>7. acked' + done' = k + n /\ acked' \in Nat /\ done' \in Nat /\ todo' \in Nat
    <2>1. \/ acked' = acked + (done + n) /\ done' = 0 /\ todo' = 0
          \/ acked' = acked /\ done' = done + n /\ todo' = todo - n
      BY <1>1 DEF WriteReturn
    <2> QED
      BY <1>2, <1>3, <2>1 DEF k
  <1>8. acked' + done' + todo' <= MaxBytes
    <2>1. todo' = 0 \/ todo' = todo - n
      BY <1>1 DEF WriteReturn
    <2>2. k + n + todo' <= MaxBytes
      BY <1>2, <1>3, <2>1 DEF k
    <2> QED
      BY <1>7, <2>2
  <1>9. Len(buffer') <= MaxBufferSize
    BY <1>2, <1>3, <1>6
  <1>10. wpc' \in {"idle", "wait"}
    BY <1>1 DEF WriteReturn
  <1>11. Types'
    BY <1>1, <1>6, <1>7, <1>8, <1>9, <1>10 DEF PipeInv, Types, dlVars, rVars
  <1>12. Stream'
    BY <1>6, <1>7 DEF Stream, FirstBytes, rVars
  <1>13. closing # "clean"
    BY DEF PipeInv, Closing
  <1>14. wpc' = "idle" => done' = 0 /\ todo' = 0
    BY <1>1 DEF WriteReturn
  <1>15. Closing'
    BY <1>1, <1>13, <1>14 DEF PipeInv, Closing, rVars, closed
  <1>16. ReaderTold'
    <2>1. CASE n > 0
      BY <1>1, <2>1, ReadBroadcast DEF PipeInv, ReaderTold, rVars
    <2>2. CASE ~(n > 0)
      <3>1. Len(buffer') = Len(buffer)
        BY <1>2, <1>3, <1>6, <2>2
      <3>2. buffer' # <<>> => buffer # <<>>
        BY <1>6, <3>1, EmptySeq
      <3> QED
        BY <1>1, <2>2, <3>2, ReadKept DEF PipeInv, rVars
    <2> QED
      BY <2>1, <2>2
  <1>17. WriterTold'
    <2>1. CASE n = todo \/ waitError(wdeadline) # "nil"
      BY <1>1, <2>1, WriteRests, Zenon DEF WriteReturn
    <2>2. CASE ~(n = todo \/ waitError(wdeadline) # "nil")
      <3>1. ~closed
        BY <2>2 DEF waitError
      <3>2. Len(buffer') = MaxBufferSize
        BY <1>2, <1>4, <1>6, <2>2
      <3> QED
        BY <1>1, <1>2, <2>2, <3>1, <3>2, WriteWaits, Zenon DEF closed
    <2> QED
      BY <2>1, <2>2
  <1> QED
    BY <1>11, <1>12, <1>15, <1>16, <1>17 DEF PipeInv

\* Write, once it has the lock.
LEMMA WriteLockedInv ==
  ASSUME PipeInv, WriteLocked
  PROVE  PipeInv'
  BY WriteLoopInv, Zenon DEF WriteLocked, PipeInv, WriterTold, WriteSide

\* Write gives up after n = done bytes.
LEMMA WriteGivesUp ==
  ASSUME PipeInv, wpc # "idle", WriteReturn(done), UNCHANGED <<buffer, dlVars, rVars>>,
         closing' \in {"no", "early"}, closing # "no" => closing' = closing
  PROVE  Types' /\ Stream' /\ Closing'
  <1>1. /\ todo \in Nat /\ done \in Nat /\ acked \in Nat /\ MaxBytes \in Nat
        /\ acked + done + todo <= MaxBytes
    BY PipeAssumption DEF PipeInv, Types
  <1>2. /\ wpc' = "idle" /\ todo' = 0 /\ done' = 0 /\ acked' = acked + done
    BY DEF WriteReturn
  <1>3. acked' \in Nat /\ acked' + done' + todo' <= MaxBytes /\ acked' + done' = acked + done
    BY <1>1, <1>2
  <1>4. Types'
    BY <1>2, <1>3 DEF PipeInv, Types, dlVars, rVars
  <1>5. Stream'
    BY <1>3 DEF PipeInv, Stream, rVars
  <1>6. Closing'
    BY <1>2 DEF PipeInv, Closing, rVars, closed
  <1> QED
    BY <1>4, <1>5, <1>6

\* A writer that was woken holds the lock again.
LEMMA WriteWokenInv ==
  ASSUME PipeInv, WriteWoken
  PROVE  PipeInv'
  <1> DEFINE wt == WaitLeave(wTrigger, W)
  <1>1. UNCHANGED <<dlVars, rVars>> /\ CondOK(wTrigger, W, TRUE) /\ wpc = "wait"
    BY Zenon DEF WriteWoken, PipeInv, WriterTold, WriteSide
  <1>2. W \in wTrigger.ready \cup wTrigger.failed
    BY DEF WriteWoken
  <1>3. CondOK(wt, W, FALSE)
    BY <1>1, <1>2, LeaveOK, Zenon DEF Sleepy
  <1>4. closing \in {"no", "early"}
    BY <1>1 DEF PipeInv, Closing, Types
  <1> HIDE DEF wt
  <1>5. CASE WriteLoop(wt)
    BY <1>1, <1>3, <1>5, WriteLoopInv, Zenon
  <1>6. CASE WriteReturn(done) /\ wTrigger' = wt /\ UNCHANGED <<buffer, closing, rTrigger>>
    <2>1. Types' /\ Stream' /\ Closing'
      BY <1>1, <1>4, <1>6, WriteGivesUp
    <2>2. ReaderTold'
      BY <1>1, <1>6, ReadKept DEF PipeInv, rVars
    <2>3. WriterTold'
      BY <1>3, <1>6, WriteRests, Zenon DEF WriteReturn
    <2> QED
      BY <2>1, <2>2, <2>3 DEF PipeInv
  <1>7. CASE /\ WriteReturn(done)
             /\ closing' = IF closed THEN closing ELSE "early"
             /\ rTrigger' = IF closed THEN rTrigger ELSE Broadcast(rTrigger)
             /\ wTrigger' = IF closed THEN wt ELSE Broadcast(wt)
             /\ UNCHANGED buffer
    <2>1. closing' \in {"no", "early"} /\ (closing # "no" => closing' = closing)
      BY <1>4, <1>7 DEF closed
    <2>2. Types' /\ Stream' /\ Closing'
      BY <1>1, <1>7, <2>1, WriteGivesUp
    <2>3. ReaderTold'
      <3>1. CASE closed
        BY <1>1, <1>7, <3>1, ReadKept DEF PipeInv, rVars
      <3>2. CASE ~closed
        BY <1>1, <1>7, <3>2, ReadBroadcast DEF PipeInv, ReaderTold, rVars
      <3> QED
        BY <3>1, <3>2
    <2>4. CondOK(wTrigger', W, FALSE)
      BY <1>3, <1>7, BroadcastOK, Zenon
    <2>5. WriterTold'
      BY <1>7, <2>4, Zenon DEF WriteReturn, WriterTold, WriteSide
    <2> QED
      BY <2>2, <2>3, <2>5 DEF PipeInv
  <1> QED
    BY <1>5, <1>6, <1>7 DEF WriteWoken, wt

\* A writer inside Wait receives, parks, or sees that the context ended.
LEMMA WriteSelectInv ==
  ASSUME PipeInv, WriteSelect \/ WriteExpire
  PROVE  PipeInv'
  <1>1. /\ wpc = "wait" /\ CondOK(wTrigger, W, TRUE)
        /\ UNCHANGED <<buffer, closing, rTrigger, dlVars, rVars, wVars>>
    BY Zenon DEF WriteSelect, WriteExpire, PipeInv, WriterTold, WriteSide
  <1>2. Types' /\ Stream' /\ Closing'
    BY <1>1, ReadFrame DEF rVars, PipeInv, Types
  <1>3. ReaderTold'
    BY <1>1, ReadKept DEF PipeInv, rVars
  <1>4. CASE WriteSelect
    <2>1. CondOK(wTrigger', W, TRUE) /\ (~Sleepy(wTrigger', W) \/ ~wTrigger.token) /\ Sleepy(wTrigger, W)
      BY <1>1, <1>4, SelectOK, EnteringSleepy, Zenon DEF WriteSelect, SelectStep
    <2>2. wTrigger.token \/ ~(Len(buffer) < MaxBufferSize \/ closed)
      BY <1>1, <2>1 DEF PipeInv, WriterTold
    <2>3. WriterTold'
      BY <1>1, <2>1, <2>2, Zenon DEF WriterTold, WriteSide, wVars, closed
    <2> QED
      BY <1>2, <1>3, <2>3 DEF PipeInv
  <1>5. CASE WriteExpire
    <2>1. CondOK(wTrigger', W, TRUE) /\ ~Sleepy(wTrigger', W)
      BY <1>1, <1>5, ExpireOK, Zenon DEF WriteExpire, ExpireStep, Sleepy
    <2>2. WriterTold'
      BY <1>1, <2>1, Zenon DEF WriterTold, WriteSide, wVars
    <2> QED
      BY <1>2, <1>3, <2>2 DEF PipeInv
  <1> QED
    BY <1>4, <1>5

(***************************************************************************)
(* Close, the deadlines and the context.                                   *)
(***************************************************************************)
LEMMA CloseInv ==
  ASSUME PipeInv, Close
  PROVE  PipeInv'
  <1>1. /\ ~closed /\ closing' = (IF wpc = "idle" THEN "clean" ELSE "early")
        /\ rTrigger' = Broadcast(rTrigger) /\ wTrigger' = Broadcast(wTrigger)
        /\ UNCHANGED <<buffer, dlVars, rVars, wVars>>
    BY DEF Close
  <1>2. Types'
    BY <1>1 DEF PipeInv, Types, dlVars, rVars, wVars
  <1>3. Stream'
    BY <1>1 DEF PipeInv, Stream, rVars, wVars
  <1>4. rerr # "closed"
    BY <1>1 DEF PipeInv, Closing
  <1>5. Closing'
    BY <1>1, <1>4 DEF PipeInv, Closing, rVars, wVars
  <1>6. ReaderTold'
    BY <1>1, ReadBroadcast DEF PipeInv, ReaderTold, rVars
  <1>7. WriterTold'
    BY <1>1, WriteBroadcast DEF PipeInv, WriterTold, wVars
  <1> QED
    BY <1>2, <1>3, <1>5, <1>6, <1>7 DEF PipeInv

\* Steps that touch no data: they set deadlines, let time pass or end the context.
LEMMA DeadlineInv ==
  ASSUME PipeInv, UNCHANGED <<buffer, closing, rVars, wVars>>,
         rdeadline' \in Deadlines, wdeadline' \in Deadlines, ctxDone' \in BOOLEAN,
         rTrigger' \in {rTrigger, Broadcast(rTrigger)}, wTrigger' \in {wTrigger, Broadcast(wTrigger)}
  PROVE  PipeInv'
  <1>1. Types'
    BY DEF PipeInv, Types, rVars, wVars
  <1>2. Stream'
    BY DEF PipeInv, Stream, rVars, wVars
  <1>3. Closing'
    BY DEF PipeInv, Closing, rVars, wVars, closed
  <1>4. ReaderTold'
    BY ReadBroadcast, ReadKept DEF PipeInv, ReaderTold, rVars
  <1>5. WriterTold'
    BY WriteBroadcast, WriteKept DEF PipeInv, WriterTold, wVars
  <1> QED
    BY <1>1, <1>2, <1>3, <1>4, <1>5 DEF PipeInv

\* A new pipe is empty and open.
LEMMA InitInv == Init => PipeInv
  <1> SUFFICES ASSUME Init PROVE PipeInv
    OBVIOUS
  <1>1. <<>> \in Seq(Nat) /\ Len(<<>>) = 0
    BY EmptySeq
  <1>2. Types
    <2>1. Len(buffer) <= MaxBufferSize /\ acked + done + todo <= MaxBytes
      BY <1>1, PipeAssumption DEF Init
    <2> QED
      BY <1>1, <2>1, Zenon DEF Init, Types, Deadlines
  <1>3. Stream
    <2>1. acked + done = 0 /\ 1..0 = {} /\ out \o buffer = <<>>
      BY DEF Init
    <2>2. [i \in 1..0 |-> i] = <<>>
      OBVIOUS
    <2> QED
      BY <2>1, <2>2 DEF Stream
  <1>4. Closing
    BY DEF Init, Closing
  <1>5. ASSUME NEW p
        PROVE  CondOK(NewCond, p, FALSE)
    BY DEF NewCond, CondOK, CondType
  <1>6. ReaderTold /\ WriterTold
    BY <1>5, Zenon DEF Init, ReaderTold, WriterTold, ReadSide, WriteSide
  <1> QED
    BY <1>2, <1>3, <1>4, <1>6 DEF PipeInv

\* Every step preserves the invariant.
LEMMA NextInv == PipeInv /\ [Next]_vars => PipeInv'
  <1> SUFFICES ASSUME PipeInv, [Next]_vars PROVE PipeInv'
    OBVIOUS
  <1>1. rdeadline \in Deadlines /\ wdeadline \in Deadlines /\ ctxDone \in BOOLEAN
    BY DEF PipeInv, Types
  <1>2. CASE UNCHANGED vars
    BY <1>1, <1>2, DeadlineInv DEF vars, condVars, dlVars
  <1>3. ASSUME NEW t \in Deadlines, SetReadDeadline(t) \/ SetWriteDeadline(t) \/ SetDeadline(t)
        PROVE  PipeInv'
    BY <1>1, <1>3, DeadlineInv DEF SetReadDeadline, SetWriteDeadline, SetDeadline
  <1>4. CASE DeadlinePasses
    BY <1>1, <1>4, DeadlineInv DEF DeadlinePasses, condVars, Deadlines
  <1>5. CASE ContextEnds
    BY <1>1, <1>5, DeadlineInv DEF ContextEnds, condVars
  <1> QED
    BY <1>2, <1>3, <1>4, <1>5, ReadInv, ReadLockedInv, ReadSelectInv, ReadWokenInv,
       WriteInv, WriteLockedInv, WriteSelectInv, WriteWokenInv, CloseInv DEF Next

(***************************************************************************)
(* Spec implies that StreamIntact always holds: for any buffer size and    *)
(* any lengths of calls, the bytes read and those in the buffer are        *)
(* exactly those that Write has counted, in order, whatever deadline,      *)
(* close or end of the context cut the calls short; and a reader that is   *)
(* told of a clean close has read them all.                                *)
(***************************************************************************)
THEOREM Intact == Spec => []StreamIntact
  <1>1. PipeInv => StreamIntact
    <2> SUFFICES ASSUME PipeInv, closing = "clean", rerr = "closed"
                 PROVE  Len(out) = acked
      BY DEF PipeInv, Stream, StreamIntact
    <2>1. buffer = <<>> /\ done = 0 /\ acked \in Nat /\ out \in Seq(Nat)
      BY DEF PipeInv, Closing, Types
    <2>2. out \o buffer = out
      BY <2>1, ConcatEmptySeq
    <2>3. acked + done = acked
      BY <2>1
    <2>4. out = [i \in 1..acked |-> i]
      BY <2>2, <2>3, Zenon DEF PipeInv, Stream
    <2>5. DOMAIN out = 1..acked /\ DOMAIN out = 1..Len(out) /\ Len(out) \in Nat
      BY <2>1, <2>4, LenProperties
    <2> QED
      BY <2>1, <2>5
  <1> QED
    BY <1>1, InitInv, NextInv, PTL DEF Spec

(***************************************************************************)
(* Spec implies that SleepersHaveReason always holds: no wake-up is lost   *)
(* between the unlock inside Wait and the receive, so a parked reader has  *)
(* nothing to read, a parked writer has no room, and the pipe is open.     *)
(***************************************************************************)
THEOREM Reason == Spec => []SleepersHaveReason
  <1>1. PipeInv => SleepersHaveReason
    <2> SUFFICES ASSUME PipeInv PROVE SleepersHaveReason
      OBVIOUS
    <2>1. acked \in 0..MaxBytes
      BY PipeAssumption DEF PipeInv, Types
    <2>2. /\ rTrigger.waiters = (IF rpc = "wait" THEN 1 ELSE 0)
          /\ wTrigger.waiters = (IF wpc = "wait" THEN 1 ELSE 0)
      BY DEF PipeInv, ReaderTold, WriterTold, ReadSide, WriteSide, CondOK
    <2>3. TypeOK
      BY <2>1, <2>2 DEF PipeInv, Types, TypeOK
    <2>4. ASSUME NEW c, NEW p, NEW w, CondOK(c, p, w), p \in Parked(c)
          PROVE  w /\ ~c.token /\ Sleepy(c, p)
      BY <2>4, ParkedIs DEF CondOK, Sleepy
    <2>5. R \in Parked(rTrigger) => buffer = <<>> /\ ~closed
      BY <2>4, Zenon DEF PipeInv, ReaderTold, ReadSide
    <2>6. W \in Parked(wTrigger) => ~(Len(buffer) < MaxBufferSize) /\ ~closed
      BY <2>4, Zenon DEF PipeInv, WriterTold, WriteSide
    <2>7. ~(Len(buffer) < MaxBufferSize) => Len(buffer) = MaxBufferSize
      BY PipeAssumption, LenProperties DEF PipeInv, Types
    <2> QED
      BY <2>3, <2>5, <2>6, <2>7 DEF SleepersHaveReason
  <1> QED
    BY <1>1, InitInv, NextInv, PTL DEF Spec
=============================================================================
