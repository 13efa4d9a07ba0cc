------------------------------ MODULE Blocker ------------------------------
(***************************************************************************)
(* The limit on concurrent users of a key (xlimits/blocker.go).            *)
(*                                                                         *)
(* A key's consumer object holds a semaphore and a usage count; it exists  *)
(* only while goroutines use the key, and a new one is made when the next  *)
(* comes.  take and put run under the lock, each one step.  Acquire and    *)
(* Release work on the semaphore outside the lock.                         *)
(*                                                                         *)
(* The semaphore is golang.org/x/sync/semaphore: first come first served,  *)
(* and a goroutine whose context ends gives back what it may have got.     *)
(***************************************************************************)
EXTENDS Integers, Sequences, FiniteSets

CONSTANTS Caller, Id, MaxConn,
          Obj,   \* identities of consumer objects
          NoObj

ASSUME BlockerAssumption ==
  /\ IsFiniteSet(Caller) /\ Id # {}
  /\ MaxConn \in Nat
  /\ NoObj \notin Obj

VARIABLES consumers, \* the map, NoObj where there is no entry
          usage,     \* usage count of each object
          holders,   \* goroutines each object's semaphore was granted to
          queue,     \* goroutines waiting for it, in order
          pc,        \* "idle", "acquire", "queued", "held", "put"
          cid, cobj  \* key and object of each goroutine that is not idle

semVars == <<holders, queue>>
blockerVars == <<consumers, usage, semVars, pc, cid, cobj>>

BlockerInit ==
  /\ consumers = [i \in Id |-> NoObj]
  /\ usage = [o \in Obj |-> 0]
  /\ holders = [o \in Obj |-> {}]
  /\ queue = [o \in Obj |-> <<>>]
  /\ pc = [p \in Caller |-> "idle"]
  /\ cid = [p \in Caller |-> CHOOSE i \in Id : TRUE]
  /\ cobj = [p \in Caller |-> NoObj]

Goto(p, l) == pc' = [pc EXCEPT ![p] = l]

\* An object nobody refers to: a newly allocated one.
Unreferenced(o) ==
  /\ \A i \in Id : consumers[i] # o
  /\ \A p \in Caller : cobj[p] # o

\* Acquire begins: take.
take(p, i) ==
  /\ pc[p] = "idle"
  /\ cid' = [cid EXCEPT ![p] = i]
  /\ Goto(p, "acquire")
  /\ \/ /\ consumers[i] # NoObj
        /\ cobj' = [cobj EXCEPT ![p] = consumers[i]]
        /\ usage' = [usage EXCEPT ![consumers[i]] = @ + 1]
        /\ UNCHANGED <<consumers, semVars>>
     \/ /\ consumers[i] = NoObj
        /\ \E o \in Obj :
             /\ Unreferenced(o)
             /\ consumers' = [consumers EXCEPT ![i] = o]
             /\ cobj' = [cobj EXCEPT ![p] = o]
             /\ usage' = [usage EXCEPT ![o] = 1]
             /\ holders' = [holders EXCEPT ![o] = {}]
             /\ queue' = [queue EXCEPT ![o] = <<>>]

\* limit.Acquire: granted at once, queued, or given up because the context has
\* ended.  A semaphore of size 0 grants nothing and queues nobody.
TryAcquire(p) ==
  LET o == cobj[p]
  IN  /\ pc[p] = "acquire"
      /\ UNCHANGED <<consumers, usage, cid, cobj>>
      /\ \/ /\ Cardinality(holders[o]) < MaxConn /\ queue[o] = <<>>
            /\ holders' = [holders EXCEPT ![o] = @ \cup {p}]
            /\ UNCHANGED queue
            /\ Goto(p, "held")
         \/ /\ Cardinality(holders[o]) >= MaxConn \/ queue[o] # <<>>
            /\ MaxConn > 0
            /\ queue' = [queue EXCEPT ![o] = Append(@, p)]
            /\ UNCHANGED holders
            /\ Goto(p, "queued")
         \/ UNCHANGED semVars /\ Goto(p, "put")

\* Mutant: the first in the queue is not told.
PassOnForgotten(p, o) == holders' = [holders EXCEPT ![o] = @ \ {p}] /\ UNCHANGED queue

\* The token of p goes to the first in the queue, if there is one.
PassOn(p, o) ==
  IF queue[o] = <<>>
  THEN holders' = [holders EXCEPT ![o] = @ \ {p}] /\ UNCHANGED queue
  ELSE /\ holders' = [holders EXCEPT ![o] = (@ \ {p}) \cup {Head(queue[o])}]
       /\ queue' = [queue EXCEPT ![o] = Tail(@)]

\* A queued goroutine was granted a token, and keeps it or, when its context
\* has ended, passes it on.
Granted(p) ==
  /\ pc[p] = "queued" /\ p \in holders[cobj[p]]
  /\ UNCHANGED <<consumers, usage, cid, cobj>>
  /\ \/ UNCHANGED semVars /\ Goto(p, "held")
     \/ PassOn(p, cobj[p]) /\ Goto(p, "put")

\* Mutant: an Acquire that fails does not put the consumer back.
CancelWithoutPut(p) ==
  /\ pc[p] = "queued" /\ p \notin holders[cobj[p]]
  /\ \E k \in DOMAIN queue[cobj[p]] :
       /\ queue[cobj[p]][k] = p
       /\ queue' = [queue EXCEPT ![cobj[p]] = SubSeq(@, 1, k - 1) \o SubSeq(@, k + 1, Len(@))]
  /\ cobj' = [cobj EXCEPT ![p] = NoObj]
  /\ Goto(p, "idle")
  /\ UNCHANGED <<consumers, usage, holders, cid>>

\* A queued goroutine whose context ends leaves the queue.
Cancel(p) ==
  /\ pc[p] = "queued" /\ p \notin holders[cobj[p]]
  /\ \E k \in DOMAIN queue[cobj[p]] :
       /\ queue[cobj[p]][k] = p
       /\ queue' = [queue EXCEPT ![cobj[p]] = SubSeq(@, 1, k - 1) \o SubSeq(@, k + 1, Len(@))]
  /\ Goto(p, "put")
  /\ UNCHANGED <<consumers, usage, holders, cid, cobj>>

\* Release: first the semaphore, then put.
Release(p) ==
  /\ pc[p] = "held"
  /\ PassOn(p, cobj[p])
  /\ Goto(p, "put")
  /\ UNCHANGED <<consumers, usage, cid, cobj>>

\* Mutant: the consumer is dropped whoever else uses it.
putDropsUsed(p) ==
  /\ pc[p] = "put"
  /\ Goto(p, "idle")
  /\ cobj' = [cobj EXCEPT ![p] = NoObj]
  /\ usage' = [usage EXCEPT ![cobj[p]] = @ - 1]
  /\ consumers' = [consumers EXCEPT ![cid[p]] = NoObj]
  /\ UNCHANGED <<semVars, cid>>

\* put, at the end of Release and of an Acquire that failed.
put(p) ==
  LET o == consumers[cid[p]]
  IN  /\ pc[p] = "put"
      /\ Goto(p, "idle")
      /\ cobj' = [cobj EXCEPT ![p] = NoObj]
      /\ UNCHANGED <<semVars, cid>>
      /\ \/ o = NoObj /\ UNCHANGED <<consumers, usage>>
         \/ /\ o # NoObj
            /\ usage' = [usage EXCEPT ![o] = @ - 1]
            /\ consumers' = IF usage[o] = 1 THEN [consumers EXCEPT ![cid[p]] = NoObj]
                                            ELSE consumers

BlockerNext ==
  \E p \in Caller :
    \/ \E i \in Id : take(p, i)
    \/ TryAcquire(p) \/ Granted(p) \/ Cancel(p) \/ Release(p) \/ put(p)

BlockerSpec == BlockerInit /\ [][BlockerNext]_blockerVars

\* Goroutines go on with what they have begun, and who got in calls Release
\* some day; no context has to end.
BlockerFairSpec ==
  /\ BlockerSpec
  /\ \A p \in Caller : WF_blockerVars(TryAcquire(p)) /\ WF_blockerVars(Granted(p)) /\ WF_blockerVars(Release(p)) /\ WF_blockerVars(put(p))

-----------------------------------------------------------------------------
Users(o) == {p \in Caller : cobj[p] = o}

Inside(i) == {p \in Caller : pc[p] = "held" /\ cid[p] = i}

\* Every variable has its type; in particular put never takes a usage count
\* below zero.
BlockerTypeOK ==
  /\ consumers \in [Id -> Obj \cup {NoObj}]
  /\ usage \in [Obj -> Nat]
  /\ holders \in [Obj -> SUBSET Caller]
  /\ queue \in [Obj -> Seq(Caller)]
  /\ pc \in [Caller -> {"idle", "acquire", "queued", "held", "put"}]
  /\ cid \in [Caller -> Id]
  /\ cobj \in [Caller -> Obj \cup {NoObj}]

\* Never more than maxConn goroutines are between Acquire and Release of the
\* same key, although the key's semaphore is dropped and made anew.
LimitPerId == \A i \in Id : Cardinality(Inside(i)) <= MaxConn

\* The map never loses or keeps a consumer wrongly: everybody who uses a key
\* uses the object in the map, its usage is the number of its users, and an
\* object nobody uses is not in the map.  So put never misses its consumer.
UsageExact ==
  /\ \A p \in Caller : pc[p] # "idle" => cobj[p] # NoObj /\ consumers[cid[p]] = cobj[p]
  /\ \A i \in Id : consumers[i] # NoObj =>
       usage[consumers[i]] = Cardinality(Users(consumers[i])) /\ usage[consumers[i]] > 0

\* A goroutine in the queue gets in or gives up: cancelled waiters and handed
\* over tokens never leave the queue without service.
QueueServed == \A p \in Caller : (pc[p] = "queued") ~> (pc[p] \in {"held", "put"})
=============================================================================
