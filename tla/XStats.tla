------------------------------- MODULE XStats -------------------------------
(***************************************************************************)
(* The traffic counters of sessions (xstats/service.go) over the cache     *)
(* (xcache/cache.go).                                                      *)
(*                                                                         *)
(* ReportStats adds to the session's entry in place, or makes one, under   *)
(* the lock of the session's bucket.  The ticker's goroutine resets the    *)
(* buckets one after the other while reports go on, and then hands what it *)
(* collected to a goroutine that calls onFlush for each session.  The      *)
(* traffic is a number of reports of one unit each; rx and tx, which are   *)
(* added the same way, are not told apart, and the session's data does not *)
(* matter except for the length of its entry.                              *)
(***************************************************************************)
EXTENDS XCache

CONSTANTS Buckets,     \* number of buckets
          BucketOf,    \* bucket of a key
          MaxReports   \* bound on the calls of ReportStats

ASSUME XStatsAssumption == Buckets \in Nat /\ BucketOf \in [Key -> 1 .. Buckets]

VARIABLES bucket,
          run,       \* the ticker's goroutine: the next bucket to reset, and the items so far
          pending,   \* traffic in the goroutines of onEvict, not flushed yet
          flushed,   \* traffic onFlush was called with
          reported,  \* history: traffic reported of the sessions whose entry fits
          wrapped    \* history: buckets whose ring has come round

vars == <<bucket, run, pending, flushed, reported, wrapped>>

IdleRun == [next |-> 0, items |-> {}]

\* The units of traffic of the items, counted
Sum(items) == Cardinality(UNION {{<<i, n>> : n \in 1 .. i.amount} : i \in items})

Init ==
  /\ bucket = [b \in 1 .. Buckets |-> EmptyBucket]
  /\ run = IdleRun
  /\ pending = [k \in Key |-> 0]
  /\ flushed = [k \in Key |-> 0] /\ reported = [k \in Key |-> 0]
  /\ wrapped = {}

\* go onEvict(items): goroutines run in any order, so that only the sums matter.
Spawn(items) == pending' = [k \in Key |-> pending[k] + Sum({i \in items : i.key = k})]

\* Mutant: a report of an entry that exists starts it anew.
AddRxTxReplace(amount) == 1

AddRxTx(amount) == amount + 1

Count(k) ==
  /\ Sum({[key |-> x, amount |-> reported[x]] : x \in Key}) < MaxReports
  /\ reported' = [reported EXCEPT ![k] = @ + 1]

\* The mutator's value for a session that has no entry.
toValue == 1

\* Cache.Update with the mutator of ReportStats, under the bucket's lock.
Update(k) ==
  LET b == bucket[BucketOf[k]]
  IN  /\ UNCHANGED <<run, flushed>>
      /\ \/ /\ Found(b, k)
            /\ Count(k)
            /\ bucket' = [bucket EXCEPT ![BucketOf[k]].at[b.m[Hash[k]].idx].amount = AddRxTx(@)]
            /\ UNCHANGED <<pending, wrapped>>
         \/ /\ ~Found(b, k) /\ Fits(k)
            /\ Count(k)
            /\ \E r \in {setLocked(b, k, toValue)} :
                 /\ bucket' = [bucket EXCEPT ![BucketOf[k]] = r.bucket]
                 /\ Spawn(r.evicted)
            /\ wrapped' = IF Wraps(b, Length[k]) THEN wrapped \cup {BucketOf[k]} ELSE wrapped
         \/ /\ ~Found(b, k) /\ ~Fits(k)
            /\ UNCHANGED <<bucket, pending, reported, wrapped>>

\* ReportStats of one unit; the error of Update is not looked at.
ReportStats(k) == Update(k)

\* Mutant: the ticker is a timer, which fires once.
TickOnce ==
  /\ run.next = 0 /\ \A k \in Key : pending[k] + flushed[k] = 0
  /\ run' = [IdleRun EXCEPT !.next = 1]
  /\ UNCHANGED <<bucket, pending, flushed, reported, wrapped>>

\* The ticker fires: Reset begins.
Tick ==
  /\ run.next = 0
  /\ run' = [IdleRun EXCEPT !.next = 1]
  /\ UNCHANGED <<bucket, pending, flushed, reported, wrapped>>

\* Reset of one bucket, under its lock.
ResetBucket ==
  /\ run.next \in 1 .. Buckets
  /\ run' = [next |-> run.next + 1, items |-> run.items \cup Items(bucket[run.next], Readable(bucket[run.next]))]
  /\ bucket' = [bucket EXCEPT ![run.next] = EmptyBucket]
  /\ UNCHANGED <<pending, flushed, reported, wrapped>>

\* The end of Reset: one goroutine for the items of all buckets.
ResetEnd ==
  /\ run.next = Buckets + 1
  /\ run' = IdleRun
  /\ Spawn(run.items)
  /\ UNCHANGED <<bucket, flushed, reported, wrapped>>

\* onEvict calls onFlush for an item of session k.
onEvict(k) == \E n \in 1 .. pending[k] :
  /\ pending' = [pending EXCEPT ![k] = @ - n]
  /\ flushed' = [flushed EXCEPT ![k] = @ + n]
  /\ UNCHANGED <<bucket, run, reported, wrapped>>

RunStep == Tick \/ ResetBucket \/ ResetEnd

Next == RunStep \/ \E k \in Key : ReportStats(k) \/ onEvict(k)

\* The ticker fires again and again, and the goroutines run to their end.
Spec == Init /\ [][Next]_vars /\ WF_vars(RunStep) /\ (\A k \in Key : WF_vars(onEvict(k)))

(***************************************************************************)
(* Properties                                                              *)
(***************************************************************************)
\* Types: the map's places are in the ring, and the amounts are numbers.
TypeOK ==
  /\ \A b \in 1 .. Buckets :
       /\ bucket[b].idx \in 0 .. ChunkSize * Chunks /\ bucket[b].gen \in 1 .. MaxGen
       /\ \A h \in Slot : bucket[b].m[h] \in [gen : 0 .. MaxGen, idx : Place]
  /\ run.next \in 0 .. Buckets + 1
  /\ flushed \in [Key -> Nat] /\ reported \in [Key -> Nat]

\* What readItem and getLocked accept is an entry of the right hash, all of whose
\* bytes are still the ones written with it, inside one chunk: they never read
\* bytes of another entry, and their answers "corrupted data" never occur.  The map
\* only knows the current generation and the one before it, so that an entry is
\* never taken for a new one when the generation numbers start again.
ReadableIsIntact == TypeOK /\
  \A b \in 1 .. Buckets :
    /\ \A h \in Readable(bucket[b]) :
         LET e == readItem(bucket[b], h)
             i == bucket[b].m[h].idx
         IN  /\ e # NoEntry /\ e.intact /\ Hash[e.key] = h
             /\ i \div ChunkSize = (i + Length[e.key]) \div ChunkSize
    /\ \A h \in Slot :
         LET v == bucket[b].m[h]
         IN  v # Absent => v.gen = bucket[b].gen \/ bucket[b].gen = nextGen(v.gen)

\* What is flushed, on its way to onFlush, or still readable, for session k.
InCache(k) == IF Found(bucket[BucketOf[k]], k) THEN readItem(bucket[BucketOf[k]], Hash[k]).amount ELSE 0
Accounted(k) ==
  flushed[k] + InCache(k) + pending[k] + Sum({i \in run.items : i.key = k})

\* A session keeps its entry if it fits into a chunk, no other has its hash, and
\* the ring of its bucket has not come round.
Lone == {k \in Key : Fits(k) /\ \A x \in Key \ {k} : Hash[x] # Hash[k]}
Kept(k) == k \in Lone /\ BucketOf[k] \notin wrapped

\* No traffic is counted twice, whatever is reset, overwritten or displaced, and
\* between ReportStats and onFlush nothing is lost of a session that keeps its
\* entry, though reports and the resets of the buckets interleave.
TrafficAccounted ==
  \A k \in Key : Accounted(k) <= reported[k] /\ (Kept(k) => Accounted(k) = reported[k])

\* Every report of a session that keeps its entry reaches onFlush in the end.
EventuallyFlushed ==
  \A k \in Lone : \A n \in 1 .. MaxReports :
    (reported[k] >= n) ~> (flushed[k] >= n \/ ~Kept(k))
=============================================================================
