---------------------------- MODULE XStats_proof ----------------------------
(***************************************************************************)
(* Proofs about the cache and the counters of sessions, for any ring, any  *)
(* lengths and hashes of the keys and any number of buckets: what the map  *)
(* of a bucket leads to is intact, and no traffic is counted twice or,     *)
(* before the ring comes round, lost.                                      *)
(*                                                                         *)
(* The first rests on RingInv: an entry of the current generation ends     *)
(* before the place of the next one, and one of the generation before is   *)
(* intact as long as the ring has not come to it; the clean-up at the      *)
(* beginning of a generation drops the others.  The second rests besides   *)
(* on RunInv: a running reset holds one item of a session at most, and     *)
(* none of the sessions of the buckets it has still to reset.              *)
(***************************************************************************)
EXTENDS XStats, FiniteSetTheorems, TLAPS

EntryType == [key : Key \cup {"none"}, amount : Nat, intact : BOOLEAN]
MapType == [gen : 0 .. MaxGen, idx : Place]
BucketType == [m : [Slot -> MapType], at : [Place -> EntryType], idx : Place, gen : 1 .. MaxGen]
ItemType == [key : Key, amount : Nat]

\* What the map says of hash h leads to an intact entry, inside one chunk, of a
\* session of bucket c.
Whole(b, h, c) ==
  /\ b.at[b.m[h].idx].key \in Key
  /\ b.at[b.m[h].idx].intact = TRUE
  /\ Hash[b.at[b.m[h].idx].key] = h
  /\ BucketOf[b.at[b.m[h].idx].key] = c
  /\ b.m[h].idx \div ChunkSize = (b.m[h].idx + Length[b.at[b.m[h].idx].key]) \div ChunkSize

Current(b, h, c) ==
  /\ b.m[h].gen = b.gen
  /\ Whole(b, h, c)
  /\ b.m[h].idx + Length[b.at[b.m[h].idx].key] <= b.idx

Last(b, h, c) ==
  /\ b.m[h].gen \in 1 .. MaxGen
  /\ nextGen(b.m[h].gen) = b.gen
  /\ b.m[h].idx >= b.idx => Whole(b, h, c)

Known(b, h, c) == b.m[h] = Absent \/ Current(b, h, c) \/ Last(b, h, c)

Sound(b, c) == \A h \in Slot : Known(b, h, c)

\* Before its ring comes round, a bucket has entries of one generation.
Young(b) == \A h \in Slot : b.m[h] = Absent \/ b.m[h].gen = b.gen

RingInv ==
  /\ bucket \in [1 .. Buckets -> BucketType]
  /\ \A c \in 1 .. Buckets : Sound(bucket[c], c)
  /\ \A c \in 1 .. Buckets : c \notin wrapped => Young(bucket[c])

RunInv ==
  /\ run \in [next : 0 .. Buckets + 1, items : SUBSET ItemType]
  /\ run.next = 0 => run.items = {}
  /\ \A i \in run.items : BucketOf[i.key] < run.next
  /\ \A i, j \in run.items : i.key = j.key => i = j

CountInv ==
  /\ pending \in [Key -> Nat]
  /\ flushed \in [Key -> Nat]
  /\ reported \in [Key -> Nat]

StatsInv == RingInv /\ RunInv /\ CountInv /\ TrafficAccounted

(***************************************************************************)
(* Arithmetic of places and chunks                                         *)
(***************************************************************************)
\* The chunk of a place, as the cache computes it: the place divided by the size.
LEMMA DivIs ==
  ASSUME NEW a \in Nat, NEW c \in Nat \ {0}
  PROVE  /\ a \div c \in Nat
         /\ c * (a \div c) <= a
         /\ a < c * (a \div c) + c
OBVIOUS

\* No other chunk holds the place.
LEMMA DivUnique ==
  ASSUME NEW a \in Nat, NEW c \in Nat \ {0}, NEW q \in Nat,
         c * q <= a, a < c * q + c
  PROVE  a \div c = q
OBVIOUS

\* A chunk that begins before another one ends before it.
LEMMA ChunkOrder ==
  ASSUME NEW c \in Nat \ {0}, NEW q \in Nat, NEW r \in Nat, q < r
  PROVE  c * q + c <= c * r
OBVIOUS

\* The place setLocked chooses for an entry that fits: the entry ends before the
\* ring does, in the chunk in which it begins, and begins behind the last one
\* unless the ring comes round.
LEMMA StartIs ==
  ASSUME NEW b \in BucketType, NEW k \in Key, Fits(k)
  PROVE  /\ Start(b, Length[k]) \in Place
         /\ Start(b, Length[k]) + Length[k] \in Place
         /\ Start(b, Length[k]) \div ChunkSize = (Start(b, Length[k]) + Length[k]) \div ChunkSize
         /\ Wraps(b, Length[k]) => Start(b, Length[k]) = 0
         /\ ~Wraps(b, Length[k]) => b.idx <= Start(b, Length[k])
<1> DEFINE p == b.idx
           n == Length[k]
           C == ChunkSize
           q == p \div C
           r == (p + n) \div C
<1>1. /\ p \in Nat /\ p < C * Chunks
      /\ n \in Nat \ {0} /\ n < C
      /\ C \in Nat \ {0} /\ Chunks \in Nat \ {0}
  BY XCacheAssumption DEF BucketType, Place, Fits
<1>2. /\ C * Chunks \in Nat
      /\ \A i \in Nat : i < C * Chunks => i \in Place
  BY <1>1 DEF Place
<1>3. /\ Wraps(b, Length[k]) <=> r > q /\ r >= Chunks
      /\ Start(b, Length[k]) = IF Wraps(b, Length[k]) THEN 0 ELSE IF r > q THEN r * C ELSE p
  BY DEF Start, Wraps
<1> HIDE DEF p, n, C
<1>4. q \in Nat /\ C * q <= p /\ p < C * q + C
  BY <1>1, DivIs DEF q
<1>5. p + n \in Nat /\ r \in Nat /\ C * r <= p + n /\ p + n < C * r + C
  BY <1>1, DivIs DEF r
<1>6. C <= C * Chunks
  BY <1>1
<1>7. \A i \in Nat : i < Chunks => C * i + C <= C * Chunks
  BY <1>1, ChunkOrder
<1> HIDE DEF q, r
<1>8. CASE Wraps(b, Length[k])
  <2>1. Start(b, Length[k]) = 0 /\ 0 \in Nat
    BY <1>3, <1>8
  <2>2. 0 \div C = 0 /\ n \div C = 0
    BY <1>1, DivUnique
  <2>3. 0 \in Place /\ 0 + n \in Place /\ 0 + n = n
    BY <1>1, <1>2, <1>6
  <2>4. 0 \div C = (0 + n) \div C
    BY <2>2, <2>3
  <2> QED BY <1>8, <2>1, <2>3, <2>4 DEF n, C
<1>9. CASE ~Wraps(b, Length[k]) /\ r > q
  <2>1. Start(b, Length[k]) = C * r /\ r < Chunks
    BY <1>1, <1>3, <1>5, <1>9
  <2>2. C * q + C <= C * r
    BY <1>1, <1>4, <1>5, <1>9, ChunkOrder
  <2>3. C * r + C <= C * Chunks
    BY <1>5, <1>7, <2>1
  <2>4. C * r \in Nat /\ C * r + n \in Nat
    BY <1>1, <1>5
  <2>5. (C * r) \div C = r /\ (C * r + n) \div C = r
    BY <1>1, <1>5, <2>4, DivUnique
  <2>6. C * r \in Place /\ C * r + n \in Place
    BY <1>1, <1>2, <2>3, <2>4
  <2>7. p <= C * r
    BY <1>1, <1>4, <2>2, <2>4
  <2> HIDE DEF n, C
  <2> QED BY <1>9, <2>1, <2>5, <2>6, <2>7 DEF n, C, p
<1>10. CASE ~Wraps(b, Length[k]) /\ ~(r > q)
  <2>1. Start(b, Length[k]) = p
    BY <1>3, <1>10
  <2>2. r = q
    <3>1. SUFFICES ASSUME r < q PROVE FALSE
      BY <1>4, <1>5, <1>10
    <3>2. C * r + C <= C * q
      BY <1>1, <1>4, <1>5, <3>1, ChunkOrder
    <3> QED BY <1>1, <1>4, <1>5, <3>2
  <2>3. q < Chunks
    <3>1. SUFFICES ASSUME Chunks <= q PROVE FALSE
      BY <1>1, <1>4
    <3>2. C * Chunks <= C * q
      BY <1>1, <1>4, <3>1
    <3> QED BY <1>1, <1>2, <1>4, <3>2
  <2>4. C * q + C <= C * Chunks
    BY <1>4, <1>7, <2>3
  <2>5. p \in Place /\ p + n \in Place
    BY <1>1, <1>2, <1>4, <1>5, <2>2, <2>4
  <2>6. p \div C = (p + n) \div C
    BY <2>2 DEF q, r
  <2> QED BY <1>1, <1>10, <2>1, <2>5, <2>6 DEF n, C, p
<1> QED BY <1>8, <1>9, <1>10

(***************************************************************************)
(* One entry is written                                                    *)
(***************************************************************************)
NewEntry(k, a) == [key |-> k, amount |-> a, intact |-> TRUE]

\* What ends before the new entry, and what begins behind it, stays as it is.
LEMMA WriteIs ==
  ASSUME NEW at \in [Place -> EntryType], NEW i \in Place, NEW k \in Key, NEW a \in Nat
  PROVE  LET w == Write(at, i, NewEntry(k, a))
         IN  /\ w \in [Place -> EntryType]
             /\ w[i] = NewEntry(k, a)
             /\ \A j \in Place : j >= i + Length[k] => w[j] = at[j]
             /\ \A j \in Place :
                  at[j].key \in Key /\ j < i /\ j + Length[at[j].key] <= i => w[j] = at[j]
<1> DEFINE e == NewEntry(k, a)
           w == Write(at, i, e)
           damaged(j) == [at[j] EXCEPT !.intact = FALSE]
<1>1. e \in EntryType /\ NoEntry \in EntryType /\ e.key = k
  BY DEF NewEntry, EntryType, NoEntry
<1>2. \A j \in Place : damaged(j) \in EntryType
  BY Zenon DEF EntryType
<1>3. w = [j \in Place |->
             IF j = i THEN e
             ELSE IF j > i /\ j < i + Length[k] THEN NoEntry
             ELSE IF at[j] # NoEntry /\ j < i /\ i < j + Length[at[j].key] THEN damaged(j)
             ELSE at[j]]
  BY <1>1 DEF Write
<1>4. Length[k] \in Nat \ {0} /\ i \in Int /\ Place \subseteq Int
  BY XCacheAssumption DEF Place
<1> HIDE DEF e, w, damaged
<1>5. w \in [Place -> EntryType]
  BY <1>1, <1>2, <1>3
<1>6. w[i] = e
  BY <1>3
<1>7. \A j \in Place : j >= i + Length[k] => w[j] = at[j]
  BY <1>3, <1>4
<1>8. ASSUME NEW j \in Place, at[j].key \in Key, j < i, j + Length[at[j].key] <= i
      PROVE  w[j] = at[j]
  <2>1. ~(i < j + Length[at[j].key])
    <3>1. Length[at[j].key] \in Nat /\ j \in Int
      BY <1>4, <1>8, XCacheAssumption
    <3> QED BY <1>4, <1>8, <3>1
  <2> QED BY <1>3, <1>4, <1>8, <2>1
<1> QED BY <1>5, <1>6, <1>7, <1>8 DEF e, w

\* Bucket r is bucket b with a new entry of session k.
Put(b, k, r) ==
  LET i == Start(b, Length[k])
  IN  /\ r \in BucketType
      /\ r.gen = IF Wraps(b, Length[k]) THEN nextGen(b.gen) ELSE b.gen
      /\ r.idx = i + Length[k]
      /\ r.m[Hash[k]] = [gen |-> r.gen, idx |-> i]
      /\ r.at[i] = NewEntry(k, toValue)
      /\ \A j \in Place : j >= r.idx => r.at[j] = b.at[j]
      /\ \A j \in Place :
           b.at[j].key \in Key /\ j < i /\ j + Length[b.at[j].key] <= i => r.at[j] = b.at[j]
      /\ \A h \in Slot \ {Hash[k]} :
           \/ r.m[h] = Absent /\ (b.m[h] = Absent \/ Wraps(b, Length[k]))
           \/ r.m[h] = b.m[h] /\ (Wraps(b, Length[k]) => accepts(r, r.m[h]))

\* The generation after another one.
LEMMA NextGen ==
  ASSUME NEW g \in 1 .. MaxGen
  PROVE  /\ nextGen(g) \in 1 .. MaxGen
         /\ nextGen(g) = IF g = MaxGen THEN 1 ELSE g + 1
<1>1. MaxGen \in Nat /\ MaxGen > 2
  BY XCacheAssumption
<1>2. CASE g = MaxGen
  <2>1. (g + 1) % (MaxGen + 1) = 0
    BY <1>1, <1>2
  <2> QED BY <1>1, <1>2, <2>1 DEF nextGen
<1>3. CASE g # MaxGen
  <2>1. g + 1 \in Nat /\ g + 1 < MaxGen + 1 /\ g + 1 > 0
    BY <1>1, <1>3
  <2>2. (g + 1) % (MaxGen + 1) = g + 1
    BY <1>1, <2>1
  <2> QED BY <1>1, <1>3, <2>1, <2>2 DEF nextGen
<1> QED BY <1>2, <1>3

\* setLocked does that, and its clean-up hands nothing to onEvict.
LEMMA SetIs ==
  ASSUME NEW b \in BucketType, NEW k \in Key, Fits(k)
  PROVE  /\ Put(b, k, setLocked(b, k, toValue).bucket)
         /\ setLocked(b, k, toValue).evicted = {}
<1> DEFINE n == Length[k]
           i == Start(b, n)
           gen == IF Wraps(b, n) THEN nextGen(b.gen) ELSE b.gen
           at == Write(b.at, i, NewEntry(k, toValue))
           m == [b.m EXCEPT ![Hash[k]] = [gen |-> gen, idx |-> i]]
           w == [at |-> at, m |-> m, idx |-> i + n, gen |-> gen]
<1>1. Hash[k] \in Slot /\ n \in Nat \ {0} /\ toValue \in Nat /\ 0 \in Place /\ Place \subseteq Nat
  <2>1. ChunkSize * Chunks \in Nat /\ ChunkSize * Chunks > 0
    BY XCacheAssumption
  <2> QED BY <2>1, XCacheAssumption DEF Slot, toValue, Place
<1>2. /\ b.m \in [Slot -> MapType] /\ b.at \in [Place -> EntryType]
      /\ b.idx \in Place /\ b.gen \in 1 .. MaxGen
  BY DEF BucketType
<1>3. i \in Place /\ i + n \in Place
  BY StartIs
<1>4. gen \in 1 .. MaxGen
  BY <1>2, NextGen
<1> HIDE DEF i, gen
<1>5. /\ at \in [Place -> EntryType]
      /\ at[i] = NewEntry(k, toValue)
      /\ \A j \in Place : j >= i + n => at[j] = b.at[j]
      /\ \A j \in Place :
           b.at[j].key \in Key /\ j < i /\ j + Length[b.at[j].key] <= i => at[j] = b.at[j]
  BY <1>1, <1>2, <1>3, WriteIs
<1>6. Absent \in MapType
  BY <1>1, XCacheAssumption DEF Absent, MapType
<1>7. [gen |-> gen, idx |-> i] \in MapType /\ [gen |-> gen, idx |-> i] # Absent
  <2>1. gen \in 0 .. MaxGen /\ gen # 0
    BY <1>4, XCacheAssumption
  <2> QED BY <1>3, <2>1 DEF MapType, Absent
<1> HIDE DEF at
<1>8. /\ m \in [Slot -> MapType] /\ m[Hash[k]] = [gen |-> gen, idx |-> i]
      /\ \A h \in Slot \ {Hash[k]} : m[h] = b.m[h]
  BY <1>1, <1>2, <1>7
<1> HIDE DEF m
<1>9. /\ w.at = at /\ w.m = m /\ w.idx = i + n /\ w.gen = gen
      /\ w \in BucketType
  BY <1>3, <1>4, <1>5, <1>8 DEF BucketType
<1>10. setLocked(b, k, toValue) = IF Wraps(b, n) THEN cleanLocked(w) ELSE [bucket |-> w, evicted |-> {}]
  BY DEF setLocked, w, m, at, gen, i, NewEntry
<1> HIDE DEF w
<1>11. CASE ~Wraps(b, n)
  <2>1. setLocked(b, k, toValue).bucket = w /\ setLocked(b, k, toValue).evicted = {}
    BY <1>10, <1>11
  <2>2. Put(b, k, w)
    BY <1>5, <1>8, <1>9, <1>11 DEF Put, gen, i
  <2> QED BY <2>1, <2>2
<1>12. CASE Wraps(b, n)
  <2> DEFINE R == Readable(w)
             m2 == [h \in Slot |-> IF h \in R THEN m[h] ELSE Absent]
             u == [w EXCEPT !.m = m2]
  <2>1. Hash[k] \in Readable(w)
    <3>1. m[Hash[k]] # Absent
      BY <1>7, <1>8
    <3>2. m[Hash[k]].gen = gen /\ m[Hash[k]].idx = i
      BY <1>8
    <3>3. i < i + n
      BY <1>1, <1>3
    <3> QED BY <1>1, <1>9, <3>1, <3>2, <3>3 DEF Readable, accepts
  <2>2. /\ m2 \in [Slot -> MapType] /\ m2[Hash[k]] = [gen |-> gen, idx |-> i]
        /\ \A h \in Slot \ {Hash[k]} : m2[h] = Absent \/ (m2[h] = b.m[h] /\ h \in Readable(w))
    <3> HIDE DEF R
    <3>1. Hash[k] \in R
      BY <2>1 DEF R
    <3>2. \A h \in Slot \ {Hash[k]} : m2[h] = Absent \/ (m2[h] = b.m[h] /\ h \in R)
      BY <1>8
    <3>3. m2 \in [Slot -> MapType] /\ m2[Hash[k]] = [gen |-> gen, idx |-> i]
      BY <1>1, <1>6, <1>8, <3>1
    <3> QED BY <3>2, <3>3 DEF R
  <2> HIDE DEF m2
  <2>3. /\ u.at = at /\ u.m = m2 /\ u.idx = i + n /\ u.gen = gen
        /\ u \in BucketType
    BY <1>9, <2>2 DEF BucketType
  <2>4. cleanLocked(w).bucket = u
    BY <1>9, <2>1 DEF cleanLocked, u, m2
  <2>5. cleanLocked(w).evicted = {}
    <3> DEFINE D == ({h \in Slot : w.m[h] # Absent} \ Readable(w)) \cap Readable(w)
    <3>1. D = {}
      OBVIOUS
    <3>2. cleanLocked(w).evicted = Items(w, D)
      BY DEF cleanLocked
    <3> HIDE DEF D
    <3> QED BY <3>1, <3>2 DEF Items
  <2> HIDE DEF u
  <2>6. ASSUME NEW h \in Slot \ {Hash[k]}, h \in Readable(w)
        PROVE  accepts(u, b.m[h])
    BY <1>8, <1>9, <2>3, <2>6 DEF Readable, accepts
  <2>7. Put(b, k, u)
    BY <1>5, <1>12, <2>2, <2>3, <2>6 DEF Put, gen, i
  <2> QED BY <1>10, <1>12, <2>4, <2>5, <2>7
<1> QED BY <1>11, <1>12

(***************************************************************************)
(* The bucket's entries                                                    *)
(***************************************************************************)
\* The numbers of three generations in a row differ, and the number of one tells
\* that of the one before it.
LEMMA GensDiffer ==
  ASSUME NEW g \in 1 .. MaxGen, NEW f \in 1 .. MaxGen
  PROVE  /\ nextGen(g) # g
         /\ nextGen(nextGen(g)) # g
         /\ nextGen(f) = nextGen(g) => f = g
<1>1. MaxGen \in Nat /\ MaxGen > 2
  BY XCacheAssumption
<1>2. /\ nextGen(g) \in 1 .. MaxGen
      /\ nextGen(g) = IF g = MaxGen THEN 1 ELSE g + 1
      /\ nextGen(f) = IF f = MaxGen THEN 1 ELSE f + 1
  BY NextGen
<1>3. nextGen(nextGen(g)) = IF nextGen(g) = MaxGen THEN 1 ELSE nextGen(g) + 1
  BY <1>2, NextGen
<1> QED BY <1>1, <1>2, <1>3

\* The comparison of readItem and getLocked accepts an entry of the current
\* generation before the place of the next entry, and one of the generation
\* before at that place or behind it.
LEMMA AcceptsIs ==
  ASSUME NEW b \in BucketType, NEW v \in MapType, v.gen \in 1 .. MaxGen
  PROVE  accepts(b, v) <=> \/ v.gen = b.gen /\ v.idx < b.idx
                           \/ nextGen(v.gen) = b.gen /\ v.idx >= b.idx
<1>1. MaxGen \in Nat /\ MaxGen > 2 /\ b.gen \in 1 .. MaxGen
  BY XCacheAssumption DEF BucketType
<1>2. nextGen(v.gen) = IF v.gen = MaxGen THEN 1 ELSE v.gen + 1
  BY NextGen
<1>3. nextGen(v.gen) = b.gen <=> v.gen + 1 = b.gen \/ (v.gen = MaxGen /\ b.gen = 1)
  BY <1>1, <1>2
<1> QED BY <1>3 DEF accepts

\* In a sound bucket, what is accepted is whole.
LEMMA ReadableIs ==
  ASSUME NEW b \in BucketType, NEW c, NEW h \in Slot,
         Known(b, h, c)
  PROVE  h \in Readable(b) <=> Current(b, h, c) \/ (Last(b, h, c) /\ b.m[h].idx >= b.idx)
<1>1. b.m[h] \in MapType /\ b.gen \in 1 .. MaxGen /\ b.idx \in Place /\ b.m[h].idx \in Place
  BY DEF BucketType, MapType
<1>2. b.m[h].idx \in Int /\ b.idx \in Int
  BY <1>1 DEF Place
<1>3. CASE b.m[h] = Absent
  <2>1. b.m[h].gen = 0
    BY <1>3 DEF Absent
  <2>2. b.m[h].gen # b.gen /\ b.m[h].gen \notin 1 .. MaxGen
    BY <1>1, <2>1
  <2>3. ~Current(b, h, c) /\ ~Last(b, h, c)
    BY <2>2 DEF Current, Last
  <2> QED BY <1>3, <2>3 DEF Readable
<1>4. CASE Current(b, h, c)
  <2>1. b.m[h].gen = b.gen
    BY <1>4 DEF Current
  <2>2. b.m[h] # Absent
    <3>1. Absent.gen = 0
      BY DEF Absent
    <3> QED BY <1>1, <2>1, <3>1
  <2>3. b.m[h].idx < b.idx
    <3> DEFINE x == b.m[h].idx
               y == b.idx
               l == Length[b.at[b.m[h].idx].key]
    <3>1. l \in Nat \ {0}
      BY <1>4, XCacheAssumption, Zenon DEF Current, Whole
    <3>2. x + l <= y
      BY <1>4 DEF Current
    <3>3. x \in Int /\ y \in Int
      BY <1>2
    <3> HIDE DEF x, y, l
    <3>4. x < y
      BY <3>1, <3>2, <3>3
    <3> QED BY <3>4 DEF x, y
  <2> QED BY <1>4, <2>1, <2>2, <2>3 DEF Readable, accepts
<1>5. CASE Last(b, h, c) /\ ~Current(b, h, c)
  <2>1. b.m[h].gen \in 1 .. MaxGen /\ nextGen(b.m[h].gen) = b.gen
    BY <1>5 DEF Last
  <2>2. b.m[h] # Absent
    <3>1. Absent.gen = 0
      BY DEF Absent
    <3> QED BY <2>1, <3>1
  <2>3. b.m[h].gen # b.gen
    BY <2>1, GensDiffer
  <2>4. accepts(b, b.m[h]) <=> b.m[h].idx >= b.idx
    BY <1>1, <2>1, <2>3, AcceptsIs
  <2> QED BY <1>5, <2>2, <2>4 DEF Readable
<1> QED BY <1>3, <1>4, <1>5 DEF Known

\* An entry that is not touched stays whole.
LEMMA WholeStays ==
  ASSUME NEW b, NEW r, NEW h, NEW c,
         r.m[h] = b.m[h], r.at[b.m[h].idx] = b.at[b.m[h].idx], Whole(b, h, c)
  PROVE  Whole(r, h, c)
BY Zenon DEF Whole

\* An entry of hash h is sound in r, and if it is readable there then it was in b,
\* and is the same.
Stays(b, r, h, c) ==
  /\ r.m[h] = b.m[h]
  /\ Current(r, h, c) \/ Last(r, h, c)
  /\ Current(r, h, c) \/ b.m[h].idx >= r.idx =>
       /\ r.at[b.m[h].idx] = b.at[b.m[h].idx]
       /\ Current(b, h, c) \/ (Last(b, h, c) /\ b.m[h].idx >= b.idx)

\* A write does so to every entry of another hash that the map still knows after it.
LEMMA PutOther ==
  ASSUME NEW b \in BucketType, NEW c, NEW k \in Key, Fits(k), NEW r, Put(b, k, r),
         NEW h \in Slot, h # Hash[k], r.m[h] # Absent,
         Known(b, h, c)
  PROVE  Stays(b, r, h, c)
<1> DEFINE n == Length[k]
           i == Start(b, n)
           v == b.m[h]
           x == v.idx
           l == Length[b.at[x].key]
<1>1. /\ r \in BucketType
      /\ r.gen = IF Wraps(b, n) THEN nextGen(b.gen) ELSE b.gen
      /\ r.idx = i + n
      /\ r.m[h] = v
      /\ Wraps(b, n) => accepts(r, v)
      /\ \A j \in Place : j >= r.idx => r.at[j] = b.at[j]
      /\ \A j \in Place :
           b.at[j].key \in Key /\ j < i /\ j + Length[b.at[j].key] <= i => r.at[j] = b.at[j]
  BY DEF Put
<1>2. /\ v \in MapType /\ x \in Place /\ b.gen \in 1 .. MaxGen /\ r.gen \in 1 .. MaxGen
      /\ b.idx \in Place /\ r.idx \in Place
  BY <1>1 DEF BucketType, MapType
<1>3. x \in Int /\ b.idx \in Int /\ r.idx \in Int /\ i \in Int /\ n \in Nat \ {0}
  BY <1>2, StartIs, XCacheAssumption DEF Place
<1>4. ~Wraps(b, n) => b.idx <= i
  BY StartIs
<1>5. Current(b, h, c) \/ Last(b, h, c)
  BY <1>1 DEF Known
<1>6. Current(b, h, c) => v.gen = b.gen
  BY DEF Current
<1>7. Last(b, h, c) => v.gen \in 1 .. MaxGen /\ nextGen(v.gen) = b.gen
  BY DEF Last
<1>8. v.gen \in 1 .. MaxGen
  BY <1>2, <1>5, <1>6, <1>7
<1>9. Current(b, h, c) => l \in Nat \ {0} /\ x + l <= b.idx /\ b.at[x].key \in Key /\ Whole(b, h, c)
  BY XCacheAssumption, Zenon DEF Current, Whole
<1>10. Last(b, h, c) /\ x >= b.idx => Whole(b, h, c)
  BY DEF Last
<1>11. r.at[x] = b.at[x] /\ Whole(b, h, c) => Whole(r, h, c)
  BY <1>1, WholeStays
<1> HIDE DEF i, n, v, x, l
<1>12. CASE Wraps(b, n)
  <2>1. v.gen # r.gen
    <3>1. CASE Current(b, h, c)
      BY <1>1, <1>2, <1>6, <1>12, <3>1, GensDiffer
    <3>2. CASE Last(b, h, c)
      BY <1>1, <1>7, <1>8, <1>12, <3>2, GensDiffer
    <3> QED BY <1>5, <3>1, <3>2
  <2>2. nextGen(v.gen) = r.gen /\ x >= r.idx
    BY <1>1, <1>2, <1>8, <1>12, <2>1, AcceptsIs DEF x
  <2>3. v.gen = b.gen
    BY <1>1, <1>2, <1>8, <1>12, <2>2, GensDiffer
  <2>4. Current(b, h, c)
    BY <1>2, <1>5, <1>7, <1>8, <2>3, GensDiffer
  <2>5. r.at[x] = b.at[x]
    BY <1>1, <1>2, <2>2
  <2>6. Whole(r, h, c)
    BY <1>9, <1>11, <2>4, <2>5
  <2>7. Last(r, h, c)
    BY <1>1, <1>8, <2>2, <2>6 DEF Last
  <2> QED BY <1>1, <2>4, <2>5, <2>7 DEF v, x, Stays
<1>13. CASE ~Wraps(b, n)
  <2>1. r.gen = b.gen /\ b.idx <= i /\ b.idx <= r.idx
    BY <1>1, <1>3, <1>4, <1>13
  <2>2. CASE Current(b, h, c)
    <3>1. r.at[x] = b.at[x]
      <4>1. x < i /\ x + l <= i
        BY <1>3, <1>9, <2>1, <2>2
      <4> QED BY <1>1, <1>2, <1>9, <2>2, <4>1 DEF l
    <3>2. Whole(r, h, c)
      BY <1>9, <1>11, <2>2, <3>1
    <3>3. x + l <= r.idx
      BY <1>3, <1>9, <2>1, <2>2
    <3>4. Current(r, h, c)
      BY <1>1, <1>6, <2>1, <2>2, <3>1, <3>2, <3>3, Zenon DEF Current, v, x, l
    <3> QED BY <1>1, <2>2, <3>1, <3>4 DEF v, x, Stays
  <2>3. CASE Last(b, h, c)
    <3>1. v.gen # r.gen
      BY <1>7, <2>1, <2>3, GensDiffer
    <3>2. ~Current(r, h, c)
      BY <1>1, <3>1 DEF Current, v
    <3>3. x >= r.idx => x >= b.idx /\ r.at[x] = b.at[x]
      BY <1>1, <1>2, <1>3, <2>1
    <3>4. x >= r.idx => Whole(r, h, c)
      BY <1>10, <1>11, <2>3, <3>3
    <3>5. Last(r, h, c)
      BY <1>1, <1>7, <2>1, <2>3, <3>4 DEF Last, v, x
    <3> QED BY <1>1, <2>3, <3>2, <3>3, <3>5 DEF v, x, Stays
  <2> QED BY <1>5, <2>2, <2>3
<1> QED BY <1>12, <1>13

\* A write keeps the bucket sound, and makes the new entry readable.
LEMMA PutSound ==
  ASSUME NEW b \in BucketType, NEW c, Sound(b, c),
         NEW k \in Key, Fits(k), BucketOf[k] = c, NEW r, Put(b, k, r)
  PROVE  /\ Sound(r, c)
         /\ Hash[k] \in Readable(r)
         /\ readItem(r, Hash[k]) = NewEntry(k, toValue)
<1> DEFINE n == Length[k]
           i == Start(b, n)
<1>1. /\ r \in BucketType
      /\ r.idx = i + n
      /\ r.at[i] = NewEntry(k, toValue)
  BY DEF Put
<1>2. /\ i \in Place /\ n \in Nat
      /\ i \div ChunkSize = (i + n) \div ChunkSize
  BY StartIs, XCacheAssumption
<1>3. Hash[k] \in Slot
  BY DEF Slot
<1>4. /\ r.m[Hash[k]].gen = r.gen /\ r.m[Hash[k]].idx = i
  <2>1. r.m[Hash[k]] = [gen |-> r.gen, idx |-> i]
    BY DEF Put
  <2> HIDE DEF i
  <2> QED BY <2>1
<1> HIDE DEF i
<1>5. r.at[i].key = k /\ r.at[i].intact = TRUE
  BY <1>1 DEF NewEntry
<1>6. Whole(r, Hash[k], c)
  BY <1>2, <1>4, <1>5 DEF Whole
<1>7. i + n <= r.idx
  <2>1. i + n \in Int
    BY <1>2 DEF Place
  <2> QED BY <1>1, <2>1
<1>8. Current(r, Hash[k], c)
  BY <1>4, <1>5, <1>6, <1>7 DEF Current
<1>9. Hash[k] \in Readable(r)
  <2>1. Known(r, Hash[k], c)
    BY <1>8 DEF Known
  <2> QED BY <1>1, <1>3, <1>8, <2>1, ReadableIs
<1>10. readItem(r, Hash[k]) = NewEntry(k, toValue)
  BY <1>1, <1>4 DEF readItem
<1>11. ASSUME NEW h \in Slot, h # Hash[k], r.m[h] # Absent
       PROVE  Current(r, h, c) \/ Last(r, h, c)
  <2>1. Known(b, h, c)
    BY DEF Sound
  <2>2. Stays(b, r, h, c)
    BY <1>11, <2>1, PutOther
  <2> QED BY <2>2 DEF Stays
<1>12. Sound(r, c)
  BY <1>8, <1>11 DEF Sound, Known
<1> QED BY <1>9, <1>10, <1>12

\* What a write leaves readable under another hash was readable before it.
LEMMA PutReadable ==
  ASSUME NEW b \in BucketType, NEW c, Sound(b, c),
         NEW k \in Key, Fits(k), BucketOf[k] = c, NEW r, Put(b, k, r),
         NEW h \in Slot, h # Hash[k], h \in Readable(r)
  PROVE  h \in Readable(b) /\ readItem(r, h) = readItem(b, h)
<1>1. r \in BucketType
  BY DEF Put
<1>2. Known(b, h, c)
  BY DEF Sound
<1>3. r.m[h] # Absent
  BY DEF Readable
<1>4. Stays(b, r, h, c)
  BY <1>2, <1>3, PutOther
<1>5. r.m[h] = b.m[h] /\ Known(r, h, c)
  BY <1>4 DEF Stays, Known
<1>6. Current(r, h, c) \/ b.m[h].idx >= r.idx
  BY <1>1, <1>5, ReadableIs
<1>7. /\ r.at[b.m[h].idx] = b.at[b.m[h].idx]
      /\ Current(b, h, c) \/ (Last(b, h, c) /\ b.m[h].idx >= b.idx)
  BY <1>4, <1>6 DEF Stays
<1>8. h \in Readable(b)
  BY <1>2, <1>7, ReadableIs
<1> QED BY <1>5, <1>7, <1>8 DEF readItem

\* Before the ring comes round a write takes nothing of another hash away.
LEMMA PutYoung ==
  ASSUME NEW b \in BucketType, NEW c, Sound(b, c), Young(b),
         NEW k \in Key, Fits(k), BucketOf[k] = c, NEW r, Put(b, k, r), ~Wraps(b, Length[k])
  PROVE  /\ Young(r)
         /\ \A h \in Readable(b) : h # Hash[k] => h \in Readable(r)
<1>1. /\ r \in BucketType /\ r.gen = b.gen
      /\ r.m[Hash[k]] = [gen |-> r.gen, idx |-> Start(b, Length[k])]
      /\ \A h \in Slot \ {Hash[k]} : r.m[h] = b.m[h]
  BY DEF Put
<1>2. r.m[Hash[k]].gen = r.gen
  BY <1>1
<1>3. Young(r)
  BY <1>1, <1>2 DEF Young
<1>4. ASSUME NEW h \in Readable(b), h # Hash[k]
      PROVE  h \in Readable(r)
  <2>1. h \in Slot /\ b.m[h] # Absent /\ r.m[h] = b.m[h]
    BY <1>1, <1>4 DEF Readable
  <2>2. b.m[h].gen = b.gen /\ b.gen \in 1 .. MaxGen
    BY <2>1 DEF Young, BucketType
  <2>3. Known(b, h, c)
    BY <2>1 DEF Sound
  <2>4. ~Last(r, h, c)
    BY <1>1, <2>1, <2>2, GensDiffer DEF Last
  <2>5. Stays(b, r, h, c)
    BY <1>4, <2>1, <2>3, PutOther
  <2>6. Current(r, h, c) /\ Known(r, h, c)
    BY <2>4, <2>5 DEF Stays, Known
  <2> QED BY <1>1, <2>1, <2>6, ReadableIs
<1> QED BY <1>3, <1>4

\* A new bucket.
LEMMA EmptySound ==
  ASSUME NEW c
  PROVE  /\ EmptyBucket \in BucketType /\ Sound(EmptyBucket, c) /\ Young(EmptyBucket)
         /\ Readable(EmptyBucket) = {}
<1>1. ChunkSize * Chunks \in Nat /\ ChunkSize * Chunks > 0
  BY XCacheAssumption
<1>2. 0 \in Place /\ 0 \in 0 .. MaxGen /\ 1 \in 1 .. MaxGen
  BY <1>1, XCacheAssumption DEF Place
<1>3. Absent \in MapType /\ NoEntry \in EntryType
  BY <1>2 DEF Absent, MapType, NoEntry, EntryType
<1>4. EmptyBucket \in BucketType
  BY <1>2, <1>3 DEF EmptyBucket, BucketType
<1>5. \A h \in Slot : EmptyBucket.m[h] = Absent
  BY DEF EmptyBucket
<1> QED BY <1>4, <1>5 DEF Sound, Known, Young, Readable

(***************************************************************************)
(* The traffic of a session in its bucket                                  *)
(***************************************************************************)
Amount(b, k) == IF Found(b, k) THEN readItem(b, Hash[k]).amount ELSE 0

\* The amount that getLocked finds for a session is a number.
LEMMA AmountType ==
  ASSUME NEW b \in BucketType, NEW k \in Key
  PROVE  Amount(b, k) \in Nat
<1>1. Hash[k] \in Slot
  BY DEF Slot
<1>2. b.at[b.m[Hash[k]].idx] \in EntryType
  BY <1>1 DEF BucketType, MapType
<1>3. b.at[b.m[Hash[k]].idx].amount \in Nat
  BY <1>2 DEF EntryType
<1> QED BY <1>3 DEF Amount, readItem

\* k has one unit in r, and no other session has more than in b; a session of
\* another hash has as much, if the ring does not come round.
Gains(b, k, r) ==
  /\ Amount(b, k) = 0 /\ Amount(r, k) = 1
  /\ \A x \in Key \ {k} : Amount(r, x) <= Amount(b, x)
  /\ Young(b) /\ ~Wraps(b, Length[k]) =>
       \A x \in Key : Hash[x] # Hash[k] => Amount(r, x) = Amount(b, x)

\* That is what a new entry does.
LEMMA PutAmount ==
  ASSUME NEW b \in BucketType, NEW c, Sound(b, c), NEW k \in Key, ~Found(b, k),
         Fits(k), BucketOf[k] = c, NEW r, Put(b, k, r)
  PROVE  Gains(b, k, r)
<1>1. r \in BucketType
  BY DEF Put
<1>2. /\ Hash[k] \in Readable(r)
      /\ readItem(r, Hash[k]) = NewEntry(k, toValue)
  BY PutSound
<1>3. Found(r, k) /\ Amount(r, k) = 1
  BY <1>2 DEF Found, Amount, NewEntry, toValue
<1>4. Amount(b, k) = 0
  BY DEF Amount
<1>5. ASSUME NEW x \in Key, Hash[x] # Hash[k], Found(r, x)
      PROVE  Found(b, x) /\ Amount(r, x) = Amount(b, x)
  <2>1. Hash[x] \in Slot /\ Hash[x] \in Readable(r) /\ readItem(r, Hash[x]).key = x
    BY <1>5 DEF Found, Slot
  <2>2. Hash[x] \in Readable(b) /\ readItem(r, Hash[x]) = readItem(b, Hash[x])
    BY <1>5, <2>1, PutReadable
  <2> QED BY <1>5, <2>1, <2>2 DEF Found, Amount
<1>6. ASSUME NEW x \in Key \ {k}
      PROVE  Amount(r, x) <= Amount(b, x)
  <2>1. Amount(b, x) \in Nat
    BY <1>6, AmountType
  <2>2. CASE ~Found(r, x)
    BY <2>1, <2>2 DEF Amount
  <2>3. CASE Found(r, x)
    <3>1. Hash[x] # Hash[k]
      BY <1>2, <1>6, <2>3 DEF Found, NewEntry
    <3> QED BY <1>5, <1>6, <2>1, <2>3, <3>1
  <2> QED BY <2>2, <2>3
<1>7. ASSUME Young(b), ~Wraps(b, Length[k]), NEW x \in Key, Hash[x] # Hash[k]
      PROVE  Amount(r, x) = Amount(b, x)
  <2>1. CASE Found(r, x)
    BY <1>5, <1>7, <2>1
  <2>2. CASE ~Found(r, x)
    <3>1. SUFFICES ASSUME Found(b, x) PROVE FALSE
      BY <2>2 DEF Amount
    <3>2. Hash[x] \in Slot /\ Hash[x] \in Readable(b) /\ readItem(b, Hash[x]).key = x
      BY <3>1 DEF Found, Slot
    <3>3. Hash[x] \in Readable(r)
      BY <1>7, <3>2, PutYoung
    <3>4. readItem(r, Hash[x]) = readItem(b, Hash[x])
      BY <1>7, <3>2, <3>3, PutReadable
    <3> QED BY <2>2, <3>2, <3>3, <3>4 DEF Found
  <2> QED BY <2>1, <2>2
<1> QED BY <1>3, <1>4, <1>6, <1>7 DEF Gains

\* Bucket r is bucket b with one unit more in the entry of k.
Add(b, k, r) ==
  /\ r.m = b.m /\ r.idx = b.idx /\ r.gen = b.gen /\ r \in BucketType
  /\ \A j \in Place : r.at[j].key = b.at[j].key /\ r.at[j].intact = b.at[j].intact
  /\ \A j \in Place \ {b.m[Hash[k]].idx} : r.at[j].amount = b.at[j].amount
  /\ r.at[b.m[Hash[k]].idx].amount = b.at[b.m[Hash[k]].idx].amount + 1

\* A report added in place keeps the bucket sound, and counts for its session only.
LEMMA AddSound ==
  ASSUME NEW b \in BucketType, NEW c, Sound(b, c), NEW k \in Key, Found(b, k), NEW r, Add(b, k, r)
  PROVE  /\ Sound(r, c)
         /\ Young(b) => Young(r)
         /\ Amount(r, k) = Amount(b, k) + 1
         /\ \A x \in Key \ {k} : Amount(r, x) = Amount(b, x)
<1>1. \A h \in Slot : b.m[h] \in MapType /\ b.m[h].idx \in Place
  BY DEF BucketType, MapType
<1>2. Hash[k] \in Slot /\ Hash[k] \in Readable(b) /\ b.at[b.m[Hash[k]].idx].key = k
  BY DEF Found, Slot, readItem
<1>3. ASSUME NEW h \in Slot
      PROVE  /\ Whole(b, h, c) => Whole(r, h, c)
             /\ Current(b, h, c) => Current(r, h, c)
             /\ Last(b, h, c) => Last(r, h, c)
  <2>1. Whole(b, h, c) => Whole(r, h, c)
    BY <1>1, Zenon DEF Add, Whole
  <2>2. Current(b, h, c) => Current(r, h, c)
    BY <1>1, <2>1, Zenon DEF Add, Current
  <2>3. Last(b, h, c) => Last(r, h, c)
    BY <1>1, <2>1 DEF Add, Last
  <2> QED BY <2>1, <2>2, <2>3
<1>4. Sound(r, c)
  BY <1>3 DEF Sound, Known, Add
<1>5. Young(b) => Young(r)
  BY DEF Young, Add
<1>6. Readable(r) = Readable(b)
  BY DEF Readable, accepts, Add
<1>7. \A x \in Key : Hash[x] \in Slot
  BY DEF Slot
<1>8. \A x \in Key : Found(r, x) <=> Found(b, x)
  BY <1>1, <1>6, <1>7, Zenon DEF Found, readItem, Add
<1>9. Amount(r, k) = Amount(b, k) + 1
  BY <1>8, Zenon DEF Amount, readItem, Add
<1>10. ASSUME NEW x \in Key \ {k}, Found(b, x)
       PROVE  Amount(r, x) = Amount(b, x)
  <2>1. b.m[Hash[x]].idx # b.m[Hash[k]].idx
    BY <1>2, <1>10 DEF Found, readItem
  <2>2. b.m[Hash[x]].idx \in Place
    BY <1>1, <1>7, <1>10
  <2> QED BY <1>8, <1>10, <2>1, <2>2 DEF Amount, readItem, Add
<1>11. \A x \in Key \ {k} : Amount(r, x) = Amount(b, x)
  BY <1>8, <1>10 DEF Amount
<1> QED BY <1>4, <1>5, <1>9, <1>11

\* The mutator of ReportStats on an entry that is there.
LEMMA AddIs ==
  ASSUME NEW b \in BucketType, NEW k \in Key
  PROVE  Add(b, k, [b EXCEPT !.at[b.m[Hash[k]].idx].amount = AddRxTx(@)])
<1> DEFINE i == b.m[Hash[k]].idx
           e == [b.at[i] EXCEPT !.amount = @ + 1]
           at == [b.at EXCEPT ![i] = e]
           r == [b EXCEPT !.at = at]
<1>1. Hash[k] \in Slot
  BY DEF Slot
<1>2. i \in Place /\ b.at \in [Place -> EntryType] /\ b.at[i] \in EntryType
  BY <1>1 DEF BucketType, MapType
<1>3. [b EXCEPT !.at[i].amount = AddRxTx(@)] = r
  BY DEF AddRxTx
<1> HIDE DEF i
<1>4. /\ e \in EntryType /\ e.key = b.at[i].key /\ e.intact = b.at[i].intact
      /\ e.amount = b.at[i].amount + 1
  BY <1>2 DEF EntryType
<1> HIDE DEF e
<1>5. /\ at \in [Place -> EntryType] /\ at[i] = e
      /\ \A j \in Place \ {i} : at[j] = b.at[j]
  BY <1>2, <1>4
<1> HIDE DEF at
<1>6. r.m = b.m /\ r.idx = b.idx /\ r.gen = b.gen /\ r.at = at /\ r \in BucketType
  BY <1>5 DEF BucketType
<1> HIDE DEF r
<1>7. Add(b, k, r)
  BY <1>2, <1>4, <1>5, <1>6, Zenon DEF Add, i
<1> QED BY <1>3, <1>7, Zenon DEF i

(***************************************************************************)
(* The units of items                                                      *)
(***************************************************************************)
\* No items, no units.
LEMMA SumNone == Sum({}) = 0
<1>1. UNION {{<<i, n>> : n \in 1 .. i.amount} : i \in {}} = {}
  OBVIOUS
<1>2. Cardinality({}) = 0
  BY FS_EmptySet
<1> QED BY <1>1, <1>2 DEF Sum

\* The units of one item are its amount.
LEMMA SumOne ==
  ASSUME NEW x, x.amount \in Nat
  PROVE  Sum({x}) = x.amount
<1> DEFINE a == x.amount
           N == 1 .. a
           U == UNION {{<<i, n>> : n \in 1 .. i.amount} : i \in {x}}
<1>1. IsFiniteSet({x}) /\ Cardinality({x}) = 1
  BY FS_Singleton, Zenon
<1>2. IsFiniteSet(N) /\ Cardinality(N) = a
  <2>1. IsFiniteSet(1 .. a) /\ Cardinality(1 .. a) = IF 1 > a THEN 0 ELSE a - 1 + 1
    BY FS_Interval, SMTT(30)
  <2> QED BY <2>1
<1>3. U = {<<x, n>> : n \in N}
  OBVIOUS
<1> HIDE DEF N
<1>4. {<<x, n>> : n \in N} = {x} \X N
  OBVIOUS
<1>5. Cardinality({x} \X N) = Cardinality({x}) * Cardinality(N)
  BY <1>1, <1>2, FS_Product, SMTT(30)
<1>6. Cardinality({x} \X N) = a
  <2> HIDE DEF a
  <2>1. a \in Nat
    BY DEF a
  <2> QED BY <1>1, <1>2, <1>5, <2>1
<1> QED BY <1>3, <1>4, <1>6 DEF Sum

\* The items of one session.
Of(items, k) == {i \in items : i.key = k}

\* At most one item of a session: the units are its amount.
LEMMA SumType ==
  ASSUME NEW items \in SUBSET ItemType, \A i, j \in items : i.key = j.key => i = j, NEW k
  PROVE  Sum(Of(items, k)) \in Nat
<1>1. CASE Of(items, k) = {}
  BY <1>1, SumNone
<1>2. CASE Of(items, k) # {}
  <2>1. PICK x : x \in Of(items, k)
    BY <1>2
  <2>2. Of(items, k) = {x}
    BY <2>1 DEF Of
  <2>3. x.amount \in Nat
    BY <2>1 DEF Of, ItemType
  <2> QED BY <2>2, <2>3, SumOne
<1> QED BY <1>1, <1>2

\* What Reset takes out of a bucket: one item for each session that is found there.
LEMMA ResetItems ==
  ASSUME NEW b \in BucketType, NEW c, Sound(b, c)
  PROVE  LET I == Items(b, Readable(b))
         IN  /\ I \in SUBSET ItemType
             /\ \A i \in I : BucketOf[i.key] = c
             /\ \A i, j \in I : i.key = j.key => i = j
             /\ \A k \in Key : ~Found(b, k) => Of(I, k) = {}
             /\ \A k \in Key : Found(b, k) => Of(I, k) = {[key |-> k, amount |-> Amount(b, k)]}
<1> DEFINE R == Readable(b)
           item(h) == [key |-> readItem(b, h).key, amount |-> readItem(b, h).amount]
           I == Items(b, Readable(b))
<1>1. I = {item(h) : h \in R}
  BY DEF Items
<1>2. ASSUME NEW h \in R
      PROVE  /\ h \in Slot /\ readItem(b, h).key \in Key /\ readItem(b, h).amount \in Nat
             /\ Hash[readItem(b, h).key] = h /\ BucketOf[readItem(b, h).key] = c
  <2>1. h \in Slot
    BY <1>2 DEF Readable
  <2>2. Known(b, h, c)
    BY <2>1 DEF Sound
  <2>3. Current(b, h, c) \/ (Last(b, h, c) /\ b.m[h].idx >= b.idx)
    BY <1>2, <2>1, <2>2, ReadableIs
  <2>4. Whole(b, h, c)
    BY <2>3 DEF Current, Last
  <2>5. b.at[b.m[h].idx] \in EntryType
    BY <2>1 DEF BucketType, MapType
  <2>6. b.at[b.m[h].idx].amount \in Nat
    BY <2>5 DEF EntryType
  <2> QED BY <2>1, <2>4, <2>6, Zenon DEF Whole, readItem
<1>3. \A h \in R : item(h).key = readItem(b, h).key /\ item(h) \in ItemType
  BY <1>2 DEF ItemType
<1>4. \A k \in Key : Found(b, k) <=> Hash[k] \in R /\ readItem(b, Hash[k]).key = k
  BY DEF Found
<1>5. \A k \in Key : Found(b, k) => item(Hash[k]) = [key |-> k, amount |-> Amount(b, k)]
  BY DEF Found, Amount
<1> HIDE DEF R, item, I
<1>6. I \in SUBSET ItemType
  BY <1>1, <1>3
<1>7. ASSUME NEW i \in I
      PROVE  BucketOf[i.key] = c
  <2>1. PICK h \in R : i = item(h)
    BY <1>1
  <2>2. i.key = readItem(b, h).key
    BY <1>3, <2>1
  <2> QED BY <1>2, <2>2
<1>8. \A h, g \in R : item(h).key = item(g).key => h = g
  BY <1>2, <1>3
<1>9. \A i, j \in I : i.key = j.key => i = j
  BY <1>1, <1>8
<1>10. ASSUME NEW k \in Key, ~Found(b, k)
       PROVE  Of(I, k) = {}
  BY <1>1, <1>2, <1>3, <1>4, <1>10 DEF Of
<1>11. ASSUME NEW k \in Key, Found(b, k)
       PROVE  Of(I, k) = {item(Hash[k])}
  <2>1. Hash[k] \in R /\ item(Hash[k]).key = k
    BY <1>3, <1>4, <1>11
  <2>2. item(Hash[k]) \in I
    BY <1>1, <2>1
  <2> QED BY <1>9, <2>1, <2>2 DEF Of
<1> QED BY <1>5, <1>6, <1>7, <1>9, <1>10, <1>11, Zenon DEF I

(***************************************************************************)
(* The invariant                                                           *)
(***************************************************************************)
\* The traffic of a session by where it is: flushed, in the cache, in a goroutine of
\* onEvict, or with the reset that is running.
LEMMA AccountedIs ==
  ASSUME NEW k \in Key
  PROVE  /\ Accounted(k) = flushed[k] + Amount(bucket[BucketOf[k]], k) + pending[k] + Sum(Of(run.items, k))
         /\ Accounted(k)' = flushed'[k] + Amount(bucket'[BucketOf[k]], k) + pending'[k] + Sum(Of(run'.items, k))
<1>1. Accounted(k) = flushed[k] + Amount(bucket[BucketOf[k]], k) + pending[k] + Sum(Of(run.items, k))
  BY DEF Accounted, InCache, Amount, Of
<1>2. Accounted(k)' = flushed'[k] + Amount(bucket'[BucketOf[k]], k) + pending'[k] + Sum(Of(run'.items, k))
  BY DEF Accounted, InCache, Amount, Of
<1> QED BY <1>1, <1>2

\* One bucket changes.
LEMMA RingStep ==
  ASSUME RingInv, NEW c \in 1 .. Buckets, NEW r \in BucketType, Sound(r, c),
         bucket' = [bucket EXCEPT ![c] = r], wrapped \subseteq wrapped', c \notin wrapped' => Young(r)
  PROVE  RingInv'
<1>1. bucket' \in [1 .. Buckets -> BucketType]
  BY DEF RingInv
<1>2. bucket'[c] = r /\ \A d \in (1 .. Buckets) \ {c} : bucket'[d] = bucket[d]
  BY DEF RingInv
<1>3. \A d \in 1 .. Buckets : Sound(bucket'[d], d)
  BY <1>2 DEF RingInv
<1>4. \A d \in 1 .. Buckets : d \notin wrapped' => Young(bucket'[d])
  BY <1>2 DEF RingInv
<1> QED BY <1>1, <1>3, <1>4 DEF RingInv

\* Each of these is a number.
LEMMA PartsType ==
  ASSUME RingInv, RunInv, CountInv, NEW k \in Key
  PROVE  /\ BucketOf[k] \in 1 .. Buckets
         /\ flushed[k] \in Nat /\ pending[k] \in Nat /\ reported[k] \in Nat
         /\ bucket[BucketOf[k]] \in BucketType
         /\ Amount(bucket[BucketOf[k]], k) \in Nat
         /\ Sum(Of(run.items, k)) \in Nat
<1>1. BucketOf[k] \in 1 .. Buckets
  BY XStatsAssumption
<1>2. bucket[BucketOf[k]] \in BucketType
  BY <1>1 DEF RingInv
<1>3. Sum(Of(run.items, k)) \in Nat
  <2>1. run.items \in SUBSET ItemType /\ \A i, j \in run.items : i.key = j.key => i = j
    BY DEF RunInv
  <2> QED BY <2>1, SumType
<1> QED BY <1>1, <1>2, <1>3, AmountType DEF CountInv

\* The traffic of a session stays accounted if as much is added to what is
\* accounted as is reported, or, when the session does not keep its entry, less.
LEMMA TrafficStep ==
  ASSUME StatsInv, wrapped \subseteq wrapped', NEW x \in Key, NEW d \in Nat, NEW e \in Int,
         reported'[x] = reported[x] + d, Accounted(x)' = Accounted(x) + e,
         e <= d, x \in Lone /\ BucketOf[x] \notin wrapped' => e = d
  PROVE  /\ Accounted(x)' <= reported'[x]
         /\ x \in Lone /\ BucketOf[x] \notin wrapped' => Accounted(x)' = reported'[x]
<1>1. Accounted(x) \in Nat /\ reported[x] \in Nat
  BY PartsType, AccountedIs DEF StatsInv
<1>2. /\ Accounted(x) <= reported[x]
      /\ x \in Lone /\ BucketOf[x] \notin wrapped => Accounted(x) = reported[x]
  BY DEF StatsInv, TrafficAccounted, Kept
<1>3. Accounted(x)' <= reported'[x]
  BY <1>1, <1>2
<1>4. ASSUME x \in Lone, BucketOf[x] \notin wrapped'
      PROVE  Accounted(x)' = reported'[x]
  <2>1. e = d /\ Accounted(x) = reported[x]
    BY <1>2, <1>4
  <2> QED BY <1>1, <2>1
<1> QED BY <1>3, <1>4

\* A report of session k that leaves r in its bucket.
Stored(k, r) ==
  /\ reported' = [reported EXCEPT ![k] = @ + 1]
  /\ bucket' = [bucket EXCEPT ![BucketOf[k]] = r]
  /\ UNCHANGED <<run, flushed, pending>>

\* What a report of k does to the counter and the bucket of x.
StoredEffect(k, r, x) ==
  /\ reported'[x] = reported[x] + IF x = k THEN 1 ELSE 0
  /\ bucket'[BucketOf[x]] = IF BucketOf[x] = BucketOf[k] THEN r ELSE bucket[BucketOf[x]]

\* What a report does to the counters and to the other buckets.
LEMMA StoredIs ==
  ASSUME StatsInv, NEW k \in Key, NEW r, Stored(k, r)
  PROVE  RunInv' /\ CountInv' /\ \A x \in Key : StoredEffect(k, r, x)
<1>1. RingInv /\ RunInv /\ CountInv
  BY DEF StatsInv
<1>2. RunInv'
  BY <1>1 DEF RunInv, Stored
<1>3. CountInv'
  BY <1>1 DEF CountInv, Stored
<1>4. ASSUME NEW x \in Key PROVE StoredEffect(k, r, x)
  <2>1. reported \in [Key -> Nat] /\ reported[x] \in Nat
    BY <1>1 DEF CountInv
  <2>2. reported'[x] = reported[x] + IF x = k THEN 1 ELSE 0
    BY <2>1 DEF Stored
  <2>3. bucket \in [1 .. Buckets -> BucketType] /\ BucketOf[x] \in 1 .. Buckets
    BY <1>1, PartsType DEF RingInv
  <2>4. bucket'[BucketOf[x]] = IF BucketOf[x] = BucketOf[k] THEN r ELSE bucket[BucketOf[x]]
    BY <2>3 DEF Stored
  <2> QED BY <2>2, <2>4 DEF StoredEffect
<1> QED BY <1>2, <1>3, <1>4

\* It changes what is accounted by what it changes in the cache.
LEMMA StoredAccounted ==
  ASSUME StatsInv, NEW k \in Key, NEW r, Stored(k, r), NEW x \in Key, NEW e \in Int,
         Amount(bucket'[BucketOf[x]], x) = Amount(bucket[BucketOf[x]], x) + e
  PROVE  Accounted(x)' = Accounted(x) + e
<1> DEFINE f == flushed[x]
           p == pending[x]
           s == Sum(Of(run.items, x))
           a == Amount(bucket[BucketOf[x]], x)
<1>1. f \in Nat /\ p \in Nat /\ s \in Nat /\ a \in Nat
  BY PartsType DEF StatsInv
<1>2. flushed' = flushed /\ pending' = pending /\ run' = run
  BY DEF Stored
<1>3. Accounted(x) = f + a + p + s
  BY AccountedIs
<1>4. Accounted(x)' = f + (a + e) + p + s
  BY <1>2, AccountedIs
<1> HIDE DEF f, p, s, a
<1> QED BY <1>1, <1>3, <1>4

\* ReportStats of a session that has an entry.
LEMMA AddStep ==
  ASSUME StatsInv, NEW k \in Key, Found(bucket[BucketOf[k]], k),
         NEW r, Add(bucket[BucketOf[k]], k, r), Stored(k, r), wrapped' = wrapped
  PROVE  StatsInv'
<1> DEFINE c == BucketOf[k]
           b == bucket[c]
<1>1. RingInv /\ RunInv /\ CountInv
  BY DEF StatsInv
<1>2. c \in 1 .. Buckets /\ b \in BucketType /\ Sound(b, c) /\ (c \notin wrapped => Young(b))
  BY <1>1, PartsType DEF RingInv
<1>3. Add(b, k, r) /\ Found(b, k)
  OBVIOUS
<1>4. bucket' = [bucket EXCEPT ![c] = r]
  BY DEF Stored
<1> HIDE DEF b, c
<1>5. r \in BucketType
  BY Zenon DEF Add
<1>6. /\ Sound(r, c) /\ (Young(b) => Young(r))
      /\ Amount(r, k) = Amount(b, k) + 1
      /\ \A x \in Key \ {k} : Amount(r, x) = Amount(b, x)
  BY <1>2, <1>3, AddSound
<1>7. RingInv'
  <2>1. c \notin wrapped' => Young(r)
    BY <1>2, <1>6
  <2> QED BY <1>1, <1>2, <1>4, <1>5, <1>6, <2>1, RingStep, Zenon
<1>8. RunInv' /\ CountInv' /\ \A x \in Key : StoredEffect(k, r, x)
  BY StoredIs, Zenon
<1>9. ASSUME NEW x \in Key
      PROVE  /\ Accounted(x)' <= reported'[x]
             /\ x \in Lone /\ BucketOf[x] \notin wrapped' => Accounted(x)' = reported'[x]
  <2> DEFINE e == IF x = k THEN 1 ELSE 0
  <2>a. StoredEffect(k, r, x)
    BY <1>8, Zenon
  <2>1. /\ reported'[x] = reported[x] + e
        /\ bucket'[BucketOf[x]] = IF BucketOf[x] = c THEN r ELSE bucket[BucketOf[x]]
    BY <2>a DEF StoredEffect, c
  <2>2. Amount(bucket[BucketOf[x]], x) \in Nat
    BY <1>1, PartsType
  <2>3. Amount(bucket'[BucketOf[x]], x) = Amount(bucket[BucketOf[x]], x) + e
    <3>1. CASE x = k
      <4>1. bucket'[BucketOf[x]] = r /\ e = 1 /\ b = bucket[BucketOf[x]]
        BY <2>1, <3>1, Zenon DEF b, c
      <4> QED BY <1>6, <3>1, <4>1, Zenon
    <3>2. CASE x # k /\ BucketOf[x] = c
      <4>1. Amount(r, x) = Amount(b, x) /\ b = bucket[BucketOf[x]]
        BY <1>6, <3>2, Zenon DEF b
      <4>2. bucket'[BucketOf[x]] = r /\ e = 0
        BY <2>1, <3>2, Zenon
      <4> QED BY <2>2, <4>1, <4>2, SMTT(30)
    <3>3. CASE x # k /\ BucketOf[x] # c
      <4>1. bucket'[BucketOf[x]] = bucket[BucketOf[x]] /\ e = 0
        BY <2>1, <3>3, Zenon
      <4> QED BY <2>2, <4>1, SMTT(30)
    <3> QED BY <3>1, <3>2, <3>3
  <2>4. e \in Nat /\ e \in Int /\ e <= e
    OBVIOUS
  <2> HIDE DEF e
  <2>5. Accounted(x)' = Accounted(x) + e
    BY <2>3, <2>4, StoredAccounted
  <2> QED BY <2>1, <2>4, <2>5, TrafficStep
<1>10. TrafficAccounted'
  BY <1>9 DEF TrafficAccounted, Kept
<1> QED BY <1>7, <1>8, <1>10 DEF StatsInv

\* ReportStats of a session that has no entry, or no longer.
LEMMA PutStep ==
  ASSUME StatsInv, NEW k \in Key, ~Found(bucket[BucketOf[k]], k), Fits(k),
         NEW r, Put(bucket[BucketOf[k]], k, r), Stored(k, r), wrapped \subseteq wrapped',
         BucketOf[k] \notin wrapped' => ~Wraps(bucket[BucketOf[k]], Length[k])
  PROVE  StatsInv'
<1> DEFINE c == BucketOf[k]
           b == bucket[c]
<1>1. RingInv /\ RunInv /\ CountInv
  BY DEF StatsInv
<1>2. c \in 1 .. Buckets /\ b \in BucketType /\ Sound(b, c) /\ (c \notin wrapped => Young(b))
  BY <1>1, PartsType DEF RingInv
<1>3. bucket' = [bucket EXCEPT ![c] = r]
  BY DEF Stored
<1>4. Put(b, k, r) /\ ~Found(b, k) /\ BucketOf[k] = c
  OBVIOUS
<1>5. c \notin wrapped' => Young(b) /\ ~Wraps(b, Length[k])
  BY <1>2
<1> HIDE DEF b, c
<1>6. r \in BucketType
  BY DEF Put
<1>7. Sound(r, c)
  BY <1>2, <1>4, PutSound
<1>8. c \notin wrapped' => Young(r)
  BY <1>2, <1>4, <1>5, PutYoung
<1>9. Gains(b, k, r)
  BY <1>2, <1>4, PutAmount
<1>10. RingInv'
  BY <1>1, <1>2, <1>3, <1>6, <1>7, <1>8, RingStep, Zenon
<1>11. RunInv' /\ CountInv' /\ \A x \in Key : StoredEffect(k, r, x)
  BY StoredIs, Zenon
<1>12. ASSUME NEW x \in Key
       PROVE  /\ Accounted(x)' <= reported'[x]
              /\ x \in Lone /\ BucketOf[x] \notin wrapped' => Accounted(x)' = reported'[x]
  <2> DEFINE d == IF x = k THEN 1 ELSE 0
             old == Amount(bucket[BucketOf[x]], x)
             new == Amount(bucket'[BucketOf[x]], x)
             e == new - old
  <2>a. StoredEffect(k, r, x)
    BY <1>11, Zenon
  <2>1. /\ reported'[x] = reported[x] + d
        /\ bucket'[BucketOf[x]] = IF BucketOf[x] = c THEN r ELSE bucket[BucketOf[x]]
    BY <2>a, Zenon DEF StoredEffect, c
  <2>2. old \in Nat /\ bucket[BucketOf[x]] \in BucketType
    BY <1>1, PartsType
  <2>3. new \in Nat
    BY <1>6, <2>1, <2>2, AmountType
  <2>4. x = k => old = 0 /\ new = 1
    BY <1>9, <2>1 DEF Gains, b, c
  <2>5. x # k /\ BucketOf[x] = c => new <= old
    BY <1>9, <2>1 DEF Gains, b
  <2>6. BucketOf[x] # c => new = old
    BY <2>1
  <2>7. ASSUME x \in Lone, BucketOf[x] \notin wrapped', x # k, BucketOf[x] = c
        PROVE  new = old
    <3>1. Hash[x] # Hash[k]
      BY <2>7 DEF Lone
    <3>2. Amount(r, x) = Amount(b, x)
      BY <1>5, <1>9, <2>7, <3>1 DEF Gains
    <3> QED BY <2>1, <2>7, <3>2 DEF b
  <2> HIDE DEF old, new
  <2>8. e \in Int /\ new = old + e
    BY <2>2, <2>3
  <2>9. d \in Nat /\ (x = k => d = 1) /\ (x # k => d = 0)
    OBVIOUS
  <2>10. (x = k => e = 1) /\ (x # k => e <= 0) /\ (new = old => e = 0)
    <3>1. x # k => new <= old
      BY <2>2, <2>3, <2>5, <2>6
    <3> QED BY <2>2, <2>3, <2>4, <3>1
  <2> HIDE DEF d, e
  <2>11. e <= d
    BY <2>8, <2>9, <2>10
  <2>12. x \in Lone /\ BucketOf[x] \notin wrapped' => e = d
    BY <2>6, <2>7, <2>9, <2>10
  <2>13. Accounted(x)' = Accounted(x) + e
    BY <2>8, StoredAccounted DEF old, new
  <2> QED BY <2>1, <2>8, <2>9, <2>11, <2>12, <2>13, TrafficStep
<1>13. TrafficAccounted'
  BY <1>12 DEF TrafficAccounted, Kept
<1> QED BY <1>10, <1>11, <1>13 DEF StatsInv

\* ReportStats of one unit.
LEMMA ReportStep ==
  ASSUME StatsInv, NEW k \in Key, ReportStats(k)
  PROVE  StatsInv'
<1> DEFINE c == BucketOf[k]
           b == bucket[c]
           n == setLocked(b, k, toValue)
           a == [b EXCEPT !.at[b.m[Hash[k]].idx].amount = AddRxTx(@)]
<1>1. RingInv /\ RunInv /\ CountInv
  BY DEF StatsInv
<1>2. c \in 1 .. Buckets /\ b \in BucketType
  BY <1>1, PartsType
<1>3. CASE /\ Found(b, k) /\ Count(k) /\ UNCHANGED <<run, flushed, pending, wrapped>>
           /\ bucket' = [bucket EXCEPT ![c].at[b.m[Hash[k]].idx].amount = AddRxTx(@)]
  <2>1. bucket' = [bucket EXCEPT ![c] = a]
    BY <1>3, Zenon
  <2>2. Add(b, k, a)
    BY <1>2, AddIs, Zenon
  <2>3. reported' = [reported EXCEPT ![k] = @ + 1]
    BY <1>3, Zenon DEF Count
  <2>4. Found(b, k) /\ UNCHANGED <<run, flushed, pending>> /\ wrapped' = wrapped
    BY <1>3, Zenon
  <2> HIDE DEF a
  <2>5. Stored(k, a)
    BY <2>1, <2>3, <2>4 DEF Stored
  <2> QED BY <2>2, <2>4, <2>5, AddStep
<1>4. CASE /\ ~Found(b, k) /\ Fits(k) /\ Count(k) /\ UNCHANGED <<run, flushed>>
           /\ bucket' = [bucket EXCEPT ![c] = n.bucket]
           /\ Spawn(n.evicted)
           /\ wrapped' = IF Wraps(b, Length[k]) THEN wrapped \cup {c} ELSE wrapped
  <2>1. Put(b, k, n.bucket) /\ n.evicted = {}
    BY <1>2, <1>4, SetIs
  <2> HIDE DEF n
  <2>2. pending' = pending
    <3>1. \A x \in Key : Sum({i \in {} : i.key = x}) = 0
      <4>1. \A x \in Key : {i \in {} : i.key = x} = {}
        OBVIOUS
      <4> QED BY <4>1, SumNone
    <3>2. pending' = [x \in Key |-> pending[x] + Sum({i \in {} : i.key = x})]
      BY <1>4, <2>1 DEF Spawn
    <3>3. pending' = [x \in Key |-> pending[x] + 0]
      BY <3>1, <3>2
    <3> QED BY <1>1, <3>3 DEF CountInv
  <2>3. reported' = [reported EXCEPT ![k] = @ + 1]
    BY <1>4 DEF Count
  <2>4. Stored(k, n.bucket)
    BY <1>4, <2>2, <2>3 DEF Stored
  <2>5. wrapped \subseteq wrapped' /\ (c \notin wrapped' => ~Wraps(b, Length[k]))
    BY <1>4
  <2>6. ~Found(b, k) /\ Fits(k)
    BY <1>4
  <2> QED BY <2>1, <2>4, <2>5, <2>6, PutStep
<1>5. CASE UNCHANGED vars
  BY <1>5 DEF StatsInv, RingInv, RunInv, CountInv, TrafficAccounted, Kept, Accounted, InCache, vars
<1> QED BY <1>3, <1>4, <1>5, Zenon DEF ReportStats, Update, vars

\* The ticker fires.
LEMMA TickStep ==
  ASSUME StatsInv, Tick
  PROVE  StatsInv'
<1>1. RingInv /\ RunInv /\ CountInv /\ TrafficAccounted
  BY DEF StatsInv
<1>2. run' = [next |-> 1, items |-> {}] /\ run.items = {}
  BY <1>1 DEF Tick, IdleRun, RunInv
<1>3. RunInv'
  <2>1. 1 \in 0 .. Buckets + 1 /\ 1 # 0
    BY XStatsAssumption
  <2>2. run' \in [next : 0 .. Buckets + 1, items : SUBSET ItemType]
    BY <1>2, <2>1
  <2> QED BY <1>2, <2>1, <2>2 DEF RunInv
<1>4. RingInv' /\ CountInv'
  BY <1>1 DEF Tick, RingInv, CountInv
<1>5. \A x \in Key : Accounted(x)' = Accounted(x)
  BY <1>2, AccountedIs DEF Tick
<1>6. TrafficAccounted'
  BY <1>1, <1>5 DEF Tick, TrafficAccounted, Kept
<1> QED BY <1>3, <1>4, <1>6 DEF StatsInv

\* The reset of one bucket: what was in it is with the ticker's goroutine.
LEMMA ResetStep ==
  ASSUME StatsInv, ResetBucket
  PROVE  StatsInv'
<1> DEFINE c == run.next
           b == bucket[c]
           I == Items(b, Readable(b))
<1>1. RingInv /\ RunInv /\ CountInv /\ TrafficAccounted
  BY DEF StatsInv
<1>2. /\ c \in 1 .. Buckets /\ b \in BucketType /\ Sound(b, c)
      /\ bucket' = [bucket EXCEPT ![c] = EmptyBucket]
      /\ bucket \in [1 .. Buckets -> BucketType]
  BY <1>1 DEF RingInv, ResetBucket
<1>3. /\ run' = [next |-> c + 1, items |-> run.items \cup I]
      /\ UNCHANGED <<pending, flushed, reported, wrapped>>
  BY DEF ResetBucket
<1>4. /\ I \in SUBSET ItemType
      /\ \A i \in I : BucketOf[i.key] = c
      /\ \A i, j \in I : i.key = j.key => i = j
      /\ \A k \in Key : ~Found(b, k) => Of(I, k) = {}
      /\ \A k \in Key : Found(b, k) => Of(I, k) = {[key |-> k, amount |-> Amount(b, k)]}
  BY <1>2, ResetItems
<1>5. /\ run.items \in SUBSET ItemType
      /\ \A i \in run.items : BucketOf[i.key] < c
      /\ \A i, j \in run.items : i.key = j.key => i = j
  BY <1>1 DEF RunInv
<1> HIDE DEF I, b
<1>6. RingInv'
  BY <1>1, <1>2, <1>3, EmptySound, RingStep, Zenon
<1>7. CountInv'
  BY <1>1, <1>3 DEF CountInv
<1>8. RunInv'
  <2>1. run'.next = c + 1 /\ run'.items = run.items \cup I
    BY <1>3
  <2>2. c + 1 \in 0 .. Buckets + 1 /\ c + 1 # 0
    BY <1>2, XStatsAssumption
  <2>3. run' \in [next : 0 .. Buckets + 1, items : SUBSET ItemType]
    BY <1>3, <1>4, <1>5, <2>2
  <2>4. ASSUME NEW i \in run.items \cup I
        PROVE  BucketOf[i.key] < c + 1
    <3>1. i.key \in Key
      BY <1>4, <1>5 DEF ItemType
    <3>2. BucketOf[i.key] \in Int /\ c \in Int
      BY <1>2, <3>1, XStatsAssumption
    <3>3. CASE i \in I
      BY <1>4, <3>2, <3>3
    <3>4. CASE i \in run.items
      BY <1>5, <3>2, <3>4
    <3> QED BY <3>3, <3>4
  <2>5. ASSUME NEW i \in run.items \cup I, NEW j \in run.items \cup I, i.key = j.key
        PROVE  i = j
    <3>1. ASSUME NEW x \in run.items, NEW y \in I
          PROVE  x.key # y.key
      <4>1. BucketOf[x.key] < c
        BY <1>5
      <4>2. BucketOf[y.key] = c
        BY <1>4
      <4>3. c \in Int
        BY <1>2
      <4> QED BY <4>1, <4>2, <4>3
    <3> QED BY <1>4, <1>5, <2>5, <3>1
  <2> QED BY <2>1, <2>2, <2>3, <2>4, <2>5 DEF RunInv
<1>9. ASSUME NEW x \in Key
      PROVE  Accounted(x)' = Accounted(x)
  <2>1. /\ BucketOf[x] \in 1 .. Buckets
        /\ flushed[x] \in Nat /\ pending[x] \in Nat /\ Sum(Of(run.items, x)) \in Nat
        /\ Amount(bucket[BucketOf[x]], x) \in Nat
    BY <1>1, PartsType
  <2>2. flushed'[x] = flushed[x] /\ pending'[x] = pending[x] /\ run'.items = run.items \cup I
    BY <1>3
  <2>3. Of(run.items \cup I, x) = Of(run.items, x) \cup Of(I, x)
    BY DEF Of
  <2>4. CASE BucketOf[x] # c
    <3>1. bucket'[BucketOf[x]] = bucket[BucketOf[x]]
      BY <1>2, <2>1, <2>4
    <3>2. Of(I, x) = {}
      BY <1>4, <2>4 DEF Of
    <3>3. Of(run'.items, x) = Of(run.items, x)
      BY <2>2, <2>3, <3>2
    <3> QED BY <2>2, <3>1, <3>3, AccountedIs, Zenon
  <2>5. CASE BucketOf[x] = c
    <3>1. bucket'[BucketOf[x]] = EmptyBucket /\ bucket[BucketOf[x]] = b
      BY <1>2, <2>5 DEF b
    <3>2. Amount(EmptyBucket, x) = 0
      BY EmptySound DEF Amount, Found
    <3>3. Of(run.items, x) = {}
      BY <1>2, <1>5, <2>5 DEF Of
    <3>4. Of(run'.items, x) = Of(I, x)
      BY <2>2, <2>3, <3>3
    <3>5. Sum(Of(run.items, x)) = 0
      BY <3>3, SumNone
    <3>6. Sum(Of(I, x)) = Amount(b, x)
      <4>1. CASE ~Found(b, x)
        BY <1>4, <4>1, SumNone DEF Amount
      <4>2. CASE Found(b, x)
        <5> DEFINE y == [key |-> x, amount |-> Amount(b, x)]
        <5>1. y.amount = Amount(b, x) /\ y.amount \in Nat
          BY <2>1, <3>1
        <5>2. Of(I, x) = {y}
          BY <1>4, <4>2
        <5> HIDE DEF y
        <5> QED BY <5>1, <5>2, SumOne
      <4> QED BY <4>1, <4>2
    <3>7. Accounted(x) = flushed[x] + Amount(b, x) + pending[x] + 0
      BY <3>1, <3>5, AccountedIs
    <3>8. Accounted(x)' = flushed[x] + 0 + pending[x] + Amount(b, x)
      BY <2>2, <3>1, <3>2, <3>4, <3>6, AccountedIs, Zenon
    <3>9. Amount(b, x) \in Nat
      BY <2>1, <3>1
    <3> QED BY <2>1, <3>7, <3>8, <3>9
  <2> QED BY <2>4, <2>5
<1>10. TrafficAccounted'
  BY <1>1, <1>3, <1>9 DEF TrafficAccounted, Kept
<1> QED BY <1>6, <1>7, <1>8, <1>10 DEF StatsInv

\* The end of Reset: what the goroutine collected is on its way to onFlush.
LEMMA ResetEndStep ==
  ASSUME StatsInv, ResetEnd
  PROVE  StatsInv'
<1>1. RingInv /\ RunInv /\ CountInv /\ TrafficAccounted
  BY DEF StatsInv
<1>2. /\ run' = [next |-> 0, items |-> {}]
      /\ pending' = [k \in Key |-> pending[k] + Sum(Of(run.items, k))]
      /\ UNCHANGED <<bucket, flushed, reported, wrapped>>
  BY DEF ResetEnd, IdleRun, Spawn, Of
<1>3. RingInv'
  BY <1>1, <1>2 DEF RingInv
<1>4. RunInv'
  <2>1. 0 \in 0 .. Buckets + 1
    BY XStatsAssumption
  <2>2. run' \in [next : 0 .. Buckets + 1, items : SUBSET ItemType] /\ run'.items = {}
    BY <1>2, <2>1
  <2> QED BY <2>2 DEF RunInv
<1>5. CountInv'
  <2>1. \A x \in Key : pending[x] + Sum(Of(run.items, x)) \in Nat
    BY <1>1, PartsType
  <2> QED BY <1>1, <1>2, <2>1 DEF CountInv
<1>6. ASSUME NEW x \in Key
      PROVE  Accounted(x)' = Accounted(x)
  <2>1. /\ flushed[x] \in Nat /\ pending[x] \in Nat /\ Sum(Of(run.items, x)) \in Nat
        /\ Amount(bucket[BucketOf[x]], x) \in Nat
    BY <1>1, PartsType
  <2>2. Sum(Of(run'.items, x)) = 0
    <3>1. Of(run'.items, x) = {}
      BY <1>2 DEF Of
    <3> QED BY <3>1, SumNone
  <2>3. pending'[x] = pending[x] + Sum(Of(run.items, x))
    BY <1>2
  <2>4. flushed'[x] = flushed[x] /\ bucket' = bucket
    BY <1>2
  <2> DEFINE f == flushed[x]
             p == pending[x]
             s == Sum(Of(run.items, x))
             a == Amount(bucket[BucketOf[x]], x)
  <2>5. Accounted(x) = f + a + p + s
    BY AccountedIs
  <2>6. Accounted(x)' = f + a + (p + s) + 0
    BY <2>2, <2>3, <2>4, AccountedIs
  <2>7. f \in Nat /\ p \in Nat /\ s \in Nat /\ a \in Nat
    BY <2>1
  <2> HIDE DEF f, p, s, a
  <2> QED BY <2>5, <2>6, <2>7
<1>7. TrafficAccounted'
  BY <1>1, <1>2, <1>6 DEF TrafficAccounted, Kept
<1> QED BY <1>3, <1>4, <1>5, <1>7 DEF StatsInv

\* A goroutine of onEvict calls onFlush.
LEMMA FlushStep ==
  ASSUME StatsInv, NEW k \in Key, onEvict(k)
  PROVE  StatsInv'
<1>1. RingInv /\ RunInv /\ CountInv /\ TrafficAccounted
  BY DEF StatsInv
<1>2. PICK n \in 1 .. pending[k] :
        /\ pending' = [pending EXCEPT ![k] = @ - n]
        /\ flushed' = [flushed EXCEPT ![k] = @ + n]
        /\ UNCHANGED <<bucket, run, reported, wrapped>>
  BY Zenon DEF onEvict
<1>3. RingInv' /\ RunInv'
  BY <1>1, <1>2 DEF RingInv, RunInv
<1>4. pending[k] \in Nat /\ flushed[k] \in Nat /\ pending[k] - n \in Nat /\ flushed[k] + n \in Nat /\ n \in Nat
  BY <1>1 DEF CountInv
<1>5. CountInv'
  BY <1>1, <1>2, <1>4 DEF CountInv
<1>6. ASSUME NEW x \in Key
      PROVE  Accounted(x)' = Accounted(x)
  <2>1. /\ flushed[x] \in Nat /\ pending[x] \in Nat /\ Sum(Of(run.items, x)) \in Nat
        /\ Amount(bucket[BucketOf[x]], x) \in Nat
    BY <1>1, PartsType
  <2>2. run' = run /\ bucket' = bucket
    BY <1>2
  <2>3. CASE x # k
    <3>1. flushed'[x] = flushed[x] /\ pending'[x] = pending[x]
      BY <1>1, <1>2, <2>3 DEF CountInv
    <3> QED BY <2>2, <3>1, AccountedIs
  <2>4. CASE x = k
    <3>1. flushed'[x] = flushed[x] + n /\ pending'[x] = pending[x] - n
      BY <1>1, <1>2, <2>4 DEF CountInv
    <3>2. Accounted(x)' =
            (flushed[x] + n) + Amount(bucket[BucketOf[x]], x) + (pending[x] - n) + Sum(Of(run.items, x))
      BY <2>2, <3>1, AccountedIs
    <3> DEFINE f == flushed[x]
               p == pending[x]
               s == Sum(Of(run.items, x))
               a == Amount(bucket[BucketOf[x]], x)
    <3>3. Accounted(x) = f + a + p + s /\ Accounted(x)' = (f + n) + a + (p - n) + s
      BY <3>2, AccountedIs
    <3>4. f \in Nat /\ p \in Nat /\ s \in Nat /\ a \in Nat
      BY <2>1
    <3> HIDE DEF f, p, s, a
    <3> QED BY <1>4, <3>3, <3>4
  <2> QED BY <2>3, <2>4
<1>7. TrafficAccounted'
  BY <1>1, <1>2, <1>6 DEF TrafficAccounted, Kept
<1> QED BY <1>3, <1>5, <1>7 DEF StatsInv

\* In the beginning every bucket is empty and nothing is reported.
LEMMA InitInv == Init => StatsInv
<1> SUFFICES ASSUME Init PROVE StatsInv
  OBVIOUS
<1>1. RingInv
  BY EmptySound DEF Init, RingInv
<1>2. RunInv
  <2>1. 0 \in 0 .. Buckets + 1
    BY XStatsAssumption
  <2> QED BY <2>1 DEF Init, IdleRun, RunInv
<1>3. CountInv
  BY DEF Init, CountInv
<1>4. ASSUME NEW x \in Key
      PROVE  Accounted(x) = 0 /\ reported[x] = 0
  <2>1. bucket[BucketOf[x]] = EmptyBucket
    BY XStatsAssumption DEF Init
  <2>2. Amount(EmptyBucket, x) = 0
    BY EmptySound DEF Amount, Found
  <2>3. Sum(Of(run.items, x)) = 0
    <3>1. Of(run.items, x) = {}
      BY DEF Init, IdleRun, Of
    <3> QED BY <3>1, SumNone
  <2>4. flushed[x] = 0 /\ pending[x] = 0 /\ reported[x] = 0
    BY DEF Init
  <2>5. Accounted(x) = 0 + 0 + 0 + 0
    BY <2>1, <2>2, <2>3, <2>4, AccountedIs
  <2> QED BY <2>4, <2>5
<1>5. TrafficAccounted
  BY <1>4 DEF TrafficAccounted
<1> QED BY <1>1, <1>2, <1>3, <1>5 DEF StatsInv

\* Every step keeps the invariant.
LEMMA NextInv == StatsInv /\ [Next]_vars => StatsInv'
<1> SUFFICES ASSUME StatsInv, [Next]_vars PROVE StatsInv'
  OBVIOUS
<1>1. CASE UNCHANGED vars
  BY <1>1 DEF StatsInv, RingInv, RunInv, CountInv, TrafficAccounted, Kept, Accounted, InCache, vars
<1>2. CASE RunStep
  BY <1>2, TickStep, ResetStep, ResetEndStep DEF RunStep
<1>3. ASSUME NEW k \in Key, ReportStats(k) \/ onEvict(k)
      PROVE  StatsInv'
  BY <1>3, ReportStep, FlushStep
<1> QED BY <1>1, <1>2, <1>3 DEF Next

(***************************************************************************)
(* Theorems                                                                *)
(***************************************************************************)
\* Reports, resets and flushes, in any order, keep the invariant.
LEMMA Invariance == Spec => []StatsInv
<1>1. Init => StatsInv
  BY InitInv
<1>2. StatsInv /\ [Next]_vars => StatsInv'
  BY NextInv
<1> QED BY <1>1, <1>2, PTL DEF Spec

\* What the invariant says of a bucket is what its readers rely on.
LEMMA RingIsIntact == StatsInv => ReadableIsIntact
<1> SUFFICES ASSUME StatsInv PROVE ReadableIsIntact
  OBVIOUS
<1>1. RingInv /\ RunInv /\ CountInv
  BY DEF StatsInv
<1>2. TypeOK
  <2>1. ASSUME NEW c \in 1 .. Buckets
        PROVE  /\ bucket[c].idx \in 0 .. ChunkSize * Chunks /\ bucket[c].gen \in 1 .. MaxGen
               /\ \A h \in Slot : bucket[c].m[h] \in [gen : 0 .. MaxGen, idx : Place]
    <3>1. bucket[c] \in BucketType
      BY <1>1 DEF RingInv
    <3>2. bucket[c].idx \in Place
      BY <3>1 DEF BucketType
    <3>3. bucket[c].idx \in 0 .. ChunkSize * Chunks
      <4>1. ChunkSize * Chunks \in Nat
        BY XCacheAssumption
      <4> QED BY <3>2, <4>1 DEF Place
    <3> QED BY <3>1, <3>3 DEF BucketType, MapType
  <2>2. run.next \in 0 .. Buckets + 1 /\ flushed \in [Key -> Nat] /\ reported \in [Key -> Nat]
    BY <1>1 DEF RunInv, CountInv
  <2> QED BY <2>1, <2>2 DEF TypeOK
<1>3. ASSUME NEW c \in 1 .. Buckets, NEW h \in Readable(bucket[c])
      PROVE  LET e == readItem(bucket[c], h)
                 i == bucket[c].m[h].idx
             IN  /\ e # NoEntry /\ e.intact /\ Hash[e.key] = h
                 /\ i \div ChunkSize = (i + Length[e.key]) \div ChunkSize
  <2>1. h \in Slot /\ bucket[c] \in BucketType
    BY <1>1 DEF RingInv, Readable
  <2>2. Known(bucket[c], h, c)
    BY <1>1, <2>1 DEF RingInv, Sound
  <2>3. Whole(bucket[c], h, c)
    BY <2>1, <2>2, ReadableIs DEF Current, Last
  <2>4. readItem(bucket[c], h) # NoEntry
    <3>1. NoEntry.intact = FALSE
      BY DEF NoEntry
    <3>2. readItem(bucket[c], h).intact = TRUE
      BY <2>3, Zenon DEF Whole, readItem
    <3> QED BY <3>1, <3>2
  <2> QED BY <2>3, <2>4, Zenon DEF Whole, readItem
<1>4. ASSUME NEW c \in 1 .. Buckets, NEW h \in Slot, bucket[c].m[h] # Absent
      PROVE  bucket[c].m[h].gen = bucket[c].gen \/ bucket[c].gen = nextGen(bucket[c].m[h].gen)
  BY <1>1, <1>4 DEF RingInv, Sound, Known, Current, Last
<1> QED BY <1>2, <1>3, <1>4 DEF ReadableIsIntact

\* Whatever readItem and getLocked accept is an entry of the right hash, all bytes
\* of which are the ones written with it, inside one chunk, for every size of the
\* ring, every hash and length of the keys, and every number of generations above
\* two: an entry is never taken for a newer one when their numbers start again.
THEOREM Intact == Spec => []ReadableIsIntact
BY Invariance, RingIsIntact, PTL

\* However reports and resets of the buckets interleave, and however many entries
\* are displaced, nothing that ReportStats counted reaches onFlush twice; of a
\* session that keeps its entry nothing is lost on the way.
THEOREM Accounts == Spec => []TrafficAccounted
<1>1. StatsInv => TrafficAccounted
  BY DEF StatsInv
<1> QED BY <1>1, Invariance, PTL
=============================================================================
