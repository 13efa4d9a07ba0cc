------------------------------- MODULE XCache -------------------------------
(***************************************************************************)
(* A bucket of the in-memory cache (xcache/cache.go): a ring of chunks     *)
(* that holds the entries, and a map from the hash of a key to the place   *)
(* and the generation of its entry.  Nothing is removed from the ring: an  *)
(* entry is over once the ring has come round to it, and what the map says *)
(* of it is refused by comparing its place and generation with the ring's. *)
(*                                                                         *)
(* The operators are on the state b of one bucket.  A caller holds the     *)
(* bucket's lock around each.  An entry is written at its start; whatever  *)
(* begins inside it is destroyed, and what reaches into it is damaged.     *)
(***************************************************************************)
EXTENDS Integers, FiniteSets

CONSTANTS Key,
          Hash,       \* hash of a key, as the map uses it
          Length,     \* length of the encoded entry of a key
          ChunkSize, Chunks,
          MaxGen      \* 2^24 - 1 in the code

ASSUME XCacheAssumption ==
  /\ ChunkSize \in Nat \ {0} /\ Chunks \in Nat \ {0} /\ MaxGen \in Nat /\ MaxGen > 2
  /\ Length \in [Key -> Nat \ {0}]

Slot == {Hash[k] : k \in Key}
Place == 0 .. ChunkSize * Chunks - 1

Absent == [gen |-> 0, idx |-> 0]    \* 0, what the map returns for a missing key
NoEntry == [key |-> "none", amount |-> 0, intact |-> FALSE]

EmptyBucket == [m |-> [h \in Slot |-> Absent], at |-> [i \in Place |-> NoEntry], idx |-> 0, gen |-> 1]

\* Mutant: an entry of the last generation is accepted wherever it is.
acceptsOverwritten(b, v) ==
  \/ v.gen = b.gen /\ v.idx < b.idx
  \/ v.gen + 1 = b.gen
  \/ v.gen = MaxGen /\ b.gen = 1

\* The condition readItem, getLocked and cleanLocked share.
accepts(b, v) ==
  \/ v.gen = b.gen /\ v.idx < b.idx
  \/ v.gen + 1 = b.gen /\ v.idx >= b.idx
  \/ v.gen = MaxGen /\ b.gen = 1 /\ v.idx >= b.idx

\* The map's entries that are readable, and what is read there.
Readable(b) == {h \in Slot : b.m[h] # Absent /\ accepts(b, b.m[h])}
readItem(b, h) == b.at[b.m[h].idx]

\* Copies of the items of some of the map's entries.
Items(b, H) == {[key |-> readItem(b, h).key, amount |-> readItem(b, h).amount] : h \in H}

\* The map keeps what is readable.  The evicted items are read again to be
\* handed to onEvict, and readItem refuses them.
cleanLocked(b) ==
  LET keep == Readable(b)
      drop == {h \in Slot : b.m[h] # Absent} \ keep
  IN  [bucket |-> [b EXCEPT !.m = IF keep = {} THEN @
                                  ELSE [h \in Slot |-> IF h \in keep THEN @[h] ELSE Absent]],
       evicted |-> Items(b, drop \cap Readable(b))]

\* The bytes of entry e written from place i on.
Write(at, i, e) ==
  LET n == Length[e.key]
  IN  [j \in Place |->
         IF j = i THEN e
         ELSE IF j > i /\ j < i + n THEN NoEntry
         ELSE IF at[j] # NoEntry /\ j < i /\ i < j + Length[at[j].key] THEN [at[j] EXCEPT !.intact = FALSE]
         ELSE at[j]]

\* Where the next entry of length n goes: behind the last one, or to the next
\* chunk when it would reach the end of this one, or to the beginning of the
\* ring when that was the last.
Wraps(b, n) ==
  /\ (b.idx + n) \div ChunkSize > b.idx \div ChunkSize
  /\ (b.idx + n) \div ChunkSize >= Chunks

Start(b, n) ==
  IF Wraps(b, n) THEN 0
  ELSE IF (b.idx + n) \div ChunkSize > b.idx \div ChunkSize
  THEN ((b.idx + n) \div ChunkSize) * ChunkSize
  ELSE b.idx

nextGen(gen) == IF (gen + 1) % (MaxGen + 1) = 0 THEN 1 ELSE gen + 1

Fits(k) == Length[k] < ChunkSize

\* setLocked for an entry that fits: the new bucket and what goes to onEvict.
setLocked(b, k, amount) ==
  LET n == Length[k]
      gen == IF Wraps(b, n) THEN nextGen(b.gen) ELSE b.gen
      w == [at |-> Write(b.at, Start(b, n), [key |-> k, amount |-> amount, intact |-> TRUE]),
            m |-> [b.m EXCEPT ![Hash[k]] = [gen |-> gen, idx |-> Start(b, n)]],
            idx |-> Start(b, n) + n,
            gen |-> gen]
  IN  IF Wraps(b, n) THEN cleanLocked(w) ELSE [bucket |-> w, evicted |-> {}]

\* Whether getLocked finds k: another key with the same hash is no data.
Found(b, k) == Hash[k] \in Readable(b) /\ readItem(b, Hash[k]).key = k
=============================================================================
