------------------------------- MODULE TTLMap -------------------------------
(***************************************************************************)
(* The map with deadlines and a bounded size (xttlmap/ttlmap.go).          *)
(*                                                                         *)
(* A map from keys to nodes, and a doubly linked list of the same nodes in *)
(* order of use, whose tail is evicted.  Set, Delete and Resize hold the   *)
(* lock throughout and are one step each.  Get looks the node up under the *)
(* read lock, then reads its deadline without the lock, then takes the     *)
(* lock to move it to the front: its steps interleave with everything      *)
(* else.  The clean-up is a goroutine of its own.  A loop that never ends  *)
(* keeps the lock: nothing that needs the lock happens any more.           *)
(*                                                                         *)
(* The deadline read without the lock may race with Set, and a time has    *)
(* several words: the outcome of such a comparison is arbitrary.  What the *)
(* values are decides nothing, and they are left out.                      *)
(***************************************************************************)
EXTENDS Integers, Sequences, FiniteSets, SequencesExt

CONSTANTS Key, Getter,
          TTL,       \* times to live of the entries, 0 for no deadline
          MaxNodes,  \* bound on the nodes Set allocates
          Sizes,     \* maximal sizes given to New and Resize
          MaxNow,    \* bound on the clock
          CleanupInterval

ASSUME TTLMapAssumption == MaxNodes \in Nat /\ Sizes \subseteq Nat /\ MaxNow \in Nat

VARIABLES s,           \* items, head, tail and the links of the nodes
          node,        \* key and deadline of each node
          maxSize, lastCleanup, cleaning,
          cleaner,     \* the goroutine of cleanupExpired
          get,         \* the call of Get each getter is in
          allocated,   \* number of nodes allocated so far
          now,
          hung,        \* a loop of removeOldest does not end
          recent,      \* history: the keys in order of use, newest first
          stale        \* history: a Get moved a node that had left the map

mapVars == <<s, node, maxSize, lastCleanup, cleaning, cleaner, allocated, hung>>
vars == <<mapVars, get, now, recent, stale>>

Node == 1 .. MaxNodes   \* addresses of nodes
Nil == 0                \* the nil pointer
NoKey == "none"
Zero == 0               \* the zero time: no deadline
expired(deadline, t) == deadline # Zero /\ t > deadline

IdleGet == [pc |-> "idle", key |-> NoKey, node |-> Nil,
            time |-> 0, deadline |-> Zero]
FreeNode == [key |-> NoKey, deadline |-> Zero]
IdleCleaner == [pc |-> "none", now |-> 0, keys |-> {}]

Mapped == {k \in Key : s.items[k] # Nil}
size(m) == Cardinality({k \in Key : m.items[k] # Nil})

(***************************************************************************)
(* The list.  The links of a node that was removed keep their values.      *)
(***************************************************************************)
Put(f, x, y) == IF x = Nil THEN f ELSE [f EXCEPT ![x] = y]

addToFront(m, n) ==
  [m EXCEPT !.next = Put(@, n, m.head), !.prev = Put(Put(@, n, Nil), m.head, n),
            !.head = n, !.tail = IF @ = Nil THEN n ELSE @]

removeNode(m, n) ==
  LET p == m.prev[n]  q == m.next[n]
  IN  [m EXCEPT !.next = Put(@, p, q), !.prev = Put(@, q, p),
                !.head = IF p = Nil THEN q ELSE @, !.tail = IF q = Nil THEN p ELSE @]

\* Mutant: a node in use is left where it is.
moveToFrontNot(m, n) == m

moveToFront(m, n) == IF n = m.head THEN m ELSE addToFront(removeNode(m, n), n)

Drop(m, k) == removeNode([m EXCEPT !.items[k] = Nil], m.items[k])

removeOldest(m) ==
  IF m.tail = Nil THEN m
  ELSE removeNode([m EXCEPT !.items[node[m.tail].key] = Nil], m.tail)

\* The loops of Set and Resize: removeOldest until at most limit entries are
\* left.  The tail only moves along prev, so a loop that has not ended after a
\* round for each node does not end.
ShrinkTo(m, limit) ==
  LET r[i \in 0 .. Cardinality(Node) + 1] == IF i = 0 THEN m ELSE
        LET x == r[i - 1] IN IF size(x) <= limit THEN x ELSE removeOldest(x)
  IN  r[Cardinality(Node) + 1]

\* The nodes something still refers to, with map m and calls of Get c.
Live(m, c) ==
  LET roots == {m.items[k] : k \in Key} \cup {m.head, m.tail} \cup {c[g].node : g \in Getter}
      closed(N) == \A n \in N \ {Nil} : m.next[n] \in N /\ m.prev[n] \in N
  IN  {n \in Node : \A N \in {N \in SUBSET (Node \cup {Nil}) : Nil \in N /\ roots \subseteq N} :
                      closed(N) => n \in N}

\* A step's effect on the memory: the nodes nothing refers to are free.
Store(map, content, c) ==
  \E m \in {map} : \E live \in {Live(m, c)} :
    /\ s' = [m EXCEPT !.next = [n \in Node |-> IF n \in live THEN @[n] ELSE Nil],
                     !.prev = [n \in Node |-> IF n \in live THEN @[n] ELSE Nil]]
    /\ node' = [n \in Node |-> IF n \in live THEN content[n] ELSE FreeNode]
    /\ get' = c

(***************************************************************************)
(* The operations                                                          *)
(***************************************************************************)
Init ==
  /\ s = [items |-> [k \in Key |-> Nil], head |-> Nil, tail |-> Nil,
          next |-> [n \in Node |-> Nil], prev |-> [n \in Node |-> Nil]]
  /\ node = [n \in Node |-> FreeNode]
  /\ maxSize \in Sizes
  /\ lastCleanup = 1 /\ cleaning = FALSE /\ cleaner = IdleCleaner
  /\ get = [g \in Getter |-> IdleGet]
  /\ now = 1 /\ allocated = 0
  /\ hung = FALSE /\ recent = <<>> /\ stale = FALSE

\* The end of Set and Delete.
StartCleanup ==
  IF now - lastCleanup > CleanupInterval /\ ~cleaning
  THEN cleaning' = TRUE /\ cleaner' = [IdleCleaner EXCEPT !.pc = "collect"] /\ lastCleanup' = now
  ELSE UNCHANGED <<cleaning, cleaner, lastCleanup>>

\* The order of use is followed until a node that had left the map is moved.
Order(keys) == recent' = IF stale THEN <<>> ELSE keys

cleanVars == <<lastCleanup, cleaning, cleaner>>
\* A loop that does not end: what it does to the map, nobody sees.
Hang == hung' = TRUE /\ UNCHANGED <<allocated, s, node, get, maxSize, cleanVars, now, recent, stale>>

SetExisting(k, d) ==
  /\ ~hung /\ k \in Mapped
  /\ Store(moveToFront(s, s.items[k]), [node EXCEPT ![s.items[k]].deadline = d], get)
  /\ Order(<<k>> \o Remove(recent, k))
  /\ UNCHANGED <<allocated, maxSize, cleanVars, now, hung, stale>>

\* Set puts the entry into node n, with the map m that is left of the old one.
Insert(m, n, k, d) ==
  /\ Store([addToFront(m, n) EXCEPT !.items[k] = n],
           [node EXCEPT ![n] = [key |-> k, deadline |-> d]], get)
  /\ Order(<<k>> \o SubSeq(recent, 1, IF Len(recent) < maxSize THEN Len(recent) ELSE maxSize - 1))
  /\ allocated' = allocated + 1
  /\ StartCleanup
  /\ UNCHANGED <<maxSize, now, hung, stale>>

SetNew(k, d) ==
  /\ ~hung /\ k \notin Mapped
  /\ \E m \in {ShrinkTo(s, maxSize - 1)} :
         \/ size(m) >= maxSize /\ Hang
         \/ /\ size(m) < maxSize
            /\ allocated < MaxNodes
            /\ Insert(m, allocated + 1, k, d)

\* Delete, Get and the clean-up take the keys ks out of the map and the list.
Evict(ks, c) ==
  /\ Store(FoldLeft(Drop, s, SetToSeq(ks)), node, c)
  /\ Order(SelectSeq(recent, LAMBDA k : k \notin ks))

Delete(k) ==
  /\ ~hung
  /\ Evict({k} \cap Mapped, get)
  /\ StartCleanup
  /\ UNCHANGED <<allocated, maxSize, now, hung, stale>>

Resize(max) ==
  /\ ~hung /\ max # maxSize
  /\ \E m \in {IF max < maxSize THEN ShrinkTo(s, max) ELSE s} :
         \/ max < maxSize /\ size(m) > max /\ Hang
         \/ /\ max > maxSize \/ size(m) <= max
            /\ Store(m, node, get) /\ maxSize' = max
            /\ Order(SubSeq(recent, 1, IF Len(recent) <= max THEN Len(recent) ELSE max))
            /\ UNCHANGED <<allocated, cleanVars, now, hung, stale>>

\* Get, the look-up: a key that is not there is answered at once.
GetLookup(g, k) ==
  /\ ~hung /\ get[g].pc = "idle" /\ k \in Mapped
  /\ LET n == s.items[k]
     IN  get' = [get EXCEPT ![g] = [IdleGet EXCEPT !.pc = "check", !.key = k, !.node = n,
                                            !.deadline = node[n].deadline]]
  /\ UNCHANGED <<mapVars, now, recent, stale>>

\* Get, the clock and the deadline, read without the lock.
GetCheck(g) ==
  /\ get[g].pc = "check"
  /\ LET d == node[get[g].node].deadline
     IN  \E e \in IF d = get[g].deadline THEN {expired(d, now)} ELSE BOOLEAN :
           get' = [get EXCEPT ![g].pc = IF e THEN "purge" ELSE "touch", ![g].deadline = Zero,
                              ![g].time = IF e THEN now ELSE 0]
  /\ UNCHANGED <<mapVars, now, recent, stale>>

\* Get of an expired entry: checked again with the lock, and removed.
GetPurge(g) ==
  /\ ~hung /\ get[g].pc = "purge"
  /\ Evict({k \in {get[g].key} \cap Mapped : expired(node[s.items[k]].deadline, get[g].time)},
           [get EXCEPT ![g] = IdleGet])
  /\ UNCHANGED <<allocated, maxSize, cleanVars, now, hung, stale>>

\* Get, the move to the front of the node it looked up.
GetTouch(g) ==
  LET n == get[g].node  k == get[g].key
  IN  /\ ~hung /\ get[g].pc = "touch"
      /\ Store(moveToFront(s, n), node, [get EXCEPT ![g] = IdleGet])
      /\ stale' = (stale \/ s.items[k] # n)
      /\ Order(IF s.items[k] = n THEN <<k>> \o Remove(recent, k) ELSE <<>>)
      /\ UNCHANGED <<allocated, maxSize, cleanVars, now, hung>>

(***************************************************************************)
(* The clean-up                                                            *)
(***************************************************************************)
\* The keys that have expired, collected under the read lock.
CleanCollect ==
  /\ ~hung /\ cleaner.pc = "collect"
  /\ \E t \in lastCleanup .. now :
       LET ks == {k \in Mapped : expired(node[s.items[k]].deadline, t)}
       IN  cleaner' = [pc |-> IF ks = {} THEN "reset" ELSE "delete", now |-> IF ks = {} THEN 0 ELSE t, keys |-> ks]
  /\ UNCHANGED <<allocated, s, node, maxSize, lastCleanup, cleaning, hung, get, now, recent, stale>>

\* Mutant: keys are deleted without a second look at their deadline.
CleanDeleteUnchecked ==
  /\ ~hung /\ cleaner.pc = "delete"
  /\ Evict(cleaner.keys \cap Mapped, get)
  /\ cleaner' = [cleaner EXCEPT !.pc = "reset", !.keys = {}]
  /\ UNCHANGED <<allocated, maxSize, lastCleanup, cleaning, hung, now, stale>>

CleanDelete ==
  /\ ~hung /\ cleaner.pc = "delete"
  /\ Evict({k \in cleaner.keys \cap Mapped : expired(node[s.items[k]].deadline, cleaner.now)}, get)
  /\ cleaner' = [cleaner EXCEPT !.pc = "reset", !.now = 0, !.keys = {}]
  /\ UNCHANGED <<allocated, maxSize, lastCleanup, cleaning, hung, now, stale>>

CleanReset ==
  /\ ~hung /\ cleaner.pc = "reset"
  /\ cleaning' = FALSE /\ cleaner' = IdleCleaner
  /\ UNCHANGED <<allocated, s, node, maxSize, lastCleanup, hung, get, now, recent, stale>>

Tick == now < MaxNow /\ now' = now + 1 /\ UNCHANGED <<mapVars, get, recent, stale>>

Caller ==
  \/ \E k \in Key, ttl \in TTL :
       LET d == IF ttl = 0 THEN Zero ELSE now + ttl - 1
       IN  SetExisting(k, d) \/ SetNew(k, d)
  \/ \E k \in Key : Delete(k)
  \/ \E max \in Sizes : Resize(max)

GetStep(g) == GetCheck(g) \/ GetPurge(g) \/ GetTouch(g)
Clean == CleanCollect \/ CleanDelete \/ CleanReset

Next ==
  \/ Caller \/ Clean \/ Tick
  \/ \E g \in Getter : GetStep(g) \/ \E k \in Key : GetLookup(g, k)

Spec == Init /\ [][Next]_vars

(***************************************************************************)
(* Properties                                                              *)
(***************************************************************************)
\* The variables have their types: items and the links hold nodes or nil, the
\* goroutines are at a point of Get or cleanupExpired.
TypeOK ==
  /\ s \in [items : [Key -> Node \cup {Nil}], head : Node \cup {Nil}, tail : Node \cup {Nil},
            next : [Node -> Node \cup {Nil}], prev : [Node -> Node \cup {Nil}]]
  /\ maxSize \in Sizes /\ cleaning \in BOOLEAN /\ hung \in BOOLEAN /\ stale \in BOOLEAN
  /\ cleaner.pc \in {"none", "collect", "delete", "reset"} /\ cleaner.keys \subseteq Key
  /\ \A g \in Getter : get[g].pc \in {"idle", "check", "purge", "touch"}

\* As long as no Get has moved a node that had left the map, the list holds just
\* the nodes of the map, linked in both directions, in the order in which their
\* keys were last used: so removeOldest evicts the least recently used entry, and the
\* eviction loops of Set and Resize end, except with a maximal size of 0.  Whatever
\* the Gets in flight do, the map never holds more than maxSize entries.
SoundUntilStaleMove ==
  /\ TypeOK
  /\ ~stale =>
       LET at(i) == IF i \in DOMAIN recent THEN s.items[recent[i]] ELSE Nil
       IN  /\ Mapped = ToSet(recent) /\ IsInjective(recent)
           /\ s.head = at(1) /\ s.tail = at(Len(recent))
           /\ \A i \in DOMAIN recent :
                /\ node[at(i)].key = recent[i]
                /\ s.next[at(i)] = at(i + 1) /\ s.prev[at(i)] = at(i - 1)
  /\ hung => stale \/ maxSize = 0
  /\ size(s) <= maxSize

\* cleanupExpired removes no entry whose deadline has not passed, also when the
\* entry was set again after its key was collected.
CleanupSparesFresh ==
  [][cleaner.pc = "delete" /\ cleaner'.pc = "reset" =>
       \A k \in Mapped : s'.items[k] = Nil => expired(node[s.items[k]].deadline, now)]_vars
=============================================================================
