-------------------------- MODULE Resolvers_proof ---------------------------
(***************************************************************************)
(* Proofs about Resolvers: both lists stay sound, a lookup asks every      *)
(* server, and a server is protected while it is asked.                    *)
(*                                                                         *)
(* First the operations, apart from their use: each keeps a linked list a  *)
(* ring, by an argument over the sets closed under its links, and add's    *)
(* loop keeps the slice one of entities, by induction over its rounds.     *)
(* Then what a step of a lookup does to its place and to the data, once    *)
(* for all properties, and the invariant: BaseInv and OrderInv for the     *)
(* lists, and on top of these WalkInv and ProtectInv.                      *)
(***************************************************************************)
EXTENDS Resolvers, FiniteSetTheorems, SequenceTheorems, WellFoundedInduction, TLAPS

(***************************************************************************)
(* Induction                                                               *)
(***************************************************************************)
\* A set of natural numbers has a least one.
LEMMA Least ==
  ASSUME NEW T, T \subseteq Nat, T # {}
  PROVE  \E x \in T : \A y \in T : x <= y
  <1> DEFINE R == OpToRel(<, Nat)
  <1>1. IsWellFoundedOn(R, Nat)
    BY NatLessThanWellFounded, Zenon
  <1>2. \A x, y \in Nat : <<y, x>> \in R <=> y < x
    BY DEF OpToRel
  <1> HIDE DEF R
  <1>3. PICK x \in T : \A y \in T : ~(<<y, x>> \in R)
    BY <1>1, WFMin, Zenon
  <1>4. ASSUME NEW y \in T PROVE x <= y
    <2>1. ~(y < x)
      BY <1>2, <1>3, Zenon
    <2> QED
      BY <2>1
  <1> QED
    BY <1>4

\* Induction over the natural numbers, for a set.
LEMMA NatSetInduction ==
  ASSUME NEW S, 0 \in S, \A n \in Nat : n \in S => n + 1 \in S
  PROVE  \A n \in Nat : n \in S
  <1> DEFINE T == {n \in Nat : n \notin S}
  <1>1. SUFFICES ASSUME T # {} PROVE FALSE
    OBVIOUS
  <1>2. PICK x \in T : \A y \in T : x <= y
    BY <1>1, Least, Zenon
  <1>3. x # 0 /\ x - 1 \in Nat /\ x - 1 \notin T
    BY <1>2
  <1>4. x = (x - 1) + 1
    BY <1>2
  <1> QED
    BY <1>2, <1>3, <1>4

(***************************************************************************)
(* The linked list                                                         *)
(***************************************************************************)
Ring(l) == l.members \cup {Root}

ListType == [next : [Nodes -> Nodes \cup {NilElement}], prev : [Nodes -> Nodes \cup {NilElement}],
             members : SUBSET Element, len : Nat]

LEMMA NodesAreNumbers ==
  /\ Root \notin Element /\ Nodes \subseteq Nat /\ NilElement \notin Nodes /\ IsFiniteSet(Nodes)
  <1>1. IsFiniteSet(Element \cup {Root})
    BY ListAssumption, FS_AddElement
  <1> QED
    BY <1>1, ListAssumption DEF Root, Nodes, NilElement

\* The links backward are those forward, reversed; no member is its own neighbour.
LEMMA RingLinks ==
  ASSUME NEW l \in ListType, WellFormed(l)
  PROVE  /\ \A x \in Ring(l) : l.next[x] \in Ring(l) /\ l.prev[l.next[x]] = x
         /\ \A x \in Ring(l) : l.prev[x] \in Ring(l) /\ l.next[l.prev[x]] = x
         /\ \A x \in l.members : l.next[x] # x /\ l.prev[x] # x
         /\ IsFiniteSet(l.members) /\ IsFiniteSet(Ring(l)) /\ Ring(l) \subseteq Nodes
  <1>1. \A x \in Ring(l) : l.next[x] \in Ring(l) /\ l.prev[l.next[x]] = x
    BY DEF WellFormed, Ring
  <1>2. IsFiniteSet(l.members) /\ IsFiniteSet(Ring(l)) /\ Ring(l) \subseteq Nodes
    <2>1. IsFiniteSet(l.members)
      BY ListAssumption, FS_Subset DEF ListType
    <2> QED
      BY <2>1, FS_AddElement DEF Ring, ListType, Nodes
  <1>3. ASSUME NEW x \in Ring(l) PROVE l.prev[x] \in Ring(l) /\ l.next[l.prev[x]] = x
    <2> DEFINE f == [y \in Ring(l) |-> l.next[y]]
    <2>1. f \in Injection(Ring(l), Ring(l))
      BY <1>1 DEF Injection, IsInjective
    <2>2. f \in Surjection(Ring(l), Ring(l))
      BY <2>1, <1>2, FS_Injection
    <2>3. PICK y \in Ring(l) : f[y] = x
      BY <2>2, Zenon DEF Surjection
    <2> QED
      BY <2>3, <1>1
  <1>4. ASSUME NEW x \in l.members PROVE l.next[x] # x /\ l.prev[x] # x
    <2>1. SUFFICES ASSUME l.next[x] = x PROVE FALSE
      BY <1>1, <1>3 DEF Ring
    <2> DEFINE N == Ring(l) \ {x}
    <2>2. \A y \in N : l.next[y] \in N
      BY <1>1, <2>1 DEF Ring
    <2>3. Root \in N
      BY NodesAreNumbers DEF Ring, ListType
    <2> QED
      BY <2>2, <2>3, Zenon DEF WellFormed, Connected, Ring
  <1> QED
    BY <1>1, <1>2, <1>3, <1>4

LEMMA LinkFields ==
  ASSUME NEW l \in ListType, NEW e, NEW a
  PROVE  /\ Link(l, e, a).next = [l.next EXCEPT ![e] = l.next[a], ![a] = e]
         /\ Link(l, e, a).prev = [l.prev EXCEPT ![e] = a, ![l.next[a]] = e]
         /\ Link(l, e, a).members = l.members /\ Link(l, e, a).len = l.len
         /\ e \in Nodes /\ a \in Nodes /\ l.next[a] \in Nodes => Link(l, e, a) \in ListType
  BY Zenon DEF Link, ListType

LEMMA UnlinkFields ==
  ASSUME NEW l \in ListType, NEW e
  PROVE  /\ Unlink(l, e).next = [l.next EXCEPT ![l.prev[e]] = l.next[e]]
         /\ Unlink(l, e).prev = [l.prev EXCEPT ![l.next[e]] = l.prev[e]]
         /\ Unlink(l, e).members = l.members /\ Unlink(l, e).len = l.len
         /\ l.next[e] \in Nodes /\ l.prev[e] \in Nodes => Unlink(l, e) \in ListType
  BY Zenon DEF Unlink, ListType

LEMMA InsertFields ==
  ASSUME NEW l \in ListType, NEW e \in Nodes, NEW a \in Nodes, l.next[a] \in Nodes, NEW k, k = insert(l, e, a)
  PROVE  /\ k.next = [l.next EXCEPT ![e] = l.next[a], ![a] = e] /\ k.prev = [l.prev EXCEPT ![e] = a, ![l.next[a]] = e]
         /\ k.members = l.members \cup {e} /\ k.len = l.len + 1
  <1>1. PICK m : m = Link(l, e, a)
    OBVIOUS
  <1>2. m \in ListType
    BY <1>1, LinkFields, Zenon
  <1>3. k = [m EXCEPT !.members = @ \cup {e}, !.len = @ + 1]
    BY <1>1 DEF insert
  <1>4. k.next = m.next /\ k.prev = m.prev /\ k.members = m.members \cup {e} /\ k.len = m.len + 1
    BY <1>2, <1>3 DEF ListType
  <1>5. /\ m.next = [l.next EXCEPT ![e] = l.next[a], ![a] = e] /\ m.prev = [l.prev EXCEPT ![e] = a, ![l.next[a]] = e]
        /\ m.members = l.members /\ m.len = l.len
    BY <1>1 DEF Link, ListType
  <1> QED
    BY <1>4, <1>5

\* insert links a new element behind one of the ring.
LEMMA InsertSound ==
  ASSUME NEW l \in ListType, WellFormed(l), NEW e \in Element \ l.members, NEW a \in Ring(l)
  PROVE  /\ insert(l, e, a) \in ListType /\ WellFormed(insert(l, e, a))
         /\ insert(l, e, a).members = l.members \cup {e}
  <1> DEFINE k == insert(l, e, a)
             b == l.next[a]
  <1>1. /\ a \in Nodes /\ b \in Ring(l) /\ b \in Nodes /\ l.prev[b] = a /\ e \in Nodes
        /\ e \notin Ring(l) /\ e # a /\ e # b
    <2>1. e \in Nodes /\ e \notin Ring(l)
      BY NodesAreNumbers DEF Ring, Nodes
    <2> QED
      BY <2>1, RingLinks
  <1>2. /\ k.next = [l.next EXCEPT ![e] = b, ![a] = e] /\ k.prev = [l.prev EXCEPT ![e] = a, ![b] = e]
        /\ k.members = l.members \cup {e} /\ k.len = l.len + 1
    <2>1. k = insert(l, e, a)
      OBVIOUS
    <2>2. e \in Nodes /\ a \in Nodes /\ l.next[a] \in Nodes
      BY <1>1
    <2> HIDE DEF k, b
    <2>3. /\ k.next = [l.next EXCEPT ![e] = l.next[a], ![a] = e] /\ k.prev = [l.prev EXCEPT ![e] = a, ![l.next[a]] = e]
          /\ k.members = l.members \cup {e} /\ k.len = l.len + 1
      BY <2>1, <2>2, InsertFields
    <2> QED
      BY <2>3 DEF b
  <1>3. /\ k.next[e] = b /\ k.next[a] = e /\ \A x \in Nodes \ {e, a} : k.next[x] = l.next[x]
        /\ k.prev[e] = a /\ k.prev[b] = e /\ \A x \in Nodes \ {e, b} : k.prev[x] = l.prev[x]
    BY <1>1, <1>2 DEF ListType
  <1>4. k \in ListType
    <2>1. PICK m : m = Link(l, e, a)
      OBVIOUS
    <2>2. m \in ListType
      BY <2>1, <1>1, LinkFields, Zenon
    <2>3. k = [m EXCEPT !.members = @ \cup {e}, !.len = @ + 1]
      BY <2>1 DEF insert
    <2>4. m.members \cup {e} \in SUBSET Element /\ m.len + 1 \in Nat
      BY <2>2 DEF ListType
    <2> HIDE DEF k
    <2> QED
      BY <2>2, <2>3, <2>4, Zenon DEF ListType
  <1> HIDE DEF k, b
  <1>5. ASSUME NEW x \in Ring(k) PROVE k.next[x] \in Ring(k) /\ k.prev[k.next[x]] = x
    <2>1. Ring(k) = Ring(l) \cup {e}
      BY <1>2 DEF Ring
    <2>2. CASE x = e
      BY <2>1, <2>2, <1>1, <1>3
    <2>3. CASE x = a
      BY <2>1, <2>3, <1>1, <1>3
    <2>4. CASE x # e /\ x # a
      <3>1. x \in Ring(l) /\ x \in Nodes /\ l.next[x] \in Ring(l) /\ l.next[x] \in Nodes /\ l.prev[l.next[x]] = x
        BY <2>1, <2>4, RingLinks
      <3>2. l.next[x] # b /\ l.next[x] # e
        BY <3>1, <2>4, <1>1
      <3> QED
        BY <3>1, <3>2, <2>1, <2>4, <1>3
    <2> QED
      BY <2>2, <2>3, <2>4
  <1>6. Connected(k)
    <2>1. SUFFICES ASSUME NEW N \in SUBSET Ring(k), Root \in N, \A x \in N : k.next[x] \in N
                   PROVE  k.members \subseteq N
      BY DEF Connected, Ring
    <2> DEFINE O == N \ {e}
    <2>2. O \subseteq Ring(l) /\ Root \in O
      BY <2>1, <1>1, <1>2 DEF Ring
    <2>3. ASSUME NEW x \in O PROVE l.next[x] \in O
      <3>1. x \in Ring(l) /\ x \in Nodes /\ x # e /\ l.next[x] \in Ring(l)
        BY <2>2, RingLinks
      <3>2. CASE x = a
        BY <3>2, <2>1, <1>1, <1>3 DEF b
      <3>3. CASE x # a
        BY <3>1, <3>3, <2>1, <1>1, <1>3
      <3> QED
        BY <3>2, <3>3
    <2>4. l.members \subseteq O
      BY <2>2, <2>3, Zenon DEF WellFormed, Connected, Ring
    <2>5. a \in N
      BY <2>1, <2>4 DEF Ring
    <2> QED
      BY <2>1, <2>4, <2>5, <1>2, <1>3
  <1>7. k.len = Cardinality(k.members)
    <2>1. IsFiniteSet(l.members) /\ e \notin l.members /\ l.len = Cardinality(l.members)
      BY RingLinks DEF WellFormed
    <2>2. Cardinality(l.members \cup {e}) = Cardinality(l.members) + 1
      BY <2>1, FS_AddElement, Zenon
    <2> QED
      BY <2>1, <2>2, <1>2
  <1>8. \A x \in Element \ k.members : k.next[x] = NilElement /\ k.prev[x] = NilElement
    <2>1. SUFFICES ASSUME NEW x \in Element \ k.members PROVE k.next[x] = NilElement /\ k.prev[x] = NilElement
      OBVIOUS
    <2>2. x \in Nodes \ {e, a, b} /\ x \in Element \ l.members
      BY <1>1, <1>2, NodesAreNumbers DEF Ring, Nodes
    <2> QED
      BY <2>2, <1>3 DEF WellFormed
  <1> QED
    <2>1. WellFormed(k)
      BY <1>5, <1>6, <1>7, <1>8 DEF WellFormed, Ring
    <2> QED
      BY <2>1, <1>2, <1>4 DEF k, b

\* remove takes a member out of the ring.
LEMMA RemoveSound ==
  ASSUME NEW l \in ListType, WellFormed(l), NEW e \in l.members
  PROVE  /\ remove(l, e) \in ListType /\ WellFormed(remove(l, e))
         /\ remove(l, e).members = l.members \ {e}
  <1> DEFINE k == remove(l, e)
             a == l.prev[e]
             b == l.next[e]
  <1>1. /\ e \in Ring(l) /\ a \in Ring(l) /\ b \in Ring(l) /\ e # a /\ e # b /\ e # Root
        /\ e \in Nodes /\ a \in Nodes /\ b \in Nodes
        /\ l.next[a] = e /\ l.prev[b] = e
    <2>1. e \in Ring(l) /\ e # Root
      BY NodesAreNumbers DEF Ring, ListType
    <2> QED
      BY <2>1, RingLinks
  <1>2. /\ k.next = [l.next EXCEPT ![a] = b, ![e] = NilElement]
        /\ k.prev = [l.prev EXCEPT ![b] = a, ![e] = NilElement]
        /\ k.members = l.members \ {e} /\ k.len = l.len - 1
    <2>1. PICK m : m = Unlink(l, e)
      OBVIOUS
    <2>2. m \in ListType
      BY <2>1, <1>1, UnlinkFields, Zenon
    <2>3. k = [m EXCEPT !.next[e] = NilElement, !.prev[e] = NilElement, !.members = @ \ {e}, !.len = @ - 1]
      BY <2>1 DEF remove
    <2>4. /\ k.next = [m.next EXCEPT ![e] = NilElement] /\ k.prev = [m.prev EXCEPT ![e] = NilElement]
          /\ k.members = m.members \ {e} /\ k.len = m.len - 1
      BY <2>2, <2>3 DEF ListType
    <2> HIDE DEF k
    <2> QED
      BY <2>1, <2>4, UnlinkFields, Zenon
  <1>3. /\ k.next[e] = NilElement /\ k.next[a] = b /\ \A x \in Nodes \ {e, a} : k.next[x] = l.next[x]
        /\ k.prev[e] = NilElement /\ k.prev[b] = a /\ \A x \in Nodes \ {e, b} : k.prev[x] = l.prev[x]
    BY <1>1, <1>2 DEF ListType
  <1>4. k.len = Cardinality(k.members) /\ k.len \in Nat
    <2>1. Cardinality(k.members) = l.len - 1 /\ IsFiniteSet(k.members)
      <3>1. IsFiniteSet(l.members) /\ l.len = Cardinality(l.members)
        BY RingLinks DEF WellFormed
      <3>2. Cardinality(l.members \ {e}) = Cardinality(l.members) - 1 /\ IsFiniteSet(l.members \ {e})
        BY <3>1, FS_RemoveElement
      <3> QED
        BY <3>1, <3>2, <1>2
    <2> QED
      BY <2>1, <1>2, FS_CardinalityType
  <1>5. k \in ListType
    <2>1. Unlink(l, e) \in ListType /\ Unlink(l, e).len - 1 \in Nat
      BY <1>1, <1>2, <1>4, UnlinkFields, Zenon
    <2> QED
      BY <2>1, Zenon DEF remove, ListType
  <1>6. Ring(k) = Ring(l) \ {e}
    BY <1>1, <1>2 DEF Ring
  <1> HIDE DEF k, a, b
  <1>7. ASSUME NEW x \in Ring(k) PROVE k.next[x] \in Ring(k) /\ k.prev[k.next[x]] = x
    <2>1. CASE x = a
      BY <2>1, <1>1, <1>3, <1>6
    <2>2. CASE x # a
      <3>1. x \in Ring(l) /\ x \in Nodes /\ x # e /\ l.next[x] \in Ring(l) /\ l.next[x] \in Nodes /\ l.prev[l.next[x]] = x
        BY <1>6, RingLinks
      <3>2. l.next[x] # b /\ l.next[x] # e
        BY <3>1, <2>2, <1>1 DEF a
      <3> QED
        BY <3>1, <3>2, <2>2, <1>3, <1>6
    <2> QED
      BY <2>1, <2>2
  <1>8. Connected(k)
    <2>1. SUFFICES ASSUME NEW N \in SUBSET Ring(k), Root \in N, \A x \in N : k.next[x] \in N
                   PROVE  k.members \subseteq N
      BY DEF Connected, Ring
    <2>2. ASSUME NEW x \in N, x # a PROVE l.next[x] \in N
      <3>1. x \in Nodes \ {e, a}
        BY <2>1, <2>2, <1>6, RingLinks
      <3> QED
        BY <3>1, <1>3, <2>1
    <2>3. CASE a \in N
      <3> DEFINE O == N \cup {e}
      <3>1. O \subseteq Ring(l) /\ Root \in O
        BY <2>1, <1>1, <1>6
      <3>2. b \in N
        BY <2>1, <2>3, <1>3
      <3>3. ASSUME NEW x \in O PROVE l.next[x] \in O
        <4>1. x = e \/ x = a \/ (x \in N /\ x # a)
          OBVIOUS
        <4> QED
          BY <4>1, <3>2, <2>2, <1>1 DEF b
      <3> QED
        BY <3>1, <3>3, <1>2, Zenon DEF WellFormed, Connected, Ring
    <2>4. CASE a \notin N
      <3>1. \A x \in N : l.next[x] \in N
        BY <2>2, <2>4
      <3>2. N \subseteq Ring(l)
        BY <2>1, <1>6
      <3>3. l.members \subseteq N
        BY <3>1, <3>2, <2>1 DEF WellFormed, Connected, Ring
      <3> QED
        BY <3>3, <2>1, <1>6
    <2> QED
      BY <2>3, <2>4
  <1>9. ASSUME NEW x \in Element \ k.members PROVE k.next[x] = NilElement /\ k.prev[x] = NilElement
    <2>1. CASE x = e
      BY <2>1, <1>3
    <2>2. CASE x # e
      <3>1. x \in Nodes \ {e, a, b} /\ x \in Element \ l.members
        BY <1>1, <1>2, <2>2, NodesAreNumbers DEF Ring, Nodes
      <3> QED
        BY <3>1, <1>3 DEF WellFormed
    <2> QED
      BY <2>1, <2>2
  <1> QED
    BY <1>2, <1>4, <1>5, <1>7, <1>8, <1>9, SMTT(30) DEF WellFormed, Ring, k

\* move takes a member out and inserts it again.
LEMMA MoveSound ==
  ASSUME NEW l \in ListType, WellFormed(l), NEW e \in l.members
  PROVE  /\ move(l, e, Root) \in ListType /\ WellFormed(move(l, e, Root))
         /\ move(l, e, Root).members = l.members
  <1> DEFINE k == move(l, e, Root)
  <1>1. PICK u : u = Unlink(l, e)
    OBVIOUS
  <1>2. PICK r : r = remove(l, e)
    OBVIOUS
  <1>3. /\ e \in Nodes /\ e # Root /\ Root \in Nodes /\ e \in Element
        /\ l.next[e] \in Nodes /\ l.prev[e] \in Nodes /\ l.next[e] # e /\ l.prev[e] # e
    <2>1. e \in Element /\ e \in Ring(l) /\ e # Root
      BY NodesAreNumbers DEF Ring, ListType
    <2> QED
      BY <2>1, RingLinks DEF Nodes
  <1>4. u \in ListType /\ u.members = l.members /\ u.len = l.len
    BY <1>1, <1>3, UnlinkFields, Zenon
  <1>5. r \in ListType /\ WellFormed(r) /\ r.members = l.members \ {e} /\ r.len = l.len - 1
    <2>1. r = [u EXCEPT !.next[e] = NilElement, !.prev[e] = NilElement, !.members = @ \ {e}, !.len = @ - 1]
      BY <1>1, <1>2 DEF remove
    <2> QED
      BY <2>1, <1>2, <1>4, RemoveSound DEF ListType
  <1>6. r.next = [u.next EXCEPT ![e] = NilElement] /\ r.prev = [u.prev EXCEPT ![e] = NilElement]
    BY <1>1, <1>2, <1>4 DEF remove, ListType
  <1>7. PICK i : i = insert(r, e, Root)
    OBVIOUS
  <1>8. i \in ListType /\ WellFormed(i) /\ i.members = l.members
    <2>1. e \in Element \ r.members /\ Root \in Ring(r)
      BY <1>3, <1>5 DEF Ring
    <2>2. i \in ListType /\ WellFormed(i) /\ i.members = r.members \cup {e}
      BY <2>1, <1>5, <1>7, InsertSound
    <2> QED
      BY <2>2, <1>5
  <1>9. r.next[Root] = u.next[Root] /\ u.next[Root] \in Nodes /\ u.next[Root] # e
    <2>1. r.next[Root] = u.next[Root]
      BY <1>3, <1>4, <1>6 DEF ListType
    <2>2. r.next[Root] \in Ring(r) /\ Ring(r) \subseteq Nodes /\ e \notin Ring(r)
      BY <1>3, <1>5, RingLinks, Zenon DEF Ring
    <2> QED
      BY <2>1, <2>2
  <1>10. /\ i.next = [u.next EXCEPT ![e] = u.next[Root], ![Root] = e]
         /\ i.prev = [u.prev EXCEPT ![e] = Root, ![u.next[Root]] = e]
         /\ i.len = l.len
    <2>1. PICK m : m = Link(r, e, Root)
      OBVIOUS
    <2>2. /\ m.next = [r.next EXCEPT ![e] = r.next[Root], ![Root] = e]
          /\ m.prev = [r.prev EXCEPT ![e] = Root, ![r.next[Root]] = e] /\ m.len = r.len
      BY <2>1, <1>5 DEF Link, ListType
    <2>3. m \in ListType
      BY <2>1, <1>3, <1>5, <1>9, LinkFields, Zenon
    <2>4. i.next = m.next /\ i.prev = m.prev /\ i.len = m.len + 1
      BY <2>1, <2>3, <1>7 DEF insert, ListType
    <2>5. [r.next EXCEPT ![e] = r.next[Root], ![Root] = e] = [u.next EXCEPT ![e] = u.next[Root], ![Root] = e]
      BY <1>3, <1>4, <1>6, <1>9 DEF ListType
    <2>6. [r.prev EXCEPT ![e] = Root, ![r.next[Root]] = e] = [u.prev EXCEPT ![e] = Root, ![u.next[Root]] = e]
      BY <1>3, <1>4, <1>6, <1>9 DEF ListType
    <2>7. l.len - 1 + 1 = l.len
      BY DEF ListType
    <2> QED
      BY <2>2, <2>4, <2>5, <2>6, <2>7, <1>5
  <1>11. /\ k.next = [u.next EXCEPT ![e] = u.next[Root], ![Root] = e]
         /\ k.prev = [u.prev EXCEPT ![e] = Root, ![u.next[Root]] = e]
         /\ k.members = l.members /\ k.len = l.len /\ k \in ListType
    <2>1. k = Link(u, e, Root)
      BY <1>1, <1>3 DEF move
    <2> HIDE DEF k
    <2>2. k \in ListType
      BY <2>1, <1>3, <1>4, <1>9, LinkFields, Zenon
    <2> QED
      BY <2>1, <2>2, <1>4 DEF Link, ListType
  <1> HIDE DEF k
  <1>12. k = i
    BY <1>8, <1>10, <1>11 DEF ListType
  <1> QED
    BY <1>8, <1>12 DEF k

\* What the list's operations return, for the code that uses them.
LEMMA ListOperations ==
  ASSUME NEW l \in ListType, WellFormed(l)
  PROVE  /\ Front(l) # NilElement => Front(l) \in l.members
         /\ \A e : NextOf(l, e) # NilElement => NextOf(l, e) \in l.members
         /\ \A e \in Element \ l.members :
              /\ PushBack(l, e) \in ListType /\ WellFormed(PushBack(l, e))
              /\ PushBack(l, e).members = l.members \cup {e}
         /\ \A e \in l.members :
              /\ Remove(l, e) \in ListType /\ WellFormed(Remove(l, e))
              /\ Remove(l, e).members = l.members \ {e}
         /\ \A e : /\ MoveToFront(l, e) \in ListType /\ WellFormed(MoveToFront(l, e))
                   /\ MoveToFront(l, e).members = l.members
  <1>1. ASSUME Front(l) # NilElement PROVE Front(l) \in l.members
    <2>1. l.len # 0 /\ Front(l) = l.next[Root]
      BY <1>1 DEF Front
    <2>2. SUFFICES ASSUME l.next[Root] = Root PROVE FALSE
      <3>1. l.next[Root] \in l.members \cup {Root}
        BY DEF WellFormed
      <3> QED
        BY <3>1, <2>1
    <2> DEFINE N == {Root}
    <2>3. N \in SUBSET Ring(l) /\ Root \in N /\ \A x \in N : l.next[x] \in N
      BY <2>2 DEF Ring
    <2>4. l.members \subseteq {Root}
      BY <2>3, Zenon DEF WellFormed, Connected, Ring
    <2>5. l.members = {}
      BY <2>4, NodesAreNumbers DEF ListType
    <2> QED
      BY <2>1, <2>5, FS_EmptySet DEF WellFormed
  <1>2. ASSUME NEW e, NextOf(l, e) # NilElement PROVE NextOf(l, e) \in l.members
    BY <1>2, RingLinks, Zenon DEF NextOf, Ring
  <1>3. ASSUME NEW e \in Element \ l.members
        PROVE  /\ PushBack(l, e) \in ListType /\ WellFormed(PushBack(l, e))
               /\ PushBack(l, e).members = l.members \cup {e}
    <2>1. l.prev[Root] \in Ring(l)
      BY RingLinks, Zenon DEF Ring
    <2> QED
      BY <2>1, InsertSound DEF PushBack
  <1>4. ASSUME NEW e \in l.members
        PROVE  /\ Remove(l, e) \in ListType /\ WellFormed(Remove(l, e))
               /\ Remove(l, e).members = l.members \ {e}
    BY RemoveSound DEF Remove
  <1>5. ASSUME NEW e
        PROVE  /\ MoveToFront(l, e) \in ListType /\ WellFormed(MoveToFront(l, e))
               /\ MoveToFront(l, e).members = l.members
    BY MoveSound DEF MoveToFront
  <1> QED
    BY <1>1, <1>2, <1>3, <1>4, <1>5

\* ListOf is what its comment says, and sound.
LEMMA ListOfPushed ==
  ASSUME NEW n \in Nat, 1 .. n \subseteq Element
  PROVE  /\ ListOf(0) = EmptyList
         /\ n + 1 \in Element => ListOf(n + 1) = PushBack(ListOf(n), n + 1)
         /\ ListOf(n) \in ListType /\ WellFormed(ListOf(n))
  <1> DEFINE l == ListOf(n)
  <1>1. l \in ListType
    <2>1. ASSUME NEW e \in Nodes
          PROVE  /\ (IF e = n THEN Root ELSE IF e < n THEN e + 1 ELSE NilElement) \in Nodes \cup {NilElement}
                 /\ (IF e = Root THEN n ELSE IF e <= n THEN e - 1 ELSE NilElement) \in Nodes \cup {NilElement}
      <3>1. e \in Nat /\ \A k \in 0 .. n : k \in Nodes
        BY NodesAreNumbers DEF Nodes, Root
      <3> QED
        BY <3>1 DEF Root
    <2> QED
      BY <2>1 DEF ListOf, ListType
  <1>2. Ring(l) = 0 .. n /\ Ring(l) \subseteq Nodes
    BY NodesAreNumbers DEF Ring, ListOf, Root, Nodes
  <1>3. ASSUME NEW x \in Ring(l) PROVE l.next[x] \in Ring(l) /\ l.prev[l.next[x]] = x
    <2>1. x \in 0 .. n /\ x \in Nodes /\ \A y \in 0 .. n : y \in Nodes
      BY <1>2
    <2>2. l.next[x] \in 0 .. n /\ (x = n => l.next[x] = 0) /\ (x # n => l.next[x] = x + 1)
      <3>1. l.next[x] = IF x = n THEN 0 ELSE IF x < n THEN x + 1 ELSE NilElement
        BY <2>1 DEF ListOf, Root
      <3> HIDE DEF l
      <3>2. CASE x = n
        BY <3>1, <3>2
      <3>3. CASE x # n
        <4>1. x < n /\ x \in Nat
          BY <3>3, <2>1
        <4> QED
          BY <3>1, <3>3, <4>1
      <3> QED
        BY <3>2, <3>3
    <2>3. \A y \in 0 .. n : l.prev[y] = IF y = 0 THEN n ELSE y - 1
      BY <2>1 DEF ListOf, Root
    <2> HIDE DEF l
    <2> QED
      BY <2>1, <2>2, <2>3, <1>2
  <1>4. Connected(l)
    <2>1. SUFFICES ASSUME NEW N \in SUBSET Ring(l), Root \in N, \A x \in N : l.next[x] \in N
                   PROVE  l.members \subseteq N
      BY DEF Connected, Ring
    <2> DEFINE S == {k \in Nat : k <= n => k \in N}
    <2>2. 0 \in S
      BY <2>1 DEF Root
    <2>3. ASSUME NEW k \in Nat, k \in S PROVE k + 1 \in S
      <3>1. SUFFICES ASSUME k + 1 <= n PROVE k + 1 \in N
        OBVIOUS
      <3>2. k \in N /\ k < n /\ k \in Nodes
        BY <3>1, <2>3, <1>2
      <3>3. l.next[k] = k + 1
        BY <3>2 DEF ListOf
      <3> QED
        BY <3>2, <3>3, <2>1
    <2>4. \A k \in Nat : k \in S
      <3> HIDE DEF S
      <3> QED
        BY <2>2, <2>3, NatSetInduction
    <2> QED
      BY <2>4 DEF ListOf
  <1>5. l.len = Cardinality(l.members)
    <2>1. Cardinality(1 .. n) = n
      BY FS_Interval
    <2> QED
      BY <2>1 DEF ListOf
  <1>6. ASSUME NEW e \in Element \ l.members PROVE l.next[e] = NilElement /\ l.prev[e] = NilElement
    BY NodesAreNumbers, ListAssumption DEF ListOf, Nodes, Root
  <1>7. ListOf(0) = EmptyList
    <2>1. \A e \in Nodes : e \in Nat
      BY NodesAreNumbers
    <2>2. /\ ListOf(0).next = EmptyList.next /\ ListOf(0).prev = EmptyList.prev
          /\ ListOf(0).members = EmptyList.members /\ ListOf(0).len = EmptyList.len
      <3>1. ListOf(0).next = EmptyList.next
        BY <2>1 DEF ListOf, EmptyList, Root
      <3>2. ListOf(0).prev = EmptyList.prev
        BY <2>1 DEF ListOf, EmptyList, Root
      <3>3. 1 .. 0 = {}
        OBVIOUS
      <3> QED
        BY <3>1, <3>2, <3>3 DEF ListOf, EmptyList
    <2> QED
      BY <2>2 DEF ListOf, EmptyList
  <1>8. ASSUME n + 1 \in Element PROVE ListOf(n + 1) = PushBack(l, n + 1)
    <2>1. l.prev[Root] = n /\ l.next[n] = Root
      BY <1>2 DEF ListOf, Root, Nodes
    <2>2. PICK k : k = insert(l, n + 1, n)
      OBVIOUS
    <2>3. /\ k \in ListType /\ k.members = 1 .. n + 1 /\ k.len = n + 1
          /\ k.next = [l.next EXCEPT ![n + 1] = Root, ![n] = n + 1]
          /\ k.prev = [l.prev EXCEPT ![n + 1] = n, ![Root] = n + 1]
      <3>1. WellFormed(l)
        BY <1>3, <1>4, <1>5, <1>6 DEF WellFormed, Ring
      <3>2. n \in Ring(l) /\ n + 1 \in Element \ l.members /\ l.members = 1 .. n /\ l.len = n
        BY <1>2, <1>8 DEF ListOf
      <3>3. (1 .. n) \cup {n + 1} = 1 .. n + 1
        OBVIOUS
      <3>4. n \in Nodes /\ n + 1 \in Nodes /\ Root \in Nodes
        BY <1>2, <1>8 DEF Nodes
      <3> HIDE DEF l
      <3>5. k \in ListType
        BY <3>1, <3>2, <2>2, <1>1, InsertSound
      <3> QED
        <4>1. /\ k.next = [l.next EXCEPT ![n + 1] = l.next[n], ![n] = n + 1]
              /\ k.prev = [l.prev EXCEPT ![n + 1] = n, ![l.next[n]] = n + 1]
              /\ k.members = l.members \cup {n + 1} /\ k.len = l.len + 1
          BY <3>4, <2>1, <2>2, <1>1, InsertFields
        <4> QED
          BY <4>1, <3>2, <3>3, <3>5, <2>1
    <2>4. k.next = ListOf(n + 1).next /\ k.prev = ListOf(n + 1).prev
      <3>1. n + 1 \in Nodes /\ n \in Nodes /\ Root \in Nodes /\ \A e \in Nodes : e \in Nat
        BY <1>2, <1>8, NodesAreNumbers DEF Nodes
      <3>2. l.next = [e \in Nodes |-> IF e = n THEN Root ELSE IF e < n THEN e + 1 ELSE NilElement]
        BY DEF ListOf
      <3>3. l.prev = [e \in Nodes |-> IF e = Root THEN n ELSE IF e <= n THEN e - 1 ELSE NilElement]
        BY DEF ListOf
      <3> HIDE DEF l
      <3>4. k.next = [e \in Nodes |-> IF e = n + 1 THEN Root ELSE IF e < n + 1 THEN e + 1 ELSE NilElement]
        <4>1. ASSUME NEW e \in Nodes
              PROVE  k.next[e] = IF e = n + 1 THEN Root ELSE IF e < n + 1 THEN e + 1 ELSE NilElement
          <5>1. k.next[e] = IF e = n + 1 THEN Root ELSE IF e = n THEN n + 1 ELSE l.next[e]
            BY <2>3, <3>1, <3>2
          <5>2. e \in Nat /\ l.next[e] = IF e = n THEN Root ELSE IF e < n THEN e + 1 ELSE NilElement
            BY <3>1, <3>2
          <5> QED
            BY <5>1, <5>2
        <4> QED
          BY <4>1, <2>3, <3>2, Zenon
      <3>5. k.prev = [e \in Nodes |-> IF e = Root THEN n + 1 ELSE IF e <= n + 1 THEN e - 1 ELSE NilElement]
        <4>1. ASSUME NEW e \in Nodes
              PROVE  k.prev[e] = IF e = Root THEN n + 1 ELSE IF e <= n + 1 THEN e - 1 ELSE NilElement
          <5>1. k.prev[e] = IF e = Root THEN n + 1 ELSE IF e = n + 1 THEN n ELSE l.prev[e]
            BY <2>3, <3>1, <3>3, Zenon DEF Root
          <5>2. e \in Nat /\ l.prev[e] = IF e = Root THEN n ELSE IF e <= n THEN e - 1 ELSE NilElement
            BY <3>1, <3>3
          <5>3. CASE e = Root
            BY <5>1, <5>3
          <5>4. CASE e # Root /\ e = n + 1
            BY <5>1, <5>4
          <5>5. CASE e # Root /\ e # n + 1
            BY <5>1, <5>2, <5>5
          <5> QED
            BY <5>3, <5>4, <5>5
        <4> QED
          BY <4>1, <2>3, <3>3, Zenon
      <3> QED
        BY <3>4, <3>5 DEF ListOf
    <2> QED
      BY <2>1, <2>2, <2>3, <2>4 DEF PushBack, ListOf, ListType
  <1> QED
    BY <1>1, <1>3, <1>4, <1>5, <1>6, <1>7, <1>8 DEF WellFormed, Ring

(***************************************************************************)
(* The slice of resolvers                                                  *)
(***************************************************************************)
SliceOf(E) == {s \in [seq : Seq(E), cap : Nat] : Len(s.seq) <= s.cap}

\* The state of add's loop over n elements.
RoundState(E, n) ==
  {r \in [slice : SliceOf(E), old : Seq(E), hit : E \cup {0}] :
     Len(r.slice.seq) >= n /\ (r.old # <<>> => Len(r.old) >= n)}

LEMMA SliceOperations ==
  ASSUME NEW E, NEW s \in SliceOf(E)
  PROVE  /\ \A e \in E : Append1(s, e) \in SliceOf(E)
         /\ \A e \in E, i \in 1 .. Len(s.seq) :
              Doubled(s, i, e) \in SliceOf(E) /\ Len(Doubled(s, i, e).seq) = Len(s.seq) + 1
         /\ \A i \in 1 .. Len(s.seq) : Unset(s, i) \in SliceOf(E)
  <1>1. s.seq \in Seq(E) /\ s.cap \in Nat /\ Len(s.seq) <= s.cap /\ Len(s.seq) \in Nat
    BY DEF SliceOf
  <1>2. Grown(s.cap, Len(s.seq) + 1) \in Nat /\ Len(s.seq) + 1 <= Grown(s.cap, Len(s.seq) + 1)
    BY <1>1 DEF Grown
  <1>3. ASSUME NEW e \in E PROVE Append1(s, e) \in SliceOf(E)
    <2>1. Append(s.seq, e) \in Seq(E) /\ Len(Append(s.seq, e)) = Len(s.seq) + 1
      BY <1>1, AppendProperties
    <2> QED
      BY <2>1, <1>2 DEF Append1, SliceOf
  <1>4. ASSUME NEW e \in E, NEW i \in 1 .. Len(s.seq)
        PROVE  Doubled(s, i, e) \in SliceOf(E) /\ Len(Doubled(s, i, e).seq) = Len(s.seq) + 1
    <2>1. \A j \in 1 .. Len(s.seq) : s.seq[j] \in E
      BY <1>1, ElementOfSeq
    <2>2. \A j \in 1 .. Len(s.seq) + 1 :
            (IF j < i THEN s.seq[j] ELSE IF j <= i + 1 THEN e ELSE s.seq[j - 1]) \in E
      BY <2>1, <1>1
    <2> DEFINE q == [j \in 1 .. Len(s.seq) + 1 |-> IF j < i THEN s.seq[j] ELSE IF j <= i + 1 THEN e ELSE s.seq[j - 1]]
    <2>3. q \in Seq(E) /\ Len(q) = Len(s.seq) + 1
      <3>1. q \in [1 .. Len(s.seq) + 1 -> E]
        BY <2>2
      <3> HIDE DEF q
      <3> QED
        BY <3>1, <1>1, SeqDef, SMTT(30)
    <2>4. Doubled(s, i, e) = [seq |-> q, cap |-> Grown(s.cap, Len(s.seq) + 1)]
      BY DEF Doubled
    <2> HIDE DEF q
    <2> QED
      BY <2>3, <2>4, <1>2 DEF SliceOf
  <1>5. ASSUME NEW i \in 1 .. Len(s.seq) PROVE Unset(s, i) \in SliceOf(E)
    <2>1. \A j \in 1 .. Len(s.seq) : s.seq[j] \in E
      BY <1>1, ElementOfSeq
    <2>2. \A j \in 1 .. Len(s.seq) - 1 : (IF j < i THEN s.seq[j] ELSE s.seq[j + 1]) \in E
      BY <2>1, <1>1
    <2> DEFINE q == [j \in 1 .. Len(s.seq) - 1 |-> IF j < i THEN s.seq[j] ELSE s.seq[j + 1]]
    <2>3. q \in Seq(E) /\ Len(q) = Len(s.seq) - 1
      <3>1. q \in [1 .. Len(s.seq) - 1 -> E] /\ Len(s.seq) - 1 \in Nat
        BY <2>2, <1>1
      <3> HIDE DEF q
      <3> QED
        BY <3>1, SeqDef
    <2>4. Unset(s, i) = [s EXCEPT !.seq = q]
      BY DEF Unset
    <2> HIDE DEF q
    <2> QED
      BY <2>3, <2>4, <1>1 DEF SliceOf
  <1> QED
    BY <1>3, <1>4, <1>5

LEMMA RoundSound ==
  ASSUME NEW E, 0 \notin E, NEW n \in Nat, NEW i \in 1 .. n, NEW r \in RoundState(E, n),
         NEW p, NEW replace, NEW pr
  PROVE  AddRound(r, i, p, replace, pr) \in RoundState(E, n)
  <1>1. /\ r \in [slice : SliceOf(E), old : Seq(E), hit : E \cup {0}]
        /\ Len(r.slice.seq) >= n /\ (r.old # <<>> => Len(r.old) >= n)
        /\ r.slice.seq \in Seq(E)
    BY DEF RoundState, SliceOf
  <1> DEFINE e == IF r.old = <<>> THEN r.slice.seq[i] ELSE r.old[i]
             d == Doubled(r.slice, i, e)
  <1>2. e \in E
    BY <1>1, ElementOfSeq
  <1>3. d \in SliceOf(E) /\ Len(d.seq) >= n
    <2>1. i \in 1 .. Len(r.slice.seq) /\ Len(r.slice.seq) \in Nat
      BY <1>1
    <2> HIDE DEF e
    <2>2. d \in SliceOf(E) /\ Len(d.seq) = Len(r.slice.seq) + 1
      <3>1. PICK t : t = r.slice
        OBVIOUS
      <3>2. t \in SliceOf(E) /\ i \in 1 .. Len(t.seq)
        BY <3>1, <2>1, <1>1
      <3> QED
        BY <3>1, <3>2, <1>2, SliceOperations
    <2> HIDE DEF d
    <2> QED
      BY <2>1, <2>2, <1>1
  <1> HIDE DEF e, d
  <1>4. [r EXCEPT !.hit = r.slice.seq[i]] \in RoundState(E, n)
    <2>1. r.slice.seq[i] \in E
      BY <1>1, ElementOfSeq
    <2> QED
      BY <1>1, <2>1 DEF RoundState
  <1>5. [slice |-> d, hit |-> 0, old |-> IF r.old = <<>> /\ d.cap # r.slice.cap THEN r.slice.seq ELSE r.old]
          \in RoundState(E, n)
    BY <1>1, <1>3 DEF RoundState
  <1> QED
    BY <1>4, <1>5 DEF AddRound, e, d

\* The loop is the recursion it is written as.
LEMMA AddLoopUnfolds ==
  ASSUME NEW s, NEW n \in Nat, Len(s.seq) = n, NEW p, NEW replace, NEW pr
  PROVE  \E g : /\ g = [i \in 0 .. n |-> IF i = 0 THEN [slice |-> s, old |-> <<>>, hit |-> 0]
                                                  ELSE AddRound(g[i - 1], i, p, replace, pr)]
                /\ AddLoop(s, p, replace, pr) = g[n]
  <1> DEFINE Body(g, k) == [i \in 0 .. k |-> IF i = 0 THEN [slice |-> s, old |-> <<>>, hit |-> 0]
                                                     ELSE AddRound(g[i - 1], i, p, replace, pr)]
             S == {k \in Nat : \E g : g = Body(g, k)}
  <1>1. 0 \in S
    <2> DEFINE g == [i \in 0 .. 0 |-> [slice |-> s, old |-> <<>>, hit |-> 0]]
    <2>1. g = Body(g, 0)
      OBVIOUS
    <2> HIDE DEF g
    <2> QED
      BY <2>1
  <1>2. ASSUME NEW k \in Nat, k \in S PROVE k + 1 \in S
    <2>1. PICK g : g = Body(g, k)
      BY <1>2
    <2> DEFINE h == [i \in 0 .. k + 1 |-> IF i = k + 1 THEN AddRound(g[k], k + 1, p, replace, pr) ELSE g[i]]
    <2>2. h = Body(h, k + 1)
      <3>1. ASSUME NEW i \in 0 .. k + 1
            PROVE  h[i] = IF i = 0 THEN [slice |-> s, old |-> <<>>, hit |-> 0]
                                   ELSE AddRound(h[i - 1], i, p, replace, pr)
        <4>1. CASE i = k + 1
          <5>1. h[i] = AddRound(g[k], k + 1, p, replace, pr) /\ h[i - 1] = g[k] /\ i # 0
            BY <4>1
          <5> QED
            BY <5>1, <4>1
        <4>2. CASE i # k + 1
          <5>1. i \in 0 .. k /\ h[i] = g[i] /\ (i # 0 => h[i - 1] = g[i - 1])
            BY <4>2
          <5>2. g[i] = IF i = 0 THEN [slice |-> s, old |-> <<>>, hit |-> 0]
                                ELSE AddRound(g[i - 1], i, p, replace, pr)
            BY <5>1, <2>1
          <5> HIDE DEF h
          <5> QED
            BY <5>1, <5>2
        <4> QED
          BY <4>1, <4>2
      <3>2. h = [i \in 0 .. k + 1 |-> h[i]]
        OBVIOUS
      <3> HIDE DEF h
      <3> QED
        BY <3>1, <3>2
    <2> HIDE DEF h
    <2> QED
      BY <2>2
  <1>3. n \in S
    <2> HIDE DEF S
    <2> QED
      BY <1>1, <1>2, NatSetInduction
  <1>4. \E g : g = Body(g, n)
    BY <1>3
  <1> QED
    BY <1>4, Zenon DEF AddLoop

\* add keeps the slice one of entities; behind lower priorities it changes nothing
\* but to replace the entity of this priority or to append one.
AddResult(E, s, p, new, replace, pr, r) ==
  /\ r.hit \in E \cup {0}
  /\ r.hit # 0 => r.slice \in SliceOf(E)
  /\ r.hit = 0 => r.slice \in SliceOf(E \cup {new})
  /\ (\A i \in 1 .. Len(s.seq) : ~(pr[s.seq[i]] > p)) =>
       /\ r.hit # 0 => r.slice = s
       /\ r.hit = 0 => r.slice = Append1(s, new) /\ (replace => \A i \in 1 .. Len(s.seq) : pr[s.seq[i]] # p)

LEMMA AddSound ==
  ASSUME NEW E, 0 \notin E, NEW s \in SliceOf(E), NEW p, NEW new, NEW replace \in BOOLEAN, NEW pr, NEW r,
         r = add(s, p, new, replace, pr)
  PROVE  AddResult(E, s, p, new, replace, pr, r)
  <1>1. PICK n \in Nat : n = Len(s.seq)
    BY DEF SliceOf
  <1>2. PICK g : /\ g = [i \in 0 .. n |-> IF i = 0 THEN [slice |-> s, old |-> <<>>, hit |-> 0]
                                                   ELSE AddRound(g[i - 1], i, p, replace, pr)]
                 /\ AddLoop(s, p, replace, pr) = g[n]
    BY <1>1, AddLoopUnfolds, SMTT(30)
  <1>3. g[0] = [slice |-> s, old |-> <<>>, hit |-> 0] /\ \A i \in 1 .. n : g[i] = AddRound(g[i - 1], i, p, replace, pr)
    BY <1>2
  <1>4. \A k \in 0 .. n : g[k] \in RoundState(E, n)
    <2> DEFINE S == {k \in Nat : k <= n => g[k] \in RoundState(E, n)}
    <2>1. 0 \in S
      <3>1. <<>> \in Seq(E)
        OBVIOUS
      <3>2. [slice |-> s, old |-> <<>>, hit |-> 0] \in RoundState(E, n)
        BY <3>1, <1>1 DEF RoundState
      <3> QED
        BY <3>2, <1>3
    <2>2. ASSUME NEW k \in Nat, k \in S PROVE k + 1 \in S
      <3>1. SUFFICES ASSUME k + 1 <= n PROVE g[k + 1] \in RoundState(E, n)
        OBVIOUS
      <3>2. g[k] \in RoundState(E, n) /\ k + 1 \in 1 .. n /\ (k + 1) - 1 = k
        BY <3>1, <2>2
      <3>3. g[k + 1] = AddRound(g[k], k + 1, p, replace, pr)
        BY <3>2, <1>3
      <3> QED
        BY <3>2, <3>3, RoundSound
    <2>3. \A k \in Nat : k \in S
      <3> HIDE DEF S
      <3> QED
        BY <2>1, <2>2, NatSetInduction
    <2> QED
      BY <2>3
  <1>5. ASSUME \A i \in 1 .. n : ~(pr[s.seq[i]] > p)
        PROVE  g[n].slice = s /\ (g[n].hit = 0 /\ replace => \A i \in 1 .. n : pr[s.seq[i]] # p)
    <2> DEFINE Q(k) == /\ g[k].slice = s /\ g[k].old = <<>>
                       /\ g[k].hit = 0 /\ replace => \A i \in 1 .. k : pr[s.seq[i]] # p
               S == {k \in Nat : k <= n => Q(k)}
    <2>1. 0 \in S
      BY <1>3
    <2>2. ASSUME NEW k \in Nat, k \in S PROVE k + 1 \in S
      <3>1. SUFFICES ASSUME k + 1 <= n PROVE Q(k + 1)
        OBVIOUS
      <3>2. Q(k) /\ k + 1 \in 1 .. n /\ (k + 1) - 1 = k
        BY <3>1, <2>2
      <3>3. g[k + 1] = AddRound(g[k], k + 1, p, replace, pr)
        BY <3>2, <1>3
      <3>4. \/ g[k + 1] = g[k] /\ (g[k].hit # 0 \/ ~(pr[s.seq[k + 1]] = p /\ replace))
            \/ g[k + 1] = [g[k] EXCEPT !.hit = s.seq[k + 1]]
        BY <3>2, <3>3, <1>5 DEF AddRound
      <3>5. s.seq[k + 1] \in E
        BY <3>2, <1>1, ElementOfSeq DEF SliceOf
      <3>6. CASE g[k + 1] = g[k] /\ (g[k].hit # 0 \/ ~(pr[s.seq[k + 1]] = p /\ replace))
        <4>1. ASSUME g[k + 1].hit = 0, replace, NEW i \in 1 .. k + 1 PROVE pr[s.seq[i]] # p
          BY <3>2, <3>6, <4>1
        <4> QED
          BY <4>1, <3>2, <3>6
      <3>7. CASE g[k + 1] = [g[k] EXCEPT !.hit = s.seq[k + 1]]
        <4>1. PICK h \in RoundState(E, n) : h = g[k]
          BY <3>2, <1>4
        <4>2. g[k + 1].slice = h.slice /\ g[k + 1].old = h.old /\ g[k + 1].hit = s.seq[k + 1]
          BY <4>1, <3>7 DEF RoundState
        <4> QED
          BY <4>1, <4>2, <3>2, <3>5
      <3> QED
        BY <3>4, <3>6, <3>7
    <2>3. n \in S
      <3> HIDE DEF S
      <3> QED
        BY <2>1, <2>2, NatSetInduction
    <2> QED
      BY <2>3
  <1>6. PICK h \in RoundState(E, n) : h = AddLoop(s, p, replace, pr) /\ h = g[n]
    BY <1>2, <1>4
  <1>7. r.hit = h.hit /\ r.slice = IF h.hit # 0 THEN h.slice ELSE Append1(h.slice, new)
    BY <1>6 DEF add
  <1>8. h.hit \in E \cup {0} /\ h.slice \in SliceOf(E) /\ h.slice \in SliceOf(E \cup {new})
    <2>1. SliceOf(E) \subseteq SliceOf(E \cup {new})
      <3>1. Seq(E) \subseteq Seq(E \cup {new})
        BY SeqDef
      <3> QED
        BY <3>1 DEF SliceOf
    <2> QED
      BY <2>1, Zenon DEF RoundState
  <1>9. Append1(h.slice, new) \in SliceOf(E \cup {new})
    BY <1>8, SliceOperations
  <1> QED
    BY <1>1, <1>5, <1>6, <1>7, <1>8, <1>9 DEF AddResult

(***************************************************************************)
(* The inductive invariant                                                 *)
(***************************************************************************)
Entities == [priority : Int, resolver : {"servers", "system"}, failedAt : Int]
Places == {"idle", "wait", "next", "system", "ask", "protect", "asked", "move"}
Lookups == [at : Places, lazy : BOOLEAN, i : Nat, e : Element \cup {NilElement}, tried : SUBSET Nodes]
Values == {"zero", "preset", "answer"}
Hosts == Server \cup {"none"}

\* The types; the elements of the slice are entities, the list of servers is sound,
\* and a lookup with its lock holds a member of it.
BaseInv ==
  /\ now \in Nat /\ cache.val \in Values
  /\ ent \in Seq(Entities) /\ prio \in SliceOf(1 .. Len(ent))
  /\ la \in ListType /\ WellFormed(la)
  /\ srv \in [Element -> Hosts]
  /\ proc \in [Client -> Lookups]
  /\ \A c \in Client : proc[c].at \in {"ask", "protect", "asked"} => proc[c].e \in la.members

OrderInv ==
  ascending => \A i, j \in DOMAIN prio.seq : i < j => ent[prio.seq[i]].priority < ent[prio.seq[j]].priority

\* The elements tried are the ones from the front of the list up to e.
Walked(l, e, tried) ==
  /\ e \in l.members /\ tried \subseteq l.members /\ e \notin tried
  /\ \A x \in tried \cup {Root} : l.next[x] \in tried \cup {e}
  /\ \A x \in tried \cup {e} : l.prev[x] \in tried \cup {Root}

WalkInv == \A c \in InServers : Walked(la, proc[c].e, proc[c].tried)

Users(a) == {c \in Client : proc[c].at = "asked" /\ srv[proc[c].e] = a}

ProtectInv ==
  ~forced => \A a \in Hosts :
    /\ a \in DOMAIN pc.protected <=> Users(a) # {}
    /\ a \in DOMAIN pc.protected => pc.protected[a] = Cardinality(Users(a)) /\ a \in pc.under

\* What the assignments to the place of a lookup do.
LEMMA Placed ==
  ASSUME proc \in [Client -> Lookups], NEW c \in Client
  PROVE  /\ NextEntity(c) \in [Client -> Lookups] /\ NextEntity(c)[c].at = "next"
         /\ \A d \in Client \ {c} : NextEntity(c)[d] = proc[d]
         /\ \A e \in Element, tried \in SUBSET Nodes :
              /\ AskServer(c, e, tried) \in [Client -> Lookups] /\ AskServer(c, e, tried)[c].at \in {"ask", "protect"}
              /\ AskServer(c, e, tried)[c].e = e /\ AskServer(c, e, tried)[c].tried = tried
              /\ \A d \in Client \ {c} : AskServer(c, e, tried)[d] = proc[d]
         /\ \A p \in Places :
              /\ [proc EXCEPT ![c].at = p] \in [Client -> Lookups]
              /\ [proc EXCEPT ![c].at = p][c].at = p /\ [proc EXCEPT ![c].at = p][c].e = proc[c].e
              /\ [proc EXCEPT ![c].at = p][c].tried = proc[c].tried
              /\ \A d \in Client \ {c} : [proc EXCEPT ![c].at = p][d] = proc[d]
         /\ [proc EXCEPT ![c] = Idle] \in [Client -> Lookups]
         /\ [proc EXCEPT ![c] = Idle][c].at = "idle"
         /\ \A d \in Client \ {c} : [proc EXCEPT ![c] = Idle][d] = proc[d]
  <1>1. proc[c] \in Lookups
    OBVIOUS
  <1>2. [proc[c] EXCEPT !.at = "next", !.i = proc[c].i + 1, !.e = NilElement, !.tried = {}] \in Lookups
    <2>1. proc[c].i + 1 \in Nat /\ NilElement \in Element \cup {NilElement} /\ {} \in SUBSET Nodes
      BY <1>1 DEF Lookups
    <2> QED
      BY <2>1, <1>1, Zenon DEF Lookups, Places
  <1>3. \A e \in Element, tried \in SUBSET Nodes :
          [proc[c] EXCEPT !.at = IF proc[c].lazy THEN "ask" ELSE "protect", !.e = e, !.tried = tried] \in Lookups
    BY <1>1, Zenon DEF Lookups, Places
  <1>4. \A p \in Places : [proc[c] EXCEPT !.at = p] \in Lookups
    BY <1>1 DEF Lookups
  <1>5. Idle \in Lookups
    BY DEF Idle, Lookups, Places
  <1>6. /\ NextEntity(c) \in [Client -> Lookups] /\ NextEntity(c)[c].at = "next"
        /\ \A d \in Client \ {c} : NextEntity(c)[d] = proc[d]
    <2>1. PICK x \in Lookups : x = [proc[c] EXCEPT !.at = "next", !.i = proc[c].i + 1, !.e = NilElement, !.tried = {}]
      BY <1>2
    <2>2. NextEntity(c) = [proc EXCEPT ![c] = x]
      BY <2>1 DEF NextEntity
    <2>3. x.at = "next"
      BY <2>1, <1>1 DEF Lookups
    <2> QED
      BY <2>2, <2>3
  <1>7. ASSUME NEW e \in Element, NEW tried \in SUBSET Nodes
        PROVE  /\ AskServer(c, e, tried) \in [Client -> Lookups] /\ AskServer(c, e, tried)[c].at \in {"ask", "protect"}
               /\ AskServer(c, e, tried)[c].e = e /\ AskServer(c, e, tried)[c].tried = tried
               /\ \A d \in Client \ {c} : AskServer(c, e, tried)[d] = proc[d]
    <2>1. PICK x \in Lookups :
            x = [proc[c] EXCEPT !.at = IF proc[c].lazy THEN "ask" ELSE "protect", !.e = e, !.tried = tried]
      BY <1>3, Zenon
    <2>2. AskServer(c, e, tried) = [proc EXCEPT ![c] = x] /\ x.at \in {"ask", "protect"} /\ x.e = e /\ x.tried = tried
      BY <2>1, <1>1 DEF AskServer, Lookups
    <2> QED
      BY <2>2
  <1>8. ASSUME NEW p \in Places
        PROVE  /\ [proc EXCEPT ![c].at = p] \in [Client -> Lookups]
               /\ [proc EXCEPT ![c].at = p][c].at = p /\ [proc EXCEPT ![c].at = p][c].e = proc[c].e
               /\ [proc EXCEPT ![c].at = p][c].tried = proc[c].tried
               /\ \A d \in Client \ {c} : [proc EXCEPT ![c].at = p][d] = proc[d]
    BY <1>1, <1>4 DEF Lookups
  <1>9. /\ [proc EXCEPT ![c] = Idle] \in [Client -> Lookups]
        /\ [proc EXCEPT ![c] = Idle][c].at = "idle"
        /\ \A d \in Client \ {c} : [proc EXCEPT ![c] = Idle][d] = proc[d]
    BY <1>5 DEF Idle
  <1> QED
    BY <1>6, <1>7, <1>8, <1>9

\* A failure is noted without any other change of the entity.
LEMMA FailedSound ==
  ASSUME BaseInv, NEW x, Failed(x)
  PROVE  /\ ent' \in Seq(Entities) /\ Len(ent') = Len(ent)
         /\ \A y \in 1 .. Len(ent) : ent'[y].priority = ent[y].priority
  <1>1. ent \in Seq(Entities) /\ now \in Int /\ ent' = [ent EXCEPT ![x].failedAt = now]
    BY DEF BaseInv, Failed
  <1>2. DOMAIN ent' = 1 .. Len(ent) /\ Len(ent) \in Nat
    BY <1>1
  <1>3. ASSUME NEW y \in 1 .. Len(ent)
        PROVE  ent'[y] \in Entities /\ ent'[y].priority = ent[y].priority
    <2>1. ent[y] \in Entities
      BY <1>1
    <2>2. ent'[y] = IF x = y THEN [ent[y] EXCEPT !.failedAt = now] ELSE ent[y]
      BY <1>1
    <2>3. CASE x = y
      BY <2>1, <2>2, <2>3, <1>1 DEF Entities
    <2> QED
      BY <2>1, <2>2, <2>3
  <1>4. ent' \in [1 .. Len(ent) -> Entities]
    BY <1>1, <1>2, <1>3, Zenon
  <1> QED
    BY <1>2, <1>3, <1>4, SeqDef

\* What a step of a lookup does to the place of c, to the entities and to the cache.
Asking == {"ask", "protect", "asked"}

\* The place in the list of servers: the same, the front, or the next one.
WalkEffect(c) ==
  proc'[c].at \in Asking =>
    \/ proc[c].at \in Asking /\ proc'[c].e = proc[c].e /\ proc'[c].tried = proc[c].tried
    \/ Front(la) # NilElement /\ proc'[c].e = Front(la) /\ proc'[c].tried = {}
    \/ /\ proc[c].at \in Asking /\ NextOf(la, proc[c].e) # NilElement /\ proc'[c].e = NextOf(la, proc[c].e)
       /\ proc'[c].tried = proc[c].tried \cup {proc[c].e}

PlaceEffect(c) ==
  /\ proc' \in [Client -> Lookups] /\ \A d \in Client \ {c} : proc'[d] = proc[d]
  /\ proc'[c].at \in {"ask", "protect"} => proc'[c].e \in la.members
  /\ proc'[c].at = "asked" => proc[c].at = "protect" /\ proc'[c].e = proc[c].e
  /\ WalkEffect(c)

DataEffect ==
  /\ ent' \in Seq(Entities) /\ Len(ent') = Len(ent)
  /\ \A y \in 1 .. Len(ent) : ent'[y].priority = ent[y].priority
  /\ cache'.val \in Values

LEMMA Unaffected ==
  ASSUME BaseInv
  PROVE  /\ UNCHANGED ent => /\ ent' \in Seq(Entities) /\ Len(ent') = Len(ent)
                             /\ \A y \in 1 .. Len(ent) : ent'[y].priority = ent[y].priority
         /\ UNCHANGED cache => cache'.val \in Values
  BY DEF BaseInv

LEMMA ReturnEffect ==
  ASSUME BaseInv, NEW c \in Client, NEW val \in {"zero", "answer"}, Return(c, val)
  PROVE  PlaceEffect(c) /\ proc'[c].at = "idle" /\ cache'.val \in Values
  <1>1. proc' = [proc EXCEPT ![c] = Idle]
    BY DEF Return
  <1>2. proc \in [Client -> Lookups]
    BY DEF BaseInv
  <1>3. PlaceEffect(c) /\ proc'[c].at = "idle"
    BY <1>1, <1>2, Placed DEF PlaceEffect, WalkEffect, Asking
  <1>4. cache'.val \in Values
    <2>1. CASE val = "zero"
      BY <2>1 DEF Return, BaseInv
    <2>2. CASE val = "answer"
      <3>1. PICK ttl \in Ttl : cacheResult(val, ttl)
        BY <2>2 DEF Return
      <3>2. cache'.val = val
        BY <3>1 DEF cacheResult
      <3> QED
        BY <3>2, <2>2 DEF Values
    <2> QED
      BY <2>1, <2>2
  <1> QED
    BY <1>3, <1>4

LEMMA NextEntityEffect ==
  ASSUME BaseInv, NEW c \in Client, proc' = NextEntity(c)
  PROVE  PlaceEffect(c) /\ proc'[c].at = "next"
  <1>1. proc \in [Client -> Lookups]
    BY DEF BaseInv
  <1> QED
    BY <1>1, Placed DEF PlaceEffect, WalkEffect, Asking

LEMMA AskServerEffect ==
  ASSUME BaseInv, NEW c \in Client, NEW e \in la.members, NEW tried \in SUBSET Nodes,
         proc' = AskServer(c, e, tried),
         \/ e = Front(la) /\ Front(la) # NilElement /\ tried = {}
         \/ /\ proc[c].at \in Asking /\ NextOf(la, proc[c].e) # NilElement /\ e = NextOf(la, proc[c].e)
            /\ tried = proc[c].tried \cup {proc[c].e}
  PROVE  PlaceEffect(c) /\ proc'[c].at # "asked"
  <1>1. proc \in [Client -> Lookups] /\ e \in Element
    BY DEF BaseInv, ListType
  <1>2. /\ proc' \in [Client -> Lookups] /\ proc'[c].at \in {"ask", "protect"}
        /\ proc'[c].e = e /\ proc'[c].tried = tried /\ \A d \in Client \ {c} : proc'[d] = proc[d]
    BY <1>1, Placed
  <1>3. WalkEffect(c)
    BY <1>2, Zenon DEF WalkEffect
  <1> QED
    BY <1>2, <1>3 DEF PlaceEffect

LEMMA PlaceOnlyEffect ==
  ASSUME BaseInv, NEW c \in Client, NEW p \in {"system", "move", "protect", "asked"},
         proc' = [proc EXCEPT ![c].at = p],
         p = "protect" => proc[c].at = "ask", p = "asked" => proc[c].at = "protect"
  PROVE  PlaceEffect(c) /\ proc'[c].at = p
  <1>1. proc \in [Client -> Lookups] /\ p \in Places /\ (proc[c].at = "ask" => proc[c].e \in la.members)
    BY DEF BaseInv, Places
  <1>2. /\ proc' \in [Client -> Lookups] /\ proc'[c].at = p /\ proc'[c].e = proc[c].e
        /\ proc'[c].tried = proc[c].tried /\ \A d \in Client \ {c} : proc'[d] = proc[d]
    BY <1>1, Placed
  <1>3. WalkEffect(c)
    BY <1>2 DEF WalkEffect, Asking
  <1> QED
    BY <1>1, <1>2, <1>3 DEF PlaceEffect

LEMMA NextServerEffect ==
  ASSUME BaseInv, NEW c \in Client, NextServer(c), proc[c].at \in {"protect", "asked"}
  PROVE  PlaceEffect(c) /\ DataEffect /\ proc'[c].at # "asked"
  <1>1. CASE /\ NextOf(la, proc[c].e) # NilElement /\ UNCHANGED ent
             /\ proc' = AskServer(c, NextOf(la, proc[c].e), proc[c].tried \cup {proc[c].e})
    <2>1. NextOf(la, proc[c].e) \in la.members
      BY <1>1, ListOperations DEF BaseInv
    <2>2. proc[c].tried \cup {proc[c].e} \in SUBSET Nodes
      <3>1. proc[c] \in Lookups /\ proc[c].e \in la.members /\ la.members \subseteq Element
        BY DEF BaseInv, ListType
      <3> QED
        BY <3>1 DEF Lookups, Nodes
    <2>3. PlaceEffect(c) /\ proc'[c].at # "asked"
      BY <2>1, <2>2, <1>1, AskServerEffect DEF Asking
    <2> QED
      BY <2>3, <1>1, Unaffected DEF NextServer, DataEffect
  <1>2. CASE proc' = NextEntity(c) /\ Failed(Entity(c))
    BY <1>2, NextEntityEffect, FailedSound, Unaffected DEF NextServer, DataEffect
  <1> QED
    BY <1>1, <1>2 DEF NextServer

LEMMA AnsweredEffect ==
  ASSUME BaseInv, NEW c \in Client, Answered(c)
  PROVE  PlaceEffect(c) /\ DataEffect /\ proc'[c].at # "asked"
  <1>1. CASE Return(c, "answer")
    BY <1>1, ReturnEffect, Unaffected DEF Answered, DataEffect
  <1>2. CASE proc' = [proc EXCEPT ![c].at = "move"] /\ UNCHANGED cache
    BY <1>2, PlaceOnlyEffect, Unaffected, Zenon DEF Answered, DataEffect
  <1> QED
    BY <1>1, <1>2 DEF Answered

Others == <<now, prio, srv, ascending, forced>>

LEMMA StepEffect ==
  ASSUME BaseInv, NEW c \in Client, LookupStep(c)
  PROVE  /\ PlaceEffect(c) /\ DataEffect /\ UNCHANGED Others
         /\ proc[c].at # "idle"
         /\ la' = la \/ (InServers = {} /\ la' = MoveToFront(la, proc[c].e))
  <1>1. CASE Consider(c)
    <2>1. UNCHANGED Others /\ la' = la /\ proc[c].at # "idle"
      BY <1>1 DEF Consider, Others
    <2>2. CASE Return(c, "zero") /\ UNCHANGED ent
      BY <2>1, <2>2, ReturnEffect, Unaffected DEF DataEffect
    <2>3. CASE proc' = NextEntity(c) /\ UNCHANGED <<cache, ent>>
      BY <2>1, <2>3, NextEntityEffect, Unaffected DEF DataEffect
    <2>4. CASE proc' = [proc EXCEPT ![c].at = "system"] /\ UNCHANGED <<cache, ent>>
      BY <2>1, <2>4, PlaceOnlyEffect, Unaffected, Zenon DEF DataEffect
    <2>5. CASE proc' = NextEntity(c) /\ Failed(Entity(c)) /\ UNCHANGED cache
      BY <2>1, <2>5, NextEntityEffect, FailedSound, Unaffected DEF DataEffect
    <2>6. CASE Front(la) # NilElement /\ proc' = AskServer(c, Front(la), {}) /\ UNCHANGED <<cache, ent>>
      <3>1. Front(la) \in la.members
        BY <2>6, ListOperations DEF BaseInv
      <3>2. {} \in SUBSET Nodes
        OBVIOUS
      <3>3. PlaceEffect(c)
        BY <3>1, <3>2, <2>6, AskServerEffect, Zenon
      <3> QED
        BY <3>3, <2>1, <2>6, Unaffected DEF DataEffect
    <2> QED
      BY <1>1, <2>2, <2>3, <2>4, <2>5, <2>6 DEF Consider
  <1>2. ASSUME NEW a \in {"ok", "empty", "notexists", "error"}, SystemAnswer(c, a)
        PROVE  PlaceEffect(c) /\ DataEffect /\ UNCHANGED Others /\ proc[c].at # "idle" /\ la' = la
    <2>1. UNCHANGED Others /\ la' = la /\ proc[c].at # "idle"
      BY <1>2 DEF SystemAnswer, Others
    <2>2. CASE Return(c, "answer") /\ UNCHANGED ent
      BY <2>1, <2>2, ReturnEffect, Unaffected DEF DataEffect
    <2>3. CASE proc' = NextEntity(c) /\ UNCHANGED <<cache, ent>>
      BY <2>1, <2>3, NextEntityEffect, Unaffected DEF DataEffect
    <2>4. CASE proc' = NextEntity(c) /\ Failed(Entity(c)) /\ UNCHANGED cache
      BY <2>1, <2>4, NextEntityEffect, FailedSound, Unaffected DEF DataEffect
    <2> QED
      BY <1>2, <2>2, <2>3, <2>4 DEF SystemAnswer
  <1>3. ASSUME NEW ok \in BOOLEAN, AskAnswer(c, ok)
        PROVE  PlaceEffect(c) /\ DataEffect /\ UNCHANGED Others /\ proc[c].at # "idle" /\ la' = la
    <2>1. UNCHANGED Others /\ la' = la /\ proc[c].at = "ask"
      BY <1>3 DEF AskAnswer, Others
    <2>2. CASE Answered(c)
      BY <2>1, <2>2, AnsweredEffect
    <2>3. CASE proc' = [proc EXCEPT ![c].at = "protect"] /\ UNCHANGED <<cache, ent>>
      BY <2>1, <2>3, PlaceOnlyEffect, Unaffected, Zenon DEF DataEffect
    <2> QED
      BY <1>3, <2>2, <2>3 DEF AskAnswer
  <1>4. ASSUME NEW ok \in BOOLEAN, Protect(c, ok)
        PROVE  PlaceEffect(c) /\ DataEffect /\ UNCHANGED Others /\ proc[c].at # "idle" /\ la' = la
    <2>1. UNCHANGED Others /\ la' = la /\ proc[c].at = "protect"
      BY <1>4 DEF Protect, Others
    <2>2. CASE NextServer(c)
      BY <2>1, <2>2, NextServerEffect
    <2>3. CASE proc' = [proc EXCEPT ![c].at = "asked"] /\ UNCHANGED <<cache, ent>>
      BY <2>1, <2>3, PlaceOnlyEffect, Unaffected, Zenon DEF DataEffect
    <2> QED
      BY <1>4, <2>2, <2>3 DEF Protect
  <1>5. ASSUME NEW ok \in BOOLEAN, NEW un \in BOOLEAN, AskedAnswer(c, ok, un)
        PROVE  PlaceEffect(c) /\ DataEffect /\ UNCHANGED Others /\ proc[c].at # "idle" /\ la' = la
    <2>1. UNCHANGED Others /\ la' = la /\ proc[c].at = "asked"
      BY <1>5 DEF AskedAnswer, Others
    <2> QED
      BY <2>1, <1>5, AnsweredEffect, NextServerEffect DEF AskedAnswer
  <1>6. CASE Move(c)
    <2>1. /\ UNCHANGED Others /\ proc[c].at # "idle" /\ Return(c, "answer") /\ UNCHANGED ent
          /\ InServers = {} /\ la' = MoveToFront(la, proc[c].e)
      BY <1>6 DEF Move, Others
    <2> QED
      BY <2>1, ReturnEffect, Unaffected DEF DataEffect
  <1> QED
    BY <1>1, <1>2, <1>3, <1>4, <1>5, <1>6 DEF LookupStep

\* Adding a resolver: the slice is one of the entities, and in order if it was and
\* the resolver comes behind the ones of lower priority.
LEMMA AddResolverSound ==
  ASSUME BaseInv, OrderInv, NEW p \in Int, NEW replace \in BOOLEAN, AddResolver(p, "system", replace)
  PROVE  ent' \in Seq(Entities) /\ prio' \in SliceOf(1 .. Len(ent')) /\ OrderInv'
  <1> DEFINE E == 1 .. Len(ent)
             new == Len(ent) + 1
             pr == Append(Priority(ent), p)
  <1>1. PICK r : /\ r = add(prio, p, new, replace, pr)
                 /\ prio' = r.slice
                 /\ ent' = IF r.hit # 0 THEN [ent EXCEPT ![r.hit].resolver = "system"]
                           ELSE Append(ent, [priority |-> p, resolver |-> "system", failedAt |-> Never])
                 /\ ascending' = (ascending /\ \A i \in DOMAIN prio.seq :
                                    \/ ent[prio.seq[i]].priority < p
                                    \/ ent[prio.seq[i]].priority = p /\ replace)
    BY Zenon DEF AddResolver
  <1>2. /\ ent \in Seq(Entities) /\ Len(ent) \in Nat /\ prio \in SliceOf(E) /\ 0 \notin E
        /\ prio.seq \in Seq(E) /\ DOMAIN prio.seq = 1 .. Len(prio.seq) /\ Len(prio.seq) \in Nat
        /\ \A x \in E : ent[x] \in Entities
    <2>1. ent \in Seq(Entities) /\ prio \in SliceOf(E)
      BY DEF BaseInv
    <2>2. Len(ent) \in Nat /\ 0 \notin E /\ \A x \in E : ent[x] \in Entities
      BY <2>1
    <2>3. prio.seq \in Seq(E)
      BY <2>1 DEF SliceOf
    <2>4. DOMAIN prio.seq = 1 .. Len(prio.seq) /\ Len(prio.seq) \in Nat
      BY <2>3
    <2> QED
      BY <2>1, <2>2, <2>3, <2>4, Zenon
  <1>3. \A x \in E : pr[x] = ent[x].priority /\ ent[x].priority \in Int
    <2>1. Priority(ent) \in [1 .. Len(ent) -> Int]
      BY <1>2 DEF Priority, Entities
    <2>2. Priority(ent) \in Seq(Int) /\ Len(Priority(ent)) = Len(ent)
      <3>1. PICK f : f = Priority(ent)
        OBVIOUS
      <3>2. PICK n \in Nat : n = Len(ent)
        BY <1>2
      <3>3. f \in [1 .. n -> Int]
        BY <3>1, <3>2, <2>1, Zenon
      <3>4. f \in Seq(Int) /\ Len(f) = n
        BY <3>3, SeqDef
      <3> QED
        BY <3>1, <3>2, <3>4, Zenon
    <2>3. \A x \in E : pr[x] = Priority(ent)[x]
      BY <2>2, AppendProperties
    <2> QED
      BY <2>1, <2>3, <1>2 DEF Priority, Entities
  <1> HIDE DEF pr
  <1>4. /\ r.hit \in E \cup {0}
        /\ r.hit # 0 => r.slice \in SliceOf(E)
        /\ r.hit = 0 => r.slice \in SliceOf(E \cup {new})
        /\ (\A i \in 1 .. Len(prio.seq) : ~(pr[prio.seq[i]] > p)) =>
             /\ r.hit # 0 => r.slice = prio
             /\ r.hit = 0 => /\ r.slice = Append1(prio, new)
                             /\ replace => \A i \in 1 .. Len(prio.seq) : pr[prio.seq[i]] # p
    <2>1. prio \in SliceOf(E) /\ 0 \notin E
      BY <1>2
    <2>2. r = add(prio, p, new, replace, pr)
      BY <1>1
    <2> HIDE DEF E, new
    <2>3. AddResult(E, prio, p, new, replace, pr, r)
      BY <2>1, <2>2, AddSound
    <2> QED
      BY <2>3 DEF AddResult
  <1>5. \A i \in 1 .. Len(prio.seq) : prio.seq[i] \in E
    BY <1>2
  <1>6. CASE r.hit # 0
    <2>1. ent' = [ent EXCEPT ![r.hit].resolver = "system"] /\ DOMAIN ent' = E
      BY <1>1, <1>2, <1>6
    <2>2. ASSUME NEW y \in E PROVE ent'[y] \in Entities /\ ent'[y].priority = ent[y].priority
      <3>1. ent'[y] = IF r.hit = y THEN [ent[y] EXCEPT !.resolver = "system"] ELSE ent[y]
        BY <2>1, <1>2
      <3>2. CASE r.hit = y
        BY <3>1, <3>2, <1>2, Zenon DEF Entities
      <3> QED
        BY <3>1, <3>2, <1>2
    <2>3. ent' \in [1 .. Len(ent) -> Entities]
      BY <2>1, <2>2, <1>2, Zenon
    <2>4. ent' \in Seq(Entities) /\ Len(ent') = Len(ent)
      BY <2>3, <1>2, SeqDef
    <2>5. OrderInv'
      <3>1. SUFFICES ASSUME ascending', NEW i \in DOMAIN prio'.seq, NEW j \in DOMAIN prio'.seq, i < j
                     PROVE  ent'[prio'.seq[i]].priority < ent'[prio'.seq[j]].priority
        BY DEF OrderInv
      <3>2. \A k \in 1 .. Len(prio.seq) : ~(pr[prio.seq[k]] > p)
        <4>1. SUFFICES ASSUME NEW k \in 1 .. Len(prio.seq) PROVE ~(pr[prio.seq[k]] > p)
          OBVIOUS
        <4>2. ent[prio.seq[k]].priority < p \/ ent[prio.seq[k]].priority = p
          BY <3>1, <1>1, <1>2, Zenon
        <4> QED
          BY <4>2, <1>3, <1>5
      <3>3. prio' = prio /\ ascending
        BY <3>1, <3>2, <1>1, <1>4, <1>6, Zenon
      <3> QED
        BY <3>1, <3>3, <2>2, <1>2, <1>5, Zenon DEF OrderInv
    <2> QED
      BY <2>4, <2>5, <1>1, <1>4, <1>6
  <1>7. CASE r.hit = 0
    <2> DEFINE n == [priority |-> p, resolver |-> "system", failedAt |-> Never]
    <2>1. ent' = Append(ent, n) /\ n \in Entities
      BY <1>1, <1>7 DEF Entities, Never
    <2>2. ent' \in Seq(Entities) /\ Len(ent') = new /\ ent'[new].priority = p /\ \A y \in E : ent'[y] = ent[y]
      BY <2>1, <1>2, AppendProperties
    <2>3. E \cup {new} = 1 .. Len(ent')
      BY <2>2, <1>2
    <2>4. OrderInv'
      <3>1. SUFFICES ASSUME ascending', NEW i \in DOMAIN prio'.seq, NEW j \in DOMAIN prio'.seq, i < j
                     PROVE  ent'[prio'.seq[i]].priority < ent'[prio'.seq[j]].priority
        BY DEF OrderInv
      <3>2. \A k \in 1 .. Len(prio.seq) : ~(pr[prio.seq[k]] > p)
        <4>1. SUFFICES ASSUME NEW k \in 1 .. Len(prio.seq) PROVE ~(pr[prio.seq[k]] > p)
          OBVIOUS
        <4>2. ent[prio.seq[k]].priority < p \/ ent[prio.seq[k]].priority = p
          BY <3>1, <1>1, <1>2, Zenon
        <4> QED
          BY <4>2, <1>3, <1>5
      <3>3. prio' = Append1(prio, new) /\ ascending /\ \A k \in 1 .. Len(prio.seq) : pr[prio.seq[k]] < p
        BY <3>1, <3>2, <1>1, <1>2, <1>3, <1>4, <1>5, <1>7, Zenon
      <3>4. /\ DOMAIN prio'.seq = 1 .. Len(prio.seq) + 1 /\ prio'.seq[Len(prio.seq) + 1] = new
            /\ \A k \in 1 .. Len(prio.seq) : prio'.seq[k] = prio.seq[k]
        BY <3>3, <1>2, AppendProperties DEF Append1
      <3>5. i \in 1 .. Len(prio.seq) /\ prio'.seq[i] = prio.seq[i]
        BY <3>1, <3>4, <1>2
      <3>6. CASE j = Len(prio.seq) + 1
        BY <3>3, <3>4, <3>5, <3>6, <2>2, <1>3, <1>5, SMTT(30)
      <3>7. CASE j # Len(prio.seq) + 1
        <4>1. j \in 1 .. Len(prio.seq) /\ prio'.seq[j] = prio.seq[j]
          <5>1. j \in 1 .. Len(prio.seq) + 1 /\ Len(prio.seq) \in Nat
            BY <3>1, <3>4, <1>2
          <5>2. j \in 1 .. Len(prio.seq)
            BY <5>1, <3>7
          <5> QED
            BY <5>2, <3>4
        <4> QED
          BY <4>1, <3>1, <3>3, <3>5, <2>2, <1>2, <1>5, SMTT(30) DEF OrderInv
      <3> QED
        BY <3>6, <3>7
    <2> QED
      BY <2>2, <2>3, <2>4, <1>1, <1>4, <1>7, Zenon
  <1> QED
    BY <1>6, <1>7

LEMMA UnsetResolverSound ==
  ASSUME BaseInv, OrderInv, NEW p, UnsetResolver(p)
  PROVE  ent' = ent /\ prio' \in SliceOf(1 .. Len(ent)) /\ OrderInv'
  <1>1. PICK i : /\ i = Find(prio, p, Priority(ent)) /\ i # 0 /\ prio' = Unset(prio, i)
                 /\ ent' = ent /\ ascending' = ascending
    BY DEF UnsetResolver
  <1>2. prio \in SliceOf(1 .. Len(ent)) /\ Len(prio.seq) \in Nat /\ DOMAIN prio.seq = 1 .. Len(prio.seq)
    BY DEF BaseInv, SliceOf
  <1>3. i \in 1 .. Len(prio.seq)
    <2> DEFINE P(j) == Priority(ent)[prio.seq[j]] = p
               T == {j \in 1 .. Len(prio.seq) : P(j)}
    <2>1. T \subseteq Nat /\ T # {}
      BY <1>1, <1>2, SMTT(30) DEF Find
    <2>2. PICK x \in T : \A y \in T : x <= y
      BY <2>1, Least, Zenon
    <2>3. x \in 1 .. Len(prio.seq) /\ P(x) /\ \A j \in 1 .. x - 1 : ~P(j)
      <3>1. ASSUME NEW j \in 1 .. x - 1 PROVE ~P(j)
        <4>1. j \in 1 .. Len(prio.seq) /\ ~(x <= j)
          BY <1>2
        <4> QED
          BY <4>1, <2>2
      <3> QED
        BY <3>1
    <2>4. i = CHOOSE j \in 1 .. Len(prio.seq) : P(j) /\ \A k \in 1 .. j - 1 : ~P(k)
      BY <1>1, Zenon DEF Find
    <2> HIDE DEF P
    <2> QED
      BY <2>3, <2>4
  <1>4. prio' \in SliceOf(1 .. Len(ent))
    BY <1>1, <1>2, <1>3, SliceOperations
  <1>5. OrderInv'
    <2>1. prio'.seq = [j \in 1 .. Len(prio.seq) - 1 |-> IF j < i THEN prio.seq[j] ELSE prio.seq[j + 1]]
      BY <1>1, <1>2 DEF Unset, SliceOf
    <2>2. SUFFICES ASSUME ascending', NEW j \in DOMAIN prio'.seq, NEW k \in DOMAIN prio'.seq, j < k
                   PROVE  ent'[prio'.seq[j]].priority < ent'[prio'.seq[k]].priority
      BY DEF OrderInv
    <2>3. j \in 1 .. Len(prio.seq) - 1 /\ k \in 1 .. Len(prio.seq) - 1
      BY <2>1, <2>2
    <2> DEFINE z(m) == IF m < i THEN m ELSE m + 1
    <2>b. \A m \in 1 .. Len(prio.seq) - 1 : z(m) \in 1 .. Len(prio.seq)
      BY <1>2, <1>3, SMTT(30)
    <2>c. \A m \in 1 .. Len(prio.seq) - 1 : prio'.seq[m] = prio.seq[z(m)]
      BY <2>1, SMTT(30)
    <2>a. \A m \in 1 .. Len(prio.seq) - 1 : z(m) \in 1 .. Len(prio.seq) /\ prio'.seq[m] = prio.seq[z(m)]
      BY <2>b, <2>c, Zenon
    <2>4. PICK x \in 1 .. Len(prio.seq) : prio'.seq[j] = prio.seq[x] /\ x = z(j)
      BY <2>a, <2>3, SMTT(30)
    <2>5. PICK y \in 1 .. Len(prio.seq) : prio'.seq[k] = prio.seq[y] /\ y = z(k)
      BY <2>a, <2>3
    <2>6. x < y
      BY <2>2, <2>3, <2>4, <2>5, <1>2, <1>3
    <2>7. ent[prio.seq[x]].priority < ent[prio.seq[y]].priority
      <3>1. ascending /\ x \in DOMAIN prio.seq /\ y \in DOMAIN prio.seq
        BY <2>2, <1>1, <1>2
      <3> QED
        BY <2>6, <3>1, Zenon DEF OrderInv
    <2> QED
      BY <2>4, <2>5, <2>7, <1>1, Zenon
  <1> QED
    BY <1>1, <1>4, <1>5

(***************************************************************************)
(* The lists                                                               *)
(***************************************************************************)
LEMMA InitSound ==
  ASSUME Init
  PROVE  BaseInv /\ OrderInv
  <1>1. now \in Nat /\ cache.val \in Values
    BY DEF Init, Nothing, Values
  <1>2. ent \in Seq(Entities) /\ prio \in SliceOf(1 .. Len(ent)) /\ Len(prio.seq) = 1
    <2>1. ent = <<[priority |-> DNSPriority, resolver |-> "servers", failedAt |-> Never]>>
      BY DEF Init
    <2>2. ent \in Seq(Entities) /\ Len(ent) = 1
      BY <2>1, ResolversAssumption DEF Entities, Never
    <2>3. prio.seq = <<1>> /\ prio.cap = 1 /\ prio = [seq |-> <<1>>, cap |-> 1]
      BY DEF Init
    <2>4. prio.seq \in Seq(1 .. Len(ent)) /\ Len(prio.seq) = 1
      BY <2>2, <2>3
    <2>5. prio \in [seq : Seq(1 .. Len(ent)), cap : Nat]
      BY <2>3, <2>4
    <2>6. Len(prio.seq) <= prio.cap
      BY <2>3, <2>4
    <2> QED
      BY <2>2, <2>4, <2>5, <2>6 DEF SliceOf
  <1>3. la \in ListType /\ WellFormed(la)
    <2>1. Cardinality(Server) \in Nat /\ 1 .. Cardinality(Server) \subseteq Element
      BY ResolversAssumption, FS_CardinalityType
    <2> QED
      BY <2>1, ListOfPushed DEF Init
  <1>4. srv \in [Element -> Hosts]
    BY DEF Init, Hosts
  <1>5. proc \in [Client -> Lookups] /\ \A c \in Client : proc[c].at = "idle"
    BY DEF Init, Idle, Lookups, Places
  <1>6. OrderInv
    <2>1. DOMAIN prio.seq = {1}
      BY DEF Init
    <2> QED
      BY <2>1 DEF OrderInv
  <1> QED
    BY <1>1, <1>2, <1>3, <1>4, <1>5, <1>6 DEF BaseInv

\* Every step keeps the lists sound.
LEMMA NextSound ==
  ASSUME BaseInv, OrderInv, [Next]_vars
  PROVE  BaseInv' /\ OrderInv'
  <1> USE ResolversAssumption DEF Hosts
  <1>1. CASE UNCHANGED vars
    BY <1>1 DEF vars, BaseInv, OrderInv, config
  <1>2. ASSUME NEW c \in Client, Lookup(c) PROVE BaseInv' /\ OrderInv'
    <2>1. UNCHANGED <<now, cache, prio, ent, la, srv, ascending>>
      BY <1>2 DEF Lookup, config
    <2>2. PICK lazy \in BOOLEAN :
            proc' = IF Fresh(Got) THEN proc ELSE [proc EXCEPT ![c] = [Idle EXCEPT !.at = "wait", !.lazy = lazy, !.i = 1]]
      BY <1>2, Zenon DEF Lookup
    <2>3. PICK x \in Lookups : x = [Idle EXCEPT !.at = "wait", !.lazy = lazy, !.i = 1] /\ x.at = "wait"
      <3>1. PICK y \in Lookups : y = Idle
        BY Zenon DEF Idle, Lookups, Places
      <3>2. PICK x \in Lookups : x = [y EXCEPT !.at = "wait", !.lazy = lazy, !.i = 1]
        BY Zenon DEF Lookups, Places
      <3>3. x.at = "wait"
        BY <3>2 DEF Lookups
      <3> QED
        BY <3>1, <3>2, <3>3, Zenon
    <2>4. /\ proc' \in [Client -> Lookups]
          /\ \A d \in Client : proc'[d].at \in {"ask", "protect", "asked"} => proc'[d].e \in la.members
      BY <2>2, <2>3 DEF BaseInv
    <2> QED
      BY <2>1, <2>4 DEF BaseInv, OrderInv
  <1>3. ASSUME NEW c \in Client, LookupStep(c) PROVE BaseInv' /\ OrderInv'
    <2>1. /\ PlaceEffect(c) /\ DataEffect /\ UNCHANGED Others
          /\ la' = la \/ la' = MoveToFront(la, proc[c].e)
      BY <1>3, StepEffect
    <2>2. la' \in ListType /\ WellFormed(la') /\ la'.members = la.members
      <3>1. la \in ListType /\ WellFormed(la)
        BY DEF BaseInv
      <3>2. \A e : /\ MoveToFront(la, e) \in ListType /\ WellFormed(MoveToFront(la, e))
                    /\ MoveToFront(la, e).members = la.members
        BY <3>1, ListOperations, Zenon
      <3>3. CASE la' = la
        BY <3>1, <3>3
      <3>4. CASE la' = MoveToFront(la, proc[c].e)
        BY <3>2, <3>4, Zenon
      <3> QED
        BY <2>1, <3>3, <3>4, Zenon
    <2>3. ASSUME NEW d \in Client, proc'[d].at \in {"ask", "protect", "asked"}
          PROVE  proc'[d].e \in la'.members
      <3>1. CASE d = c
        BY <3>1, <2>1, <2>2, <2>3 DEF PlaceEffect, BaseInv
      <3>2. CASE d # c
        BY <3>2, <2>1, <2>2, <2>3 DEF PlaceEffect, BaseInv
      <3> QED
        BY <3>1, <3>2
    <2>4. now' = now /\ prio' = prio /\ srv' = srv /\ ascending' = ascending
      BY <2>1 DEF Others
    <2>5. OrderInv'
      <3>1. \A i \in DOMAIN prio.seq : prio.seq[i] \in 1 .. Len(ent)
        BY DEF BaseInv, SliceOf
      <3> QED
        BY <3>1, <2>1, <2>4 DEF OrderInv, DataEffect
    <2> QED
      BY <2>1, <2>2, <2>3, <2>4, <2>5 DEF BaseInv, PlaceEffect, DataEffect
  <1>4. ASSUME NEW b \in BOOLEAN, Preset(b) PROVE BaseInv' /\ OrderInv'
    <2>1. UNCHANGED <<now, prio, ent, la, srv, ascending, proc>>
      BY <1>4 DEF Preset, config
    <2>2. cache' = Nothing \/ cache' = [val |-> "preset", expires |-> Never, deadline |-> Never]
      BY <1>4 DEF Preset, cacheResult
    <2>3. cache'.val \in Values
      BY <2>2 DEF Nothing, Values
    <2> QED
      BY <2>1, <2>3 DEF BaseInv, OrderInv
  <1>5. ASSUME NEW b \in BOOLEAN, ForceUnprotect(b) PROVE BaseInv' /\ OrderInv'
    BY <1>5 DEF ForceUnprotect, BaseInv, OrderInv
  <1>6. ASSUME NEW b \in BOOLEAN, NEW p \in SystemPriorities, WithSystem(p, b) PROVE BaseInv' /\ OrderInv'
    <2>1. AddResolver(p, "system", b) /\ p \in Int
      BY <1>6 DEF WithSystem
    <2>2. ent' \in Seq(Entities) /\ prio' \in SliceOf(1 .. Len(ent')) /\ OrderInv'
      BY <2>1, AddResolverSound
    <2>3. UNCHANGED <<now, cache, la, srv, proc>>
      BY <2>1 DEF AddResolver, Change
    <2> QED
      BY <2>2, <2>3 DEF BaseInv
  <1>7. ASSUME NEW p \in SystemPriorities, UnsetResolver(p) PROVE BaseInv' /\ OrderInv'
    <2>1. UNCHANGED <<now, cache, la, srv, proc>>
      BY <1>7 DEF UnsetResolver, Change
    <2>2. ent' = ent /\ prio' \in SliceOf(1 .. Len(ent)) /\ OrderInv'
      BY <1>7, UnsetResolverSound
    <2> QED
      BY <2>1, <2>2 DEF BaseInv
  <1>8. ASSUME NEW s \in Server, AddServer(s) PROVE BaseInv' /\ OrderInv'
    <2>1. UNCHANGED <<now, cache, proc, prio, ent, ascending>> /\ InServers = {}
      BY <1>8 DEF AddServer, Change
    <2>2. PICK e \in Element : e \notin la.members /\ la' = PushBack(la, e) /\ srv' = [srv EXCEPT ![e] = s]
      BY <1>8, Zenon DEF AddServer, FreeElement
    <2>3. la' \in ListType /\ WellFormed(la')
      BY <2>2, ListOperations DEF BaseInv
    <2>4. srv' \in [Element -> Hosts]
      BY <2>2 DEF BaseInv
    <2> QED
      BY <2>1, <2>3, <2>4 DEF BaseInv, OrderInv, InServers
  <1>9. ASSUME NEW s \in Server, UnsetServer(s) PROVE BaseInv' /\ OrderInv'
    <2>1. UNCHANGED <<now, cache, proc, prio, ent, ascending, srv>> /\ InServers = {}
      BY <1>9 DEF UnsetServer, Change
    <2>2. PICK e \in la.members : la' = Remove(la, e)
      BY <1>9 DEF UnsetServer
    <2>3. la' \in ListType /\ WellFormed(la')
      BY <2>2, ListOperations DEF BaseInv
    <2> QED
      BY <2>1, <2>3 DEF BaseInv, OrderInv, InServers
  <1>10. CASE Tick
    <2>1. now' = now + 1 /\ UNCHANGED <<cache, prio, ent, la, srv, ascending, proc>>
      BY <1>10 DEF Tick, config
    <2>2. now' \in Nat
      BY <2>1 DEF BaseInv
    <2> QED
      BY <2>1, <2>2 DEF BaseInv, OrderInv
  <1>11. CASE Evict
    <2>1. UNCHANGED <<now, prio, ent, la, srv, ascending, proc>> /\ cache' = Nothing
      BY <1>11 DEF Evict, config
    <2> QED
      BY <2>1 DEF BaseInv, OrderInv, Nothing, Values
  <1> QED
    BY <1>1, <1>2, <1>3, <1>4, <1>5, <1>6, <1>7, <1>8, <1>9, <1>10, <1>11 DEF Next

\* For any number of lookups, servers and resolvers, and however they interleave with
\* changes, the linked list of servers and the slice of resolvers stay sound, though
\* Lookup takes the lock anew before it moves an element and though add changes the
\* slice it ranges over (xdns/client/lastactive.go, priority.go, list/list.go).
THEOREM Lists == Spec => []ListsSound
  <1>1. Init => BaseInv /\ OrderInv
    BY InitSound
  <1>2. (BaseInv /\ OrderInv) /\ [Next]_vars => (BaseInv /\ OrderInv)'
    BY NextSound
  <1>3. BaseInv /\ OrderInv => ListsSound
    <2>1. SUFFICES ASSUME BaseInv, OrderInv PROVE ListsSound
      OBVIOUS
    <2>2. \A i \in DOMAIN prio.seq : prio.seq[i] \in DOMAIN ent
      BY <2>1 DEF BaseInv, SliceOf
    <2>3. Len(prio.seq) <= prio.cap
      BY <2>1 DEF BaseInv, SliceOf
    <2> QED
      BY <2>1, <2>2, <2>3 DEF ListsSound, TypeOK, BaseInv, OrderInv, Values, Lookups, Places
  <1> QED
    BY <1>1, <1>2, <1>3, PTL DEF Spec

(***************************************************************************)
(* The servers a lookup asks                                               *)
(***************************************************************************)
\* The walk starts at the front and goes on from an element to the next one; at the
\* last one it has seen them all.
LEMMA Walk ==
  ASSUME NEW l \in ListType, WellFormed(l)
  PROVE  /\ Front(l) # NilElement => Walked(l, Front(l), {})
         /\ \A e, tried : Walked(l, e, tried) =>
              /\ NextOf(l, e) # NilElement => Walked(l, NextOf(l, e), tried \cup {e})
              /\ NextOf(l, e) = NilElement => l.members \subseteq tried \cup {e}
  <1>1. /\ \A x \in l.members \cup {Root} : l.next[x] \in l.members \cup {Root} /\ l.prev[l.next[x]] = x
        /\ Root \notin l.members /\ NilElement \notin l.members
    <2>1. l.members \subseteq Element
      BY DEF ListType
    <2>2. Root \notin l.members /\ NilElement \notin l.members
      BY <2>1, ListAssumption DEF Root, NilElement
    <2> QED
      BY <2>2, Zenon DEF WellFormed
  <1>2. ASSUME Front(l) # NilElement PROVE Walked(l, Front(l), {})
    <2>1. Front(l) = l.next[Root] /\ Front(l) \in l.members
      BY <1>2, ListOperations DEF Front
    <2> QED
      BY <2>1, <1>1 DEF Walked
  <1>3. ASSUME NEW e, NEW tried, Walked(l, e, tried), NextOf(l, e) # NilElement
        PROVE  Walked(l, NextOf(l, e), tried \cup {e})
    <2>1. e \in l.members /\ tried \subseteq l.members /\ e \notin tried /\ e # Root
      BY <1>1, <1>3 DEF Walked
    <2>2. PICK n : n = NextOf(l, e) /\ n = l.next[e] /\ n \in l.members /\ l.prev[n] = e
      BY <2>1, <1>1, <1>3, ListOperations DEF NextOf
    <2>3. n \notin tried \cup {e}
      <3>1. SUFFICES ASSUME n \in tried \cup {e} PROVE FALSE
        OBVIOUS
      <3>2. l.prev[n] \in tried \cup {Root}
        BY <3>1, <1>3 DEF Walked
      <3> QED
        BY <3>2, <2>1, <2>2
    <2>4. \A x \in (tried \cup {e}) \cup {Root} : l.next[x] \in (tried \cup {e}) \cup {n}
      BY <2>2, <1>3 DEF Walked
    <2>5. \A x \in (tried \cup {e}) \cup {n} : l.prev[x] \in (tried \cup {e}) \cup {Root}
      BY <2>2, <1>3 DEF Walked
    <2>6. Walked(l, n, tried \cup {e})
      BY <2>1, <2>2, <2>3, <2>4, <2>5, Zenon DEF Walked
    <2> QED
      BY <2>2, <2>6
  <1>4. ASSUME NEW e, NEW tried, Walked(l, e, tried), NextOf(l, e) = NilElement
        PROVE  l.members \subseteq tried \cup {e}
    <2> DEFINE N == tried \cup {e, Root}
    <2>1. e \in l.members /\ tried \subseteq l.members
      BY <1>4 DEF Walked
    <2>2. l.next[e] = Root
      <3>1. l.next[e] # Root => NextOf(l, e) = l.next[e]
        BY <2>1 DEF NextOf
      <3> QED
        BY <3>1, <2>1, <1>1, <1>4 DEF Root, NilElement
    <2>3. N \in SUBSET (l.members \cup {Root}) /\ Root \in N
      BY <2>1
    <2>4. \A x \in N : l.next[x] \in N
      BY <2>2, <1>4 DEF Walked
    <2>5. l.members \subseteq N
      <3> HIDE DEF N
      <3> QED
        BY <2>3, <2>4, Zenon DEF WellFormed, Connected
    <2> QED
      BY <2>5, <1>1
  <1> QED
    BY <1>2, <1>3, <1>4, Zenon

LEMMA NextWalk ==
  ASSUME BaseInv, WalkInv, [Next]_vars
  PROVE  WalkInv'
  <1>1. la \in ListType /\ WellFormed(la)
    BY DEF BaseInv
  <1>2. \A d \in Client : proc[d].at \in Asking => Walked(la, proc[d].e, proc[d].tried)
    BY DEF WalkInv, InServers, Asking
  <1>3. SUFFICES ASSUME NEW d \in Client, proc'[d].at \in Asking
                 PROVE  Walked(la', proc'[d].e, proc'[d].tried)
    BY Zenon DEF WalkInv, InServers, Asking, Walked
  <1>4. CASE la' = la /\ proc'[d] = proc[d]
    BY <1>2, <1>3, <1>4
  <1>5. CASE InServers = {} /\ proc'[d] = proc[d]
    BY <1>3, <1>5 DEF InServers, Asking
  <1>6. ASSUME NEW c \in Client, Lookup(c) PROVE la' = la /\ proc'[d] = proc[d]
    <2>1. la' = la
      BY <1>6 DEF Lookup, config
    <2>2. PICK lazy \in BOOLEAN :
            proc' = IF Fresh(Got) THEN proc ELSE [proc EXCEPT ![c] = [Idle EXCEPT !.at = "wait", !.lazy = lazy, !.i = 1]]
      BY <1>6, Zenon DEF Lookup
    <2>3. [Idle EXCEPT !.at = "wait", !.lazy = lazy, !.i = 1].at = "wait"
      BY DEF Idle
    <2> QED
      BY <2>1, <2>2, <2>3, <1>3 DEF BaseInv, Asking
  <1>7. ASSUME NEW c \in Client, LookupStep(c) PROVE Walked(la', proc'[d].e, proc'[d].tried)
    <2>1. PlaceEffect(c) /\ (la' = la \/ InServers = {})
      BY <1>7, StepEffect
    <2>2. CASE d # c
      <3>1. proc'[d] = proc[d]
        BY <2>1, <2>2 DEF PlaceEffect
      <3> QED
        BY <3>1, <2>1, <1>4, <1>5
    <2>3. CASE d = c /\ la' = la
      <3>1. WalkEffect(c)
        BY <2>1 DEF PlaceEffect
      <3>2. CASE proc[c].at \in Asking /\ proc'[c].e = proc[c].e /\ proc'[c].tried = proc[c].tried
        BY <3>2, <2>3, <1>2, Zenon
      <3>3. CASE Front(la) # NilElement /\ proc'[c].e = Front(la) /\ proc'[c].tried = {}
        <4>1. Walked(la, Front(la), {})
          BY <3>3, <1>1, Walk
        <4> QED
          BY <4>1, <3>3, <2>3, Zenon
      <3>4. CASE /\ proc[c].at \in Asking /\ NextOf(la, proc[c].e) # NilElement /\ proc'[c].e = NextOf(la, proc[c].e)
                 /\ proc'[c].tried = proc[c].tried \cup {proc[c].e}
        <4>1. Walked(la, proc[c].e, proc[c].tried)
          BY <3>4, <1>2
        <4>2. Walked(la, NextOf(la, proc[c].e), proc[c].tried \cup {proc[c].e})
          BY <4>1, <3>4, <1>1, Walk, Zenon
        <4> QED
          BY <4>2, <3>4, <2>3, Zenon
      <3> QED
        BY <3>1, <3>2, <3>3, <3>4, <2>3, <1>3, Zenon DEF WalkEffect
    <2>4. CASE d = c /\ la' # la
      <3>1. Move(c)
        BY <2>4, <1>7 DEF LookupStep, Consider, SystemAnswer, AskAnswer, Protect, AskedAnswer
      <3>2. proc'[c].at = "idle"
        BY <3>1, ReturnEffect DEF Move
      <3> QED
        BY <3>2, <2>4, <1>3 DEF Asking
    <2> QED
      BY <2>2, <2>3, <2>4
  <1>8. ASSUME NEW s, AddServer(s) \/ UnsetServer(s) PROVE InServers = {} /\ proc'[d] = proc[d]
    BY <1>8 DEF AddServer, UnsetServer, Change
  <1>9. ASSUME NEW b, Preset(b) \/ ForceUnprotect(b) PROVE la' = la /\ proc'[d] = proc[d]
    BY <1>9 DEF Preset, ForceUnprotect, config
  <1>10. ASSUME NEW p, NEW b, WithSystem(p, b) \/ UnsetResolver(p) PROVE la' = la /\ proc'[d] = proc[d]
    BY <1>10 DEF WithSystem, AddResolver, UnsetResolver, Change
  <1>11. ASSUME Evict \/ Tick \/ UNCHANGED vars PROVE la' = la /\ proc'[d] = proc[d]
    BY <1>11 DEF Evict, Tick, vars, config
  <1> QED
    BY <1>4, <1>5, <1>6, <1>7, <1>8, <1>9, <1>10, <1>11 DEF Next

\* For any number of lookups and servers, a lookup that walks the list of servers asks
\* each of them at most once and gives up only when it has asked them all, though it
\* waits for their answers in between and other lookups and changes reorder the list:
\* all of these take the write lock, which no lookup in the list lets them have
\* (LastActiveResolver.Lookup, xdns/client/lastactive.go).
THEOREM Servers == Spec => []EveryServerAsked
  <1>1. Init => BaseInv /\ OrderInv /\ WalkInv
    <2>1. SUFFICES ASSUME Init PROVE WalkInv
      BY InitSound
    <2>2. \A c \in Client : proc[c].at = "idle"
      BY <2>1 DEF Init, Idle
    <2> QED
      BY <2>2 DEF WalkInv, InServers
  <1>2. (BaseInv /\ OrderInv /\ WalkInv) /\ [Next]_vars => (BaseInv /\ OrderInv /\ WalkInv)'
    BY NextSound, NextWalk
  <1>3. BaseInv /\ WalkInv => EveryServerAsked
    <2>1. SUFFICES ASSUME BaseInv, WalkInv, NEW c \in InServers
                   PROVE  /\ proc[c].e \notin proc[c].tried
                          /\ NextOf(la, proc[c].e) = NilElement => la.members \subseteq proc[c].tried \cup {proc[c].e}
      BY Zenon DEF EveryServerAsked
    <2>2. Walked(la, proc[c].e, proc[c].tried) /\ la \in ListType /\ WellFormed(la)
      BY <2>1 DEF WalkInv, BaseInv
    <2>3. proc[c].e \notin proc[c].tried
      BY <2>2 DEF Walked
    <2> QED
      BY <2>2, <2>3, Walk, Zenon
  <1> QED
    BY <1>1, <1>2, <1>3, PTL DEF Spec

(***************************************************************************)
(* The protected addresses                                                 *)
(***************************************************************************)
ProtectedOf(a) ==
  /\ a \in DOMAIN pc.protected <=> Users(a) # {}
  /\ a \in DOMAIN pc.protected => pc.protected[a] = Cardinality(Users(a)) /\ a \in pc.under

LEMMA UsersFinite ==
  ASSUME NEW a
  PROVE  /\ IsFiniteSet(Users(a)) /\ Cardinality(Users(a)) \in Nat
         /\ Cardinality(Users(a)) = 0 <=> Users(a) = {}
  <1>1. IsFiniteSet(Users(a))
    <2>1. Users(a) \in SUBSET Client
      BY DEF Users
    <2> QED
      BY <2>1, ResolversAssumption, FS_Subset
  <1> QED
    BY <1>1, FS_EmptySet, FS_CardinalityType

\* A step of c changes no other user.
LEMMA UsersStep ==
  ASSUME BaseInv, NEW c \in Client, PlaceEffect(c), srv' = srv, NEW a
  PROVE  /\ proc[c].at # "asked" /\ proc'[c].at # "asked" => Users(a)' = Users(a)
         /\ proc[c].at = "asked" /\ proc'[c].at # "asked" => Users(a)' = Users(a) \ {c}
         /\ proc'[c].at = "asked" =>
              Users(a)' = IF srv[proc[c].e] = a THEN Users(a) \cup {c} ELSE Users(a)
  <1>1. /\ \A d \in Client \ {c} : proc'[d] = proc[d]
        /\ proc'[c].at = "asked" => proc[c].at = "protect" /\ proc'[c].e = proc[c].e
    BY DEF PlaceEffect
  <1>2. \A d \in Client : d \in Users(a)' <=> proc'[d].at = "asked" /\ srv[proc'[d].e] = a
    BY DEF Users
  <1>3. \A d \in Client : d \in Users(a) <=> proc[d].at = "asked" /\ srv[proc[d].e] = a
    BY DEF Users
  <1>4. Users(a)' \subseteq Client /\ Users(a) \subseteq Client
    BY DEF Users
  <1>5. CASE proc[c].at # "asked" /\ proc'[c].at # "asked"
    <2>1. \A d \in Client : d \in Users(a)' <=> d \in Users(a)
      BY <1>1, <1>2, <1>3, <1>5
    <2> QED
      BY <2>1, <1>4, <1>5
  <1>6. CASE proc[c].at = "asked" /\ proc'[c].at # "asked"
    <2>1. \A d \in Client : d \in Users(a)' <=> d \in Users(a) /\ d # c
      BY <1>1, <1>2, <1>3, <1>6
    <2> QED
      BY <2>1, <1>4, <1>6
  <1>7. CASE proc'[c].at = "asked" /\ srv[proc[c].e] = a
    <2>1. \A d \in Client : d \in Users(a)' <=> d \in Users(a) \/ d = c
      BY <1>1, <1>2, <1>3, <1>7
    <2> QED
      BY <2>1, <1>1, <1>4, <1>7
  <1>8. CASE proc'[c].at = "asked" /\ srv[proc[c].e] # a
    <2>1. \A d \in Client : d \in Users(a)' <=> d \in Users(a)
      BY <1>1, <1>2, <1>3, <1>8
    <2> QED
      BY <2>1, <1>1, <1>4, <1>8
  <1> QED
    BY <1>1, <1>5, <1>6, <1>7, <1>8

\* ProtectAddresses and UnprotectAddresses count the exchange that begins and ends.
LEMMA StepProtect ==
  ASSUME BaseInv, \A a \in Hosts : ProtectedOf(a), NEW c \in Client, LookupStep(c)
  PROVE  \A a \in Hosts : ProtectedOf(a)'
  <1>1. PlaceEffect(c) /\ srv' = srv
    BY StepEffect DEF Others
  <1>2. SUFFICES ASSUME NEW a \in Hosts PROVE ProtectedOf(a)'
    OBVIOUS
  <1>3. CASE pc' = pc /\ proc[c].at # "asked" /\ proc'[c].at # "asked"
    <2>1. Users(a)' = Users(a)
      BY <1>1, <1>3, UsersStep
    <2> QED
      BY <2>1, <1>3 DEF ProtectedOf
  <1>4. CASE pc' = ProtectAddresses(pc, srv[proc[c].e]) /\ proc[c].at = "protect" /\ proc'[c].at = "asked"
    <2>1. CASE srv[proc[c].e] = a
      <3>1. Users(a)' = Users(a) \cup {c} /\ c \notin Users(a)
        <4>1. c \notin Users(a)
          BY <2>1, <1>4 DEF Users
        <4> QED
          BY <4>1, <2>1, <1>1, <1>4, UsersStep
      <3>2. Cardinality(Users(a) \cup {c}) = Cardinality(Users(a)) + 1
        BY <3>1, UsersFinite, FS_AddElement
      <3>3. Count(pc, a) = Cardinality(Users(a))
        BY UsersFinite DEF Count, ProtectedOf
      <3>4. /\ pc'.protected = Put(pc.protected, a, Count(pc, a) + 1)
            /\ pc'.under = IF a \in DOMAIN pc.protected THEN pc.under ELSE pc.under \cup {a}
        BY <2>1, <1>4 DEF ProtectAddresses
      <3>5. a \in DOMAIN pc'.protected /\ pc'.protected[a] = Count(pc, a) + 1 /\ a \in pc'.under
        BY <3>4 DEF Put, ProtectedOf
      <3> QED
        BY <3>1, <3>2, <3>3, <3>5 DEF ProtectedOf
    <2>2. CASE srv[proc[c].e] # a
      <3>1. Users(a)' = Users(a)
        BY <2>2, <1>1, <1>4, UsersStep
      <3>2. /\ a \in DOMAIN pc'.protected <=> a \in DOMAIN pc.protected
            /\ a \in DOMAIN pc.protected => pc'.protected[a] = pc.protected[a]
            /\ a \in pc.under => a \in pc'.under
        BY <2>2, <1>4 DEF ProtectAddresses, Put
      <3> QED
        BY <3>1, <3>2 DEF ProtectedOf
    <2> QED
      BY <2>1, <2>2
  <1>5. ASSUME NEW un \in BOOLEAN, pc' = UnprotectAddresses(pc, srv[proc[c].e], un),
               proc[c].at = "asked", proc'[c].at # "asked"
        PROVE  ProtectedOf(a)'
    <2>1. CASE srv[proc[c].e] = a
      <3>1. Users(a)' = Users(a) \ {c} /\ c \in Users(a)
        <4>1. c \in Users(a)
          BY <2>1, <1>5 DEF Users
        <4> QED
          BY <4>1, <2>1, <1>1, <1>5, UsersStep
      <3>2. Cardinality(Users(a) \ {c}) = Cardinality(Users(a)) - 1 /\ IsFiniteSet(Users(a) \ {c})
        BY <3>1, UsersFinite, FS_RemoveElement
      <3>3. Count(pc, a) = Cardinality(Users(a)) /\ a \in DOMAIN pc.protected /\ a \in pc.under
        BY <3>1, UsersFinite DEF Count, ProtectedOf
      <3>4. /\ pc'.protected = IF Count(pc, a) = 1 THEN Without(pc.protected, a) ELSE Put(pc.protected, a, Count(pc, a) - 1)
            /\ pc'.under = IF Count(pc, a) = 1 /\ un THEN pc.under \ {a} ELSE pc.under
        BY <2>1, <1>5 DEF UnprotectAddresses
      <3>5. CASE Count(pc, a) = 1
        <4>1. Users(a)' = {}
          <5>1. Cardinality(Users(a) \ {c}) = 0
            BY <3>2, <3>3, <3>5
          <5> QED
            BY <5>1, <3>1, <3>2, FS_EmptySet
        <4>2. a \notin DOMAIN pc'.protected
          BY <3>4, <3>5 DEF Without
        <4> QED
          BY <4>1, <4>2 DEF ProtectedOf
      <3>6. CASE Count(pc, a) # 1
        <4>1. Cardinality(Users(a) \ {c}) # 0
          <5>1. Cardinality(Users(a)) \in Nat
            BY UsersFinite
          <5>2. Cardinality(Users(a)) # 1
            BY <3>3, <3>6, Zenon
          <5>3. Cardinality(Users(a) \ {c}) = Cardinality(Users(a)) - 1
            BY <3>2, Zenon
          <5> DEFINE m == Cardinality(Users(a))
          <5>4. m - 1 # 0
            <6> HIDE DEF m
            <6> QED
              BY <5>1, <5>2, SMTT(20) DEF m
          <5> QED
            BY <5>3, <5>4
        <4>2. Users(a)' # {}
          BY <4>1, <3>1, FS_EmptySet
        <4>3. a \in DOMAIN pc'.protected /\ pc'.protected[a] = Count(pc, a) - 1 /\ a \in pc'.under
          BY <3>3, <3>4, <3>6 DEF Put
        <4> QED
          BY <4>2, <4>3, <3>1, <3>2, <3>3 DEF ProtectedOf
      <3> QED
        BY <3>5, <3>6
    <2>2. CASE srv[proc[c].e] # a
      <3>1. Users(a)' = Users(a) \ {c} /\ c \notin Users(a)
        <4>1. c \notin Users(a)
          BY <2>2, <1>5 DEF Users
        <4> QED
          BY <4>1, <2>2, <1>1, <1>5, UsersStep
      <3>2. /\ a \in DOMAIN pc'.protected <=> a \in DOMAIN pc.protected
            /\ a \in DOMAIN pc.protected => pc'.protected[a] = pc.protected[a]
            /\ a \in pc.under => a \in pc'.under
        BY <2>2, <1>5 DEF UnprotectAddresses, Put, Without
      <3>3. Users(a)' = Users(a)
        BY <3>1
      <3> QED
        BY <3>2, <3>3 DEF ProtectedOf
    <2> QED
      BY <2>1, <2>2
  <1>6. CASE Consider(c) \/ Move(c) \/ (\E x \in {"ok", "empty", "notexists", "error"} : SystemAnswer(c, x))
          \/ (\E ok \in BOOLEAN : AskAnswer(c, ok))
    <2>1. pc' = pc /\ proc[c].at # "asked" /\ proc[c].at # "protect"
      BY <1>6 DEF Consider, Move, SystemAnswer, AskAnswer
    <2> QED
      BY <2>1, <1>1, <1>3 DEF PlaceEffect
  <1>7. ASSUME NEW ok \in BOOLEAN, Protect(c, ok) PROVE ProtectedOf(a)'
    <2>1. CASE pc' = pc /\ NextServer(c)
      <3>1. proc[c].at = "protect" /\ proc'[c].at # "asked"
        BY <2>1, <1>7, NextServerEffect DEF Protect
      <3> QED
        BY <3>1, <2>1, <1>3
    <2>2. CASE pc' = ProtectAddresses(pc, srv[proc[c].e]) /\ proc' = [proc EXCEPT ![c].at = "asked"]
      <3>1. proc[c].at = "protect" /\ proc'[c].at = "asked"
        BY <2>2, <1>7, PlaceOnlyEffect, Zenon DEF Protect
      <3> QED
        BY <3>1, <2>2, <1>4
    <2> QED
      BY <1>7, <2>1, <2>2 DEF Protect
  <1>8. ASSUME NEW ok \in BOOLEAN, NEW un \in BOOLEAN, AskedAnswer(c, ok, un) PROVE ProtectedOf(a)'
    <2>1. proc[c].at = "asked" /\ pc' = UnprotectAddresses(pc, srv[proc[c].e], un)
      BY <1>8 DEF AskedAnswer
    <2>2. proc'[c].at # "asked"
      BY <1>8, AnsweredEffect, NextServerEffect DEF AskedAnswer
    <2> QED
      BY <2>1, <2>2, <1>5
  <1> QED
    BY <1>6, <1>7, <1>8 DEF LookupStep

LEMMA NextProtect ==
  ASSUME BaseInv, ProtectInv, [Next]_vars
  PROVE  ProtectInv'
  <1>1. ProtectInv <=> (~forced => \A a \in Hosts : ProtectedOf(a))
    BY DEF ProtectInv, ProtectedOf
  <1>2. ProtectInv' <=> (~forced' => \A a \in Hosts : ProtectedOf(a)')
    BY DEF ProtectInv, ProtectedOf
  <1>3. CASE UNCHANGED <<forced, pc, proc, srv>>
    BY <1>3 DEF ProtectInv, Users
  <1>4. ASSUME NEW c \in Client, Lookup(c) PROVE ProtectInv'
    <2>1. UNCHANGED <<forced, pc, srv>> /\ proc[c].at = "idle"
      BY <1>4 DEF Lookup, config
    <2>2. \A d \in Client : (proc'[d] = proc[d]) \/ (proc[d].at # "asked" /\ proc'[d].at # "asked")
      <3>1. PICK lazy \in BOOLEAN :
              proc' = IF Fresh(Got) THEN proc ELSE [proc EXCEPT ![c] = [Idle EXCEPT !.at = "wait", !.lazy = lazy, !.i = 1]]
        BY <1>4, Zenon DEF Lookup
      <3>2. [Idle EXCEPT !.at = "wait", !.lazy = lazy, !.i = 1].at # "asked"
        BY DEF Idle
      <3> QED
        BY <3>1, <3>2, <2>1 DEF BaseInv
    <2>3. \A a \in Hosts : Users(a)' = Users(a)
      BY <2>1, <2>2 DEF Users
    <2> QED
      BY <2>1, <2>3 DEF ProtectInv
  <1>5. ASSUME NEW c \in Client, LookupStep(c) PROVE ProtectInv'
    <2>1. forced' = forced
      BY <1>5, StepEffect DEF Others
    <2> QED
      BY <2>1, <1>1, <1>2, <1>5, StepProtect
  <1>6. ASSUME NEW b \in BOOLEAN, ForceUnprotect(b) PROVE ProtectInv'
    <2>1. SUFFICES ASSUME ~forced', NEW a \in Hosts PROVE ProtectedOf(a)'
      BY <1>2
    <2>2. Users(a)' = {}
      BY <2>1, <1>6, Zenon DEF ForceUnprotect, Users
    <2>3. a \notin DOMAIN pc'.protected
      BY <1>6 DEF ForceUnprotect, UnprotectAll
    <2> QED
      BY <2>2, <2>3 DEF ProtectedOf
  <1>7. ASSUME NEW s \in Server, AddServer(s) PROVE ProtectInv'
    <2>1. UNCHANGED <<forced, pc, proc>> /\ InServers = {}
      BY <1>7 DEF AddServer, Change
    <2>2. \A a \in Hosts : Users(a)' = {} /\ Users(a) = {}
      BY <2>1 DEF Users, InServers
    <2> QED
      BY <2>1, <2>2 DEF ProtectInv
  <1>8. ASSUME NEW s, UnsetServer(s) PROVE UNCHANGED <<forced, pc, proc, srv>>
    BY <1>8 DEF UnsetServer, Change
  <1>9. ASSUME NEW p, NEW b, WithSystem(p, b) PROVE UNCHANGED <<forced, pc, proc, srv>>
    BY <1>9 DEF WithSystem, AddResolver, Change
  <1>10. ASSUME NEW p, UnsetResolver(p) PROVE UNCHANGED <<forced, pc, proc, srv>>
    BY <1>10 DEF UnsetResolver, Change
  <1>11. ASSUME NEW b, Preset(b) PROVE UNCHANGED <<forced, pc, proc, srv>>
    BY <1>11 DEF Preset, config
  <1>13. ASSUME Evict PROVE UNCHANGED <<forced, pc, proc, srv>>
    BY <1>13 DEF Evict, config
  <1>12. ASSUME Tick \/ UNCHANGED vars PROVE UNCHANGED <<forced, pc, proc, srv>>
    BY <1>12 DEF Tick, vars, config
  <1> QED
    BY <1>3, <1>4, <1>5, <1>6, <1>7, <1>8, <1>9, <1>10, <1>11, <1>12, <1>13 DEF Next

\* For any number of lookups and servers, and whichever calls of the protector fail,
\* a server is protected during every protected exchange with it and counted once for
\* each of them, unless UnprotectAll was called during one (protect/counter.go,
\* xdns/client/direct.go).
THEOREM Protection == Spec => []ProtectedWhileAsked
  <1>1. Init => BaseInv /\ OrderInv /\ ProtectInv
    <2>1. SUFFICES ASSUME Init PROVE ProtectInv
      BY InitSound
    <2>2. \A a : a \notin DOMAIN pc.protected
      BY <2>1 DEF Init, NoneProtected
    <2>3. \A a : Users(a) = {}
      BY <2>1 DEF Init, Users, Idle
    <2> QED
      BY <2>2, <2>3 DEF ProtectInv
  <1>2. (BaseInv /\ OrderInv /\ ProtectInv) /\ [Next]_vars => (BaseInv /\ OrderInv /\ ProtectInv)'
    BY NextSound, NextProtect
  <1>3. ProtectInv => ProtectedWhileAsked
    <2>1. SUFFICES ASSUME ProtectInv, ~forced, NEW s \in Server
                   PROVE  Count(pc, s) = Cardinality(Users(s)) /\ (Users(s) # {} => s \in pc.under)
      BY DEF ProtectedWhileAsked, Users
    <2>2. /\ s \in DOMAIN pc.protected <=> Users(s) # {}
          /\ s \in DOMAIN pc.protected => pc.protected[s] = Cardinality(Users(s)) /\ s \in pc.under
      BY <2>1 DEF ProtectInv, Hosts
    <2> QED
      BY <2>2, UsersFinite DEF Count
  <1> QED
    BY <1>1, <1>2, <1>3, PTL DEF Spec
=============================================================================
