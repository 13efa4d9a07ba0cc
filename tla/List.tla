-------------------------------- MODULE List --------------------------------
(***************************************************************************)
(* The doubly linked list with a sentinel (list/list.go), as operators on  *)
(* its state l: the links of the elements and of the sentinel Root, the    *)
(* elements whose field list is this list, and the length.                 *)
(***************************************************************************)
EXTENDS Integers, FiniteSets

CONSTANT Element

ASSUME ListAssumption == Element \subseteq Nat \ {0} /\ IsFiniteSet(Element)

Root == 0
NilElement == -1
Nodes == Element \cup {Root}

EmptyList == [next |-> [e \in Nodes |-> IF e = Root THEN Root ELSE NilElement],
              prev |-> [e \in Nodes |-> IF e = Root THEN Root ELSE NilElement],
              members |-> {}, len |-> 0]

Front(l) == IF l.len = 0 THEN NilElement ELSE l.next[Root]
NextOf(l, e) == IF e \in l.members /\ l.next[e] # Root THEN l.next[e] ELSE NilElement

\* e between a and the element behind a
Link(l, e, a) ==
  LET b == l.next[a]
  IN  [l EXCEPT !.next = [@ EXCEPT ![e] = b, ![a] = e], !.prev = [@ EXCEPT ![e] = a, ![b] = e]]

\* the neighbours of e linked to each other
Unlink(l, e) == [l EXCEPT !.next[l.prev[e]] = l.next[e], !.prev[l.next[e]] = l.prev[e]]

insert(l, e, a) ==
  LET k == Link(l, e, a) IN [k EXCEPT !.members = @ \cup {e}, !.len = @ + 1]

remove(l, e) ==
  LET k == Unlink(l, e)
  IN  [k EXCEPT !.next[e] = NilElement, !.prev[e] = NilElement, !.members = @ \ {e}, !.len = @ - 1]

move(l, e, a) == IF e = a THEN l ELSE Link(Unlink(l, e), e, a)

Remove(l, e) == IF e \in l.members THEN remove(l, e) ELSE l
PushBack(l, e) == insert(l, e, l.prev[Root])

\* Mutant: an element that has left the list is taken back.
MoveToFrontAnyway(l, e) ==
  IF e \notin l.members THEN Link(l, e, Root) ELSE IF l.next[Root] = e THEN l ELSE move(l, e, Root)

MoveToFront(l, e) == IF e \notin l.members \/ l.next[Root] = e THEN l ELSE move(l, e, Root)

\* The list after PushBack of the elements 1 to n.
ListOf(n) ==
  [next |-> [e \in Nodes |-> IF e = n THEN Root ELSE IF e < n THEN e + 1 ELSE NilElement],
   prev |-> [e \in Nodes |-> IF e = Root THEN n ELSE IF e <= n THEN e - 1 ELSE NilElement],
   members |-> 1 .. n, len |-> n]

\* The links lead from Root to every member: what contains Root and with an element
\* the one behind it contains them all.
Connected(l) ==
  \A N \in SUBSET (l.members \cup {Root}) :
    Root \in N /\ (\A e \in N : l.next[e] \in N) => l.members \subseteq N

\* Both directions of the links agree, and they lead from Root through len
\* elements, the members, back to Root.
WellFormed(l) ==
  /\ \A e \in l.members \cup {Root} :
       l.next[e] \in l.members \cup {Root} /\ l.prev[l.next[e]] = e
  /\ Connected(l)
  /\ l.len = Cardinality(l.members)
  /\ \A e \in Element \ l.members : l.next[e] = NilElement /\ l.prev[e] = NilElement
=============================================================================
