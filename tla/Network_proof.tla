--------------------------- MODULE Network_proof ---------------------------
(***************************************************************************)
(* Proofs about the two components that shape the network of the peers:    *)
(* the packet filter (Firewall), for any number of ports, any lists of     *)
(* ranges and any mask, and the address pool (IPv4Pool), for every subnet  *)
(* and any number of goroutines.                                           *)
(***************************************************************************)
EXTENDS IPv4Pool, Firewall, WellFoundedInduction, TLAPS

(***************************************************************************)
(* The packet filter.  That the elements written for a list of ranges are  *)
(* right is shown by induction over the rounds of the loop that merges     *)
(* them; what the chain then accepts by taking it apart into the rules for *)
(* established connections, for UDP and for TCP.                           *)
(***************************************************************************)
\* A set of natural numbers that is not empty has a least element.
LEMMA Least ==
  ASSUME NEW T, T \subseteq Nat, T # {}
  PROVE  \E x \in T : \A y \in T : x <= y
  <1> DEFINE R == OpToRel(<, Nat)
  <1>1. IsWellFoundedOn(R, Nat)
    BY NatLessThanWellFounded, Zenon
  <1>2. \A x, y \in Nat : <<y, x>> \in R <=> y < x
    BY DEF OpToRel
  <1> HIDE DEF R
  <1>3. PICK x \in T : \A y \in T : ~(<<y, x>> \in R)
    BY <1>1, WFMin, Zenon
  <1>4. ASSUME NEW y \in T PROVE x <= y
    <2>1. ~(y < x)
      BY <1>2, <1>3, Zenon
    <2> QED
      BY <2>1
  <1> QED
    BY <1>4

\* Induction over the natural numbers, for a set.
LEMMA NatSetInduction ==
  ASSUME NEW S, 0 \in S, \A n \in Nat : n \in S => n + 1 \in S
  PROVE  \A n \in Nat : n \in S
  <1> DEFINE T == {n \in Nat : n \notin S}
  <1>1. SUFFICES ASSUME T # {} PROVE FALSE
    OBVIOUS
  <1>2. PICK x \in T : \A y \in T : x <= y
    BY <1>1, Least, Zenon
  <1>3. x # 0 /\ x - 1 \in Nat /\ x - 1 \notin T
    BY <1>2
  <1>4. x = (x - 1) + 1
    BY <1>2
  <1> QED
    BY <1>2, <1>3, <1>4

(***************************************************************************)
(* The elements of the port set: by induction over the ranges in order.    *)
(***************************************************************************)
NoElements == [highest |-> 0, elements |-> {}]

\* The loop is the recursion it is written as.
LEMMA ElementsUnfold ==
  ASSUME NEW s, NEW n \in Nat, Len(s) = n
  PROVE  \E g : /\ g = [i \in 0..n |-> IF i = 0 THEN NoElements ELSE Round(g[i - 1], s[i])]
                /\ Elements(s) = g[n].elements
  <1> DEFINE Body(g, k) == [i \in 0..k |-> IF i = 0 THEN NoElements ELSE Round(g[i - 1], s[i])]
             S == {k \in Nat : \E g : g = Body(g, k)}
  <1>1. 0 \in S
    <2> DEFINE g == [i \in 0..0 |-> NoElements]
    <2>1. g = Body(g, 0)
      OBVIOUS
    <2> HIDE DEF g
    <2> QED
      BY <2>1
  <1>2. ASSUME NEW k \in Nat, k \in S PROVE k + 1 \in S
    <2>1. PICK g : g = Body(g, k)
      BY <1>2
    <2> DEFINE h == [i \in 0..(k + 1) |-> IF i = k + 1 THEN Round(g[k], s[k + 1]) ELSE g[i]]
    <2>2. h = Body(h, k + 1)
      <3>1. ASSUME NEW i \in 0..(k + 1)
            PROVE  h[i] = IF i = 0 THEN NoElements ELSE Round(h[i - 1], s[i])
        <4>1. CASE i = k + 1
          <5>1. h[i] = Round(g[k], s[k + 1]) /\ h[i - 1] = g[k] /\ i # 0
            BY <4>1
          <5> QED
            BY <5>1, <4>1
        <4>2. CASE i # k + 1
          <5>1. i \in 0..k /\ h[i] = g[i] /\ (i # 0 => h[i - 1] = g[i - 1])
            BY <4>2
          <5>2. g[i] = IF i = 0 THEN NoElements ELSE Round(g[i - 1], s[i])
            BY <5>1, <2>1
          <5> HIDE DEF h
          <5> QED
            BY <5>1, <5>2
        <4> QED
          BY <4>1, <4>2
      <3>2. h = [i \in 0..(k + 1) |-> h[i]]
        OBVIOUS
      <3> HIDE DEF h
      <3> QED
        BY <3>1, <3>2, Zenon
    <2> HIDE DEF h
    <2> QED
      BY <2>2
  <1>3. n \in S
    <2> HIDE DEF S
    <2> QED
      BY <1>1, <1>2, NatSetInduction
  <1>4. \E g : g = Body(g, n)
    BY <1>3
  <1> QED
    BY <1>4, Zenon DEF Elements, NoElements

ElementType == [key : Ports, end : BOOLEAN]

\* The first n ranges in order are apart from each other and from port 0.
Apart(s, n) ==
  /\ \A i \in 1..n : 0 < s[i].low /\ s[i].low <= s[i].high
  /\ \A i, j \in 1..n : i < j => s[i].high < s[j].low

\* What the loop knows after n rounds.
AfterRounds(s, n, m) ==
  /\ m.highest \in Ports /\ m.elements \subseteq ElementType
  /\ m.highest = 0 \/ \E i \in 1..n : m.highest = s[i].high
  /\ (\A i \in 1..n : s[i].low <= s[i].high) =>
       /\ \A e \in m.elements : e.key <= m.highest + 1 /\ (~e.end => e.key <= m.highest)
       /\ \A p \in Ports : InSet(m.elements, p) => \E i \in 1..n : s[i].low <= p /\ p <= s[i].high
  /\ Apart(s, n) =>
       \A i \in 1..n, p \in Ports : s[i].low <= p /\ p <= s[i].high => InSet(m.elements, p)

\* The end of an interval is 0 for a range up to the last port.
LEMMA EndKey ==
  ASSUME NEW h \in Ports
  PROVE  (h + 1) % (MaxPort + 1) = IF h = MaxPort THEN 0 ELSE h + 1
  BY FirewallAssumption DEF Ports

\* A range that begins above all elements so far covers its own ports, and changes
\* nothing for the ports below it.
LEMMA OneMoreInterval ==
  ASSUME NEW E, E \subseteq ElementType, NEW h \in Ports, NEW r \in PortRange,
         r.low <= r.high, h < r.low,
         \A e \in E : e.key <= h + 1 /\ (~e.end => e.key <= h),
         NEW F, F = E \cup {[key |-> r.low, end |-> FALSE],
                            [key |-> (r.high + 1) % (MaxPort + 1), end |-> TRUE]},
         NEW p \in Ports
  PROVE  /\ InSet(F, p) => InSet(E, p) \/ (r.low <= p /\ p <= r.high)
         /\ r.low <= p /\ p <= r.high => InSet(F, p)
         /\ InSet(E, p) /\ p < r.low => InSet(F, p)
  <1> DEFINE a == [key |-> r.low, end |-> FALSE]
             z == [key |-> (r.high + 1) % (MaxPort + 1), end |-> TRUE]
  <1>1. r.low \in Nat /\ r.high \in Nat /\ r.high <= MaxPort /\ h \in Nat /\ p \in Nat /\ p <= MaxPort
        /\ MaxPort \in Nat
    BY FirewallAssumption DEF PortRange, Ports
  <1>2. /\ a.key = r.low /\ ~a.end /\ z.end
        /\ z.key = IF r.high = MaxPort THEN 0 ELSE r.high + 1
    BY <1>1, EndKey DEF PortRange
  <1>3. \A e \in E : e.key \in Nat /\ e.end \in BOOLEAN
    BY DEF ElementType, Ports
  <1>4. F = E \cup {a, z}
    OBVIOUS
  <1> HIDE DEF a, z
  <1>5. ASSUME InSet(F, p), ~InSet(E, p) PROVE r.low <= p /\ p <= r.high
    <2>1. PICK e \in F : ~e.end /\ e.key <= p /\ \A x \in F : x.key <= p => x.key <= e.key
      BY <1>5 DEF InSet
    <2>2. e = a
      BY <1>2, <1>4, <1>5, <2>1 DEF InSet
    <2> QED
      BY <1>1, <1>2, <1>4, <2>1, <2>2
  <1>6. ASSUME r.low <= p, p <= r.high PROVE InSet(F, p)
    <2>1. a \in F /\ ~a.end /\ a.key <= p
      BY <1>2, <1>4, <1>6
    <2>2. ASSUME NEW x \in F, x.key <= p PROVE x.key <= a.key
      <3>1. CASE x \in E
        BY <1>1, <1>2, <1>3, <3>1
      <3>2. CASE x = z
        BY <1>1, <1>2, <1>6, <2>2, <3>2
      <3> QED
        BY <1>1, <1>2, <1>4, <2>2, <3>1, <3>2
    <2> QED
      BY <2>1, <2>2 DEF InSet
  <1>7. ASSUME InSet(E, p), p < r.low PROVE InSet(F, p)
    <2>1. PICK e \in E : ~e.end /\ e.key <= p /\ \A x \in E : x.key <= p => x.key <= e.key
      BY <1>7 DEF InSet
    <2>2. ASSUME NEW x \in F, x.key <= p PROVE x.key <= e.key
      <3>1. CASE x = z
        BY <1>1, <1>2, <1>3, <1>7, <2>1, <2>2, <3>1
      <3>2. CASE x = a
        BY <1>1, <1>2, <1>7, <2>2, <3>2
      <3> QED
        BY <1>4, <2>1, <2>2, <3>1, <3>2
    <2> QED
      BY <1>4, <2>1, <2>2 DEF InSet
  <1> QED
    BY <1>1, <1>5, <1>6, <1>7

\* One round keeps what the loop knows.
LEMMA RoundKeeps ==
  ASSUME NEW n \in Nat, NEW s, \A i \in 1..(n + 1) : s[i] \in PortRange,
         NEW m, AfterRounds(s, n, m)
  PROVE  AfterRounds(s, n + 1, Round(m, s[n + 1]))
  <1> DEFINE r == s[n + 1]
             E == m.elements
             h == m.highest
             F == E \cup {[key |-> r.low, end |-> FALSE],
                          [key |-> (r.high + 1) % (MaxPort + 1), end |-> TRUE]}
  <1>1. r \in PortRange /\ r.low \in Nat /\ r.high \in Ports /\ r.high \in Nat /\ n + 1 \in 1..(n + 1)
    BY DEF PortRange, Ports
  <1>2. h \in Ports /\ h \in Nat /\ E \subseteq ElementType
    BY DEF AfterRounds, Ports
  <1>3. \A i : i \in 1..(n + 1) <=> i \in 1..n \/ i = n + 1
    OBVIOUS
  <1>4. Apart(s, n + 1) => Apart(s, n) /\ \A i \in 1..n : s[i].high < r.low
    BY <1>3 DEF Apart
  <1>5. CASE r.low <= h
    <2>1. Round(m, r) = m
      BY <1>5 DEF Round
    <2>2. ~Apart(s, n + 1)
      <3>1. SUFFICES ASSUME Apart(s, n + 1) PROVE FALSE
        OBVIOUS
      <3>2. 0 < r.low /\ \A i \in 1..n : s[i].high < r.low
        BY <1>1, <1>4, <3>1 DEF Apart
      <3>3. h = 0 \/ \E i \in 1..n : h = s[i].high
        BY DEF AfterRounds
      <3> QED
        BY <1>1, <1>2, <1>5, <3>2, <3>3
    <2> QED
      BY <1>3, <2>1, <2>2 DEF AfterRounds
  <1>6. CASE ~(r.low <= h)
    <2>1. Round(m, r) = [highest |-> r.high, elements |-> F]
      BY <1>6 DEF Round
    <2>2. r.high \in Ports /\ F \subseteq ElementType
      <3>1. r.low \in Ports /\ (r.high + 1) % (MaxPort + 1) \in Ports
        BY <1>1, EndKey, FirewallAssumption DEF Ports, PortRange
      <3>2. \A q \in Ports : [key |-> q, end |-> TRUE] \in ElementType /\ [key |-> q, end |-> FALSE] \in ElementType
        BY DEF ElementType
      <3> QED
        BY <1>1, <1>2, <3>1, <3>2, Zenon
    <2>3. ASSUME \A i \in 1..(n + 1) : s[i].low <= s[i].high
          PROVE  /\ \A e \in E : e.key <= h + 1 /\ (~e.end => e.key <= h)
                 /\ \A p \in Ports : InSet(E, p) => \E i \in 1..n : s[i].low <= p /\ p <= s[i].high
                 /\ r.low <= r.high /\ h < r.low
      BY <1>1, <1>2, <1>3, <1>6, <2>3 DEF AfterRounds
    <2>4. ASSUME \A i \in 1..(n + 1) : s[i].low <= s[i].high, NEW p \in Ports
          PROVE  /\ InSet(F, p) => InSet(E, p) \/ (r.low <= p /\ p <= r.high)
                 /\ r.low <= p /\ p <= r.high => InSet(F, p)
                 /\ InSet(E, p) /\ p < r.low => InSet(F, p)
      BY <1>1, <1>2, <2>3, <2>4, OneMoreInterval, Zenon
    <2>5. ASSUME \A i \in 1..(n + 1) : s[i].low <= s[i].high
          PROVE  /\ \A e \in F : e.key <= r.high + 1 /\ (~e.end => e.key <= r.high)
                 /\ \A p \in Ports : InSet(F, p) => \E i \in 1..(n + 1) : s[i].low <= p /\ p <= s[i].high
      <3>1. \A e \in E : e.key \in Nat
        BY <1>2 DEF ElementType, Ports
      <3>2. (r.high + 1) % (MaxPort + 1) <= r.high + 1
        BY <1>1, EndKey
      <3>3. \A e \in F : e.key <= r.high + 1 /\ (~e.end => e.key <= r.high)
        BY <1>1, <1>2, <2>3, <2>5, <3>1, <3>2
      <3> HIDE DEF F, E, r
      <3>4. \A p \in Ports : InSet(F, p) => \E i \in 1..(n + 1) : s[i].low <= p /\ p <= s[i].high
        BY <1>3, <2>3, <2>4, <2>5 DEF r
      <3> QED
        BY <3>3, <3>4
    <2>6. ASSUME Apart(s, n + 1), NEW i \in 1..(n + 1), NEW p \in Ports, s[i].low <= p, p <= s[i].high
          PROVE  InSet(F, p)
      <3>1. \A j \in 1..(n + 1) : s[j].low <= s[j].high
        BY <2>6 DEF Apart
      <3>2. CASE i = n + 1
        BY <2>4, <2>6, <3>1, <3>2, Zenon
      <3>3. CASE i \in 1..n
        <4>1. InSet(E, p)
          BY <1>4, <2>6, <3>3 DEF AfterRounds
        <4>2. p < r.low
          BY <1>1, <1>4, <2>6, <3>3 DEF Ports, PortRange
        <4> QED
          BY <2>4, <3>1, <4>1, <4>2, Zenon
      <3> QED
        BY <1>3, <3>2, <3>3
    <2>7. r.high = 0 \/ \E i \in 1..(n + 1) : r.high = s[i].high
      BY <1>1
    <2> DEFINE w == Round(m, r)
    <2>8. w.highest = r.high /\ w.elements = F
      BY <2>1
    <2> HIDE DEF w, F, E, h
    <2>9. AfterRounds(s, n + 1, w)
      BY <2>2, <2>5, <2>6, <2>7, <2>8 DEF AfterRounds
    <2> QED
      BY <2>9 DEF w
  <1> QED
    BY <1>5, <1>6

\* What is known at the end of the loop.
LEMMA ElementsKnown ==
  ASSUME NEW s, NEW n \in Nat, Len(s) = n, \A i \in 1..n : s[i] \in PortRange
  PROVE  \E m : AfterRounds(s, n, m) /\ Elements(s) = m.elements
  <1>1. PICK g : /\ g = [i \in 0..n |-> IF i = 0 THEN NoElements ELSE Round(g[i - 1], s[i])]
                 /\ Elements(s) = g[n].elements
    BY ElementsUnfold
  <1> DEFINE S == {k \in Nat : k <= n => AfterRounds(s, k, g[k])}
  <1>2. 0 \in S
    <2>1. g[0] = NoElements
      BY <1>1
    <2>2. AfterRounds(s, 0, NoElements)
      <3>1. NoElements.highest = 0 /\ NoElements.elements = {} /\ 0 \in Ports
        BY FirewallAssumption DEF NoElements, Ports
      <3>2. 1..0 = {} /\ \A p : ~InSet({}, p)
        BY DEF InSet
      <3> QED
        BY <3>1, <3>2 DEF AfterRounds
    <2> QED
      BY <2>1, <2>2
  <1>3. ASSUME NEW k \in Nat, k \in S PROVE k + 1 \in S
    <2>1. SUFFICES ASSUME k + 1 <= n PROVE AfterRounds(s, k + 1, g[k + 1])
      OBVIOUS
    <2>2. k \in 0..n /\ k + 1 \in 0..n /\ k + 1 # 0 /\ (k + 1) - 1 = k
      BY <2>1
    <2>3. g[k + 1] = Round(g[k], s[k + 1])
      BY <1>1, <2>2
    <2>4. AfterRounds(s, k, g[k]) /\ \A i \in 1..(k + 1) : s[i] \in PortRange
      BY <1>3, <2>2
    <2> QED
      BY <2>3, <2>4, RoundKeeps
  <1>4. n \in S
    <2> HIDE DEF S
    <2> QED
      BY <1>2, <1>3, NatSetInduction
  <1> QED
    BY <1>1, <1>4

(***************************************************************************)
(* The sorted ranges are the ranges of the list in another order.          *)
(***************************************************************************)
\* The set of ports a rule for list c looks up.
SetFor(c, S) ==
  /\ S \subseteq ElementType
  /\ Upward(c) => \A p \in Ports : InSet(S, p) => InRanges(c, p)
  /\ Regular(c) => \A p \in Ports : InRanges(c, p) => InSet(S, p)

\* setBlockedPorts4proto makes such a set, in whatever order sort.Slice leaves ranges
\* that begin at the same port.
LEMMA SortedSet ==
  ASSUME NEW c \in PortList, NEW s \in SortedOrders(c.ranges)
  PROVE  SetFor(c, Elements(s))
  <1> DEFINE R == c.ranges
             n == Len(R)
  <1>1. R \in Seq(PortRange) /\ n \in Nat /\ DOMAIN R = 1..n /\ \A i \in 1..n : R[i] \in PortRange
    BY DEF PortList
  <1>2. PICK o \in Bijection(1..n, 1..n) : s = [i \in 1..n |-> R[o[i]]]
    BY <1>1 DEF SortedOrders
  <1>3. \A i, j \in 1..n : i < j => s[i].low <= s[j].low
    BY <1>1 DEF SortedOrders
  <1>4. /\ o \in [1..n -> 1..n]
        /\ \A i, j \in 1..n : o[i] = o[j] => i = j
        /\ \A k \in 1..n : \E i \in 1..n : o[i] = k
    BY <1>2 DEF Bijection, Injection, Surjection, IsInjective
  <1> HIDE DEF n, R
  <1>5. \A i \in 1..n : s[i] = R[o[i]] /\ s[i] \in PortRange /\ o[i] \in 1..n
    BY <1>1, <1>2, <1>4
  <1>6. Len(s) = n
    <2>1. s \in Seq(PortRange) /\ DOMAIN s = 1..n
      BY <1>1, <1>2, <1>5
    <2> QED
      BY <1>1, <2>1
  <1>7. PICK m : AfterRounds(s, n, m) /\ Elements(s) = m.elements
    BY <1>1, <1>5, <1>6, ElementsKnown
  <1>8. \A p \in Ports : InRanges(c, p) <=> \E i \in 1..n : s[i].low <= p /\ p <= s[i].high
    <2>1. \A p \in Ports, k \in 1..n : p \in R[k].low..R[k].high <=> R[k].low <= p /\ p <= R[k].high
      BY <1>1 DEF PortRange, Ports
    <2>2. \A p \in Ports : InRanges(c, p) <=> \E k \in 1..n : R[k].low <= p /\ p <= R[k].high
      BY <1>1, <2>1 DEF InRanges, R
    <2>3. ASSUME NEW p \in Ports, NEW k \in 1..n, R[k].low <= p, p <= R[k].high
          PROVE  \E i \in 1..n : s[i].low <= p /\ p <= s[i].high
      <3>1. PICK i \in 1..n : o[i] = k
        BY <1>4
      <3>2. s[i] = R[k]
        BY <1>5, <3>1
      <3> QED
        BY <2>3, <3>2
    <2>4. ASSUME NEW p \in Ports, NEW i \in 1..n, s[i].low <= p, p <= s[i].high
          PROVE  \E k \in 1..n : R[k].low <= p /\ p <= R[k].high
      BY <1>5, <2>4
    <2> QED
      BY <2>2, <2>3, <2>4, Zenon
  <1>9. Upward(c) => \A i \in 1..n : s[i].low <= s[i].high
    BY <1>1, <1>5 DEF Upward, R
  <1>10. Regular(c) => Apart(s, n)
    <2>1. SUFFICES ASSUME Regular(c) PROVE Apart(s, n)
      OBVIOUS
    <2>2. \A i \in 1..n : 0 < s[i].low /\ s[i].low <= s[i].high
      BY <1>1, <1>5, <1>9, <2>1, Zenon DEF Regular, R, PortRange, Ports
    <2>3. ASSUME NEW i \in 1..n, NEW j \in 1..n, i < j PROVE s[i].high < s[j].low
      <3>1. o[i] # o[j]
        BY <1>4, <2>3
      <3>2. s[i].high < s[j].low \/ s[j].high < s[i].low
        BY <1>1, <1>5, <2>1, <3>1, Zenon DEF Regular, R
      <3>3. s[i].low <= s[j].low /\ s[j].low <= s[j].high
        BY <1>3, <2>2, <2>3
      <3>4. s[i].low \in Nat /\ s[j].low \in Nat /\ s[j].high \in Nat
        BY <1>5 DEF PortRange, Ports
      <3> QED
        BY <3>2, <3>3, <3>4
    <2> QED
      BY <2>2, <2>3 DEF Apart
  <1> QED
    BY <1>7, <1>8, <1>9, <1>10 DEF AfterRounds, SetFor

(***************************************************************************)
(* The verdict of a chain that is put together.                            *)
(***************************************************************************)
\* The verdict of the rules R, and whether one of them matches.
AcceptedBy(R, k) ==
  \A i \in DOMAIN R :
    Matches(R[i], k) /\ (\A j \in 1..(i - 1) : ~Matches(R[j], k)) => R[i].verdict = "accept"

Matched(R, k) == \E i \in DOMAIN R : Matches(R[i], k)

LEMMA UnmatchedAccepted ==
  ASSUME NEW R, NEW k, ~Matched(R, k)
  PROVE  AcceptedBy(R, k)
  BY DEF AcceptedBy, Matched

\* The rules after those that do not match decide.
LEMMA SkipUnmatched ==
  ASSUME NEW T, NEW A \in Seq(T), NEW B \in Seq(T), NEW k, ~Matched(A, k)
  PROVE  /\ AcceptedBy(A \o B, k) <=> AcceptedBy(B, k)
         /\ Matched(A \o B, k) <=> Matched(B, k)
  <1> DEFINE C == A \o B
             a == Len(A)
             b == Len(B)
  <1>1. /\ a \in Nat /\ b \in Nat /\ DOMAIN A = 1..a /\ DOMAIN B = 1..b /\ DOMAIN C = 1..(a + b)
        /\ \A i \in 1..a : C[i] = A[i]
        /\ \A i \in 1..b : C[a + i] = B[i]
    OBVIOUS
  <1> HIDE DEF C, a, b
  <1>2. \A i \in 1..a : ~Matches(C[i], k)
    BY <1>1 DEF Matched
  <1>3. \A i \in 1..(a + b) : i \in 1..a \/ \E j \in 1..b : i = a + j
    <2>1. ASSUME NEW i \in 1..(a + b), i \notin 1..a PROVE i - a \in 1..b /\ i = a + (i - a)
      BY <1>1, <2>1
    <2> QED
      BY <2>1
  <1>4. Matched(C, k) <=> Matched(B, k)
    <2>1. \A i \in 1..b : a + i \in 1..(a + b)
      BY <1>1
    <2>2. ASSUME NEW i \in 1..(a + b), Matches(C[i], k) PROVE \E j \in 1..b : Matches(B[j], k)
      <3>1. PICK j \in 1..b : i = a + j
        BY <1>2, <1>3, <2>2, Zenon
      <3> QED
        BY <1>1, <2>2, <3>1, Zenon
    <2>3. ASSUME NEW i \in 1..b, Matches(B[i], k) PROVE Matches(C[a + i], k)
      BY <1>1, <2>3
    <2> QED
      BY <1>1, <2>1, <2>2, <2>3, Zenon DEF Matched
  <1>5. ASSUME NEW i \in 1..b
        PROVE  (\A j \in 1..((a + i) - 1) : ~Matches(C[j], k)) <=> \A j \in 1..(i - 1) : ~Matches(B[j], k)
    <2>1. ASSUME NEW j \in 1..((a + i) - 1) PROVE j \in 1..a \/ \E l \in 1..(i - 1) : l \in 1..b /\ j = a + l
      <3>1. ASSUME j \notin 1..a PROVE j - a \in 1..(i - 1) /\ j - a \in 1..b /\ j = a + (j - a)
        BY <1>1, <2>1, <3>1
      <3> QED
        BY <3>1
    <2>2. \A l \in 1..(i - 1) : l \in 1..b /\ a + l \in 1..((a + i) - 1)
      BY <1>1
    <2> QED
      BY <1>1, <1>2, <2>1, <2>2, Zenon
  <1>6. AcceptedBy(C, k) <=> AcceptedBy(B, k)
    <2>1. \A i \in 1..b : a + i \in 1..(a + b) /\ C[a + i] = B[i]
      BY <1>1
    <2>2. ASSUME AcceptedBy(C, k), NEW i \in 1..b,
                 Matches(B[i], k), \A j \in 1..(i - 1) : ~Matches(B[j], k)
          PROVE  B[i].verdict = "accept"
      <3>1. \A j \in 1..((a + i) - 1) : ~Matches(C[j], k)
        BY <1>5, <2>2, Zenon
      <3> DEFINE x == a + i
      <3>2. x \in DOMAIN C /\ C[x] = B[i]
        BY <1>1, <2>1
      <3> HIDE DEF x
      <3>3. C[x].verdict = "accept"
        BY <2>2, <3>1, <3>2 DEF AcceptedBy, x
      <3> QED
        BY <3>2, <3>3
    <2>3. ASSUME AcceptedBy(B, k), NEW i \in 1..(a + b),
                 Matches(C[i], k), \A j \in 1..(i - 1) : ~Matches(C[j], k)
          PROVE  C[i].verdict = "accept"
      <3>1. PICK l \in 1..b : i = a + l
        BY <1>2, <1>3, <2>3
      <3>2. \A j \in 1..(l - 1) : ~Matches(B[j], k)
        <4>1. \A j \in 1..((a + l) - 1) : ~Matches(C[j], k)
          BY <2>3, <3>1, Zenon
        <4> QED
          BY <1>5, <4>1, Zenon
      <3>3. C[i] = B[l] /\ l \in DOMAIN B
        BY <1>1, <2>1, <3>1
      <3>4. B[l].verdict = "accept"
        BY <2>3, <3>2, <3>3, Zenon DEF AcceptedBy
      <3> QED
        BY <3>3, <3>4
    <2> QED
      BY <1>1, <2>2, <2>3, Zenon DEF AcceptedBy
  <1> QED
    BY <1>4, <1>6 DEF C

\* The rules after one that matches do not.
LEMMA StopMatched ==
  ASSUME NEW T, NEW A \in Seq(T), NEW B \in Seq(T), NEW k, Matched(A, k)
  PROVE  Matched(A \o B, k) /\ (AcceptedBy(A \o B, k) <=> AcceptedBy(A, k))
  <1> DEFINE C == A \o B
             a == Len(A)
             b == Len(B)
  <1>1. /\ a \in Nat /\ b \in Nat /\ DOMAIN A = 1..a /\ DOMAIN C = 1..(a + b)
        /\ \A i \in 1..a : C[i] = A[i]
    OBVIOUS
  <1> HIDE DEF C, a, b
  <1>2. PICK f \in 1..a : Matches(A[f], k)
    BY <1>1 DEF Matched
  <1>3. \A i \in 1..a : i \in 1..(a + b) /\ \A j \in 1..(i - 1) : j \in 1..a
    BY <1>1
  <1>4. Matched(C, k)
    BY <1>1, <1>2, <1>3 DEF Matched
  <1>5. ASSUME AcceptedBy(C, k), NEW i \in 1..a,
               Matches(A[i], k), \A j \in 1..(i - 1) : ~Matches(A[j], k)
        PROVE  A[i].verdict = "accept"
    <2>1. Matches(C[i], k) /\ (\A j \in 1..(i - 1) : ~Matches(C[j], k)) /\ i \in DOMAIN C
      BY <1>1, <1>3, <1>5
    <2> QED
      BY <1>1, <1>5, <2>1 DEF AcceptedBy
  <1>6. ASSUME AcceptedBy(A, k), NEW i \in 1..(a + b),
               Matches(C[i], k), \A j \in 1..(i - 1) : ~Matches(C[j], k)
        PROVE  C[i].verdict = "accept"
    <2>1. ~(f \in 1..(i - 1))
      BY <1>1, <1>2, <1>6
    <2>2. i \in 1..a
      BY <1>1, <2>1
    <2>3. Matches(A[i], k) /\ \A j \in 1..(i - 1) : ~Matches(A[j], k)
      BY <1>1, <1>3, <1>6, <2>2
    <2> QED
      BY <1>1, <1>6, <2>2, <2>3 DEF AcceptedBy
  <1>7. AcceptedBy(C, k) <=> AcceptedBy(A, k)
    BY <1>1, <1>5, <1>6, Zenon DEF AcceptedBy
  <1> QED
    BY <1>4, <1>7 DEF C

LEMMA OneRule ==
  ASSUME NEW q, NEW k
  PROVE  /\ Matched(<<q>>, k) <=> Matches(q, k)
         /\ AcceptedBy(<<q>>, k) <=> (Matches(q, k) => q.verdict = "accept")
  <1> DEFINE R == <<q>>
  <1>1. DOMAIN R = {1} /\ R[1] = q /\ 1..(1 - 1) = {}
    OBVIOUS
  <1> HIDE DEF R
  <1>2. /\ Matched(R, k) <=> Matches(q, k)
        /\ AcceptedBy(R, k) <=> (Matches(q, k) => q.verdict = "accept")
    BY <1>1, Zenon DEF Matched, AcceptedBy
  <1> QED
    BY <1>2 DEF R

LEMMA TwoRules ==
  ASSUME NEW q, NEW w, NEW k
  PROVE  /\ Matched(<<q, w>>, k) <=> Matches(q, k) \/ Matches(w, k)
         /\ AcceptedBy(<<q, w>>, k) <=> /\ Matches(q, k) => q.verdict = "accept"
                                        /\ ~Matches(q, k) /\ Matches(w, k) => w.verdict = "accept"
  <1> DEFINE R == <<q, w>>
  <1>1. DOMAIN R = {1, 2} /\ R[1] = q /\ R[2] = w /\ 1..(1 - 1) = {} /\ 1..(2 - 1) = {1}
    OBVIOUS
  <1> HIDE DEF R
  <1>2. Matched(R, k) <=> Matches(q, k) \/ Matches(w, k)
    BY <1>1, Zenon DEF Matched
  <1>3. AcceptedBy(R, k) <=> /\ Matches(q, k) => q.verdict = "accept"
                             /\ ~Matches(q, k) /\ Matches(w, k) => w.verdict = "accept"
    BY <1>1, Zenon DEF AcceptedBy
  <1> QED
    BY <1>2, <1>3 DEF R

RuleType == [est : BOOLEAN, proto : {"any", "udp", "tcp"}, every : BOOLEAN,
             set : SUBSET ElementType, verdict : {"accept", "drop"}]

\* The rules of one protocol do not match another's packets, and decide by the set.
LEMMA PortRulesVerdict ==
  ASSUME NEW proto \in {"udp", "tcp"}, NEW mode \in {"block", "allow"}, NEW S \in SUBSET ElementType,
         NEW k \in Packets, NEW R, R = PortRules(proto, mode, S)
  PROVE  /\ R \in Seq(RuleType)
         /\ k.proto # proto => ~Matched(R, k)
         /\ k.proto = proto =>
              /\ mode = "block" => (AcceptedBy(R, k) <=> ~InSet(S, k.port))
              /\ mode = "allow" => (AcceptedBy(R, k) <=> InSet(S, k.port))
  <1> DEFINE q(v) == SetRule(proto, S, v)
             w == RestRule(proto)
  <1>1. \A v \in {"accept", "drop"} :
          /\ q(v) \in RuleType /\ q(v).verdict = v
          /\ Matches(q(v), k) <=> proto = k.proto /\ InSet(S, k.port)
    BY DEF SetRule, Matches, RuleType, Packets
  <1>2. w \in RuleType /\ w.verdict = "drop" /\ (Matches(w, k) <=> proto = k.proto)
    BY DEF RestRule, Matches, RuleType, Packets
  <1>3. /\ mode = "block" => R = <<q("drop")>>
        /\ mode = "allow" => R = <<q("accept"), w>>
    BY DEF PortRules
  <1> HIDE DEF q, w
  <1>4. CASE mode = "block"
    <2>1. R = <<q("drop")>> /\ q("drop") \in RuleType
      BY <1>1, <1>3, <1>4
    <2>2. R \in Seq(RuleType)
      BY <2>1
    <2> QED
      BY <1>1, <1>4, <2>1, <2>2, OneRule
  <1>5. CASE mode = "allow"
    <2>1. R = <<q("accept"), w>> /\ q("accept") \in RuleType
      BY <1>1, <1>3, <1>5
    <2>2. R \in Seq(RuleType)
      BY <1>2, <2>1
    <2> QED
      BY <1>1, <1>2, <1>5, <2>1, <2>2, TwoRules
  <1> QED
    BY <1>4, <1>5

\* The verdict of the whole chain for a packet: that of the rules of its protocol.
LEMMA ChainVerdict ==
  ASSUME NEW U \in Seq(RuleType), NEW T \in Seq(RuleType), NEW k \in Packets,
         portfilter = (<<EstablishedRule>> \o U) \o T,
         k.proto # "udp" => ~Matched(U, k), k.proto # "tcp" => ~Matched(T, k)
  PROVE  /\ k.est \/ k.proto = "icmp" => Accepted(k)
         /\ ~k.est /\ k.proto = "udp" => (Accepted(k) <=> AcceptedBy(U, k))
         /\ ~k.est /\ k.proto = "tcp" => (Accepted(k) <=> AcceptedBy(T, k))
  <1> DEFINE A == <<EstablishedRule>>
             P == A \o U
  <1>1. A \in Seq(RuleType) /\ P \in Seq(RuleType)
    <2>1. EstablishedRule \in RuleType
      BY DEF EstablishedRule, RuleType
    <2> QED
      BY <2>1
  <1>2. Accepted(k) <=> AcceptedBy(P \o T, k)
    BY DEF Accepted, AcceptedBy
  <1>3. (Matched(A, k) <=> k.est) /\ AcceptedBy(A, k)
    <2>1. (Matches(EstablishedRule, k) <=> k.est) /\ EstablishedRule.verdict = "accept"
      BY DEF EstablishedRule, Matches, Packets
    <2> QED
      BY <2>1, OneRule
  <1> HIDE DEF A
  <1>4. k.est => Matched(P, k) /\ AcceptedBy(P, k)
    BY <1>1, <1>3, StopMatched
  <1>5. ~k.est => (Matched(P, k) <=> Matched(U, k)) /\ (AcceptedBy(P, k) <=> AcceptedBy(U, k))
    BY <1>1, <1>3, SkipUnmatched
  <1> HIDE DEF P
  <1>6. Matched(P, k) => (Accepted(k) <=> AcceptedBy(P, k))
    BY <1>1, <1>2, StopMatched
  <1>7. ~Matched(P, k) => (Accepted(k) <=> AcceptedBy(T, k))
    BY <1>1, <1>2, SkipUnmatched
  <1>8. (~Matched(T, k) => AcceptedBy(T, k)) /\ (~Matched(U, k) => AcceptedBy(U, k))
    BY UnmatchedAccepted
  <1> QED
    BY <1>4, <1>5, <1>6, <1>7, <1>8

(***************************************************************************)
(* The port filter chain, stage by stage.                                  *)
(***************************************************************************)
\* The rules R that setBlockedPorts4proto has left for the list c, with faults F.
RulesFor(proto, c, F, R) ==
  \/ R = <<>> /\ (c.mode = "none" \/ F # {})
  \/ c.mode # "none" /\ \E S : SetFor(c, S) /\ R = PortRules(proto, c.mode, S)

FullChain(U, T) ==
  /\ RulesFor("udp", cfg.udp, faults, U) /\ RulesFor("tcp", cfg.tcp, faults, T)
  /\ portfilter = (<<EstablishedRule>> \o U) \o T

ChainInv ==
  /\ cfg \in Configs
  /\ stage \in {"init", "isolate", "udp", "tcp", "ready", "failed"}
  /\ portfilter \in Seq(RuleType)
  /\ stage = "init" => portfilter = <<>>
  /\ stage \in {"isolate", "udp"} => portfilter = <<EstablishedRule>>
  /\ stage = "tcp" => \E U : /\ RulesFor("udp", cfg.udp, faults, U)
                             /\ portfilter = <<EstablishedRule>> \o U
  /\ stage = "ready" => \E U, T : FullChain(U, T)

LEMMA ConfigType ==
  ASSUME cfg \in Configs
  PROVE  /\ cfg.udp \in PortList /\ cfg.tcp \in PortList
         /\ cfg.ones \in 0..AddrBits /\ cfg.ip \in Addrs /\ cfg.policy \in {"AllowAll", "InternetOnly"}
  <1>1. cfg \in [ones : 0..AddrBits, ip : Addrs, policy : {"AllowAll", "InternetOnly"},
                 udp : PortList, tcp : PortList]
    BY FirewallAssumption
  <1> QED
    BY <1>1

\* The verdict of the rules for one list.
LEMMA RulesForVerdict ==
  ASSUME NEW proto \in {"udp", "tcp"}, NEW c \in PortList, NEW F, NEW R, RulesFor(proto, c, F, R),
         NEW k \in Packets
  PROVE  /\ R \in Seq(RuleType)
         /\ k.proto # proto => ~Matched(R, k)
         /\ k.proto = proto =>
              /\ F = {} /\ Regular(c) => (AcceptedBy(R, k) <=> Permitted(c, k.port))
              /\ Upward(c) /\ ~InRanges(c, k.port) =>
                   /\ c.mode = "block" => AcceptedBy(R, k)
                   /\ c.mode = "allow" /\ F = {} => ~AcceptedBy(R, k)
  <1>1. c.mode \in {"none", "block", "allow"} /\ k.port \in Ports
    BY DEF PortList, Packets
  <1>2. CASE R = <<>> /\ (c.mode = "none" \/ F # {})
    <2>1. ~Matched(R, k) /\ R \in Seq(RuleType)
      BY <1>2 DEF Matched
    <2>2. AcceptedBy(R, k)
      BY <2>1, UnmatchedAccepted
    <2>3. c.mode = "none" => Permitted(c, k.port)
      BY DEF Permitted
    <2> QED
      BY <1>2, <2>1, <2>2, <2>3
  <1>3. CASE c.mode # "none" /\ \E S : SetFor(c, S) /\ R = PortRules(proto, c.mode, S)
    <2>1. PICK S : SetFor(c, S) /\ R = PortRules(proto, c.mode, S)
      BY <1>3
    <2>2. S \in SUBSET ElementType /\ c.mode \in {"block", "allow"}
      BY <1>1, <1>3, <2>1 DEF SetFor
    <2>3. /\ R \in Seq(RuleType)
          /\ k.proto # proto => ~Matched(R, k)
          /\ k.proto = proto =>
               /\ c.mode = "block" => (AcceptedBy(R, k) <=> ~InSet(S, k.port))
               /\ c.mode = "allow" => (AcceptedBy(R, k) <=> InSet(S, k.port))
      BY <2>1, <2>2, PortRulesVerdict
    <2>4. /\ c.mode = "block" => (Permitted(c, k.port) <=> ~InRanges(c, k.port))
          /\ c.mode = "allow" => (Permitted(c, k.port) <=> InRanges(c, k.port))
      BY Zenon DEF Permitted
    <2>5. /\ Upward(c) => (InSet(S, k.port) => InRanges(c, k.port))
          /\ Regular(c) => Upward(c) /\ (InRanges(c, k.port) => InSet(S, k.port))
      BY <1>1, <2>1 DEF SetFor, Regular
    <2> QED
      BY <2>2, <2>3, <2>4, <2>5, Zenon
  <1> QED
    BY <1>2, <1>3 DEF RulesFor

\* setBlockedPorts4proto appends the rules of its list, or fails.
LEMMA BlockedPorts ==
  ASSUME NEW proto \in {"udp", "tcp"}, NEW c \in PortList, portfilter \in Seq(RuleType),
         NEW ok \in BOOLEAN, setBlockedPorts(proto, c, ok)
  PROVE  /\ \E R \in Seq(RuleType) : RulesFor(proto, c, faults, R) /\ portfilter' = portfilter \o R
         /\ ~ok => faults # {} /\ portfilter' = portfilter
  <1>1. portfilter \o <<>> = portfilter /\ <<>> \in Seq(RuleType)
    OBVIOUS
  <1>2. CASE ok /\ c.mode = "none" /\ UNCHANGED portfilter
    BY <1>1, <1>2, Zenon DEF RulesFor
  <1>3. CASE ~ok /\ c.mode # "none" /\ "flush" \in faults /\ UNCHANGED portfilter
    BY <1>1, <1>3, Zenon DEF RulesFor
  <1>4. CASE /\ ok /\ c.mode # "none"
             /\ \E s \in SortedOrders(c.ranges) :
                  portfilter' = portfilter \o PortRules(proto, c.mode, Elements(s))
    <2>1. PICK s \in SortedOrders(c.ranges) :
                  portfilter' = portfilter \o PortRules(proto, c.mode, Elements(s))
      BY <1>4
    <2> DEFINE S == Elements(s)
               R == PortRules(proto, c.mode, S)
    <2>2. SetFor(c, S)
      BY SortedSet
    <2> HIDE DEF S
    <2>3. RulesFor(proto, c, faults, R)
      BY <1>4, <2>2 DEF RulesFor
    <2>4. R \in Seq(RuleType)
      <3>1. [proto |-> "udp", port |-> 0, est |-> FALSE] \in Packets
        BY FirewallAssumption DEF Packets, Ports
      <3> HIDE DEF R
      <3> QED
        BY <2>3, <3>1, RulesForVerdict
    <2>5. portfilter' = portfilter \o R
      BY <2>1 DEF S
    <2> HIDE DEF R
    <2> QED
      BY <1>4, <2>3, <2>4, <2>5
  <1> QED
    BY <1>2, <1>3, <1>4 DEF setBlockedPorts

LEMMA InitChain == FirewallInit => ChainInv
  BY DEF FirewallInit, ChainInv

LEMMA NextChain ==
  ASSUME ChainInv, [FirewallNext]_firewallVars
  PROVE  ChainInv'
  <1>1. cfg \in Configs /\ portfilter \in Seq(RuleType) /\ cfg.udp \in PortList /\ cfg.tcp \in PortList
    BY ConfigType DEF ChainInv
  <1>2. CASE UNCHANGED <<cfg, stage, portfilter, faults>>
    BY <1>2, Zenon DEF ChainInv, FullChain
  <1>3. CASE InitTables
    <2>1. EstablishedRule \in RuleType
      BY DEF EstablishedRule, RuleType
    <2>2. <<EstablishedRule>> \in Seq(RuleType)
      BY <2>1
    <2> QED
      BY <1>3, <2>2, Zenon DEF InitTables, ChainInv
  <1>4. CASE newIsolateAllRule
    BY <1>4 DEF newIsolateAllRule, ChainInv
  <1>5. CASE BlockUDP
    <2>1. PICK ok \in BOOLEAN : setBlockedPorts("udp", cfg.udp, ok) /\ stage' = IF ok THEN "tcp" ELSE "ready"
      BY <1>5 DEF BlockUDP
    <2>2. portfilter = <<EstablishedRule>> /\ UNCHANGED <<cfg, faults>>
      BY <1>5 DEF BlockUDP, ChainInv
    <2>3. PICK U \in Seq(RuleType) : RulesFor("udp", cfg.udp, faults, U) /\ portfilter' = portfilter \o U
      BY <1>1, <2>1, BlockedPorts
    <2>4. portfilter' \in Seq(RuleType)
      BY <1>1, <2>3
    <2>5. CASE ok
      <3>1. stage' = "tcp" /\ cfg' \in Configs
        BY <1>1, <2>1, <2>2, <2>5
      <3>2. RulesFor("udp", cfg'.udp, faults', U) /\ portfilter' = <<EstablishedRule>> \o U
        BY <2>2, <2>3, Zenon
      <3> QED
        BY <2>4, <3>1, <3>2 DEF ChainInv
    <2>6. CASE ~ok
      <3>1. faults # {}
        BY <1>1, <2>1, <2>6, BlockedPorts
      <3>2. RulesFor("tcp", cfg.tcp, faults, <<>>)
        BY <3>1 DEF RulesFor
      <3>3. portfilter' \o <<>> = portfilter'
        BY <2>4
      <3>4. FullChain(U, <<>>)'
        BY <2>2, <2>3, <3>2, <3>3 DEF FullChain
      <3> QED
        BY <1>1, <2>1, <2>2, <2>4, <2>6, <3>4 DEF ChainInv
    <2> QED
      BY <2>5, <2>6
  <1>6. CASE BlockTCP
    <2>1. PICK ok \in BOOLEAN : setBlockedPorts("tcp", cfg.tcp, ok)
      BY <1>6 DEF BlockTCP
    <2>2. stage = "tcp" /\ stage' = "ready" /\ UNCHANGED <<cfg, faults>>
      BY <1>6 DEF BlockTCP
    <2>3. PICK U : RulesFor("udp", cfg.udp, faults, U) /\ portfilter = <<EstablishedRule>> \o U
      BY <2>2 DEF ChainInv
    <2>4. PICK T \in Seq(RuleType) : RulesFor("tcp", cfg.tcp, faults, T) /\ portfilter' = portfilter \o T
      BY <1>1, <2>1, BlockedPorts
    <2>5. portfilter' \in Seq(RuleType)
      BY <1>1, <2>4
    <2>6. FullChain(U, T)'
      BY <2>2, <2>3, <2>4, Zenon DEF FullChain
    <2> QED
      BY <1>1, <2>2, <2>5, <2>6 DEF ChainInv
  <1>7. CASE \E a \in PeerNet : newIsolatePeerRule(a)
    BY <1>2, <1>7 DEF newIsolatePeerRule
  <1> QED
    BY <1>2, <1>3, <1>4, <1>5, <1>6, <1>7 DEF FirewallNext, firewallVars

(***************************************************************************)
(* The isolation chain.                                                    *)
(***************************************************************************)
\* The whole bytes that are compared cover the mask, and are the mask if it ends at
\* a byte.
LEMMA BytesCover ==
  ASSUME NEW ones \in 0..AddrBits
  PROVE  /\ ByteBits * ipnetSizeBytes(ones) \in Nat
         /\ ones <= ByteBits * ipnetSizeBytes(ones)
         /\ (\E n \in 1..4 : ones = n * ByteBits) => ByteBits * ipnetSizeBytes(ones) = ones
  <1>1. ByteBits \in Nat /\ ByteBits > 0 /\ ones \in Nat /\ ones <= 4 * ByteBits
    BY FirewallAssumption DEF AddrBits
  <1>2. ASSUME \E n \in 1..4 : ones = n * ByteBits
        PROVE  ones = ByteBits \/ ones = 2 * ByteBits \/ ones = 3 * ByteBits \/ ones = 4 * ByteBits
    BY <1>1, <1>2
  <1>3. CASE ones <= ByteBits
    <2>1. ipnetSizeBytes(ones) = 1
      BY <1>1, <1>3 DEF ipnetSizeBytes
    <2> QED
      BY <1>1, <1>2, <1>3, <2>1
  <1>4. CASE ones > ByteBits /\ ones <= 2 * ByteBits
    <2>1. ipnetSizeBytes(ones) = 2
      BY <1>1, <1>4 DEF ipnetSizeBytes
    <2> QED
      BY <1>1, <1>2, <1>4, <2>1
  <1>5. CASE ones > 2 * ByteBits /\ ones <= 3 * ByteBits
    <2>1. ipnetSizeBytes(ones) = 3
      BY <1>1, <1>5 DEF ipnetSizeBytes
    <2> QED
      BY <1>1, <1>2, <1>5, <2>1
  <1>6. CASE ones > 3 * ByteBits
    <2>1. ipnetSizeBytes(ones) = 4
      BY <1>1, <1>6 DEF ipnetSizeBytes
    <2> QED
      BY <1>1, <1>2, <1>6, <2>1
  <1> QED
    BY <1>1, <1>3, <1>4, <1>5, <1>6

\* The addresses that share the bytes of an address of the subnet are in the subnet,
\* and are all of it if the mask ends at a byte.
LEMMA BytesInSubnet ==
  ASSUME cfg \in Configs, NEW a \in PeerNet
  PROVE  /\ SameBytes(a) \subseteq PeerNet
         /\ (\E n \in 1..4 : cfg.ones = n * ByteBits) => PeerNet \subseteq SameBytes(a)
  <1>1. cfg.ones \in 0..AddrBits
    BY ConfigType
  <1>2. PICK o \in Nat : o = cfg.ones
    BY <1>1
  <1> DEFINE ByteMask == \E n \in 1..4 : cfg.ones = n * ByteBits
             bits == ByteBits * ipnetSizeBytes(cfg.ones)
  <1>3. PICK b \in Nat : b = bits /\ o <= b /\ (ByteMask => b = o)
    BY <1>1, <1>2, BytesCover
  <1>4. SameBytes(a) = SamePrefix(a, b) /\ PeerNet = SamePrefix(cfg.ip, o)
    BY <1>2, <1>3, Zenon DEF SameBytes, PeerNet
  <1> HIDE DEF ByteMask, bits
  <1>5. \A i \in 1..o : i \in 1..b /\ a[i] = cfg.ip[i]
    <2>1. a \in SamePrefix(cfg.ip, o)
      BY <1>4
    <2> QED
      BY <1>3, <2>1 DEF SamePrefix
  <1>6. SamePrefix(a, b) \subseteq SamePrefix(cfg.ip, o)
    BY <1>5 DEF SamePrefix
  <1>7. b = o => SamePrefix(cfg.ip, o) \subseteq SamePrefix(a, b)
    BY <1>5 DEF SamePrefix
  <1>8. SameBytes(a) \subseteq PeerNet /\ (ByteMask => PeerNet \subseteq SameBytes(a))
    BY <1>3, <1>4, <1>6, <1>7
  <1> QED
    BY <1>8 DEF ByteMask

PairRule(a, b) == [src |-> SameBytes(a), dst |-> SameBytes(b)]
PeerRule(a) == [src |-> {a}, dst |-> SameBytes(a)]

IsoInv ==
  /\ isolation \subseteq [src : SUBSET PeerNet, dst : SUBSET PeerNet]
  /\ stage \in {"udp", "tcp", "ready"} /\ cfg.policy = "InternetOnly" => PairRule(cfg.ip, cfg.ip) \in isolation
  /\ \A a \in loners : a \in PeerNet /\ PeerRule(a) \in isolation

LEMMA OwnSubnet ==
  ASSUME cfg \in Configs
  PROVE  cfg.ip \in PeerNet
  BY ConfigType DEF PeerNet, SamePrefix

LEMMA NextIso ==
  ASSUME ChainInv, IsoInv, [FirewallNext]_firewallVars
  PROVE  IsoInv'
  <1>1. cfg \in Configs /\ cfg.ip \in PeerNet
    BY OwnSubnet DEF ChainInv
  <1>2. \A a \in PeerNet : SameBytes(a) \in SUBSET PeerNet
    BY <1>1, BytesInSubnet
  <1>3. cfg' = cfg
    BY DEF FirewallNext, InitTables, newIsolateAllRule, BlockUDP, BlockTCP, newIsolatePeerRule, firewallVars
  <1>4. PeerNet' = PeerNet /\ \A a : SameBytes(a)' = SameBytes(a)
    BY <1>3 DEF PeerNet, SameBytes
  <1>5. \A a, b : PairRule(a, b)' = PairRule(a, b) /\ PeerRule(a)' = PeerRule(a)
    BY <1>4 DEF PairRule, PeerRule
  <1>6. PairRule(cfg.ip, cfg.ip) \in [src : SUBSET PeerNet, dst : SUBSET PeerNet]
    BY <1>1, <1>2 DEF PairRule
  <1>7. \A a \in PeerNet : PeerRule(a) \in [src : SUBSET PeerNet, dst : SUBSET PeerNet]
    BY <1>2 DEF PeerRule
  <1>8. CASE UNCHANGED <<isolation, loners>> /\ (stage' \in {"udp", "tcp", "ready"} => stage \in {"udp", "tcp", "ready"})
    BY <1>3, <1>4, <1>5, <1>8 DEF IsoInv
  <1>9. CASE InitTables
    BY <1>8, <1>9 DEF InitTables
  <1>10. CASE newIsolateAllRule
    <2>1. CASE cfg.policy = "AllowAll"
      BY <1>3, <1>4, <1>5, <1>10, <2>1 DEF newIsolateAllRule, IsoInv
    <2>2. CASE isolation' = isolation \cup {PairRule(cfg.ip, cfg.ip)}
      BY <1>3, <1>4, <1>5, <1>6, <1>10, <2>2 DEF newIsolateAllRule, IsoInv
    <2>3. CASE stage' = "failed" /\ UNCHANGED isolation
      BY <1>8, <1>10, <2>3 DEF newIsolateAllRule
    <2> QED
      BY <1>10, <2>1, <2>2, <2>3 DEF newIsolateAllRule, PairRule
  <1>11. CASE BlockUDP
    BY <1>8, <1>11 DEF BlockUDP
  <1>12. CASE BlockTCP
    BY <1>8, <1>12 DEF BlockTCP
  <1>13. ASSUME NEW a \in PeerNet, newIsolatePeerRule(a) PROVE IsoInv'
    <2>1. isolation' = isolation \cup {PeerRule(a)} /\ loners' = {a} /\ stage' = stage
      BY <1>13 DEF newIsolatePeerRule, PeerRule
    <2> QED
      BY <1>3, <1>4, <1>5, <1>7, <1>13, <2>1 DEF IsoInv
  <1>14. CASE UNCHANGED firewallVars
    BY <1>8, <1>14 DEF firewallVars
  <1> QED
    BY <1>9, <1>10, <1>11, <1>12, <1>13, <1>14 DEF FirewallNext

FirewallInv == ChainInv /\ IsoInv

\* Both chains hold what their stage says, for every configuration, every number of
\* ports and every width of a byte.
LEMMA FirewallInvariance == FirewallSpec => []FirewallInv
  <1>1. FirewallInit => IsoInv
    BY DEF FirewallInit, IsoInv
  <1> QED
    BY <1>1, InitChain, NextChain, NextIso, PTL DEF FirewallSpec, FirewallInv

LEMMA FirewallTyping ==
  ASSUME FirewallInv
  PROVE  FirewallTypeOK
  <1>1. \A i \in DOMAIN portfilter : portfilter[i] \in RuleType
    BY DEF FirewallInv, ChainInv
  <1>2. \A i \in DOMAIN portfilter : portfilter[i].set \subseteq [key : Ports, end : BOOLEAN]
    BY <1>1 DEF RuleType, ElementType
  <1>3. PeerNet \subseteq Addrs
    BY DEF PeerNet, SamePrefix
  <1>4. isolation \subseteq [src : SUBSET Addrs, dst : SUBSET Addrs]
    BY <1>3 DEF FirewallInv, IsoInv
  <1> QED
    BY <1>2, <1>4 DEF FirewallTypeOK, FirewallInv, ChainInv

\* setBlockedPorts4proto, for any number of ports and any lists of ranges in any order:
\* the merging loop with its 16-bit interval ends filters ranges without common ports
\* exactly, and never reaches a port outside the ranges.
THEOREM PortFilter == FirewallSpec => []PortsExact
  <1>1. FirewallInv => PortsExact
    <2>1. SUFFICES ASSUME FirewallInv, stage = "ready", NEW k \in Packets
                   PROVE  LET c == Restriction(k.proto)
                          IN  /\ Healthy /\ Regular(cfg.udp) /\ Regular(cfg.tcp) => AsConfigured(k)
                              /\ ~k.est /\ k.proto # "icmp" /\ Upward(c) /\ ~InRanges(c, k.port) =>
                                   /\ c.mode = "block" => Accepted(k)
                                   /\ c.mode = "allow" /\ Healthy => ~Accepted(k)
      BY FirewallTyping, Zenon DEF PortsExact
    <2>2. cfg.udp \in PortList /\ cfg.tcp \in PortList
      BY <2>1, ConfigType DEF FirewallInv, ChainInv
    <2>3. PICK U, T : FullChain(U, T)
      BY <2>1 DEF FirewallInv, ChainInv
    <2>4. /\ U \in Seq(RuleType)
          /\ k.proto # "udp" => ~Matched(U, k)
          /\ k.proto = "udp" =>
               /\ faults = {} /\ Regular(cfg.udp) => (AcceptedBy(U, k) <=> Permitted(cfg.udp, k.port))
               /\ Upward(cfg.udp) /\ ~InRanges(cfg.udp, k.port) =>
                    /\ cfg.udp.mode = "block" => AcceptedBy(U, k)
                    /\ cfg.udp.mode = "allow" /\ faults = {} => ~AcceptedBy(U, k)
      BY <2>2, <2>3, RulesForVerdict DEF FullChain
    <2>5. /\ T \in Seq(RuleType)
          /\ k.proto # "tcp" => ~Matched(T, k)
          /\ k.proto = "tcp" =>
               /\ faults = {} /\ Regular(cfg.tcp) => (AcceptedBy(T, k) <=> Permitted(cfg.tcp, k.port))
               /\ Upward(cfg.tcp) /\ ~InRanges(cfg.tcp, k.port) =>
                    /\ cfg.tcp.mode = "block" => AcceptedBy(T, k)
                    /\ cfg.tcp.mode = "allow" /\ faults = {} => ~AcceptedBy(T, k)
      BY <2>2, <2>3, RulesForVerdict DEF FullChain
    <2>6. /\ k.est \/ k.proto = "icmp" => Accepted(k)
          /\ ~k.est /\ k.proto = "udp" => (Accepted(k) <=> AcceptedBy(U, k))
          /\ ~k.est /\ k.proto = "tcp" => (Accepted(k) <=> AcceptedBy(T, k))
      BY <2>3, <2>4, <2>5, ChainVerdict, Zenon DEF FullChain
    <2>7. k.proto \in {"udp", "tcp", "icmp"}
      BY DEF Packets
    <2> QED
      BY <2>4, <2>5, <2>6, <2>7 DEF Restriction, AsConfigured, Healthy
  <1> QED
    BY <1>1, FirewallInvariance, PTL

\* newIsolateAllRule and newIsolatePeerRule, for every mask: no rule reaches outside the
\* subnet, and if the mask ends at a byte every peer that must be isolated is.
THEOREM Isolation == FirewallSpec => []SubnetIsolated
  <1>1. FirewallInv => SubnetIsolated
    <2>1. SUFFICES ASSUME FirewallInv PROVE SubnetIsolated
      OBVIOUS
    <2>2. cfg \in Configs /\ cfg.ip \in PeerNet
      BY <2>1, OwnSubnet DEF FirewallInv, ChainInv
    <2>3. \A r \in isolation : r.src \subseteq PeerNet /\ r.dst \subseteq PeerNet
      BY <2>1 DEF FirewallInv, IsoInv
    <2>4. ASSUME stage = "ready", \E n \in 1..4 : cfg.ones = n * ByteBits
          PROVE  /\ cfg.policy = "InternetOnly" =>
                      \E r \in isolation : PeerNet \subseteq r.src /\ PeerNet \subseteq r.dst
                 /\ \A a \in loners : \E r \in isolation : a \in r.src /\ PeerNet \subseteq r.dst
      <3>1. \A a \in PeerNet : PeerNet \subseteq SameBytes(a)
        BY <2>2, <2>4, BytesInSubnet
      <3>2. /\ PairRule(cfg.ip, cfg.ip).src = SameBytes(cfg.ip) /\ PairRule(cfg.ip, cfg.ip).dst = SameBytes(cfg.ip)
            /\ \A a : PeerRule(a).src = {a} /\ PeerRule(a).dst = SameBytes(a)
        BY DEF PairRule, PeerRule
      <3>3. /\ cfg.policy = "InternetOnly" => PairRule(cfg.ip, cfg.ip) \in isolation
            /\ \A a \in loners : a \in PeerNet /\ PeerRule(a) \in isolation
        BY <2>1, <2>4 DEF FirewallInv, IsoInv
      <3>4. ASSUME cfg.policy = "InternetOnly"
            PROVE  \E r \in isolation : PeerNet \subseteq r.src /\ PeerNet \subseteq r.dst
        BY <2>2, <3>1, <3>2, <3>3, <3>4
      <3>5. ASSUME NEW a \in loners PROVE \E r \in isolation : a \in r.src /\ PeerNet \subseteq r.dst
        <4>1. a \in PeerRule(a).src /\ PeerNet \subseteq PeerRule(a).dst /\ PeerRule(a) \in isolation
          BY <3>1, <3>2, <3>3
        <4> QED
          BY <4>1
      <3> QED
        BY <3>4, <3>5
    <2> QED
      BY <2>3, <2>4 DEF SubnetIsolated
  <1> QED
    BY <1>1, FirewallInvariance, PTL

INSTANCE FiniteSetTheorems

(***************************************************************************)
(* The address pool.  The heart of the argument is SearchInv: what the     *)
(* cyclic search knows about the addresses it has already visited.  When   *)
(* the loop ends without an answer the visited addresses are the whole     *)
(* subnet, so all of it is in use, which contradicts free() > 0.           *)
(***************************************************************************)
SearchInv ==
  (mutex # NoProc /\ ~died) =>
    /\ running
    /\ Cardinality(used) < capacity
    /\ ~cycled => stop <= next /\ stop..(next - 1) \subseteq used
    /\ cycled => /\ next <= stop
                 /\ stop..Max \subseteq used
                 /\ Min..(next - 1) \subseteq used

PoolInv == TypeOK /\ FatalOnlyWhenStopped /\ SearchInv

-----------------------------------------------------------------------------
\* A subnet has capacity many addresses, and a set of its addresses that is
\* as large as the subnet is the subnet.
LEMMA SubnetFinite ==
  /\ IsFiniteSet(Subnet)
  /\ Cardinality(Subnet) = capacity
  /\ capacity \in Nat
BY PoolAssumption, FS_Interval DEF Subnet, capacity

\* A set of addresses of the subnet has at most capacity many, and that many
\* only if it is the subnet.
LEMMA UsedFinite ==
  ASSUME NEW S, S \subseteq Subnet
  PROVE  /\ IsFiniteSet(S)
         /\ Cardinality(S) \in Nat
         /\ Cardinality(S) <= capacity
         /\ Cardinality(S) = capacity => S = Subnet
BY SubnetFinite, FS_Subset, FS_CardinalityType

\* What the proofs need to know of the constants.
LEMMA Bounds ==
  /\ Min \in Subnet /\ Max \in Subnet
  /\ NoIP \notin Subnet
  /\ \A a \in Subnet : nextAddr(a).ip \in Subnet
BY PoolAssumption DEF Subnet, NoIP, nextAddr

-----------------------------------------------------------------------------
\* The pool New makes satisfies the invariant.
LEMMA InitPool == Init => PoolInv
<1> SUFFICES ASSUME Init PROVE PoolInv
  OBVIOUS
<1>1. TypeOK
  BY Bounds, Zenon DEF Init, TypeOK, Errors, NoIP
<1>2. FatalOnlyWhenStopped /\ SearchInv
  BY DEF Init, FatalOnlyWhenStopped, SearchInv
<1> QED BY <1>1, <1>2 DEF PoolInv

\* Taking the mutex and choosing where to start the search.
LEMMA BeginSearchInv ==
  ASSUME NEW p \in Proc, NEW o \in {"Alloc", "Available"},
         PoolInv, BeginSearch(p, o)
  PROVE  PoolInv'
<1> USE DEF PoolInv
<1>0. mutex = NoProc /\ ~died
  BY DEF BeginSearch, Idle
<1>1. CASE (~running \/ allocated > capacity) /\ Fatal
  <2>1. ~running
    BY <1>1, UsedFinite, SubnetFinite DEF TypeOK, allocated
  <2> QED BY <1>0, <1>1, <2>1 DEF Fatal, scanVars, TypeOK, FatalOnlyWhenStopped, SearchInv
<1>2. CASE Ret(p, NoIP, "nospace") /\ UNCHANGED <<used, running, died, scanVars>>
  <2>1. res' \in [Proc -> [ip : Subnet \cup {NoIP}, err : Errors]]
    BY <1>2 DEF Ret, TypeOK, Errors
  <2> QED BY <1>0, <1>2, <2>1 DEF scanVars, TypeOK, FatalOnlyWhenStopped, SearchInv
<1>3. CASE /\ running /\ free > 0
           /\ mutex' = p /\ op' = o
           /\ \E start \in Subnet : next' = start /\ stop' = start
           /\ cycled' = FALSE
           /\ UNCHANGED <<used, running, died, res>>
  <2>1. TypeOK' /\ FatalOnlyWhenStopped'
    BY <1>0, <1>3, Zenon DEF TypeOK, FatalOnlyWhenStopped
  <2>2. next' \in Int /\ stop' = next' /\ stop'..(next' - 1) = {}
    BY <1>3, PoolAssumption DEF Subnet
  <2>3. Cardinality(used') < capacity
    BY <1>3, UsedFinite, SubnetFinite DEF free, allocated, TypeOK
  <2> QED BY <1>3, <2>1, <2>2, <2>3 DEF SearchInv
<1> QED BY <1>1, <1>2, <1>3, Zenon DEF BeginSearch

\* One address further in the search, and its end.
LEMMA SearchStepInv ==
  ASSUME NEW p \in Proc, PoolInv, SearchStep(p)
  PROVE  PoolInv'
<1> USE DEF PoolInv
<1>0. mutex # NoProc /\ ~died /\ running /\ Cardinality(used) < capacity
  BY PoolAssumption DEF SearchStep, SearchInv
\* The loop never runs to its end.
<1>1. ~(cycled /\ next = stop)
  <2> SUFFICES ASSUME cycled, next = stop PROVE FALSE
    OBVIOUS
  <2>1. stop..Max \subseteq used /\ Min..(stop - 1) \subseteq used
    BY <1>0 DEF SearchInv
  <2>2. Subnet \subseteq used
    BY <2>1, PoolAssumption DEF Subnet, TypeOK
  <2>3. used = Subnet
    BY <2>2 DEF TypeOK
  <2>4. Cardinality(used) = capacity /\ capacity \in Nat
    BY <2>3, SubnetFinite
  <2> QED BY <1>0, <2>4
<1>2. CASE ~isUsed(next)
  <2>0. /\ Ret(p, next, "nil")
        /\ used' = IF op = "Alloc" THEN used \cup {next} ELSE used
        /\ mutex' = NoProc
        /\ UNCHANGED <<running, died, op, next, stop, cycled>>
    BY <1>1, <1>2 DEF SearchStep
  <2>1. TypeOK'
    <3>1. res' \in [Proc -> [ip : Subnet \cup {NoIP}, err : Errors]]
      BY <2>0 DEF Ret, TypeOK, Errors
    <3> QED BY <2>0, <3>1 DEF TypeOK
  <2> QED
    BY <1>0, <2>0, <2>1 DEF FatalOnlyWhenStopped, SearchInv
<1>3. CASE isUsed(next)
  <2>0. /\ next' = nextAddr(next).ip
        /\ cycled' = (cycled \/ nextAddr(next).wrapped)
        /\ UNCHANGED <<used, running, died, res, mutex, op, stop>>
    BY <1>1, <1>3 DEF SearchStep
  <2>1. TypeOK'
    <3>1. nextAddr(next).wrapped \in BOOLEAN
      BY DEF nextAddr
    <3> QED BY <2>0, <3>1, Bounds DEF TypeOK
  <2>2. SearchInv'
    <3>1. CASE next >= Max
      <4>0. nextAddr(next).ip = Min /\ nextAddr(next).wrapped = TRUE
        BY <3>1 DEF nextAddr
      <4>1. next = Max /\ next' = Min /\ cycled' = TRUE
        <5>1. next = Max /\ next' = Min
          BY <2>0, <3>1, <4>0, PoolAssumption DEF TypeOK, Subnet
        <5>2. cycled' = TRUE
          BY <2>0, <4>0, Zenon
        <5> QED BY <5>1, <5>2
      <4>2. ~cycled
        BY <1>0, <1>1, <4>1, PoolAssumption DEF SearchInv, TypeOK, Subnet
      <4>3. stop..Max \subseteq used
        BY <1>0, <1>3, <4>1, <4>2, PoolAssumption DEF SearchInv, TypeOK, Subnet, isUsed
      <4>4. Min..(next' - 1) = {} /\ next' <= stop
        BY <4>1, PoolAssumption DEF TypeOK, Subnet
      <4> QED BY <1>0, <2>0, <4>1, <4>3, <4>4 DEF SearchInv, capacity
    <3>2. CASE next < Max
      <4>1. next' = next + 1 /\ cycled' = cycled
        BY <2>0, <3>2, PoolAssumption DEF TypeOK, Subnet, nextAddr
      <4>2. CASE ~cycled
        <5>1. stop <= next + 1 /\ stop..next \subseteq used
          BY <1>0, <1>3, <4>2, PoolAssumption DEF SearchInv, TypeOK, Subnet, isUsed
        <5>2. (next + 1) - 1 = next
          BY PoolAssumption DEF TypeOK, Subnet
        <5> QED BY <1>0, <2>0, <4>1, <4>2, <5>1, <5>2 DEF SearchInv, capacity
      <4>3. CASE cycled
        <5>1. next + 1 <= stop /\ Min..next \subseteq used
          BY <1>0, <1>1, <1>3, <4>3, PoolAssumption DEF SearchInv, TypeOK, Subnet, isUsed
        <5>2. (next + 1) - 1 = next
          BY PoolAssumption DEF TypeOK, Subnet
        <5> QED BY <1>0, <2>0, <4>1, <4>3, <5>1, <5>2, Zenon DEF SearchInv, capacity
      <4> QED BY <4>2, <4>3
    <3> QED BY <3>1, <3>2, PoolAssumption DEF TypeOK, Subnet
  <2> QED BY <2>0, <2>1, <2>2 DEF FatalOnlyWhenStopped
<1> QED BY <1>2, <1>3

\* Set of an address.
LEMMA SetInv ==
  ASSUME NEW p \in Proc, NEW ip \in Input \cup {NotV4}, PoolInv, Set(p, ip)
  PROVE  PoolInv'
<1> USE DEF PoolInv
<1>0. ~died /\ mutex # p /\ UNCHANGED scanVars
  BY DEF Set
<1>1. CASE UNCHANGED <<used, running, died>> /\ \E e \in Errors : Ret(p, NoIP, e)
  <2>1. res' \in [Proc -> [ip : Subnet \cup {NoIP}, err : Errors]]
    BY <1>1 DEF Ret, TypeOK
  <2> QED BY <1>0, <1>1, <2>1 DEF scanVars, TypeOK, FatalOnlyWhenStopped, SearchInv
<1>2. CASE mutex = NoProc /\ ~running /\ Fatal
  BY <1>0, <1>2 DEF Fatal, scanVars, TypeOK, FatalOnlyWhenStopped, SearchInv
<1>3. CASE /\ mutex = NoProc /\ ip \in Subnet
           /\ used' = used \cup {ip}
           /\ Ret(p, ip, "nil")
           /\ UNCHANGED <<running, died>>
  <2>1. res' \in [Proc -> [ip : Subnet \cup {NoIP}, err : Errors]]
    BY <1>3 DEF Ret, TypeOK, Errors
  <2> QED BY <1>0, <1>3, <2>1 DEF scanVars, TypeOK, FatalOnlyWhenStopped, SearchInv
<1> QED BY <1>1, <1>2, <1>3 DEF Set, Errors

\* Unset of an address.
LEMMA UnsetInv ==
  ASSUME NEW p \in Proc, NEW ip \in Input \cup {NotV4}, PoolInv, Unset(p, ip)
  PROVE  PoolInv'
<1> USE DEF PoolInv
<1>0. ~died /\ mutex # p /\ UNCHANGED scanVars
  BY DEF Unset
<1>1. CASE UNCHANGED <<used, running, died>> /\ \E e \in Errors : Ret(p, NoIP, e)
  <2>1. res' \in [Proc -> [ip : Subnet \cup {NoIP}, err : Errors]]
    BY <1>1 DEF Ret, TypeOK
  <2> QED BY <1>0, <1>1, <2>1 DEF scanVars, TypeOK, FatalOnlyWhenStopped, SearchInv
<1>2. CASE mutex = NoProc /\ ~running /\ Fatal
  BY <1>0, <1>2 DEF Fatal, scanVars, TypeOK, FatalOnlyWhenStopped, SearchInv
<1>3. CASE /\ mutex = NoProc /\ isUsed(ip)
           /\ used' = used \ {ip}
           /\ Ret(p, ip, "nil")
           /\ UNCHANGED <<running, died>>
  <2>1. res' \in [Proc -> [ip : Subnet \cup {NoIP}, err : Errors]]
    BY <1>3 DEF Ret, TypeOK, Errors, isUsed
  <2> QED BY <1>0, <1>3, <2>1 DEF scanVars, TypeOK, FatalOnlyWhenStopped, SearchInv
<1> QED BY <1>1, <1>2, <1>3 DEF Unset, Errors

\* Shutdown.
LEMMA ShutdownInv == ASSUME PoolInv, Shutdown PROVE PoolInv'
BY Bounds, Zenon DEF PoolInv, Shutdown, Idle, scanVars, TypeOK, FatalOnlyWhenStopped, SearchInv

\* Every step of the pool preserves the invariant.
LEMMA StepPool == PoolInv /\ [Next]_vars => PoolInv'
<1> SUFFICES ASSUME PoolInv, [Next]_vars PROVE PoolInv'
  OBVIOUS
<1>1. CASE UNCHANGED vars
  BY <1>1 DEF vars, PoolInv, TypeOK, FatalOnlyWhenStopped, SearchInv, capacity
<1> QED
  BY <1>1, BeginSearchInv, SearchStepInv, SetInv, UnsetInv, ShutdownInv
     DEF Next, Alloc, Available, Exited

\* The invariant holds in every state the pool reaches.
LEMMA PoolInvariance == Spec => []PoolInv
BY InitPool, StepPool, PTL DEF Spec

-----------------------------------------------------------------------------
\* The variables keep their types; in particular every address in use belongs
\* to the subnet, although Unset and the map used know nothing of its bounds.
THEOREM PoolTyping == Spec => []TypeOK
BY PoolInvariance, PTL DEF PoolInv

\* Neither "Pool is broken" nor "free IP was not found" is ever reached: the
\* cyclic search finds a free address from every start, in every subnet.
THEOREM SearchNeverFails == Spec => []FatalOnlyWhenStopped
BY PoolInvariance, PTL DEF PoolInv

\* Alloc and Available answer with an available address, and with "not enough
\* space" only when the whole subnet is in use.
THEOREM Answers == Spec => AnswersAreRight
<1>1. PoolInv /\ [Next]_vars =>
        [\A p \in Proc : res'[p] # res[p] =>
           /\ mutex = p => IsAvailable(res'[p].ip)
           /\ res'[p].err = "nospace" => used = Subnet]_vars
  <2> SUFFICES ASSUME PoolInv, Next, NEW q \in Proc, res'[q] # res[q]
               PROVE  /\ mutex = q => IsAvailable(res'[q].ip)
                      /\ res'[q].err = "nospace" => used = Subnet
    OBVIOUS
  <2> USE DEF PoolInv
  <2>1. ASSUME NEW p \in Proc, NEW o \in {"Alloc", "Available"}, BeginSearch(p, o)
        PROVE  mutex # q /\ used = Subnet
    <3>1. running /\ free = 0
      BY <2>1 DEF BeginSearch, Fatal
    <3>2. allocated = capacity
      BY <3>1, UsedFinite, SubnetFinite DEF free, allocated, TypeOK
    <3> QED BY <2>1, <3>2, UsedFinite, PoolAssumption DEF BeginSearch, Idle, allocated, TypeOK
  <2>2. ASSUME NEW p \in Proc, SearchStep(p)
        PROVE  IsAvailable(res'[q].ip) /\ res'[q].err = "nil"
    <3>1. Ret(p, next, "nil") /\ ~isUsed(next)
      BY <2>2 DEF SearchStep, Fatal
    <3>2. res'[q] = [ip |-> next, err |-> "nil"]
      BY <3>1 DEF Ret, TypeOK
    <3> QED BY <3>1, <3>2, PoolAssumption DEF IsAvailable, TypeOK, Subnet
  <2>3. ASSUME NEW p \in Proc, NEW ip, Set(p, ip) \/ Unset(p, ip)
        PROVE  mutex # q /\ res'[q].err # "nospace"
    <3>1. \E a, e : Ret(p, a, e) /\ e # "nospace"
      BY <2>3, SMTT(30) DEF Set, Unset, Fatal
    <3>2. mutex # q
      <4>1. q = p
        BY <3>1 DEF Ret, TypeOK
      <4>2. mutex # p
        BY <2>3, Zenon DEF Set, Unset
      <4> QED BY <4>1, <4>2
    <3>3. res'[q].err # "nospace"
      BY <3>1 DEF Ret, TypeOK
    <3> QED BY <3>2, <3>3
  <2>4. CASE Shutdown \/ Exited
    BY <2>4, SMTT(30) DEF Shutdown, Exited, vars
  <2>5. CASE \E p \in Proc : Alloc(p) \/ Available(p)
    BY <2>1, <2>5, Zenon DEF Alloc, Available
  <2>6. CASE \E p \in Proc : SearchStep(p)
    <3>1. IsAvailable(res'[q].ip) /\ res'[q].err = "nil"
      BY <2>2, <2>6, Zenon
    <3> QED BY <3>1
  <2>7. CASE \E p \in Proc, ip \in Input \cup {NotV4} : Set(p, ip) \/ Unset(p, ip)
    BY <2>3, <2>7, Zenon
  <2> QED BY <2>4, <2>5, <2>6, <2>7, Zenon DEF Next
<1> QED BY <1>1, PoolInvariance, PTL DEF Spec, AnswersAreRight

\* The pool implements the abstract address pool, by which Ipam uses it.
THEOREM Refinement == Spec => ImplementsAddressPool
<1>1. Init => Abstract!PoolInit
  BY DEF Init, Abstract!PoolInit
<1>2. PoolInv /\ [Next]_vars => [Abstract!PoolNext]_(Abstract!poolVars)
  <2> SUFFICES ASSUME PoolInv, PoolInv', Next
               PROVE  Abstract!PoolNext \/ UNCHANGED <<used, running, died>>
    BY StepPool DEF vars, Abstract!poolVars
  <2> USE DEF PoolInv
  <2>1. ASSUME NEW p \in Proc, NEW o \in {"Alloc", "Available"}, BeginSearch(p, o)
        PROVE  Abstract!PoolFatal \/ UNCHANGED <<used, running, died>>
    BY <2>1 DEF BeginSearch, Fatal, Idle, FatalOnlyWhenStopped, Abstract!PoolFatal
  <2>2. ASSUME NEW p \in Proc, SearchStep(p)
        PROVE  \/ \E a \in Subnet : Abstract!PoolAlloc(a)
               \/ Abstract!PoolFatal
               \/ UNCHANGED <<used, running, died>>
    <3>1. running
      BY <2>2, PoolAssumption DEF SearchStep, SearchInv
    <3> QED BY <2>2, <3>1, Zenon DEF SearchStep, Fatal, isUsed, TypeOK, FatalOnlyWhenStopped,
                              Abstract!PoolAlloc, Abstract!PoolFatal
  <2>3. ASSUME NEW p \in Proc, NEW ip \in Input \cup {NotV4}, Set(p, ip) \/ Unset(p, ip)
        PROVE  \/ \E a \in Subnet : Abstract!PoolAlloc(a) \/ Abstract!PoolUnset(a)
               \/ Abstract!PoolFatal
               \/ UNCHANGED <<used, running, died>>
    BY <2>3 DEF Set, Unset, Fatal, isUsed, TypeOK,
                Abstract!PoolAlloc, Abstract!PoolUnset, Abstract!PoolFatal
  <2>4. Shutdown => Abstract!PoolShutdown
    BY DEF Shutdown, Idle, Abstract!PoolShutdown
  <2> QED BY <2>1, <2>2, <2>3, <2>4 DEF Next, Alloc, Available, Exited, vars, Abstract!PoolNext
<1> QED BY <1>1, <1>2, PoolInvariance, PTL DEF Spec, ImplementsAddressPool, Abstract!PoolSpec
=============================================================================
