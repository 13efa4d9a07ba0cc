--------------------------- MODULE ProtectCounter ---------------------------
(***************************************************************************)
(* protect/counter.go: the number of users of each protected address, over *)
(* a protector that may fail.  pc is [protected, under]: the map of the    *)
(* counter, a function on the addresses it has, and the addresses the      *)
(* protector below protects.  Each operation is called with one address.   *)
(***************************************************************************)
EXTENDS Integers

NoneProtected == [protected |-> [a \in {} |-> 0], under |-> {}]

Put(f, a, n) == [x \in DOMAIN f \cup {a} |-> IF x = a THEN n ELSE f[x]]
Without(f, a) == [x \in DOMAIN f \ {a} |-> f[x]]
Count(pc, a) == IF a \in DOMAIN pc.protected THEN pc.protected[a] ELSE 0

\* The protector accepts, and the users are counted.
ProtectAddresses(pc, a) ==
  [protected |-> Put(pc.protected, a, Count(pc, a) + 1),
   under |-> IF a \in DOMAIN pc.protected THEN pc.under ELSE pc.under \cup {a}]

\* Mutant: the protector is called whatever the count.
UnprotectAddressesAlways(pc, a, ok) ==
  [protected |-> IF Count(pc, a) = 1 THEN Without(pc.protected, a) ELSE Put(pc.protected, a, Count(pc, a) - 1),
   under |-> IF ok THEN pc.under \ {a} ELSE pc.under]

\* The count goes down whether the protector succeeds (ok) or not.
UnprotectAddresses(pc, a, ok) ==
  [protected |-> IF Count(pc, a) = 1 THEN Without(pc.protected, a) ELSE Put(pc.protected, a, Count(pc, a) - 1),
   under |-> IF Count(pc, a) = 1 /\ ok THEN pc.under \ {a} ELSE pc.under]

UnprotectAll(pc, ok) ==
  [protected |-> [a \in {} |-> 0], under |-> IF ok THEN pc.under \ DOMAIN pc.protected ELSE pc.under]
=============================================================================
