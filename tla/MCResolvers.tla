---------------------------- MODULE MCResolvers -----------------------------
(***************************************************************************)
(* Resolvers with two lookups, two servers, and system resolvers on both   *)
(* sides of the servers' priority.                                         *)
(***************************************************************************)
EXTENDS Resolvers, TLC

MCElement == 1 .. 3
Symmetry == Permutations(Client) \cup Permutations(Server)
=============================================================================
