------------------------------ MODULE MCTTLMap ------------------------------
(***************************************************************************)
(* TTLMap with three keys, sizes 0 and 2 and one caller of Get.              *)
(***************************************************************************)
EXTENDS TTLMap, TLC

CONSTANTS k1, k2, k3, g1

MCKey == {k1, k2, k3}
MCGetter == {g1}
MCSymmetry == Permutations(MCKey)
=============================================================================
