------------------------------ MODULE MCXStats ------------------------------
(***************************************************************************)
(* XStats with two buckets.  a and b have the same hash, so that each      *)
(* report of one after the other writes into the ring of bucket 1.         *)
(***************************************************************************)
EXTENDS XStats

MCHash == [k \in Key |-> IF k = "b" THEN "a" ELSE k]
MCLength == [k \in Key |-> CASE k = "b" -> 3 [] k = "big" -> 5 [] k = "d" -> 2 [] OTHER -> 1]
MCBucketOf == [k \in Key |-> IF k \in {"d", "big"} THEN 2 ELSE 1]
=============================================================================
