----------------------------- MODULE MCServices -----------------------------
(***************************************************************************)
(* Services with two instances of each service, so that a restart or a   *)
(* replacement happens, two databases each, and two signals.               *)
(***************************************************************************)
EXTENDS Services
=============================================================================
