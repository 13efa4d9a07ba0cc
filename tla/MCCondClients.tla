--------------------------- MODULE MCCondClients ---------------------------
(* Three goroutines that wait on one condition variable.                   *)
EXTENDS CondClients
=============================================================================
