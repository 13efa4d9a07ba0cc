----------------------------- MODULE MCBlocker -----------------------------
(* Four goroutines, two keys, two slots per key.                            *)
EXTENDS Blocker
=============================================================================
