------------------------------ MODULE MCXPipe ------------------------------
(* A pipe with room for two bytes and writes that need more.               *)
EXTENDS XPipe
=============================================================================
