------------------------------- MODULE Kernel -------------------------------
(***************************************************************************)
(* Which calls into the Linux kernel may fail.  The choice is made once, so *)
(* that a property can speak of a healthy kernel.                          *)
(***************************************************************************)
CONSTANT FaultSets \* sets of kernel calls that may fail

VARIABLE faults

Healthy == faults = {}
=============================================================================
