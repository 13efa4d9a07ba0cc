---------------------------- MODULE AddressPool ----------------------------
(***************************************************************************)
(* What the pool of peer addresses promises to its users.                  *)
(*                                                                         *)
(* Every method of ippool.IPv4pool runs under the pool's mutex, so to its  *)
(* callers each one is a single step on the set of used addresses.  The    *)
(* module IPv4Pool describes how the code computes those steps and shows   *)
(* that it implements this specification; the module Ipam uses the pool    *)
(* through the operators defined here.                                     *)
(*                                                                         *)
(* The logger's Fatal ends the process: died says that it happened.        *)
(***************************************************************************)
CONSTANTS Addr,     \* the addresses of the subnet that peers may be given
          ServerIP  \* the first of them, the server's own

ASSUME AddressPoolAssumption == ServerIP \in Addr

VARIABLES used,     \* the addresses in use
          running,  \* FALSE once the pool has been shut down
          died      \* the process has exited in a call of Fatal

poolVars == <<used, running, died>>

PoolInit ==
  /\ used = {ServerIP}
  /\ running = TRUE
  /\ died = FALSE

\* Alloc hands out some unused address ...
PoolAlloc(a) ==
  /\ ~died /\ running
  /\ a \in Addr \ used
  /\ used' = used \cup {a}
  /\ UNCHANGED <<running, died>>

\* ... and fails when there is none.
PoolFull ==
  /\ ~died /\ running
  /\ Addr \subseteq used

\* Set reserves the address its caller names ...
PoolSet(a) == PoolAlloc(a)

\* ... unless it is outside the subnet or in use.
PoolSetRefused(a) ==
  /\ ~died
  /\ \/ a \notin Addr
     \/ running /\ a \in used

\* Unset gives an address back ...
PoolUnset(a) ==
  /\ ~died /\ running
  /\ a \in used
  /\ used' = used \ {a}
  /\ UNCHANGED <<running, died>>

\* ... that must be in use.
PoolUnsetRefused(a) ==
  /\ ~died /\ running
  /\ a \notin used

\* Shutdown forgets every reservation and makes the pool unusable.
PoolShutdown ==
  /\ ~died
  /\ running' = FALSE
  /\ used' = {ServerIP}
  /\ UNCHANGED died

\* Using a stopped pool, and only that, ends the process.
PoolFatal ==
  /\ ~died /\ ~running
  /\ died' = TRUE
  /\ UNCHANGED <<used, running>>

PoolNext ==
  \/ \E a \in Addr : PoolAlloc(a)
  \/ \E a \in Addr : PoolUnset(a)
  \/ PoolShutdown
  \/ PoolFatal

PoolSpec == PoolInit /\ [][PoolNext]_poolVars
=============================================================================
