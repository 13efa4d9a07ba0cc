--------------------------- MODULE TrafficControl ---------------------------
(***************************************************************************)
(* The bandwidth limits of ipam/tc_linux.go: for each limited peer an HTB  *)
(* class that carries the rate and a u32 filter that sends the peer's      *)
(* traffic to the class.  Every method holds tc.mu, so each is one step;   *)
(* its kernel calls may fail one by one, and what the earlier ones did     *)
(* stays.                                                                  *)
(*                                                                         *)
(* The kernel numbers the filters, and a number whose filter was deleted   *)
(* is free to be given again.                                              *)
(***************************************************************************)
EXTENDS Kernel, Naturals

CONSTANTS TcOn,         \* a rate limiter is configured (else the no-op one)
          HandleSpace,  \* class handles the code uses, 2^12
          DefaultClass, \* class of unclassified traffic, 0x999
          FilterHandle  \* numbers the kernel gives to filters

ASSUME TrafficControlAssumption == HandleSpace \in Nat \ {0} /\ DefaultClass \in Nat

VARIABLES limits,   \* ipToFilterHandler, as a set of pairs [ip, h]
          classes,  \* minor numbers of the classes on the interface
          filters   \* filters on the interface: number h, peer address ip

tcVars == <<limits, classes, filters>>

ParentClass == 1

Reserved == {ParentClass, DefaultClass}

handleForIP(a) == a % HandleSpace

HasLimit(a) == \E l \in limits : l.ip = a

Filtered(a) == \E f \in filters : f.ip = a

\* init: the default class and the parent of the peers' classes.
TcInit ==
  /\ limits = {}
  /\ classes = IF TcOn THEN Reserved ELSE {}
  /\ filters = {}

\* FilterAdd, with the number the kernel chose.
AddFilter(a, h) ==
  /\ \A f \in filters : f.h # h
  /\ filters' = filters \cup {[h |-> h, ip |-> a]}

\* setLimit: refused if the peer has a limit, stopped by the first call that
\* fails.  The kernel refuses a class whose handle is taken.  The number of the
\* filter is read back from the list, from any filter for the same address.
setLimit(a, rate, ok) ==
  \/ /\ ~TcOn \/ rate = 0
     /\ ok /\ UNCHANGED tcVars
  \/ /\ TcOn /\ rate # 0
     /\ \/ /\ \/ HasLimit(a)
              \/ handleForIP(a) \in classes
              \/ "classadd" \in faults
           /\ ~ok /\ UNCHANGED tcVars
        \/ /\ ~HasLimit(a) /\ handleForIP(a) \notin classes
           /\ classes' = classes \cup {handleForIP(a)}
           /\ \/ /\ "filteradd" \in faults
                 /\ ~ok /\ UNCHANGED <<limits, filters>>
              \/ \E h \in FilterHandle :
                   /\ AddFilter(a, h)
                   /\ \/ "filterlist" \in faults /\ ~ok /\ UNCHANGED limits
                      \/ /\ ok
                         /\ \E f \in filters' :
                              /\ f.ip = a
                              /\ limits' = limits \cup {[ip |-> a, h |-> f.h]}

\* Mutant: the class is deleted before the filter.
removeLimitClassFirst(a) ==
  \/ /\ ~TcOn \/ ~HasLimit(a)
     /\ UNCHANGED tcVars
  \/ \E l \in limits :
       /\ TcOn /\ l.ip = a
       /\ classes' = classes \ {handleForIP(a)}
       /\ \/ "filterdel" \in faults /\ UNCHANGED <<limits, filters>>
          \/ /\ \E f \in filters : f.h = l.h /\ filters' = filters \ {f}
             /\ limits' = limits \ {l}

\* removeLimit deletes the filter by the number it remembers, then the class,
\* then the map entry, and stops at the first call that fails.
removeLimit(a) ==
  \/ /\ ~TcOn \/ ~HasLimit(a)
     /\ UNCHANGED tcVars
  \/ \E l \in limits :
       /\ TcOn /\ l.ip = a
       /\ \/ /\ (\A f \in filters : f.h # l.h) \/ "filterdel" \in faults
             /\ UNCHANGED tcVars
          \/ /\ \E f \in filters : f.h = l.h /\ filters' = filters \ {f}
             /\ \/ /\ handleForIP(a) \notin classes \/ "classdel" \in faults
                   /\ UNCHANGED <<limits, classes>>
                \/ /\ handleForIP(a) \in classes
                   /\ classes' = classes \ {handleForIP(a)}
                   /\ limits' = limits \ {l}

\* cleanup deletes the root qdisc and with it every class and filter.
TcCleanup ==
  /\ UNCHANGED limits
  /\ \/ ~TcOn /\ UNCHANGED <<classes, filters>>
     \/ TcOn /\ classes' = {} /\ filters' = {}

TcTypeOK ==
  /\ limits \subseteq [ip : Nat, h : FilterHandle]
  /\ classes \subseteq Nat
  /\ filters \subseteq [h : FilterHandle, ip : Nat]
=============================================================================
