----------------------------- MODULE Ipam_proof -----------------------------
(***************************************************************************)
(* The address manager neither leaks an address nor gives one to two       *)
(* peers, for any number of goroutines and any subnet, whatever kernel     *)
(* call fails (Accounting).  The accounting is inductive together with the *)
(* types of the manager's own variables; the netfilter and traffic control *)
(* states do not matter to it.  Then the filters and classes of the        *)
(* traffic control, again for any callers (OwnClasses), and the steps of   *)
(* the invariant SeqInv for one caller at a time, from which               *)
(* IpamTables_proof concludes.                                             *)
(***************************************************************************)
EXTENDS Ipam, TLAPS

AccInv == IpamTypeOK /\ AddressAccounting

Busy == {"isolate", "isolateflush", "limit", "rollback"}

(***************************************************************************)
(* What each kind of step does to the goroutines that own an address.      *)
(***************************************************************************)

\* A step of p that neither begins nor ends the ownership of an address.
LEMMA SameOwners ==
  ASSUME IpamTypeOK, NEW p \in Proc, NEW l,
         pc' = [pc EXCEPT ![p] = l], UNCHANGED <<cur, peer>>,
         pc[p] \in Busy <=> l \in Busy
  PROVE  Owning' = Owning /\ InFlight' = InFlight /\ Held' = Held
  <1>1. Owning' = Owning
    BY DEF Owning, IpamTypeOK, Busy
  <1> QED
    BY <1>1 DEF InFlight, Held

\* A step in which a goroutine that owns no address still owns none.
LEMMA StillNone ==
  ASSUME IpamTypeOK, NEW p \in Proc, NEW l, NEW c,
         pc' = [pc EXCEPT ![p] = l], cur' = [cur EXCEPT ![p] = c],
         pc[p] \notin Busy, l \notin Busy
  PROVE  /\ Owning' = Owning /\ InFlight' = InFlight
         /\ \A q \in Owning : cur'[q] = cur[q]
  <1>1. Owning' = Owning /\ p \notin Owning
    BY DEF Owning, IpamTypeOK, Busy
  <1>2. \A q \in Owning : cur'[q] = cur[q]
    BY <1>1 DEF IpamTypeOK, Owning
  <1> QED
    BY <1>1, <1>2 DEF InFlight

\* A step in which p gives up the address it owns.
LEMMA GivesUp ==
  ASSUME AccInv, running, NEW p \in Proc, pc[p] \in Busy,
         pc' = [pc EXCEPT ![p] = "idle"], cur' = [cur EXCEPT ![p] = NoCall]
  PROVE  /\ Owning' = Owning \ {p} /\ p \in Owning
         /\ InFlight' = InFlight \ {cur[p].ip} /\ cur[p].ip \in InFlight
         /\ \A q \in Owning' : cur'[q] = cur[q]
  <1>1. Owning' = Owning \ {p} /\ p \in Owning
    BY DEF Owning, AccInv, IpamTypeOK, Busy
  <1>2. \A q \in Owning' : cur'[q] = cur[q]
    BY <1>1 DEF AccInv, IpamTypeOK, Owning
  <1>3. \A q \in Owning : cur[q].ip = cur[p].ip => q = p
    BY <1>1 DEF AccInv, AddressAccounting
  <1>4. InFlight' = {cur[q].ip : q \in Owning \ {p}}
    BY <1>1, <1>2 DEF InFlight
  <1>5. InFlight' = InFlight \ {cur[p].ip}
    BY <1>1, <1>3, <1>4 DEF InFlight
  <1> QED
    BY <1>1, <1>2, <1>5 DEF InFlight

(***************************************************************************)
(* Each action preserves the invariant.                                    *)
(***************************************************************************)
LEMMA InitAcc == Init => AccInv
  <1> SUFFICES ASSUME Init PROVE AccInv
    OBVIOUS
  <1> USE AddressPoolAssumption, IpamAssumption DEF Init, PoolInit
  <1>1. IpamTypeOK
    BY Zenon DEF IpamTypeOK, NoCall
  <1>2. Owning = {} /\ InFlight = {} /\ Held = {}
    BY DEF Owning, InFlight, Held
  <1> QED
    BY <1>1, <1>2 DEF AccInv, AddressAccounting

\* Whatever changes neither the pool nor an ownership is harmless.
LEMMA QuietAcc ==
  ASSUME AccInv, IpamTypeOK', UNCHANGED <<used, running>>,
         Owning' = Owning, InFlight' = InFlight, Held' = Held,
         \A q \in Owning : cur'[q] = cur[q]
  PROVE  AccInv'
  BY DEF AccInv, AddressAccounting

\* A method on a nil field ends the process and changes nothing else.
LEMMA PanicAcc ==
  ASSUME AccInv, NEW f, NilPanic(f)
  PROVE  AccInv'
  BY DEF AccInv, NilPanic, ipamVars, IpamTypeOK, AddressAccounting, Owning, InFlight, Held

\* A goroutine takes an address nobody owns.
LEMMA BeginAcc ==
  ASSUME AccInv, NEW p \in Proc, NEW a, NEW access \in {"InternetOnly", "AllowAll"},
         NEW rate \in Rate, pc[p] = "idle", PoolAlloc(a), BeginPolicy(p, a, access, rate)
  PROVE  AccInv'
  <1> DEFINE l == IF access = "InternetOnly" /\ DefaultPol = "AllowAll" THEN "isolate" ELSE "limit"
             c == [ip |-> a, access |-> access, rate |-> rate]
  <1>1. /\ pc' = [pc EXCEPT ![p] = l] /\ cur' = [cur EXCEPT ![p] = c]
        /\ peer' = peer /\ parts' = parts
        /\ used' = used \cup {a} /\ a \in Addr \ used /\ running /\ running' = running /\ died' = died
    BY DEF BeginPolicy, PoolAlloc
  <1>2. l \in {"isolate", "limit"} /\ c \in [ip : Addr, access : {"InternetOnly", "AllowAll"}, rate : Rate \cup {0}]
    BY <1>1
  <1> HIDE DEF l, c
  <1>3. IpamTypeOK'
    BY <1>1, <1>2 DEF AccInv, IpamTypeOK
  <1>4. Owning' = Owning \cup {p} /\ p \notin Owning
    BY <1>1, <1>2 DEF Owning, AccInv, IpamTypeOK
  <1>5. cur'[p].ip = a /\ \A q \in Owning : cur'[q] = cur[q]
    BY <1>1, <1>4 DEF AccInv, IpamTypeOK, c, Owning
  <1>6. InFlight' = {cur'[q].ip : q \in Owning \cup {p}}
    BY <1>4 DEF InFlight
  <1>7. InFlight' = InFlight \cup {a}
    BY <1>5, <1>6, Zenon DEF InFlight
  <1>8. Held' = Held
    BY <1>1 DEF Held
  <1>9. a \notin {ServerIP} \cup Held \cup InFlight
    BY <1>1 DEF AccInv, AddressAccounting
  <1>10. \A q \in Owning : cur[q].ip \in InFlight
    BY DEF InFlight
  <1>11. \A q, r \in Owning' : cur'[q].ip = cur'[r].ip => q = r
    BY <1>1, <1>4, <1>5, <1>9, <1>10 DEF AccInv, AddressAccounting
  <1> QED
    BY <1>1, <1>3, <1>7, <1>8, <1>9, <1>11 DEF AccInv, AddressAccounting

\* A step that changes nothing.
LEMMA StutterAcc ==
  ASSUME AccInv, UNCHANGED vars
  PROVE  AccInv'
  BY DEF vars, poolVars, ipamVars, AccInv, IpamTypeOK, AddressAccounting, Owning, InFlight, Held

\* Alloc: an address, a full pool or a panic.
LEMMA AllocAcc ==
  ASSUME AccInv, NEW p \in Proc, NEW access \in Access, NEW rate \in Rate, Alloc(p, access, rate)
  PROVE  AccInv'
  <1>1. Fallback(access) \in {"InternetOnly", "AllowAll"}
    BY IpamAssumption DEF Fallback, Granted
  <1>2. CASE NilPanic("ipp")
    BY <1>2, PanicAcc
  <1>3. ASSUME NEW a \in Addr, PoolAlloc(a), BeginPolicy(p, a, Fallback(access), rate)
        PROVE  AccInv'
    BY <1>1, <1>3, BeginAcc DEF Alloc
  <1> QED
    BY <1>2, <1>3, StutterAcc DEF Alloc

\* Set: the address, a refusal or a panic.
LEMMA SetAcc ==
  ASSUME AccInv, NEW p \in Proc, NEW a \in Addr, NEW access \in Access, NEW rate \in Rate,
         Set(p, a, access, rate)
  PROVE  AccInv'
  <1>1. Granted(access) \in {"InternetOnly", "AllowAll"}
    BY IpamAssumption DEF Granted
  <1>2. CASE NilPanic("ipp")
    BY <1>2, PanicAcc
  <1>3. CASE PoolSet(a) /\ BeginPolicy(p, a, Granted(access), rate)
    BY <1>1, <1>3, BeginAcc DEF Set, PoolSet
  <1> QED
    BY <1>2, <1>3, StutterAcc DEF Set

\* A step of p inside or outside applyPolicy that leaves pool and peers alone.
LEMMA MoveAcc ==
  ASSUME AccInv, NEW p \in Proc, NEW l, Goto(p, l),
         l \in {"limit", "isolateflush", "rollback", "find", "delrule", "delflush",
                "stopflush", "stoptc"},
         pc[p] \in Busy <=> l \in Busy,
         UNCHANGED <<used, running, died, peer>>, parts' \subseteq parts
  PROVE  AccInv'
  <1>1. IpamTypeOK'
    BY DEF Goto, AccInv, IpamTypeOK
  <1>2. Owning' = Owning /\ InFlight' = InFlight /\ Held' = Held
    BY SameOwners, Zenon DEF Goto, AccInv
  <1> QED
    BY <1>1, <1>2, QuietAcc DEF Goto

\* A method that owns no address returns.
LEMMA ReturnAcc ==
  ASSUME AccInv, NEW p \in Proc, Return(p), pc[p] \notin Busy,
         UNCHANGED <<used, running, died, peer>>, parts' \subseteq parts
  PROVE  AccInv'
  <1>1. IpamTypeOK'
    BY AddressPoolAssumption, IpamAssumption DEF Return, AccInv, IpamTypeOK, NoCall
  <1>2. Owning' = Owning /\ InFlight' = InFlight /\ \A q \in Owning : cur'[q] = cur[q]
    BY StillNone, Zenon DEF Return, AccInv, Busy
  <1>3. Held' = Held
    BY DEF Held
  <1> QED
    BY <1>1, <1>2, <1>3, QuietAcc

\* setLimit succeeds and the caller holds the peer, or it fails.
LEMMA LimitAcc ==
  ASSUME AccInv, NEW p \in Proc, Limit(p)
  PROVE  AccInv'
  <1> USE DEF poolVars
  <1>1. CASE NilPanic("tc")
    BY <1>1, PanicAcc
  <1>2. CASE /\ UNCHANGED <<poolVars, parts, peer>> /\ Goto(p, "rollback")
    BY <1>2, MoveAcc DEF Limit, Busy
  <1> DEFINE pol == [access |-> cur[p].access, rate |-> cur[p].rate]
  <1>3. CASE /\ UNCHANGED <<poolVars, parts>> /\ Return(p)
             /\ peer' = [peer EXCEPT ![cur[p].ip] = pol]
    <2>1. pc[p] \in Busy /\ cur[p].ip \in Addr /\ pol \in Policies
      BY DEF Limit, Busy, AccInv, IpamTypeOK, Policies
    <2>2. pol # NoPeer
      BY DEF AccInv, IpamTypeOK, NoPeer
    <2> HIDE DEF pol
    <2>3. IpamTypeOK'
      BY <1>3, <2>1, AddressPoolAssumption, IpamAssumption DEF Return, AccInv, IpamTypeOK, NoCall
    <2>4. Held' = Held \cup {cur[p].ip}
      BY <1>3, <2>1, <2>2 DEF Held, AccInv, IpamTypeOK
    <2>5. ASSUME running
          PROVE  AddressAccounting'
      <3>1. /\ Owning' = Owning \ {p} /\ p \in Owning
            /\ InFlight' = InFlight \ {cur[p].ip} /\ cur[p].ip \in InFlight
            /\ \A q \in Owning' : cur'[q] = cur[q]
        BY <1>3, <2>1, <2>5, GivesUp, Zenon DEF Return
      <3> QED
        BY <1>3, <2>4, <2>5, <3>1 DEF AccInv, AddressAccounting
    <2> QED
      BY <1>3, <2>3, <2>5 DEF AccInv, AddressAccounting
  <1> QED
    BY <1>1, <1>2, <1>3, Zenon DEF Limit

\* applyPolicy returns the address after an error.
LEMMA RollbackAcc ==
  ASSUME AccInv, NEW p \in Proc, Rollback(p)
  PROVE  AccInv'
  <1>1. CASE NilPanic("ipp")
    BY <1>1, PanicAcc
  <1>2. CASE ~NilPanic("ipp")
    <2>1. /\ Return(p) /\ UNCHANGED <<parts, peer>> /\ pc[p] \in Busy /\ running
          /\ running' = running /\ died' = died
          /\ \/ used' = used \ {cur[p].ip}
             \/ cur[p].ip \notin used /\ used' = used
      BY <1>2 DEF Rollback, PoolUnset, PoolUnsetRefused, Busy, poolVars
    <2>2. IpamTypeOK'
      <3>1. NoCall \in [ip : Addr, access : {"InternetOnly", "AllowAll"}, rate : Rate \cup {0}]
        BY AddressPoolAssumption, IpamAssumption DEF NoCall
      <3>2. used' \subseteq Addr /\ running' \in BOOLEAN /\ died' \in BOOLEAN
        BY <2>1 DEF AccInv, IpamTypeOK
      <3> QED
        BY <2>1, <3>1, <3>2 DEF Return, AccInv, IpamTypeOK
    <2>3. /\ Owning' = Owning \ {p} /\ p \in Owning
          /\ InFlight' = InFlight \ {cur[p].ip} /\ cur[p].ip \in InFlight
          /\ \A q \in Owning' : cur'[q] = cur[q]
      BY <2>1, GivesUp, Zenon DEF Return
    <2>4. Held' = Held
      BY <2>1 DEF Held
    <2> QED
      BY <2>1, <2>2, <2>3, <2>4 DEF AccInv, AddressAccounting
  <1> QED
    BY <1>1, <1>2

\* free returns the address of a peer the caller held.
LEMMA UnsetAcc ==
  ASSUME AccInv, NEW p \in Proc, NEW a \in Addr, Unset(p, a)
  PROVE  AccInv'
  <1>1. CASE NilPanic("ipp")
    BY <1>1, PanicAcc
  <1>2. CASE PoolUnset(a) /\ ~NilPanic("ipp")
    <2> DEFINE c == [cur[p] EXCEPT !.ip = a]
    <2>1. /\ a \in Held /\ pc[p] = "idle" /\ running
          /\ used' = used \ {a} /\ running' = running /\ died' = died /\ parts' = parts
          /\ pc' = [pc EXCEPT ![p] = "unlimit"] /\ cur' = [cur EXCEPT ![p] = c]
          /\ peer' = [peer EXCEPT ![a] = NoPeer]
      BY <1>2 DEF Unset, PoolUnset, PoolUnsetRefused
    <2>2. c \in [ip : Addr, access : {"InternetOnly", "AllowAll"}, rate : Rate \cup {0}]
      BY DEF AccInv, IpamTypeOK
    <2> HIDE DEF c
    <2>3. IpamTypeOK'
      BY <2>1, <2>2 DEF AccInv, IpamTypeOK
    <2>4. Owning' = Owning /\ InFlight' = InFlight /\ \A q \in Owning : cur'[q] = cur[q]
      BY <2>1, StillNone, Zenon DEF AccInv, Busy
    <2>5. Held' = Held \ {a}
      BY <2>1 DEF Held, AccInv, IpamTypeOK
    <2> QED
      BY <2>1, <2>3, <2>4, <2>5 DEF AccInv, AddressAccounting
  <1>3. CASE PoolUnsetRefused(a) /\ UNCHANGED <<poolVars, ipamVars>>
    BY <1>3 DEF poolVars, ipamVars, AccInv, IpamTypeOK, AddressAccounting, Owning, InFlight, Held
  <1> QED
    BY <1>1, <1>2, <1>3 DEF Unset, ipamVars

\* Shutdown stops the pool.
LEMMA ShutdownAcc ==
  ASSUME AccInv, NEW p \in Proc, ShutdownPool(p)
  PROVE  AccInv'
  <1>1. CASE NilPanic("ipp")
    BY <1>1, PanicAcc
  <1>2. CASE ~NilPanic("ipp")
    BY <1>2, AddressPoolAssumption, Zenon
    DEF ShutdownPool, PoolShutdown, Goto, AccInv, IpamTypeOK, AddressAccounting
  <1> QED
    BY <1>1, <1>2

\* The steps inside a method.
LEMMA StepAcc ==
  ASSUME AccInv, NEW p \in Proc, Step(p)
  PROVE  AccInv'
  <1> USE DEF poolVars, Busy
  <1>1. CASE IsolateQueue(p)
    BY <1>1, PanicAcc, MoveAcc DEF IsolateQueue
  <1>2. CASE IsolateFlush(p)
    <2>1. PICK ok \in BOOLEAN : Goto(p, IF ok THEN "limit" ELSE "rollback")
      BY <1>2 DEF IsolateFlush
    <2> QED
      BY <1>2, <2>1, MoveAcc DEF IsolateFlush
  <1>3. CASE Unlimit(p)
    BY <1>3, PanicAcc, MoveAcc DEF Unlimit
  <1>4. CASE Find(p)
    BY <1>4, PanicAcc, MoveAcc, ReturnAcc DEF Find
  <1>5. CASE DelQueue(p)
    BY <1>5, MoveAcc DEF DelQueue
  <1>6. CASE DelFlush(p)
    BY <1>6, ReturnAcc DEF DelFlush
  <1>7. CASE ShutdownNfQueue(p)
    BY <1>7, MoveAcc DEF ShutdownNfQueue
  <1>8. CASE ShutdownNfFlush(p)
    BY <1>8, MoveAcc DEF ShutdownNfFlush
  <1>9. CASE ShutdownTc(p)
    BY <1>9, ReturnAcc DEF ShutdownTc
  <1> QED
    BY <1>1, <1>2, <1>3, <1>4, <1>5, <1>6, <1>7, <1>8, <1>9, LimitAcc, RollbackAcc DEF Step

\* Every step preserves the accounting.
LEMMA NextAcc == AccInv /\ [Next]_vars => AccInv'
  <1> SUFFICES ASSUME AccInv, [Next]_vars PROVE AccInv'
    OBVIOUS
  <1>1. CASE UNCHANGED vars
    BY <1>1, StutterAcc
  <1>2. CASE Next
    BY <1>2, AllocAcc, SetAcc, UnsetAcc, ShutdownAcc, StepAcc, StutterAcc DEF Next, Exited
  <1> QED
    BY <1>1, <1>2

(***************************************************************************)
(* Spec implies that AddressAccounting always holds: whatever Alloc, Set,  *)
(* Unset and Shutdown do concurrently, and whichever kernel call fails,    *)
(* the used addresses of the pool are the server's, those of the peers     *)
(* that callers hold and those of the calls in progress, and no address    *)
(* has two owners.                                                         *)
(***************************************************************************)
THEOREM Accounting == Spec => []AddressAccounting
  <1>1. AccInv => AddressAccounting
    BY DEF AccInv
  <1> QED
    BY <1>1, InitAcc, NextAcc, PTL DEF Spec

(***************************************************************************)
(* Traffic control.  What a failed call leaves behind is a class without a *)
(* filter, a filter without an entry in the map, or an entry whose number  *)
(* the kernel may have given to the filter of another peer since.  The     *)
(* invariant says why removeLimit, which deletes by that number, still     *)
(* never takes the class away from under a filter: an entry owns its       *)
(* class, and the filter of that class, if there is one, has the entry's   *)
(* number.                                                                 *)
(***************************************************************************)
OwnClass ==
  /\ \A f \in filters : handleForIP(f.ip) \in classes \ Reserved
  /\ \A f, g \in filters : handleForIP(f.ip) = handleForIP(g.ip) => f = g
  /\ TcOn => Reserved \subseteq classes

Entries ==
  /\ \A f, g \in filters : f.h = g.h => f = g
  /\ \A l \in limits : handleForIP(l.ip) \in classes \ Reserved
  /\ \A l, m \in limits : handleForIP(l.ip) = handleForIP(m.ip) => l = m
  /\ \A l \in limits, f \in filters : handleForIP(f.ip) = handleForIP(l.ip) => f.h = l.h

TcInv == "tc" \in parts => OwnClass /\ Entries

\* setLimit keeps the tables sound wherever it stops.
LEMMA SetLimitTc ==
  ASSUME OwnClass, Entries, NEW a, NEW rate, NEW ok, setLimit(a, rate, ok)
  PROVE  OwnClass' /\ Entries'
  <1>1. CASE UNCHANGED tcVars
    BY <1>1 DEF tcVars, OwnClass, Entries
  <1>2. CASE /\ TcOn /\ handleForIP(a) \notin classes
             /\ classes' = classes \cup {handleForIP(a)}
             /\ UNCHANGED <<limits, filters>>
    BY <1>2 DEF OwnClass, Entries
  <1>3. ASSUME NEW h \in FilterHandle, AddFilter(a, h),
               TcOn, handleForIP(a) \notin classes, classes' = classes \cup {handleForIP(a)},
               \/ UNCHANGED limits
               \/ \E f \in filters' : f.ip = a /\ limits' = limits \cup {[ip |-> a, h |-> f.h]}
        PROVE  OwnClass' /\ Entries'
    <2> DEFINE new == [h |-> h, ip |-> a]
    <2>1. filters' = filters \cup {new} /\ new.ip = a /\ new.h = h /\ \A f \in filters : f.h # h
      BY <1>3 DEF AddFilter
    <2> HIDE DEF new
    <2>2. handleForIP(a) \notin Reserved /\ \A f \in filters : handleForIP(f.ip) # handleForIP(a)
      BY <1>3 DEF OwnClass
    <2>3. OwnClass'
      BY <1>3, <2>1, <2>2 DEF OwnClass
    <2>4. \A l \in limits : handleForIP(l.ip) # handleForIP(a)
      BY <1>3 DEF Entries
    <2>5. \A f \in filters' : f.ip = a => f.h = h
      BY <2>1, <2>2
    <2>6. CASE UNCHANGED limits
      BY <1>3, <2>1, <2>2, <2>3, <2>4, <2>6 DEF Entries
    <2>7. CASE limits' # limits
      <3> DEFINE e == [ip |-> a, h |-> h]
      <3>1. limits' = limits \cup {e} /\ e.ip = a /\ e.h = h
        BY <1>3, <2>5, <2>7
      <3> HIDE DEF e
      <3> QED
        BY <1>3, <2>1, <2>2, <2>3, <2>4, <3>1 DEF Entries
    <2> QED
      BY <2>3, <2>6, <2>7
  <1> QED
    BY <1>1, <1>2, <1>3 DEF setLimit

\* removeLimit keeps them sound wherever it stops, also when the number it
\* deletes by belongs to another peer's filter by now.
LEMMA RemoveLimitTc ==
  ASSUME OwnClass, Entries, NEW a, removeLimit(a)
  PROVE  OwnClass' /\ Entries'
  <1>1. CASE UNCHANGED tcVars
    BY <1>1 DEF tcVars, OwnClass, Entries
  <1>2. ASSUME NEW l \in limits, l.ip = a, NEW f \in filters, f.h = l.h, filters' = filters \ {f},
               \/ UNCHANGED <<limits, classes>>
               \/ classes' = classes \ {handleForIP(a)} /\ limits' = limits \ {l}
        PROVE  OwnClass' /\ Entries'
    <2>1. \A g \in filters' : handleForIP(g.ip) # handleForIP(a)
      BY <1>2 DEF Entries
    <2>2. handleForIP(a) \notin Reserved
      BY <1>2 DEF Entries
    <2>3. OwnClass'
      BY <1>2, <2>1, <2>2 DEF OwnClass
    <2>4. Entries'
      BY <1>2 DEF Entries
    <2> QED
      BY <2>3, <2>4
  <1> QED
    BY <1>1, <1>2 DEF removeLimit

\* The tables begin empty, but for the reserved classes.
LEMMA InitTc == Init => TcInv
  BY DEF Init, TcInit, TcInv, OwnClass, Entries

\* Every step preserves the tables; only the calls of traffic control matter.
LEMMA NextTc == TcInv /\ [Next]_vars => TcInv'
  <1> SUFFICES ASSUME TcInv, [Next]_vars PROVE TcInv'
    OBVIOUS
  <1> USE DEF tcVars, ipamVars
  <1>1. CASE UNCHANGED tcVars /\ parts' \subseteq parts
    BY <1>1 DEF TcInv, OwnClass, Entries
  <1>2. ASSUME NEW p \in Proc, Limit(p)
        PROVE  TcInv'
    BY <1>1, <1>2, SetLimitTc, Zenon DEF Limit, NilPanic, TcInv
  <1>3. ASSUME NEW p \in Proc, Unlimit(p)
        PROVE  TcInv'
    BY <1>1, <1>3, RemoveLimitTc DEF Unlimit, NilPanic, TcInv
  <1>4. ASSUME NEW p \in Proc, ShutdownTc(p)
        PROVE  TcInv'
    BY <1>4 DEF ShutdownTc, TcInv
  <1>5. ASSUME NEW p \in Proc, NEW access, NEW rate,
               Alloc(p, access, rate) \/ \E a \in Addr : Set(p, a, access, rate)
        PROVE  TcInv'
    BY <1>1, <1>5 DEF Alloc, Set, NilPanic, BeginPolicy, vars
  <1>6. ASSUME NEW p \in Proc, (\E a \in Addr : Unset(p, a)) \/ ShutdownPool(p)
        PROVE  TcInv'
    BY <1>1, <1>6 DEF Unset, ShutdownPool, NilPanic
  <1>7. ASSUME NEW p \in Proc, Step(p), ~Limit(p), ~Unlimit(p), ~ShutdownTc(p)
        PROVE  TcInv'
    BY <1>1, <1>7 DEF Step, IsolateQueue, IsolateFlush, Rollback, Find, DelQueue, DelFlush,
                      ShutdownNfQueue, ShutdownNfFlush, NilPanic
  <1> QED
    BY <1>1, <1>2, <1>3, <1>4, <1>5, <1>6, <1>7, Zenon DEF Next, Exited, vars

(***************************************************************************)
(* Spec implies that FiltersHaveOwnClass always holds: whichever calls of  *)
(* setLimit and removeLimit fail half way, for any subnet, any handle      *)
(* space and any choice of filter numbers, no filter directs traffic to a  *)
(* class that is missing, reserved or another filter's.                    *)
(***************************************************************************)
THEOREM OwnClasses == Spec => []FiltersHaveOwnClass
  <1>1. TcInv => FiltersHaveOwnClass
    BY DEF TcInv, OwnClass, FiltersHaveOwnClass
  <1> QED
    BY <1>1, InitTc, NextTc, PTL DEF Spec

(***************************************************************************)
(* One caller at a time.  The netfilter queue holds at most the message of *)
(* the call in progress, so what each Flush does is known: the invariant   *)
(* says what is queued, which rule is about to go, and which tables the    *)
(* parts of the manager still have.                                        *)
(***************************************************************************)
OneCaller == \E p : Proc = {p}

\* What the steps need to know of finite sets.  It is proved in IpamTables_proof,
\* with the library of finite sets, as SetFactsHold.
SetFacts ==
  /\ IsFiniteSet({}) /\ Cardinality({}) = 0
  /\ \A S, x : IsFiniteSet(S) => IsFiniteSet(S \cup {x}) /\ IsFiniteSet(S \ {x})
  /\ \A R \in Seq([h : Handles, ip : Nat]) :
       OneCaller /\ Len(R) < MaxRules => ~(Handles \subseteq Installed(R))

Leaving == {"unlimit", "find", "delrule", "delflush"}
Stopping == {"stopnf", "stopflush", "stoptc"}

RuleOf(h, a) == \E i \in DOMAIN rules : rules[i].h = h /\ rules[i].ip = a

RulesInv ==
  /\ rules \in Seq([h : Handles, ip : Nat])
  /\ \A i, j \in DOMAIN rules : rules[i].h = rules[j].h => i = j
  /\ Len(rules) <= MaxRules
  /\ \A p \in Proc : pc[p] \in {"isolate", "isolateflush"} => Len(rules) < MaxRules

QueueInv ==
  \A p \in Proc :
    /\ pc[p] = "isolateflush" => queue = <<AddMessage(cur[p].ip)>>
    /\ pc[p] = "delflush" => \E h \in Handles : queue = <<DelMessage(h)>> /\ RuleOf(h, cur[p].ip)
    /\ pc[p] = "stopflush" => queue = <<InitMessage>>
    /\ pc[p] \notin {"isolateflush", "delflush", "stopflush"} => queue = <<>>
    /\ pc[p] = "delrule" => target[p] \in Handles /\ RuleOf(target[p], cur[p].ip)
    /\ pc[p] # "delrule" => target[p] = NoHandle

PartsInv ==
  /\ running <=> "ipp" \in parts
  /\ running => parts = {"ipp", "nf", "tc"}
  /\ \A p \in Proc : pc[p] \in Stopping <=> (~running /\ "tc" \in parts)
  /\ \A p \in Proc : "nf" \in parts <=> (running \/ pc[p] \in {"stopnf", "stopflush"})

\* The peers that were granted internet access only and need a rule for it.
NeedsRule(access) == access = "InternetOnly" /\ DefaultPol = "AllowAll"

IsolationInv ==
  running =>
    /\ \A a \in Held : NeedsRule(peer[a].access) => Isolated(a)
    /\ \A p \in Proc : pc[p] = "limit" /\ NeedsRule(cur[p].access) => Isolated(cur[p].ip)
    /\ \A p \in Proc : pc[p] \in Leaving => cur[p].ip \notin Held

EntriesMatch == \A l \in limits : [h |-> l.h, ip |-> l.ip] \in filters

FilterInv ==
  /\ TcTypeOK
  /\ running => \A a \in Held : TcOn /\ peer[a].rate # 0 => Filtered(a)
  /\ "tc" \in parts => EntriesMatch

NfInv == target \in [Proc -> Handles \cup {NoHandle}] /\ RulesInv /\ QueueInv

SeqInv ==
  /\ AccInv /\ TcInv /\ "classdel" \notin faults
  /\ NfInv /\ PartsInv /\ IsolationInv /\ FilterInv

(***************************************************************************)
(* What Flush does with the one message of the queue.                      *)
(***************************************************************************)
LEMMA BatchOfOne ==
  ASSUME NEW m, queue = <<m>>
  PROVE  Batch = ApplyMessage(m, [ok |-> TRUE, rules |-> rules])
  <1> DEFINE b0 == [ok |-> TRUE, rules |-> rules]
             b1 == ApplyMessage(m, b0)
             g == [i \in 0..Len(queue) |-> IF i = 0 THEN b0 ELSE b1]
  <1> HIDE DEF b0, b1
  <1>1. g = [i \in 0..Len(queue) |-> IF i = 0 THEN b0 ELSE ApplyMessage(queue[i], g[i - 1])]
    BY DEF b1
  <1>2. \A b : b = [i \in 0..Len(queue) |-> IF i = 0 THEN b0 ELSE ApplyMessage(queue[i], b[i - 1])]
               => b[Len(queue)] = b1
    BY DEF b1
  <1> QED
    BY <1>1, <1>2, Zenon DEF Batch, b0, b1

\* There is a handle that no rule has, as long as there is room for one more rule.
LEMMA HandleLeft ==
  ASSUME RulesInv, OneCaller, SetFacts, Len(rules) < MaxRules, \A q \in Proc : target[q] = NoHandle,
         NEW a, queue = <<AddMessage(a)>>
  PROVE  FreshHandle(rules) \in Handles \ Installed(rules)
  <1>1. DOMAIN rules = 1..Len(rules) /\ \A h \in Handles : h # NoHandle
    BY DEF RulesInv, Handles, NoHandle
  <1>2. Referred(rules) \cap Handles = Installed(rules) \cap Handles
    BY <1>1 DEF Referred, AddMessage
  <1>3. \E h \in Handles : h \notin Referred(rules)
    BY <1>2 DEF SetFacts, RulesInv
  <1> QED
    BY <1>2, <1>3 DEF FreshHandle

\* newIsolatePeerRule appends the rule, or the kernel refused.
LEMMA FlushAdd ==
  ASSUME RulesInv, OneCaller, SetFacts, Len(rules) < MaxRules, \A q \in Proc : target[q] = NoHandle,
         NEW a, queue = <<AddMessage(a)>>, NEW ok \in BOOLEAN, Flush(ok)
  PROVE  /\ queue' = <<>>
         /\ ok => \E h \in Handles \ Installed(rules) : rules' = Append(rules, [h |-> h, ip |-> a])
         /\ ~ok => "flush" \in faults /\ rules' = rules
  <1> DEFINE h == FreshHandle(rules)
  <1>1. h \in Handles \ Installed(rules)
    BY HandleLeft
  <1>2. Batch.ok = TRUE /\ Batch.rules = Append(rules, [h |-> h, ip |-> a])
    BY BatchOfOne DEF ApplyMessage, AddMessage
  <1> HIDE DEF h
  <1> QED
    BY <1>1, <1>2 DEF Flush

\* findAndRemoveRule deletes the rule it found, or the kernel refused.
LEMMA FlushDel ==
  ASSUME RulesInv, NEW h, NEW a, queue = <<DelMessage(h)>>, RuleOf(h, a),
         NEW ok \in BOOLEAN, Flush(ok)
  PROVE  /\ queue' = <<>>
         /\ \/ "flush" \in faults /\ rules' = rules
            \/ \E i \in DOMAIN rules :
                 /\ rules[i].h = h /\ rules[i].ip = a
                 /\ rules' = [j \in 1..(Len(rules) - 1) |-> IF j < i THEN rules[j] ELSE rules[j + 1]]
  <1>1. PICK i \in DOMAIN rules : rules[i].h = h /\ rules[i].ip = a
    BY DEF RuleOf
  <1>2. h \in Installed(rules)
    BY <1>1 DEF Installed
  <1>3. (CHOOSE j \in DOMAIN rules : rules[j].h = h) = i
    BY <1>1 DEF RulesInv
  <1>4. DeleteRule(rules, h) = [j \in 1..(Len(rules) - 1) |-> IF j < i THEN rules[j] ELSE rules[j + 1]]
    BY <1>3, Zenon DEF DeleteRule
  <1>5. Batch.ok = TRUE /\ Batch.rules = DeleteRule(rules, h)
    <2> DEFINE b == [ok |-> TRUE, rules |-> rules]  m == DelMessage(h)
    <2>1. b.ok = TRUE /\ b.rules = rules /\ m.op = "del" /\ m.h = h
      BY DEF DelMessage
    <2>2. ApplyMessage(m, b) = [b EXCEPT !.rules = DeleteRule(b.rules, h)]
      BY <1>2, <2>1 DEF ApplyMessage
    <2>3. Batch = [b EXCEPT !.rules = DeleteRule(b.rules, h)]
      BY <2>2, BatchOfOne, Zenon
    <2> QED
      BY <2>3
  <1> QED
    BY <1>1, <1>4, <1>5 DEF Flush

\* Shutdown leaves no rule, or the kernel refused.
LEMMA FlushInit ==
  ASSUME queue = <<InitMessage>>, NEW ok \in BOOLEAN, Flush(ok)
  PROVE  queue' = <<>> /\ (rules' = <<>> \/ ("flush" \in faults /\ rules' = rules))
  <1> DEFINE b == [ok |-> TRUE, rules |-> rules]
  <1>1. ApplyMessage(InitMessage, b) = [b EXCEPT !.rules = <<>>]
    BY DEF ApplyMessage, InitMessage
  <1>2. Batch = [ok |-> TRUE, rules |-> <<>>]
    BY <1>1, BatchOfOne, Zenon
  <1>3. Batch.ok = TRUE /\ Batch.rules = <<>>
    BY <1>2
  <1> QED
    BY <1>3 DEF Flush

\* A function on 1..m is a sequence, and deleting the i-th element of a sequence
\* leaves the others in their order.
LEMMA FunctionIsSeq ==
  ASSUME NEW T, NEW m \in Nat, NEW f \in [1..m -> T]
  PROVE  f \in Seq(T) /\ Len(f) = m
  OBVIOUS

IsWithout(t, s, i) ==
  /\ DOMAIN t = 1..(Len(s) - 1)
  /\ \A j \in 1..(Len(s) - 1) : \E k \in (1..Len(s)) \ {i} : t[j] = s[k]
  /\ \A k \in (1..Len(s)) \ {i} : \E j \in 1..(Len(s) - 1) : t[j] = s[k]
  /\ \A j, k \in 1..(Len(s) - 1) : j < k =>
       \E x, y \in (1..Len(s)) \ {i} : x < y /\ t[j] = s[x] /\ t[k] = s[y]

LEMMA WithoutOne ==
  ASSUME NEW T, NEW s \in Seq(T), NEW i \in 1..Len(s),
         NEW t, t = [j \in 1..(Len(s) - 1) |-> IF j < i THEN s[j] ELSE s[j + 1]]
  PROVE  t \in Seq(T) /\ Len(t) = Len(s) - 1 /\ IsWithout(t, s, i)
  <1> DEFINE n == Len(s)
  <1>1. n \in Nat /\ i \in 1..n /\ n - 1 \in Nat /\ \A j \in 1..n : s[j] \in T
    OBVIOUS
  <1>2. t = [j \in 1..(n - 1) |-> IF j < i THEN s[j] ELSE s[j + 1]]
    OBVIOUS
  <1> HIDE DEF n
  <1>3. t \in [1..(n - 1) -> T]
    BY <1>1, <1>2
  <1>4. t \in Seq(T) /\ Len(t) = n - 1 /\ DOMAIN t = 1..(n - 1)
    BY <1>1, <1>3, FunctionIsSeq
  <1>5. \A j \in 1..(n - 1) : t[j] = IF j < i THEN s[j] ELSE s[j + 1]
    BY <1>2, Zenon
  <1>6. ASSUME NEW k \in (1..n) \ {i}
        PROVE  \E j \in 1..(n - 1) : t[j] = s[k]
    <2>1. CASE k < i
      <3>1. k \in 1..(n - 1) /\ t[k] = s[k]
        BY <1>1, <1>5, <2>1
      <3> QED
        BY <3>1, Zenon
    <2>2. CASE k > i
      <3>1. k - 1 \in 1..(n - 1) /\ ~(k - 1 < i) /\ (k - 1) + 1 = k
        BY <1>1, <2>2
      <3> QED
        BY <1>5, <3>1, Zenon
    <2>3. k < i \/ k > i
      BY <1>1
    <2> QED
      BY <2>1, <2>2, <2>3
  <1>7. ASSUME NEW j \in 1..(n - 1)
        PROVE  \E k \in (1..n) \ {i} : t[j] = s[k]
    <2>1. CASE j < i
      <3>1. j \in (1..n) \ {i} /\ t[j] = s[j]
        BY <1>1, <1>5, <2>1
      <3> QED
        BY <3>1, Zenon
    <2>2. CASE ~(j < i)
      <3>1. j + 1 \in (1..n) \ {i} /\ t[j] = s[j + 1]
        BY <1>1, <1>5, <2>2
      <3> QED
        BY <3>1, Zenon
    <2> QED
      BY <2>1, <2>2, Zenon
  <1>8. ASSUME NEW j \in 1..(n - 1), NEW k \in 1..(n - 1), j < k
        PROVE  \E x, y \in (1..n) \ {i} : x < y /\ t[j] = s[x] /\ t[k] = s[y]
    <2> DEFINE x == IF j < i THEN j ELSE j + 1
               y == IF k < i THEN k ELSE k + 1
    <2>1. x \in (1..n) \ {i} /\ y \in (1..n) \ {i} /\ x < y
      BY <1>1, <1>8
    <2>2. t[j] = s[x] /\ t[k] = s[y]
      BY <1>5
    <2> HIDE DEF x, y
    <2> QED
      BY <2>1, <2>2, Zenon
  <1> QED
    BY <1>4, <1>6, <1>7, <1>8 DEF n, IsWithout

\* What the list of rules is after a rule was appended ...
LEMMA RuleAdded ==
  ASSUME RulesInv, NEW h \in Handles \ Installed(rules), NEW a \in Nat,
         rules' = Append(rules, [h |-> h, ip |-> a])
  PROVE  /\ rules' \in Seq([h : Handles, ip : Nat]) /\ Len(rules') = Len(rules) + 1
         /\ DOMAIN rules = 1..Len(rules) /\ Len(rules) \in Nat
         /\ DOMAIN rules' = 1..(Len(rules) + 1)
         /\ \A i \in DOMAIN rules : rules'[i] = rules[i]
         /\ rules'[Len(rules) + 1].h = h /\ rules'[Len(rules) + 1].ip = a
         /\ \A i, j \in DOMAIN rules' : rules'[i].h = rules'[j].h => i = j
  <1> DEFINE r == [h |-> h, ip |-> a]
  <1>1. r \in [h : Handles, ip : Nat] /\ r.h = h /\ r.ip = a
    OBVIOUS
  <1> HIDE DEF r
  <1>2. /\ rules' \in Seq([h : Handles, ip : Nat]) /\ Len(rules') = Len(rules) + 1
        /\ DOMAIN rules = 1..Len(rules) /\ Len(rules) \in Nat
        /\ DOMAIN rules' = 1..(Len(rules) + 1)
        /\ \A i \in DOMAIN rules : rules'[i] = rules[i]
        /\ rules'[Len(rules) + 1] = r
    BY <1>1 DEF RulesInv, r
  <1>3. \A i \in DOMAIN rules : rules[i].h # h
    BY DEF Installed
  <1>4. \A i, j \in DOMAIN rules' : rules'[i].h = rules'[j].h => i = j
    BY <1>1, <1>2, <1>3 DEF RulesInv
  <1> QED
    BY <1>1, <1>2, <1>4

\* ... or the one at i was deleted.
LEMMA RuleGone ==
  ASSUME RulesInv, NEW i \in DOMAIN rules,
         rules' = [j \in 1..(Len(rules) - 1) |-> IF j < i THEN rules[j] ELSE rules[j + 1]]
  PROVE  /\ rules' \in Seq([h : Handles, ip : Nat]) /\ Len(rules') = Len(rules) - 1
         /\ IsWithout(rules', rules, i)
         /\ \A j, k \in DOMAIN rules' : rules'[j].h = rules'[k].h => j = k
  <1> DEFINE T == [h : Handles, ip : Nat]  n == Len(rules)
  <1>1. rules \in Seq(T) /\ n \in Nat /\ DOMAIN rules = 1..n
    BY DEF RulesInv
  <1> HIDE DEF T
  <1>2. rules' \in Seq(T) /\ Len(rules') = n - 1 /\ IsWithout(rules', rules, i)
    BY <1>1, WithoutOne
  <1>3. DOMAIN rules' = 1..(n - 1)
    BY <1>2 DEF IsWithout
  <1>4. \A j, k \in 1..(n - 1) : j < k =>
          \E x, y \in (1..n) \ {i} : x < y /\ rules'[j] = rules[x] /\ rules'[k] = rules[y]
    BY <1>2, Zenon DEF IsWithout
  <1>5. \A x, y \in 1..n : rules[x].h = rules[y].h => x = y
    BY <1>1, Zenon DEF RulesInv
  <1> HIDE DEF n
  <1>6. \A j, k \in 1..(n - 1) : j < k => rules'[j].h # rules'[k].h
    <2> SUFFICES ASSUME NEW j \in 1..(n - 1), NEW k \in 1..(n - 1), j < k
                 PROVE  rules'[j].h # rules'[k].h
      OBVIOUS
    <2>1. PICK x, y \in (1..n) \ {i} : x < y /\ rules'[j] = rules[x] /\ rules'[k] = rules[y]
      BY <1>4
    <2>2. x # y
      BY <1>1, <2>1
    <2> QED
      BY <1>5, <2>1, <2>2, Zenon
  <1>7. \A j, k \in 1..(n - 1) : j < k \/ k < j \/ j = k
    BY <1>1
  <1> QED
    BY <1>2, <1>3, <1>6, <1>7 DEF T, n

(***************************************************************************)
(* The rules and the queue are as the call in progress needs them.         *)
(***************************************************************************)

\* A step that leaves netfilter alone, from and to points without a message.
LEMMA QuietNf ==
  ASSUME IpamTypeOK, NfInv, NEW p, Proc = {p}, NEW l,
         pc' = [pc EXCEPT ![p] = l], UNCHANGED nfVars,
         l \notin {"isolate", "isolateflush", "delrule", "delflush", "stopflush"},
         pc[p] \notin {"isolateflush", "delrule", "delflush", "stopflush"}
  PROVE  NfInv'
  <1>1. pc'[p] = l
    BY DEF IpamTypeOK
  <1>2. RulesInv'
    BY <1>1 DEF NfInv, RulesInv, nfVars
  <1>3. QueueInv'
    BY <1>1 DEF NfInv, QueueInv, nfVars
  <1>4. target' = target
    BY DEF nfVars
  <1> QED
    BY <1>2, <1>3, <1>4, Zenon DEF NfInv

\* A step in which the goroutine stays where it is.
LEMMA SameNf ==
  ASSUME NfInv, UNCHANGED <<nfVars, pc, cur>>
  PROVE  NfInv'
  BY DEF NfInv, RulesInv, QueueInv, RuleOf, nfVars

\* Alloc and Set: there is room for a rule.
LEMMA BeginNf ==
  ASSUME SetFacts, IpamTypeOK, NfInv, NEW p, Proc = {p}, pc[p] = "idle", RoomForRules,
         NEW a, NEW access, NEW rate, BeginPolicy(p, a, access, rate)
  PROVE  NfInv'
  <1>1. PICK l \in {"isolate", "limit"} : pc' = [pc EXCEPT ![p] = l]
    BY Zenon DEF BeginPolicy
  <1>2. pc'[p] = l /\ UNCHANGED nfVars
    BY <1>1 DEF IpamTypeOK, BeginPolicy
  <1>3. Len(rules) < MaxRules
    <2>1. queue = <<>> /\ Owning = {}
      BY DEF NfInv, QueueInv, Owning
    <2>2. Len(queue) = 0 /\ Cardinality(Owning) = 0 /\ Len(rules) \in Nat
      BY <2>1 DEF SetFacts, NfInv, RulesInv
    <2> QED
      BY <2>2 DEF RoomForRules
  <1>4. RulesInv'
    BY <1>2, <1>3 DEF NfInv, RulesInv, nfVars
  <1>5. QueueInv'
    BY <1>2 DEF NfInv, QueueInv, nfVars
  <1> QED
    BY <1>2, <1>4, <1>5 DEF NfInv, nfVars

\* newIsolatePeerRule queues its message ...
LEMMA IsolateQueueNf ==
  ASSUME IpamTypeOK, NfInv, NEW p, Proc = {p}, pc[p] = "isolate",
         IsolatePeerQueue(cur[p].ip), Goto(p, "isolateflush")
  PROVE  NfInv'
  <1>1. pc'[p] = "isolateflush" /\ cur' = cur
    BY DEF Goto, IpamTypeOK
  <1>2. queue = <<>> /\ UNCHANGED <<rules, target>> /\ queue' = Append(queue, AddMessage(cur[p].ip))
    BY DEF NfInv, QueueInv, IsolatePeerQueue
  <1>3. queue' = <<AddMessage(cur[p].ip)>>
    BY <1>2
  <1>4. RulesInv'
    BY <1>1, <1>2 DEF NfInv, RulesInv
  <1>5. QueueInv'
    BY <1>1, <1>2, <1>3 DEF NfInv, QueueInv
  <1> QED
    BY <1>2, <1>4, <1>5 DEF NfInv

\* ... and flushes it.
LEMMA IsolateFlushNf ==
  ASSUME SetFacts, IpamTypeOK, NfInv, NEW p, Proc = {p}, pc[p] = "isolateflush", NEW ok \in BOOLEAN,
         IsolatePeerFlush(ok), Goto(p, IF ok THEN "limit" ELSE "rollback")
  PROVE  NfInv' /\ (ok => Isolated(cur[p].ip)')
  <1> DEFINE a == cur[p].ip
  <1>1. pc'[p] \in {"limit", "rollback"} /\ cur' = cur /\ target' = target /\ a \in Nat
    BY IpamAssumption, Zenon DEF Goto, IpamTypeOK, IsolatePeerFlush
  <1>2. queue = <<AddMessage(a)>> /\ Len(rules) < MaxRules /\ \A q \in Proc : target[q] = NoHandle
    BY DEF NfInv, QueueInv, RulesInv
  <1> HIDE DEF a
  <1>3. /\ queue' = <<>>
        /\ ok => \E h \in Handles \ Installed(rules) : rules' = Append(rules, [h |-> h, ip |-> a])
        /\ ~ok => rules' = rules
    BY <1>2, FlushAdd, Zenon DEF NfInv, OneCaller, IsolatePeerFlush
  <1>4. QueueInv'
    BY <1>1, <1>2, <1>3 DEF QueueInv
  <1>5. CASE ~ok
    <2>1. RulesInv'
      BY <1>1, <1>3, <1>5 DEF NfInv, RulesInv
    <2> QED
      BY <1>1, <1>4, <1>5, <2>1 DEF NfInv
  <1>6. CASE ok
    <2>1. PICK h \in Handles \ Installed(rules) : rules' = Append(rules, [h |-> h, ip |-> a])
      BY <1>3, <1>6, Zenon
    <2>2. RulesInv
      BY DEF NfInv
    <2>3. /\ rules' \in Seq([h : Handles, ip : Nat]) /\ Len(rules') = Len(rules) + 1
          /\ Len(rules) \in Nat
          /\ DOMAIN rules' = 1..(Len(rules) + 1)
          /\ rules'[Len(rules) + 1].ip = a
          /\ \A i, j \in DOMAIN rules' : rules'[i].h = rules'[j].h => i = j
      BY <1>1, <2>1, <2>2, RuleAdded, Zenon
    <2>4. RulesInv'
      BY <1>1, <1>2, <2>3, NetFilterAssumption DEF RulesInv
    <2>5. \E i \in DOMAIN rules' : rules'[i].ip = a
      BY <2>3
    <2>6. NfInv'
      BY <1>1, <1>4, <2>4 DEF NfInv
    <2> QED
      BY <1>1, <2>5, <2>6 DEF a, Isolated
  <1> QED
    BY <1>5, <1>6

\* findAndRemoveRule: the rule it found is the peer's ...
LEMMA FindNf ==
  ASSUME IpamTypeOK, NfInv, NEW p, Proc = {p}, pc[p] = "find", NEW found \in BOOLEAN,
         FindRule(p, cur[p].ip, found), IF found THEN Goto(p, "delrule") ELSE Return(p)
  PROVE  NfInv'
  <1>1. CASE ~found
    BY <1>1, QuietNf DEF FindRule, Return, nfVars
  <1>2. CASE found
    <2>1. pc'[p] = "delrule" /\ cur' = cur /\ UNCHANGED <<queue, rules>>
      BY <1>2 DEF Goto, IpamTypeOK, FindRule
    <2>2. PICK i \in DOMAIN rules : rules[i].ip = cur[p].ip /\ target' = [target EXCEPT ![p] = rules[i].h]
      BY <1>2 DEF FindRule
    <2>3. rules[i].h \in Handles
      <3> DEFINE T == [h : Handles, ip : Nat]
      <3>1. rules \in Seq(T)
        BY DEF NfInv, RulesInv
      <3> HIDE DEF T
      <3>2. rules[i] \in T
        BY <3>1
      <3> QED
        BY <3>2 DEF T
    <2>4. target'[p] = rules[i].h /\ target' \in [Proc -> Handles \cup {NoHandle}]
      BY <2>2, <2>3 DEF NfInv
    <2>5. RulesInv'
      BY <2>1 DEF NfInv, RulesInv
    <2>6. queue = <<>>
      BY DEF NfInv, QueueInv
    <2>7. QueueInv'
      BY <2>1, <2>2, <2>3, <2>4, <2>6 DEF QueueInv, RuleOf
    <2> QED
      BY <2>4, <2>5, <2>7 DEF NfInv
  <1> QED
    BY <1>1, <1>2

\* ... its deletion is queued ...
LEMMA DelQueueNf ==
  ASSUME IpamTypeOK, NfInv, NEW p, Proc = {p}, pc[p] = "delrule",
         RemoveRuleQueue(p), Goto(p, "delflush")
  PROVE  NfInv'
  <1>1. pc'[p] = "delflush" /\ cur' = cur /\ rules' = rules
    BY DEF Goto, IpamTypeOK, RemoveRuleQueue
  <1>2. queue = <<>> /\ target[p] \in Handles /\ RuleOf(target[p], cur[p].ip)
    BY DEF NfInv, QueueInv
  <1>3. queue' = <<DelMessage(target[p])>>
    BY <1>2 DEF RemoveRuleQueue
  <1>4. target' = [target EXCEPT ![p] = NoHandle] /\ target'[p] = NoHandle
        /\ target' \in [Proc -> Handles \cup {NoHandle}]
    BY DEF RemoveRuleQueue, NfInv
  <1>5. RulesInv'
    BY <1>1 DEF NfInv, RulesInv
  <1>6. QueueInv'
    BY <1>1, <1>2, <1>3, <1>4 DEF QueueInv, RuleOf
  <1> QED
    BY <1>4, <1>5, <1>6 DEF NfInv

\* ... and flushed: nobody else's rule goes.
LEMMA DelFlushNf ==
  ASSUME IpamTypeOK, NfInv, NEW p, Proc = {p}, pc[p] = "delflush", RemoveRuleFlush, Return(p)
  PROVE  /\ NfInv'
         /\ \/ "flush" \in faults /\ rules' = rules
            \/ \E i \in DOMAIN rules : rules[i].ip = cur[p].ip /\ IsWithout(rules', rules, i)
  <1>1. pc'[p] = "idle" /\ target' = target
    BY DEF Return, IpamTypeOK, RemoveRuleFlush
  <1>2. PICK h \in Handles : queue = <<DelMessage(h)>> /\ RuleOf(h, cur[p].ip)
    BY DEF NfInv, QueueInv
  <1>3. RulesInv
    BY DEF NfInv
  <1>4. /\ queue' = <<>>
        /\ \/ "flush" \in faults /\ rules' = rules
           \/ \E i \in DOMAIN rules :
                /\ rules[i].h = h /\ rules[i].ip = cur[p].ip
                /\ rules' = [j \in 1..(Len(rules) - 1) |-> IF j < i THEN rules[j] ELSE rules[j + 1]]
    BY <1>2, <1>3, FlushDel DEF RemoveRuleFlush
  <1>5. QueueInv'
    BY <1>1, <1>4 DEF NfInv, QueueInv
  <1>6. CASE "flush" \in faults /\ rules' = rules
    <2>1. RulesInv'
      BY <1>1, <1>6 DEF NfInv, RulesInv
    <2> QED
      BY <1>1, <1>5, <1>6, <2>1 DEF NfInv
  <1>7. CASE ~("flush" \in faults /\ rules' = rules)
    <2>1. PICK i \in DOMAIN rules :
            /\ rules[i].ip = cur[p].ip
            /\ rules' = [j \in 1..(Len(rules) - 1) |-> IF j < i THEN rules[j] ELSE rules[j + 1]]
      BY <1>4, <1>7
    <2>2. /\ rules' \in Seq([h : Handles, ip : Nat]) /\ Len(rules') = Len(rules) - 1
          /\ IsWithout(rules', rules, i)
          /\ \A j, k \in DOMAIN rules' : rules'[j].h = rules'[k].h => j = k
      BY <1>3, <2>1, RuleGone, Zenon
    <2>3. RulesInv'
      BY <1>1, <1>3, <2>2, NetFilterAssumption DEF RulesInv
    <2> QED
      BY <1>1, <1>5, <2>1, <2>2, <2>3 DEF NfInv
  <1> QED
    BY <1>6, <1>7

\* Shutdown queues the new tables ...
LEMMA StopQueueNf ==
  ASSUME IpamTypeOK, NfInv, NEW p, Proc = {p}, pc[p] = "stopnf", NfReinitQueue, Goto(p, "stopflush")
  PROVE  NfInv'
  <1>1. pc'[p] = "stopflush" /\ UNCHANGED <<cur, rules, target>>
    BY DEF Goto, IpamTypeOK, NfReinitQueue
  <1>2. queue' = <<InitMessage>>
    <2>1. queue = <<>> /\ queue' = Append(queue, InitMessage)
      BY DEF NfInv, QueueInv, NfReinitQueue
    <2> QED
      BY <2>1
  <1>3. RulesInv'
    BY <1>1 DEF NfInv, RulesInv
  <1>4. QueueInv'
    BY <1>1, <1>2 DEF NfInv, QueueInv
  <1> QED
    BY <1>1, <1>3, <1>4 DEF NfInv

\* ... and flushes them.
LEMMA StopFlushNf ==
  ASSUME IpamTypeOK, NfInv, NEW p, Proc = {p}, pc[p] = "stopflush", NEW ok \in BOOLEAN,
         Flush(ok), UNCHANGED target, Goto(p, "stoptc")
  PROVE  NfInv' /\ (rules' = <<>> \/ ("flush" \in faults /\ rules' = rules))
  <1>1. pc'[p] = "stoptc" /\ UNCHANGED <<cur, target>>
    BY DEF Goto, IpamTypeOK
  <1>2. queue = <<InitMessage>>
    BY DEF NfInv, QueueInv
  <1>3. queue' = <<>> /\ (rules' = <<>> \/ ("flush" \in faults /\ rules' = rules))
    BY <1>2, FlushInit
  <1>4. RulesInv'
    <2>1. CASE rules' = <<>>
      <3>1. rules' \in Seq([h : Handles, ip : Nat]) /\ Len(rules') = 0 /\ DOMAIN rules' = {}
        BY <2>1
      <3> QED
        BY <1>1, <3>1, NetFilterAssumption DEF RulesInv
    <2>2. CASE rules' = rules
      BY <1>1, <2>2 DEF NfInv, RulesInv
    <2> QED
      BY <1>3, <2>1, <2>2
  <1>5. QueueInv'
    BY <1>1, <1>3 DEF NfInv, QueueInv
  <1> QED
    BY <1>1, <1>3, <1>4, <1>5 DEF NfInv

\* Every step of a single caller.
LEMMA NextNf ==
  ASSUME AccInv, NfInv, OneCaller, SetFacts, [Next]_vars
  PROVE  NfInv'
  <1>0. PICK p : Proc = {p}
    BY DEF OneCaller
  <1> USE DEF poolVars, ipamVars
  <1>t. IpamTypeOK
    BY DEF AccInv
  <1>1. CASE UNCHANGED vars
    BY <1>1, SameNf DEF vars
  <1>2. ASSUME NEW f, NilPanic(f)
        PROVE  NfInv'
    BY <1>2, SameNf DEF NilPanic
  <1>3. ASSUME NEW access, NEW rate, Alloc(p, access, rate) \/ \E a \in Addr : Set(p, a, access, rate)
        PROVE  NfInv'
    BY <1>0, <1>t, <1>1, <1>2, <1>3, BeginNf DEF Alloc, Set
  <1>4. ASSUME NEW a \in Addr, Unset(p, a)
        PROVE  NfInv'
    <2>1. CASE UNCHANGED <<nfVars, pc, cur>>
      BY <2>1, SameNf
    <2> QED
      BY <1>0, <1>t, <1>2, <1>4, <2>1, QuietNf DEF Unset
  <1>5. CASE ShutdownPool(p)
    BY <1>0, <1>t, <1>2, <1>5, QuietNf DEF ShutdownPool, Goto
  <1>6. CASE IsolateQueue(p)
    BY <1>0, <1>t, <1>2, <1>6, IsolateQueueNf DEF IsolateQueue
  <1>7. CASE IsolateFlush(p)
    BY <1>0, <1>t, <1>7, IsolateFlushNf DEF IsolateFlush
  <1>8. CASE Limit(p) \/ Rollback(p) \/ Unlimit(p) \/ ShutdownTc(p)
    BY <1>0, <1>t, <1>2, <1>8, QuietNf, Zenon DEF Limit, Rollback, Unlimit, ShutdownTc, Goto, Return
  <1>9. CASE Find(p)
    BY <1>0, <1>t, <1>2, <1>9, FindNf DEF Find
  <1>10. CASE DelQueue(p)
    BY <1>0, <1>t, <1>10, DelQueueNf DEF DelQueue
  <1>11. CASE DelFlush(p)
    BY <1>0, <1>t, <1>11, DelFlushNf DEF DelFlush
  <1>12. CASE ShutdownNfQueue(p)
    BY <1>0, <1>t, <1>12, StopQueueNf DEF ShutdownNfQueue
  <1>13. CASE ShutdownNfFlush(p)
    BY <1>0, <1>t, <1>13, StopFlushNf DEF ShutdownNfFlush
  <1> QED
    BY <1>0, <1>1, <1>3, <1>4, <1>5, <1>6, <1>7, <1>8, <1>9, <1>10, <1>11, <1>12, <1>13
    DEF Next, Step, Exited

\* Shutdown takes the parts away one after the other.
LEMMA NextParts ==
  ASSUME AccInv, PartsInv, OneCaller, SetFacts, [Next]_vars
  PROVE  PartsInv'
  <1>0. PICK p : Proc = {p}
    BY DEF OneCaller
  <1>t. pc = [q \in Proc |-> pc[q]] /\ parts \subseteq {"ipp", "nf", "tc"} /\ running \in BOOLEAN
    BY DEF AccInv, IpamTypeOK
  <1> USE DEF poolVars, ipamVars, Stopping
  <1>1. CASE UNCHANGED <<parts, running, pc>>
    BY <1>1 DEF PartsInv
  <1>2. ASSUME NEW l, pc' = [pc EXCEPT ![p] = l], UNCHANGED <<parts, running>>,
               \/ pc[p] \notin Stopping /\ l \notin Stopping
               \/ pc[p] = "stopnf" /\ l = "stopflush"
        PROVE  PartsInv'
    <2>1. pc'[p] = l
      BY <1>0, <1>t, <1>2
    <2> QED
      BY <1>0, <1>2, <2>1 DEF PartsInv
  <1>3. ASSUME NEW f, NilPanic(f)
        PROVE  PartsInv'
    BY <1>1, <1>3 DEF NilPanic
  <1>4. ASSUME NEW access, NEW rate, Alloc(p, access, rate) \/ \E a \in Addr : Set(p, a, access, rate)
        PROVE  PartsInv'
    BY <1>1, <1>2, <1>3, <1>4 DEF Alloc, Set, BeginPolicy, PoolAlloc, PoolSet, vars
  <1>5. ASSUME NEW a \in Addr, Unset(p, a)
        PROVE  PartsInv'
    BY <1>1, <1>2, <1>3, <1>5 DEF Unset, PoolUnset
  <1>6. CASE ShutdownPool(p)
    <2>1. CASE ~NilPanic("ipp")
      <3>1. pc'[p] = "stopnf" /\ running' = FALSE /\ parts' = parts \ {"ipp"} /\ "ipp" \in parts
        BY <1>0, <1>t, <1>6, <2>1 DEF ShutdownPool, PoolShutdown, Goto
      <3> QED
        BY <1>0, <1>t, <3>1 DEF PartsInv
    <2> QED
      BY <1>3, <2>1
  <1>7. CASE IsolateQueue(p) \/ IsolateFlush(p) \/ Limit(p) \/ Unlimit(p) \/ Find(p)
    BY <1>1, <1>2, <1>3, <1>7, Zenon DEF IsolateQueue, IsolateFlush, Limit, Unlimit, Find, Goto, Return
  <1>8. CASE Rollback(p)
    BY <1>2, <1>3, <1>8 DEF Rollback, Return, PoolUnset
  <1>9. CASE DelQueue(p) \/ DelFlush(p) \/ ShutdownNfQueue(p)
    BY <1>2, <1>9 DEF DelQueue, DelFlush, ShutdownNfQueue, Goto, Return
  <1>10. CASE ShutdownNfFlush(p)
    <2>1. pc'[p] = "stoptc" /\ pc[p] = "stopflush" /\ running' = running /\ parts' = parts \ {"nf"}
      BY <1>0, <1>t, <1>10 DEF ShutdownNfFlush, Goto
    <2> QED
      BY <1>0, <1>t, <2>1 DEF PartsInv
  <1>11. CASE ShutdownTc(p)
    <2>1. pc'[p] = "idle" /\ pc[p] = "stoptc" /\ running' = running /\ parts' = parts \ {"tc"}
      BY <1>0, <1>t, <1>11 DEF ShutdownTc, Return
    <2> QED
      BY <1>0, <1>t, <2>1 DEF PartsInv
  <1> QED
    BY <1>0, <1>1, <1>4, <1>5, <1>6, <1>7, <1>8, <1>9, <1>10, <1>11, Zenon DEF Next, Step, Exited, vars

\* The isolation promised to a peer stays: only the rule of a peer that left goes.
LEMMA NextIsolation ==
  ASSUME AccInv, NfInv, PartsInv, IsolationInv, OneCaller, SetFacts, [Next]_vars
  PROVE  IsolationInv'
  <1>0. PICK p : Proc = {p}
    BY DEF OneCaller
  <1>t. pc = [q \in Proc |-> pc[q]] /\ cur = [q \in Proc |-> cur[q]]
        /\ peer = [a \in Addr |-> peer[a]] /\ cur[p].ip \in Addr /\ IpamTypeOK
    BY <1>0 DEF AccInv, IpamTypeOK
  <1> USE DEF poolVars, ipamVars, nfVars
  <1>1. ASSUME UNCHANGED <<peer, pc, cur, rules>>, running' => running
        PROVE  IsolationInv'
    BY <1>1 DEF IsolationInv, Isolated, Held
  <1>2. ASSUME UNCHANGED <<peer, cur>>, running' => running, NEW l, pc' = [pc EXCEPT ![p] = l],
               \A a \in Addr : Isolated(a) => Isolated(a)',
               l = "limit" /\ NeedsRule(cur[p].access) => Isolated(cur[p].ip)',
               l \in Leaving => pc[p] \in Leaving
        PROVE  IsolationInv'
    <2>1. pc'[p] = l /\ Held' = Held
      BY <1>0, <1>t, <1>2 DEF Held
    <2>2. \A a \in Held : a \in Addr
      BY DEF Held
    <2> QED
      BY <1>0, <1>2, <2>1, <2>2 DEF IsolationInv
  <1>3. ASSUME Return(p), UNCHANGED <<peer, rules>>, running' => running
        PROVE  IsolationInv'
    <2>1. pc'[p] = "idle" /\ Held' = Held
      BY <1>0, <1>t, <1>3 DEF Held, Return
    <2> QED
      BY <1>0, <1>3, <2>1 DEF IsolationInv, Isolated, Leaving
  <1>4. ASSUME NEW f, NilPanic(f)
        PROVE  IsolationInv'
    BY <1>1, <1>4 DEF NilPanic
  <1>5. ASSUME NEW a \in Addr, NEW access, NEW rate, PoolAlloc(a), BeginPolicy(p, a, access, rate)
        PROVE  IsolationInv'
    <2> DEFINE c == [ip |-> a, access |-> access, rate |-> rate]
    <2>1. UNCHANGED <<peer, rules>> /\ running' = running /\ Held' = Held
      BY <1>5 DEF BeginPolicy, PoolAlloc, Held
    <2>2. cur'[p] = c /\ c.access = access
      BY <1>0, <1>t, <1>5 DEF BeginPolicy
    <2>3. pc'[p] = IF NeedsRule(access) THEN "isolate" ELSE "limit"
      BY <1>0, <1>t, <1>5 DEF BeginPolicy, NeedsRule
    <2> HIDE DEF c
    <2> QED
      BY <1>0, <2>1, <2>2, <2>3 DEF IsolationInv, Isolated, Leaving
  <1>6. ASSUME NEW access, NEW rate, Alloc(p, access, rate) \/ \E a \in Addr : Set(p, a, access, rate)
        PROVE  IsolationInv'
    BY <1>1, <1>4, <1>5, <1>6 DEF Alloc, Set, PoolSet, vars
  <1>7. ASSUME NEW a \in Addr, Unset(p, a)
        PROVE  IsolationInv'
    <2>1. CASE PoolUnset(a) /\ ~NilPanic("ipp")
      <3>1. /\ UNCHANGED rules /\ running' = running /\ peer' = [peer EXCEPT ![a] = NoPeer]
            /\ pc' = [pc EXCEPT ![p] = "unlimit"] /\ cur' = [cur EXCEPT ![p].ip = a]
        BY <1>7, <2>1 DEF Unset, PoolUnset, PoolUnsetRefused
      <3>2. pc'[p] = "unlimit" /\ cur'[p].ip = a /\ Held' = Held \ {a}
        BY <1>0, <1>t, <3>1 DEF Held, AccInv, IpamTypeOK
      <3>3. \A b \in Held' : peer'[b] = peer[b]
        BY <1>t, <3>1, <3>2 DEF Held
      <3> QED
        BY <1>0, <3>1, <3>2, <3>3 DEF IsolationInv, Isolated
    <2> QED
      BY <1>1, <1>4, <1>7, <2>1 DEF Unset
  <1>8. CASE ShutdownPool(p)
    BY <1>4, <1>8 DEF ShutdownPool, PoolShutdown, IsolationInv
  <1>9. CASE IsolateQueue(p)
    <2>1. (\E f : NilPanic(f)) \/ (rules' = rules /\ running' = running /\ UNCHANGED <<peer, cur>>
            /\ pc' = [pc EXCEPT ![p] = "isolateflush"])
      BY <1>9 DEF IsolateQueue, IsolatePeerQueue, Goto
    <2> QED
      BY <1>2, <1>4, <2>1 DEF Isolated, Leaving
  <1>10. CASE IsolateFlush(p)
    <2>1. PICK ok \in BOOLEAN : IsolatePeerFlush(ok) /\ Goto(p, IF ok THEN "limit" ELSE "rollback")
      BY <1>10 DEF IsolateFlush
    <2>2. ok => Isolated(cur[p].ip)'
      BY <1>0, <1>t, <1>10, <2>1, IsolateFlushNf, Zenon DEF IsolateFlush
    <2>3. \A a \in Addr : Isolated(a) => Isolated(a)'
      <3>1. RulesInv /\ queue = <<AddMessage(cur[p].ip)>> /\ Len(rules) < MaxRules /\ cur[p].ip \in Nat
            /\ \A q \in Proc : target[q] = NoHandle
        BY <1>0, <1>t, <1>10, IpamAssumption DEF NfInv, QueueInv, RulesInv, IsolateFlush
      <3>2. \/ rules' = rules
            \/ \E h \in Handles \ Installed(rules) : rules' = Append(rules, [h |-> h, ip |-> cur[p].ip])
        BY <2>1, <3>1, FlushAdd, Zenon DEF IsolatePeerFlush
      <3>3. DOMAIN rules \subseteq DOMAIN rules' /\ \A i \in DOMAIN rules : rules'[i] = rules[i]
        <4>1. CASE rules' = rules
          BY <4>1
        <4>2. ASSUME NEW h \in Handles \ Installed(rules),
                     rules' = Append(rules, [h |-> h, ip |-> cur[p].ip])
              PROVE  DOMAIN rules \subseteq DOMAIN rules' /\ \A i \in DOMAIN rules : rules'[i] = rules[i]
          <5>1. /\ DOMAIN rules = 1..Len(rules) /\ Len(rules) \in Nat
                /\ DOMAIN rules' = 1..(Len(rules) + 1)
                /\ \A i \in DOMAIN rules : rules'[i] = rules[i]
            BY <3>1, <4>2, RuleAdded
          <5> QED
            BY <5>1
        <4> QED
          BY <3>2, <4>1, <4>2, Zenon
      <3> QED
        BY <3>3 DEF Isolated
    <2> QED
      BY <1>2, <1>10, <2>1, <2>2, <2>3, Zenon DEF IsolateFlush, Goto, Leaving
  <1>11. CASE Limit(p)
    <2> DEFINE a == cur[p].ip
               pol == [access |-> cur[p].access, rate |-> cur[p].rate]
    <2>1. CASE /\ UNCHANGED <<poolVars, nfVars, parts>> /\ Return(p)
               /\ peer' = [peer EXCEPT ![a] = pol]
      <3>1. pc'[p] = "idle" /\ pol.access = cur[p].access /\ running' = running /\ rules' = rules
            /\ pc[p] = "limit"
        BY <1>0, <1>t, <1>11, <2>1 DEF Return, Limit
      <3> HIDE DEF pol
      <3>2. \A b \in Held' : IF b = a THEN peer'[b] = pol ELSE b \in Held /\ peer'[b] = peer[b]
        BY <1>t, <2>1 DEF Held
      <3>3. running => \A b \in Held' : NeedsRule(peer'[b].access) => Isolated(b)
        BY <1>0, <3>1, <3>2 DEF IsolationInv
      <3> QED
        BY <1>0, <3>1, <3>3 DEF IsolationInv, Isolated, Leaving
    <2>2. CASE UNCHANGED <<poolVars, nfVars, parts, peer>> /\ Goto(p, "rollback")
      BY <1>2, <2>2, Zenon DEF Goto, Leaving, Isolated
    <2> QED
      BY <1>4, <1>11, <2>1, <2>2, Zenon DEF Limit
  <1>12. CASE Rollback(p)
    BY <1>3, <1>4, <1>12 DEF Rollback, PoolUnset
  <1>13. CASE Unlimit(p)
    BY <1>2, <1>4, <1>13 DEF Unlimit, Goto, Leaving, Isolated
  <1>14. CASE Find(p)
    <2>1. \/ \E f : NilPanic(f)
          \/ /\ rules' = rules /\ running' = running /\ peer' = peer /\ pc[p] = "find"
             /\ (pc' = [pc EXCEPT ![p] = "delrule"] /\ cur' = cur) \/ Return(p)
      BY <1>14 DEF Find, FindRule, Goto
    <2> QED
      BY <1>2, <1>3, <1>4, <2>1 DEF Leaving, Isolated
  <1>15. CASE DelQueue(p)
    BY <1>2, <1>15, Zenon DEF DelQueue, RemoveRuleQueue, Goto, Leaving, Isolated
  <1>16. CASE DelFlush(p)
    <2>1. /\ pc'[p] = "idle" /\ running' = running /\ peer' = peer /\ Held' = Held
          /\ pc[p] = "delflush" /\ RemoveRuleFlush /\ Return(p)
      BY <1>0, <1>t, <1>16 DEF DelFlush, Return, Held
    <2>2. \/ rules' = rules
          \/ \E i \in DOMAIN rules : rules[i].ip = cur[p].ip /\ IsWithout(rules', rules, i)
      BY <1>0, <1>t, <2>1, DelFlushNf
    <2>3. DOMAIN rules = 1..Len(rules)
      BY DEF NfInv, RulesInv
    <2>4. \A b : b # cur[p].ip /\ Isolated(b) => \E i \in DOMAIN rules' : rules'[i].ip = b
      BY <2>2, <2>3, Zenon DEF IsWithout, Isolated
    <2>5. running => cur[p].ip \notin Held
      BY <1>0, <2>1 DEF IsolationInv, Leaving
    <2> QED
      BY <1>0, <2>1, <2>4, <2>5 DEF IsolationInv, Isolated, Leaving
  <1>17. CASE ShutdownNfQueue(p) \/ ShutdownNfFlush(p) \/ ShutdownTc(p)
    <2>1. ~running /\ running' = running
      BY <1>0, <1>17 DEF ShutdownNfQueue, ShutdownNfFlush, ShutdownTc, PartsInv, Stopping
    <2> QED
      BY <2>1 DEF IsolationInv
  <1>18. CASE Step(p)
    BY <1>9, <1>10, <1>11, <1>12, <1>13, <1>14, <1>15, <1>16, <1>17, <1>18, Zenon DEF Step
  <1>19. CASE Exited \/ UNCHANGED vars
    BY <1>1, <1>19 DEF Exited, vars
  <1> QED
    BY <1>0, <1>6, <1>7, <1>8, <1>18, <1>19, Zenon DEF Next

(***************************************************************************)
(* The limits.  As long as no class fails to be deleted, the number in an  *)
(* entry is that of the peer's own filter.                                 *)
(***************************************************************************)
\* Addresses have class handles that are numbers.
LEMMA HandleType ==
  ASSUME NEW a \in Nat
  PROVE  handleForIP(a) \in Nat
  BY TrafficControlAssumption DEF handleForIP

\* setLimit adds to the tables and takes nothing away.
LEMMA SetLimitKeeps ==
  ASSUME TcTypeOK, EntriesMatch, NEW a \in Nat, NEW rate, NEW ok \in BOOLEAN, setLimit(a, rate, ok)
  PROVE  /\ TcTypeOK' /\ EntriesMatch' /\ filters \subseteq filters'
         /\ ok /\ TcOn /\ rate # 0 => Filtered(a)'
  <1>1. CASE UNCHANGED tcVars /\ (TcOn /\ rate # 0 => ~ok)
    BY <1>1 DEF tcVars, TcTypeOK, EntriesMatch
  <1>2. CASE classes' = classes \cup {handleForIP(a)} /\ UNCHANGED <<limits, filters>> /\ ~ok
    BY <1>2, HandleType, Zenon DEF TcTypeOK, EntriesMatch
  <1>3. ASSUME NEW h \in FilterHandle, AddFilter(a, h), classes' = classes \cup {handleForIP(a)},
               \/ UNCHANGED limits
               \/ \E f \in filters' : f.ip = a /\ limits' = limits \cup {[ip |-> a, h |-> f.h]}
        PROVE  TcTypeOK' /\ EntriesMatch' /\ filters \subseteq filters' /\ Filtered(a)'
    <2> DEFINE new == [h |-> h, ip |-> a]  F == [h : FilterHandle, ip : Nat]
    <2>1. filters' = filters \cup {new} /\ new.ip = a /\ new.h = h /\ new \in F /\ filters' \subseteq F
      BY <1>3 DEF AddFilter, TcTypeOK
    <2>2. Filtered(a)' /\ filters \subseteq filters'
      BY <2>1, Zenon DEF Filtered
    <2>3. CASE UNCHANGED limits
      BY <1>3, <2>1, <2>2, <2>3, HandleType, Zenon DEF TcTypeOK, EntriesMatch
    <2>4. CASE limits' # limits
      <3>1. PICK f \in filters' : f.ip = a /\ limits' = limits \cup {[ip |-> a, h |-> f.h]}
        BY <1>3, <2>4
      <3>2. f \in F
        BY <2>1
      <3>3. f.h \in FilterHandle /\ f = [h |-> f.h, ip |-> f.ip]
        BY <3>2
      <3> DEFINE e == [ip |-> a, h |-> f.h]
      <3>4. e \in [ip : Nat, h : FilterHandle] /\ [h |-> e.h, ip |-> e.ip] = f
        BY <3>1, <3>3
      <3>5. limits' = limits \cup {e}
        BY <3>1
      <3> HIDE DEF e, new
      <3>6. EntriesMatch'
        BY <2>1, <3>4, <3>5, Zenon DEF EntriesMatch
      <3> QED
        BY <1>3, <2>1, <2>2, <3>4, <3>5, <3>6, HandleType, Zenon DEF TcTypeOK
    <2> QED
      BY <2>2, <2>3, <2>4
  <1> QED
    BY <1>1, <1>2, <1>3 DEF setLimit

\* removeLimit deletes the filter of its own peer, its class and its entry, or nothing.
LEMMA RemoveLimitOwn ==
  ASSUME TcTypeOK, EntriesMatch, OwnClass, Entries, "classdel" \notin faults, NEW a, removeLimit(a)
  PROVE  /\ TcTypeOK' /\ EntriesMatch'
         /\ \/ UNCHANGED tcVars
            \/ \E l \in limits : \E f \in filters :
                 /\ l.ip = a /\ f.ip = a /\ f = [h |-> l.h, ip |-> l.ip]
                 /\ filters' = filters \ {f} /\ limits' = limits \ {l}
                 /\ classes' = classes \ {handleForIP(a)}
         /\ \A g \in filters : g.ip # a => g \in filters'
  <1>1. CASE UNCHANGED tcVars
    BY <1>1 DEF tcVars, TcTypeOK, EntriesMatch
  <1>2. CASE ~(UNCHANGED tcVars)
    <2>1. PICK l \in limits : l.ip = a /\ \E f \in filters : f.h = l.h /\ filters' = filters \ {f}
                              /\ \/ handleForIP(a) \notin classes
                                 \/ classes' = classes \ {handleForIP(a)} /\ limits' = limits \ {l}
      BY <1>2 DEF removeLimit
    <2>2. PICK f \in filters : f.h = l.h /\ filters' = filters \ {f}
                               /\ \/ handleForIP(a) \notin classes
                                  \/ classes' = classes \ {handleForIP(a)} /\ limits' = limits \ {l}
      BY <2>1
    <2> DEFINE g == [h |-> l.h, ip |-> l.ip]
    <2>3. g \in filters /\ g.h = l.h /\ g.ip = l.ip
      BY DEF EntriesMatch
    <2> HIDE DEF g
    <2>4. f = g
      BY <2>2, <2>3 DEF Entries
    <2>5. handleForIP(a) \in classes
      BY <2>1 DEF Entries
    <2>6. filters' = filters \ {f} /\ classes' = classes \ {handleForIP(a)} /\ limits' = limits \ {l}
      BY <2>2, <2>5
    <2>7. TcTypeOK'
      BY <2>6, Zenon DEF TcTypeOK
    <2>8. \A m \in limits' : m.h # l.h
      <3>1. \A m \in limits' : m \in limits /\ m # l
        BY <2>6
      <3>2. \A m \in limits' : handleForIP(m.ip) # handleForIP(l.ip)
        BY <3>1 DEF Entries
      <3>3. \A m \in limits' : [h |-> m.h, ip |-> m.ip] \in filters
        BY <3>1, Zenon DEF EntriesMatch
      <3>4. \A m \in limits' : m.ip # l.ip
        BY <3>2
      <3>5. ASSUME NEW m \in limits', m.h = l.h
            PROVE  FALSE
        <4> DEFINE k == [h |-> m.h, ip |-> m.ip]
        <4>1. k \in filters /\ k.h = g.h /\ k.ip = m.ip
          BY <2>3, <3>3, <3>5
        <4> HIDE DEF k
        <4>2. k = g
          BY <2>3, <4>1 DEF Entries
        <4> QED
          BY <2>3, <3>4, <4>1, <4>2
      <3> QED
        BY <3>5
    <2>9. EntriesMatch'
      <3> SUFFICES ASSUME NEW m \in limits' PROVE [h |-> m.h, ip |-> m.ip] \in filters'
        BY Zenon DEF EntriesMatch
      <3> DEFINE k == [h |-> m.h, ip |-> m.ip]
      <3>1. k \in filters /\ k.h = m.h
        BY <2>6 DEF EntriesMatch
      <3> HIDE DEF k
      <3>2. k # f
        BY <2>2, <2>8, <3>1
      <3>3. k \in filters'
        BY <2>6, <3>1, <3>2
      <3> QED
        BY <3>3 DEF k
    <2> QED
      BY <2>1, <2>3, <2>4, <2>6, <2>7, <2>9 DEF g
  <1> QED
    BY <1>1, <1>2

\* A peer that a caller holds keeps its filter: only the filter of a peer that left goes.
LEMMA NextFilter ==
  ASSUME AccInv, TcInv, "classdel" \notin faults, PartsInv, IsolationInv, FilterInv,
         OneCaller, SetFacts, [Next]_vars
  PROVE  FilterInv'
  <1>0. PICK p : Proc = {p}
    BY DEF OneCaller
  <1>t. /\ cur[p].ip \in Addr /\ cur[p].ip \in Nat /\ peer = [a \in Addr |-> peer[a]]
        /\ parts \subseteq {"ipp", "nf", "tc"}
    BY <1>0, IpamAssumption, Zenon DEF AccInv, IpamTypeOK
  <1> USE DEF poolVars, ipamVars, tcVars
  <1>1. ASSUME UNCHANGED tcVars, parts' \subseteq parts, running' => running,
               \A a \in Held' : a \in Held /\ peer'[a] = peer[a]
        PROVE  FilterInv'
    BY <1>1 DEF FilterInv, TcTypeOK, EntriesMatch, Filtered
  <1>2. ASSUME UNCHANGED <<tcVars, parts, running, peer>>
        PROVE  FilterInv'
    BY <1>1, <1>2 DEF Held
  <1>3. ASSUME NEW f, NilPanic(f)
        PROVE  FilterInv'
    BY <1>2, <1>3 DEF NilPanic
  <1>4. ASSUME NEW access, NEW rate, Alloc(p, access, rate) \/ \E a \in Addr : Set(p, a, access, rate)
        PROVE  FilterInv'
    BY <1>2, <1>3, <1>4 DEF Alloc, Set, BeginPolicy, PoolAlloc, PoolSet, vars
  <1>5. ASSUME NEW a \in Addr, Unset(p, a)
        PROVE  FilterInv'
    <2>1. CASE ~NilPanic("ipp") /\ PoolUnset(a)
      <3>1. UNCHANGED <<tcVars, parts, running>> /\ peer' = [peer EXCEPT ![a] = NoPeer]
        BY <1>5, <2>1 DEF Unset, PoolUnset, PoolUnsetRefused
      <3>2. \A b \in Held' : b \in Held /\ peer'[b] = peer[b]
        BY <1>t, <3>1 DEF Held
      <3> QED
        BY <1>1, <3>1, <3>2
    <2> QED
      BY <1>2, <1>3, <1>5, <2>1 DEF Unset
  <1>6. CASE ShutdownPool(p)
    BY <1>1, <1>3, <1>6 DEF ShutdownPool, PoolShutdown, Held, Goto
  <1>7. CASE Limit(p)
    <2> DEFINE a == cur[p].ip
               pol == [access |-> cur[p].access, rate |-> cur[p].rate]
    <2>1. ASSUME NEW ok \in BOOLEAN, "tc" \in parts, UNCHANGED <<parts, running>>,
                 setLimit(a, cur[p].rate, ok),
                 IF ok THEN peer' = [peer EXCEPT ![a] = pol] ELSE UNCHANGED peer
          PROVE  FilterInv'
      <3>1. /\ TcTypeOK' /\ EntriesMatch' /\ filters \subseteq filters'
            /\ ok /\ TcOn /\ cur[p].rate # 0 => \E f \in filters' : f.ip = a
        BY <1>t, <2>1, SetLimitKeeps DEF FilterInv, Filtered
      <3>2. pol.rate = cur[p].rate
        OBVIOUS
      <3> HIDE DEF pol
      <3>3. \A b \in Held' : \/ b \in Held /\ peer'[b] = peer[b]
                             \/ ok /\ b = a /\ peer'[b] = pol
        BY <1>t, <2>1 DEF Held
      <3>4. ASSUME running', NEW b \in Held', TcOn, peer'[b].rate # 0
            PROVE  \E f \in filters' : f.ip = b
        BY <2>1, <3>1, <3>2, <3>3, <3>4 DEF FilterInv, Filtered
      <3> QED
        BY <3>1, <3>4 DEF FilterInv, Filtered
    <2> QED
      BY <1>3, <1>7, <2>1, Zenon DEF Limit
  <1>8. CASE Unlimit(p)
    <2>1. CASE ~NilPanic("tc")
      <3>1. /\ removeLimit(cur[p].ip) /\ UNCHANGED <<parts, running, peer>> /\ "tc" \in parts
            /\ pc[p] = "unlimit"
        BY <1>8, <2>1 DEF Unlimit
      <3>2. TcTypeOK' /\ EntriesMatch' /\ \A g \in filters : g.ip # cur[p].ip => g \in filters'
        BY <3>1, RemoveLimitOwn DEF FilterInv, TcInv
      <3>3. running => cur[p].ip \notin Held
        BY <1>0, <3>1 DEF IsolationInv, Leaving
      <3> QED
        BY <3>1, <3>2, <3>3 DEF FilterInv, Filtered, Held
    <2> QED
      BY <1>3, <2>1
  <1>9. CASE ShutdownTc(p)
    <2>1. ~running /\ running' = running /\ "tc" \notin parts'
      BY <1>0, <1>9 DEF ShutdownTc, PartsInv, Stopping
    <2>2. TcTypeOK'
      BY <1>9, Zenon DEF ShutdownTc, TcCleanup, TcTypeOK, FilterInv
    <2> QED
      BY <2>1, <2>2 DEF FilterInv
  <1>10. CASE \/ IsolateQueue(p) \/ IsolateFlush(p) \/ Rollback(p)
              \/ Find(p) \/ DelQueue(p) \/ DelFlush(p) \/ ShutdownNfQueue(p)
    BY <1>2, <1>3, <1>10, Zenon
    DEF IsolateQueue, IsolateFlush, Rollback, PoolUnset, Find, DelQueue, DelFlush, ShutdownNfQueue
  <1>11. CASE ShutdownNfFlush(p)
    BY <1>1, <1>11 DEF ShutdownNfFlush, Held
  <1> QED
    BY <1>0, <1>2, <1>4, <1>5, <1>6, <1>7, <1>8, <1>9, <1>10, <1>11, Zenon DEF Next, Step, Exited, vars

-----------------------------------------------------------------------------
\* The invariant of one caller holds of the state New leaves behind.
LEMMA InitSeq ==
  ASSUME Init, "classdel" \notin faults
  PROVE  SeqInv
  <1>1. AccInv /\ TcInv /\ "classdel" \notin faults
    BY InitAcc, InitTc
  <1>2. NfInv
    <2>1. rules = <<>> /\ queue = <<>> /\ target = [q \in Proc |-> NoHandle]
          /\ pc = [q \in Proc |-> "idle"]
      BY DEF Init, NfInit
    <2>2. rules \in Seq([h : Handles, ip : Nat]) /\ Len(rules) = 0 /\ DOMAIN rules = {}
      BY <2>1
    <2>3. target \in [Proc -> Handles \cup {NoHandle}]
      BY <2>1
    <2>4. RulesInv
      BY <2>1, <2>2, NetFilterAssumption DEF RulesInv
    <2>5. QueueInv
      BY <2>1 DEF QueueInv
    <2> QED
      BY <2>3, <2>4, <2>5 DEF NfInv
  <1>3. Held = {}
    BY DEF Init, Held
  <1>4. PartsInv /\ IsolationInv
    BY <1>3 DEF Init, PoolInit, PartsInv, IsolationInv, Stopping, Leaving
  <1>5. FilterInv
    BY <1>3, TrafficControlAssumption
    DEF Init, TcInit, FilterInv, TcTypeOK, EntriesMatch, Reserved, ParentClass
  <1> QED
    BY <1>1, <1>2, <1>4, <1>5 DEF SeqInv

\* And every step preserves it.
LEMMA NextSeq ==
  ASSUME OneCaller, SetFacts, SeqInv, [Next]_vars
  PROVE  SeqInv'
  <1>1. faults' = faults
    BY DEF Next, vars
  <1> QED
    BY <1>1, NextAcc, NextTc, NextNf, NextParts, NextIsolation, NextFilter DEF SeqInv
=============================================================================
