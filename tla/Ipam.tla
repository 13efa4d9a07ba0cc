-------------------------------- MODULE Ipam --------------------------------
(***************************************************************************)
(* The IP address manager (ipam/ipam.go): it takes addresses from the      *)
(* pool, isolates peers with netfilter rules and limits their bandwidth.   *)
(*                                                                         *)
(* IPAM has no lock of its own.  Each call it makes to the pool or to the  *)
(* traffic control, which have one, is a step; the netfilter calls take    *)
(* the steps of module NetFilter.  Goroutines interleave between steps.    *)
(***************************************************************************)
EXTENDS AddressPool, NetFilter, TrafficControl

CONSTANTS DefaultPol, \* the default access policy, of New's configuration
          Access,     \* access policies that callers ask for
          Rate        \* rate limits that callers ask for, 0 for none

ASSUME IpamAssumption ==
  /\ DefaultPol \in {"InternetOnly", "AllowAll"}
  /\ Access \subseteq {"Default", "InternetOnly", "AllowAll"}
  /\ Addr \subseteq Nat /\ Rate \subseteq Nat

VARIABLES parts, \* the fields of IPAM that are not nil
          pc,    \* where each goroutine is; "idle" outside any method
          cur,   \* the address and policy each goroutine works on
          peer   \* the peers callers hold, with the policy promised to them

ipamVars == <<parts, pc, cur, peer>>
vars == <<poolVars, nfVars, tcVars, ipamVars, faults>>

Policies == [access : {"InternetOnly", "AllowAll"}, rate : Rate \cup {0}]

NoCall == [ip |-> ServerIP, access |-> DefaultPol, rate |-> 0]

NoPeer == [access |-> "none", rate |-> 0]

Held == {a \in Addr : peer[a] # NoPeer}

\* The goroutines that took an address and have not answered their caller yet.
Owning == {p \in Proc : pc[p] \in {"isolate", "isolateflush", "limit", "rollback"}}

InFlight == {cur[p].ip : p \in Owning}

-----------------------------------------------------------------------------
\* The state New leaves behind when it succeeds.
Init ==
  /\ PoolInit /\ NfInit /\ TcInit /\ faults \in FaultSets
  /\ parts = {"ipp", "nf", "tc"}
  /\ pc = [p \in Proc |-> "idle"]
  /\ cur = [p \in Proc |-> NoCall]
  /\ peer = [a \in Addr |-> NoPeer]

Goto(p, l) == pc' = [pc EXCEPT ![p] = l] /\ UNCHANGED cur

Return(p) ==
  /\ pc' = [pc EXCEPT ![p] = "idle"]
  /\ cur' = [cur EXCEPT ![p] = NoCall]

\* A method called on a field that Shutdown has set to nil.
NilPanic(f) ==
  /\ f \notin parts
  /\ died' = TRUE
  /\ UNCHANGED <<used, running, nfVars, tcVars, ipamVars>>

Granted(access) ==
  IF access = "Default" THEN DefaultPol ELSE access

\* allocate cannot let a peer out of the isolation of all; Set does not look.
Fallback(access) ==
  IF DefaultPol = "InternetOnly" THEN "InternetOnly" ELSE Granted(access)

\* The address is reserved; applyPolicy begins.
BeginPolicy(p, a, access, rate) ==
  /\ cur' = [cur EXCEPT ![p] = [ip |-> a, access |-> access, rate |-> rate]]
  /\ pc' = [pc EXCEPT ![p] = IF access = "InternetOnly" /\ DefaultPol = "AllowAll"
                            THEN "isolate" ELSE "limit"]
  /\ UNCHANGED <<parts, peer, nfVars, tcVars>>

\* Bound of the model: no new peer while the rules in the kernel, stale ones
\* included, and those on their way there reach MaxRules.
RoomForRules == Len(rules) + Len(queue) + Cardinality(Owning) < MaxRules

Alloc(p, access, rate) ==
  /\ ~died /\ pc[p] = "idle" /\ RoomForRules
  /\ \/ NilPanic("ipp")
     \/ /\ "ipp" \in parts
        /\ \/ \E a \in Addr : PoolAlloc(a) /\ BeginPolicy(p, a, Fallback(access), rate)
           \/ PoolFull /\ UNCHANGED vars

Set(p, a, access, rate) ==
  /\ ~died /\ pc[p] = "idle" /\ RoomForRules
  /\ \/ NilPanic("ipp")
     \/ /\ "ipp" \in parts
        /\ \/ PoolSet(a) /\ BeginPolicy(p, a, Granted(access), rate)
           \/ PoolSetRefused(a) /\ UNCHANGED vars

-----------------------------------------------------------------------------
\* applyPolicy: isolate, limit; on an error return the address to the pool.
IsolateQueue(p) ==
  /\ ~died /\ pc[p] = "isolate"
  /\ \/ NilPanic("nf")
     \/ /\ "nf" \in parts
        /\ IsolatePeerQueue(cur[p].ip)
        /\ Goto(p, "isolateflush")
        /\ UNCHANGED <<poolVars, tcVars, parts, peer>>

\* Mutant: the error of newIsolatePeerRule is dropped.
IsolateFlushUnchecked(p) ==
  /\ ~died /\ pc[p] = "isolateflush"
  /\ (\E ok \in BOOLEAN : IsolatePeerFlush(ok)) /\ Goto(p, "limit")
  /\ UNCHANGED <<poolVars, tcVars, parts, peer>>

IsolateFlush(p) ==
  /\ ~died /\ pc[p] = "isolateflush"
  /\ \E ok \in BOOLEAN : IsolatePeerFlush(ok) /\ Goto(p, IF ok THEN "limit" ELSE "rollback")
  /\ UNCHANGED <<poolVars, tcVars, parts, peer>>

Limit(p) ==
  /\ ~died /\ pc[p] = "limit"
  /\ \/ NilPanic("tc")
     \/ /\ "tc" \in parts
        /\ UNCHANGED <<poolVars, nfVars, parts>>
        /\ \/ /\ setLimit(cur[p].ip, cur[p].rate, TRUE)
              /\ peer' = [peer EXCEPT ![cur[p].ip] = [access |-> cur[p].access, rate |-> cur[p].rate]]
              /\ Return(p)
           \/ /\ setLimit(cur[p].ip, cur[p].rate, FALSE)
              /\ UNCHANGED peer
              /\ Goto(p, "rollback")

\* Mutant: the address is not returned to the pool.
RollbackForgotten(p) ==
  /\ ~died /\ pc[p] = "rollback"
  /\ Return(p)
  /\ UNCHANGED <<poolVars, nfVars, tcVars, parts, peer>>

Rollback(p) ==
  /\ ~died /\ pc[p] = "rollback"
  /\ \/ NilPanic("ipp")
     \/ /\ "ipp" \in parts
        /\ \/ PoolUnset(cur[p].ip)
           \/ PoolUnsetRefused(cur[p].ip) /\ UNCHANGED poolVars
        /\ Return(p)
        /\ UNCHANGED <<nfVars, tcVars, parts, peer>>

-----------------------------------------------------------------------------
\* free: the address goes back first, then its limit and its rule are removed,
\* whether or not that works.  Callers give back what they hold, or an address
\* that nobody has.
Unset(p, a) ==
  /\ ~died /\ pc[p] = "idle"
  /\ a \in Held \/ a \notin used
  /\ \/ NilPanic("ipp")
     \/ /\ "ipp" \in parts
        /\ UNCHANGED <<nfVars, tcVars, parts>>
        /\ \/ /\ PoolUnset(a)
              /\ cur' = [cur EXCEPT ![p].ip = a]
              /\ peer' = [peer EXCEPT ![a] = NoPeer]
              /\ pc' = [pc EXCEPT ![p] = "unlimit"]
           \/ PoolUnsetRefused(a) /\ UNCHANGED <<poolVars, pc, cur, peer>>

Unlimit(p) ==
  /\ ~died /\ pc[p] = "unlimit"
  /\ \/ NilPanic("tc")
     \/ /\ "tc" \in parts
        /\ removeLimit(cur[p].ip)
        /\ Goto(p, "find")
        /\ UNCHANGED <<poolVars, nfVars, parts, peer>>

\* Mutant: free does not look for the peer's rule.
FindSkipped(p) ==
  /\ ~died /\ pc[p] = "find"
  /\ Return(p)
  /\ UNCHANGED <<poolVars, nfVars, tcVars, parts, peer>>

Find(p) ==
  /\ ~died /\ pc[p] = "find"
  /\ \/ NilPanic("nf")
     \/ /\ "nf" \in parts
        /\ \E found \in BOOLEAN :
             /\ FindRule(p, cur[p].ip, found)
             /\ IF found THEN Goto(p, "delrule") ELSE Return(p)
        /\ UNCHANGED <<poolVars, tcVars, parts, peer>>

DelQueue(p) ==
  /\ ~died /\ pc[p] = "delrule"
  /\ RemoveRuleQueue(p)
  /\ Goto(p, "delflush")
  /\ UNCHANGED <<poolVars, tcVars, parts, peer>>

DelFlush(p) ==
  /\ ~died /\ pc[p] = "delflush"
  /\ RemoveRuleFlush
  /\ Return(p)
  /\ UNCHANGED <<poolVars, tcVars, parts, peer>>

-----------------------------------------------------------------------------
\* Shutdown: the pool, then netfilter with empty tables, then traffic control.
ShutdownPool(p) ==
  /\ ~died /\ pc[p] = "idle"
  /\ \/ NilPanic("ipp")
     \/ /\ "ipp" \in parts
        /\ PoolShutdown
        /\ parts' = parts \ {"ipp"}
        /\ Goto(p, "stopnf")
        /\ UNCHANGED <<nfVars, tcVars, peer>>

ShutdownNfQueue(p) ==
  /\ ~died /\ pc[p] = "stopnf"
  /\ NfReinitQueue
  /\ Goto(p, "stopflush")
  /\ UNCHANGED <<poolVars, tcVars, parts, peer>>

ShutdownNfFlush(p) ==
  /\ ~died /\ pc[p] = "stopflush"
  /\ \E ok \in BOOLEAN : Flush(ok) /\ UNCHANGED target
  /\ parts' = parts \ {"nf"}
  /\ Goto(p, "stoptc")
  /\ UNCHANGED <<poolVars, tcVars, peer>>

ShutdownTc(p) ==
  /\ ~died /\ pc[p] = "stoptc"
  /\ TcCleanup \/ ("cleanup" \in faults /\ UNCHANGED tcVars)
  /\ parts' = parts \ {"tc"}
  /\ Return(p)
  /\ UNCHANGED <<poolVars, nfVars, peer>>

Exited == died /\ UNCHANGED vars

Step(p) ==
  \/ IsolateQueue(p) \/ IsolateFlush(p) \/ Limit(p) \/ Rollback(p)
  \/ Unlimit(p) \/ Find(p) \/ DelQueue(p) \/ DelFlush(p)
  \/ ShutdownNfQueue(p) \/ ShutdownNfFlush(p) \/ ShutdownTc(p)

Next ==
  /\ UNCHANGED faults
  /\ \/ \E p \in Proc :
          \/ \E access \in Access, rate \in Rate :
               \/ Alloc(p, access, rate)
               \/ \E a \in Addr : Set(p, a, access, rate)
          \/ \E a \in Addr : Unset(p, a)
          \/ ShutdownPool(p)
          \/ Step(p)
     \/ Exited

Spec == Init /\ [][Next]_vars

-----------------------------------------------------------------------------
IpamTypeOK ==
  /\ used \subseteq Addr /\ running \in BOOLEAN /\ died \in BOOLEAN
  /\ parts \subseteq {"ipp", "nf", "tc"}
  /\ pc \in [Proc -> {"idle", "isolate", "isolateflush", "limit", "rollback",
                     "unlimit", "find", "delrule", "delflush",
                     "stopnf", "stopflush", "stoptc"}]
  /\ cur \in [Proc -> [ip : Addr, access : {"InternetOnly", "AllowAll"}, rate : Rate \cup {0}]]
  /\ peer \in [Addr -> Policies \cup {NoPeer}]

\* Every variable has its type; in particular a policy is resolved to one of
\* the two that can be applied before an address is taken, and no goroutine
\* refers to a rule outside the bounds of the model.
TypeOK == IpamTypeOK /\ NfTypeOK /\ TcTypeOK

\* No address is leaked or handed out twice: whatever fails in applyPolicy or
\* in free, the pool's used addresses are the server's, those of the peers that
\* callers hold, and those of the calls in progress, all different.
AddressAccounting ==
  running =>
    /\ used = {ServerIP} \cup Held \cup InFlight
    /\ ServerIP \notin Held \cup InFlight
    /\ Held \cap InFlight = {}
    /\ \A p, q \in Owning : cur[p].ip = cur[q].ip => p = q

\* The partial failures of setLimit and removeLimit leave classes and filters
\* behind, but never a filter that directs traffic to a class that does not
\* exist, to the class of another filter, or to the default or parent class.
FiltersHaveOwnClass ==
  "tc" \in parts =>
    /\ \A f \in filters : handleForIP(f.ip) \in classes \ Reserved
    /\ \A f, g \in filters : handleForIP(f.ip) = handleForIP(g.ip) => f = g
    /\ TcOn => Reserved \subseteq classes

\* For as long as its caller holds it, a peer that was granted internet access only
\* is isolated from its neighbours, and a peer with a rate limit has a filter that
\* sends its traffic to its class.  The tables have their types.
PromisesInForce ==
  /\ TypeOK
  /\ running =>
       \A a \in Held :
         /\ peer[a].access = "InternetOnly" => DefaultPol = "InternetOnly" \/ Isolated(a)
         /\ TcOn /\ peer[a].rate # 0 => Filtered(a)

\* On a healthy kernel, between calls, the tables say of every address exactly what
\* its peer was promised: one rule per isolated peer, one class and one filter per
\* limited peer, and nothing for an address that nobody holds.  Nothing is left after
\* Shutdown.  So sequential calls never fail in applyPolicy: nothing an earlier peer
\* left behind, and no clash of class handles, has the next limit refused.
TablesExact ==
  Healthy =>
    LET isolated == {a \in Held : peer[a].access = "InternetOnly" /\ DefaultPol = "AllowAll"}
        limited  == {a \in Held : peer[a].rate # 0 /\ TcOn}
    IN  /\ parts = {"ipp", "nf", "tc"} /\ (\A p \in Proc : pc[p] = "idle") =>
             /\ {rules[i].ip : i \in DOMAIN rules} = isolated
             /\ Len(rules) = Cardinality(isolated)
             /\ {f.ip : f \in filters} = limited
             /\ Cardinality(filters) = Cardinality(limited)
             /\ {[h |-> l.h, ip |-> l.ip] : l \in limits} = filters
             /\ classes = {handleForIP(a) : a \in limited} \cup (IF TcOn THEN Reserved ELSE {})
        /\ parts = {} /\ ~died => rules = <<>> /\ classes = {} /\ filters = {}
        /\ \A p \in Proc : pc[p] # "rollback"
=============================================================================
