-------------------------- MODULE IpamTables_proof --------------------------
(***************************************************************************)
(* What the kernel's tables hold when one caller at a time uses the        *)
(* address manager: the rule and the limit of every peer it was promised   *)
(* to (Promises), and on a healthy kernel nothing else (Tables).  The      *)
(* first follows from the invariant SeqInv of Ipam_proof; the second needs *)
(* the invariant ExactInv, which bounds the tables from above.             *)
(***************************************************************************)
EXTENDS Ipam_proof

(***************************************************************************)
(* On a healthy kernel nothing else is in the tables.  Beyond the rules    *)
(* and filters of the peers that callers hold there are at most those of   *)
(* the peer whose call is in progress.                                     *)
(***************************************************************************)
\* The class handles of the peers differ from each other and from the two that
\* are taken: a subnet of at most 2^12 addresses that avoids 0x999 and 1.
DistinctHandles ==
  /\ \A a, b \in Addr \ {ServerIP} : handleForIP(a) = handleForIP(b) => a = b
  /\ \A a \in Addr \ {ServerIP} : handleForIP(a) \notin Reserved

OnlyRules ==
  /\ \A i, j \in DOMAIN rules : rules[i].ip = rules[j].ip => i = j
  /\ \A i \in DOMAIN rules :
       \/ rules[i].ip \in Held /\ NeedsRule(peer[rules[i].ip].access)
       \/ \A p \in Proc : /\ rules[i].ip = cur[p].ip
                          /\ \/ pc[p] = "limit" /\ NeedsRule(cur[p].access)
                             \/ pc[p] \in Leaving

OnlyFilters ==
  \A f \in filters :
    \/ f.ip \in Held /\ peer[f.ip].rate # 0
    \/ \A p \in Proc : pc[p] = "unlimit" /\ f.ip = cur[p].ip

\* Every filter has an entry and every class a filter.
OnlyTables ==
  /\ IsFiniteSet(filters)
  /\ \A f \in filters : \E l \in limits : f = [h |-> l.h, ip |-> l.ip]
  /\ \A c \in classes : (\E f \in filters : c = handleForIP(f.ip)) \/ (TcOn /\ c \in Reserved)
  /\ ~TcOn => limits = {} /\ filters = {}

\* No call fails, and the only call that outlives the pool is Shutdown.
CallsInv ==
  \A p \in Proc :
    /\ pc[p] # "rollback"
    /\ ~running => pc[p] \in Stopping \cup {"idle"}
    /\ pc[p] \in {"isolate", "isolateflush"} => NeedsRule(cur[p].access)

RulesExact ==
  /\ running => OnlyRules
  /\ "nf" \notin parts => rules = <<>>

FiltersExact ==
  /\ running => OnlyFilters
  /\ "tc" \in parts => OnlyTables
  /\ "tc" \notin parts => classes = {} /\ filters = {}

ExactInv == CallsInv /\ RulesExact /\ FiltersExact

\* setLimit of a peer whose class handle is free succeeds on a healthy kernel.
LEMMA SetLimitExact ==
  ASSUME SetFacts, TcTypeOK, EntriesMatch, OnlyTables, Healthy, NEW a \in Nat, NEW rate, NEW ok \in BOOLEAN,
         \A f \in filters : handleForIP(f.ip) # handleForIP(a), handleForIP(a) \notin Reserved,
         setLimit(a, rate, ok)
  PROVE  /\ ok /\ OnlyTables'
         /\ \A f \in filters' : f \in filters \/ (f.ip = a /\ rate # 0)
  <1>1. ~HasLimit(a)
    <2>1. ASSUME NEW l \in limits, l.ip = a PROVE FALSE
      <3> DEFINE f == [h |-> l.h, ip |-> l.ip]
      <3>1. f \in filters /\ f.ip = a
        BY <2>1 DEF EntriesMatch
      <3> QED
        BY <3>1
    <2> QED
      BY <2>1 DEF HasLimit
  <1>2. handleForIP(a) \notin classes
    BY DEF OnlyTables
  <1>3. CASE UNCHANGED tcVars /\ ok
    BY <1>3 DEF tcVars, OnlyTables
  <1>4. ASSUME NEW h \in FilterHandle, AddFilter(a, h), classes' = classes \cup {handleForIP(a)},
               TcOn, rate # 0, ok,
               NEW f \in filters', f.ip = a, limits' = limits \cup {[ip |-> a, h |-> f.h]}
        PROVE  OnlyTables' /\ \A g \in filters' : g \in filters \/ (g.ip = a /\ rate # 0)
    <2> DEFINE new == [h |-> h, ip |-> a]  e == [ip |-> a, h |-> f.h]
    <2>1. filters' = filters \cup {new} /\ new.ip = a /\ new.h = h
      BY <1>4 DEF AddFilter
    <2>2. f = new
      BY <1>4, <2>1
    <2>3. e \in limits' /\ new = [h |-> e.h, ip |-> e.ip] /\ limits \subseteq limits'
      BY <1>4, <2>1, <2>2
    <2> HIDE DEF new, e
    <2>4. \A g \in filters' : \E l \in limits' : g = [h |-> l.h, ip |-> l.ip]
      BY <2>1, <2>3 DEF OnlyTables
    <2>5. \A c \in classes' : (\E g \in filters' : c = handleForIP(g.ip)) \/ (TcOn /\ c \in Reserved)
      BY <1>4, <2>1 DEF OnlyTables
    <2>6. IsFiniteSet(filters')
      BY <2>1 DEF SetFacts, OnlyTables
    <2> QED
      BY <1>4, <2>1, <2>4, <2>5, <2>6 DEF OnlyTables
  <1> QED
    BY <1>1, <1>2, <1>3, <1>4 DEF setLimit, Healthy

\* removeLimit leaves no filter of its peer on a healthy kernel.
LEMMA RemoveLimitExact ==
  ASSUME SetFacts, TcTypeOK, EntriesMatch, OwnClass, Entries, OnlyTables, Healthy, NEW a, removeLimit(a)
  PROVE  /\ OnlyTables'
         /\ \A f \in filters' : f \in filters /\ f.ip # a
  <1>1. CASE ~TcOn \/ ~HasLimit(a)
    <2>1. UNCHANGED tcVars
      BY <1>1 DEF removeLimit, HasLimit
    <2>2. \A f \in filters : f.ip # a
      <3>1. ASSUME NEW f \in filters PROVE f.ip # a
        <4>1. PICK l \in limits : f = [h |-> l.h, ip |-> l.ip]
          BY DEF OnlyTables
        <4>2. f.ip = l.ip /\ TcOn
          BY <4>1 DEF OnlyTables
        <4> QED
          BY <1>1, <4>2 DEF HasLimit
      <3> QED
        BY <3>1
    <2> QED
      BY <2>1, <2>2 DEF tcVars, OnlyTables
  <1>2. CASE TcOn /\ HasLimit(a)
    <2>1. PICK l \in limits :
            /\ l.ip = a
            /\ \/ (\A f \in filters : f.h # l.h) \/ "filterdel" \in faults
               \/ /\ \E f \in filters : f.h = l.h /\ filters' = filters \ {f}
                  /\ \/ handleForIP(a) \notin classes \/ "classdel" \in faults
                     \/ classes' = classes \ {handleForIP(a)} /\ limits' = limits \ {l}
      BY <1>2 DEF removeLimit
    <2> DEFINE g == [h |-> l.h, ip |-> l.ip]
    <2>2. g \in filters /\ g.h = l.h /\ g.ip = a
      BY <2>1 DEF EntriesMatch
    <2>3. handleForIP(a) \in classes
      BY <2>1 DEF Entries
    <2>4. \A k \in limits : [h |-> k.h, ip |-> k.ip] # g => k # l
      OBVIOUS
    <2> HIDE DEF g
    <2>5. filters' = filters \ {g} /\ classes' = classes \ {handleForIP(a)} /\ limits' = limits \ {l}
      BY <2>1, <2>2, <2>3 DEF Entries, Healthy
    <2>6. \A f \in filters' : f \in filters /\ f # g /\ handleForIP(f.ip) # handleForIP(a)
      BY <2>2, <2>5 DEF OwnClass
    <2>7. \A f \in filters' : \E k \in limits' : f = [h |-> k.h, ip |-> k.ip]
      BY <2>4, <2>5, <2>6 DEF OnlyTables
    <2>8. \A c \in classes' : (\E f \in filters' : c = handleForIP(f.ip)) \/ (TcOn /\ c \in Reserved)
      BY <2>2, <2>5 DEF OnlyTables
    <2>9. IsFiniteSet(filters')
      BY <2>5 DEF SetFacts, OnlyTables
    <2> QED
      BY <1>2, <2>6, <2>7, <2>8, <2>9 DEF OnlyTables
  <1> QED
    BY <1>1, <1>2

\* The class handle of the peer that is about to be limited is free.
LEMMA HandleFree ==
  ASSUME SeqInv, ExactInv, DistinctHandles, NEW p \in Proc, pc[p] = "limit", running
  PROVE  /\ handleForIP(cur[p].ip) \notin Reserved
         /\ \A f \in filters : handleForIP(f.ip) # handleForIP(cur[p].ip)
         /\ cur[p].ip \in Addr /\ cur[p].ip \notin Held
  <1>1. p \in Owning /\ cur[p].ip \in InFlight
    BY DEF Owning, InFlight
  <1>2. cur[p].ip \in Addr \ {ServerIP} /\ cur[p].ip \notin Held /\ Held \subseteq Addr \ {ServerIP}
    BY <1>1 DEF SeqInv, AccInv, AddressAccounting, IpamTypeOK, Held
  <1>3. \A f \in filters : f.ip \in Held
    BY DEF ExactInv, FiltersExact, OnlyFilters
  <1> QED
    BY <1>2, <1>3 DEF DistinctHandles

\* No call of applyPolicy fails on a healthy kernel.
LEMMA NextCalls ==
  ASSUME OneCaller, SetFacts, DistinctHandles, Healthy, SeqInv, ExactInv, [Next]_vars
  PROVE  CallsInv'
  <1>0. PICK p : Proc = {p}
    BY DEF OneCaller
  <1>t. /\ pc = [q \in Proc |-> pc[q]] /\ cur = [q \in Proc |-> cur[q]]
        /\ cur[p].ip \in Addr /\ cur[p].ip \in Nat /\ IpamTypeOK
        /\ CallsInv /\ NfInv /\ PartsInv
    BY <1>0, IpamAssumption, Zenon DEF SeqInv, ExactInv, AccInv, IpamTypeOK
  <1> USE DEF poolVars, ipamVars, nfVars
  <1>1. CASE UNCHANGED <<pc, cur, running>>
    BY <1>t, <1>1 DEF CallsInv
  <1>2. ASSUME UNCHANGED <<cur, running>>, NEW l, pc' = [pc EXCEPT ![p] = l],
               \/ l \in {"idle"} \cup Stopping
               \/ running /\ l # "rollback" /\ (l \in {"isolate", "isolateflush"} => NeedsRule(cur[p].access))
        PROVE  CallsInv'
    <2>1. pc'[p] = l
      BY <1>0, <1>t, <1>2
    <2> QED
      BY <1>0, <1>2, <2>1 DEF CallsInv, Stopping
  <1>3. ASSUME NEW f, NilPanic(f)
        PROVE  CallsInv'
    BY <1>1, <1>3 DEF NilPanic
  <1>4. ASSUME pc' = [pc EXCEPT ![p] = "idle"]
        PROVE  CallsInv'
    <2>1. pc'[p] = "idle"
      BY <1>0, <1>t, <1>4
    <2> QED
      BY <1>0, <2>1 DEF CallsInv
  <1>5. ASSUME NEW a \in Addr, NEW access, NEW rate, PoolAlloc(a), BeginPolicy(p, a, access, rate)
        PROVE  CallsInv'
    <2> DEFINE c == [ip |-> a, access |-> access, rate |-> rate]
    <2>1. running' = running /\ running
      BY <1>5 DEF PoolAlloc
    <2>2. cur'[p] = c /\ c.access = access
      BY <1>0, <1>t, <1>5 DEF BeginPolicy
    <2>3. pc'[p] = IF NeedsRule(access) THEN "isolate" ELSE "limit"
      BY <1>0, <1>t, <1>5 DEF BeginPolicy, NeedsRule
    <2> HIDE DEF c
    <2> QED
      BY <1>0, <2>1, <2>2, <2>3 DEF CallsInv
  <1>6. ASSUME NEW access, NEW rate, Alloc(p, access, rate) \/ \E a \in Addr : Set(p, a, access, rate)
        PROVE  CallsInv'
    BY <1>1, <1>3, <1>5, <1>6 DEF Alloc, Set, PoolSet, vars
  <1>7. ASSUME NEW a \in Addr, Unset(p, a)
        PROVE  CallsInv'
    <2>1. CASE PoolUnset(a) /\ pc' = [pc EXCEPT ![p] = "unlimit"]
      <3>1. pc'[p] = "unlimit" /\ running' = running /\ running
        BY <1>0, <1>t, <2>1 DEF PoolUnset
      <3> QED
        BY <1>0, <3>1 DEF CallsInv
    <2> QED
      BY <1>1, <1>3, <1>7, <2>1 DEF Unset
  <1>8. CASE ShutdownPool(p)
    <2>1. CASE Goto(p, "stopnf")
      <3>1. pc'[p] = "stopnf"
        BY <1>0, <1>t, <2>1 DEF Goto
      <3> QED
        BY <1>0, <3>1 DEF CallsInv, Stopping
    <2> QED
      BY <1>3, <1>8, <2>1 DEF ShutdownPool
  <1>10. CASE IsolateQueue(p) /\ running
    BY <1>0, <1>t, <1>2, <1>3, <1>10, Zenon DEF IsolateQueue, Goto, CallsInv
  <1>11. CASE IsolateFlush(p) /\ running
    <2>1. PICK ok \in BOOLEAN : IsolatePeerFlush(ok) /\ Goto(p, IF ok THEN "limit" ELSE "rollback")
      BY <1>11 DEF IsolateFlush
    <2>2. RulesInv /\ queue = <<AddMessage(cur[p].ip)>> /\ Len(rules) < MaxRules
          /\ \A q \in Proc : target[q] = NoHandle
      BY <1>0, <1>t, <1>11 DEF NfInv, QueueInv, RulesInv, IsolateFlush
    <2>3. ok
      BY <2>1, <2>2, FlushAdd DEF IsolatePeerFlush, Healthy
    <2> QED
      BY <1>2, <1>11, <2>1, <2>3, Zenon DEF IsolateFlush, Goto
  <1>12. CASE Limit(p) /\ running
    <2>1. ASSUME setLimit(cur[p].ip, cur[p].rate, FALSE), "tc" \in parts
          PROVE  FALSE
      <3>1. /\ handleForIP(cur[p].ip) \notin Reserved
            /\ \A f \in filters : handleForIP(f.ip) # handleForIP(cur[p].ip)
        BY <1>0, <1>12, HandleFree DEF Limit
      <3>2. TcTypeOK /\ EntriesMatch /\ OnlyTables
        BY <2>1 DEF SeqInv, FilterInv, ExactInv, FiltersExact
      <3> QED
        BY <1>t, <2>1, <3>1, <3>2, SetLimitExact, Zenon
    <2> QED
      BY <1>3, <1>4, <1>12, <2>1, Zenon DEF Limit, Return
  <1>13. CASE Rollback(p)
    BY <1>0, <1>t, <1>13 DEF Rollback, CallsInv
  <1>14. CASE (Unlimit(p) \/ Find(p) \/ DelQueue(p)) /\ running
    BY <1>2, <1>3, <1>4, <1>14, Zenon DEF Unlimit, Find, DelQueue, Goto, Return
  <1>15. CASE DelFlush(p) \/ ShutdownTc(p)
    BY <1>4, <1>15 DEF DelFlush, ShutdownTc, Return
  <1>16. CASE ShutdownNfQueue(p) \/ ShutdownNfFlush(p)
    BY <1>2, <1>16 DEF ShutdownNfQueue, ShutdownNfFlush, Goto, Stopping
  <1>17. CASE \/ IsolateQueue(p) \/ IsolateFlush(p) \/ Limit(p) \/ Unlimit(p) \/ Find(p) \/ DelQueue(p)
    <2>1. running
      BY <1>0, <1>t, <1>17, Zenon
      DEF CallsInv, Stopping, IsolateQueue, IsolateFlush, Limit, Unlimit, Find, DelQueue
    <2> QED
      BY <1>10, <1>11, <1>12, <1>14, <1>17, <2>1
  <1> QED
    BY <1>0, <1>1, <1>6, <1>7, <1>8, <1>13, <1>15, <1>16, <1>17, Zenon DEF Next, Step, Exited, vars

\* The rules stay those of the peers that callers hold and of the call in progress.
LEMMA NextRules ==
  ASSUME OneCaller, SetFacts, Healthy, SeqInv, ExactInv, CallsInv', [Next]_vars
  PROVE  RulesExact'
  <1>0. PICK p : Proc = {p}
    BY Zenon DEF OneCaller
  <1>t. /\ pc = [q \in Proc |-> pc[q]] /\ cur = [q \in Proc |-> cur[q]]
        /\ peer = [a \in Addr |-> peer[a]] /\ cur[p].ip \in Addr /\ cur[p].ip \in Nat
        /\ cur[p].access \in {"InternetOnly", "AllowAll"} /\ IpamTypeOK
        /\ CallsInv /\ NfInv /\ PartsInv
    BY <1>0, IpamAssumption, Zenon DEF SeqInv, ExactInv, AccInv, IpamTypeOK
  <1>x. (running => OnlyRules) /\ ("nf" \notin parts => rules = <<>>)
    BY DEF ExactInv, RulesExact
  <1> DEFINE Own(i) == rules[i].ip \in Held /\ NeedsRule(peer[rules[i].ip].access)
  <1>y. running /\ pc[p] \notin {"limit"} \cup Leaving => \A i \in DOMAIN rules : Own(i)
    BY <1>0, <1>x DEF OnlyRules
  <1> USE DEF poolVars, ipamVars, nfVars, RulesExact
  <1>1. ASSUME UNCHANGED <<peer, pc, cur, rules, parts>>, running' => running
        PROVE  RulesExact'
    BY <1>x, <1>1 DEF OnlyRules, Held
  <1>2. ASSUME UNCHANGED <<peer, rules, parts>>, running' => running,
               running => \A i \in DOMAIN rules : Own(i)
        PROVE  RulesExact'
    BY <1>x, <1>2 DEF OnlyRules, Held
  <1>3. ASSUME UNCHANGED <<peer, rules, parts, cur>>, running' => running, NEW l \in Leaving,
               pc[p] \in Leaving, pc' = [pc EXCEPT ![p] = l]
        PROVE  RulesExact'
    <2>1. pc'[p] = l /\ Held' = Held
      BY <1>0, <1>t, <1>3 DEF Held
    <2> QED
      BY <1>0, <1>x, <1>3, <2>1 DEF OnlyRules
  <1>4. ASSUME NEW f, NilPanic(f)
        PROVE  RulesExact'
    BY <1>1, <1>4 DEF NilPanic
  <1>5. ASSUME NEW access, NEW rate, Alloc(p, access, rate) \/ \E a \in Addr : Set(p, a, access, rate)
        PROVE  RulesExact'
    <2>1. pc[p] \notin {"limit"} \cup Leaving
      BY <1>5 DEF Alloc, Set, Leaving
    <2> HIDE DEF Own
    <2> QED
      BY <1>1, <1>2, <1>4, <1>5, <1>y, <2>1 DEF Alloc, Set, PoolSet, PoolAlloc, BeginPolicy, vars
  <1>6. ASSUME NEW a \in Addr, Unset(p, a)
        PROVE  RulesExact'
    <2>1. CASE PoolUnset(a) /\ ~NilPanic("ipp")
      <3>1. /\ UNCHANGED <<rules, parts>> /\ running' = running /\ peer' = [peer EXCEPT ![a] = NoPeer]
            /\ pc' = [pc EXCEPT ![p] = "unlimit"] /\ cur' = [cur EXCEPT ![p].ip = a] /\ pc[p] = "idle"
        BY <1>6, <2>1 DEF Unset, PoolUnset, PoolUnsetRefused
      <3>2. pc'[p] = "unlimit" /\ cur'[p].ip = a /\ Held' = Held \ {a}
        BY <1>0, <1>t, <3>1 DEF Held, IpamTypeOK
      <3>3. \A b \in Held' : peer'[b] = peer[b]
        BY <1>t, <3>1, <3>2 DEF Held
      <3>4. running => \A i \in DOMAIN rules : Own(i)
        BY <1>y, <3>1 DEF Leaving
      <3> QED
        BY <1>0, <1>x, <3>1, <3>2, <3>3, <3>4 DEF OnlyRules, Leaving
    <2> QED
      BY <1>1, <1>4, <1>6, <2>1 DEF Unset
  <1>7. CASE ShutdownPool(p)
    <2>1. CASE ~NilPanic("ipp")
      <3>1. running' = FALSE /\ rules' = rules /\ parts' = parts \ {"ipp"}
        BY <1>7, <2>1 DEF ShutdownPool, PoolShutdown
      <3> QED
        BY <1>x, <3>1
    <2> QED
      BY <1>4, <2>1
  <1>8. CASE IsolateQueue(p)
    <2>1. pc[p] \notin {"limit"} \cup Leaving
      BY <1>8 DEF IsolateQueue, Leaving
    <2> HIDE DEF Own
    <2> QED
      BY <1>2, <1>4, <1>8, <1>y, <2>1 DEF IsolateQueue, IsolatePeerQueue
  <1>9. CASE IsolateFlush(p)
    <2>1. PICK ok \in BOOLEAN : IsolatePeerFlush(ok) /\ Goto(p, IF ok THEN "limit" ELSE "rollback")
      BY <1>9 DEF IsolateFlush
    <2>2. pc[p] = "isolateflush" /\ running /\ parts' = parts /\ peer' = peer /\ cur' = cur
          /\ "nf" \in parts /\ Held' = Held
      BY <1>0, <1>t, <1>9, <2>1 DEF IsolateFlush, CallsInv, PartsInv, Stopping, Goto, Held
    <2>3. RulesInv /\ queue = <<AddMessage(cur[p].ip)>> /\ Len(rules) < MaxRules
          /\ \A q \in Proc : target[q] = NoHandle
      BY <1>0, <1>t, <2>2 DEF NfInv, QueueInv, RulesInv
    <2>4. ok /\ \E h \in Handles \ Installed(rules) : rules' = Append(rules, [h |-> h, ip |-> cur[p].ip])
      BY <2>1, <2>3, FlushAdd, Zenon DEF IsolatePeerFlush, Healthy
    <2>5. PICK h \in Handles \ Installed(rules) : rules' = Append(rules, [h |-> h, ip |-> cur[p].ip])
      BY <2>4
    <2>6. /\ DOMAIN rules = 1..Len(rules) /\ Len(rules) \in Nat
          /\ DOMAIN rules' = 1..(Len(rules) + 1)
          /\ \A i \in DOMAIN rules : rules'[i] = rules[i]
          /\ rules'[Len(rules) + 1].ip = cur[p].ip
      BY <1>t, <2>3, <2>5, RuleAdded
    <2>7. cur[p].ip \notin Held
      <3>1. p \in Owning /\ cur[p].ip \in InFlight
        BY <1>0, <2>2 DEF Owning, InFlight
      <3> QED
        BY <2>2, <3>1 DEF SeqInv, AccInv, AddressAccounting
    <2>8. \A i \in DOMAIN rules : Own(i)
      BY <1>y, <2>2 DEF Leaving
    <2>9. pc'[p] = "limit" /\ NeedsRule(cur[p].access)
      BY <1>0, <1>t, <2>1, <2>2, <2>4 DEF Goto, CallsInv
    <2>10. \A i \in DOMAIN rules' : i \in DOMAIN rules \/ i = Len(rules) + 1
      BY <2>6
    <2>11. \A i, j \in DOMAIN rules' : rules'[i].ip = rules'[j].ip => i = j
      BY <1>x, <2>2, <2>6, <2>7, <2>8, <2>10 DEF OnlyRules
    <2>12. \A i \in DOMAIN rules' :
             \/ rules'[i].ip \in Held' /\ NeedsRule(peer'[rules'[i].ip].access)
             \/ \A q \in Proc : rules'[i].ip = cur'[q].ip /\ pc'[q] = "limit" /\ NeedsRule(cur'[q].access)
      BY <1>0, <2>2, <2>6, <2>8, <2>9, <2>10
    <2> QED
      BY <2>2, <2>11, <2>12 DEF OnlyRules
  <1>10. CASE Limit(p)
    <2> DEFINE a == cur[p].ip
               pol == [access |-> cur[p].access, rate |-> cur[p].rate]
    <2>1. CASE /\ UNCHANGED <<poolVars, nfVars, parts>> /\ Return(p)
               /\ peer' = [peer EXCEPT ![a] = pol]
      <3>1. pc[p] = "limit" /\ running' = running /\ rules' = rules
            /\ running
        BY <1>0, <1>t, <1>10, <2>1 DEF Limit, CallsInv, Stopping
      <3>2. pol # NoPeer /\ pol.access = cur[p].access
        BY <1>t DEF NoPeer
      <3> HIDE DEF pol
      <3>3. Held \subseteq Held' /\ a \in Held' /\ peer'[a] = pol /\ \A b \in Held : b # a => peer'[b] = peer[b]
        BY <1>t, <2>1, <3>2 DEF Held
      <3>4. a \notin Held
        <4>1. p \in Owning /\ a \in InFlight
          BY <1>0, <3>1 DEF Owning, InFlight
        <4> QED
          BY <3>1, <4>1 DEF SeqInv, AccInv, AddressAccounting
      <3>5. \A i \in DOMAIN rules : Own(i) \/ (rules[i].ip = a /\ NeedsRule(cur[p].access))
        BY <1>0, <1>x, <3>1 DEF OnlyRules, Leaving
      <3>6. \A i \in DOMAIN rules : rules[i].ip \in Held' /\ NeedsRule(peer'[rules[i].ip].access)
        BY <3>2, <3>3, <3>4, <3>5
      <3> QED
        BY <1>x, <2>1, <3>1, <3>6 DEF OnlyRules
    <2>2. CASE Goto(p, "rollback")
      BY <1>0, <1>t, <2>2 DEF Goto, CallsInv
    <2> QED
      BY <1>4, <1>10, <2>1, <2>2, Zenon DEF Limit
  <1>11. CASE Rollback(p)
    BY <1>0, <1>t, <1>11 DEF Rollback, CallsInv
  <1>12. CASE Unlimit(p)
    BY <1>3, <1>4, <1>12 DEF Unlimit, Goto, Leaving
  <1>13. CASE Find(p)
    <2>1. ASSUME FindRule(p, cur[p].ip, FALSE), UNCHANGED <<poolVars, parts, peer>>, pc[p] = "find"
          PROVE  RulesExact'
      <3>1. \A i \in DOMAIN rules : rules[i].ip # cur[p].ip
        BY <2>1 DEF FindRule, Healthy
      <3>2. running => \A i \in DOMAIN rules : Own(i)
        BY <1>0, <1>x, <3>1 DEF OnlyRules
      <3> HIDE DEF Own
      <3> QED
        BY <1>2, <2>1, <3>2 DEF FindRule
    <2> QED
      BY <1>3, <1>4, <1>13, <2>1 DEF Find, FindRule, Goto, Leaving
  <1>14. CASE DelQueue(p)
    BY <1>3, <1>14 DEF DelQueue, RemoveRuleQueue, Goto, Leaving
  <1>15. CASE DelFlush(p)
    <2>1. /\ running' = running /\ peer' = peer /\ Held' = Held /\ parts' = parts
          /\ pc[p] = "delflush" /\ RemoveRuleFlush /\ Return(p) /\ running
      BY <1>0, <1>t, <1>15 DEF DelFlush, Held, CallsInv, Stopping
    <2>2. PICK i \in DOMAIN rules : rules[i].ip = cur[p].ip /\ IsWithout(rules', rules, i)
      BY <1>0, <1>t, <2>1, DelFlushNf DEF Healthy
    <2>3. DOMAIN rules = 1..Len(rules)
      BY <1>t DEF NfInv, RulesInv
    <2>4. \A k \in DOMAIN rules : k # i => Own(k)
      BY <1>0, <1>x, <2>1, <2>2 DEF OnlyRules
    <2>5. \A k \in DOMAIN rules' : rules'[k].ip \in Held /\ NeedsRule(peer[rules'[k].ip].access)
      <3>1. SUFFICES ASSUME NEW k \in DOMAIN rules'
                     PROVE  rules'[k].ip \in Held /\ NeedsRule(peer[rules'[k].ip].access)
        OBVIOUS
      <3>2. PICK x \in DOMAIN rules : x # i /\ rules'[k] = rules[x]
        BY <2>2, <2>3, Zenon DEF IsWithout
      <3> QED
        BY <2>4, <3>2
    <2>6. \A j, k \in DOMAIN rules' : j < k => rules'[j].ip # rules'[k].ip
      <3>1. SUFFICES ASSUME NEW j \in DOMAIN rules', NEW k \in DOMAIN rules', j < k
                     PROVE  rules'[j].ip # rules'[k].ip
        OBVIOUS
      <3>a. j \in 1..(Len(rules) - 1) /\ k \in 1..(Len(rules) - 1)
        BY <2>2, <3>1 DEF IsWithout
      <3>2. PICK x, y \in (1..Len(rules)) \ {i} :
              x < y /\ rules'[j] = rules[x] /\ rules'[k] = rules[y]
        BY <2>2, <3>1, <3>a, Zenon DEF IsWithout
      <3>3. x # y
        BY <2>3, <3>2
      <3> QED
        BY <1>x, <2>1, <3>2, <3>3 DEF OnlyRules
    <2>7. \A j, k \in DOMAIN rules' : rules'[j].ip = rules'[k].ip => j = k
      <3>1. \A j, k \in DOMAIN rules' : j < k \/ k < j \/ j = k
        BY <2>2 DEF IsWithout
      <3> QED
        BY <2>6, <3>1
    <2>8. "nf" \in parts'
      BY <1>t, <2>1 DEF PartsInv
    <2> QED
      BY <2>1, <2>5, <2>7, <2>8 DEF OnlyRules
  <1>16. CASE ShutdownNfQueue(p) \/ ShutdownTc(p)
    <2>1. ~running' /\ rules' = rules /\ ("nf" \in parts' <=> "nf" \in parts)
      BY <1>0, <1>t, <1>16 DEF ShutdownNfQueue, ShutdownTc, NfReinitQueue, PartsInv, Stopping
    <2> QED
      BY <1>x, <2>1
  <1>17. CASE ShutdownNfFlush(p)
    <2>1. ~running'
      BY <1>0, <1>t, <1>17 DEF ShutdownNfFlush, PartsInv, Stopping
    <2>2. rules' = <<>>
      BY <1>0, <1>t, <1>17, StopFlushNf, Zenon DEF ShutdownNfFlush, Healthy
    <2> QED
      BY <2>1, <2>2
  <1>18. CASE UNCHANGED vars
    BY <1>1, <1>18 DEF vars
  <1> HIDE DEF RulesExact, Own, poolVars, ipamVars, nfVars
  <1>19. CASE Step(p)
    BY <1>8, <1>9, <1>10, <1>11, <1>12, <1>13, <1>14, <1>15, <1>16, <1>17, <1>19 DEF Step
  <1> QED
    BY <1>0, <1>5, <1>6, <1>7, <1>18, <1>19 DEF Next, Exited

\* The filters and classes stay those of the peers that callers hold and of the peer
\* that is leaving.
LEMMA NextFilters ==
  ASSUME OneCaller, SetFacts, DistinctHandles, Healthy, SeqInv, ExactInv, CallsInv', [Next]_vars
  PROVE  FiltersExact'
  <1>0. PICK p : Proc = {p}
    BY DEF OneCaller
  <1>t. /\ pc = [q \in Proc |-> pc[q]] /\ cur = [q \in Proc |-> cur[q]]
        /\ peer = [a \in Addr |-> peer[a]] /\ cur[p].ip \in Addr /\ cur[p].ip \in Nat
        /\ cur[p].access \in {"InternetOnly", "AllowAll"} /\ IpamTypeOK
        /\ CallsInv /\ PartsInv /\ TcTypeOK
    BY <1>0, IpamAssumption, Zenon DEF SeqInv, ExactInv, AccInv, IpamTypeOK, FilterInv
  <1>x. FiltersExact
    BY DEF ExactInv
  <1>y. running /\ pc[p] # "unlimit" => \A f \in filters : f.ip \in Held /\ peer[f.ip].rate # 0
    BY <1>0, <1>x DEF FiltersExact, OnlyFilters
  <1> USE DEF poolVars, ipamVars, tcVars
  <1>1. ASSUME UNCHANGED <<peer, pc, cur, tcVars>>, running' => running, "tc" \in parts' <=> "tc" \in parts
        PROVE  FiltersExact'
    BY <1>x, <1>1 DEF FiltersExact, OnlyFilters, OnlyTables, Held
  <1>2. ASSUME UNCHANGED <<peer, tcVars>>, running' => running, "tc" \in parts' <=> "tc" \in parts,
               pc[p] # "unlimit"
        PROVE  FiltersExact'
    BY <1>x, <1>y, <1>2 DEF FiltersExact, OnlyFilters, OnlyTables, Held
  <1>3. ASSUME NEW f, NilPanic(f)
        PROVE  FiltersExact'
    BY <1>1, <1>3 DEF NilPanic
  <1>4. ASSUME NEW access, NEW rate, Alloc(p, access, rate) \/ \E a \in Addr : Set(p, a, access, rate)
        PROVE  FiltersExact'
    <2>1. \/ \E f : NilPanic(f)
          \/ /\ peer' = peer /\ tcVars' = tcVars /\ parts' = parts /\ (running' => running)
             /\ pc[p] = "idle"
      BY <1>4 DEF Alloc, Set, PoolSet, PoolAlloc, BeginPolicy, vars
    <2> QED
      BY <1>2, <1>3, <2>1
  <1>5. ASSUME NEW a \in Addr, Unset(p, a)
        PROVE  FiltersExact'
    <2>1. CASE PoolUnset(a) /\ ~NilPanic("ipp")
      <3>1. /\ UNCHANGED <<tcVars, parts>> /\ running' = running /\ peer' = [peer EXCEPT ![a] = NoPeer]
            /\ pc' = [pc EXCEPT ![p] = "unlimit"] /\ cur' = [cur EXCEPT ![p].ip = a] /\ pc[p] = "idle"
        BY <1>5, <2>1 DEF Unset, PoolUnset, PoolUnsetRefused
      <3>2. pc'[p] = "unlimit" /\ cur'[p].ip = a /\ Held' = Held \ {a}
        BY <1>0, <1>t, <3>1 DEF Held, IpamTypeOK
      <3>3. \A b \in Held' : peer'[b] = peer[b]
        BY <1>t, <3>1, <3>2 DEF Held
      <3>4. running' => OnlyFilters'
        BY <1>0, <1>y, <3>1, <3>2, <3>3 DEF OnlyFilters
      <3> QED
        BY <1>x, <3>1, <3>4 DEF FiltersExact, OnlyTables
    <2> QED
      BY <1>1, <1>3, <1>5, <2>1 DEF Unset
  <1>6. CASE ShutdownPool(p)
    BY <1>2, <1>3, <1>6 DEF ShutdownPool, PoolShutdown, Goto
  <1>7. CASE Limit(p)
    <2> DEFINE a == cur[p].ip
               pol == [access |-> cur[p].access, rate |-> cur[p].rate]
    <2>1. CASE /\ UNCHANGED <<poolVars, parts>> /\ setLimit(a, cur[p].rate, TRUE) /\ "tc" \in parts
               /\ peer' = [peer EXCEPT ![a] = pol]
      <3>1. pc[p] = "limit" /\ running' = running /\ running
        BY <1>0, <1>t, <1>7, <2>1 DEF Limit, CallsInv, Stopping
      <3>2. pol # NoPeer /\ pol.rate = cur[p].rate
        BY <1>t DEF NoPeer
      <3> HIDE DEF pol
      <3>3. Held \subseteq Held' /\ a \in Held' /\ peer'[a] = pol /\ \A b \in Held : b # a => peer'[b] = peer[b]
        BY <1>t, <2>1, <3>2 DEF Held
      <3>4. /\ handleForIP(a) \notin Reserved
            /\ \A f \in filters : handleForIP(f.ip) # handleForIP(a)
            /\ a \notin Held
        BY <1>0, <3>1, HandleFree
      <3>5. EntriesMatch /\ OnlyTables
        BY <1>x, <2>1 DEF SeqInv, FilterInv, FiltersExact
      <3>6. OnlyTables' /\ \A f \in filters' : f \in filters \/ (f.ip = a /\ cur[p].rate # 0)
        BY <1>t, <2>1, <3>4, <3>5, SetLimitExact, Zenon
      <3>7. \A f \in filters' : f.ip \in Held' /\ peer'[f.ip].rate # 0
        BY <1>y, <3>1, <3>2, <3>3, <3>4, <3>6
      <3> QED
        BY <2>1, <3>6, <3>7 DEF FiltersExact, OnlyFilters
    <2>2. CASE Goto(p, "rollback")
      BY <1>0, <1>t, <2>2 DEF Goto, CallsInv
    <2> QED
      BY <1>3, <1>7, <2>1, <2>2, Zenon DEF Limit
  <1>8. CASE Unlimit(p)
    <2>1. CASE ~NilPanic("tc")
      <3>1. /\ removeLimit(cur[p].ip) /\ UNCHANGED <<parts, running, peer>> /\ "tc" \in parts
            /\ pc[p] = "unlimit" /\ Held' = Held
        BY <1>8, <2>1 DEF Unlimit, Held
      <3>2. OnlyTables' /\ \A f \in filters' : f \in filters /\ f.ip # cur[p].ip
        <4>1. EntriesMatch /\ OnlyTables /\ OwnClass /\ Entries
          BY <1>x, <3>1 DEF SeqInv, FilterInv, FiltersExact, TcInv
        <4> QED
          BY <1>t, <3>1, <4>1, RemoveLimitExact
      <3>3. running => \A f \in filters' : f.ip \in Held /\ peer[f.ip].rate # 0
        BY <1>0, <1>x, <3>2 DEF FiltersExact, OnlyFilters
      <3> QED
        BY <3>1, <3>2, <3>3 DEF FiltersExact, OnlyFilters
    <2> QED
      BY <1>3, <2>1
  <1>9. CASE ShutdownTc(p)
    <2>1. ~running' /\ "tc" \notin parts' /\ OnlyTables
      BY <1>0, <1>t, <1>x, <1>9 DEF ShutdownTc, PartsInv, Stopping, FiltersExact
    <2>2. classes' = {} /\ filters' = {}
      BY <1>9, <2>1 DEF ShutdownTc, TcCleanup, Healthy, OnlyTables
    <2> QED
      BY <2>1, <2>2 DEF FiltersExact
  <1>10. CASE \/ IsolateQueue(p) \/ IsolateFlush(p) \/ Rollback(p)
              \/ Find(p) \/ DelQueue(p) \/ DelFlush(p) \/ ShutdownNfQueue(p) \/ ShutdownNfFlush(p)
    BY <1>2, <1>3, <1>10
    DEF IsolateQueue, IsolateFlush, Rollback, PoolUnset, Find, DelQueue, DelFlush,
        ShutdownNfQueue, ShutdownNfFlush
  <1>11. CASE UNCHANGED vars
    BY <1>1, <1>11 DEF vars
  <1> HIDE DEF poolVars, ipamVars, tcVars
  <1>12. CASE Step(p)
    BY <1>7, <1>8, <1>9, <1>10, <1>12 DEF Step
  <1> QED
    BY <1>0, <1>4, <1>5, <1>6, <1>11, <1>12, Zenon DEF Next, Exited

\* The tables of New are exact.
LEMMA InitExact ==
  ASSUME SetFacts, Init
  PROVE  ExactInv
  <1>1. CallsInv
    BY DEF Init, CallsInv, PoolInit
  <1>2. rules = <<>> /\ DOMAIN rules = {}
    BY DEF Init, NfInit
  <1>3. RulesExact
    BY <1>2 DEF RulesExact, OnlyRules
  <1>4. OnlyTables
    BY DEF SetFacts, Init, TcInit, OnlyTables
  <1>5. FiltersExact
    BY <1>4 DEF Init, TcInit, FiltersExact, OnlyFilters
  <1> QED
    BY <1>1, <1>3, <1>5 DEF ExactInv

(***************************************************************************)
(* The facts about finite sets, and the theorems.                          *)
(***************************************************************************)
INSTANCE FiniteSetTheorems

\* Cardinalities of finite sets; with one caller there are more handles than rules.
LEMMA SetFactsHold == SetFacts
  <1>1. IsFiniteSet({}) /\ Cardinality({}) = 0
    BY FS_EmptySet
  <1>2. \A S, x : IsFiniteSet(S) => IsFiniteSet(S \cup {x}) /\ IsFiniteSet(S \ {x})
    BY FS_AddElement, FS_RemoveElement
  <1>3. ASSUME NEW R \in Seq([h : Handles, ip : Nat]), OneCaller, Len(R) < MaxRules
        PROVE  ~(Handles \subseteq Installed(R))
    <2>1. PICK p : Proc = {p}
      BY <1>3 DEF OneCaller
    <2>2. Cardinality(Proc) = 1
      BY <2>1, FS_Singleton, Zenon
    <2>3. Handles = 1..(MaxRules + 2) /\ Len(R) \in Nat /\ DOMAIN R = 1..Len(R)
      BY <2>2, NetFilterAssumption DEF Handles
    <2>4. IsFiniteSet(Installed(R)) /\ Cardinality(Installed(R)) <= Len(R)
      <3> DEFINE f == [i \in 1..Len(R) |-> R[i].h]
      <3>1. IsFiniteSet(1..Len(R)) /\ Cardinality(1..Len(R)) = Len(R)
        BY <2>3, FS_Interval
      <3>2. f \in Surjection(1..Len(R), Installed(R))
        BY <2>3 DEF Surjection, Installed
      <3> QED
        BY <3>1, <3>2, FS_Surjection
    <2>5. IsFiniteSet(Handles) /\ Cardinality(Handles) = MaxRules + 2
      BY <2>3, FS_Interval, NetFilterAssumption
    <2> QED
      BY <1>3, <2>3, <2>4, <2>5, FS_Subset, FS_CardinalityType, NetFilterAssumption
  <1> QED
    BY <1>1, <1>2, <1>3, Zenon DEF SetFacts

\* A set that is numbered from 1 to n without repetition has n elements.
LEMMA CountOf ==
  ASSUME NEW n \in Nat, NEW f, NEW T, T = {f[i] : i \in 1..n},
         \A i, j \in 1..n : f[i] = f[j] => i = j
  PROVE  Cardinality(T) = n
  <1> DEFINE g == [i \in 1..n |-> f[i]]
  <1>1. g \in Bijection(1..n, T)
    <2>1. g \in [1..n -> T] /\ \A i, j \in 1..n : g[i] = g[j] => i = j
      OBVIOUS
    <2>2. \A t \in T : \E i \in 1..n : g[i] = t
      OBVIOUS
    <2> QED
      BY <2>1, <2>2 DEF Bijection, Injection, IsInjective, Surjection
  <1>2. ExistsBijection(1..n, T)
    BY <1>1 DEF ExistsBijection
  <1> QED
    BY <1>2, FS_CountingElements

\* The invariant gives the types of the tables: a queued message, if there is one,
\* is that of the call in progress, and the handles count the rules.
LEMMA SeqTypeOK ==
  ASSUME OneCaller, SeqInv
  PROVE  TypeOK
  <1>0. PICK p : Proc = {p}
    BY DEF OneCaller
  <1>1. IpamTypeOK /\ TcTypeOK /\ NfInv
    BY DEF SeqInv, AccInv, FilterInv
  <1>2. queue \in Seq(Messages)
    <2>1. \A a \in Nat : AddMessage(a) \in Messages
      BY DEF AddMessage, Messages, NoHandle
    <2>2. \A h \in Handles : DelMessage(h) \in Messages
      BY DEF DelMessage, Messages, Handles
    <2>3. InitMessage \in Messages
      BY DEF InitMessage, Messages, NoHandle
    <2>4. cur[p].ip \in Nat
      BY <1>0, <1>1, IpamAssumption, Zenon DEF IpamTypeOK
    <2>5. queue = <<>> \/ \E m \in Messages : queue = <<m>>
      BY <1>0, <1>1, <2>1, <2>2, <2>3, <2>4 DEF NfInv, QueueInv
    <2>6. \A M : <<>> \in Seq(M) /\ \A m \in M : <<m>> \in Seq(M)
      OBVIOUS
    <2> QED
      BY <2>5, <2>6, Zenon
  <1>3. Cardinality(Installed(rules)) = Len(rules)
    <2>1. Len(rules) \in Nat /\ DOMAIN rules = 1..Len(rules)
      BY <1>1 DEF NfInv, RulesInv
    <2> DEFINE f == [i \in 1..Len(rules) |-> rules[i].h]
    <2>2. Installed(rules) = {f[i] : i \in 1..Len(rules)}
      BY <2>1 DEF Installed
    <2>3. \A i, j \in 1..Len(rules) : f[i] = f[j] => i = j
      BY <1>1, <2>1 DEF NfInv, RulesInv
    <2> HIDE DEF f
    <2> QED
      BY <2>1, <2>2, <2>3, CountOf
  <1> QED
    BY <1>1, <1>2, <1>3 DEF TypeOK, NfTypeOK, NfInv, RulesInv

\* What applyPolicy promised is in force: with one caller at a time, and kernels that
\* fail in any way except to delete a class, a peer that a caller holds is isolated and
\* limited as it was told, whatever the other calls did and however they failed.
THEOREM Promises ==
  ASSUME OneCaller, \A F \in FaultSets : "classdel" \notin F
  PROVE  Spec => []PromisesInForce
  <1>1. Init => SeqInv
    BY InitSeq DEF Init
  <1>2. SeqInv /\ [Next]_vars => SeqInv'
    BY NextSeq, SetFactsHold
  <1>3. SeqInv => PromisesInForce
    <2>1. SUFFICES ASSUME SeqInv PROVE PromisesInForce
      OBVIOUS
    <2>2. TypeOK
      BY <2>1, SeqTypeOK
    <2> QED
      BY <2>1, <2>2, IpamAssumption DEF PromisesInForce, SeqInv, IsolationInv, FilterInv, NeedsRule
  <1> QED
    BY <1>1, <1>2, <1>3, PTL DEF Spec

\* A map without repetition keeps the number of elements.
LEMMA SameCount ==
  ASSUME NEW S, IsFiniteSet(S), NEW T, NEW f,
         \A s \in S : f[s] \in T, \A t \in T : \E s \in S : f[s] = t,
         \A s, t \in S : f[s] = f[t] => s = t
  PROVE  Cardinality(S) = Cardinality(T)
  <1> DEFINE g == [s \in S |-> f[s]]
  <1>1. g \in Bijection(S, T)
    <2>1. g \in [S -> T] /\ \A s, t \in S : g[s] = g[t] => s = t
      OBVIOUS
    <2>2. \A t \in T : \E s \in S : g[s] = t
      OBVIOUS
    <2> QED
      BY <2>1, <2>2 DEF Bijection, Injection, IsInjective, Surjection
  <1>2. ExistsBijection(S, T)
    BY <1>1 DEF ExistsBijection
  <1> QED
    BY <1>2, FS_Bijection

\* Between calls, what the invariant says of the tables is that they are exact.
LEMMA ExactBetweenCalls ==
  ASSUME OneCaller, SeqInv, ExactInv,
         parts = {"ipp", "nf", "tc"}, \A p \in Proc : pc[p] = "idle",
         NEW isolated, isolated = {a \in Held : NeedsRule(peer[a].access)},
         NEW limited, limited = {a \in Held : peer[a].rate # 0 /\ TcOn}
  PROVE  /\ {rules[i].ip : i \in DOMAIN rules} = isolated
         /\ Len(rules) = Cardinality(isolated)
         /\ {f.ip : f \in filters} = limited
         /\ Cardinality(filters) = Cardinality(limited)
         /\ {[h |-> l.h, ip |-> l.ip] : l \in limits} = filters
         /\ classes = {handleForIP(a) : a \in limited} \cup (IF TcOn THEN Reserved ELSE {})
  <1>0. PICK p : Proc = {p}
    BY DEF OneCaller
  <1>1. running /\ pc[p] = "idle" /\ pc[p] # "limit" /\ pc[p] \notin Leaving /\ pc[p] # "unlimit"
    BY <1>0 DEF SeqInv, PartsInv, Leaving
  <1>2. OnlyRules /\ OnlyFilters /\ OnlyTables /\ OwnClass /\ EntriesMatch
    BY <1>1 DEF ExactInv, RulesExact, FiltersExact, SeqInv, TcInv, FilterInv
  <1>3. {rules[i].ip : i \in DOMAIN rules} = isolated
    <2>1. \A i \in DOMAIN rules : rules[i].ip \in isolated
      BY <1>0, <1>1, <1>2 DEF OnlyRules
    <2>2. \A a \in isolated : \E i \in DOMAIN rules : rules[i].ip = a
      BY <1>1 DEF SeqInv, IsolationInv, Isolated
    <2> QED
      BY <2>1, <2>2
  <1>4. Len(rules) = Cardinality(isolated)
    <2>1. Len(rules) \in Nat /\ DOMAIN rules = 1..Len(rules)
      BY DEF SeqInv, NfInv, RulesInv
    <2> DEFINE f == [i \in 1..Len(rules) |-> rules[i].ip]
    <2>2. isolated = {f[i] : i \in 1..Len(rules)}
      BY <1>3, <2>1
    <2>3. \A i, j \in 1..Len(rules) : f[i] = f[j] => i = j
      BY <1>2, <2>1 DEF OnlyRules
    <2> HIDE DEF f
    <2> QED
      BY <2>1, <2>2, <2>3, CountOf
  <1>5. {f.ip : f \in filters} = limited
    <2>1. \A f \in filters : f.ip \in limited
      BY <1>0, <1>1, <1>2 DEF OnlyFilters, OnlyTables
    <2>2. \A a \in limited : \E f \in filters : f.ip = a
      BY <1>1 DEF SeqInv, FilterInv, Filtered
    <2> QED
      BY <2>1, <2>2
  <1>6. Cardinality(filters) = Cardinality(limited)
    <2> DEFINE g == [f \in filters |-> f.ip]
    <2>1. (\A f \in filters : g[f] \in limited) /\ \A a \in limited : \E f \in filters : g[f] = a
      BY <1>5
    <2>2. \A f, k \in filters : g[f] = g[k] => f = k
      BY <1>2 DEF OwnClass
    <2>3. IsFiniteSet(filters)
      BY <1>2 DEF OnlyTables
    <2> HIDE DEF g
    <2> QED
      BY <2>1, <2>2, <2>3, SameCount, Zenon
  <1>7. {[h |-> l.h, ip |-> l.ip] : l \in limits} = filters
    BY <1>2 DEF OnlyTables, EntriesMatch
  <1>8. classes = {handleForIP(a) : a \in limited} \cup (IF TcOn THEN Reserved ELSE {})
    <2>1. \A c \in classes : (\E a \in limited : c = handleForIP(a)) \/ (TcOn /\ c \in Reserved)
      BY <1>2, <1>5 DEF OnlyTables
    <2>2. \A a \in limited : handleForIP(a) \in classes
      BY <1>2, <1>5 DEF OwnClass
    <2>3. TcOn => Reserved \subseteq classes
      BY <1>2 DEF OwnClass
    <2> DEFINE R == {handleForIP(a) : a \in limited} \cup (IF TcOn THEN Reserved ELSE {})
    <2>4. \A c : c \in R <=> (\E a \in limited : c = handleForIP(a)) \/ (TcOn /\ c \in Reserved)
      OBVIOUS
    <2> HIDE DEF R
    <2>5. classes = R
      BY <2>1, <2>2, <2>3, <2>4, Zenon
    <2> QED
      BY <2>5 DEF R
  <1> QED
    BY <1>3, <1>4, <1>5, <1>6, <1>7, <1>8

\* On a healthy kernel, with one caller at a time and class handles that do not clash,
\* applyPolicy, free and Shutdown leave in the kernel exactly what the peers that callers
\* hold were promised, and applyPolicy never fails.
THEOREM Tables ==
  ASSUME OneCaller, DistinctHandles
  PROVE  Spec => []TablesExact
  <1> DEFINE Inv == Healthy => SeqInv /\ ExactInv
  <1>1. Init => Inv
    BY InitSeq, InitExact, SetFactsHold DEF Healthy
  <1>2. Inv /\ [Next]_vars => Inv'
    <2>1. SUFFICES ASSUME Inv, [Next]_vars, Healthy' PROVE (SeqInv /\ ExactInv)'
      OBVIOUS
    <2>2. Healthy
      BY <2>1 DEF Healthy, Next, vars
    <2>3. CallsInv'
      BY <2>1, <2>2, NextCalls, SetFactsHold
    <2> QED
      BY <2>1, <2>2, <2>3, NextSeq, NextRules, NextFilters, SetFactsHold DEF ExactInv
  <1>3. Inv => TablesExact
    <2>1. SUFFICES ASSUME Healthy, SeqInv, ExactInv PROVE TablesExact
      BY DEF TablesExact
    <2> DEFINE isolated == {a \in Held : peer[a].access = "InternetOnly" /\ DefaultPol = "AllowAll"}
               limited == {a \in Held : peer[a].rate # 0 /\ TcOn}
    <2>2. isolated = {a \in Held : NeedsRule(peer[a].access)}
      BY DEF NeedsRule
    <2>3. parts = {"ipp", "nf", "tc"} /\ (\A p \in Proc : pc[p] = "idle") =>
             /\ {rules[i].ip : i \in DOMAIN rules} = isolated
             /\ Len(rules) = Cardinality(isolated)
             /\ {f.ip : f \in filters} = limited
             /\ Cardinality(filters) = Cardinality(limited)
             /\ {[h |-> l.h, ip |-> l.ip] : l \in limits} = filters
             /\ classes = {handleForIP(a) : a \in limited} \cup (IF TcOn THEN Reserved ELSE {})
      BY <2>1, <2>2, ExactBetweenCalls, Zenon
    <2>4. parts = {} => rules = <<>> /\ classes = {} /\ filters = {}
      BY <2>1 DEF ExactInv, RulesExact, FiltersExact
    <2>5. \A p \in Proc : pc[p] # "rollback"
      BY <2>1 DEF ExactInv, CallsInv
    <2> QED
      BY <2>3, <2>4, <2>5 DEF TablesExact
  <1> QED
    BY <1>1, <1>2, <1>3, PTL DEF Spec
=============================================================================
