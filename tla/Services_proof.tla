--------------------------- MODULE Services_proof ---------------------------
(***************************************************************************)
(* Safety of the runtime and its services, for any number of callers,      *)
(* instances, reloads, signals and events: lookups read from open readers, *)
(* no reader is forgotten, a restart finds the port free, and nothing is   *)
(* left behind when Exec returns.  At the end, the requests of the proxy.  *)
(*                                                                         *)
(* Restart and exit are clean because an instance that has not ended is    *)
(* always in the service map (OwnInv), and because Shutdown goes through   *)
(* the map from the end and empties it only when all entries are nil       *)
(* (ControlInv).                                                           *)
(***************************************************************************)
EXTENDS Services, FiniteSetTheorems, TLAPS

GeoType ==
  [ptr : Nat, stop : BOOLEAN, done : BOOLEAN, run : {"wait", "loaded", "close", "ended"},
   hand : Nat, closing : Nat, loads : Nat, open : SUBSET Nat]

\* What an instance of the country database holds, by itself
GeoGood(g) ==
  /\ 0 \notin g.open
  /\ g.open \subseteq {g.ptr, g.hand, g.closing}
  /\ g.run \in {"wait", "ended"} => g.hand = 0
  /\ g.run = "loaded" => g.hand # 0
  /\ g.done => g.run = "ended"
  /\ g.ptr = 0 /\ g.closing = 0 => g.done

GeoInv ==
  /\ geo \in Seq(GeoType)
  /\ \A i \in DOMAIN geo : GeoGood(geo[i])

LookupInv ==
  /\ lookup \in [Client -> [inst : Nat, db : Nat, reading : BOOLEAN]]
  /\ \A c \in Client : lookup[c] # NoLookup => lookup[c].inst \in DOMAIN geo /\ lookup[c].db # 0
  /\ LookupUsesOpenReader

ServerType ==
  [cancelled : BOOLEAN, waiter : {"wait", "closing", "done"}, serve : {"starting", "serving", "done"}]

ServerInv ==
  /\ http \in Seq(ServerType)
  /\ port \subseteq DOMAIN http
  /\ \A i \in port : http[i].serve # "done"

Places == {"start", "startHttp", "loop", "replace", "replacing", "stop", "stopping", "exit", "fatal"}
ExecType == [pc : Places, next : {"loop", "start", "exit"}, idx : Nat]

\* The service map and Exec's place
ControlInv ==
  /\ exec \in ExecType
  /\ order \in Seq({"geoip", "http"})
  /\ services \in [DOMAIN services -> Nat]
  /\ TypeOK
  /\ exec.pc \in {"start", "exit"} => order = <<>>
  /\ exec.pc = "startHttp" => "http" \notin DOMAIN services
  /\ exec.pc \in {"startHttp", "loop", "replace", "replacing"} =>
       "geoip" \in DOMAIN services /\ \A s \in DOMAIN services : services[s] # 0
  /\ exec.pc \in {"stop", "stopping"} =>
       exec.next # "loop" /\ \A k \in DOMAIN order : k > exec.idx => services[order[k]] = 0
  /\ exec.pc = "stopping" => exec.idx > 0 /\ services[Name] # 0

Mapped(s, i) == s \in DOMAIN services /\ services[s] = i
Ended(i) == geo[i].run = "ended" /\ geo[i].open = {}

\* An instance whose database Shutdown is about to close
BeingShut(i) ==
  \/ exec.pc = "stopping" /\ Name = "geoip" /\ services[Name] = i
  \/ exec.pc = "replacing" /\ services["geoip"] = i

\* What has not ended is in the map.
OwnInv ==
  /\ \A i \in DOMAIN http : Waited(i) \/ Mapped("http", i)
  /\ \A i \in DOMAIN geo : \/ i \in loose \/ Ended(i) \/ Mapped("geoip", i) \/ exec.pc = "fatal"
                           \/ exec.pc \in {"replace", "replacing"} /\ i = Len(geo)
  /\ \A i \in DOMAIN geo : geo[i].closing = 0 \/ BeingShut(i) \/ ~Alive
  /\ RestartFindsPortFree

Inv == GeoInv /\ LookupInv /\ ServerInv /\ ControlInv /\ OwnInv

(***************************************************************************)
(* Steps of the country database                                           *)
(***************************************************************************)
\* One instance changes, and no reader in use is closed.
LEMMA GeoSet ==
  ASSUME GeoInv, LookupInv, NEW i \in DOMAIN geo, NEW g \in GeoType, GeoGood(g),
         Set(i, g), UNCHANGED lookup, \A d \in geo[i].open : d \in g.open \/ ~Reading(i, d)
  PROVE  /\ GeoInv' /\ LookupInv' /\ Len(geo') = Len(geo) /\ DOMAIN geo' = DOMAIN geo
         /\ \A j \in DOMAIN geo : geo'[j] = IF j = i THEN g ELSE geo[j]
  <1>1. /\ geo' \in Seq(GeoType) /\ Len(geo') = Len(geo) /\ DOMAIN geo' = DOMAIN geo
        /\ \A j \in DOMAIN geo : geo'[j] = IF j = i THEN g ELSE geo[j]
    BY DEF GeoInv, Set
  <1>2. GeoInv'
    <2> SUFFICES ASSUME NEW j \in DOMAIN geo' PROVE GeoGood(geo'[j])
      BY <1>1 DEF GeoInv, GeoGood
    <2> QED
      BY <1>1 DEF GeoInv
  <1>3. LookupUsesOpenReader'
    <2> SUFFICES ASSUME NEW c \in Client, lookup[c].reading
                 PROVE  lookup[c].db \in geo'[lookup[c].inst].open
      BY DEF LookupUsesOpenReader
    <2>1. lookup[c] # NoLookup
      BY DEF NoLookup
    <2>2. lookup[c].inst \in DOMAIN geo /\ lookup[c].db \in geo[lookup[c].inst].open
      BY <2>1 DEF LookupInv, LookupUsesOpenReader
    <2>3. CASE lookup[c].inst = i
      <3>1. lookup[c] = [inst |-> i, db |-> lookup[c].db, reading |-> TRUE]
        BY <2>3 DEF LookupInv
      <3>2. Reading(i, lookup[c].db)
        BY <3>1 DEF Reading
      <3> QED
        BY <1>1, <2>2, <2>3, <3>2
    <2>4. CASE lookup[c].inst # i
      BY <1>1, <2>2, <2>4
    <2> QED
      BY <2>3, <2>4
  <1> QED
    BY <1>1, <1>2, <1>3 DEF LookupInv

\* geoip.NewService starts its watcher.
LEMMA NewGeoipStep ==
  ASSUME GeoInv, LookupInv, NewGeoip, UNCHANGED lookup
  PROVE  /\ GeoInv' /\ LookupInv' /\ Len(geo') = Len(geo) + 1
         /\ geo'[Len(geo')].closing = 0
         /\ DOMAIN geo' = DOMAIN geo \cup {Len(geo')} /\ \A j \in DOMAIN geo : geo'[j] = geo[j]
  <1> DEFINE g == [ptr |-> 1, stop |-> FALSE, done |-> FALSE, run |-> "wait", hand |-> 0,
                   closing |-> 0, loads |-> 1, open |-> {1}]
  <1>1. g \in GeoType /\ GeoGood(g) /\ g.closing = 0
    BY DEF GeoType, GeoGood
  <1>2. geo' = Append(geo, g)
    BY DEF NewGeoip
  <1> HIDE DEF g
  <1>3. /\ geo' \in Seq(GeoType) /\ Len(geo') = Len(geo) + 1 /\ geo'[Len(geo')] = g
        /\ DOMAIN geo' = DOMAIN geo \cup {Len(geo')} /\ \A j \in DOMAIN geo : geo'[j] = geo[j]
    BY <1>1, <1>2 DEF GeoInv
  <1>4. GeoInv'
    BY <1>1, <1>3 DEF GeoInv
  <1>5. LookupUsesOpenReader'
    <2> SUFFICES ASSUME NEW c \in Client, lookup[c].reading
                 PROVE  lookup[c].db \in geo'[lookup[c].inst].open
      BY DEF LookupUsesOpenReader
    <2>1. lookup[c] # NoLookup
      BY DEF NoLookup
    <2> QED
      BY <1>3, <2>1 DEF LookupInv, LookupUsesOpenReader
  <1> QED
    BY <1>1, <1>3, <1>4, <1>5 DEF LookupInv

\* The goroutine of an instance
LEMMA RunSteps ==
  ASSUME GeoInv, LookupInv, NEW i \in DOMAIN geo, Reload(i) \/ RunStep(i)
  PROVE  /\ GeoInv' /\ LookupInv' /\ Len(geo') = Len(geo) /\ DOMAIN geo' = DOMAIN geo
         /\ \A j \in DOMAIN geo : geo'[j].closing = geo[j].closing
         /\ \A j \in DOMAIN geo : Ended(j) => Ended(j)'
  <1>1. geo[i] \in GeoType /\ GeoGood(geo[i])
    BY DEF GeoInv
  <1>2. \E g \in GeoType :
          /\ GeoGood(g) /\ Set(i, g) /\ g.closing = geo[i].closing
          /\ \A d \in geo[i].open : d \in g.open \/ ~Reading(i, d)
          /\ geo[i].run # "ended"
    <2>1. CASE Reload(i)
      <3> DEFINE g == [geo[i] EXCEPT !.loads = @ + 1, !.hand = geo[i].loads + 1, !.run = "loaded",
                                     !.open = @ \cup {geo[i].loads + 1}]
      <3>1. geo[i].loads + 1 \in Nat \ {0} /\ geo[i].run = "wait" /\ geo[i].hand = 0 /\ Set(i, g)
        BY <1>1, <2>1 DEF Reload, GeoType, GeoGood
      <3>2. g \in GeoType
        BY <1>1, <3>1, Zenon DEF GeoType
      <3>3. GeoGood(g) /\ g.closing = geo[i].closing /\ geo[i].open \subseteq g.open
        BY <1>1, <3>1 DEF GeoType, GeoGood
      <3> HIDE DEF g
      <3> QED
        BY <3>1, <3>2, <3>3
    <2>2. CASE SwapIn(i)
      BY <1>1, <2>2, Zenon DEF SwapIn, GeoType, GeoGood
    <2>3. CASE CloseOld(i)
      BY <1>1, <2>3, Zenon DEF CloseOld, Closed, MayClose, GeoType, GeoGood
    <2>4. CASE RunStops(i)
      BY <1>1, <2>4, Zenon DEF RunStops, GeoType, GeoGood
    <2> QED
      BY <2>1, <2>2, <2>3, <2>4 DEF RunStep
  <1>3. UNCHANGED lookup
    BY DEF Reload, RunStep, SwapIn, CloseOld, RunStops
  <1>4. PICK g \in GeoType :
          /\ GeoGood(g) /\ Set(i, g) /\ g.closing = geo[i].closing
          /\ \A d \in geo[i].open : d \in g.open \/ ~Reading(i, d)
          /\ geo[i].run # "ended"
    BY <1>2
  <1>5. /\ GeoInv' /\ LookupInv' /\ Len(geo') = Len(geo) /\ DOMAIN geo' = DOMAIN geo
        /\ \A j \in DOMAIN geo : geo'[j] = IF j = i THEN g ELSE geo[j]
    BY <1>3, <1>4, GeoSet
  <1> QED
    BY <1>4, <1>5 DEF Ended

\* Shutdown of an instance none of whose databases is being closed
LEMMA ShutdownBegins ==
  ASSUME GeoInv, LookupInv, NEW i \in DOMAIN geo, geo[i].closing = 0, ShutdownBegin(i), UNCHANGED lookup
  PROVE  /\ GeoInv' /\ LookupInv' /\ Len(geo') = Len(geo) /\ DOMAIN geo' = DOMAIN geo
         /\ \A j \in DOMAIN geo : j # i => geo'[j] = geo[j]
  <1> DEFINE g == IF geo[i].ptr = 0 THEN geo[i] ELSE [geo[i] EXCEPT !.ptr = 0, !.closing = geo[i].ptr, !.stop = TRUE]
  <1>1. geo[i] \in GeoType /\ GeoGood(geo[i])
    BY DEF GeoInv
  <1>2. g \in GeoType /\ GeoGood(g) /\ geo[i].open \subseteq g.open
    BY <1>1, Zenon DEF GeoType, GeoGood
  <1>3. Set(i, g)
    BY DEF ShutdownBegin
  <1> HIDE DEF g
  <1> QED
    BY <1>2, <1>3, GeoSet

\* Its end: nothing is being closed any more, and unless the instance is running it has ended.
LEMMA ShutdownEnds ==
  ASSUME GeoInv, LookupInv, NEW i \in DOMAIN geo, ShutdownMayEnd(i), ShutdownEnd(i), UNCHANGED lookup
  PROVE  /\ GeoInv' /\ LookupInv' /\ Len(geo') = Len(geo) /\ DOMAIN geo' = DOMAIN geo
         /\ \A j \in DOMAIN geo : j # i => geo'[j] = geo[j]
         /\ geo'[i].closing = 0 /\ (~GeoRunning(i) => Ended(i)')
  <1> DEFINE g == [Closed(geo[i], geo[i].closing) EXCEPT !.closing = 0]
  <1>1. geo[i] \in GeoType /\ GeoGood(geo[i])
    BY DEF GeoInv
  <1>2. g \in GeoType /\ g.open = geo[i].open \ {geo[i].closing} /\ g.closing = 0
        /\ g.ptr = geo[i].ptr /\ g.hand = geo[i].hand /\ g.run = geo[i].run /\ g.done = geo[i].done
    BY <1>1, Zenon DEF GeoType, Closed
  <1>3. Set(i, g)
    BY DEF ShutdownEnd
  <1> HIDE DEF g
  <1>4. geo[i].closing = 0 \/ (geo[i].done /\ ~Reading(i, geo[i].closing))
    BY DEF ShutdownMayEnd, MayClose
  <1>5. GeoGood(g)
    BY <1>1, <1>2, <1>4 DEF GeoGood
  <1>6. \A d \in geo[i].open : d \in g.open \/ ~Reading(i, d)
    BY <1>1, <1>2, <1>4 DEF GeoGood
  <1>7. geo[i].ptr = 0 => g.run = "ended" /\ g.open = {}
    BY <1>2, <1>5 DEF GeoGood
  <1>8. /\ GeoInv' /\ LookupInv' /\ Len(geo') = Len(geo) /\ DOMAIN geo' = DOMAIN geo
        /\ \A j \in DOMAIN geo : geo'[j] = IF j = i THEN g ELSE geo[j]
    BY <1>2, <1>3, <1>5, <1>6, GeoSet
  <1> QED
    BY <1>2, <1>7, <1>8 DEF GeoRunning, Ended

\* The steps of a lookup
LEMMA LookupSteps ==
  ASSUME GeoInv, LookupInv, NEW c \in Client,
         LookupStep(c) \/ \E i \in DOMAIN geo : GetCountry(c, i)
  PROVE  LookupInv' /\ UNCHANGED geo
  <1>1. UNCHANGED geo
    BY DEF LookupStep, LookupRead, LookupEnd, GetCountry
  <1>2. NoLookup \in [inst : Nat, db : Nat, reading : BOOLEAN] /\ ~NoLookup.reading
    BY DEF NoLookup
  <1>3. \E l \in [inst : Nat, db : Nat, reading : BOOLEAN] :
          /\ lookup' = [lookup EXCEPT ![c] = l]
          /\ l # NoLookup => l.inst \in DOMAIN geo /\ l.db # 0
          /\ l.reading => l.db \in geo[l.inst].open
    <2>1. CASE LookupRead(c)
      <3>1. lookup[c].inst \in DOMAIN geo /\ lookup[c].db # 0 /\ lookup[c] \in [inst : Nat, db : Nat, reading : BOOLEAN]
        BY <2>1 DEF LookupRead, LookupInv
      <3>2. CASE lookup[c].db \in geo[lookup[c].inst].open
        <4> DEFINE l == [lookup[c] EXCEPT !.reading = TRUE]
        <4>1. l \in [inst : Nat, db : Nat, reading : BOOLEAN] /\ l.inst = lookup[c].inst /\ l.db = lookup[c].db
          BY <3>1, Zenon
        <4>2. lookup' = [lookup EXCEPT ![c] = l]
          BY <2>1, <3>2 DEF LookupRead, LookupInv
        <4> HIDE DEF l
        <4> QED
          BY <3>1, <3>2, <4>1, <4>2, Zenon
      <3>3. CASE lookup[c].db \notin geo[lookup[c].inst].open
        BY <1>2, <2>1, <3>3, Zenon DEF LookupRead
      <3> QED
        BY <3>2, <3>3
    <2>2. CASE LookupEnd(c)
      BY <1>2, <2>2, Zenon DEF LookupEnd
    <2>3. CASE \E i \in DOMAIN geo : GetCountry(c, i)
      <3>1. PICK i \in DOMAIN geo : GetCountry(c, i)
        BY <2>3
      <3> DEFINE l == [inst |-> i, db |-> geo[i].ptr, reading |-> FALSE]
      <3>2. geo[i] \in GeoType /\ i \in Nat
        BY DEF GeoInv
      <3>3. geo[i].ptr \in Nat /\ geo[i].ptr # 0
        BY <3>1, <3>2 DEF GetCountry, GeoType
      <3>4. /\ l \in [inst : Nat, db : Nat, reading : BOOLEAN]
            /\ l.inst = i /\ l.db = geo[i].ptr /\ ~l.reading
        BY <3>2, <3>3
      <3>5. lookup' = [lookup EXCEPT ![c] = l]
        BY <3>1 DEF GetCountry
      <3> HIDE DEF l
      <3> QED
        BY <3>3, <3>4, <3>5, Zenon
    <2> QED
      BY <2>1, <2>2, <2>3 DEF LookupStep
  <1>4. PICK l \in [inst : Nat, db : Nat, reading : BOOLEAN] :
          /\ lookup' = [lookup EXCEPT ![c] = l]
          /\ l # NoLookup => l.inst \in DOMAIN geo /\ l.db # 0
          /\ l.reading => l.db \in geo[l.inst].open
    BY <1>3, Zenon
  <1>5. /\ lookup' \in [Client -> [inst : Nat, db : Nat, reading : BOOLEAN]]
        /\ \A d \in Client : lookup'[d] = IF d = c THEN l ELSE lookup[d]
    BY <1>4 DEF LookupInv
  <1> QED
    BY <1>1, <1>4, <1>5 DEF LookupInv, LookupUsesOpenReader

(***************************************************************************)
(* Steps of the HTTP server                                                *)
(***************************************************************************)
LEMMA ServerSteps ==
  ASSUME ServerInv, NEW i \in DOMAIN http, ServerStep(i) \/ ServeFails(i) \/ Cancel(i)
  PROVE  /\ ServerInv' /\ Len(http') = Len(http) /\ DOMAIN http' = DOMAIN http
         /\ \A j \in DOMAIN http : Waited(j) => Waited(j)'
  <1>1. http[i] \in ServerType
    BY DEF ServerInv
  <1>2. \E q \in ServerType :
          /\ http' = [http EXCEPT ![i] = q] /\ port' \subseteq port
          /\ i \in port' => q.serve # "done"
          /\ Waited(i) => q.waiter = "done" /\ q.serve = "done"
    <2>1. CASE ServeBegins(i)
      BY <1>1, <2>1, Zenon DEF ServeBegins, SetServer, ServerType, Waited
    <2>2. CASE WaiterCloses(i)
      BY <1>1, <2>2, Zenon DEF WaiterCloses, SetServer, ServerType, Waited, ServerInv
    <2>3. CASE WaiterDone(i)
      BY <1>1, <2>3, Zenon DEF WaiterDone, SetServer, ServerType, Waited, ServerInv
    <2>4. CASE ServeReturns(i) \/ ServeFails(i)
      BY <1>1, <2>4 DEF ServeReturns, ServeFails, SetServer, ServerType, Waited
    <2>5. CASE Cancel(i)
      <3> DEFINE q == [http[i] EXCEPT !.cancelled = TRUE]
      <3>1. q \in ServerType /\ q.waiter = http[i].waiter /\ q.serve = http[i].serve
        BY <1>1, Zenon DEF ServerType
      <3>2. http' = [http EXCEPT ![i] = q] /\ port' = port
        BY <2>5 DEF Cancel, SetServer
      <3> HIDE DEF q
      <3> QED
        BY <3>1, <3>2, Zenon DEF Waited, ServerInv
    <2> QED
      BY <2>1, <2>2, <2>3, <2>4, <2>5 DEF ServerStep
  <1>3. PICK q \in ServerType :
          /\ http' = [http EXCEPT ![i] = q] /\ port' \subseteq port
          /\ i \in port' => q.serve # "done"
          /\ Waited(i) => q.waiter = "done" /\ q.serve = "done"
    BY <1>2, Zenon
  <1>4. /\ http' \in Seq(ServerType) /\ Len(http') = Len(http) /\ DOMAIN http' = DOMAIN http
        /\ \A j \in DOMAIN http : http'[j] = IF j = i THEN q ELSE http[j]
    BY <1>3 DEF ServerInv
  <1> QED
    BY <1>3, <1>4 DEF ServerInv, Waited

\* Run of a server adds it, with its two goroutines not yet begun.
LEMMA RunServerStep ==
  ASSUME ServerInv, RunServer
  PROVE  /\ ServerInv' /\ Len(http') = Len(http) + 1
         /\ DOMAIN http' = DOMAIN http \cup {Len(http')} /\ \A j \in DOMAIN http : http'[j] = http[j]
  <1> DEFINE q == [cancelled |-> FALSE, waiter |-> "wait", serve |-> "starting"]
  <1>1. q \in ServerType /\ q.serve # "done"
    BY DEF ServerType
  <1>2. http' = Append(http, q) /\ port' = port \cup {Len(http) + 1}
    BY DEF RunServer
  <1> HIDE DEF q
  <1>3. /\ http' \in Seq(ServerType) /\ Len(http') = Len(http) + 1 /\ http'[Len(http')] = q
        /\ DOMAIN http' = DOMAIN http \cup {Len(http')} /\ \A j \in DOMAIN http : http'[j] = http[j]
    BY <1>1, <1>2 DEF ServerInv
  <1> QED
    BY <1>1, <1>2, <1>3 DEF ServerInv

(***************************************************************************)
(* Steps that leave Exec and the map alone                                 *)
(***************************************************************************)
LEMMA QuietControl ==
  ASSUME ControlInv, UNCHANGED <<exec, services, order>>, Len(geo') = Len(geo), Len(http') = Len(http)
  PROVE  ControlInv'
  BY DEF ControlInv, TypeOK, Name

\* A step that leaves the owners alone.
LEMMA QuietOwn ==
  ASSUME OwnInv, UNCHANGED <<exec, services, order, loose, portTaken>>,
         Len(geo') = Len(geo), DOMAIN geo' = DOMAIN geo, DOMAIN http' = DOMAIN http,
         \A j \in DOMAIN geo : geo'[j].closing = geo[j].closing /\ (Ended(j) => Ended(j)'),
         \A j \in DOMAIN http : Waited(j) => Waited(j)'
  PROVE  OwnInv'
  BY DEF OwnInv, Mapped, BeingShut, Name, Alive, RestartFindsPortFree

\* A step that leaves the geoip instances alone.
LEMMA QuietGeo ==
  ASSUME UNCHANGED geo
  PROVE  /\ GeoInv => GeoInv'
         /\ LookupInv /\ UNCHANGED lookup => LookupInv'
         /\ Len(geo') = Len(geo) /\ DOMAIN geo' = DOMAIN geo
         /\ \A j \in DOMAIN geo : geo'[j].closing = geo[j].closing /\ (Ended(j) => Ended(j)')
  BY DEF GeoInv, GeoGood, LookupInv, LookupUsesOpenReader, Ended

\* A step that leaves the servers alone.
LEMMA QuietHttp ==
  ASSUME UNCHANGED <<http, port>>
  PROVE  /\ ServerInv => ServerInv'
         /\ Len(http') = Len(http) /\ DOMAIN http' = DOMAIN http
         /\ \A j \in DOMAIN http : Waited(j) => Waited(j)'
  BY DEF ServerInv, Waited

\* The steps of the goroutines that the services started.
LEMMA GoroutineSteps ==
  ASSUME Inv,
         \/ \E i \in DOMAIN geo : (Reload(i) \/ RunStep(i)) /\ UNCHANGED <<httpVars, control>>
         \/ \E i \in DOMAIN http : (ServerStep(i) \/ ServeFails(i)) /\ UNCHANGED <<geoVars, control>>
         \/ \E c \in Client : /\ LookupStep(c) \/ \E i \in DOMAIN geo : GetCountry(c, i)
                              /\ UNCHANGED <<httpVars, control>>
         \/ UNCHANGED <<geoVars, http, port, control>>
  PROVE  Inv'
  <1>1. UNCHANGED <<exec, services, order, loose, portTaken>>
    BY DEF control, outer
  <1>2. CASE \E i \in DOMAIN geo : (Reload(i) \/ RunStep(i)) /\ UNCHANGED <<httpVars, control>>
    <2>1. UNCHANGED <<http, port>>
      BY <1>2 DEF httpVars
    <2> QED
      BY <1>1, <1>2, <2>1, RunSteps, QuietHttp, QuietControl, QuietOwn DEF Inv
  <1>3. CASE \E i \in DOMAIN http : (ServerStep(i) \/ ServeFails(i)) /\ UNCHANGED <<geoVars, control>>
    <2>1. UNCHANGED geo /\ UNCHANGED lookup
      BY <1>3 DEF geoVars
    <2> QED
      BY <1>1, <1>3, <2>1, ServerSteps, QuietGeo, QuietControl, QuietOwn DEF Inv
  <1>4. CASE \E c \in Client : /\ LookupStep(c) \/ \E i \in DOMAIN geo : GetCountry(c, i)
                               /\ UNCHANGED <<httpVars, control>>
    <2>1. UNCHANGED <<http, port>>
      BY <1>4 DEF httpVars
    <2> QED
      BY <1>1, <1>4, <2>1, LookupSteps, QuietGeo, QuietHttp, QuietControl, QuietOwn DEF Inv
  <1>5. CASE UNCHANGED <<geoVars, http, port, control>>
    <2>1. UNCHANGED geo /\ UNCHANGED lookup /\ UNCHANGED <<http, port>>
      BY <1>5 DEF geoVars
    <2> QED
      BY <1>1, <2>1, QuietGeo, QuietHttp, QuietControl, QuietOwn DEF Inv
  <1> QED
    BY <1>2, <1>3, <1>4, <1>5

(***************************************************************************)
(* Steps of Exec                                                           *)
(***************************************************************************)
LEMMA ExecTyped ==
  ASSUME ControlInv, NEW l \in Places, exec' = At(l)
  PROVE  /\ exec' \in ExecType
         /\ exec'.pc = l /\ exec'.next = exec.next /\ exec'.idx = exec.idx
  BY DEF ControlInv, At, ExecType

\* The end of the process: nothing else changes.
LEMMA Fatal ==
  ASSUME Inv, exec' = At("fatal"), UNCHANGED <<geo, lookup, http, port, services, order, loose>>,
         ~portTaken'
  PROVE  Inv'
  <1>1. ControlInv'
    BY ExecTyped DEF Places, Inv, ControlInv, TypeOK
  <1>2. OwnInv'
    BY ExecTyped, QuietGeo, QuietHttp DEF Places, Inv, OwnInv, Mapped, Alive, RestartFindsPortFree
  <1> QED
    BY <1>1, <1>2, QuietGeo, QuietHttp DEF Inv

\* RegisterService adds the name to the map and at the end of the order.
LEMMA Registered ==
  ASSUME ControlInv, NEW s \in {"geoip", "http"}, NEW i \in Nat, RegisterService(s, i)
  PROVE  /\ order' \in Seq({"geoip", "http"}) /\ Len(order') = Len(order) + 1
         /\ {order'[k] : k \in DOMAIN order'} = DOMAIN services'
         /\ s \notin DOMAIN services /\ DOMAIN services' = DOMAIN services \cup {s}
         /\ services' \in [DOMAIN services' -> Nat] /\ services'[s] = i
         /\ \A t \in DOMAIN services : services'[t] = services[t]
  <1>1. order \in Seq({"geoip", "http"}) /\ services \in [DOMAIN services -> Nat]
        /\ {order[k] : k \in DOMAIN order} = DOMAIN services
    BY DEF ControlInv, TypeOK
  <1>2. /\ s \notin DOMAIN services /\ order' = Append(order, s)
        /\ services' = [t \in DOMAIN services \cup {s} |-> IF t = s THEN i ELSE services[t]]
    BY DEF RegisterService
  <1>3. /\ order' \in Seq({"geoip", "http"}) /\ Len(order') = Len(order) + 1
        /\ DOMAIN order' = DOMAIN order \cup {Len(order) + 1} /\ order'[Len(order) + 1] = s
        /\ \A k \in DOMAIN order : order'[k] = order[k]
    BY <1>1, <1>2
  <1>4. {order'[k] : k \in DOMAIN order'} = DOMAIN services \cup {s}
    <2>1. \A k \in DOMAIN order' : order'[k] \in DOMAIN services \cup {s}
      BY <1>1, <1>3
    <2>2. \A t \in DOMAIN services : \E k \in DOMAIN order : order[k] = t
      BY <1>1
    <2>3. \A t \in DOMAIN services \cup {s} : \E k \in DOMAIN order' : order'[k] = t
      BY <1>3, <2>2
    <2> QED
      BY <2>1, <2>3
  <1> QED
    BY <1>1, <1>2, <1>3, <1>4

\* The manager starts the geoip service.
LEMMA StartGeoipStep ==
  ASSUME Inv, StartGeoip
  PROVE  Inv'
  <1>0. exec.pc = "start" /\ UNCHANGED <<http, port, loose, portTaken>>
    BY DEF StartGeoip, httpVars, outer
  <1>1. exec.pc = "start" /\ ~portTaken' /\ UNCHANGED <<http, port, loose>>
    <2>1. ~portTaken /\ portTaken' = portTaken
      BY <1>0, Zenon DEF Inv, OwnInv, RestartFindsPortFree
    <2>2. ~portTaken'
      BY <2>1, Zenon
    <2> QED
      BY <1>0, <2>2
  <1>2. CASE exec' = At("fatal") /\ UNCHANGED <<geoVars, services, order>>
    BY <1>1, <1>2, Fatal DEF geoVars
  <1>3. CASE /\ NewGeoip /\ RegisterService("geoip", Len(geo) + 1)
             /\ exec' = At("startHttp") /\ UNCHANGED lookup
    <2>1. /\ GeoInv' /\ LookupInv' /\ Len(geo') = Len(geo) + 1
          /\ geo'[Len(geo')].closing = 0
          /\ DOMAIN geo' = DOMAIN geo \cup {Len(geo')} /\ \A j \in DOMAIN geo : geo'[j] = geo[j]
      BY <1>3, NewGeoipStep DEF Inv
    <2>2. Len(geo) \in Nat /\ DOMAIN services = {}
      <3>1. order = <<>> /\ {order[k] : k \in DOMAIN order} = DOMAIN services
        BY <1>1 DEF Inv, ControlInv, TypeOK
      <3>2. DOMAIN order = {}
        BY <3>1
      <3> QED
        BY <3>1, <3>2 DEF Inv, GeoInv
    <2>3. /\ order' \in Seq({"geoip", "http"}) /\ Len(order') = Len(order) + 1
          /\ {order'[k] : k \in DOMAIN order'} = DOMAIN services'
          /\ DOMAIN services' = {"geoip"}
          /\ services' \in [DOMAIN services' -> Nat] /\ services'["geoip"] = Len(geo')
      <3>1. RegisterService("geoip", Len(geo')) /\ Len(geo') \in Nat /\ ControlInv
        BY <1>3, <2>1, <2>2 DEF Inv
      <3> QED
        BY <2>2, <3>1, Registered
    <2>4. ControlInv'
      <3>1. exec' \in ExecType
            /\ exec'.pc = "startHttp" /\ exec'.idx = exec.idx
        BY <1>3, ExecTyped DEF Places, Inv
      <3>2. exec'.idx \in 0 .. Len(order')
        BY <2>3, <3>1 DEF Inv, ControlInv, TypeOK
      <3>3. \A t \in DOMAIN services' : services'[t] # 0 /\ services'[t] \in 0 .. (IF t = "geoip" THEN Len(geo') ELSE Len(http'))
        BY <2>1, <2>2, <2>3
      <3> QED
        BY <2>3, <3>1, <3>2, <3>3, Zenon DEF ControlInv, TypeOK
    <2>5. OwnInv'
      <3>1. services'["geoip"] = Len(geo') /\ "geoip" \in DOMAIN services'
        BY <2>3
      <3>2. \A i \in DOMAIN http : Waited(i)
        BY <2>2 DEF Inv, OwnInv, Mapped
      <3>3. \A i \in DOMAIN http' : Waited(i)'
        BY <1>1, <3>2, QuietHttp
      <3>4. \A i \in DOMAIN geo : (i \in loose \/ Ended(i)) /\ geo[i].closing = 0
        BY <1>1, <2>2 DEF Inv, OwnInv, Mapped, BeingShut, Alive
      <3> QED
        BY <1>1, <2>1, <3>1, <3>3, <3>4 DEF OwnInv, Mapped, Ended, RestartFindsPortFree
    <2> QED
      BY <1>1, <2>1, <2>4, <2>5, QuietHttp DEF Inv
  <1> QED
    BY <1>2, <1>3 DEF StartGeoip

\* The manager starts the server.
LEMMA StartHttpStep ==
  ASSUME Inv, StartHttp
  PROVE  Inv'
  <1>1. exec.pc = "startHttp" /\ UNCHANGED <<geo, lookup, loose>>
    BY DEF StartHttp, geoVars, outer
  <1>2. "http" \notin DOMAIN services
    BY <1>1 DEF Inv, ControlInv
  <1>3. \A i \in DOMAIN http : Waited(i)
    BY <1>2 DEF Inv, OwnInv, Mapped
  <1>4. port = {}
    BY <1>3 DEF Inv, ServerInv, Waited
  <1>5. ~portTaken'
    BY <1>4, Zenon DEF StartHttp
  <1>6. CASE exec' = At("fatal") /\ UNCHANGED <<httpVars, services, order>>
    BY <1>1, <1>5, <1>6, Fatal DEF httpVars
  <1>7. CASE /\ RunServer /\ RegisterService("http", Len(http) + 1)
             /\ exec' = At("loop")
    <2>1. /\ ServerInv' /\ Len(http') = Len(http) + 1
          /\ DOMAIN http' = DOMAIN http \cup {Len(http')} /\ \A j \in DOMAIN http : http'[j] = http[j]
      BY <1>7, RunServerStep DEF Inv
    <2>2. Len(http) \in Nat /\ Len(geo) \in Nat
      BY DEF Inv, ServerInv, GeoInv
    <2>3. /\ order' \in Seq({"geoip", "http"}) /\ Len(order') = Len(order) + 1
          /\ {order'[k] : k \in DOMAIN order'} = DOMAIN services'
          /\ DOMAIN services' = DOMAIN services \cup {"http"}
          /\ services' \in [DOMAIN services' -> Nat] /\ services'["http"] = Len(http')
          /\ \A t \in DOMAIN services : services'[t] = services[t]
      <3>1. RegisterService("http", Len(http')) /\ Len(http') \in Nat /\ ControlInv
        BY <1>7, <2>1, <2>2 DEF Inv
      <3> QED
        BY <3>1, Registered, Zenon
    <2>4. ControlInv'
      <3>1. exec' \in ExecType
            /\ exec'.pc = "loop" /\ exec'.idx = exec.idx
        BY <1>7, ExecTyped DEF Places, Inv
      <3>2. exec'.idx \in 0 .. Len(order')
        BY <2>3, <3>1 DEF Inv, ControlInv, TypeOK
      <3>3. \A t \in DOMAIN services' : services'[t] # 0 /\ services'[t] \in 0 .. (IF t = "geoip" THEN Len(geo) ELSE Len(http'))
        BY <1>1, <1>2, <2>1, <2>2, <2>3 DEF Inv, ControlInv, TypeOK
      <3>4. "geoip" \in DOMAIN services'
        BY <1>1, <2>3 DEF Inv, ControlInv
      <3> QED
        BY <1>1, <2>1, <2>3, <3>1, <3>2, <3>3, <3>4 DEF ControlInv, TypeOK
    <2>5. OwnInv'
      <3>1. /\ services'["http"] = Len(http') /\ "http" \in DOMAIN services'
            /\ "geoip" \in DOMAIN services => "geoip" \in DOMAIN services' /\ services'["geoip"] = services["geoip"]
        BY <2>3
      <3>2. \A i \in DOMAIN http' : Waited(i)' \/ i = Len(http')
        BY <1>3, <2>1 DEF Waited
      <3>3. \A i \in DOMAIN geo : (i \in loose \/ Ended(i) \/ Mapped("geoip", i)) /\ geo[i].closing = 0
        BY <1>1 DEF Inv, OwnInv, BeingShut, Alive
      <3> QED
        BY <1>1, <1>5, <3>1, <3>2, <3>3 DEF OwnInv, Mapped, Ended, RestartFindsPortFree
    <2> QED
      BY <1>1, <2>1, <2>4, <2>5, QuietGeo DEF Inv
  <1> QED
    BY <1>6, <1>7 DEF StartHttp

\* A step in which no server fails to bind.
LEMMA PortKept ==
  ASSUME OwnInv, UNCHANGED portTaken
  PROVE  RestartFindsPortFree' /\ ~portTaken'
  <1>1. ~portTaken /\ portTaken' = portTaken
    BY Zenon DEF OwnInv, RestartFindsPortFree
  <1>2. ~portTaken'
    BY <1>1
  <1> QED
    BY <1>2, Zenon DEF RestartFindsPortFree

\* The main loop takes a signal.
LEMMA TakeSignalStep ==
  ASSUME Inv, TakeSignal
  PROVE  Inv'
  <1>1. exec.pc = "loop" /\ UNCHANGED <<geo, lookup, http, port, services, order, loose, portTaken>>
    BY DEF TakeSignal, geoVars, httpVars
  <1>2. exec' \in ExecType /\ exec'.pc = "stop" /\ exec'.next # "loop" /\ exec'.idx = Len(order)
    BY DEF TakeSignal, Inv, ControlInv, ExecType, Places
  <1>3. ControlInv'
    BY <1>1, <1>2 DEF Inv, ControlInv, TypeOK
  <1>4. OwnInv'
    BY <1>1, <1>2, PortKept, QuietGeo, QuietHttp DEF Inv, OwnInv, Mapped, Alive, BeingShut
  <1> QED
    BY <1>1, <1>3, <1>4, QuietGeo, QuietHttp DEF Inv

\* The main loop takes an event.
LEMMA TakeEventStep ==
  ASSUME Inv, NEW e \in Emitter, TakeEvent(e)
  PROVE  Inv'
  <1>1. exec.pc = "loop" /\ UNCHANGED <<http, port, services, order, loose, portTaken>>
    BY DEF TakeEvent, httpVars
  <1>2. CASE UNCHANGED <<geoVars, exec>>
    <2>1. UNCHANGED geo /\ UNCHANGED lookup /\ UNCHANGED exec
      BY <1>2 DEF geoVars
    <2> QED
      BY <1>1, <2>1, QuietGeo, QuietHttp, QuietControl, QuietOwn DEF Inv
  <1>3. CASE NewGeoip /\ exec' = At("replace") /\ UNCHANGED lookup
    <2>1. /\ GeoInv' /\ LookupInv' /\ Len(geo') = Len(geo) + 1
          /\ geo'[Len(geo')].closing = 0
          /\ DOMAIN geo' = DOMAIN geo \cup {Len(geo')} /\ \A j \in DOMAIN geo : geo'[j] = geo[j]
      BY <1>3, NewGeoipStep, Zenon DEF Inv
    <2>2. exec' \in ExecType /\ exec'.pc = "replace" /\ exec'.idx = exec.idx
      BY <1>3, ExecTyped DEF Places, Inv
    <2>3. ControlInv'
      <3>1. \A t \in DOMAIN services : services[t] \in 0 .. (IF t = "geoip" THEN Len(geo') ELSE Len(http))
        BY <2>1 DEF Inv, ControlInv, TypeOK, GeoInv
      <3> QED
        BY <1>1, <2>2, <3>1 DEF Inv, ControlInv, TypeOK
    <2>4. OwnInv'
      <3>1. \A i \in DOMAIN geo : (i \in loose \/ Ended(i) \/ Mapped("geoip", i)) /\ geo[i].closing = 0
        BY <1>1 DEF Inv, OwnInv, BeingShut, Alive
      <3> QED
        BY <1>1, <2>1, <2>2, <3>1, PortKept, QuietHttp DEF Inv, OwnInv, Mapped, Ended
    <2> QED
      BY <1>1, <2>1, <2>3, <2>4, QuietHttp DEF Inv
  <1> QED
    BY <1>2, <1>3 DEF TakeEvent

\* Replace shuts the old service down.
LEMMA ReplaceBeginStep ==
  ASSUME Inv, ReplaceBegin
  PROVE  Inv'
  <1> DEFINE i == services["geoip"]
  <1>1. exec.pc = "replace" /\ UNCHANGED <<lookup, http, port, services, order, loose, portTaken>>
    BY DEF ReplaceBegin, httpVars, outer
  <1>2. "geoip" \in DOMAIN services /\ i \in DOMAIN geo
    BY <1>1 DEF Inv, ControlInv, TypeOK, GeoInv
  <1>3. \A j \in DOMAIN geo : geo[j].closing = 0
    BY <1>1 DEF Inv, OwnInv, BeingShut, Alive
  <1>4. /\ GeoInv' /\ LookupInv' /\ Len(geo') = Len(geo) /\ DOMAIN geo' = DOMAIN geo
        /\ \A j \in DOMAIN geo : j # i => geo'[j] = geo[j]
    <2>1. ShutdownBegin(i)
      BY DEF ReplaceBegin
    <2> HIDE DEF i
    <2> QED
      BY <1>1, <1>2, <1>3, <2>1, ShutdownBegins DEF Inv
  <1>5. exec' \in ExecType /\ exec'.pc \in {"replacing", "fatal"} /\ exec'.idx = exec.idx
    BY ExecTyped DEF ReplaceBegin, Places, Inv
  <1>6. ControlInv'
    BY <1>1, <1>4, <1>5 DEF Inv, ControlInv, TypeOK
  <1>7. OwnInv'
    <2>1. \A j \in DOMAIN geo : j \in loose \/ Ended(j) \/ j = i \/ j = Len(geo)
      BY <1>1 DEF Inv, OwnInv, Mapped
    <2>2. \A j \in DOMAIN geo' : \/ j \in loose' \/ Ended(j)' \/ Mapped("geoip", j)' \/ exec'.pc = "fatal"
                                 \/ exec'.pc \in {"replace", "replacing"} /\ j = Len(geo')
      BY <1>1, <1>2, <1>4, <1>5, <2>1 DEF Mapped, Ended
    <2>3. \A j \in DOMAIN geo' : geo'[j].closing = 0 \/ BeingShut(j)' \/ ~Alive'
      BY <1>1, <1>3, <1>4, <1>5 DEF BeingShut, Alive
    <2> QED
      BY <1>1, <2>2, <2>3, PortKept, QuietHttp DEF Inv, OwnInv, Mapped
  <1> QED
    BY <1>1, <1>4, <1>6, <1>7, QuietHttp DEF Inv

\* Replace installs the new service.
LEMMA ReplaceEndStep ==
  ASSUME Inv, ReplaceEnd
  PROVE  Inv'
  <1>1. exec.pc = "replacing" /\ UNCHANGED <<lookup, http, port, order, portTaken>>
    BY DEF ReplaceEnd, httpVars
  <1>2. /\ "geoip" \in DOMAIN services /\ services["geoip"] \in DOMAIN geo
        /\ services \in [DOMAIN services -> Nat]
        /\ Len(geo) \in Nat /\ Len(geo) \in DOMAIN geo /\ Len(geo) # 0
    BY <1>1 DEF Inv, ControlInv, TypeOK, GeoInv
  <1>0. PICK i \in DOMAIN geo : i = services["geoip"]
    BY <1>2
  <1>3. \A j \in DOMAIN geo : j # i => geo[j].closing = 0
    BY <1>1, <1>0 DEF Inv, OwnInv, BeingShut, Alive
  <1>4. /\ GeoInv' /\ LookupInv' /\ Len(geo') = Len(geo) /\ DOMAIN geo' = DOMAIN geo
        /\ \A j \in DOMAIN geo : j # i => geo'[j] = geo[j]
        /\ geo'[i].closing = 0 /\ (~GeoRunning(i) => Ended(i)')
    <2>1. ShutdownMayEnd(i) /\ ShutdownEnd(i)
      BY <1>0 DEF ReplaceEnd
    <2> QED
      BY <1>1, <1>2, <2>1, ShutdownEnds DEF Inv
  <1>5. exec' \in ExecType /\ exec'.pc = "loop" /\ exec'.idx = exec.idx
    BY ExecTyped DEF ReplaceEnd, Places, Inv
  <1>6. \/ /\ services' = [services EXCEPT !["geoip"] = Len(geo)]
           /\ loose' = IF GeoRunning(i) THEN loose \cup {i} ELSE loose
        \/ loose' = loose \cup {Len(geo)} /\ UNCHANGED services
    BY <1>0 DEF ReplaceEnd
  <1>7. /\ DOMAIN services' = DOMAIN services /\ services' \in [DOMAIN services -> Nat]
        /\ \A t \in DOMAIN services : t # "geoip" => services'[t] = services[t]
        /\ services'["geoip"] \in {i, Len(geo)}
    <2>1. CASE services' = [services EXCEPT !["geoip"] = Len(geo)]
      BY <1>2, <2>1
    <2>2. CASE UNCHANGED services
      BY <1>2, <1>0, <2>2
    <2> QED
      BY <1>6, <2>1, <2>2
  <1>8. ControlInv'
    <2>1. TypeOK'
      BY <1>1, <1>2, <1>4, <1>5, <1>7 DEF Inv, ControlInv, TypeOK
    <2>2. \A s \in DOMAIN services' : services'[s] # 0
      BY <1>1, <1>2, <1>7 DEF Inv, ControlInv
    <2> QED
      BY <1>1, <1>2, <1>5, <1>7, <2>1, <2>2 DEF Inv, ControlInv
  <1>9. OwnInv'
    <2>1. \A j \in DOMAIN geo : j \in loose \/ Ended(j) \/ j = i \/ j = Len(geo)
      BY <1>1, <1>0 DEF Inv, OwnInv, Mapped
    <2>2. \A j \in DOMAIN geo' : j \in loose' \/ Ended(j)' \/ Mapped("geoip", j)'
      <3>1. \A j \in DOMAIN geo : j # i /\ Ended(j) => Ended(j)'
        BY <1>4 DEF Ended
      <3>2. CASE /\ services' = [services EXCEPT !["geoip"] = Len(geo)]
                 /\ loose' = IF GeoRunning(i) THEN loose \cup {i} ELSE loose
        <4>1. services'["geoip"] = Len(geo) /\ "geoip" \in DOMAIN services'
          BY <1>2, <3>2
        <4> QED
          BY <1>4, <2>1, <3>1, <3>2, <4>1 DEF Mapped
      <3>3. CASE loose' = loose \cup {Len(geo)} /\ UNCHANGED services
        BY <1>2, <1>0, <1>4, <2>1, <3>1, <3>3 DEF Mapped
      <3> QED
        BY <1>6, <3>2, <3>3
    <2>3. \A j \in DOMAIN geo' : geo'[j].closing = 0
      BY <1>3, <1>4
    <2>4. \A j \in DOMAIN http : Mapped("http", j) => Mapped("http", j)'
      BY <1>7 DEF Mapped
    <2> QED
      BY <1>1, <2>2, <2>3, <2>4, PortKept, QuietHttp DEF Inv, OwnInv
  <1> QED
    BY <1>1, <1>4, <1>8, <1>9, QuietHttp DEF Inv

\* While the map is shut down, the name at the index is one of its names.
LEMMA NameMapped ==
  ASSUME Inv, exec.pc \in {"stop", "stopping"}, exec.idx > 0
  PROVE  /\ exec.idx \in DOMAIN order /\ Name \in DOMAIN services /\ Name \in {"geoip", "http"}
         /\ services[Name] # 0 => services[Name] \in (IF Name = "geoip" THEN DOMAIN geo ELSE DOMAIN http)
  <1>1. exec.idx \in DOMAIN order
    BY DEF Inv, ControlInv, ExecType, TypeOK
  <1>2. Name \in DOMAIN services /\ Name \in {"geoip", "http"}
    BY <1>1 DEF Inv, ControlInv, TypeOK, Name
  <1> QED
    BY <1>1, <1>2 DEF Inv, ControlInv, TypeOK, GeoInv, ServerInv

\* Shutdown calls the next service.
LEMMA ShutdownCallStep ==
  ASSUME Inv, ShutdownCall
  PROVE  Inv'
  <1>1. exec.pc = "stop" /\ exec.idx > 0 /\ UNCHANGED <<lookup, services, order, loose, portTaken>>
    BY DEF ShutdownCall, outer
  <1>2. \A j \in DOMAIN geo : geo[j].closing = 0 /\ (j \in loose \/ Ended(j) \/ Mapped("geoip", j))
    BY <1>1 DEF Inv, OwnInv, BeingShut, Alive
  <1>3. CASE exec' = At("fatal") /\ UNCHANGED <<geo, httpVars>>
    <2>1. UNCHANGED <<http, port>>
      BY <1>3 DEF httpVars
    <2> QED
      BY <1>1, <1>3, <2>1, Fatal, PortKept DEF Inv
  <1>4. CASE /\ services[Name] # 0 /\ Name = "geoip"
             /\ ShutdownBegin(services[Name]) /\ UNCHANGED httpVars
             /\ exec' = At(IF ShutdownPanics(services[Name]) THEN "fatal" ELSE "stopping")
    <2>1. PICK i \in DOMAIN geo : i = services[Name]
      BY <1>1, <1>4, NameMapped
    <2>2. UNCHANGED <<http, port>>
      BY <1>4 DEF httpVars
    <2>3. /\ GeoInv' /\ LookupInv' /\ Len(geo') = Len(geo) /\ DOMAIN geo' = DOMAIN geo
          /\ \A j \in DOMAIN geo : j # i => geo'[j] = geo[j]
      BY <1>1, <1>2, <1>4, <2>1, ShutdownBegins DEF Inv
    <2>4. exec' \in ExecType /\ exec'.pc \in {"stopping", "fatal"} /\ exec'.idx = exec.idx /\ exec'.next = exec.next
      BY <1>4, ExecTyped DEF Places, Inv
    <2>5. Name' = Name
      BY <1>1, <2>4 DEF Name
    <2>6. ControlInv'
      BY <1>1, <1>4, <2>2, <2>3, <2>4, <2>5 DEF Inv, ControlInv, TypeOK
    <2>7. OwnInv'
      <3>1. Mapped("geoip", i) /\ Name' = "geoip" /\ services'[Name'] = i
        BY <1>1, <1>4, <2>1, <2>5, NameMapped DEF Mapped
      <3>2. \A j \in DOMAIN geo' : j \in loose' \/ Ended(j)' \/ Mapped("geoip", j)'
        BY <1>1, <1>2, <2>3, <3>1 DEF Ended, Mapped
      <3>3. \A j \in DOMAIN geo' : geo'[j].closing = 0 \/ BeingShut(j)' \/ ~Alive'
        BY <1>2, <2>3, <2>4, <3>1 DEF BeingShut, Alive
      <3> QED
        BY <1>1, <2>2, <3>2, <3>3, PortKept, QuietHttp DEF Inv, OwnInv, Mapped
    <2> QED
      BY <2>2, <2>3, <2>6, <2>7, QuietHttp DEF Inv
  <1>5. CASE /\ services[Name] # 0 /\ Name = "http"
             /\ Cancel(services[Name]) /\ exec' = At("stopping") /\ UNCHANGED geo
    <2>1. PICK i \in DOMAIN http : i = services[Name]
      BY <1>1, <1>5, NameMapped
    <2>2. /\ ServerInv' /\ Len(http') = Len(http) /\ DOMAIN http' = DOMAIN http
          /\ \A j \in DOMAIN http : Waited(j) => Waited(j)'
      BY <1>5, <2>1, ServerSteps DEF Inv
    <2>3. exec' \in ExecType /\ exec'.pc = "stopping" /\ exec'.idx = exec.idx /\ exec'.next = exec.next
      BY <1>5, ExecTyped DEF Places, Inv
    <2>4. Name' = Name
      BY <1>1, <2>3 DEF Name
    <2>5. ControlInv'
      BY <1>1, <1>5, <2>2, <2>3, <2>4 DEF Inv, ControlInv, TypeOK
    <2>6. OwnInv'
      BY <1>1, <1>2, <1>5, <2>2, PortKept, QuietGeo DEF Inv, OwnInv, Mapped
    <2> QED
      BY <1>1, <1>5, <2>2, <2>5, <2>6, QuietGeo DEF Inv
  <1> QED
    BY <1>3, <1>4, <1>5 DEF ShutdownCall

\* A service that has ended leaves the map, and the index goes down.
LEMMA Dropped ==
  ASSUME Inv, exec.pc = "stopping", UNCHANGED order, Len(geo') = Len(geo), Len(http') = Len(http),
         exec' = [exec EXCEPT !.pc = "stop", !.idx = @ - 1], services' = [services EXCEPT ![Name] = 0]
  PROVE  /\ ControlInv' /\ exec'.pc = "stop" /\ DOMAIN services' = DOMAIN services
         /\ \A s \in DOMAIN services : services'[s] = IF s = Name THEN 0 ELSE services[s]
  <1>1. exec.idx > 0 /\ exec.idx \in DOMAIN order /\ Name \in DOMAIN services
    <2>1. exec.idx > 0
      BY DEF Inv, ControlInv
    <2> QED
      BY <2>1, NameMapped
  <1>2. exec' \in ExecType /\ exec'.pc = "stop" /\ exec'.idx = exec.idx - 1 /\ exec'.next = exec.next
    <2>1. exec \in ExecType
      BY DEF Inv, ControlInv
    <2>2. exec.idx - 1 \in Nat
      BY <1>1, <2>1 DEF ExecType
    <2>3. exec' = [exec EXCEPT !.pc = "stop", !.idx = exec.idx - 1]
      OBVIOUS
    <2> QED
      BY <2>1, <2>2, <2>3, Zenon DEF ExecType, Places
  <1>3. /\ DOMAIN services' = DOMAIN services /\ services' \in [DOMAIN services -> Nat]
        /\ \A s \in DOMAIN services : services'[s] = IF s = Name THEN 0 ELSE services[s]
    BY <1>1 DEF Inv, ControlInv
  <1>4. \A k \in DOMAIN order : k > exec.idx - 1 => services'[order[k]] = 0
    <2> SUFFICES ASSUME NEW k \in DOMAIN order, k > exec.idx - 1 PROVE services'[order[k]] = 0
      OBVIOUS
    <2>1. order[k] \in DOMAIN services
      BY DEF Inv, ControlInv, TypeOK
    <2>2. k > exec.idx \/ k = exec.idx
      BY <1>1 DEF Inv, ControlInv
    <2>3. k > exec.idx => services[order[k]] = 0
      BY DEF Inv, ControlInv
    <2> QED
      BY <1>3, <2>1, <2>2, <2>3 DEF Name
  <1>5. TypeOK'
    <2>1. \A s \in DOMAIN services' : services'[s] \in 0 .. (IF s = "geoip" THEN Len(geo') ELSE Len(http'))
      BY <1>3 DEF Inv, ControlInv, TypeOK, GeoInv, ServerInv
    <2>2. exec'.idx \in 0 .. Len(order')
      BY <1>1, <1>2 DEF Inv, ControlInv, TypeOK
    <2> QED
      BY <1>2, <1>3, <2>1, <2>2 DEF Inv, ControlInv, TypeOK
  <1> QED
    BY <1>2, <1>3, <1>4, <1>5 DEF Inv, ControlInv

\* Shutdown of a service returns.
LEMMA ShutdownReturnStep ==
  ASSUME Inv, ShutdownReturn
  PROVE  Inv'
  <1>1. exec.pc = "stopping" /\ UNCHANGED <<lookup, http, port, order, loose, portTaken>>
    BY DEF ShutdownReturn, httpVars, outer
  <1>2. services[Name] # 0 /\ exec.idx > 0
    BY <1>1 DEF Inv, ControlInv
  <1>3. Name \in DOMAIN services
    BY <1>1, <1>2, NameMapped
  <1>4. CASE /\ Name = "geoip" /\ ShutdownMayEnd(services[Name]) /\ ShutdownEnd(services[Name])
             /\ \/ exec' = At("fatal") /\ UNCHANGED services
                \/ /\ ~GeoRunning(services[Name])
                   /\ exec' = [exec EXCEPT !.pc = "stop", !.idx = @ - 1]
                   /\ services' = [services EXCEPT ![Name] = 0]
    <2>1. PICK i \in DOMAIN geo : i = services[Name]
      BY <1>1, <1>2, <1>4, NameMapped
    <2>2. /\ GeoInv' /\ LookupInv' /\ Len(geo') = Len(geo) /\ DOMAIN geo' = DOMAIN geo
          /\ \A j \in DOMAIN geo : j # i => geo'[j] = geo[j]
          /\ geo'[i].closing = 0 /\ (~GeoRunning(i) => Ended(i)')
      BY <1>1, <1>4, <2>1, ShutdownEnds DEF Inv
    <2>3. \A j \in DOMAIN geo : j # i => geo[j].closing = 0 /\ (j \in loose \/ Ended(j))
      BY <1>1, <1>3, <1>4, <2>1 DEF Inv, OwnInv, BeingShut, Alive, Mapped
    <2>4. \A j \in DOMAIN geo' : geo'[j].closing = 0 /\ (j # i => j \in loose' \/ Ended(j)')
      BY <1>1, <2>2, <2>3 DEF Ended
    <2>5. CASE exec' = At("fatal") /\ UNCHANGED services
      <3>1. exec' \in ExecType /\ exec'.pc = "fatal" /\ exec'.idx = exec.idx
        BY <2>5, ExecTyped DEF Places, Inv
      <3>2. ControlInv'
        <4>1. TypeOK'
          BY <1>1, <2>2, <2>5, <3>1 DEF Inv, ControlInv, TypeOK
        <4> QED
          BY <1>1, <2>5, <3>1, <4>1 DEF Inv, ControlInv
      <3>3. OwnInv'
        BY <1>1, <2>4, <2>5, <3>1, PortKept, QuietHttp DEF Inv, OwnInv, Mapped
      <3> QED
        BY <1>1, <2>2, <3>2, <3>3, QuietHttp DEF Inv
    <2>6. CASE /\ ~GeoRunning(i)
               /\ exec' = [exec EXCEPT !.pc = "stop", !.idx = @ - 1]
               /\ services' = [services EXCEPT ![Name] = 0]
      <3>1. /\ ControlInv' /\ exec'.pc = "stop" /\ DOMAIN services' = DOMAIN services
            /\ \A s \in DOMAIN services : services'[s] = IF s = Name THEN 0 ELSE services[s]
        BY <1>1, <2>2, <2>6, Dropped
      <3>2. \A j \in DOMAIN geo' : j \in loose' \/ Ended(j)'
        BY <2>2, <2>4, <2>6
      <3>3. \A j \in DOMAIN http : Mapped("http", j) => Mapped("http", j)'
        BY <1>4, <3>1 DEF Mapped
      <3>4. OwnInv'
        BY <1>1, <2>4, <3>2, <3>3, PortKept, QuietHttp DEF Inv, OwnInv
      <3> QED
        BY <1>1, <2>2, <3>1, <3>4, QuietHttp DEF Inv
    <2> QED
      BY <1>4, <2>1, <2>5, <2>6
  <1>5. CASE /\ Name = "http" /\ Waited(services[Name])
             /\ exec' = [exec EXCEPT !.pc = "stop", !.idx = @ - 1]
             /\ services' = [services EXCEPT ![Name] = 0]
             /\ UNCHANGED geo
    <2>1. /\ ControlInv' /\ exec'.pc = "stop" /\ DOMAIN services' = DOMAIN services
          /\ \A s \in DOMAIN services : services'[s] = IF s = Name THEN 0 ELSE services[s]
      BY <1>1, <1>5, Dropped
    <2>2. \A j \in DOMAIN http : Waited(j)
      BY <1>5 DEF Inv, OwnInv, Mapped
    <2>3. \A j \in DOMAIN geo : geo[j].closing = 0 /\ (j \in loose \/ Ended(j) \/ Mapped("geoip", j))
      BY <1>1, <1>5 DEF Inv, OwnInv, BeingShut, Alive
    <2>4. \A j \in DOMAIN geo : Mapped("geoip", j) => Mapped("geoip", j)'
      BY <1>5, <2>1 DEF Mapped
    <2>5. OwnInv'
      BY <1>1, <1>5, <2>2, <2>3, <2>4, PortKept, QuietHttp, QuietGeo DEF Inv, OwnInv
    <2> QED
      BY <1>1, <1>5, <2>1, <2>5, QuietHttp, QuietGeo DEF Inv
  <1> QED
    BY <1>4, <1>5 DEF ShutdownReturn

\* Shutdown has gone through the services and clears the maps.
LEMMA ShutdownEmptyStep ==
  ASSUME Inv, ShutdownEmpty
  PROVE  Inv'
  <1>1. /\ exec.pc = "stop" /\ exec.idx = 0 /\ order' = <<>> /\ services' = [s \in {} |-> 0]
        /\ UNCHANGED <<geo, lookup, http, port, loose, portTaken>>
    BY DEF ShutdownEmpty, geoVars, httpVars, outer
  <1>2. exec.next \in {"start", "exit"}
    BY <1>1 DEF Inv, ControlInv, ExecType
  <1>3. exec' \in ExecType /\ exec'.pc \in {"start", "exit"} /\ exec'.idx = 0
    BY <1>1, <1>2, ExecTyped DEF ShutdownEmpty, Places, Inv
  <1>4. ControlInv'
    <2>1. order' \in Seq({"geoip", "http"}) /\ DOMAIN order' = {} /\ Len(order') = 0 /\ DOMAIN services' = {}
      BY <1>1
    <2>2. {order'[k] : k \in DOMAIN order'} = {} /\ services' \in [DOMAIN services' -> Nat]
      BY <1>1, <2>1
    <2> QED
      BY <1>1, <1>3, <2>1, <2>2 DEF ControlInv, TypeOK
  <1>5. \A s \in DOMAIN services : services[s] = 0
    <2> SUFFICES ASSUME NEW s \in DOMAIN services PROVE services[s] = 0
      OBVIOUS
    <2>1. PICK k \in DOMAIN order : order[k] = s
      BY DEF Inv, ControlInv, TypeOK
    <2>2. k > exec.idx
      BY <1>1 DEF Inv, ControlInv
    <2> QED
      BY <1>1, <2>1, <2>2 DEF Inv, ControlInv
  <1>6. \A s, i : i # 0 => ~Mapped(s, i)
    BY <1>5 DEF Mapped
  <1>7. 0 \notin DOMAIN geo /\ 0 \notin DOMAIN http
    BY DEF Inv, GeoInv, ServerInv
  <1>8. /\ \A i \in DOMAIN http : Waited(i)
        /\ \A i \in DOMAIN geo : geo[i].closing = 0 /\ (i \in loose \/ Ended(i))
    BY <1>1, <1>6, <1>7 DEF Inv, OwnInv, BeingShut, Alive
  <1>9. OwnInv'
    BY <1>1, <1>8, PortKept, QuietHttp, QuietGeo DEF Inv, OwnInv
  <1> QED
    BY <1>1, <1>4, <1>9, QuietHttp, QuietGeo DEF Inv

\* A signal arrives.
LEMMA SendSignalStep ==
  ASSUME Inv, NEW s, SendSignal(s)
  PROVE  Inv'
  <1>1. UNCHANGED <<geo, lookup, http, port, services, order, loose, portTaken>>
    BY DEF SendSignal, geoVars, httpVars
  <1>2. CASE exec' = At("fatal")
    BY <1>1, <1>2, Fatal, PortKept DEF Inv
  <1>3. CASE UNCHANGED exec
    BY <1>1, <1>3, QuietGeo, QuietHttp, QuietControl, QuietOwn DEF Inv
  <1> QED
    BY <1>2, <1>3 DEF SendSignal

(***************************************************************************)
(* The invariant is inductive.                                             *)
(***************************************************************************)
LEMMA InitInv == Init => Inv
  <1> SUFFICES ASSUME Init PROVE Inv
    OBVIOUS
  <1>1. geo = <<>> /\ http = <<>> /\ port = {} /\ order = <<>> /\ lookup = [c \in Client |-> NoLookup]
    BY DEF Init, GeoInit, HttpInit
  <1>2. GeoInv /\ ServerInv
    BY <1>1 DEF GeoInv, ServerInv
  <1>3. LookupInv
    BY <1>1 DEF LookupInv, NoLookup, LookupUsesOpenReader
  <1>4. ControlInv
    <2>1. DOMAIN order = {} /\ Len(order) = 0 /\ order \in Seq({"geoip", "http"})
      BY <1>1
    <2>2. exec \in ExecType /\ exec.pc = "start" /\ exec.idx = 0
      BY DEF Init, ExecType, Places
    <2>3. {order[k] : k \in DOMAIN order} = {} /\ DOMAIN services = {} /\ services \in [DOMAIN services -> Nat]
      BY <2>1 DEF Init
    <2> QED
      BY <1>1, <2>1, <2>2, <2>3 DEF ControlInv, TypeOK
  <1>5. RestartFindsPortFree
    BY DEF Init, RestartFindsPortFree
  <1>6. OwnInv
    BY <1>1, <1>5 DEF OwnInv
  <1> QED
    BY <1>2, <1>3, <1>4, <1>6 DEF Inv

\* Every step preserves the invariant.
LEMMA NextInv ==
  ASSUME Inv, [Next]_vars
  PROVE  Inv'
  <1>1. CASE ExecStep
    BY <1>1, StartGeoipStep, StartHttpStep, TakeSignalStep, TakeEventStep, ReplaceBeginStep, ReplaceEndStep,
       ShutdownCallStep, ShutdownReturnStep, ShutdownEmptyStep DEF ExecStep
  <1>2. CASE Environment
    <2>1. CASE \E s \in {"hup", "term"} : SendSignal(s)
      BY <2>1, SendSignalStep
    <2>2. CASE \E e \in Emitter : EmitEvent(e)
      <3>1. UNCHANGED <<exec, services, order, loose, portTaken>> /\ UNCHANGED geo /\ UNCHANGED lookup /\ UNCHANGED <<http, port>>
        BY <2>2 DEF EmitEvent, geoVars, httpVars
      <3> QED
        BY <3>1, QuietGeo, QuietHttp, QuietControl, QuietOwn DEF Inv
    <2>3. CASE /\ UNCHANGED <<httpVars, control>>
               /\ \E i \in DOMAIN geo : Reload(i) \/ \E c \in Client : GetCountry(c, i)
      BY <2>3, GoroutineSteps
    <2>4. CASE UNCHANGED <<geoVars, control>> /\ \E i \in DOMAIN http : ServeFails(i)
      BY <2>4, GoroutineSteps
    <2>5. CASE UNCHANGED <<geoVars, control>> /\ UNCHANGED <<http, port>>
      BY <2>5, GoroutineSteps
    <2> QED
      BY <1>2, <2>1, <2>2, <2>3, <2>4, <2>5 DEF Environment, RequestBegins
  <1>3. CASE \E i \in DOMAIN geo : GeoStep(i)
    BY <1>3, GoroutineSteps DEF GeoStep
  <1>4. CASE \E i \in DOMAIN http : HttpStep(i)
    BY <1>4, GoroutineSteps DEF HttpStep
  <1>5. CASE \E r \in Request : QueryStep(r)
    BY <1>5, GoroutineSteps DEF QueryStep
  <1>6. CASE \E c \in Client : ReadStep(c)
    BY <1>6, GoroutineSteps DEF ReadStep
  <1>7. CASE UNCHANGED vars
    BY <1>7, GoroutineSteps DEF vars, control, outer, httpVars
  <1> QED
    BY <1>1, <1>2, <1>3, <1>4, <1>5, <1>6, <1>7 DEF Next

\* The inductive invariant holds in every state of the runtime.
THEOREM Invariance == Spec => []Inv
  BY InitInv, NextInv, PTL DEF Spec

(***************************************************************************)
(* What it means for the services                                          *)
(***************************************************************************)
\* Lookups in the country database read from open readers only, and every open reader
\* of an instance is in the pointer, in the goroutine's hand or in that of Shutdown,
\* whatever reloads, Replace and Shutdown do meanwhile.
THEOREM Readers == Spec => []ReadersManaged
  <1>1. Inv => LookupUsesOpenReader
    BY DEF Inv, LookupInv
  <1>2. Inv => OpenReadersHeld
    BY DEF Inv, GeoInv, GeoGood, OpenReadersHeld
  <1>3. Inv => ReadersManaged
    BY <1>1, <1>2 DEF ReadersManaged
  <1> QED
    BY <1>3, Invariance, PTL

\* Listen in a restart never meets the listener of an older server.
THEOREM Restart == Spec => []RestartFindsPortFree
  <1>1. Inv => RestartFindsPortFree
    BY DEF Inv, OwnInv
  <1> QED
    BY <1>1, Invariance, PTL

\* When Exec returns nothing is left: no goroutine, no listener, no open reader,
\* except those of country databases that Replace let go.
THEOREM Exit == Spec => []ExitLeavesNothing
  <1>1. Inv => ExitLeavesNothing
    <2> SUFFICES ASSUME Inv, exec.pc = "exit" PROVE ExitLeavesNothing
      BY DEF ExitLeavesNothing
    <2>1. order = <<>> /\ {order[k] : k \in DOMAIN order} = DOMAIN services
      BY DEF Inv, ControlInv, TypeOK
    <2>2. DOMAIN order = {}
      BY <2>1
    <2>3. DOMAIN services = {}
      BY <2>1, <2>2
    <2>4. \A i \in DOMAIN http : http[i].waiter = "done" /\ http[i].serve = "done"
      BY <2>3 DEF Inv, OwnInv, Mapped, Waited
    <2>5. port = {}
      BY <2>4 DEF Inv, ServerInv
    <2>6. \A i \in DOMAIN geo : i \notin loose => geo[i].run = "ended" /\ geo[i].open = {}
      BY <2>3 DEF Inv, OwnInv, Mapped, Ended
    <2> QED
      BY <2>4, <2>5, <2>6 DEF ExitLeavesNothing
  <1> QED
    BY <1>1, Invariance, PTL

-----------------------------------------------------------------------------
(***************************************************************************)
(* The proxy releases every authorised user exactly once, and closes the   *)
(* connections of a request before its handler returns, for any number of  *)
(* requests, whatever the services around it do.  The invariant says what  *)
(* a request holds at each place of its handler.                           *)
(***************************************************************************)
QueryType ==
  [srv : Nat, kind : {"none", "v1", "v2"},
   pc : {"idle", "auth", "proxy", "dial", "hijack", "hello", "accept", "tunnel", "return"},
   auth : BOOLEAN, client : BOOLEAN, remote : BOOLEAN, tx : {"off", "read", "write"}, rx : {"off", "read", "write"}]

Holds(q) ==
  /\ q.pc \in {"idle", "auth"} => ~q.auth
  /\ q.client => q.pc \in {"hello", "tunnel"}
  /\ q.remote => \/ q.pc \in {"hijack", "hello", "accept", "tunnel"}
                 \/ q.pc = "return" /\ q.kind = "v1" /\ q.srv # 0
  /\ q.pc \in {"auth", "dial", "hijack"} => q.srv # 0
  /\ q.pc = "hijack" => q.kind = "v1"
  /\ q.pc = "tunnel" => (q.tx # "off" \/ ~q.remote) /\ (q.rx # "off" \/ ~q.client)

Authorised == {r \in Request : query[r].auth}

ProxyInv ==
  /\ query \in [Request -> QueryType]
  /\ \A r \in Request : Holds(query[r])
  /\ UsersReleased

(***************************************************************************)
(* What a step of one request does to the set of authorised ones.          *)
(***************************************************************************)
LEMMA AuthorisedFinite == IsFiniteSet(Authorised)
  BY RequestAssumption, FS_Subset DEF Authorised

\* A step that keeps what the request holds in order keeps the invariant.
LEMMA KeepsInv ==
  ASSUME ProxyInv, NEW r \in Request, NEW q \in QueryType, SetQuery(r, q), Holds(q),
         \/ q.auth = query[r].auth /\ users' = users
         \/ q.auth /\ ~query[r].auth /\ users' = users + 1
         \/ ~q.auth /\ query[r].auth /\ users' = users - 1
  PROVE  ProxyInv'
  <1>1. query' \in [Request -> QueryType]
    BY DEF ProxyInv, SetQuery
  <1>2. \A s \in Request : query'[s] = IF s = r THEN q ELSE query[s]
    BY DEF ProxyInv, SetQuery
  <1>3. \A s \in Request : Holds(query'[s])
    BY <1>2 DEF ProxyInv
  <1>4. /\ users = Cardinality(Authorised) /\ Cardinality(Authorised) \in Nat
        /\ UsersReleased' <=> users' = Cardinality(Authorised')
    BY AuthorisedFinite, FS_CardinalityType DEF ProxyInv, UsersReleased, Authorised
  <1>5. CASE q.auth = query[r].auth /\ users' = users
    <2>1. Authorised' = Authorised
      BY <1>2, <1>5 DEF Authorised
    <2> QED
      BY <1>1, <1>3, <1>4, <1>5, <2>1 DEF ProxyInv, Holds
  <1>6. CASE q.auth /\ ~query[r].auth /\ users' = users + 1
    <2>1. Authorised' = Authorised \cup {r} /\ r \notin Authorised
      BY <1>2, <1>6 DEF Authorised
    <2>2. Cardinality(Authorised') = Cardinality(Authorised) + 1
      BY <2>1, AuthorisedFinite, FS_AddElement, Zenon
    <2> QED
      BY <1>1, <1>3, <1>4, <1>6, <2>2 DEF ProxyInv, Holds
  <1>7. CASE ~q.auth /\ query[r].auth /\ users' = users - 1
    <2>1. Authorised' = Authorised \ {r} /\ r \in Authorised
      BY <1>2, <1>7 DEF Authorised
    <2>2. Cardinality(Authorised') = Cardinality(Authorised) - 1
      BY <2>1, AuthorisedFinite, FS_RemoveElement, Zenon
    <2> QED
      BY <1>1, <1>3, <1>4, <1>7, <2>2 DEF ProxyInv, Holds
  <1> QED
    BY <1>5, <1>6, <1>7

\* A slot without a request holds nothing.
LEMMA NoQueryHolds == NoQuery \in QueryType /\ Holds(NoQuery) /\ ~NoQuery.auth
  BY DEF NoQuery, QueryType, Holds

\* There are no requests at first.
LEMMA InitProxy == Init => ProxyInv
  <1> SUFFICES ASSUME Init PROVE ProxyInv
    OBVIOUS
  <1>1. query = [r \in Request |-> NoQuery] /\ users = 0
    BY DEF Init, HttpInit, ProxyInit
  <1>2. Authorised = {}
    BY <1>1, NoQueryHolds DEF Authorised
  <1> QED
    BY <1>1, <1>2, NoQueryHolds, FS_EmptySet DEF ProxyInv, UsersReleased, Authorised

(***************************************************************************)
(* Each step of a request preserves the invariant.                         *)
(***************************************************************************)
LEMMA ServeHTTPStep ==
  ASSUME ProxyInv, NEW r \in Request, NEW i \in Nat \ {0}, ServeHTTP(r, i)
  PROVE  ProxyInv'
  <1>1. PICK pc \in {"auth", "proxy"} : SetQuery(r, [NoQuery EXCEPT !.srv = i, !.pc = pc])
    BY Zenon DEF ServeHTTP
  <1> DEFINE q == [NoQuery EXCEPT !.srv = i, !.pc = pc]
  <1>2. q \in QueryType /\ Holds(q) /\ q.auth = NoQuery.auth
    BY Zenon DEF NoQuery, QueryType, Holds
  <1>3. SetQuery(r, q) /\ users' = users /\ query[r] = NoQuery
    BY <1>1 DEF ServeHTTP
  <1> HIDE DEF q
  <1> QED
    BY <1>2, <1>3, KeepsInv

\* handleAuth decides about a request.
LEMMA AuthStep ==
  ASSUME ProxyInv, NEW r \in Request, handleAuth(r)
  PROVE  ProxyInv'
  <1>1. query[r] \in QueryType /\ Holds(query[r]) /\ query[r].pc = "auth"
    BY DEF ProxyInv, handleAuth
  <1>2. ~query[r].auth
    BY <1>1 DEF Holds
  <1>3. ASSUME NEW k \in {"v1", "v2"}
        PROVE  LET q == [query[r] EXCEPT !.auth = TRUE, !.kind = k, !.pc = "dial"]
               IN  q \in QueryType /\ Holds(q) /\ q.auth
    BY <1>1, Zenon DEF QueryType, Holds
  <1>a. ASSUME NEW pc \in {"proxy", "return"}
        PROVE  LET q == [query[r] EXCEPT !.auth = TRUE, !.pc = pc]
               IN  q \in QueryType /\ Holds(q) /\ q.auth
    BY <1>1, Zenon DEF QueryType, Holds
  <1>4. \/ SetQuery(r, NoQuery) /\ users' = users
        \/ \E q \in QueryType : SetQuery(r, q) /\ Holds(q) /\ q.auth /\ users' = users + 1
    BY <1>3, <1>a, Zenon DEF handleAuth
  <1>5. CASE SetQuery(r, NoQuery) /\ users' = users
    <2>1. NoQuery.auth = query[r].auth
      BY <1>1, <1>2, NoQueryHolds, Zenon DEF QueryType, NoQuery
    <2> QED
      BY <1>5, <2>1, NoQueryHolds, KeepsInv
  <1>6. CASE \E q \in QueryType : SetQuery(r, q) /\ Holds(q) /\ q.auth /\ users' = users + 1
    BY <1>2, <1>6, KeepsInv
  <1> QED
    BY <1>4, <1>5, <1>6

\* The steps that keep the authorisation: each sets a query that holds what it should.
LEMMA QuietStep ==
  ASSUME ProxyInv, NEW r \in Request,
         \/ handleProxy(r) \/ Dial(r) \/ Hijack(r) \/ Hello(r) \/ Accept(r) \/ TunnelOver(r)
         \/ \E d \in {"tx", "rx"} : Forward(r, d) \/ doPairedForward(r, d)
  PROVE  ProxyInv'
  <1>1. query[r] \in QueryType /\ Holds(query[r])
    BY DEF ProxyInv
  <1>2. SUFFICES \E q \in QueryType : SetQuery(r, q) /\ Holds(q) /\ q.auth = query[r].auth /\ users' = users
    BY KeepsInv
  <1>3. CASE handleProxy(r)
    BY <1>1, <1>3 DEF handleProxy, Go, QueryType, Holds
  <1>4. CASE Dial(r)
    <2> DEFINE q == [query[r] EXCEPT !.remote = TRUE, !.pc = IF query[r].kind = "v1" THEN "hijack" ELSE "accept"]
    <2>1. CASE Go(r, "return")
      BY <1>1, <1>4, <2>1 DEF Dial, Go, QueryType, Holds
    <2>2. CASE SetQuery(r, q) /\ users' = users
      <3>1. q \in QueryType /\ Holds(q) /\ q.auth = query[r].auth
        BY <1>1, <1>4, Zenon DEF Dial, QueryType, Holds
      <3> QED
        BY <2>2, <3>1, Zenon
    <2> QED
      BY <1>4, <2>1, <2>2 DEF Dial
  <1>5. CASE Hijack(r)
    BY <1>1, <1>5, Zenon DEF Hijack, Go, QueryType, Holds
  <1>6. CASE Hello(r)
    BY <1>1, <1>6, Zenon DEF Hello, BothClosed, Tunnel, QueryType, Holds
  <1>7. CASE Accept(r)
    BY <1>1, <1>7, Zenon DEF Accept, BothClosed, Tunnel, QueryType, Holds
  <1>8. CASE TunnelOver(r)
    BY <1>1, <1>8 DEF TunnelOver, Go, QueryType, Holds
  <1>9. CASE \E d \in {"tx", "rx"} : doPairedForward(r, d)
    BY <1>1, <1>9, Zenon DEF doPairedForward, Forwards, QueryType, Holds
  <1>10. CASE \E d \in {"tx", "rx"} : Forward(r, d)
    <2>1. PICK d \in {"tx", "rx"}, at \in {"read", "write"} :
            /\ query[r].pc = "tunnel" /\ users' = users
            /\ (IF d = "tx" THEN query[r].tx ELSE query[r].rx) # "off"
            /\ SetQuery(r, IF d = "tx" THEN [query[r] EXCEPT !.tx = at] ELSE [query[r] EXCEPT !.rx = at])
      BY <1>10 DEF Forward, Forwards, Dir
    <2>2. CASE d = "tx"
      <3> DEFINE q == [query[r] EXCEPT !.tx = at]
      <3>1. q \in QueryType /\ Holds(q) /\ q.auth = query[r].auth
        BY <1>1, <2>1, <2>2, Zenon DEF QueryType, Holds
      <3>2. SetQuery(r, q) /\ users' = users
        BY <2>1, <2>2
      <3> QED
        BY <3>1, <3>2, Zenon
    <2>3. CASE d = "rx"
      <3> DEFINE q == [query[r] EXCEPT !.rx = at]
      <3>1. q \in QueryType /\ Holds(q) /\ q.auth = query[r].auth
        BY <1>1, <2>1, <2>3, Zenon DEF QueryType, Holds
      <3>2. SetQuery(r, q) /\ users' = users
        BY <2>1, <2>3
      <3> QED
        BY <3>1, <3>2, Zenon
    <2> QED
      BY <2>2, <2>3
  <1> QED
    BY <1>3, <1>4, <1>5, <1>6, <1>7, <1>8, <1>9, <1>10

\* The handler of a request returns.
LEMMA ReturnStep ==
  ASSUME ProxyInv, NEW r \in Request, HandlerReturns(r)
  PROVE  ProxyInv'
  <1>1. query[r] \in QueryType
    BY DEF ProxyInv
  <1>2. SetQuery(r, NoQuery) /\ users' = IF query[r].auth THEN users - 1 ELSE users
    BY DEF HandlerReturns
  <1>3. CASE query[r].auth
    BY <1>2, <1>3, NoQueryHolds, KeepsInv
  <1>4. CASE ~query[r].auth
    <2>1. NoQuery.auth = query[r].auth
      BY <1>1, <1>4, Zenon DEF QueryType, NoQuery
    <2> QED
      BY <1>2, <1>4, <2>1, NoQueryHolds, KeepsInv
  <1> QED
    BY <1>3, <1>4

\* A step that changes none of the proxy's variables.
LEMMA UnchangedProxy ==
  ASSUME ProxyInv, UNCHANGED proxyVars
  PROVE  ProxyInv'
  BY DEF ProxyInv, proxyVars, UsersReleased, Holds

(***************************************************************************)
(* Only RequestBegins and the steps of a request touch the proxy.          *)
(***************************************************************************)
LEMMA NextProxy ==
  ASSUME ProxyInv, ServerInv, [Next]_vars
  PROVE  ProxyInv'
  <1>1. CASE ExecStep
    <2>1. UNCHANGED proxyVars
      BY <1>1 DEF ExecStep, StartGeoip, StartHttp, TakeSignal, ReplaceBegin, ReplaceEnd, ShutdownCall,
                  ShutdownReturn, ShutdownEmpty, TakeEvent, RunServer, Cancel, SetServer, httpVars, proxyVars
    <2> QED
      BY <2>1, UnchangedProxy
  <1>2. CASE Environment
    <2>1. CASE \E i \in DOMAIN http : RequestBegins(i)
      <3>1. PICK i \in DOMAIN http : \E r \in Request : ServeHTTP(r, i)
        BY <2>1 DEF RequestBegins
      <3>2. i \in Nat \ {0}
        BY DEF ServerInv
      <3> QED
        BY <3>1, <3>2, ServeHTTPStep
    <2>2. CASE \E r \in Request : PeerStep(r)
      BY <2>2, QuietStep DEF PeerStep
    <2>3. CASE UNCHANGED proxyVars
      BY <2>3, UnchangedProxy
    <2> QED
      BY <1>2, <2>1, <2>2, <2>3 DEF Environment, SendSignal, EmitEvent, ServeFails, SetServer, httpVars, proxyVars
  <1>3. CASE \E i \in DOMAIN geo : GeoStep(i)
    BY <1>3, UnchangedProxy DEF GeoStep, httpVars
  <1>4. CASE \E i \in DOMAIN http : HttpStep(i)
    BY <1>4, UnchangedProxy DEF HttpStep, ServerStep, ServeBegins, WaiterCloses, WaiterDone, ServeReturns, SetServer
  <1>5. CASE \E r \in Request : QueryStep(r)
    BY <1>5, AuthStep, QuietStep, ReturnStep DEF QueryStep, ProxyStep
  <1>6. CASE \E c \in Client : ReadStep(c)
    BY <1>6, UnchangedProxy DEF ReadStep, httpVars
  <1>7. CASE UNCHANGED vars
    BY <1>7, UnchangedProxy DEF vars, httpVars
  <1> QED
    BY <1>1, <1>2, <1>3, <1>4, <1>5, <1>6, <1>7 DEF Next

\* What a request holds at each place is as the invariant says, in every state.
THEOREM Requests == Spec => []ProxyInv
  <1>1. Inv => ServerInv
    BY DEF Inv
  <1> QED
    BY <1>1, InitProxy, NextProxy, Invariance, PTL DEF Spec

\* Every customInfo of AuthCallback is released exactly once, on every way out of
\* ServeHTTP, and a handler that returns has closed the connections it opened, except
\* for the remote one when hijacking failed.
THEOREM Released == Spec => []RequestsReleased
  <1>1. ProxyInv => UsersReleased
    BY DEF ProxyInv
  <1>2. ProxyInv => ConnectionsClosed
    BY DEF ProxyInv, Holds, ConnectionsClosed
  <1>3. ProxyInv => RequestsReleased
    BY <1>1, <1>2 DEF RequestsReleased
  <1> QED
    BY <1>3, Requests, PTL
=============================================================================
