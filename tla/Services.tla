------------------------------ MODULE Services ------------------------------
(***************************************************************************)
(* The runtime of an application (control): Exec's loop over signals and   *)
(* events, the service map, and two services with goroutines of their own, *)
(* the country database and the HTTP server with the proxy as its handler. *)
(*                                                                         *)
(* The Runtime that Exec is given is the application's.  It is modelled by *)
(* what Exec needs of it: Start makes the services and registers them,     *)
(* geoip first; Stop is ServiceMap.Shutdown; Restart is both; on an event  *)
(* it replaces the country database.  zap's Fatal ends the process.        *)
(***************************************************************************)
EXTENDS GeoIP, HttpServer, FiniteSets

CONSTANTS Emitter,        \* goroutines that emit an event each
          MaxInstances,   \* bound on the instances of a service
          MaxSignals      \* bound on the signals that find room in the channel

VARIABLES exec,       \* where Exec is, and what it does after a stop
          services,   \* the map: instance, or 0 for nil
          order,
          signal,     \* sigChannel, of capacity 1
          sent,       \* number of signals that found room in the channel
          emitter,    \* "idle", "blocked" in the send, "done"
          loose,      \* history: country databases out of the map's reach
          portTaken   \* history: Listen found a listener of an older instance

vars == <<geoVars, httpVars, exec, services, order, signal, sent, emitter, loose, portTaken>>

None == "none"
At(pc) == [exec EXCEPT !.pc = pc]

Init ==
  /\ GeoInit /\ HttpInit
  /\ exec = [pc |-> "start", next |-> "loop", idx |-> 0]
  /\ services = [s \in {} |-> 0] /\ order = <<>>
  /\ signal = None /\ sent = 0
  /\ emitter = [e \in Emitter |-> "idle"]
  /\ loose = {} /\ portTaken = FALSE

RegisterService(name, inst) ==
  /\ name \notin DOMAIN services
  /\ services' = [s \in DOMAIN services \cup {name} |-> IF s = name THEN inst ELSE services[s]]
  /\ order' = Append(order, name)

outer == <<signal, sent, emitter, loose>>

\* Runtime.Start: each constructor may fail, and then Exec ends the process.
StartGeoip ==
  /\ exec.pc = "start"
  /\ \/ /\ Len(geo) < MaxInstances /\ NewGeoip /\ RegisterService("geoip", Len(geo) + 1)
        /\ exec' = At("startHttp") /\ UNCHANGED lookup
     \/ exec' = At("fatal") /\ UNCHANGED <<geoVars, services, order>>
  /\ UNCHANGED <<httpVars, outer, portTaken>>

StartHttp ==
  /\ exec.pc = "startHttp"
  /\ portTaken' = (port # {})
  /\ \/ /\ port = {} /\ RunServer /\ RegisterService("http", Len(http) + 1)
        /\ exec' = At("loop")
     \/ exec' = At("fatal") /\ UNCHANGED <<httpVars, services, order>>
  /\ UNCHANGED <<geoVars, outer>>

\* Mutant: Restart does not stop the services.
TakeSignalNoStop ==
  /\ exec.pc = "loop" /\ signal # None
  /\ signal' = None
  /\ exec' = [pc |-> "stop", next |-> IF signal = "hup" THEN "start" ELSE "exit",
              idx |-> IF signal = "hup" THEN 0 ELSE Len(order)]
  /\ UNCHANGED <<geoVars, httpVars, services, order, sent, emitter, loose, portTaken>>

\* Exec: a signal
TakeSignal ==
  /\ exec.pc = "loop" /\ signal # None
  /\ signal' = None
  /\ exec' = [pc |-> "stop", next |-> IF signal = "hup" THEN "start" ELSE "exit", idx |-> Len(order)]
  /\ UNCHANGED <<geoVars, httpVars, services, order, sent, emitter, loose, portTaken>>

\* Exec: an event.  ProcessEvents makes another country database for Replace.
TakeEvent(e) ==
  /\ exec.pc = "loop" /\ emitter[e] = "blocked"
  /\ emitter' = [emitter EXCEPT ![e] = "done"]
  /\ \/ /\ Len(geo) < MaxInstances /\ NewGeoip
        /\ exec' = At("replace") /\ UNCHANGED lookup
     \/ UNCHANGED <<geoVars, exec>>
  /\ UNCHANGED <<httpVars, services, order, signal, sent, loose, portTaken>>

\* Replace: Shutdown of the old one, then the new one takes its place.  A panic of
\* Shutdown ends the process; that Exec's deferred Stop still runs first is left out.
ReplaceBegin ==
  /\ exec.pc = "replace"
  /\ ShutdownBegin(services["geoip"])
  /\ exec' = At(IF ShutdownPanics(services["geoip"]) THEN "fatal" ELSE "replacing")
  /\ UNCHANGED <<lookup, httpVars, services, order, outer, portTaken>>

\* Whether the old one is still running is not asked.  An error of its Shutdown
\* leaves the map as it is, and the new one to the caller.
ReplaceEnd ==
  /\ exec.pc = "replacing" /\ ShutdownMayEnd(services["geoip"])
  /\ ShutdownEnd(services["geoip"])
  /\ exec' = At("loop")
  /\ \/ /\ services' = [services EXCEPT !["geoip"] = Len(geo)]
        /\ loose' = IF GeoRunning(services["geoip"]) THEN loose \cup {services["geoip"]} ELSE loose
     \/ loose' = loose \cup {Len(geo)} /\ UNCHANGED services
  /\ UNCHANGED <<lookup, httpVars, order, signal, sent, emitter, portTaken>>

\* ServiceMap.Shutdown: the services from the last one on.  A service that is nil,
\* fails or is still running afterwards ends it with an error, and Exec with Fatal.
Name == order[exec.idx]

ShutdownCall ==
  /\ exec.pc = "stop" /\ exec.idx > 0
  /\ \/ /\ services[Name] = 0
        /\ exec' = At("fatal") /\ UNCHANGED <<geo, httpVars>>
     \/ /\ services[Name] # 0 /\ Name = "geoip"
        /\ ShutdownBegin(services[Name]) /\ UNCHANGED httpVars
        /\ exec' = At(IF ShutdownPanics(services[Name]) THEN "fatal" ELSE "stopping")
     \/ /\ services[Name] # 0 /\ Name = "http"
        /\ Cancel(services[Name]) /\ exec' = At("stopping") /\ UNCHANGED geo
  /\ UNCHANGED <<lookup, services, order, outer, portTaken>>

\* Mutant: nobody asks whether the service is still running.
ShutdownReturnTrusting ==
  /\ exec.pc = "stopping"
  /\ \/ /\ Name = "geoip" /\ ShutdownMayEnd(services[Name]) /\ ShutdownEnd(services[Name])
     \/ /\ Name = "http" /\ Waited(services[Name]) /\ UNCHANGED geo
  /\ exec' = [exec EXCEPT !.pc = "stop", !.idx = @ - 1]
  /\ services' = [services EXCEPT ![Name] = 0]
  /\ UNCHANGED <<lookup, httpVars, order, outer, portTaken>>

ShutdownReturn ==
  /\ exec.pc = "stopping"
  /\ \/ /\ Name = "geoip" /\ ShutdownMayEnd(services[Name]) /\ ShutdownEnd(services[Name])
        /\ \/ exec' = At("fatal") /\ UNCHANGED services    \* Close failed, or still running
           \/ /\ ~GeoRunning(services[Name])
              /\ exec' = [exec EXCEPT !.pc = "stop", !.idx = @ - 1]
              /\ services' = [services EXCEPT ![Name] = 0]
     \/ /\ Name = "http" /\ Waited(services[Name])
        /\ ~ServerRunning(services[Name])
        /\ exec' = [exec EXCEPT !.pc = "stop", !.idx = @ - 1]
        /\ services' = [services EXCEPT ![Name] = 0]
        /\ UNCHANGED geo
  /\ UNCHANGED <<lookup, httpVars, order, outer, portTaken>>

\* The map is emptied; Exec goes on with the restart, or returns.
ShutdownEmpty ==
  /\ exec.pc = "stop" /\ exec.idx = 0
  /\ order' = <<>> /\ services' = [s \in {} |-> 0]
  /\ exec' = At(exec.next)
  /\ UNCHANGED <<geoVars, httpVars, outer, portTaken>>

\* A signal arrives.  Before Notify, which follows the first Start, it ends the
\* process; later it is dropped if there is no room in the channel.
SendSignal(s) ==
  /\ sent < MaxSignals /\ exec.pc \notin {"exit", "fatal"}
  /\ \/ http = <<>> /\ exec' = At("fatal") /\ UNCHANGED <<signal, sent>>
     \/ http # <<>> /\ signal = None /\ signal' = s /\ sent' = sent + 1 /\ UNCHANGED exec
     \/ http # <<>> /\ signal # None /\ UNCHANGED <<exec, signal, sent>>
  /\ UNCHANGED <<geoVars, httpVars, services, order, emitter, loose, portTaken>>

\* EmitEvent: the send blocks until Exec receives.
EmitEvent(e) ==
  /\ emitter[e] = "idle"
  /\ emitter' = [emitter EXCEPT ![e] = "blocked"]
  /\ UNCHANGED <<geoVars, httpVars, exec, services, order, signal, sent, loose, portTaken>>

Alive == exec.pc \notin {"exit", "fatal"}
control == <<exec, services, order, outer, portTaken>>

ExecStep ==
  \/ StartGeoip \/ StartHttp \/ TakeSignal \/ ReplaceBegin \/ ReplaceEnd
  \/ ShutdownCall \/ ShutdownReturn \/ ShutdownEmpty
  \/ \E e \in Emitter : TakeEvent(e)

GeoStep(i) == Alive /\ RunStep(i) /\ UNCHANGED <<httpVars, control>>
HttpStep(i) == Alive /\ ServerStep(i) /\ UNCHANGED <<geoVars, control>>
ReadStep(c) == Alive /\ LookupStep(c) /\ UNCHANGED <<httpVars, control>>
QueryStep(r) == Alive /\ ProxyStep(r) /\ UNCHANGED <<http, port, geoVars, control>>

\* What nothing forces to happen
Environment ==
  \/ \E s \in {"hup", "term"} : SendSignal(s)
  \/ \E e \in Emitter : Alive /\ EmitEvent(e)
  \/ /\ Alive /\ UNCHANGED <<httpVars, control>>
     /\ \E i \in DOMAIN geo : Reload(i) \/ \E c \in Client :
          "geoip" \in DOMAIN services /\ i = services["geoip"] /\ GetCountry(c, i)
  \/ /\ Alive /\ UNCHANGED <<geoVars, control>>
     /\ \/ \E i \in DOMAIN http : ServeFails(i) \/ RequestBegins(i)
        \/ \E r \in Request : PeerStep(r) /\ UNCHANGED <<http, port>>

Next ==
  \/ ExecStep \/ Environment
  \/ \E i \in DOMAIN geo : GeoStep(i)
  \/ \E i \in DOMAIN http : HttpStep(i)
  \/ \E r \in Request : QueryStep(r)
  \/ \E c \in Client : ReadStep(c)

\* The goroutines are scheduled, and calls return; the peers of a plain request and
\* of a tunnel may stay for ever.
Fairness ==
  /\ WF_vars(ExecStep)
  /\ WF_vars(\E i \in DOMAIN geo : GeoStep(i)) /\ WF_vars(\E i \in DOMAIN http : HttpStep(i))
  /\ \A c \in Client : WF_vars(ReadStep(c))
  /\ \A r \in Request : WF_vars(QueryStep(r))

Spec == Init /\ [][Next]_vars /\ Fairness

(***************************************************************************)
(* Properties                                                              *)
(***************************************************************************)
\* Types: the map's instances exist, and the order names the map's services.
TypeOK ==
  /\ {order[k] : k \in DOMAIN order} = DOMAIN services
  /\ \A s \in DOMAIN services : services[s] \in 0 .. (IF s = "geoip" THEN Len(geo) ELSE Len(http))
  /\ exec.pc \in {"start", "startHttp", "loop", "replace", "replacing", "stop", "stopping", "exit", "fatal"}
  /\ exec.idx \in 0 .. Len(order)

\* A lookup never reads from a reader that is closed, though it loaded the pointer
\* before a reload or Shutdown replaced it.
LookupUsesOpenReader ==
  \A c \in Client : lookup[c].reading => lookup[c].db \in geo[lookup[c].inst].open

\* No reader is forgotten: the open ones are the current one, one the goroutine has
\* just loaded or replaced, and one that Shutdown is about to close.
OpenReadersHeld == \A i \in DOMAIN geo : geo[i].open \subseteq {geo[i].ptr, geo[i].hand, geo[i].closing}

\* A database's reader is used only while it is open, and never forgotten, while
\* reloads, Replace and Shutdown exchange the pointer under the lookups.
ReadersManaged == LookupUsesOpenReader /\ OpenReadersHeld

\* When Exec returns, every service has ended: no goroutine, no listener, and no
\* open reader, except in instances whose reload came after Replace shut them down,
\* and those made for a Replace that failed.
ExitLeavesNothing ==
  exec.pc = "exit" =>
    /\ port = {} /\ \A i \in DOMAIN http : http[i].waiter = "done" /\ http[i].serve = "done"
    /\ \A i \in DOMAIN geo : i \notin loose => geo[i].run = "ended" /\ geo[i].open = {}

\* A restart finds the port free: the old listener is closed before Listen.
RestartFindsPortFree == ~portTaken

\* Every customInfo that AuthCallback hands out is released exactly once, when the
\* request is over, whichever way it ends.
UsersReleased == users = Cardinality({r \in Request : query[r].auth})

\* A handler that returns has closed the connections it opened, except for the remote
\* one when the client's could not be hijacked.
ConnectionsClosed ==
  \A r \in Request : query[r].pc = "return" =>
    ~query[r].client /\ (query[r].remote => query[r].kind = "v1" /\ query[r].srv # 0)

\* What a request took is given back on every way out of its handler: the user that
\* AuthCallback returned, and the connections.
RequestsReleased == UsersReleased /\ ConnectionsClosed

\* When one direction of an HTTP/1 tunnel ends, the tunnel does, though the goroutine
\* of the other one blocks in Read of a peer that says nothing, and though its server
\* may be gone; unless that goroutine's Write never returns, which nobody ends.
TunnelEnds ==
  \A r \in Request :
    []<>("write" \notin {query[r].tx, query[r].rx}) =>
      (query[r].kind = "v1" /\ query[r].pc = "tunnel" /\ "off" \in {query[r].tx, query[r].rx})
        ~> (query[r].pc # "tunnel" \/ ~Alive)

\* SIGTERM ends the process, whatever the services and the lookups are doing and with
\* tunnels over HTTP/1 open, unless it was lost because another signal was waiting in
\* the channel.  The server's Shutdown waits for the other requests: their peers must
\* not keep one of them for ever.
TermEnds ==
  []<>(\A r \in Request : query[r].srv # 0 => ~WaitsForPeer(r)) => ((signal = "term") ~> ~Alive)
=============================================================================
