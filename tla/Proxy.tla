------------------------------- MODULE Proxy --------------------------------
(***************************************************************************)
(* Requests to the proxy (xproxy/query.go), which an HTTP server hands to  *)
(* ServeHTTP.  CONNECT opens a tunnel of two forwarding goroutines; over   *)
(* HTTP/1 the client's connection is hijacked, and the server forgets it.  *)
(*                                                                         *)
(* Closing a connection ends a blocked Read of it.  The client side of an  *)
(* HTTP/2 tunnel is a stream of the library's, which only its client ends. *)
(* A Write waits for as long as the peer takes no data, and a plain        *)
(* request for as long as the remote server or the client likes.           *)
(***************************************************************************)
EXTENDS Naturals, FiniteSets

CONSTANT Request      \* requests at one time

ASSUME RequestAssumption == IsFiniteSet(Request)

VARIABLES query,      \* the requests
          users       \* number of customInfo handed out by AuthCallback and not released

proxyVars == <<query, users>>

NoQuery == [srv |-> 0, kind |-> "none", pc |-> "idle", auth |-> FALSE,
            client |-> FALSE, remote |-> FALSE,
            tx |-> "off", rx |-> "off"]   \* the forwarding goroutines: in Read, in Write or none

ProxyInit == query = [r \in Request |-> NoQuery] /\ users = 0

SetQuery(r, q) == query' = [query EXCEPT ![r] = q]
Go(r, pc) == SetQuery(r, [query[r] EXCEPT !.pc = pc]) /\ UNCHANGED users

\* ServeHTTP: OPTIONS needs no authorisation.
ServeHTTP(r, i) ==
  /\ query[r] = NoQuery
  /\ \E pc \in {"auth", "proxy"} : SetQuery(r, [NoQuery EXCEPT !.srv = i, !.pc = pc])
  /\ UNCHANGED users

\* handleAuth, and the choice of the handler: CONNECT over HTTP/1 and /2, any other
\* method, or CONNECT over another version, which is refused
handleAuth(r) ==
  /\ query[r].pc = "auth"
  /\ \/ SetQuery(r, NoQuery) /\ UNCHANGED users
     \/ /\ users' = users + 1
        /\ \/ \E k \in {"v1", "v2"} : SetQuery(r, [query[r] EXCEPT !.auth = TRUE, !.kind = k, !.pc = "dial"])
           \/ \E pc \in {"proxy", "return"} : SetQuery(r, [query[r] EXCEPT !.auth = TRUE, !.pc = pc])

\* handleProxy: it returns early, or the response's body is copied and closed.
handleProxy(r) == query[r].pc = "proxy" /\ Go(r, "return")

\* handleV1Connect and handleV2Connect
Dial(r) ==
  /\ query[r].pc = "dial"
  /\ \/ Go(r, "return")
     \/ SetQuery(r, [query[r] EXCEPT !.remote = TRUE, !.pc = IF query[r].kind = "v1" THEN "hijack" ELSE "accept"])
        /\ UNCHANGED users

\* On failure the remote connection stays open.
Hijack(r) ==
  /\ query[r].pc = "hijack"
  /\ \/ Go(r, "return")
     \/ SetQuery(r, [query[r] EXCEPT !.client = TRUE, !.pc = "hello", !.srv = 0]) /\ UNCHANGED users

Tunnel(q) == [q EXCEPT !.pc = "tunnel", !.client = TRUE, !.tx = "read", !.rx = "read"]
BothClosed(q) == [q EXCEPT !.pc = "return", !.client = FALSE, !.remote = FALSE]

\* handleV1Connect: the answer is written, or both are closed.
Hello(r) ==
  /\ query[r].pc = "hello"
  /\ SetQuery(r, BothClosed(query[r])) \/ SetQuery(r, Tunnel(query[r]))
  /\ UNCHANGED users

\* handleV2Connect
Accept(r) ==
  /\ query[r].pc = "accept"
  /\ SetQuery(r, BothClosed(query[r])) \/ SetQuery(r, Tunnel(query[r]))
  /\ UNCHANGED users

\* Where the goroutine of direction d is
Dir(r, d) == IF d = "tx" THEN query[r].tx ELSE query[r].rx

Forwards(r, d) == query[r].pc = "tunnel" /\ Dir(r, d) # "off"

\* What the goroutine reads from was closed here, so that its Read fails.
ReadFails(r, d) == IF d = "tx" THEN ~query[r].client /\ query[r].kind = "v1" ELSE ~query[r].remote

\* doPairedForward, the loop: Read returns data, or Write has written it.
Forward(r, d) ==
  /\ Forwards(r, d)
  /\ Dir(r, d) = "read" => ~ReadFails(r, d)
  /\ LET at == IF Dir(r, d) = "read" THEN "write" ELSE "read"
     IN  SetQuery(r, IF d = "tx" THEN [query[r] EXCEPT !.tx = at] ELSE [query[r] EXCEPT !.rx = at])
  /\ UNCHANGED users

\* Mutant: a forwarding goroutine closes what it reads from.
doPairedForwardSource(r, d) ==
  /\ Forwards(r, d)
  /\ SetQuery(r, IF d = "tx" THEN [query[r] EXCEPT !.tx = "off", !.client = FALSE]
                 ELSE [query[r] EXCEPT !.rx = "off", !.remote = FALSE])
  /\ UNCHANGED users

\* ... a Read or Write fails, and the goroutine closes what it writes to.
doPairedForward(r, d) ==
  /\ Forwards(r, d)
  /\ SetQuery(r, IF d = "tx" THEN [query[r] EXCEPT !.tx = "off", !.remote = FALSE]
                 ELSE [query[r] EXCEPT !.rx = "off", !.client = FALSE])
  /\ UNCHANGED users

\* wg.Wait
TunnelOver(r) == query[r].pc = "tunnel" /\ query[r].tx = "off" /\ query[r].rx = "off" /\ Go(r, "return")

\* Mutant: the release is not deferred, and a tunnel that does not come about skips it.
HandlerReturnsUnreleased(r) ==
  /\ query[r].pc = "return"
  /\ users' = IF query[r].auth /\ ~query[r].remote THEN users - 1 ELSE users
  /\ SetQuery(r, NoQuery)

\* ServeHTTP returns, after the deferred ReleaseCallback.
HandlerReturns(r) ==
  /\ query[r].pc = "return"
  /\ users' = IF query[r].auth THEN users - 1 ELSE users
  /\ SetQuery(r, NoQuery)

\* The requests a server waits for
Busy(i) == \E r \in Request : query[r].srv = i

\* The request waits for its peers, without a limit.
WaitsForPeer(r) == query[r].pc \in {"proxy", "tunnel"}

\* What the peers of a request decide: when a plain request is over, and what the
\* goroutines of a tunnel read and write
PeerStep(r) ==
  \/ handleProxy(r)
  \/ \E d \in {"tx", "rx"} : Forward(r, d) \/ doPairedForward(r, d)

\* Steps that do not wait for a peer for ever
ProxyStep(r) ==
  \/ handleAuth(r) \/ Dial(r) \/ Hijack(r) \/ Hello(r) \/ Accept(r) \/ TunnelOver(r) \/ HandlerReturns(r)
  \/ \E d \in {"tx", "rx"} : Dir(r, d) = "read" /\ ReadFails(r, d) /\ doPairedForward(r, d)
=============================================================================
