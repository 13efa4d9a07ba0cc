----------------------------- MODULE HttpServer -----------------------------
(***************************************************************************)
(* Instances of the HTTP server (xhttp/server.go): its context, the        *)
(* goroutine that waits for the context and then shuts the library's       *)
(* server down, and the goroutine that serves requests to the proxy.  The  *)
(* library's Shutdown closes the listener and waits for the requests,      *)
(* without a limit; Serve returns once that has begun, or by itself when   *)
(* it fails, which nobody notices.                                         *)
(***************************************************************************)
EXTENDS Proxy, Sequences

VARIABLES http,   \* the instances so far
          port    \* the instances whose listener is open

httpVars == <<http, port, proxyVars>>

HttpInit == http = <<>> /\ port = {} /\ ProxyInit

\* New and Run with a listener
RunServer ==
  /\ http' = Append(http, [cancelled |-> FALSE, waiter |-> "wait", serve |-> "starting"])
  /\ port' = port \cup {Len(http) + 1}
  /\ UNCHANGED proxyVars

SetServer(i, r) == http' = [http EXCEPT ![i] = r] /\ UNCHANGED proxyVars

\* <-ctx.Done(), and srv.Shutdown up to its wait for requests.  It closes the
\* listener if Serve has begun, else Serve does when it finds the server closed.
WaiterCloses(i) ==
  /\ http[i].waiter = "wait" /\ http[i].cancelled
  /\ SetServer(i, [http[i] EXCEPT !.waiter = "closing"])
  /\ port' = IF http[i].serve = "starting" THEN port ELSE port \ {i}

WaiterDone(i) ==
  /\ http[i].waiter = "closing" /\ ~Busy(i)
  /\ SetServer(i, [http[i] EXCEPT !.waiter = "done"])
  /\ UNCHANGED port

ServeBegins(i) ==
  /\ http[i].serve = "starting" /\ http[i].waiter = "wait"
  /\ SetServer(i, [http[i] EXCEPT !.serve = "serving"])
  /\ UNCHANGED port

\* Serve returns because the server is being shut down
ServeReturns(i) ==
  /\ http[i].serve # "done" /\ http[i].waiter # "wait"
  /\ SetServer(i, [http[i] EXCEPT !.serve = "done"])
  /\ port' = port \ {i}

\* Serve fails.  The TLS configuration is taken to have a certificate or a way to get
\* one, as CertMaster's has: ServeTLS then gets as far as Serve, which closes the
\* listener whenever it returns.
ServeFails(i) ==
  /\ http[i].serve = "serving" /\ http[i].waiter = "wait"
  /\ SetServer(i, [http[i] EXCEPT !.serve = "done"])
  /\ port' = port \ {i}

\* A request reaches the proxy.
RequestBegins(i) ==
  /\ http[i].serve = "serving" /\ http[i].waiter = "wait"
  /\ \E r \in Request : ServeHTTP(r, i)
  /\ UNCHANGED <<http, port>>

\* Shutdown: cancel, then wg.Wait
Cancel(i) == SetServer(i, [http[i] EXCEPT !.cancelled = TRUE]) /\ UNCHANGED port

Waited(i) == http[i].waiter = "done" /\ http[i].serve = "done"

ServerRunning(i) == ~http[i].cancelled

ServerStep(i) == ServeBegins(i) \/ WaiterCloses(i) \/ WaiterDone(i) \/ ServeReturns(i)
=============================================================================
