------------------------------ MODULE IPv4Pool ------------------------------
(***************************************************************************)
(* The address pool as the code computes it (ippool/poolv4.go and          *)
(* ippool/internal.go).                                                    *)
(*                                                                         *)
(* Addresses are their uint32 values.  Alloc and Available search for an   *)
(* unused address from a random start, one address per iteration, for one  *)
(* cyclic round; an iteration is a step here, taken while the calling      *)
(* goroutine holds the mutex.  The other methods are single steps.         *)
(***************************************************************************)
EXTENDS Integers, FiniteSets

CONSTANTS Proc,   \* goroutines that call the pool
          NoProc, \* nobody: the mutex is free
          Min,    \* first usable address of the subnet
          Max,    \* last usable address of the subnet
          Input,  \* the IPv4 addresses callers pass to Set, Unset, IsAvailable
          NotV4   \* a caller's address that is not an IPv4 address

\* The smallest subnet the constructor accepts, a /30, has two usable
\* addresses.  The network and broadcast addresses are not usable, so neither
\* 0 nor the largest uint32 is in the range and next + 1 never overflows.
ASSUME PoolAssumption ==
  /\ NoProc \notin Proc
  /\ Min \in Nat /\ Max \in Nat
  /\ 0 < Min /\ Min < Max
  /\ Input \subseteq Nat
  /\ NotV4 \notin Nat

VARIABLES used, running, died,
          res,                 \* what the last call of each goroutine returned
          mutex,               \* the goroutine inside getUnusedIP, or NoProc
          op,                  \* the method it executes, "Alloc" or "Available"
          next, stop, cycled   \* the locals of getUnusedIP

vars == <<used, running, died, res, mutex, op, next, stop, cycled>>
scanVars == <<mutex, op, next, stop, cycled>>

Subnet == Min..Max

Errors == {"nil", "invalid", "range", "inuse", "nospace", "notfound"}

NoIP == 0

Ret(p, ip, err) == res' = [res EXCEPT ![p] = [ip |-> ip, err |-> err]]

-----------------------------------------------------------------------------
capacity == Max - Min + 1

allocated == Cardinality(used)

free == capacity - allocated

isUsed(a) == a \in used

\* NewIPv4FromSubnet: the server's address, the first usable one, is taken.
Init ==
  /\ used = {Min}
  /\ running = TRUE
  /\ died = FALSE
  /\ res = [p \in Proc |-> [ip |-> NoIP, err |-> "nil"]]
  /\ mutex = NoProc
  /\ op = "Alloc"
  /\ next = Min /\ stop = Min /\ cycled = FALSE

Idle == mutex = NoProc /\ ~died

Fatal ==
  /\ died' = TRUE
  /\ UNCHANGED <<used, running, res, scanVars>>

-----------------------------------------------------------------------------
\* Mutant: free() reports no space one address early.
BeginSearchEarlyFull(p, o) ==
  /\ Idle /\ running
  /\ \/ /\ free <= 1
        /\ Ret(p, NoIP, "nospace")
        /\ UNCHANGED <<used, running, died, scanVars>>
     \/ /\ free > 1
        /\ mutex' = p /\ op' = o
        /\ \E start \in Subnet : next' = start /\ stop' = start
        /\ cycled' = FALSE
        /\ UNCHANGED <<used, running, died, res>>

\* Alloc and Available up to the loop of getUnusedIP: checkRunning, then
\* free(), which has a Fatal of its own, then the random start of the search.
BeginSearch(p, o) ==
  /\ Idle
  /\ \/ /\ ~running \/ allocated > capacity
        /\ Fatal
     \/ /\ running /\ free = 0
        /\ Ret(p, NoIP, "nospace")
        /\ UNCHANGED <<used, running, died, scanVars>>
     \/ /\ running /\ free > 0
        /\ mutex' = p /\ op' = o
        /\ \E start \in Subnet : next' = start /\ stop' = start
        /\ cycled' = FALSE
        /\ UNCHANGED <<used, running, died, res>>

Alloc(p) == BeginSearch(p, "Alloc")

Available(p) == BeginSearch(p, "Available")

\* Mutant: no wrap-around.
nextAddrStuck(ip) ==
  [ip |-> IF ip >= Max THEN Max ELSE ip + 1, wrapped |-> FALSE]

nextAddr(ip) ==
  IF ip >= Max THEN [ip |-> Min, wrapped |-> TRUE]
               ELSE [ip |-> ip + 1, wrapped |-> FALSE]

\* One evaluation of the loop condition of getUnusedIP and, when it holds, of
\* the body.  A found address ends the search; Alloc also marks it as used.
SearchStep(p) ==
  /\ mutex = p /\ ~died
  /\ \/ /\ cycled /\ next = stop
        /\ Fatal
     \/ /\ ~cycled \/ next # stop
        /\ ~isUsed(next)
        /\ Ret(p, next, "nil")
        /\ used' = IF op = "Alloc" THEN used \cup {next} ELSE used
        /\ mutex' = NoProc
        /\ UNCHANGED <<running, died, op, next, stop, cycled>>
     \/ /\ ~cycled \/ next # stop
        /\ isUsed(next)
        /\ next' = nextAddr(next).ip
        /\ cycled' = (cycled \/ nextAddr(next).wrapped)
        /\ UNCHANGED <<used, running, died, res, mutex, op, stop>>

\* Mutant: Set does not check that the pool is running.
SetUnchecked(p, ip) ==
  /\ Idle /\ UNCHANGED <<running, died, scanVars>>
  /\ ip # NotV4 /\ ip \in Subnet /\ ~isUsed(ip)
  /\ used' = used \cup {ip}
  /\ Ret(p, ip, "nil")

\* Set checks the address before it takes the mutex; the bounds are constant.
Set(p, ip) ==
  /\ ~died /\ mutex # p
  /\ UNCHANGED scanVars
  /\ \/ ip = NotV4 /\ Ret(p, NoIP, "invalid") /\ UNCHANGED <<used, running, died>>
     \/ /\ ip # NotV4 /\ ip \notin Subnet
        /\ Ret(p, NoIP, "range")
        /\ UNCHANGED <<used, running, died>>
     \/ /\ ip # NotV4 /\ ip \in Subnet
        /\ mutex = NoProc
        /\ \/ ~running /\ Fatal
           \/ /\ running /\ isUsed(ip)
              /\ Ret(p, NoIP, "inuse")
              /\ UNCHANGED <<used, running, died>>
           \/ /\ running /\ ~isUsed(ip)
              /\ used' = used \cup {ip}
              /\ Ret(p, ip, "nil")
              /\ UNCHANGED <<running, died>>

\* Unset has no range check: only an address in use can be given back.
Unset(p, ip) ==
  /\ ~died /\ mutex # p
  /\ UNCHANGED scanVars
  /\ \/ ip = NotV4 /\ Ret(p, NoIP, "invalid") /\ UNCHANGED <<used, running, died>>
     \/ /\ ip # NotV4 /\ mutex = NoProc
        /\ \/ ~running /\ Fatal
           \/ /\ running /\ ~isUsed(ip)
              /\ Ret(p, NoIP, "notfound")
              /\ UNCHANGED <<used, running, died>>
           \/ /\ running /\ isUsed(ip)
              /\ used' = used \ {ip}
              /\ Ret(p, ip, "nil")
              /\ UNCHANGED <<running, died>>

\* The answer of IsAvailable, which also works on a stopped pool.
IsAvailable(ip) == ip # NotV4 /\ ip \in Subnet /\ ~isUsed(ip)

Shutdown ==
  /\ Idle
  /\ running' = FALSE
  /\ used' = {Min}
  /\ UNCHANGED <<died, res, scanVars>>

\* After Fatal there is no process left.
Exited == died /\ UNCHANGED vars

Next ==
  \/ \E p \in Proc : \/ Alloc(p)
                     \/ Available(p)
                     \/ SearchStep(p)
                     \/ \E ip \in Input \cup {NotV4} : Set(p, ip) \/ Unset(p, ip)
  \/ Shutdown
  \/ Exited

Spec == Init /\ [][Next]_vars

\* The holder of the mutex keeps running; callers need not come.
FairSpec == Spec /\ \A p \in Proc : WF_vars(SearchStep(p))

-----------------------------------------------------------------------------
\* Every variable has its type; in particular the search of getUnusedIP never
\* leaves the subnet.
TypeOK ==
  /\ used \subseteq Subnet
  /\ running \in BOOLEAN /\ died \in BOOLEAN
  /\ res \in [Proc -> [ip : Subnet \cup {NoIP}, err : Errors]]
  /\ mutex \in Proc \cup {NoProc}
  /\ op \in {"Alloc", "Available"}
  /\ next \in Subnet /\ stop \in Subnet /\ cycled \in BOOLEAN

\* The two Fatal calls that guard the pool's own consistency are unreachable:
\* free() never finds more addresses in use than the subnet has, and the
\* cyclic search never misses a free address, wherever it starts.  The process
\* only dies when a stopped pool is used.
FatalOnlyWhenStopped == died => ~running

\* getUnusedIP returns an address that is available at that moment,
\* and Alloc reports "not enough space" only when every address is in use,
\* although it decides this by comparing two counts.
AnswersAreRight ==
  [][\A p \in Proc : res'[p] # res[p] =>
       /\ mutex = p => IsAvailable(res'[p].ip)
       /\ res'[p].err = "nospace" => used = Subnet]_vars

\* The search ends: a goroutine inside getUnusedIP leaves it.
SearchTerminates == \A p \in Proc : (mutex = p) ~> (mutex # p \/ died)

\* The pool implements the abstract address pool.
Abstract == INSTANCE AddressPool WITH Addr <- Subnet, ServerIP <- Min

\* The methods of IPv4pool do to the used addresses only what AddressPool says.
ImplementsAddressPool == Abstract!PoolSpec
=============================================================================
