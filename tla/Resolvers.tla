----------------------------- MODULE Resolvers ------------------------------
(***************************************************************************)
(* The stack of resolvers that Builder makes (xdns/client): a cache over a *)
(* list of resolvers by priority, one of which asks DNS servers in order   *)
(* of last success, and others the system.  Lookups of one name run        *)
(* concurrently with each other and with changes of the configuration.     *)
(*                                                                         *)
(* Locks: a client past its cache check and in the priority list holds its *)
(* read lock; one that asks the servers holds that list's as well.  A      *)
(* writer's section is one step, taken when nobody holds the read lock;    *)
(* the one that waits in Lookup to move an element keeps new readers out.  *)
(* The cache is the TTLMap, of which this is the entry of the name, with   *)
(* its deadline; other names may push it out.  Time zero, as in            *)
(* time.Time{}, is Never.                                                  *)
(***************************************************************************)
EXTENDS List, PriorityList, ProtectCounter

CONSTANTS Client, Server,
          DNSPriority, SystemPriorities,   \* what WithDNSServers and WithSystem are called with
          Ttl, MinTtl, MaxTtl, KeepTime,   \* of the answers, and the cache's options
          FailureTimeout,
          MaxEntities, MaxChanges, MaxNow  \* bounds

ASSUME ResolversAssumption ==
  /\ IsFiniteSet(Client) /\ IsFiniteSet(Server) /\ 1 .. Cardinality(Server) \subseteq Element
  /\ DNSPriority \in Int /\ SystemPriorities \subseteq Int

VARIABLES now, cache,
          prio,      \* the slice of the priority list
          ent,       \* priority, resolver and time of failure of the entities so far
          la, srv,   \* the list of servers, and the server of an element
          pc,        \* the protect counter
          proc,      \* the lookups; of each, tried is the history of the elements asked before e
          changes,   \* number of changes of the configuration
          ascending, \* history: every entity was added behind the ones of lower priority
          forced     \* history: UnprotectAll was called during a protected exchange

vars == <<now, cache, prio, ent, la, srv, pc, proc, changes, ascending, forced>>
config == <<prio, ent, la, srv, changes, ascending>>

Never == -1
Nothing == [val |-> "zero", expires |-> Never, deadline |-> Never]
Idle == [at |-> "idle", lazy |-> TRUE, i |-> 0, e |-> NilElement, tried |-> {}]

\* The list and the priorities after WithDNSServers of all servers.
Init ==
  /\ now = 0 /\ cache = Nothing
  /\ prio = [seq |-> <<1>>, cap |-> 1]
  /\ ent = <<[priority |-> DNSPriority, resolver |-> "servers", failedAt |-> Never]>>
  /\ la = ListOf(Cardinality(Server))
  /\ srv \in [Element -> Server \cup {"none"}]
  /\ \A s \in Server : \E e \in la.members : srv[e] = s
  /\ \A e \in Element \ la.members : srv[e] = "none"
  /\ pc = NoneProtected
  /\ proc = [c \in Client |-> Idle]
  /\ changes = 0 /\ ascending = TRUE /\ forced = FALSE

Priority(entities) == [i \in DOMAIN entities |-> entities[i].priority]
InPriority == {c \in Client : proc[c].at \notin {"idle", "wait"}}

\* Mutant: the read lock is kept while the write lock is asked for.
InServersUpgrade == {c \in Client : proc[c].at \in {"ask", "protect", "asked", "move"}}

InServers == {c \in Client : proc[c].at \in {"ask", "protect", "asked"}}

(***************************************************************************)
(* The cache                                                               *)
(***************************************************************************)
\* TTLMap.Get and Response.Expired
Got == IF cache.deadline # Never /\ now > cache.deadline THEN Nothing ELSE cache
Fresh(r) == r.val # "zero" /\ (r.expires = Never \/ now <= r.expires)

cacheResult(val, ttl) ==
  cache' = IF ttl = Never THEN [val |-> val, expires |-> Never, deadline |-> Never]
           ELSE [val |-> val, deadline |-> now + KeepTime,
                 expires |-> IF ttl > MaxTtl THEN now + MaxTtl ELSE IF ttl < MinTtl THEN now + MinTtl ELSE now + ttl]

\* Preset of the name for good, or nil.
Preset(nil) ==
  /\ \/ nil /\ cache' = Nothing
     \/ ~nil /\ cacheResult("preset", Never)
  /\ UNCHANGED <<now, config, pc, proc, forced>>

\* Set of another name, when the map is full and this name the one used least
\* recently: the entry is removed, a preset one too.
Evict ==
  /\ cache # Nothing /\ cache' = Nothing
  /\ UNCHANGED <<now, config, pc, proc, forced>>

\* CachedResolver.Lookup up to the nested one; a hit ends it.
Lookup(c) == \E lazy \in BOOLEAN :
  /\ proc[c].at = "idle"
  /\ proc' = IF Fresh(Got) THEN proc ELSE [proc EXCEPT ![c] = [Idle EXCEPT !.at = "wait", !.lazy = lazy, !.i = 1]]
  /\ UNCHANGED <<now, cache, config, pc, forced>>

(***************************************************************************)
(* The priority list                                                       *)
(***************************************************************************)
Entity(c) == prio.seq[proc[c].i]
Rested(x) == ent[x].failedAt = Never \/ now - ent[x].failedAt > FailureTimeout
Failed(x) == ent' = [ent EXCEPT ![x].failedAt = now]
NextEntity(c) == [proc EXCEPT ![c] = [@ EXCEPT !.at = "next", !.i = proc[c].i + 1, !.e = NilElement, !.tried = {}]]

\* The answer to the caller, with a new answer (val) or without one: then it is
\* the cached one, expired or zero, and no error.
Return(c, val) ==
  /\ proc' = [proc EXCEPT ![c] = Idle]
  /\ \/ val = "zero" /\ cache' = cache
     \/ val # "zero" /\ \E ttl \in Ttl : cacheResult(val, ttl)

AskServer(c, e, tried) ==
  [proc EXCEPT ![c] = [@ EXCEPT !.at = IF proc[c].lazy THEN "ask" ELSE "protect", !.e = e, !.tried = tried]]

\* One iteration of PriorityResolver.Lookup, the first one with RLock, up to the question it asks.
Consider(c) ==
  /\ proc[c].at \in {"wait", "next"}
  /\ UNCHANGED <<now, prio, la, srv, changes, ascending, pc, forced>>
  /\ \/ /\ proc[c].i > Len(prio.seq)
        /\ Return(c, "zero") /\ UNCHANGED ent
     \/ /\ proc[c].i <= Len(prio.seq) /\ ~Rested(Entity(c))
        /\ proc' = NextEntity(c) /\ UNCHANGED <<cache, ent>>
     \/ /\ proc[c].i <= Len(prio.seq) /\ Rested(Entity(c)) /\ ent[Entity(c)].resolver = "system"
        /\ proc' = [proc EXCEPT ![c].at = "system"] /\ UNCHANGED <<cache, ent>>
     \/ /\ proc[c].i <= Len(prio.seq) /\ Rested(Entity(c)) /\ ent[Entity(c)].resolver = "servers"
        /\ \A d \in Client : proc[d].at # "move"
        /\ \/ /\ Front(la) = NilElement
              /\ proc' = NextEntity(c) /\ Failed(Entity(c))
           \/ /\ Front(la) # NilElement
              /\ proc' = AskServer(c, Front(la), {}) /\ UNCHANGED ent
        /\ UNCHANGED cache

\* The system's resolver answers; only some errors count as its failure.
SystemAnswer(c, answer) ==
  /\ proc[c].at = "system"
  /\ \/ /\ answer = "ok"
        /\ Return(c, "answer") /\ UNCHANGED ent
     \/ /\ answer \in {"empty", "notexists"}
        /\ proc' = NextEntity(c) /\ UNCHANGED <<cache, ent>>
     \/ /\ answer = "error"
        /\ proc' = NextEntity(c) /\ Failed(Entity(c)) /\ UNCHANGED cache
  /\ UNCHANGED <<now, prio, la, srv, changes, ascending, pc, forced>>

(***************************************************************************)
(* The servers by last success, each asked without and then with protection*)
(***************************************************************************)
\* The server in turn failed: the next one, or the end of the list, which is
\* a failure of the list whatever the servers answered.
NextServer(c) ==
  /\ UNCHANGED cache
  /\ \/ /\ NextOf(la, proc[c].e) # NilElement
        /\ proc' = AskServer(c, NextOf(la, proc[c].e), proc[c].tried \cup {proc[c].e}) /\ UNCHANGED ent
     \/ /\ NextOf(la, proc[c].e) = NilElement
        /\ proc' = NextEntity(c) /\ Failed(Entity(c))

\* The server in turn answered: it is the first one, or it will be.
Answered(c) ==
  /\ UNCHANGED ent
  /\ \/ proc[c].e = Front(la) /\ Return(c, "answer")
     \/ /\ proc[c].e # Front(la)
        /\ proc' = [proc EXCEPT ![c].at = "move"] /\ UNCHANGED cache

\* once, unprotected
AskAnswer(c, ok) ==
  /\ proc[c].at = "ask"
  /\ \/ ok /\ Answered(c)
     \/ ~ok /\ proc' = [proc EXCEPT ![c].at = "protect"] /\ UNCHANGED <<cache, ent>>
  /\ UNCHANGED <<now, prio, la, srv, changes, ascending, pc, forced>>

\* once, protected: the protection, then the answer and the deferred call
Protect(c, ok) ==
  /\ proc[c].at = "protect"
  /\ \/ /\ ok
        /\ pc' = ProtectAddresses(pc, srv[proc[c].e])
        /\ proc' = [proc EXCEPT ![c].at = "asked"] /\ UNCHANGED <<cache, ent>>
     \/ ~ok /\ NextServer(c) /\ UNCHANGED pc
  /\ UNCHANGED <<now, prio, la, srv, changes, ascending, forced>>

AskedAnswer(c, ok, unprotected) ==
  /\ proc[c].at = "asked"
  /\ pc' = UnprotectAddresses(pc, srv[proc[c].e], unprotected)
  /\ \/ ok /\ Answered(c)
     \/ ~ok /\ NextServer(c)
  /\ UNCHANGED <<now, prio, la, srv, changes, ascending, forced>>

\* Mutant: the element is moved without the write lock.
MoveUnlocked(c) ==
  /\ proc[c].at = "move"
  /\ la' = MoveToFront(la, proc[c].e)
  /\ Return(c, "answer")
  /\ UNCHANGED <<now, prio, ent, srv, changes, ascending, pc, forced>>

\* Lock after RUnlock: the element may have been removed in between.
Move(c) ==
  /\ proc[c].at = "move" /\ InServers = {}
  /\ la' = MoveToFront(la, proc[c].e)
  /\ Return(c, "answer")
  /\ UNCHANGED <<now, prio, ent, srv, changes, ascending, pc, forced>>

(***************************************************************************)
(* Changes of the configuration                                            *)
(***************************************************************************)
Counted == changes < MaxChanges /\ changes' = changes + 1
Change == Counted /\ UNCHANGED <<now, cache, pc, proc, forced>>

\* PriorityResolver.With or Add, which differ in replace.
AddResolver(p, resolver, replace) ==
  /\ Change /\ InPriority = {} /\ Len(ent) < MaxEntities
  /\ \E r \in {add(prio, p, Len(ent) + 1, replace,
                   Append(Priority(ent), p))} :
       /\ prio' = r.slice
       /\ ent' = IF r.hit # 0 THEN [ent EXCEPT ![r.hit].resolver = resolver]
                 ELSE Append(ent, [priority |-> p, resolver |-> resolver, failedAt |-> Never])
       /\ ascending' = (ascending /\ \A i \in DOMAIN prio.seq :
                          \/ ent[prio.seq[i]].priority < p
                          \/ ent[prio.seq[i]].priority = p /\ replace)
  /\ UNCHANGED <<la, srv>>

WithSystem(p, replace) == AddResolver(p, "system", replace)

UnsetResolver(p) ==
  /\ Change /\ InPriority = {} /\ Find(prio, p, Priority(ent)) # 0
  /\ prio' = Unset(prio, Find(prio, p, Priority(ent)))
  /\ UNCHANGED <<ent, la, srv, ascending>>

\* The elements nobody holds any more can be allocated again.
FreeElement(e) == e \notin la.members /\ \A c \in Client : proc[c].e # e

\* With or Add of a server that is not in the list; one that is in it stays.
AddServer(s) ==
  /\ Change /\ InServers = {}
  /\ \A e \in la.members : srv[e] # s
  /\ \E e \in Element :
       /\ FreeElement(e) /\ \A d \in 1 .. e - 1 : ~FreeElement(d)
       /\ la' = PushBack(la, e) /\ srv' = [srv EXCEPT ![e] = s]
  /\ UNCHANGED <<prio, ent, ascending>>

UnsetServer(s) ==
  /\ Change /\ InServers = {}
  /\ \E e \in la.members : srv[e] = s /\ la' = Remove(la, e)
  /\ UNCHANGED <<prio, ent, srv, ascending>>

ForceUnprotect(ok) ==
  /\ Counted
  /\ pc' = UnprotectAll(pc, ok)
  /\ forced' = (forced \/ \E c \in Client : proc[c].at = "asked")
  /\ UNCHANGED <<now, cache, prio, ent, la, srv, ascending, proc>>

Tick == now < MaxNow /\ now' = now + 1 /\ UNCHANGED <<cache, config, pc, proc, forced>>

LookupStep(c) ==
  \/ Consider(c) \/ Move(c)
  \/ \E a \in {"ok", "empty", "notexists", "error"} : SystemAnswer(c, a)
  \/ \E ok \in BOOLEAN : AskAnswer(c, ok) \/ Protect(c, ok) \/ \E un \in BOOLEAN : AskedAnswer(c, ok, un)

Next ==
  \/ \E c \in Client : Lookup(c) \/ LookupStep(c)
  \/ \E b \in BOOLEAN : Preset(b) \/ ForceUnprotect(b) \/ \E p \in SystemPriorities : WithSystem(p, b)
  \/ \E p \in SystemPriorities : UnsetResolver(p)
  \/ Evict
  \/ \E s \in Server : AddServer(s) \/ UnsetServer(s)
  \/ Tick

Spec == Init /\ [][Next]_vars

(***************************************************************************)
(* Properties                                                              *)
(***************************************************************************)
\* Types, and a lookup's element is one that is allocated.
TypeOK ==
  /\ cache.val \in {"zero", "preset", "answer"}
  /\ \A i \in DOMAIN prio.seq : prio.seq[i] \in DOMAIN ent
  /\ Len(prio.seq) <= prio.cap
  /\ \A c \in Client :
       /\ proc[c].at \in {"idle", "wait", "next", "system", "ask", "protect", "asked", "move"}
       /\ proc[c].at \in {"ask", "protect", "asked"} => proc[c].e \in la.members

\* The list of servers is sound, though Lookup takes the lock anew before it moves
\* an element that may have been removed or removed and added again by then.  As long
\* as resolvers are added in order of priority, their list has one for each priority,
\* in this order.  (Otherwise add repeats the ones behind.)
ListsSound ==
  /\ TypeOK
  /\ WellFormed(la)
  /\ ascending => \A i, j \in DOMAIN prio.seq : i < j => ent[prio.seq[i]].priority < ent[prio.seq[j]].priority

\* Unless UnprotectAll came in between, a server is protected during every
\* protected exchange with it, and its count is the number of these exchanges,
\* whichever calls of the protector fail.
ProtectedWhileAsked ==
  ~forced => \A s \in Server :
    LET users == {c \in Client : proc[c].at = "asked" /\ srv[proc[c].e] = s}
    IN  Count(pc, s) = Cardinality(users) /\ (users # {} => s \in pc.under)

\* A lookup asks no element of the servers' list twice, and when it gives up on the
\* list it has asked every server that is in it, though other lookups move the ones
\* that answered to the front, and servers come and go, while it waits for answers.
EveryServerAsked ==
  \A c \in InServers :
    /\ proc[c].e \notin proc[c].tried
    /\ NextOf(la, proc[c].e) = NilElement => la.members \subseteq proc[c].tried \cup {proc[c].e}

\* Lookups never wait for each other in a circle: as long as one is under way,
\* one can go on, though Lookup gives up the read lock of the servers for the
\* write lock while it holds the read lock of the priorities.
LookupsGoOn ==
  (\E c \in Client : proc[c].at # "idle") => \E c \in Client : ENABLED LookupStep(c)
=============================================================================
