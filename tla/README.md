# Verification of common-lib-go

TLA+ specifications of the stateful parts of `common-lib-go`, the library shared
by the VPN House services, with the TLC instances that check them and TLAPS
proofs of the properties that matter most. `PROJECT.json` maps every definition
to the lines it models and lists the components, runs, hazards and theorems.

## The system

The library is a set of packages that a server process links; most of their
state is shared by many goroutines. The parts that are modelled:

| part | state | operations | what is hard | what must hold |
|---|---|---|---|---|
| `ippool` | used IPv4 addresses, running flag | Alloc, Set, Unset, IsAvailable, Shutdown | cyclic search from a random start; Fatal on inconsistency | the search finds a free address when there is one |
| `ipam` | pool, netfilter and traffic control tables | Alloc, Set, Unset, Shutdown | no lock of its own; several kernel calls per operation, each may fail | no address leaked or given twice; policies in force while a peer is held |
| `ipam` rules | nftables sets and rules | New, isolation of a peer | merging of ranges at the ends of uint16; masks rounded to bytes | the rules do to packets what the configuration says |
| `xsync.Cond` | waiter count, one-slot channel | Wait, Signal, Broadcast, Destroy | wake-ups of waiters that are not parked yet | no wake-up is lost |
| `xpipe` | byte buffer, closed flag, deadlines | Read, Write, Close, deadlines | close, deadlines and context against blocked calls | the stream is intact; nobody sleeps for nothing |
| `xlimits.Blocker` | semaphore and usage count per key | Acquire, Release | removal of a key in use; cancelled waiters | never more than the limit per key |
| `xttlmap` | map and LRU list with expiry | Set, Get, Delete, Resize, clean-up | the lock is released between lookup and list update | list and map hold the same nodes; Set ends |
| `xcache` | ring of chunks, index, generation | Update, Reset | index entries that outlive their bytes; wrap-around | what is read is what was written |
| `xstats` | counters of sessions in the cache | ReportStats, reset, flush | reports and resets interleave | no traffic lost or counted twice |
| `xdns/client` | resolvers by priority or last success, cache | Lookup, Set, Unset | lists change while a lookup walks them | lists stay sound, every server is asked, no deadlock |
| `list`, `protect` | linked list; reference counts of addresses | as the resolvers use them | removed elements; a failing protector | links consistent; an address in use is protected |
| `control` | running services, event channel | RegisterService, Replace, Shutdown, Exec | signals, events and failures during start and stop | nothing left running at exit |
| `geoip` | database behind an atomic pointer | GetCountry, reload, Shutdown | reload racing Shutdown and lookups | no lookup in a closed reader, no reader forgotten |
| `xhttp` server | listener, two goroutines | Run, Shutdown, Running | Shutdown returns before the port is free | a restart finds the port free |
| `xproxy` | requests, tunnels of two goroutines | ServeHTTP | one early return per error, half-closed tunnels | users released once, connections closed |
| `xhttp` certificates | certificate in use, cache file, worker | issue, renew, save, load, watch | failed requests and writes, crashes, overlapping issuers | a valid certificate is served and saved |

They meet in these places: `ipam` uses `ippool`; `xpipe` uses `xsync`; `xstats`
uses `xcache`; the resolvers use `list`, `protect` and `xttlmap`; `control` runs
`geoip` and the `xhttp` server, whose handler is `xproxy`.

## Modules

| module | models | kind |
|---|---|---|
| `AddressPool` | what the pool promises | abstract specification |
| `IPv4Pool` | `ippool/poolv4.go` with its search, step by step | implements `AddressPool` |
| `Kernel` | which kernel calls may fail | shared by the next four |
| `NetFilter` | peer rules and the shared `nftables.Conn` of `ipam/nft_linux.go` | component |
| `TrafficControl` | classes, filters and the handle map of `ipam/tc_linux.go` | component |
| `Ipam` | `ipam/ipam.go` over `AddressPool` and the two above | composition |
| `Firewall` | the packets that the rules of `ipam/nft_linux.go` match | component |
| `XCond` | `xsync.Cond` as operators on a record | component |
| `CondClients` | goroutines that use one `Cond` | composition |
| `XPipe` | `xpipe/pipe.go` on two `Cond`s | composition |
| `Blocker` | `xlimits/blocker.go` and the semaphore it uses | component |
| `TTLMap` | `xttlmap/ttlmap.go`, map, list and clean-up goroutine | component |
| `XCache` | a bucket of `xcache/cache.go` as operators | component |
| `XStats` | `xstats/service.go` over `XCache` | composition |
| `List`, `PriorityList`, `ProtectCounter` | `list/list.go`, the slice of `priority.go`, `protect/counter.go` as operators | components |
| `Resolvers` | `xdns/client`, from the cache to the servers and the system | composition |
| `GeoIP`, `HttpServer`, `Proxy` | `geoip`, `xhttp/server.go`, `xproxy/query.go` | components |
| `Services` | `control` with these three | composition |
| `Issuer` | `xhttp/ssl.go` | component |
| `Certificates` | `tls_master.go`, `ssl_foreign.go` and crashes, over `Issuer` | composition |

`MC*` modules give the constants of the instances; `*_proof` modules hold the
theorems. Definitions whose comment begins with "Mutant" are faulty variants of
the definition that follows them; each property is known to fail on one.

### How state and steps correspond to the code

*IPv4Pool.* `used` and `running` are the fields. Methods that run under the
mutex without a loop are one step. `getUnusedIP` is a step per address it looks
at, so the search can be proved right from every starting point. `died` is set
where the code calls `Fatal`. `Input` contains addresses outside the subnet and
`NotV4` because Set, Unset and IsAvailable accept any.

*Ipam.* IPAM has no lock. A step is a call into a part that has one (pool,
traffic control), or a single call on the shared `nftables.Conn`. `pc` is the
position inside a method, `cur` its arguments and `peer` what callers were
promised. `parts` are the fields Shutdown has not set to nil yet; a call on a nil
field is `NilPanic`. `faults` is chosen once per behaviour, so properties can
speak of a healthy kernel.

*NetFilter.* Messages are queued by `AddRule` and `DelRule` and sent by `Flush`,
all or nothing, with those of the other goroutines. Handles are never reused by
the kernel; the model reuses those that nobody refers to any more.

*TrafficControl.* `setLimit` and `removeLimit` hold a mutex and are one step with
an outcome for each kernel call that may fail in the middle. A class handle is
the low bits of the address. Filter numbers are reused, as in the kernel.

*Firewall.* Rules are classifiers of packets. Ports have 2 bits and bytes of an
address 2 bits, instead of 16 and 8; the wrap of `high + 1` and the rounding of
masks are the same at every width. An address is the function of its bits. A range
may be upside down (5-3), as the parser accepts it. The stages are the
flushes of `ipam.New`, whose error for the port rules is ignored by the code.

*XCond.* A send goes to the first parked goroutine, else into the one slot, else
nowhere. The moment between releasing the lock and parking is a state of its own.

`owed` is history: a wake-up was sent to those who wait, and none of them has left since.

*XPipe.* A step is a stretch under the lock, or a check before it. Deadlines are
zero, future or past. No timer is armed in the code, so the passing of a deadline
wakes nobody in the model either. The read of a deadline before the lock is not
synchronised in the code; a stale value can only end the call with a deadline
error, which the interleavings with `SetReadDeadline` include.

*Blocker.* `take` and `put` hold the lock. The semaphore is external
(golang.org/x/sync): first come first served, and a waiter whose context ends
hands on what it may have got. `Obj` are identities of consumer objects; one that
nobody refers to is taken for a new allocation.

*TTLMap.* Nodes with their links as in the code. Set, Delete and Resize are one
step each; Get is the three steps it takes, of which only two hold a lock. The
deadline that Get reads between them may race with Set, and the outcome of that
comparison is arbitrary. `hung` is a loop that never ends and keeps the lock;
`recent` and `stale` are history: the keys in order of use, and whether a Get has
moved a node that had left the map. The clean-up is a goroutine of two steps.

*XCache, XStats.* An entry of the ring is its key, its amount and its length; what
is written over it makes it damaged or absent. The map has the place and the
generation of an entry. `xstats` calls Update and Reset only. A report is one step
under the lock of its bucket; the ticker's goroutine resets one bucket per step;
`pending` are the goroutines that have not called `onFlush` yet. Rx and tx are one
amount.

*Resolvers.* `proc[c].at` is the place of a lookup of one name: before the cache
(idle), at the priority list's lock (wait), between two resolvers (next), asking a
server, protecting its address, moving it to the front. Who holds a read lock
follows from the place. A writer's section is one step that nobody's read lock
excludes, and a lookup that waits for the write lock keeps new readers out, as
`sync.RWMutex` does. `add` changes the slice it ranges over; `PriorityList` has
the slice's capacity because whether the loop sees the change depends on it. The
cache is `xttlmap`'s map, of which the model has the entry of this name; `Evict` is
the Set of another name that pushes it out. `tried` is history: the elements of the
list that a lookup has asked before the one it is at.

*Services.* `exec.pc` is the place of Exec and the Runtime's methods. `geo`, `http` and
`query` are the instances and requests so far, each with the place of its
goroutines. The Runtime is the application's; it starts the country database and
the server, stops them with `ServiceMap.Shutdown`, and replaces the country
database on an event. Constructors, Listen, Serve, Shutdown and loads may fail.
`loose` are the instances that Replace let go, for which nobody is responsible any
more. A signal that finds the channel full is dropped and changes nothing.

*Proxy.* A request has a place, the connections it holds open and its two forwarding
goroutines, each of which is in Read, in Write or over. Every early return of the
handlers is a disjunct. What depends on a peer (`PeerStep`) is a step of the
environment: that a plain request gets its response, that Read or Write returns.

*Issuer, Certificates.* Certificates are numbers in the order of issue and
`notAfter` is when they expire, in spans of 30 days. The worker's tasks, retries
and sleeps are places; `recent` has the ages in minutes of the requests that failed
within an hour. Writing the cache file is truncation, then the content: a crash
between them leaves a torn file. `current` is the issuer in use; others may be at their
last steps. `unsaved` is history: an issuer's last write failed or was torn, or
another issuer has written the file since. `watched` is what the watcher of another process has read.

## Runs

| run | instance | shows |
|---|---|---|
| `ipv4pool` | 4 addresses, 2 goroutines | the search terminates and answers correctly; the pool implements `AddressPool` |
| `ipam_concurrent` | 2 goroutines, every traffic control fault and failing flushes | no address leaked or owned twice; no filter without its class |
| `ipam_sequential` | 1 goroutine, healthy kernel or faults other than class deletion | promises are in force; on a healthy kernel the tables are exact, nothing fails, Shutdown leaves nothing |
| `cond` | 3 waiters, 2 with a context that may end, 3 calls | the counter is right, a wake-up is kept until it is taken and lets somebody leave |
| `xpipe` | buffer of 2, up to 4 bytes | the stream is intact and complete at its end; blocked calls are released |
| `blocker` | 4 goroutines, 2 keys, limit 2 | the limit, the usage counts, and that the queue is served |
| `firewall` | all UDP lists of up to three ranges over 4 ports (two if one is upside down) with three TCP lists; prefixes of 0 to 6 of 8 bits | separate ranges are exact, no list reaches beyond its ranges, isolation is exact for byte masks and never wider than the subnet |
| `ttlmap` | 3 keys, sizes 0 and 2, one Get in flight | list and map agree, the size is bounded and loops end until a Get moves a stale node; the clean-up spares fresh entries |
| `stats` | 5 sessions in 2 buckets, a hash collision, an entry too long, rings that come round twice | entries read are intact; nothing is counted twice, nothing kept is lost, everything is flushed |
| `resolvers` | 2 lookups, 2 servers, system resolvers before and behind them, 2 changes | both lists stay sound, an asked address is protected, a lookup asks every server once, lookups never block each other for ever |
| `services` | 2 instances of each service, 2 loads, 2 signals, one lookup, event and request | readers, users and connections are released, restarts find the port free, SIGTERM ends the process, if the peers of its requests do not hold them for ever, and leaves nothing |
| `certs` | 2 issuers, 3 certificates, 3 spans of time | valid certificates are served and saved through failures and crashes; the CA's limit is kept; the watcher follows |

Types are checked as a conjunct of one invariant per run, and proved in the modules
that have proofs.

### Bounds

* The server and two peers' addresses are enough for a full pool, a reuse and a
  bystander; two goroutines for every race of two calls. `MaxRules` bounds rules including
  stale ones: `RoomForRules` refuses new peers above it.
* `ipam_concurrent` asks for isolated and limited peers only, the ones that take
  every step of `applyPolicy` and `free`; `ipam_sequential` has every policy.
* A longer prefix than 6 of 8 bits leaves no room for a server and a peer.
* `FilterHandle` is as large as the number of filters that can exist, so that
  numbers are reused.
* `MaxBufferSize` 2 with writes of 3 bytes makes every Write wait at least once;
  reads of 1 leave a rest, reads of 2 empty the buffer.
* Four goroutines on two keys give a full semaphore with two in the queue, and a
  key that is dropped and made again. Two consumer objects are all that two keys
  can refer to.
* Three keys with room for two make every further Set evict; the size 0 has the
  eviction loop that never ends.
* Two chunks of four units and five reports make the ring wrap twice, so that the third
  and last generation number is reached. That the numbers start again, for which the
  instance has too few reports, is covered by the theorem only. With two numbers an
  entry could be taken for a newer one; the code has 2^24 - 1.
* Three list elements for two servers let a server be removed and added again while a
  lookup still holds its old element.
* Two signals are two that find room in the channel; the ones that find none change
  nothing and are not counted.
* Two instances of each service are a restart or a replacement; a third one meets
  the same predecessors. The theorems have no such bound.
* Three spans of time are the life of a certificate: the first one is renewed with one
  span left, or expires when that fails.
* Symmetry is used over goroutines, keys and servers, for invariants and one action
  property.

### Fairness

Fairness is assumed only for steps that a running goroutine takes by itself: the
holder of a mutex goes on, a goroutine whose lock is free or whose channel is
ready runs, a call into a library returns. Strong fairness is assumed for the
context case of a select (`ReadExpire`, `WriteExpire`), because Go chooses among
ready cases at random, and for the success of a certificate request: a CA that is
asked again and again answers in the end, without which nothing can be said of the
retries. `Blocker` also assumes that who acquired releases some day, which is the
contract of its API. No call is ever assumed to be made, no context to end, no
signal to come. The peers of a request are not assumed to do anything: a tunnel, a
Write into it and a plain request may last for ever. `TermEnds` and `TunnelEnds`
therefore have as a premise what they need of them: that a server's requests do not
wait for a peer for ever, and that no Write of the tunnel does.

## Proofs

* `Network_proof`, first the rules, from `FirewallAssumption` (types of the
  configurations, bytes of at least one bit): `PortsExact` and `SubnetIsolated`, for any
  number of ports, lists of any length and any mask. What the merging loop has written
  after n ranges is proved by induction over n (`AfterRounds`): no key lies beyond the
  highest end so far, so the next interval changes nothing for lower ports; a port is in
  the set only if a range has it, and for ranges that are apart if and only if. The verdict of a chain is then taken apart rule by rule
  (`SkipUnmatched`, `StopMatched`), since a rule that does not match leaves the verdict to
  the rest. `ChainInv` says which rules the chain has at each stage of `New`, with the UDP rules
  missing after a failed flush. `BytesCover` says that the bytes compared have all
  bits of the mask, with equality if the mask ends at a byte.
  Then the pool, from `PoolAssumption` (0 < Min < Max, and model values
  that are no addresses): types, `FatalOnlyWhenStopped`, `AnswersAreRight` and the refinement of
  `AddressPool`. The search is right because of `SearchInv`: every address between
  the start and the current one, cyclically, is in use, so coming back to the start means
  the pool is full, which was excluded under the same lock. That free counts
  never go below zero rests on the cardinality of subsets of an interval.
* `Ipam_proof`, from the assumptions of `Ipam`: `AddressAccounting` and
  `FiltersHaveOwnClass` for any number of goroutines and any faults. The first is
  inductive with the types of the manager's own variables; each step either keeps the
  set of owners of an address, adds one that has just taken an address nobody owns, or
  removes one that gives its address to the caller or back. The second needs `Entries`:
  an entry of the filter map owns its class, and the filter of that class, if there is
  one, has the number of the entry. So `removeLimit`, which deletes by a number that
  may be of another filter by now, never takes a class away from under a filter.
* `IpamTables_proof`, for one caller at a time (`OneCaller`) and every subnet:
  `PromisesInForce` if no class deletion fails, and `TablesExact` if the class handles of
  the peers differ from each other and from the two that are taken (`DistinctHandles`).
  Both are assumptions of the theorems because the code needs them: the properties fail
  without them, as the observations below tell. `SeqInv`, in `Ipam_proof`, says what the
  queue of messages holds at each place of a call (`QueueInv`), so that a flush is the effect of
  one message; that numbers of rules are unique (`RulesInv`), so that deleting by number
  takes the peer's rule; that entries of the filter map have their filters
  (`EntriesMatch`); and which parts Shutdown has left (`PartsInv`). `ExactInv` bounds the
  tables from above: besides the peers that callers hold, only the one whose call is in
  progress has a rule or a filter.
* `Services_proof`, without assumptions on the constants: `ReadersManaged`, `RestartFindsPortFree` and
  `ExitLeavesNothing`, for any number of instances, loads, signals, callers and
  requests. None is inductive. `GeoInv` says where the goroutine of a country
  database is when a reader is in its hand and what Shutdown has taken; `LookupInv` that
  a lookup that reads keeps the reader open; `ServerInv` that who holds the port still serves. `OwnInv` carries the rest: an instance that has not ended is
  in the service map, is the new one of a Replace in progress, or was let go by Replace. So when the
  map is empty, at the restart and at the exit, all have ended. `ControlInv` ties the
  map to the order in which services are stopped and to Exec's place.
  At its end, from `RequestAssumption` (finitely many requests), `RequestsReleased`:
  `ProxyInv` says what a request holds at each place of its handler (`Holds`), and that
  the number of users is the number of requests between the authorisation and the
  release.
* `XSync_proof`, first the condition variable, from `CondAssumption` (finitely many goroutines):
  `WaitersCounted`. To be inductive it has to say that nobody is twice in the
  queue of the channel (`Queue`), and that who is parked, ready or failed is inside
  Wait (`Counted`): who enters is none of them, and the counter grows with the set.
  A wake-up that is owed is in the channel or with somebody who was handed it (`Sent`).
  Then the pipe, from `PipeAssumption` (sizes are in Nat): `StreamIntact` and
  `SleepersHaveReason`, for every size of the buffer, of the reads and of the writes. A
  wake-up may come between the unlock and the parking, so the invariant speaks of a
  goroutine that sleeps or is about to: if there is something for it, a token is in
  its channel (`ReaderTold`, `WriterTold`). `Closing` says that a reader is told of the
  close only when the buffer is empty.
* `Certificates_proof`, from `TimeAssumption` (time ends at a number): `SleepsOnValid`,
  `RequestsLimited`, `CacheCurrent` and the action property `ServedNeverWorse`, for any
  number of issuers and certificates. `Serves` ties the place of a worker to what it
  serves: a certificate it saves is new, one it sleeps on outlasts the sleep. `Asks`
  has, for each interval of the retries, the ages of the requests that failed before:
  sums of the intervals 1, 4, 16 and 60, of which no more than five are within an hour.
  `Late` counts the requests after Shutdown by the task. `Held` carries the file
  through the steps between two writes.
  At its end the blocker, from `BlockerAssumption` (finitely many goroutines, a limit in
  Nat): `LimitPerId`, `UsageExact` and the types. The limit is about keys but the
  semaphore belongs to an object, so the invariant has to say that all users of a
  key share the object in the map (`Sharing`), that usage counts them
  (`Counting`), hence the object is not dropped under them, and that who is
  inside holds a token (`Tokens`).
* `XStats_proof`, from `XCacheAssumption` (more than two generations, lengths above
  zero) and `XStatsAssumption` (every key has a bucket): `ReadableIsIntact` and
  `TrafficAccounted`, for every size of the ring, all hashes and lengths, any number of
  buckets and reports. `Sound` says that an entry of the current generation is whole
  and ends before the place of the next one, and that one of the generation before is
  whole as long as the ring has not come to it; there is no third kind, because the
  clean-up at the turn of the ring drops what is older. That is why the numbers of the
  generations can start again. The place chosen by `Start` never reaches over the end of
  its chunk (`StartIs`). `Young` says that a bucket whose ring has not come round has
  one generation only, so that nothing in it is overwritten, and `RunInv` that a reset
  holds at most one item of a session and none of the buckets still to come. With these,
  every step moves traffic from one place to another or adds what is reported.

* `Resolvers_proof`, from `ListAssumption` and `ResolversAssumption` (finitely many
  lookups and servers, an element for each server, priorities are integers):
  `ListsSound`, `EveryServerAsked` and `ProtectedWhileAsked`, for any number of lookups, servers,
  resolvers and changes. That the links form one ring is said by closure: a set that
  contains the root and the successors of its elements contains every member. Each
  operation of the list is shown to keep this, by turning a closed set of the new links
  into one of the old. What `add` leaves of the slice it ranges over is proved by
  induction over its rounds. A step of a lookup is described once, by its effect on the
  lookup's place and on the data; `BaseInv` (a lookup that asks holds a member of the
  list), `OrderInv`, `WalkInv` and `ProtectInv` (the counter of an address is the number
  of lookups that ask it) rest on that. `WalkInv` says that what a lookup has asked is a
  stretch of the list from its front to the element before the current one, in both
  directions of the links; when the next one is the root, the stretch is closed and
  hence the whole list. It holds through the other steps because nobody changes the
  list while a lookup is in it.

The inductive invariants are checked by TLC on the instances of the runs before they are
proved (that of `Certificates_proof` also with three issuers). Theorems say nothing of
the bounds of the runs: numbers of goroutines, calls, keys and bytes are arbitrary.

Recursive functions and folds are reasoned about with an induction theorem for sets of
natural numbers (`NatSetInduction`), which follows from the least element of such a set;
the induction theorems of the library take an operator, which the provers cannot
instantiate.

Only model-checked, and why:

* Liveness (`SearchTerminates`, `SignalWakesOne`, `DestroyWakesAll`, `CallsReleased`,
  `QueueServed`, `EventuallyFlushed`, `TermEnds`, `TunnelEnds`,
  `WorkersEnd`, `EventuallyTrusted`, `WatcherFollows`) needs fairness, and `LookupsGoOn`,
  which says that some lookup can take a step, needs `ENABLED`: neither is in reach of the prover.
* `TTLMap`: `SoundUntilStaleMove` and `CleanupSparesFresh` depend on loops that take an
  unbounded number of nodes off a list by its links, within one step.

## Observations

Behaviours of the code met while modelling that limit what the properties say. The
models contain them; no property is stated that they would break.

* *Shared netfilter connection.* One goroutine's Flush sends, and on failure drops,
  the messages another has queued. The other's Flush of an empty queue then succeeds,
  and its peer is held without its isolation rule. With two goroutines
  `PromisesInForce` fails, so it is checked for one.
* *Rollback.* After a failed `setLimit` the isolation rule stays, and the next holder of
  the address has it, though it asked for none.
* *Limits.* With two goroutines, `Unset` returns the address to the pool before it
  removes the limit, so the next holder's limit may be refused or removed. After a
  failed class deletion the remembered filter number may be given to another peer,
  whose filter the next `removeLimit` deletes. An address such as 10.0.9.153 has the
  handle 0x999 of the default class. The instances have no such address.
* *Rules.* Masks are rounded up to bytes, so with another prefix some neighbours stay
  reachable. A port range that overlaps the one before it is skipped with the ports it
  adds, as is a range that begins at port 0. `New` ignores an error of
  `fillPortRestrictionRules`. `PortsExact` and `SubnetIsolated` are stated for the other cases.
* *Cond.* A wake-up stays in the channel when nobody takes it, and lets a later Wait
  return at once. Of several waiters that are counted but not parked yet, Broadcast wakes one,
  because the channel has one slot. Each pipe has one waiter per condition, and is not affected.
* *Pipe.* When a deadline passes, nothing wakes the call that sleeps.
* *TTLMap.* A Get that moves a node removed meanwhile leaves the list and the map in
  disagreement, after which an eviction loop may never end; a maximal size of 0 has
  the same effect. `SoundUntilStaleMove` holds until then.
* *Cache.* Entries the ring overwrites are not handed to `onEvict`, because `readItem`
  refuses them. `TrafficAccounted` demands equality only for sessions that keep their entry.
* *Resolvers.* `add` goes on with its loop after an insertion: out of order, resolvers
  are repeated. A preset answer is evicted like any other when the cache is full, and
  a lookup that was under way when it was preset stores its own answer over it. A lookup that fails is answered with the cached answer, expired or zero, and no error.
* *Control.* The signal channel has one place: a SIGTERM that comes while a SIGHUP waits is lost. A reload
  that ends after Replace has shut its instance down leaves a reader open.
* *Server.* Shutdown waits for the requests without a limit, hence for an open tunnel
  over HTTP/2 and for a plain request whose remote server does not answer: the client
  that `handleProxy` uses comes from the application, and the request has no context.
  A peer that stays keeps the process from ending. Hijacked tunnels outlive Shutdown.
* *Proxy.* When one direction of a tunnel ends, it closes the connection it writes to,
  which lets a Read of that connection fail, but not a Write to the other one: a peer that
  does not read keeps the tunnel open. The remote connection is not closed when hijacking fails. A plain HTTP/2
  request is answered with an error and then handled nevertheless.
* *Certificates.* A renewed certificate whose write fails is not written again before
  the next renewal. A file the watcher cannot read puts a nil certificate under the empty domain.
* *Connmgr.* A Register that has loaded the map before CloseAll swaps it may store its
  connection after the Range: the connection is neither found nor closed.

## Not modelled

* `connmgr` (80 lines around `sync.Map`, used by no other package; its one race is above);
  `xlimits.Recent`, `shaper`, `keycounter`, `statutils`: arithmetic under one lock,
  where no step of another goroutine comes between.
* `keystore`: one goroutine reads the directory again and replaces the map as a whole.
  The RSA keeper reads and writes files under one lock.
* `xdns/server`: CoreDNS owns the life cycle; lookups are serialised by a lock and
  read a database that is opened as immutable.
* The operations of `xcache` and `list` that nothing in the repository calls, and the
  allocation of chunks.
* Cryptography, token formats, HTTP middleware, validation, logging and configuration
  have no state that interleaves. Masquerading rules are installed once.
* Timing is abstracted to what has passed; contents of packets beyond protocol,
  port and address, of requests and of DNS answers are left out.
