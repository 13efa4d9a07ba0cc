------------------------------- MODULE GeoIP --------------------------------
(***************************************************************************)
(* Instances of the country database (geoip/instance.go, geoip/db.go).     *)
(*                                                                         *)
(* An instance has an atomic pointer to its database, a goroutine that     *)
(* loads the file again when it has changed and swaps the new database in, *)
(* and the channels stop and done.  Lookups load the pointer and use the   *)
(* database under its read lock; Close takes the write lock.  A database   *)
(* is a number per instance, 0 for nil, and open while its reader is.      *)
(***************************************************************************)
EXTENDS Naturals, Sequences

CONSTANTS Client,     \* callers of GetCountry
          MaxLoads    \* bound on the databases of one instance

VARIABLES geo,      \* the instances so far
          lookup    \* the lookups

geoVars == <<geo, lookup>>

NoLookup == [inst |-> 0, db |-> 0, reading |-> FALSE]
GeoInit == geo = <<>> /\ lookup = [c \in Client |-> NoLookup]

\* dbCountry, stop and done closed, the goroutine's place and the database in
\* its hand, that in the hand of Shutdown, and the databases with a reader
NewGeoip ==
  geo' = Append(geo, [ptr |-> 1, stop |-> FALSE, done |-> FALSE, run |-> "wait", hand |-> 0,
                      closing |-> 0, loads |-> 1, open |-> {1}])

Set(i, r) == geo' = [geo EXCEPT ![i] = r]
Reading(i, d) == \E c \in Client : lookup[c] = [inst |-> i, db |-> d, reading |-> TRUE]

\* db.Close, under the write lock
MayClose(i, d) == ~Reading(i, d)
Closed(r, d) == [r EXCEPT !.open = @ \ {d}]

\* run: the ticker fires and the file has changed (else nothing happens).  The
\* select may prefer the ticker although stop is closed.
Reload(i) ==
  /\ geo[i].run = "wait" /\ geo[i].loads < MaxLoads
  /\ Set(i, [geo[i] EXCEPT !.loads = @ + 1, !.hand = geo[i].loads + 1, !.run = "loaded", !.open = @ \cup {geo[i].loads + 1}])
  /\ UNCHANGED lookup

\* run: Swap of the new database
SwapIn(i) ==
  /\ geo[i].run = "loaded"
  /\ \/ /\ geo[i].ptr # 0
        /\ Set(i, [geo[i] EXCEPT !.ptr = geo[i].hand, !.hand = geo[i].ptr, !.run = "close"])
     \/ /\ geo[i].ptr = 0
        /\ Set(i, [geo[i] EXCEPT !.ptr = geo[i].hand, !.hand = 0, !.run = "wait"])
  /\ UNCHANGED lookup

\* run: Close of the old one
CloseOld(i) ==
  /\ geo[i].run = "close" /\ MayClose(i, geo[i].hand)
  /\ Set(i, [Closed(geo[i], geo[i].hand) EXCEPT !.run = "wait", !.hand = 0])
  /\ UNCHANGED lookup

\* Mutant: done is not closed.
RunStopsSilently(i) ==
  /\ geo[i].run = "wait" /\ geo[i].stop
  /\ Set(i, [geo[i] EXCEPT !.run = "ended"])
  /\ UNCHANGED lookup

\* run: stop is closed
RunStops(i) ==
  /\ geo[i].run = "wait" /\ geo[i].stop
  /\ Set(i, [geo[i] EXCEPT !.run = "ended", !.done = TRUE])
  /\ UNCHANGED lookup

\* Shutdown after another one and a reload between them closes stop again.
ShutdownPanics(i) == geo[i].ptr # 0 /\ geo[i].stop

\* Shutdown: Swap(nil), and close(stop) unless it was nil.
ShutdownBegin(i) ==
  Set(i, IF geo[i].ptr = 0 THEN geo[i]
         ELSE [geo[i] EXCEPT !.ptr = 0, !.closing = geo[i].ptr, !.stop = TRUE])

\* Shutdown: done has been closed, and the database can be.
ShutdownMayEnd(i) == geo[i].closing = 0 \/ (geo[i].done /\ MayClose(i, geo[i].closing))
ShutdownEnd(i) == Set(i, [Closed(geo[i], geo[i].closing) EXCEPT !.closing = 0])

GeoRunning(i) == geo[i].ptr # 0

\* GetCountry: Load, then db.Lookup, which holds the read lock while it reads.
GetCountry(c, i) ==
  /\ lookup[c] = NoLookup /\ geo[i].ptr # 0
  /\ lookup' = [lookup EXCEPT ![c] = [inst |-> i, db |-> geo[i].ptr, reading |-> FALSE]]
  /\ UNCHANGED geo

\* Mutant: the reader is not checked under the lock.
LookupReadUnchecked(c) ==
  /\ lookup[c] # NoLookup /\ ~lookup[c].reading
  /\ lookup' = [lookup EXCEPT ![c].reading = TRUE]
  /\ UNCHANGED geo

LookupRead(c) ==
  /\ lookup[c] # NoLookup /\ ~lookup[c].reading
  /\ lookup' = IF lookup[c].db \in geo[lookup[c].inst].open THEN [lookup EXCEPT ![c].reading = TRUE]
               ELSE [lookup EXCEPT ![c] = NoLookup]
  /\ UNCHANGED geo

LookupEnd(c) ==
  /\ lookup[c].reading
  /\ lookup' = [lookup EXCEPT ![c] = NoLookup]
  /\ UNCHANGED geo

RunStep(i) == SwapIn(i) \/ CloseOld(i) \/ RunStops(i)
LookupStep(c) == LookupRead(c) \/ LookupEnd(c)
=============================================================================
