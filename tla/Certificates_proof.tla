------------------------- MODULE Certificates_proof -------------------------
(***************************************************************************)
(* That a worker sleeps only on a valid certificate, that the CA's limit   *)
(* on failed requests is kept, that the cache file is current, and that    *)
(* what is served never gets worse: for any number of certificates and     *)
(* issuers, and any time.  At the end, the other component that keeps a    *)
(* limit: the blocker, for any number of goroutines and keys and any       *)
(* number of users per key.                                                *)
(***************************************************************************)
EXTENDS Certificates, Blocker, FiniteSetTheorems, TLAPS

Places == {"task", "write", "writing", "wait", "sleep", "ended"}
Intervals == {1, 4, 16, 60}

IssuerType ==
  [le : Int, tls : Int, task : {"issue", "renew"}, pc : Places, tried : BOOLEAN, interval : Intervals,
   done : BOOLEAN, recent : SUBSET Nat, late : Nat, unsaved : BOOLEAN, mixed : BOOLEAN]

\* What r serves, at time t when na has been issued: a certificate that it has just
\* received while it saves that one, and while it sleeps one that outlasts the span
\* it sleeps through.
Serves(r, t, na) ==
  /\ r.le \in 0 .. Len(na)
  /\ r.tls = IF r.le = None THEN SelfSigned ELSE r.le
  /\ r.pc \in {"write", "writing"} => r.le # None /\ na[r.le] = t + Validity
  /\ ~r.done => /\ r.pc # "ended"
                /\ r.task = "renew" => r.le # None
                /\ r.pc = "sleep" => r.task = "renew" /\ na[r.le] > t + (IF r.tried THEN 1 ELSE 0)

\* The ages of failed requests when the next one is made, by the interval before it:
\* the intervals themselves, summed up.
Ages(n) == IF n = 1 THEN {} ELSE IF n = 4 THEN {1} ELSE IF n = 16 THEN {4, 5} ELSE {16, 20, 21}

\* The renewal that follows upon the first certificate has the interval of a new task,
\* but it makes no request.
Fresh(r, t, na) == r.task = "renew" /\ r.le # None /\ na[r.le] > t + 1

Asks(r, t, na) ==
  /\ r.done => r.recent = {}
  /\ r.pc = "task" => r.recent \subseteq Ages(r.interval) \/ Fresh(r, t, na)
  /\ r.pc \in {"write", "writing"} => r.recent \subseteq Ages(r.interval)
  /\ r.pc = "wait" => r.recent \subseteq Ages(r.interval) \cup {0}
  /\ \E n \in Intervals : r.recent \subseteq Ages(n) \cup {0}

\* After Shutdown each task, from the one it finds on, makes one request.
Late(r) ==
  /\ ~r.done => r.late = 0
  /\ r.task = "issue" /\ r.pc = "task" => r.late = 0
  /\ r.task = "issue" \/ r.pc = "task" => r.late <= 1
  /\ r.late <= 2

Sound(r, t, na) == r \in IssuerType /\ Serves(r, t, na) /\ Asks(r, t, na) /\ Late(r)

World ==
  /\ now \in 0 .. MaxNow /\ notAfter \in Seq(0 .. MaxNow + Validity)
  /\ \A c \in DOMAIN notAfter : notAfter[c] <= now + Validity
  /\ {file, watched} \subseteq -1 .. Len(notAfter)
  /\ current \in 0 .. Len(issuer)

Issuers ==
  /\ issuer \in Seq(IssuerType)
  /\ \A i \in DOMAIN issuer : Sound(issuer[i], now, notAfter)

\* Between its attempts to save a certificate, what the issuer in use has is in the file.
Held(r, f) ==
  ~r.done /\ (~r.unsaved /\ r.pc \in {"task", "wait", "sleep"} /\ r.le # None => f = r.le)

Saved == current # 0 => Held(issuer[current], file)

\* The inductive invariant.
CertInv == World /\ Issuers /\ Saved

-----------------------------------------------------------------------------
(***************************************************************************)
(* The ages of failed requests                                             *)
(***************************************************************************)
\* A wait of n minutes: the requests before it get older, or drop out after an hour.
LEMMA OlderAges ==
  ASSUME NEW n \in Intervals, NEW S \in SUBSET Nat, S \subseteq Ages(n) \cup {0}
  PROVE  /\ (IF n * 4 > MaxInterval THEN MaxInterval ELSE n * 4) \in Intervals
         /\ Older(S, n) \subseteq Ages(IF n * 4 > MaxInterval THEN MaxInterval ELSE n * 4)
         /\ Older(S, n) \in SUBSET Nat
  <1>1. CASE n = 1
    BY <1>1 DEF Ages, Older, Intervals, MaxInterval
  <1>2. CASE n = 4
    BY <1>2 DEF Ages, Older, Intervals, MaxInterval
  <1>3. CASE n = 16
    BY <1>3 DEF Ages, Older, Intervals, MaxInterval
  <1>4. CASE n = 60
    BY <1>4 DEF Ages, Older, Intervals, MaxInterval
  <1> QED
    BY <1>1, <1>2, <1>3, <1>4 DEF Intervals

\* An element more.
LEMMA OneMore ==
  ASSUME NEW S, NEW x, NEW n \in Nat, IsFiniteSet(S), Cardinality(S) <= n
  PROVE  IsFiniteSet(S \cup {x}) /\ Cardinality(S \cup {x}) <= n + 1
  <1>1. Cardinality(S) \in Nat
    BY FS_CardinalityType
  <1> QED
    BY <1>1, FS_AddElement

\* Four elements at most.
LEMMA AtMostFour ==
  ASSUME NEW w, NEW x, NEW y, NEW z
  PROVE  IsFiniteSet({w, x, y, z}) /\ Cardinality({w, x, y, z}) <= 4
  <1> DEFINE A == {w}
             B == A \cup {x}
             C == B \cup {y}
             D == C \cup {z}
  <1>0. D = {w, x, y, z}
    OBVIOUS
  <1>1. IsFiniteSet(A) /\ Cardinality(A) = 1
    BY FS_Singleton, Zenon
  <1> HIDE DEF A
  <1>2. IsFiniteSet(A) /\ Cardinality(A) <= 1 /\ 1 \in Nat /\ 2 \in Nat /\ 3 \in Nat
    BY <1>1
  <1>3. IsFiniteSet(B) /\ Cardinality(B) <= 1 + 1
    BY <1>2, OneMore, Zenon
  <1> HIDE DEF B
  <1>4. Cardinality(B) <= 2
    BY <1>3
  <1>5. IsFiniteSet(C) /\ Cardinality(C) <= 2 + 1
    BY <1>2, <1>3, <1>4, OneMore, Zenon
  <1> HIDE DEF C
  <1>6. Cardinality(C) <= 3
    BY <1>5
  <1>7. IsFiniteSet(D) /\ Cardinality(D) <= 3 + 1
    BY <1>2, <1>5, <1>6, OneMore, Zenon
  <1> HIDE DEF D
  <1> QED
    BY <1>0, <1>7

\* There are never more than four of them.
LEMMA FewAges ==
  ASSUME NEW n \in Intervals, NEW S, S \subseteq Ages(n) \cup {0}
  PROVE  Cardinality(S) <= 5
  <1> DEFINE A == {0, 16, 20, 21}
             B == {0, 1, 4, 5}
  <1>1. S \subseteq A \/ S \subseteq B
    BY DEF Ages, Intervals
  <1>2. IsFiniteSet(A) /\ Cardinality(A) <= 4 /\ IsFiniteSet(B) /\ Cardinality(B) <= 4
    BY AtMostFour, Zenon
  <1> HIDE DEF A, B
  <1>3. /\ IsFiniteSet(S)
        /\ Cardinality(S) <= Cardinality(A) \/ Cardinality(S) <= Cardinality(B)
    BY <1>1, <1>2, FS_Subset
  <1>4. Cardinality(S) \in Nat /\ Cardinality(A) \in Nat /\ Cardinality(B) \in Nat
    BY <1>2, <1>3, FS_CardinalityType
  <1> QED
    BY <1>2, <1>3, <1>4

-----------------------------------------------------------------------------
(***************************************************************************)
(* What the steps do to one instance                                       *)
(***************************************************************************)
\* The fields that a request changes.
LEMMA RequestedIs ==
  ASSUME NEW r \in IssuerType
  PROVE  LET q == Requested(r) IN
         /\ q \in IssuerType /\ q.le = r.le /\ q.tls = r.tls /\ q.task = r.task /\ q.pc = r.pc
         /\ q.tried = r.tried /\ q.interval = r.interval /\ q.done = r.done /\ q.recent = r.recent
         /\ q.late = IF r.done THEN r.late + 1 ELSE r.late
         /\ q.unsaved = r.unsaved
  BY DEF Requested, IssuerType

\* The fields that an error changes.
LEMMA FailedIs ==
  ASSUME NEW r \in IssuerType
  PROVE  LET q == Failed(r) IN
         /\ q \in IssuerType /\ q.le = r.le /\ q.tls = r.tls /\ q.task = r.task /\ q.pc = "wait"
         /\ q.tried = TRUE /\ q.interval = r.interval /\ q.done = r.done /\ q.recent = r.recent
         /\ q.late = r.late /\ q.unsaved = r.unsaved
  BY Zenon DEF Failed, IssuerType, Places

\* The fields that a failed request changes.
LEMMA RequestFailsIs ==
  ASSUME NEW r \in IssuerType
  PROVE  LET q == RequestFails(r) IN
         /\ q \in IssuerType /\ q.le = r.le /\ q.tls = r.tls /\ q.task = r.task /\ q.pc = "wait"
         /\ q.interval = r.interval /\ q.done = r.done
         /\ q.recent = IF r.done THEN {} ELSE r.recent \cup {0}
         /\ q.late = IF r.done THEN r.late + 1 ELSE r.late
         /\ q.unsaved = r.unsaved
  <1> DEFINE p == Requested(r)
             q == [p EXCEPT !.recent = IF r.done THEN {} ELSE @ \cup {0}]
  <1>1. p \in IssuerType
    BY RequestedIs
  <1>2. /\ p.le = r.le /\ p.tls = r.tls /\ p.task = r.task
        /\ p.interval = r.interval /\ p.done = r.done /\ p.recent = r.recent
        /\ p.late = IF r.done THEN r.late + 1 ELSE r.late
        /\ p.unsaved = r.unsaved
    BY RequestedIs
  <1>3. RequestFails(r) = Failed(q)
    BY DEF RequestFails
  <1> HIDE DEF p
  <1>4. q \in IssuerType
    BY <1>1 DEF IssuerType
  <1>5. /\ q.le = p.le /\ q.tls = p.tls /\ q.task = p.task
        /\ q.interval = p.interval /\ q.done = p.done
        /\ q.late = p.late /\ q.unsaved = p.unsaved
        /\ q.recent = IF r.done THEN {} ELSE p.recent \cup {0}
    BY <1>1 DEF IssuerType
  <1> HIDE DEF q
  <1> DEFINE f == Failed(q)
  <1>6. /\ f \in IssuerType /\ f.le = q.le /\ f.tls = q.tls /\ f.task = q.task /\ f.pc = "wait"
        /\ f.interval = q.interval /\ f.done = q.done /\ f.recent = q.recent
        /\ f.late = q.late /\ f.unsaved = q.unsaved
    BY <1>4, FailedIs, Zenon
  <1> HIDE DEF f
  <1> QED
    BY <1>2, <1>3, <1>5, <1>6 DEF f

\* A new instance with the cached certificate f.
LEMMA BornSound ==
  ASSUME NEW t \in Nat, NEW na \in Seq(Nat), NEW f \in 1 .. Len(na)
  PROVE  Sound(Born(f, f, "renew"), t, na)
  <1> DEFINE r == Born(f, f, "renew")
  <1>1. /\ r \in IssuerType /\ r.le = f /\ r.tls = f /\ r.task = "renew" /\ r.pc = "task"
        /\ r.interval = 1 /\ r.recent = {} /\ r.late = 0 /\ ~r.done
    BY DEF Born, IssuerType, Places, Intervals, MinInterval
  <1> HIDE DEF r
  <1> QED
    BY <1>1, SMTT(30) DEF Sound, Serves, Asks, Late, None, Intervals, r

\* A new instance without a certificate, and what is left of one that has ended.
LEMMA BlankSound ==
  ASSUME NEW t \in Nat, NEW na \in Seq(Nat)
  PROVE  Sound(assignSelfSigned, t, na) /\ Sound(Ended, t, na)
  <1> DEFINE r == assignSelfSigned
             e == Ended
  <1>1. /\ r \in IssuerType /\ r.le = None /\ r.tls = SelfSigned /\ r.task = "issue" /\ r.pc = "task"
        /\ r.interval = 1 /\ r.recent = {} /\ r.late = 0 /\ ~r.done
    BY DEF assignSelfSigned, Born, IssuerType, Places, Intervals, MinInterval, None, SelfSigned
  <1> DEFINE p == Born(None, SelfSigned, "renew")
  <1>2. /\ p \in IssuerType /\ p.le = None /\ p.tls = SelfSigned /\ p.task = "renew"
        /\ p.recent = {} /\ p.late = 0
    BY DEF Born, IssuerType, Places, Intervals, MinInterval, None, SelfSigned
  <1>5. e = [p EXCEPT !.pc = "ended", !.done = TRUE]
    BY DEF Ended
  <1> HIDE DEF p, e
  <1>6. e \in IssuerType
    BY <1>2, <1>5, Zenon DEF IssuerType, Places
  <1>7. /\ e.le = None /\ e.tls = SelfSigned /\ e.task = "renew" /\ e.pc = "ended"
        /\ e.recent = {} /\ e.late = 0 /\ e.done
    BY <1>2, <1>5 DEF IssuerType
  <1> HIDE DEF r, e
  <1>3. Sound(r, t, na)
    BY <1>1 DEF Sound, Serves, Asks, Late, None, Intervals
  <1>4. Sound(e, t, na)
    BY <1>6, <1>7 DEF Sound, Serves, Asks, Late, None, Intervals
  <1> QED
    BY <1>3, <1>4 DEF r, e

\* A task makes its request, and it fails.
LEMMA RequestFailsSound ==
  ASSUME NEW t \in Nat, NEW na \in Seq(Nat), NEW r, Sound(r, t, na), r.pc = "task", ~Fresh(r, t, na)
  PROVE  Sound(RequestFails(r), t, na)
  <1> DEFINE q == RequestFails(r)
  <1>0. r \in IssuerType
    BY DEF Sound
  <1>1. /\ q \in IssuerType /\ q.le = r.le /\ q.tls = r.tls /\ q.task = r.task /\ q.pc = "wait"
        /\ q.interval = r.interval /\ q.done = r.done
    BY <1>0, RequestFailsIs, Zenon
  <1>2. /\ q.recent = IF r.done THEN {} ELSE r.recent \cup {0}
        /\ q.late = IF r.done THEN r.late + 1 ELSE r.late
    BY <1>0, RequestFailsIs, Zenon
  <1> HIDE DEF q
  <1>3. Serves(q, t, na)
    BY <1>1 DEF Sound, Serves
  <1>4. Asks(q, t, na)
    BY <1>1, <1>2 DEF Sound, Asks, IssuerType
  <1>5. Late(q)
    BY <1>1, <1>2 DEF Sound, Late, IssuerType
  <1> QED
    BY <1>1, <1>3, <1>4, <1>5 DEF Sound, q

\* What an instance has is the same after another certificate is issued.
LEMMA IssuedSound ==
  ASSUME NEW t \in Nat, NEW na \in Seq(Nat), NEW r, Sound(r, t, na), NEW e \in Nat
  PROVE  Sound(r, t, Append(na, e))
  <1> DEFINE nb == Append(na, e)
  <1>1. nb \in Seq(Nat) /\ Len(nb) = Len(na) + 1 /\ \A c \in 1 .. Len(na) : nb[c] = na[c]
    OBVIOUS
  <1> HIDE DEF nb
  <1>2. r.le \in 0 .. Len(na) /\ (r.le # None => nb[r.le] = na[r.le])
    BY <1>1, SMTT(30) DEF Sound, Serves, None
  <1>3. Serves(r, t, nb)
    BY <1>1, <1>2, SMTT(30) DEF Sound, Serves
  <1>4. Asks(r, t, nb)
    BY <1>2 DEF Sound, Asks, Fresh
  <1> QED
    BY <1>3, <1>4 DEF Sound, nb

\* A task makes its request, and gets a certificate.
LEMMA ReceivedSound ==
  ASSUME NEW t \in Nat, NEW na \in Seq(Nat), NEW r, Sound(r, t, na), r.pc = "task", ~Fresh(r, t, na)
  PROVE  LET c == Len(na) + 1 IN
         Sound([Requested(r) EXCEPT !.le = c, !.tls = c, !.pc = "write"], t, Append(na, t + Validity))
  <1> DEFINE c == Len(na) + 1
             q == [Requested(r) EXCEPT !.le = c, !.tls = c, !.pc = "write"]
             nb == Append(na, t + Validity)
  <1>0. c \in Nat \ {0} /\ Len(nb) = c /\ nb[c] = t + Validity
    BY DEF Validity
  <1> DEFINE p == Requested(r)
  <1>1. /\ p \in IssuerType /\ p.task = r.task /\ p.interval = r.interval /\ p.done = r.done
        /\ p.recent = r.recent /\ p.late = IF r.done THEN r.late + 1 ELSE r.late
    BY RequestedIs DEF Sound
  <1>6. q = [p EXCEPT !.le = c, !.tls = c, !.pc = "write"]
    OBVIOUS
  <1> HIDE DEF p, c, q, nb
  <1>7. q \in IssuerType
    <2>1. c \in Int /\ p \in IssuerType /\ "write" \in Places
      BY <1>0, <1>1 DEF Places
    <2> QED
      BY <1>6, <2>1, Zenon DEF IssuerType
  <1>2. /\ q.le = c /\ q.tls = c /\ q.task = p.task /\ q.pc = "write"
        /\ q.interval = p.interval /\ q.done = p.done /\ q.recent = p.recent /\ q.late = p.late
    BY <1>1, <1>6 DEF IssuerType
  <1>3. Serves(q, t, nb)
    BY <1>0, <1>2 DEF Serves, None
  <1>4. Asks(q, t, nb)
    BY <1>1, <1>2 DEF Sound, Asks
  <1>5. Late(q)
    BY <1>1, <1>2 DEF Sound, Late, IssuerType
  <1> QED
    BY <1>3, <1>4, <1>5, <1>7 DEF Sound, c, q, nb

\* An error that is not a request's: a renewal without a certificate, or saving.
LEMMA FailedSound ==
  ASSUME NEW t \in Nat, NEW na \in Seq(Nat), NEW r, Sound(r, t, na),
         \/ r.pc = "task" /\ r.task = "renew" /\ r.le = None
         \/ r.pc \in {"write", "writing"}
  PROVE  Sound(Failed(r), t, na)
  <1> DEFINE q == Failed(r)
  <1>1. /\ q \in IssuerType /\ q.le = r.le /\ q.tls = r.tls /\ q.task = r.task /\ q.pc = "wait"
        /\ q.interval = r.interval /\ q.done = r.done /\ q.recent = r.recent /\ q.late = r.late
    BY Zenon DEF Failed, IssuerType, Places, Sound
  <1> HIDE DEF q
  <1>2. Serves(q, t, na)
    BY <1>1 DEF Sound, Serves
  <1>3. Asks(q, t, na)
    BY <1>1 DEF Sound, Asks, Serves, Fresh
  <1>4. Late(q)
    BY <1>1 DEF Sound, Late, IssuerType
  <1> QED
    BY <1>1, <1>2, <1>3, <1>4 DEF Sound, q

\* The fields that the end of a task changes.
LEMMA TaskEndsIs ==
  ASSUME NEW r \in IssuerType
  PROVE  LET q == TaskEnds(r) IN
         /\ q \in IssuerType /\ q.le = r.le /\ q.tls = r.tls /\ q.task = "renew"
         /\ q.done = r.done /\ q.recent = r.recent /\ q.late = r.late /\ q.unsaved = r.unsaved
         /\ r.task = "issue" => q.pc = "task"
         /\ r.task # "issue" => q.pc = "sleep"
  <1>1. CASE r.task = "issue"
    <2> DEFINE q == [r EXCEPT !.task = "renew", !.pc = "task", !.interval = MinInterval]
    <2>1. "task" \in Places /\ MinInterval \in Intervals
      BY DEF Places, MinInterval, Intervals
    <2>2. q \in IssuerType /\ q.task = "renew" /\ q.pc = "task" /\ q.le = r.le /\ q.tls = r.tls
      BY <2>1, Zenon DEF IssuerType
    <2>3. q.done = r.done /\ q.recent = r.recent /\ q.late = r.late /\ q.unsaved = r.unsaved
      BY DEF IssuerType
    <2>4. TaskEnds(r) = q
      BY <1>1 DEF TaskEnds
    <2> HIDE DEF q
    <2> QED
      BY <1>1, <2>2, <2>3, <2>4
  <1>2. CASE r.task # "issue"
    <2> DEFINE q == [r EXCEPT !.pc = "sleep", !.tried = TRUE]
    <2>1. "sleep" \in Places /\ r.task = "renew"
      BY <1>2 DEF Places, IssuerType
    <2>2. q \in IssuerType /\ q.task = r.task /\ q.pc = "sleep" /\ q.le = r.le /\ q.tls = r.tls
      BY <2>1, Zenon DEF IssuerType
    <2>3. q.done = r.done /\ q.recent = r.recent /\ q.late = r.late /\ q.unsaved = r.unsaved
      BY DEF IssuerType
    <2>4. TaskEnds(r) = q
      BY <1>2 DEF TaskEnds
    <2> HIDE DEF q
    <2> QED
      BY <1>2, <2>1, <2>2, <2>3, <2>4
  <1> QED
    BY <1>1, <1>2

\* A task ends: the certificate is not due, or it has been saved, or ctx is done.
LEMMA TaskEndsSound ==
  ASSUME NEW t \in Nat, NEW na \in Seq(Nat), NEW r, Sound(r, t, na),
         \/ r.pc = "task" /\ Fresh(r, t, na)
         \/ r.pc = "writing"
         \/ r.pc = "wait" /\ r.done
  PROVE  Sound(TaskEnds(r), t, na)
  <1> DEFINE q == TaskEnds(r)
  <1>1. /\ q \in IssuerType /\ q.le = r.le /\ q.tls = r.tls /\ q.task = "renew"
        /\ q.done = r.done /\ q.recent = r.recent /\ q.late = r.late
        /\ r.task = "issue" => q.pc = "task"
        /\ r.task # "issue" => q.pc = "sleep"
    BY TaskEndsIs DEF Sound
  <1> HIDE DEF q
  <1>2. r.done \/ (r.le # None /\ na[r.le] > t + 1)
    BY DEF Sound, Serves, Fresh, Validity
  <1>3. Serves(q, t, na)
    <2>1. r.le \in 0 .. Len(na) /\ (r.le # None => na[r.le] \in Nat)
      BY DEF Sound, Serves, None
    <2> QED
      BY <1>1, <1>2, <2>1 DEF Sound, Serves
  <1>4. Asks(q, t, na)
    BY <1>1, <1>2 DEF Sound, Asks, Fresh
  <1>5. Late(q)
    BY <1>1 DEF Sound, Late
  <1> QED
    BY <1>1, <1>3, <1>4, <1>5 DEF Sound, q

\* The timer of an error fires.
LEMMA RetrySound ==
  ASSUME NEW t \in Nat, NEW na \in Seq(Nat), NEW r, Sound(r, t, na), r.pc = "wait", ~r.done
  PROVE  /\ Sound(Retry(r), t, na)
         /\ Retry(r).le = r.le /\ Retry(r).done = r.done /\ Retry(r).unsaved = r.unsaved
  <1> DEFINE n == IF r.interval * 4 > MaxInterval THEN MaxInterval ELSE r.interval * 4
             S == Older(r.recent, r.interval)
             q == [r EXCEPT !.pc = "task", !.recent = S, !.interval = n]
  <1>0. r \in IssuerType /\ r.interval \in Intervals /\ r.recent \in SUBSET Nat
    BY DEF Sound, IssuerType
  <1>1. n \in Intervals /\ S \subseteq Ages(n) /\ S \in SUBSET Nat
    <2>1. r.recent \subseteq Ages(r.interval) \cup {0}
      BY DEF Sound, Asks
    <2> QED
      BY <1>0, <2>1, OlderAges, Zenon
  <1>2. Retry(r) = q
    BY <1>0 DEF Retry, IssuerType
  <1> HIDE DEF n, S
  <1>3. q \in IssuerType
    <2>1. "task" \in Places
      BY DEF Places
    <2> QED
      BY <1>0, <1>1, <2>1, Zenon DEF IssuerType
  <1>4. /\ q.pc = "task" /\ q.recent = S /\ q.interval = n /\ q.le = r.le /\ q.tls = r.tls
        /\ q.task = r.task /\ q.done = r.done /\ q.late = r.late /\ q.unsaved = r.unsaved
    BY <1>0 DEF IssuerType
  <1> HIDE DEF q
  <1>5. Serves(q, t, na)
    BY <1>4 DEF Sound, Serves
  <1>6. Asks(q, t, na)
    BY <1>1, <1>4 DEF Sound, Asks
  <1>7. Late(q)
    BY <1>4 DEF Sound, Late
  <1> QED
    BY <1>2, <1>3, <1>4, <1>5, <1>6, <1>7 DEF Sound

\* A worker that has slept begins to renew.
LEMMA WakeSound ==
  ASSUME NEW t \in Nat, NEW na \in Seq(Nat), NEW r, Sound(r, t, na), r.pc = "sleep", ~r.done
  PROVE  LET q == [r EXCEPT !.pc = "task", !.interval = MinInterval, !.recent = {}] IN
         Sound(q, t, na) /\ q.le = r.le /\ q.done = r.done /\ q.unsaved = r.unsaved
  <1> DEFINE q == [r EXCEPT !.pc = "task", !.interval = MinInterval, !.recent = {}]
  <1>0. r \in IssuerType /\ "task" \in Places /\ MinInterval \in Intervals
    BY DEF Sound, Places, MinInterval, Intervals
  <1>1. q \in IssuerType
    BY <1>0, Zenon DEF IssuerType
  <1>2. /\ q.pc = "task" /\ q.recent = {} /\ q.le = r.le /\ q.tls = r.tls
        /\ q.task = r.task /\ q.done = r.done /\ q.late = r.late /\ q.unsaved = r.unsaved
    BY <1>0 DEF IssuerType
  <1> HIDE DEF q
  <1>3. Serves(q, t, na)
    BY <1>2 DEF Sound, Serves
  <1>4. Asks(q, t, na)
    BY <1>2 DEF Sound, Asks, Intervals
  <1>5. Late(q)
    BY <1>2 DEF Sound, Late
  <1> QED
    BY <1>1, <1>2, <1>3, <1>4, <1>5 DEF Sound, q

\* Shutdown, wherever the worker is.
LEMMA ShutdownSound ==
  ASSUME NEW t \in Nat, NEW na \in Seq(Nat), NEW r, Sound(r, t, na), ~r.done
  PROVE  Sound([r EXCEPT !.done = TRUE, !.interval = MinInterval, !.recent = {}], t, na)
  <1> DEFINE q == [r EXCEPT !.done = TRUE, !.interval = MinInterval, !.recent = {}]
  <1>0. r \in IssuerType /\ MinInterval \in Intervals
    BY DEF Sound, MinInterval, Intervals
  <1>1. q \in IssuerType
    BY <1>0, Zenon DEF IssuerType
  <1>2. /\ q.pc = r.pc /\ q.recent = {} /\ q.le = r.le /\ q.tls = r.tls
        /\ q.task = r.task /\ q.done /\ q.late = r.late
    BY <1>0 DEF IssuerType
  <1> HIDE DEF q
  <1>3. Serves(q, t, na)
    BY <1>2 DEF Sound, Serves
  <1>4. Asks(q, t, na)
    BY <1>2 DEF Sound, Asks, Intervals
  <1>5. Late(q)
    BY <1>2 DEF Sound, Late
  <1> QED
    BY <1>1, <1>3, <1>4, <1>5 DEF Sound, q

\* 30 days pass.
LEMMA TickSound ==
  ASSUME NEW t \in Nat, NEW na \in Seq(Nat), NEW r, Sound(r, t, na), Parked(r)
  PROVE  LET q == [r EXCEPT !.tried = FALSE] IN
         /\ Sound(q, t + 1, na)
         /\ q.le = r.le /\ q.done = r.done /\ q.unsaved = r.unsaved /\ q.pc = r.pc
  <1> DEFINE q == [r EXCEPT !.tried = FALSE]
  <1>0. r \in IssuerType
    BY DEF Sound
  <1>1. q \in IssuerType
    BY <1>0, Zenon DEF IssuerType
  <1>2. /\ q.pc = r.pc /\ q.recent = r.recent /\ q.le = r.le /\ q.tls = r.tls /\ q.interval = r.interval
        /\ q.task = r.task /\ q.done = r.done /\ q.late = r.late /\ q.unsaved = r.unsaved
    BY <1>0 DEF IssuerType
  <1>3. ~q.tried
    BY <1>0 DEF IssuerType
  <1>4. r.pc = "ended" \/ r.pc = "wait" \/ (r.pc = "sleep" /\ r.tried)
    BY DEF Parked
  <1> HIDE DEF q
  <1>5. Serves(q, t + 1, na)
    BY <1>2, <1>3, <1>4 DEF Sound, Serves
  <1>6. Asks(q, t + 1, na)
    BY <1>2, <1>4 DEF Sound, Asks
  <1>7. Late(q)
    BY <1>2 DEF Sound, Late
  <1> QED
    BY <1>1, <1>2, <1>5, <1>6, <1>7 DEF Sound, q

\* What is remembered about the file has no influence.
LEMMA MarkedSound ==
  ASSUME NEW t \in Nat, NEW na \in Seq(Nat), NEW r, Sound(r, t, na), NEW q \in IssuerType,
         q.pc = r.pc, q.recent = r.recent, q.le = r.le, q.tls = r.tls, q.interval = r.interval,
         q.task = r.task, q.done = r.done, q.late = r.late, q.tried = r.tried
  PROVE  Sound(q, t, na)
  <1>1. Serves(q, t, na)
    BY DEF Sound, Serves
  <1>2. Asks(q, t, na)
    BY DEF Sound, Asks, Fresh
  <1>3. Late(q)
    BY DEF Sound, Late
  <1> QED
    BY <1>1, <1>2, <1>3 DEF Sound

-----------------------------------------------------------------------------
(***************************************************************************)
(* The steps                                                               *)
(***************************************************************************)
\* The times are natural numbers.
LEMMA Times ==
  ASSUME CertInv
  PROVE  now \in Nat /\ notAfter \in Seq(Nat) /\ Len(notAfter) \in Nat
  <1>1. MaxNow + Validity \in Nat
    BY TimeAssumption DEF Validity
  <1> QED
    BY <1>1, TimeAssumption DEF CertInv, World

\* A step of instance i that leaves the file alone.
LEMMA StepInv ==
  ASSUME CertInv, NEW i \in DOMAIN issuer, NEW q, Set(i, q),
         UNCHANGED <<now, file, current, watched>>,
         notAfter' = notAfter \/ notAfter' = Append(notAfter, now + Validity),
         Sound(q, now, notAfter'), current = i => Held(q, file)
  PROVE  CertInv'
  <1>1. now \in Nat /\ notAfter \in Seq(Nat) /\ now + Validity \in Nat
    BY Times DEF Validity
  <1>2. /\ issuer \in Seq(IssuerType) /\ q \in IssuerType
        /\ issuer' = [issuer EXCEPT ![i] = q]
    BY DEF CertInv, Issuers, Sound, Set
  <1>3. /\ issuer' \in Seq(IssuerType) /\ Len(issuer') = Len(issuer) /\ DOMAIN issuer' = DOMAIN issuer
        /\ issuer'[i] = q /\ \A j \in DOMAIN issuer : j # i => issuer'[j] = issuer[j]
    BY <1>2
  <1>4. \A j \in DOMAIN issuer : Sound(issuer[j], now, notAfter')
    BY <1>1, IssuedSound, Zenon DEF CertInv, Issuers
  <1>5. Issuers'
    BY <1>3, <1>4 DEF Issuers
  <1>6. World'
    <2>1. CASE notAfter' = notAfter
      BY <1>3, <2>1 DEF CertInv, World
    <2>2. CASE notAfter' = Append(notAfter, now + Validity)
      <3>1. now + Validity \in 0 .. MaxNow + Validity /\ now \in 0 .. MaxNow
        BY TimeAssumption DEF CertInv, World, Validity
      <3>2. notAfter \in Seq(0 .. MaxNow + Validity)
        BY DEF CertInv, World
      <3>3. /\ notAfter' \in Seq(0 .. MaxNow + Validity) /\ Len(notAfter') = Len(notAfter) + 1
            /\ notAfter'[Len(notAfter) + 1] = now + Validity
            /\ \A c \in DOMAIN notAfter : notAfter'[c] = notAfter[c]
            /\ DOMAIN notAfter' = DOMAIN notAfter \cup {Len(notAfter) + 1}
        BY <2>2, <3>1, <3>2
      <3>4. \A c \in DOMAIN notAfter' : notAfter'[c] <= now + Validity
        BY <3>1, <3>3, SMTT(30) DEF CertInv, World
      <3>5. {file, watched} \subseteq -1 .. Len(notAfter')
        BY <3>2, <3>3 DEF CertInv, World
      <3> QED
        BY <1>3, <3>1, <3>3, <3>4, <3>5 DEF CertInv, World
    <2> QED
      BY <2>1, <2>2
  <1>7. Saved'
    BY <1>3 DEF CertInv, World, Saved
  <1> QED
    BY <1>5, <1>6, <1>7 DEF CertInv

\* What is known of instance i before its step.
LEMMA Known ==
  ASSUME CertInv, NEW i \in DOMAIN issuer
  PROVE  /\ Sound(issuer[i], now, notAfter) /\ issuer[i] \in IssuerType
         /\ current = i => Held(issuer[i], file)
  BY DEF CertInv, World, Issuers, Saved, Sound

\* A request, granted.
LEMMA ReceivedInv ==
  ASSUME CertInv, NEW i \in DOMAIN issuer, issuer[i].pc = "task", ~Fresh(issuer[i], now, notAfter),
         Received(i), UNCHANGED <<now, file, current, watched>>
  PROVE  CertInv'
  <1> DEFINE c == Len(notAfter) + 1
             p == Requested(issuer[i])
             q == [p EXCEPT !.le = c, !.tls = c, !.pc = "write"]
  <1>1. Set(i, q) /\ notAfter' = Append(notAfter, now + Validity)
    BY DEF Received
  <1>2. Sound(q, now, notAfter')
    BY <1>1, Known, Times, ReceivedSound, Zenon
  <1>3. current = i => Held(q, file)
    <2>1. p \in IssuerType /\ p.done = issuer[i].done
      BY Known, RequestedIs
    <2> HIDE DEF p
    <2>2. q.pc = "write" /\ q.done = p.done
      BY <2>1 DEF IssuerType
    <2> HIDE DEF q
    <2> QED
      BY <2>1, <2>2, Known DEF Held
  <1> HIDE DEF q
  <1> QED
    BY <1>1, <1>2, <1>3, StepInv

\* A request that fails.
LEMMA RequestFailsInv ==
  ASSUME CertInv, NEW i \in DOMAIN issuer, issuer[i].pc = "task", ~Fresh(issuer[i], now, notAfter),
         Set(i, RequestFails(issuer[i])), UNCHANGED <<now, notAfter, file, current, watched>>
  PROVE  CertInv'
  <1> DEFINE q == RequestFails(issuer[i])
  <1>1. Sound(q, now, notAfter')
    BY Known, Times, RequestFailsSound
  <1>2. current = i => Held(q, file)
    <2>1. /\ q.pc = "wait" /\ q.done = issuer[i].done /\ q.le = issuer[i].le
          /\ q.unsaved = issuer[i].unsaved
      BY Known, RequestFailsIs, Zenon
    <2> HIDE DEF q
    <2> QED
      BY <2>1, Known DEF Held
  <1>3. Set(i, q)
    OBVIOUS
  <1> HIDE DEF q
  <1> QED
    BY <1>1, <1>2, <1>3, StepInv

\* issueAndSaveCertificate
LEMMA IssueInv ==
  ASSUME CertInv, NEW i \in DOMAIN issuer, issueAndSaveCertificate(i), UNCHANGED <<current, watched>>
  PROVE  CertInv'
  <1>1. /\ issuer[i].pc = "task" /\ ~Fresh(issuer[i], now, notAfter) /\ UNCHANGED <<now, file>>
        /\ Received(i) \/ (Set(i, RequestFails(issuer[i])) /\ UNCHANGED notAfter)
    BY DEF issueAndSaveCertificate, Fresh
  <1> QED
    BY <1>1, ReceivedInv, RequestFailsInv

\* renewOnce
LEMMA RenewInv ==
  ASSUME CertInv, NEW i \in DOMAIN issuer, renewOnce(i), UNCHANGED <<current, watched>>
  PROVE  CertInv'
  <1> DEFINE r == issuer[i]
  <1>0. r.pc = "task" /\ r.task = "renew" /\ UNCHANGED <<now, file>>
    BY DEF renewOnce
  <1>1. CASE r.le = None /\ Set(i, Failed(r)) /\ UNCHANGED notAfter
    <2> DEFINE q == Failed(r)
    <2>1. Sound(q, now, notAfter')
      BY <1>0, <1>1, Known, Times, FailedSound
    <2>2. q.done = r.done /\ q.le = None
      BY <1>1, Known, FailedIs, Zenon
    <2>3. current = i => Held(q, file)
      BY <2>2, Known DEF Held
    <2>4. Set(i, q)
      BY <1>1
    <2> HIDE DEF q
    <2> QED
      BY <1>0, <1>1, <2>1, <2>3, <2>4, StepInv
  <1>2. CASE r.le # None /\ Left(r) > 1 /\ Set(i, TaskEnds(r)) /\ UNCHANGED notAfter
    <2> DEFINE q == TaskEnds(r)
    <2>1. Fresh(r, now, notAfter)
      <3>1. r.tls = r.le /\ r.le \in 1 .. Len(notAfter)
        BY <1>2, Known, Times DEF Sound, Serves, None
      <3>2. notAfter[r.le] \in Nat /\ now \in Nat
        BY <3>1, Times
      <3> QED
        BY <1>0, <1>2, <3>1, <3>2 DEF Fresh, Left
    <2>2. Sound(q, now, notAfter')
      BY <1>0, <1>2, <2>1, Known, Times, TaskEndsSound
    <2>3. q.done = r.done /\ q.le = r.le /\ q.unsaved = r.unsaved
      BY Known, TaskEndsIs
    <2>4. current = i => Held(q, file)
      BY <1>0, <2>3, Known DEF Held
    <2>5. Set(i, q)
      BY <1>2
    <2> HIDE DEF q
    <2> QED
      BY <1>0, <1>2, <2>2, <2>4, <2>5, StepInv
  <1>3. CASE /\ r.le # None /\ Left(r) <= 1
             /\ Received(i) \/ (Set(i, RequestFails(r)) /\ UNCHANGED notAfter)
    <2>1. ~Fresh(r, now, notAfter)
      <3>1. r.tls = r.le /\ r.le \in 1 .. Len(notAfter)
        BY <1>3, Known, Times DEF Sound, Serves, None
      <3>2. notAfter[r.le] \in Nat /\ now \in Nat
        BY <3>1, Times
      <3> QED
        BY <1>3, <3>1, <3>2 DEF Fresh, Left
    <2> QED
      BY <1>0, <1>3, <2>1, ReceivedInv, RequestFailsInv
  <1> QED
    BY <1>1, <1>2, <1>3 DEF renewOnce

\* workerTask
LEMMA WorkerTaskInv ==
  ASSUME CertInv, NEW i \in DOMAIN issuer, workerTask(i), UNCHANGED <<current, watched>>
  PROVE  CertInv'
  <1> DEFINE r == issuer[i]
  <1>0. r.pc = "wait" /\ UNCHANGED <<now, notAfter, file>>
    BY DEF workerTask
  <1>1. CASE r.done
    <2> DEFINE q == TaskEnds(r)
    <2>1. Sound(q, now, notAfter')
      BY <1>0, <1>1, Known, Times, TaskEndsSound
    <2>2. current # i
      BY <1>1, Known DEF Held
    <2>3. Set(i, q)
      BY <1>1 DEF workerTask
    <2> HIDE DEF q
    <2> QED
      BY <1>0, <2>1, <2>2, <2>3, StepInv
  <1>2. CASE ~r.done
    <2> DEFINE q == Retry(r)
    <2>1. Sound(q, now, notAfter') /\ q.le = r.le /\ q.done = r.done /\ q.unsaved = r.unsaved
      BY <1>0, <1>2, Known, Times, RetrySound
    <2>2. current = i => Held(q, file)
      BY <1>0, <2>1, Known DEF Held
    <2>3. Set(i, q)
      BY <1>2 DEF workerTask
    <2> HIDE DEF q
    <2> QED
      BY <1>0, <2>1, <2>2, <2>3, StepInv
  <1> QED
    BY <1>1, <1>2

\* worker
LEMMA WorkerInv ==
  ASSUME CertInv, NEW i \in DOMAIN issuer, worker(i), UNCHANGED <<current, watched>>
  PROVE  CertInv'
  <1> DEFINE r == issuer[i]
  <1>0. r.pc = "sleep" /\ UNCHANGED <<now, notAfter, file>>
    BY DEF worker
  <1>1. CASE r.done
    <2>1. Sound(Ended, now, notAfter')
      BY <1>0, Times, BlankSound
    <2>2. current # i
      BY <1>1, Known DEF Held
    <2>3. Set(i, Ended)
      BY <1>1 DEF worker
    <2> QED
      BY <1>0, <2>1, <2>2, <2>3, StepInv
  <1>2. CASE ~r.done
    <2> DEFINE q == [r EXCEPT !.pc = "task", !.interval = MinInterval, !.recent = {}]
    <2>0. Sound(r, now, notAfter) /\ now \in Nat /\ notAfter \in Seq(Nat)
      BY Known, Times
    <2> HIDE DEF r
    <2>4. Sound(q, now, notAfter) /\ q.le = r.le /\ q.done = r.done /\ q.unsaved = r.unsaved
      BY <1>0, <1>2, <2>0, WakeSound, Zenon
    <2>1. Sound(q, now, notAfter') /\ q.le = r.le /\ q.done = r.done /\ q.unsaved = r.unsaved
      BY <1>0, <2>4, Zenon
    <2> USE DEF r
    <2>2. Set(i, q)
      BY <1>2 DEF worker
    <2> HIDE DEF q
    <2>3. current = i => Held(q, file)
      BY <1>0, <2>1, Known DEF Held
    <2> QED
      BY <1>0, <2>1, <2>2, <2>3, StepInv
  <1> QED
    BY <1>1, <1>2

\* A step in which every instance may change, by q, and the file.
LEMMA FileInv ==
  ASSUME CertInv, UNCHANGED <<now, notAfter, current, watched>>, NEW q, DOMAIN q = DOMAIN issuer,
         issuer' = [j \in DOMAIN issuer |-> q[j]],
         \A j \in DOMAIN issuer : Sound(q[j], now, notAfter),
         file' \in -1 .. Len(notAfter), current # 0 => Held(q[current], file')
  PROVE  CertInv'
  <1>1. Len(issuer) \in Nat /\ DOMAIN issuer = 1 .. Len(issuer) /\ \A j \in DOMAIN issuer : q[j] \in IssuerType
    BY DEF CertInv, Issuers, Sound
  <1>2. issuer' \in Seq(IssuerType) /\ Len(issuer') = Len(issuer) /\ DOMAIN issuer' = DOMAIN issuer
    BY <1>1
  <1>3. \A j \in DOMAIN issuer : issuer'[j] = q[j]
    OBVIOUS
  <1>4. Issuers'
    BY <1>2, <1>3 DEF Issuers
  <1>5. World'
    BY <1>2 DEF CertInv, World
  <1>6. Saved'
    BY <1>1, <1>3 DEF CertInv, World, Saved
  <1> QED
    BY <1>4, <1>5, <1>6 DEF CertInv

\* What another instance's saving sets.
Unsaved(r) == [r EXCEPT !.unsaved = TRUE]

\* An instance whose file is gone.
LEMMA UnsavedSound ==
  ASSUME NEW t \in Nat, NEW na \in Seq(Nat), NEW r, Sound(r, t, na)
  PROVE  /\ Sound(Unsaved(r), t, na) /\ Unsaved(r).unsaved /\ Unsaved(r).done = r.done
         /\ Unsaved(r).pc = r.pc
  <1> DEFINE q == Unsaved(r)
  <1>0. r \in IssuerType
    BY DEF Sound
  <1>1. q \in IssuerType
    BY <1>0, Zenon DEF IssuerType, Unsaved
  <1>2. /\ q.pc = r.pc /\ q.recent = r.recent /\ q.le = r.le /\ q.tls = r.tls /\ q.interval = r.interval
        /\ q.task = r.task /\ q.done = r.done /\ q.late = r.late /\ q.tried = r.tried /\ q.unsaved
    BY <1>0 DEF IssuerType, Unsaved
  <1> HIDE DEF q
  <1>3. Sound(q, t, na)
    BY <1>1, <1>2, MarkedSound
  <1> QED
    BY <1>2, <1>3 DEF q

\* An instance that has opened the file.
LEMMA OpenedSound ==
  ASSUME NEW t \in Nat, NEW na \in Seq(Nat), NEW r, Sound(r, t, na), r.pc = "write", NEW q \in IssuerType,
         q.pc = "writing", q.recent = r.recent, q.le = r.le, q.tls = r.tls, q.interval = r.interval,
         q.task = r.task, q.done = r.done, q.late = r.late
  PROVE  Sound(q, t, na)
  <1>1. Serves(q, t, na)
    BY DEF Sound, Serves
  <1>2. Asks(q, t, na)
    BY DEF Sound, Asks
  <1>3. Late(q)
    BY DEF Sound, Late
  <1> QED
    BY <1>1, <1>2, <1>3 DEF Sound

\* writeCert fails, to open the file or to write it.
LEMMA UnsavedInv ==
  ASSUME CertInv, NEW i \in DOMAIN issuer, issuer[i].pc \in {"write", "writing"}, NEW p,
         Sound(p, now, notAfter), p.pc = issuer[i].pc, p.unsaved, p.done = issuer[i].done,
         Set(i, Failed(p)), UNCHANGED <<now, notAfter, file, current, watched>>
  PROVE  CertInv'
  <1> DEFINE q == Failed(p)
  <1>1. Sound(q, now, notAfter')
    BY Times, FailedSound
  <1>2. q.unsaved /\ q.done = issuer[i].done
    BY FailedIs, Zenon DEF Sound
  <1>3. current = i => Held(q, file)
    BY <1>2, Known DEF Held
  <1>4. Set(i, q)
    OBVIOUS
  <1> HIDE DEF q
  <1> QED
    BY <1>1, <1>3, <1>4, StepInv

\* writeCert, up to the truncated file
LEMMA WriteOpenInv ==
  ASSUME CertInv, NEW i \in DOMAIN issuer, writeCertOpen(i), UNCHANGED <<current, watched>>
  PROVE  CertInv'
  <1>0. issuer[i].pc = "write" /\ UNCHANGED <<now, notAfter>>
    BY Zenon DEF writeCertOpen
  <1>1. CASE Set(i, Failed([issuer[i] EXCEPT !.unsaved = TRUE])) /\ UNCHANGED file
    <2> DEFINE p == Unsaved(issuer[i])
    <2>1. Sound(p, now, notAfter) /\ p.unsaved /\ p.done = issuer[i].done /\ p.pc = issuer[i].pc
      BY Known, Times, UnsavedSound
    <2>2. Set(i, Failed(p))
      BY <1>1 DEF Unsaved
    <2> HIDE DEF p
    <2> QED
      BY <1>0, <1>1, <2>1, <2>2, UnsavedInv
  <1>2. CASE /\ file' = Torn
             /\ issuer' = [j \in DOMAIN issuer |->
                  IF j = i THEN [issuer[i] EXCEPT !.pc = "writing", !.unsaved = FALSE, !.mixed = (Writers # {})]
                  ELSE [issuer[j] EXCEPT !.unsaved = TRUE, !.mixed = j \in Writers]]
    <2> DEFINE a == [issuer[i] EXCEPT !.pc = "writing", !.unsaved = FALSE, !.mixed = (Writers # {})]
               b(j) == [issuer[j] EXCEPT !.unsaved = TRUE, !.mixed = j \in Writers]
               q == [j \in DOMAIN issuer |-> IF j = i THEN a ELSE b(j)]
    <2>1. Sound(a, now, notAfter) /\ a.pc = "writing" /\ a.done = issuer[i].done
      <3> DEFINE r == issuer[i]
      <3>1. Sound(r, now, notAfter) /\ r \in IssuerType /\ r.pc = "write" /\ "writing" \in Places
        BY <1>0, Known DEF Places
      <3> HIDE DEF r
      <3>2. a = [r EXCEPT !.pc = "writing", !.unsaved = FALSE, !.mixed = (Writers # {})]
        BY DEF r
      <3> HIDE DEF a
      <3>3. a \in IssuerType
        BY <3>1, <3>2, Zenon DEF IssuerType
      <3>4. /\ a.pc = "writing" /\ a.recent = r.recent /\ a.le = r.le /\ a.tls = r.tls
            /\ a.interval = r.interval /\ a.task = r.task /\ a.done = r.done /\ a.late = r.late
        BY <3>1, <3>2 DEF IssuerType
      <3> QED
        BY <3>1, <3>3, <3>4, Times, OpenedSound DEF r
    <2>2. ASSUME NEW j \in DOMAIN issuer
          PROVE  Sound(b(j), now, notAfter) /\ b(j).unsaved /\ b(j).done = issuer[j].done
      <3> DEFINE r == issuer[j]
                 p == b(j)
      <3>1. Sound(r, now, notAfter) /\ r \in IssuerType
        BY Known
      <3> HIDE DEF r
      <3>2. p = [r EXCEPT !.unsaved = TRUE, !.mixed = j \in Writers]
        BY DEF r
      <3> HIDE DEF p
      <3>3. p \in IssuerType
        <4> DEFINE w == j \in Writers
        <4>1. w \in BOOLEAN
          OBVIOUS
        <4>2. p = [r EXCEPT !.unsaved = TRUE, !.mixed = w]
          BY <3>2
        <4> HIDE DEF w
        <4> QED
          BY <3>1, <4>1, <4>2, Zenon DEF IssuerType
      <3>4. /\ p.pc = r.pc /\ p.recent = r.recent /\ p.le = r.le /\ p.tls = r.tls
            /\ p.interval = r.interval /\ p.task = r.task /\ p.done = r.done /\ p.late = r.late
            /\ p.tried = r.tried /\ p.unsaved
        BY <3>1, <3>2 DEF IssuerType
      <3> QED
        BY <3>1, <3>3, <3>4, Times, MarkedSound, Zenon DEF r, p
    <2>3. issuer' = [j \in DOMAIN issuer |-> q[j]]
      BY <1>2, Zenon
    <2> HIDE DEF a, b
    <2>4. \A j \in DOMAIN issuer : Sound(q[j], now, notAfter)
      BY <2>1, <2>2
    <2>5. current # 0 => Held(q[current], file')
      <3> SUFFICES ASSUME current # 0
                   PROVE  Held(q[current], file')
        OBVIOUS
      <3>1. current \in DOMAIN issuer /\ ~issuer[current].done
        BY DEF CertInv, World, Issuers, Saved, Held
      <3> QED
        BY <2>1, <2>2, <3>1 DEF Held
    <2>6. file' \in -1 .. Len(notAfter)
      <3>1. Len(notAfter) \in Nat /\ file' = -1
        BY <1>2, Times, Zenon DEF Torn
      <3> QED
        BY <3>1
    <2>7. DOMAIN q = DOMAIN issuer
      OBVIOUS
    <2> HIDE DEF q
    <2> QED
      BY <1>0, <2>3, <2>4, <2>5, <2>6, <2>7, FileInv
  <1> QED
    BY <1>1, <1>2, Zenon DEF writeCertOpen

\* writeCert, the rest
LEMMA WriteInv ==
  ASSUME CertInv, NEW i \in DOMAIN issuer, writeCert(i), UNCHANGED <<current, watched>>
  PROVE  CertInv'
  <1> DEFINE r == issuer[i]
  <1>0. r.pc = "writing" /\ UNCHANGED <<now, notAfter>> /\ Sound(r, now, notAfter) /\ r \in IssuerType
    BY Known DEF writeCert
  <1>1. CASE UNCHANGED file /\ Set(i, Failed([r EXCEPT !.unsaved = TRUE, !.mixed = FALSE]))
    <2> DEFINE p == [r EXCEPT !.unsaved = TRUE, !.mixed = FALSE]
    <2>1. Set(i, Failed(p))
      BY <1>1
    <2> HIDE DEF r
    <2>2. p \in IssuerType
      BY <1>0, Zenon DEF IssuerType
    <2>3. /\ p.pc = r.pc /\ p.recent = r.recent /\ p.le = r.le /\ p.tls = r.tls
          /\ p.interval = r.interval /\ p.task = r.task /\ p.done = r.done /\ p.late = r.late
          /\ p.tried = r.tried /\ p.unsaved
      BY <1>0 DEF IssuerType
    <2> HIDE DEF p
    <2>4. Sound(p, now, notAfter)
      BY <1>0, <2>2, <2>3, Times, MarkedSound
    <2> QED
      BY <1>0, <1>1, <2>1, <2>3, <2>4, UnsavedInv DEF r
  <1>2. CASE /\ file' \in {r.le} \cup (IF r.mixed THEN {Torn} ELSE {})
             /\ issuer' = [j \in DOMAIN issuer |->
                  IF j = i THEN TaskEnds([r EXCEPT !.unsaved = r.mixed, !.mixed = FALSE])
                  ELSE [issuer[j] EXCEPT !.unsaved = TRUE]]
    <2> DEFINE p == [r EXCEPT !.unsaved = r.mixed, !.mixed = FALSE]
               a == TaskEnds(p)
               q == [j \in DOMAIN issuer |-> IF j = i THEN a ELSE Unsaved(issuer[j])]
    <2>1. issuer' = [j \in DOMAIN issuer |-> q[j]]
      BY <1>2 DEF Unsaved
    <2>2. Sound(a, now, notAfter) /\ a.le = r.le /\ a.done = r.done /\ a.unsaved = r.mixed
      <3> HIDE DEF r
      <3>1. p \in IssuerType
        BY <1>0, Zenon DEF IssuerType
      <3>2. /\ p.pc = r.pc /\ p.recent = r.recent /\ p.le = r.le /\ p.tls = r.tls
            /\ p.interval = r.interval /\ p.task = r.task /\ p.done = r.done /\ p.late = r.late
            /\ p.tried = r.tried /\ p.unsaved = r.mixed
        BY <1>0 DEF IssuerType
      <3> HIDE DEF p
      <3>3. Sound(p, now, notAfter)
        BY <1>0, <3>1, <3>2, Times, MarkedSound
      <3>4. Sound(a, now, notAfter)
        BY <1>0, <3>2, <3>3, Times, TaskEndsSound
      <3>5. a.le = p.le /\ a.done = p.done /\ a.unsaved = p.unsaved
        BY <3>1, TaskEndsIs
      <3> QED
        BY <3>2, <3>4, <3>5
    <2> HIDE DEF a
    <2>3. \A j \in DOMAIN issuer : Sound(q[j], now, notAfter)
      BY <2>2, Known, Times, UnsavedSound
    <2>4. current # 0 => Held(q[current], file')
      <3> SUFFICES ASSUME current # 0
                   PROVE  Held(q[current], file')
        OBVIOUS
      <3>1. current \in DOMAIN issuer /\ ~issuer[current].done
        BY DEF CertInv, World, Issuers, Saved, Held
      <3>2. CASE current = i
        <4>1. q[current] = a /\ ~a.done
          BY <2>2, <3>1, <3>2
        <4>2. ~a.unsaved => file' = a.le
          BY <1>2, <2>2
        <4> QED
          BY <4>1, <4>2 DEF Held
      <3>3. CASE current # i
        <4>1. q[current] = Unsaved(issuer[current])
          BY <3>1, <3>3
        <4>2. Unsaved(issuer[current]).unsaved /\ ~Unsaved(issuer[current]).done
          BY <3>1, Known, Times, UnsavedSound
        <4> QED
          BY <4>1, <4>2 DEF Held
      <3> QED
        BY <3>2, <3>3
    <2>5. file' \in -1 .. Len(notAfter)
      <3>1. r.le \in 0 .. Len(notAfter) /\ Len(notAfter) \in Nat
        BY <1>0, Times DEF Sound, Serves
      <3>2. file' = r.le \/ file' = -1
        BY <1>2 DEF Torn
      <3> QED
        BY <3>1, <3>2
    <2>6. DOMAIN q = DOMAIN issuer
      OBVIOUS
    <2> HIDE DEF q
    <2> QED
      BY <1>0, <2>1, <2>3, <2>4, <2>5, <2>6, FileInv
  <1> QED
    BY <1>1, <1>2 DEF writeCert

\* A step of an instance
LEMMA IssuerStepInv ==
  ASSUME CertInv, NEW i \in DOMAIN issuer, IssuerStep(i), UNCHANGED <<current, watched>>
  PROVE  CertInv'
  BY IssueInv, RenewInv, WriteOpenInv, WriteInv, WorkerTaskInv, WorkerInv DEF IssuerStep

\* NewCertMaster
LEMMA NewCertMasterInv ==
  ASSUME CertInv, NewCertMaster
  PROVE  CertInv'
  <1> DEFINE q == IF parseX509(file) THEN loadCachedCertificate ELSE assignSelfSigned
  <1>1. /\ issuer' = Append(issuer, q) /\ current' = Len(issuer) + 1
        /\ UNCHANGED <<now, notAfter, file, watched>>
    BY DEF NewCertMaster, NewIssuer
  <1>2. Sound(q, now, notAfter) /\ Held(q, file)
    <2>1. CASE parseX509(file)
      <3>1. file \in 1 .. Len(notAfter)
        BY <2>1, Times DEF CertInv, World, parseX509
      <3>2. q = Born(file, file, "renew")
        BY <2>1 DEF loadCachedCertificate
      <3>3. Sound(q, now, notAfter)
        BY <3>1, <3>2, Times, BornSound
      <3>4. q.le = file /\ ~q.done
        BY <3>2 DEF Born
      <3> QED
        BY <3>3, <3>4 DEF Held
    <2>2. CASE ~parseX509(file)
      <3>1. q = assignSelfSigned
        BY <2>2
      <3>2. Sound(q, now, notAfter)
        BY <3>1, Times, BlankSound
      <3>3. q.le = None /\ ~q.done
        BY <3>1 DEF Born, assignSelfSigned
      <3> QED
        BY <3>2, <3>3 DEF Held
    <2> QED
      BY <2>1, <2>2
  <1> HIDE DEF q
  <1>3. q \in IssuerType /\ issuer \in Seq(IssuerType)
    BY <1>2 DEF CertInv, Issuers, Sound
  <1>4. /\ issuer' \in Seq(IssuerType) /\ Len(issuer') = Len(issuer) + 1 /\ Len(issuer) \in Nat
        /\ issuer'[Len(issuer) + 1] = q /\ \A j \in DOMAIN issuer : issuer'[j] = issuer[j]
        /\ DOMAIN issuer' = DOMAIN issuer \cup {Len(issuer) + 1}
    BY <1>1, <1>3
  <1>5. Issuers'
    BY <1>1, <1>2, <1>4 DEF CertInv, Issuers
  <1>6. World'
    BY <1>1, <1>4 DEF CertInv, World
  <1>7. Saved'
    BY <1>1, <1>2, <1>4 DEF Saved
  <1> QED
    BY <1>5, <1>6, <1>7 DEF CertInv

\* MasterShutdown
LEMMA MasterShutdownInv ==
  ASSUME CertInv, MasterShutdown
  PROVE  CertInv'
  <1> DEFINE r == issuer[current]
             q == [r EXCEPT !.done = TRUE, !.interval = MinInterval, !.recent = {}]
  <1>1. /\ current # 0 /\ issuer' = [issuer EXCEPT ![current] = q] /\ current' = 0
        /\ UNCHANGED <<now, notAfter, file, watched>>
    BY DEF MasterShutdown, Shutdown, Set
  <1>2. current \in DOMAIN issuer /\ ~r.done /\ Sound(r, now, notAfter) /\ issuer \in Seq(IssuerType)
    BY <1>1 DEF CertInv, World, Issuers, Saved, Held
  <1> HIDE DEF r
  <1>3. Sound(q, now, notAfter)
    BY <1>2, Times, ShutdownSound, Zenon
  <1> HIDE DEF q
  <1>4. q \in IssuerType
    BY <1>3 DEF Sound
  <1>5. /\ issuer' \in Seq(IssuerType) /\ Len(issuer') = Len(issuer) /\ DOMAIN issuer' = DOMAIN issuer
        /\ issuer'[current] = q /\ \A j \in DOMAIN issuer : j # current => issuer'[j] = issuer[j]
    BY <1>1, <1>2, <1>4
  <1>6. Issuers'
    BY <1>1, <1>3, <1>5 DEF CertInv, Issuers
  <1>7. World'
    BY <1>1, <1>5 DEF CertInv, World
  <1>8. Saved'
    BY <1>1 DEF Saved
  <1> QED
    BY <1>6, <1>7, <1>8 DEF CertInv

\* Crash
LEMMA CrashInv ==
  ASSUME CertInv, Crash
  PROVE  CertInv'
  <1>1. /\ issuer' = [i \in DOMAIN issuer |-> Ended] /\ current' = 0
        /\ UNCHANGED <<now, notAfter, file, watched>>
    BY DEF Crash
  <1>2. Sound(Ended, now, notAfter) /\ Ended \in IssuerType
    BY Times, BlankSound DEF Sound
  <1>3. Len(issuer) \in Nat /\ DOMAIN issuer = 1 .. Len(issuer)
    BY DEF CertInv, Issuers
  <1>4. /\ issuer' \in Seq(IssuerType) /\ Len(issuer') = Len(issuer) /\ DOMAIN issuer' = DOMAIN issuer
        /\ \A j \in DOMAIN issuer : issuer'[j] = Ended
    BY <1>1, <1>2, <1>3
  <1>5. Issuers'
    BY <1>1, <1>2, <1>4 DEF Issuers
  <1>6. World'
    BY <1>1, <1>3, <1>4 DEF CertInv, World
  <1>7. Saved'
    BY <1>1 DEF Saved
  <1> QED
    BY <1>5, <1>6, <1>7 DEF CertInv

\* CertWatcher.sync
LEMMA SyncInv ==
  ASSUME CertInv, sync
  PROVE  CertInv'
  <1>1. watched' = file \/ watched' = -1
    BY DEF sync, read, Torn
  <1>2. UNCHANGED <<now, notAfter, file, issuer, current>>
    BY DEF sync, issuerVars
  <1>3. Len(notAfter) \in Nat
    BY Times
  <1>4. World'
    BY <1>1, <1>2, <1>3 DEF CertInv, World
  <1> QED
    BY <1>2, <1>4 DEF CertInv, Issuers, Saved

\* Tick
LEMMA TickInv ==
  ASSUME CertInv, now < MaxNow, Tick, UNCHANGED <<current, watched>>
  PROVE  CertInv'
  <1> DEFINE q(i) == [issuer[i] EXCEPT !.tried = FALSE]
  <1>1. /\ now' = now + 1 /\ issuer' = [i \in DOMAIN issuer |-> q(i)] /\ UNCHANGED <<notAfter, file>>
        /\ \A i \in DOMAIN issuer : Parked(issuer[i])
    BY DEF Tick
  <1>2. ASSUME NEW i \in DOMAIN issuer
        PROVE  /\ Sound(q(i), now + 1, notAfter)
               /\ q(i).le = issuer[i].le /\ q(i).done = issuer[i].done
               /\ q(i).unsaved = issuer[i].unsaved /\ q(i).pc = issuer[i].pc
    <2> DEFINE r == issuer[i]
    <2>1. Sound(r, now, notAfter) /\ Parked(r) /\ now \in Nat /\ notAfter \in Seq(Nat)
      BY <1>1, Known, Times
    <2> HIDE DEF r
    <2>2. LET p == [r EXCEPT !.tried = FALSE] IN
          /\ Sound(p, now + 1, notAfter)
          /\ p.le = r.le /\ p.done = r.done /\ p.unsaved = r.unsaved /\ p.pc = r.pc
      BY <2>1, TickSound
    <2> QED
      BY <2>2 DEF r
  <1> HIDE DEF q
  <1>3. Len(issuer) \in Nat /\ DOMAIN issuer = 1 .. Len(issuer) /\ \A i \in DOMAIN issuer : q(i) \in IssuerType
    BY <1>2 DEF CertInv, Issuers, Sound
  <1>4. /\ issuer' \in Seq(IssuerType) /\ Len(issuer') = Len(issuer) /\ DOMAIN issuer' = DOMAIN issuer
        /\ \A j \in DOMAIN issuer : issuer'[j] = q(j)
    BY <1>1, <1>3
  <1>5. Issuers'
    BY <1>1, <1>2, <1>4 DEF Issuers
  <1>6. World'
    <2>1. now' \in 0 .. MaxNow
      BY <1>1, Times, TimeAssumption
    <2>2. \A c \in DOMAIN notAfter : notAfter[c] <= now' + Validity
      <3> SUFFICES ASSUME NEW c \in DOMAIN notAfter
                   PROVE  notAfter[c] <= now' + Validity
        OBVIOUS
      <3>1. notAfter[c] \in Nat /\ now \in Nat /\ notAfter[c] <= now + Validity
        BY Times DEF CertInv, World
      <3> QED
        BY <1>1, <3>1 DEF Validity
    <2> QED
      BY <1>1, <1>4, <2>1, <2>2 DEF CertInv, World
  <1>7. Saved'
    <2> SUFFICES ASSUME current # 0
                 PROVE  Held(issuer'[current], file)
      BY <1>1 DEF Saved
    <2>1. current \in DOMAIN issuer /\ Held(issuer[current], file)
      BY <1>3 DEF CertInv, World, Saved
    <2> QED
      BY <1>2, <1>4, <2>1 DEF Held
  <1> QED
    BY <1>5, <1>6, <1>7 DEF CertInv

-----------------------------------------------------------------------------
(***************************************************************************)
(* The theorems                                                            *)
(***************************************************************************)
\* There are no instances at first.
LEMMA InitInv ==
  ASSUME Init
  PROVE  CertInv
  <1>1. World
    BY TimeAssumption DEF Init, World, None, Validity
  <1>2. Issuers
    BY DEF Init, Issuers
  <1> QED
    BY <1>1, <1>2 DEF Init, CertInv, Saved

\* Every step preserves the invariant.
LEMMA NextInv ==
  ASSUME CertInv, [Next]_vars
  PROVE  CertInv'
  <1>1. CASE UNCHANGED vars
    BY <1>1 DEF vars, issuerVars, CertInv, World, Issuers, Saved
  <1>2. CASE Next
    BY <1>2, NewCertMasterInv, MasterShutdownInv, CrashInv, SyncInv, TickInv, IssuerStepInv DEF Next
  <1> QED
    BY <1>1, <1>2

\* The invariant holds in every reachable state.
LEMMA Invariance == Spec => []CertInv
  BY InitInv, NextInv, PTL DEF Spec

\* A worker never sleeps on an expired certificate, nor on a self-signed one.
THEOREM Sleeping == Spec => []SleepsOnValid
  <1>1. ASSUME CertInv
        PROVE  SleepsOnValid
    <2> SUFFICES ASSUME NEW i \in DOMAIN issuer, issuer[i].pc = "sleep", ~issuer[i].done
                 PROVE  issuer[i].le # None /\ notAfter[GetCertificate(i)] > now
      BY DEF SleepsOnValid
    <2> DEFINE r == issuer[i]
    <2>1. Serves(r, now, notAfter) /\ now \in Nat /\ notAfter \in Seq(Nat)
      BY <1>1, Known, Times DEF Sound
    <2>2. r.le # None /\ r.tls = r.le /\ r.le \in 1 .. Len(notAfter)
      BY <2>1 DEF Serves, None
    <2>3. notAfter[r.le] \in Nat /\ notAfter[r.le] > now
      BY <2>1, <2>2 DEF Serves
    <2> QED
      BY <2>2, <2>3 DEF GetCertificate
  <1> QED
    BY <1>1, Invariance, PTL

\* The limit of the CA is kept, and a worker makes no more than one request of each
\* task once its issuer has been shut down.
THEOREM Limited == Spec => []RequestsLimited
  <1>1. ASSUME CertInv
        PROVE  RequestsLimited
    <2> SUFFICES ASSUME NEW i \in DOMAIN issuer
                 PROVE  /\ Cardinality(issuer[i].recent) <= 5
                        /\ issuer[i].late <= 2 /\ (issuer[i].task = "issue" => issuer[i].late <= 1)
      BY DEF RequestsLimited
    <2>1. Asks(issuer[i], now, notAfter) /\ Late(issuer[i])
      BY <1>1, Known DEF Sound
    <2>2. PICK n \in Intervals : issuer[i].recent \subseteq Ages(n) \cup {0}
      BY <2>1 DEF Asks
    <2>3. Cardinality(issuer[i].recent) <= 5
      BY <2>2, FewAges
    <2> QED
      BY <2>1, <2>3 DEF Late
  <1> QED
    BY <1>1, Invariance, PTL

\* While the worker of the issuer in use sleeps, the cache file holds what is served.
THEOREM Cached == Spec => []CacheCurrent
  <1>1. ASSUME CertInv
        PROVE  CacheCurrent
    <2>1. TypeOK
      <3>1. ASSUME NEW i \in DOMAIN issuer
            PROVE  /\ issuer[i].le \in 0 .. Len(notAfter)
                   /\ issuer[i].tls \in {SelfSigned} \cup 1 .. Len(notAfter)
                   /\ issuer[i].pc \in Places
        <4>1. Serves(issuer[i], now, notAfter) /\ issuer[i].pc \in Places
          BY <1>1, Known DEF Sound, IssuerType
        <4> QED
          BY <1>1, <4>1, Times DEF Serves, None
      <3> QED
        BY <1>1, <3>1 DEF TypeOK, CertInv, World, Places
    <2>2. ASSUME current # 0, issuer[current].pc = "sleep", ~issuer[current].unsaved
          PROVE  file = issuer[current].le
      <3>1. current \in DOMAIN issuer /\ Held(issuer[current], file)
        BY <1>1, <2>2 DEF CertInv, World, Issuers, Saved
      <3>2. Serves(issuer[current], now, notAfter) /\ issuer[current].task \in {"issue", "renew"}
        BY <1>1, <3>1, Known DEF Sound, IssuerType
      <3>3. issuer[current].le # None
        BY <2>2, <3>1, <3>2 DEF Held, Serves
      <3> QED
        BY <2>2, <3>1, <3>3 DEF Held
    <2> QED
      BY <2>1, <2>2 DEF CacheCurrent
  <1> QED
    BY <1>1, Invariance, PTL

\* A step that gives instance i a new record with the same certificate.
LEMMA SetServes ==
  ASSUME CertInv, NEW i \in DOMAIN issuer, NEW q, Set(i, q), NEW j \in DOMAIN issuer,
         q.tls = issuer[i].tls
  PROVE  issuer'[j].tls = issuer[j].tls
  <1>1. issuer \in Seq(IssuerType) /\ issuer' = [issuer EXCEPT ![i] = q]
    BY DEF CertInv, Issuers, Set
  <1> QED
    BY <1>1

\* A request: what an instance serves stays, or it is the certificate just issued.
LEMMA RequestServes ==
  ASSUME CertInv, NEW i \in DOMAIN issuer, NEW j \in DOMAIN issuer,
         Received(i) \/ Set(i, RequestFails(issuer[i]))
  PROVE  \/ issuer'[j].tls = issuer[j].tls
         \/ issuer'[j].tls = Len(notAfter) + 1 /\ notAfter' = Append(notAfter, now + Validity)
  <1>1. CASE Set(i, RequestFails(issuer[i]))
    <2>1. RequestFails(issuer[i]).tls = issuer[i].tls
      BY Known, RequestFailsIs, Zenon
    <2> QED
      BY <1>1, <2>1, SetServes
  <1>2. CASE Received(i)
    <2> DEFINE c == Len(notAfter) + 1
               p == Requested(issuer[i])
               q == [p EXCEPT !.le = c, !.tls = c, !.pc = "write"]
    <2>1. issuer' = [issuer EXCEPT ![i] = q] /\ notAfter' = Append(notAfter, now + Validity)
      BY <1>2 DEF Received, Set
    <2>2. p \in IssuerType
      BY Known, RequestedIs
    <2> HIDE DEF p, c
    <2>3. q.tls = c
      BY <2>2 DEF IssuerType
    <2> HIDE DEF q
    <2>4. issuer'[j] = IF j = i THEN q ELSE issuer[j]
      BY <2>1 DEF CertInv, Issuers
    <2> QED
      BY <2>1, <2>3, <2>4 DEF c
  <1> QED
    BY <1>1, <1>2

\* Saving leaves alone what is served.
LEMMA WriteServes ==
  ASSUME CertInv, NEW i \in DOMAIN issuer, NEW j \in DOMAIN issuer, writeCertOpen(i) \/ writeCert(i)
  PROVE  issuer'[j].tls = issuer[j].tls
  <1> DEFINE r == issuer[i]
             s == issuer[j]
  <1>0. r \in IssuerType /\ s \in IssuerType
    BY Known
  <1>1. CASE Set(i, Failed([r EXCEPT !.unsaved = TRUE]))
    <2> DEFINE p == [r EXCEPT !.unsaved = TRUE]
    <2>1. p \in IssuerType /\ p.tls = r.tls
      BY <1>0, Zenon DEF IssuerType
    <2> HIDE DEF p
    <2>2. Failed(p).tls = r.tls
      BY <2>1, FailedIs, Zenon
    <2>3. Set(i, Failed(p))
      BY <1>1 DEF p
    <2> QED
      BY <2>2, <2>3, SetServes
  <1>2. CASE Set(i, Failed([r EXCEPT !.unsaved = TRUE, !.mixed = FALSE]))
    <2> DEFINE p == [r EXCEPT !.unsaved = TRUE, !.mixed = FALSE]
    <2>1. p \in IssuerType /\ p.tls = r.tls
      BY <1>0, Zenon DEF IssuerType
    <2> HIDE DEF p
    <2>2. Failed(p).tls = r.tls
      BY <2>1, FailedIs, Zenon
    <2>3. Set(i, Failed(p))
      BY <1>2 DEF p
    <2> QED
      BY <2>2, <2>3, SetServes
  <1>3. CASE issuer' = [k \in DOMAIN issuer |->
                 IF k = i THEN [issuer[i] EXCEPT !.pc = "writing", !.unsaved = FALSE, !.mixed = (Writers # {})]
                 ELSE [issuer[k] EXCEPT !.unsaved = TRUE, !.mixed = k \in Writers]]
    <2>1. issuer'[j] = IF j = i THEN [s EXCEPT !.pc = "writing", !.unsaved = FALSE, !.mixed = (Writers # {})]
                       ELSE [s EXCEPT !.unsaved = TRUE, !.mixed = j \in Writers]
      BY <1>3, Zenon
    <2> HIDE DEF s
    <2>2. issuer'[j].tls = s.tls
      BY <1>0, <2>1 DEF IssuerType
    <2> QED
      BY <2>2 DEF s
  <1>4. CASE issuer' = [k \in DOMAIN issuer |->
                 IF k = i THEN TaskEnds([r EXCEPT !.unsaved = r.mixed, !.mixed = FALSE])
                 ELSE [issuer[k] EXCEPT !.unsaved = TRUE]]
    <2> DEFINE p == [s EXCEPT !.unsaved = s.mixed, !.mixed = FALSE]
    <2>1. issuer'[j] = IF j = i THEN TaskEnds(p) ELSE [s EXCEPT !.unsaved = TRUE]
      BY <1>4, Zenon
    <2> HIDE DEF s
    <2>2. p \in IssuerType /\ p.tls = s.tls
      BY <1>0, Zenon DEF IssuerType
    <2> HIDE DEF p
    <2>3. TaskEnds(p).tls = s.tls
      BY <2>2, TaskEndsIs
    <2>4. [s EXCEPT !.unsaved = TRUE].tls = s.tls
      BY <1>0 DEF IssuerType
    <2>5. issuer'[j].tls = s.tls
      BY <2>1, <2>3, <2>4
    <2> QED
      BY <2>5 DEF s
  <1> QED
    BY <1>1, <1>2, <1>3, <1>4, Zenon DEF writeCertOpen, writeCert

\* A worker's waits leave alone what an instance that was not shut down serves.
LEMMA WaitServes ==
  ASSUME CertInv, NEW i \in DOMAIN issuer, NEW j \in DOMAIN issuer, ~issuer[j].done,
         workerTask(i) \/ worker(i)
  PROVE  issuer'[j].tls = issuer[j].tls
  <1> DEFINE r == issuer[i]
  <1>0. r \in IssuerType
    BY Known
  <1>1. CASE Set(i, TaskEnds(r))
    <2>1. TaskEnds(r).tls = r.tls
      BY <1>0, TaskEndsIs
    <2> QED
      BY <1>1, <2>1, SetServes
  <1>2. CASE Set(i, Retry(r))
    <2>1. Retry(r).tls = r.tls
      BY <1>0 DEF Retry, IssuerType
    <2> QED
      BY <1>2, <2>1, SetServes
  <1>3. CASE r.done /\ Set(i, Ended)
    <2>1. i # j /\ issuer' = [issuer EXCEPT ![i] = Ended]
      BY <1>3 DEF Set
    <2> QED
      BY <2>1 DEF CertInv, Issuers
  <1>4. CASE Set(i, [r EXCEPT !.pc = "task", !.interval = MinInterval, !.recent = {}])
    <2> DEFINE q == [r EXCEPT !.pc = "task", !.interval = MinInterval, !.recent = {}]
    <2>1. q.tls = r.tls
      BY <1>0 DEF IssuerType
    <2>2. Set(i, q)
      BY <1>4
    <2> HIDE DEF q
    <2> QED
      BY <2>1, <2>2, SetServes
  <1> QED
    BY <1>1, <1>2, <1>3, <1>4 DEF workerTask, worker

\* Every step that keeps the issuer in use.
LEMMA NextServes ==
  ASSUME CertInv, Next, current # 0, current' = current
  PROVE  \/ issuer'[current].tls = issuer[current].tls
         \/ /\ issuer'[current].tls = Len(notAfter) + 1
            /\ notAfter' = Append(notAfter, now + Validity)
  <1>1. current \in DOMAIN issuer /\ ~issuer[current].done
    BY DEF CertInv, World, Issuers, Saved, Held
  <1>2. CASE NewCertMaster \/ MasterShutdown \/ Crash
    BY <1>2 DEF NewCertMaster, MasterShutdown, Crash
  <1>3. CASE sync
    BY <1>3 DEF sync, issuerVars
  <1>4. CASE Tick
    <2> DEFINE r == issuer[current]
    <2>1. issuer'[current] = [r EXCEPT !.tried = FALSE]
      BY <1>1, <1>4 DEF Tick
    <2>2. r \in IssuerType
      BY <1>1, Known
    <2> HIDE DEF r
    <2>3. issuer'[current].tls = r.tls
      BY <2>1, <2>2 DEF IssuerType
    <2> QED
      BY <2>3 DEF r
  <1>5. ASSUME NEW i \in DOMAIN issuer, IssuerStep(i)
        PROVE  \/ issuer'[current].tls = issuer[current].tls
               \/ /\ issuer'[current].tls = Len(notAfter) + 1
                  /\ notAfter' = Append(notAfter, now + Validity)
    <2>1. CASE issueAndSaveCertificate(i)
      BY <1>1, <2>1, RequestServes DEF issueAndSaveCertificate
    <2>2. CASE renewOnce(i)
      <3>1. issuer[i] \in IssuerType
        BY Known
      <3>5. Failed(issuer[i]).tls = issuer[i].tls
        BY <3>1, FailedIs, Zenon
      <3>6. TaskEnds(issuer[i]).tls = issuer[i].tls
        BY <3>1, TaskEndsIs
      <3>2. CASE Set(i, Failed(issuer[i]))
        BY <1>1, <3>2, <3>5, SetServes
      <3>3. CASE Set(i, TaskEnds(issuer[i]))
        BY <1>1, <3>3, <3>6, SetServes
      <3>4. CASE Received(i) \/ Set(i, RequestFails(issuer[i]))
        BY <1>1, <3>4, RequestServes
      <3> QED
        BY <2>2, <3>2, <3>3, <3>4 DEF renewOnce
    <2>3. CASE writeCertOpen(i) \/ writeCert(i)
      BY <1>1, <2>3, WriteServes
    <2>4. CASE workerTask(i) \/ worker(i)
      BY <1>1, <2>4, WaitServes
    <2> QED
      BY <1>5, <2>1, <2>2, <2>3, <2>4 DEF IssuerStep
  <1> QED
    BY <1>2, <1>3, <1>4, <1>5 DEF Next

\* What the issuer in use serves only changes to a certificate of the CA that expires
\* no earlier: the invariant bounds the expiry of all that was issued before.
THEOREM NeverWorse == Spec => ServedNeverWorse
  <1> DEFINE Better == current # 0 /\ current' = current =>
               LET old == masterGetCertificate new == masterGetCertificate' IN
               new # old => new > 0 /\ (old > 0 => notAfter'[new] >= notAfter[old])
  <1>1. ASSUME CertInv, [Next]_vars
        PROVE  [Better]_vars
    <2> SUFFICES ASSUME Next, current # 0, current' = current,
                        masterGetCertificate' # masterGetCertificate
                 PROVE  /\ masterGetCertificate' > 0
                        /\ masterGetCertificate > 0 =>
                             notAfter'[masterGetCertificate'] >= notAfter[masterGetCertificate]
      BY <1>1
    <2> DEFINE old == issuer[current].tls
               new == issuer'[current].tls
    <2>1. masterGetCertificate = old /\ masterGetCertificate' = new
      BY DEF masterGetCertificate, GetCertificate
    <2>2. new = Len(notAfter) + 1 /\ notAfter' = Append(notAfter, now + Validity)
      BY <1>1, <2>1, NextServes
    <2>3. now \in Nat /\ notAfter \in Seq(Nat) /\ Len(notAfter) \in Nat
      BY <1>1, Times
    <2>4. notAfter'[new] = now + Validity
      BY <2>2, <2>3 DEF Validity
    <2>5. current \in DOMAIN issuer
      BY <1>1 DEF CertInv, World, Issuers
    <2>6. old > 0 => old \in 1 .. Len(notAfter)
      BY <1>1, <2>3, <2>5, Known DEF Sound, Serves, None, SelfSigned
    <2>7. \A c \in 1 .. Len(notAfter) : notAfter[c] <= now + Validity /\ notAfter[c] \in Nat
      BY <1>1, <2>3, SMTT(30) DEF CertInv, World
    <2> HIDE DEF old, new
    <2>8. new > 0
      BY <2>2, <2>3
    <2>9. old > 0 => notAfter'[new] >= notAfter[old]
      BY <2>3, <2>4, <2>6, <2>7 DEF Validity
    <2> QED
      BY <2>1, <2>8, <2>9
  <1> QED
    BY <1>1, Invariance, PTL DEF Spec, ServedNeverWorse

(***************************************************************************)
(* The blocker.  The inductive invariant says that the users of a key      *)
(* share the object in the map and that usage counts them, so the object   *)
(* cannot be dropped under them.                                           *)
(***************************************************************************)
\* Who is not idle has the object that the map holds for its key.
Sharing ==
  /\ \A p \in Caller : pc[p] # "idle" <=> cobj[p] # NoObj
  /\ \A p \in Caller : cobj[p] # NoObj => consumers[cid[p]] = cobj[p]
  /\ \A i, j \in Id : consumers[i] = consumers[j] /\ consumers[i] # NoObj => i = j

Counting ==
  \A i \in Id, o \in Obj : consumers[i] = o => usage[o] = Cardinality(Users(o)) /\ usage[o] > 0

Tokens ==
  /\ \A o \in Obj : Cardinality(holders[o]) <= MaxConn
  /\ \A p \in Caller : pc[p] = "held" => p \in holders[cobj[p]]

BlockerInv == BlockerTypeOK /\ Sharing /\ Counting /\ Tokens

\* Sets of goroutines are finite.
LEMMA SubsetsFinite ==
  ASSUME NEW S, S \subseteq Caller
  PROVE  IsFiniteSet(S) /\ Cardinality(S) \in Nat
  BY BlockerAssumption, FS_Subset, FS_CardinalityType

\* One goroutine more ...
LEMMA Grows ==
  ASSUME NEW S, S \subseteq Caller, NEW p \in Caller, p \notin S
  PROVE  Cardinality(S \cup {p}) = Cardinality(S) + 1
  BY SubsetsFinite, FS_AddElement

\* ... one less ...
LEMMA Shrinks ==
  ASSUME NEW S, S \subseteq Caller, NEW p \in S
  PROVE  Cardinality(S \ {p}) = Cardinality(S) - 1
  BY SubsetsFinite, FS_RemoveElement

\* ... and one in the place of another.
LEMMA Swaps ==
  ASSUME NEW S, S \subseteq Caller, NEW p \in S, NEW q \in Caller
  PROVE  Cardinality((S \ {p}) \cup {q}) <= Cardinality(S)
  <1>1. Cardinality(S \ {p}) = Cardinality(S) - 1 /\ Cardinality(S) \in Nat
    BY Shrinks, SubsetsFinite
  <1>2. CASE q \in S \ {p}
    <2>1. (S \ {p}) \cup {q} = S \ {p}
      BY <1>2
    <2> QED BY <1>1, <2>1
  <1>3. CASE q \notin S \ {p}
    <2>1. S \ {p} \subseteq Caller
      OBVIOUS
    <2> QED BY <1>1, <1>3, <2>1, Grows
  <1> QED BY <1>2, <1>3

-----------------------------------------------------------------------------
\* A new blocker satisfies the invariant.
LEMMA InitBlocker == BlockerInit => BlockerInv
  <1> SUFFICES ASSUME BlockerInit PROVE BlockerInv
    OBVIOUS
  <1>1. Cardinality({}) = 0
    BY FS_EmptySet
  <1>2. BlockerTypeOK
    BY BlockerAssumption DEF BlockerInit, BlockerTypeOK
  <1> QED
    BY <1>1, <1>2, BlockerAssumption DEF BlockerInit, BlockerInv, Sharing, Counting, Tokens

\* take: one more user of the key's object, or a new object.
LEMMA TakeInv ==
  ASSUME BlockerInv, NEW p \in Caller, NEW i \in Id, take(p, i)
  PROVE  BlockerInv'
  <1> USE DEF BlockerInv
  <1>0. pc[p] = "idle" /\ cobj[p] = NoObj
    BY DEF take, Sharing
  <1>1. CASE consumers[i] # NoObj
    <2>0. PICK o \in Obj : consumers[i] = o /\ o # NoObj
      BY <1>1 DEF BlockerTypeOK
    <2>1. /\ pc' = [pc EXCEPT ![p] = "acquire"] /\ cid' = [cid EXCEPT ![p] = i]
          /\ cobj' = [cobj EXCEPT ![p] = o]
          /\ usage' = [usage EXCEPT ![o] = @ + 1]
          /\ UNCHANGED <<consumers, holders, queue>>
      BY <2>0 DEF take, Goto, semVars
    <2>2. BlockerTypeOK'
      BY <2>1 DEF BlockerTypeOK
    <2>3. Sharing'
      BY <2>0, <2>1 DEF Sharing, BlockerTypeOK
    <2>4. Counting'
      <3> SUFFICES ASSUME NEW j \in Id, NEW u \in Obj, consumers[j] = u
                   PROVE  usage'[u] = Cardinality(Users(u)') /\ usage'[u] > 0
        BY <2>1 DEF Counting
      <3>1. usage[u] = Cardinality(Users(u)) /\ usage[u] > 0 /\ usage[u] \in Nat
        BY DEF Counting, BlockerTypeOK
      <3>2. CASE u = o
        <4>1. Users(u)' = Users(u) \cup {p} /\ p \notin Users(u) /\ Users(u) \subseteq Caller
          BY <1>0, <2>0, <2>1, <3>2 DEF Users, BlockerTypeOK
        <4>2. Cardinality(Users(u)') = Cardinality(Users(u)) + 1
          BY <4>1, Grows
        <4>3. usage'[u] = usage[u] + 1
          BY <2>1, <3>2 DEF BlockerTypeOK
        <4> QED BY <3>1, <4>2, <4>3
      <3>3. CASE u # o
        <4>1. Users(u)' = Users(u)
          BY <1>0, <2>1, <3>3, BlockerAssumption DEF Users, BlockerTypeOK
        <4> QED BY <2>1, <3>1, <3>3, <4>1 DEF BlockerTypeOK
      <3> QED BY <3>2, <3>3
    <2>5. Tokens'
      BY <1>0, <2>1 DEF Tokens, BlockerTypeOK
    <2> QED BY <2>2, <2>3, <2>4, <2>5
  <1>2. CASE consumers[i] = NoObj
    <2>1. PICK o \in Obj :
             /\ Unreferenced(o)
             /\ consumers' = [consumers EXCEPT ![i] = o]
             /\ cobj' = [cobj EXCEPT ![p] = o]
             /\ usage' = [usage EXCEPT ![o] = 1]
             /\ holders' = [holders EXCEPT ![o] = {}]
             /\ queue' = [queue EXCEPT ![o] = <<>>]
      BY <1>2 DEF take
    <2>2. pc' = [pc EXCEPT ![p] = "acquire"] /\ cid' = [cid EXCEPT ![p] = i]
      BY DEF take, Goto
    <2>3. BlockerTypeOK'
      BY <2>1, <2>2 DEF BlockerTypeOK
    <2>4. Sharing'
      <3>1. \A q \in Caller : q # p => cobj'[q] = cobj[q] /\ cid'[q] = cid[q] /\ pc'[q] = pc[q]
        BY <2>1, <2>2 DEF BlockerTypeOK
      <3>2. cobj'[p] = o /\ cid'[p] = i /\ pc'[p] = "acquire" /\ consumers'[i] = o /\ o # NoObj
        BY <2>1, <2>2, BlockerAssumption DEF BlockerTypeOK
      <3>3. \A q \in Caller : cobj[q] # NoObj => cid[q] # i
        BY <1>2 DEF Sharing
      <3>4. \A j \in Id : j # i => consumers'[j] = consumers[j] /\ consumers[j] # o
        BY <2>1 DEF BlockerTypeOK, Unreferenced
      <3>5. \A q \in Caller : pc'[q] # "idle" <=> cobj'[q] # NoObj
        BY <3>1, <3>2 DEF Sharing
      <3>6. ASSUME NEW q \in Caller, cobj'[q] # NoObj
            PROVE  consumers'[cid'[q]] = cobj'[q]
        <4>1. CASE q = p
          BY <3>2, <4>1
        <4>2. CASE q # p
          <5>1. cobj'[q] = cobj[q] /\ cid'[q] = cid[q] /\ cid[q] \in Id /\ cid[q] # i
            BY <3>1, <3>3, <3>6, <4>2 DEF BlockerTypeOK
          <5> QED BY <3>4, <3>6, <5>1 DEF Sharing
        <4> QED BY <4>1, <4>2
      <3>7. \A k, j \in Id : consumers'[k] = consumers'[j] /\ consumers'[k] # NoObj => k = j
        BY <3>2, <3>4 DEF Sharing
      <3> QED BY <3>5, <3>6, <3>7 DEF Sharing
    <2>5. Counting'
      <3> SUFFICES ASSUME NEW j \in Id, NEW u \in Obj, consumers'[j] = u
                   PROVE  usage'[u] = Cardinality(Users(u)') /\ usage'[u] > 0
        BY DEF Counting
      <3>1. CASE u = o
        <4>1. Users(u)' = {p}
          BY <2>1, <3>1 DEF Users, BlockerTypeOK, Unreferenced
        <4>2. Cardinality({p}) = 1
          BY FS_Singleton
        <4>3. usage'[u] = 1
          BY <2>1, <3>1 DEF BlockerTypeOK
        <4> QED BY <4>1, <4>2, <4>3
      <3>2. CASE u # o
        <4>1. consumers[j] = u
          BY <2>1, <3>2 DEF BlockerTypeOK
        <4>2. Users(u)' = Users(u)
          BY <1>0, <2>1, <3>2, BlockerAssumption DEF Users, BlockerTypeOK
        <4>3. usage'[u] = usage[u]
          BY <2>1, <3>2 DEF BlockerTypeOK
        <4> QED BY <4>1, <4>2, <4>3 DEF Counting
      <3> QED BY <3>1, <3>2
    <2>6. Tokens'
      <3>1. Cardinality({}) = 0
        BY FS_EmptySet
      <3>2. \A q \in Caller : pc'[q] = "held" => q # p /\ pc[q] = "held" /\ cobj'[q] = cobj[q] /\ cobj[q] # o
        BY <2>1, <2>2 DEF BlockerTypeOK, Unreferenced
      <3> QED BY <2>1, <3>1, <3>2, BlockerAssumption DEF Tokens, BlockerTypeOK
    <2> QED BY <2>3, <2>4, <2>5, <2>6
  <1> QED BY <1>1, <1>2

\* A step that moves tokens and p's place only.
LEMMA TokenStep ==
  ASSUME BlockerInv, NEW p \in Caller, pc[p] # "idle", NEW l \in {"queued", "held", "put"}, Goto(p, l),
         UNCHANGED <<consumers, usage, cid, cobj>>,
         holders' \in [Obj -> SUBSET Caller], queue' \in [Obj -> Seq(Caller)],
         Tokens'
  PROVE  BlockerInv'
  <1> USE DEF BlockerInv
  <1>1. BlockerTypeOK'
    BY DEF BlockerTypeOK, Goto
  <1>2. Sharing'
    BY DEF Sharing, Goto, BlockerTypeOK
  <1>3. Counting'
    BY Zenon DEF Counting, Users
  <1> QED BY <1>1, <1>2, <1>3

\* Handing a token on never exceeds the limit.
LEMMA PassOnTokens ==
  ASSUME BlockerInv, NEW p \in Caller, cobj[p] \in Obj, p \in holders[cobj[p]], PassOn(p, cobj[p])
  PROVE  /\ holders' \in [Obj -> SUBSET Caller] /\ queue' \in [Obj -> Seq(Caller)]
         /\ \A o \in Obj : Cardinality(holders'[o]) <= MaxConn
         /\ \A o \in Obj : holders[o] \ {p} \subseteq holders'[o]
  <1> DEFINE o == cobj[p]
  <1> USE DEF BlockerInv
  <1>0. holders[o] \subseteq Caller /\ Cardinality(holders[o]) <= MaxConn /\ Cardinality(holders[o]) \in Nat
    BY SubsetsFinite DEF BlockerTypeOK, Tokens
  <1>1. CASE queue[o] = <<>>
    <2>1. holders' = [holders EXCEPT ![o] = @ \ {p}] /\ queue' = queue
      BY <1>1 DEF PassOn
    <2>2. Cardinality(holders[o] \ {p}) <= MaxConn
      BY <1>0, Shrinks, BlockerAssumption
    <2> QED BY <2>1, <2>2 DEF BlockerTypeOK, Tokens
  <1>2. CASE queue[o] # <<>>
    <2> DEFINE q == Head(queue[o])
    <2>1. /\ holders' = [holders EXCEPT ![o] = (@ \ {p}) \cup {q}]
          /\ queue' = [queue EXCEPT ![o] = Tail(@)]
      BY <1>2 DEF PassOn
    <2>2. q \in Caller /\ Tail(queue[o]) \in Seq(Caller)
      BY <1>2 DEF BlockerTypeOK
    <2> HIDE DEF q
    <2>3. Cardinality((holders[o] \ {p}) \cup {q}) <= MaxConn
      <3>1. Cardinality((holders[o] \ {p}) \cup {q}) <= Cardinality(holders[o])
        BY <1>0, <2>2, Swaps
      <3>2. Cardinality((holders[o] \ {p}) \cup {q}) \in Nat
        BY <1>0, <2>2, SubsetsFinite
      <3> QED BY <1>0, <3>1, <3>2, BlockerAssumption, SMTT(30)
    <2> QED BY <2>1, <2>2, <2>3, SMTT(30) DEF BlockerTypeOK, Tokens
  <1> QED BY <1>1, <1>2

\* Release hands the token on.
LEMMA ReleaseInv ==
  ASSUME BlockerInv, NEW p \in Caller, pc[p] # "idle", p \in holders[cobj[p]],
         PassOn(p, cobj[p]), Goto(p, "put"), UNCHANGED <<consumers, usage, cid, cobj>>
  PROVE  BlockerInv'
  <1> USE DEF BlockerInv
  <1>1. cobj[p] \in Obj
    BY DEF Sharing, BlockerTypeOK
  <1>2. /\ holders' \in [Obj -> SUBSET Caller] /\ queue' \in [Obj -> Seq(Caller)]
        /\ \A o \in Obj : Cardinality(holders'[o]) <= MaxConn
        /\ \A o \in Obj : holders[o] \ {p} \subseteq holders'[o]
    BY <1>1, PassOnTokens
  <1>3. \A q \in Caller : pc'[q] = "held" => q # p /\ pc[q] = "held" /\ cobj[q] \in Obj
    BY DEF Goto, Sharing, BlockerTypeOK
  <1>4. Tokens'
    BY <1>2, <1>3 DEF Tokens
  <1> QED BY <1>2, <1>4, TokenStep

\* Acquire on the semaphore.
LEMMA TryAcquireInv ==
  ASSUME BlockerInv, NEW p \in Caller, TryAcquire(p)
  PROVE  BlockerInv'
  <1> DEFINE o == cobj[p]
  <1> USE DEF BlockerInv
  <1>0. pc[p] = "acquire" /\ o \in Obj /\ UNCHANGED <<consumers, usage, cid, cobj>>
    BY DEF TryAcquire, Sharing, BlockerTypeOK
  <1>1. CASE /\ Cardinality(holders[o]) < MaxConn
             /\ holders' = [holders EXCEPT ![o] = @ \cup {p}] /\ UNCHANGED queue /\ Goto(p, "held")
    <2>1. holders[o] \subseteq Caller /\ Cardinality(holders[o]) \in Nat
      BY <1>0, SubsetsFinite DEF BlockerTypeOK
    <2>2. Cardinality(holders[o] \cup {p}) <= MaxConn
      <3>1. CASE p \in holders[o]
        <4>1. holders[o] \cup {p} = holders[o]
          BY <3>1
        <4> QED BY <1>1, <2>1, <4>1, BlockerAssumption
      <3>2. CASE p \notin holders[o]
        BY <1>1, <2>1, <3>2, Grows, BlockerAssumption
      <3> QED BY <3>1, <3>2
    <2>3. holders' \in [Obj -> SUBSET Caller] /\ queue' \in [Obj -> Seq(Caller)]
      BY <1>0, <1>1, <2>1 DEF BlockerTypeOK
    <2>4. Tokens'
      BY <1>0, <1>1, <2>2 DEF Tokens, BlockerTypeOK, Goto, Sharing
    <2> QED BY <1>0, <1>1, <2>3, <2>4, TokenStep
  <1>2. CASE queue' = [queue EXCEPT ![o] = Append(@, p)] /\ UNCHANGED holders /\ Goto(p, "queued")
    <2>1. holders' \in [Obj -> SUBSET Caller] /\ queue' \in [Obj -> Seq(Caller)]
      BY <1>0, <1>2 DEF BlockerTypeOK
    <2>2. Tokens'
      BY <1>0, <1>2 DEF Tokens, BlockerTypeOK, Goto
    <2> QED BY <1>0, <1>2, <2>1, <2>2, TokenStep
  <1>3. CASE UNCHANGED semVars /\ Goto(p, "put")
    <2>1. holders' \in [Obj -> SUBSET Caller] /\ queue' \in [Obj -> Seq(Caller)]
      BY <1>3 DEF BlockerTypeOK, semVars
    <2>2. Tokens'
      BY <1>0, <1>3 DEF Tokens, BlockerTypeOK, Goto, semVars
    <2> QED BY <1>0, <1>3, <2>1, <2>2, TokenStep
  <1> QED BY <1>1, <1>2, <1>3 DEF TryAcquire

\* A queued goroutine finds that it has a token.
LEMMA GrantedInv ==
  ASSUME BlockerInv, NEW p \in Caller, Granted(p)
  PROVE  BlockerInv'
  <1> USE DEF BlockerInv
  <1>1. CASE UNCHANGED semVars /\ Goto(p, "held")
    <2>1. holders' \in [Obj -> SUBSET Caller] /\ queue' \in [Obj -> Seq(Caller)]
      BY <1>1 DEF BlockerTypeOK, semVars
    <2>2. Tokens'
      BY <1>1 DEF Granted, Tokens, BlockerTypeOK, Goto, semVars
    <2> QED BY <1>1, <2>1, <2>2, TokenStep DEF Granted
  <1>2. CASE PassOn(p, cobj[p]) /\ Goto(p, "put")
    BY <1>2, ReleaseInv DEF Granted
  <1> QED BY <1>1, <1>2 DEF Granted

\* A queued goroutine gives up.
LEMMA CancelInv ==
  ASSUME BlockerInv, NEW p \in Caller, Cancel(p)
  PROVE  BlockerInv'
  <1> USE DEF BlockerInv
  <1>1. cobj[p] \in Obj
    BY DEF Cancel, Sharing, BlockerTypeOK
  <1> DEFINE q == queue[cobj[p]]
  <1>2. PICK k \in DOMAIN q :
          queue' = [queue EXCEPT ![cobj[p]] = SubSeq(q, 1, k - 1) \o SubSeq(q, k + 1, Len(q))]
    BY Zenon DEF Cancel
  <1>3. holders' \in [Obj -> SUBSET Caller] /\ queue' \in [Obj -> Seq(Caller)]
    <2>1. q \in Seq(Caller)
      BY <1>1 DEF BlockerTypeOK
    <2> HIDE DEF q
    <2>2. SubSeq(q, 1, k - 1) \in Seq(Caller) /\ SubSeq(q, k + 1, Len(q)) \in Seq(Caller)
      BY <2>1
    <2>3. SubSeq(q, 1, k - 1) \o SubSeq(q, k + 1, Len(q)) \in Seq(Caller)
      BY <2>2
    <2> QED BY <1>2, <2>3, Zenon DEF Cancel, BlockerTypeOK
  <1>4. Tokens'
    BY DEF Cancel, Tokens, BlockerTypeOK, Goto
  <1> QED BY <1>3, <1>4, TokenStep, Zenon DEF Cancel

\* put: one user less, and the last one removes the object.
LEMMA PutInv ==
  ASSUME BlockerInv, NEW p \in Caller, put(p)
  PROVE  BlockerInv'
  <1> USE DEF BlockerInv
  <1>0. PICK i \in Id, o \in Obj : i = cid[p] /\ o = cobj[p]
    BY DEF put, Sharing, BlockerTypeOK
  <1>1. pc[p] = "put" /\ consumers[i] = o /\ o # NoObj
    BY <1>0, BlockerAssumption DEF put, Sharing
  <1>2. /\ pc' = [pc EXCEPT ![p] = "idle"] /\ cobj' = [cobj EXCEPT ![p] = NoObj]
        /\ UNCHANGED <<holders, queue, cid>>
        /\ usage' = [usage EXCEPT ![o] = @ - 1]
        /\ consumers' = IF usage[o] = 1 THEN [consumers EXCEPT ![i] = NoObj] ELSE consumers
    BY <1>0, <1>1 DEF put, Goto, semVars
  <1>3. p \in Users(o) /\ Users(o) \subseteq Caller /\ Users(o)' = Users(o) \ {p}
    BY <1>0, <1>1, <1>2 DEF Users, BlockerTypeOK
  <1>4. /\ Cardinality(Users(o)) = usage[o] /\ usage[o] \in Nat /\ usage[o] > 0
        /\ Cardinality(Users(o)') = usage[o] - 1
    <2>1. Cardinality(Users(o) \ {p}) = Cardinality(Users(o)) - 1
      BY <1>3, Shrinks
    <2>2. Cardinality(Users(o)) = usage[o] /\ usage[o] \in Nat /\ usage[o] > 0
      BY <1>1 DEF Counting, BlockerTypeOK
    <2> QED BY <1>3, <2>1, <2>2
  <1>5. BlockerTypeOK'
    BY <1>1, <1>2, <1>4, SMTT(30) DEF BlockerTypeOK
  <1>6. ASSUME usage[o] = 1, NEW q \in Caller, q # p
        PROVE  cobj[q] # o
    <2>1. Users(o) \ {p} = {}
      BY <1>3, <1>4, <1>6, SubsetsFinite, FS_EmptySet
    <2> QED BY <1>6, <2>1 DEF Users
  <1>7. \A j \in Id : j # i /\ consumers[j] # NoObj => consumers'[j] = consumers[j] /\ consumers[j] # o
    BY <1>1, <1>2 DEF Sharing, BlockerTypeOK
  <1>8. Sharing'
    <2>1. \A q \in Caller : q # p => cobj'[q] = cobj[q] /\ cid'[q] = cid[q] /\ pc'[q] = pc[q]
      BY <1>2 DEF BlockerTypeOK
    <2>2. cobj'[p] = NoObj /\ pc'[p] = "idle"
      BY <1>2 DEF BlockerTypeOK
    <2>3. \A q \in Caller : pc'[q] # "idle" <=> cobj'[q] # NoObj
      BY <2>1, <2>2 DEF Sharing
    <2>4. \A q \in Caller : cobj'[q] # NoObj => consumers'[cid'[q]] = cobj'[q]
      <3> SUFFICES ASSUME NEW q \in Caller, cobj'[q] # NoObj
                   PROVE  consumers'[cid'[q]] = cobj'[q]
        OBVIOUS
      <3>1. q # p /\ cobj[q] # NoObj /\ consumers[cid[q]] = cobj[q] /\ cid[q] \in Id
        BY <2>1, <2>2 DEF Sharing, BlockerTypeOK
      <3>2. CASE cid[q] = i
        BY <1>1, <1>2, <1>6, <2>1, <3>1, <3>2
      <3>3. CASE cid[q] # i
        BY <1>7, <2>1, <3>1, <3>3
      <3> QED BY <3>2, <3>3
    <2>5. \A k, j \in Id : consumers'[k] = consumers'[j] /\ consumers'[k] # NoObj => k = j
      BY <1>1, <1>2 DEF Sharing, BlockerTypeOK
    <2> QED BY <2>3, <2>4, <2>5 DEF Sharing
  <1>9. Counting'
    <2> SUFFICES ASSUME NEW j \in Id, NEW u \in Obj, consumers'[j] = u
                 PROVE  usage'[u] = Cardinality(Users(u)') /\ usage'[u] > 0
      BY DEF Counting
    <2>0. consumers[j] = u
      BY <1>2, BlockerAssumption DEF BlockerTypeOK
    <2>1. CASE u = o
      <3>1. usage[o] # 1
        BY <1>1, <1>2, <2>0, <2>1, BlockerAssumption DEF Sharing, BlockerTypeOK
      <3>2. usage'[o] = usage[o] - 1
        BY <1>1, <1>2 DEF BlockerTypeOK
      <3> DEFINE m == usage[o]
      <3>3. m \in Nat /\ m > 0 /\ m # 1
        BY <1>4, <3>1
      <3> HIDE DEF m
      <3>4. m - 1 > 0
        BY <3>3
      <3>5. usage'[o] > 0
        BY <3>2, <3>4 DEF m
      <3> QED BY <1>4, <2>1, <3>2, <3>5
    <2>2. CASE u # o
      <3>1. Users(u)' = Users(u)
        BY <1>0, <1>2, <2>2, BlockerAssumption DEF Users, BlockerTypeOK
      <3>2. usage'[u] = usage[u]
        BY <1>2, <2>2 DEF BlockerTypeOK
      <3> QED BY <2>0, <3>1, <3>2 DEF Counting
    <2> QED BY <2>1, <2>2
  <1>10. Tokens'
    <2>1. \A q \in Caller : pc'[q] = "held" => q # p /\ pc[q] = "held" /\ cobj'[q] = cobj[q]
      BY <1>2 DEF BlockerTypeOK
    <2> QED BY <1>2, <2>1 DEF Tokens
  <1> QED BY <1>5, <1>8, <1>9, <1>10

\* Every step preserves the invariant.
LEMMA NextBlocker == BlockerInv /\ [BlockerNext]_blockerVars => BlockerInv'
  <1> SUFFICES ASSUME BlockerInv, [BlockerNext]_blockerVars PROVE BlockerInv'
    OBVIOUS
  <1>1. CASE UNCHANGED blockerVars
    <2>1. UNCHANGED <<consumers, usage, holders, queue, pc, cid, cobj>>
      BY <1>1 DEF blockerVars, semVars
    <2>2. BlockerTypeOK' /\ Sharing' /\ Tokens'
      BY <2>1 DEF BlockerInv, BlockerTypeOK, Sharing, Tokens
    <2>3. Counting'
      BY <2>1 DEF BlockerInv, Counting, Users
    <2> QED BY <2>2, <2>3 DEF BlockerInv
  <1>2. ASSUME NEW p \in Caller, Release(p)
        PROVE  BlockerInv'
    BY <1>2, ReleaseInv DEF Release, BlockerInv, Tokens
  <1>3. CASE BlockerNext
    BY <1>2, <1>3, TakeInv, TryAcquireInv, GrantedInv, CancelInv, PutInv DEF BlockerNext
  <1> QED BY <1>1, <1>3

\* The invariant holds in every state the blocker reaches.
LEMMA BlockerInvariance == BlockerSpec => []BlockerInv
  BY InitBlocker, NextBlocker, PTL DEF BlockerSpec

(***************************************************************************)
(* BlockerSpec implies that LimitPerId always holds: Acquire never lets more than *)
(* maxConn goroutines use the same key at a time.                          *)
(***************************************************************************)
THEOREM Limit == BlockerSpec => []LimitPerId
  <1>1. BlockerInv => LimitPerId
    <2> SUFFICES ASSUME BlockerInv, NEW i \in Id PROVE Cardinality(Inside(i)) <= MaxConn
      BY DEF LimitPerId
    <2> USE DEF BlockerInv
    <2>1. CASE Inside(i) = {}
      BY <2>1, FS_EmptySet, BlockerAssumption
    <2>2. CASE Inside(i) # {}
      <3> DEFINE o == consumers[i]
      <3>1. o \in Obj /\ Inside(i) \subseteq holders[o]
        BY <2>2 DEF Inside, Sharing, Tokens, BlockerTypeOK
      <3>2. holders[o] \subseteq Caller /\ Cardinality(holders[o]) <= MaxConn
        BY <3>1 DEF BlockerTypeOK, Tokens
      <3>3. IsFiniteSet(holders[o]) /\ Cardinality(holders[o]) \in Nat
        BY <3>2, SubsetsFinite
      <3>4. Cardinality(Inside(i)) <= Cardinality(holders[o]) /\ Cardinality(Inside(i)) \in Nat
        BY <3>1, <3>3, FS_Subset, FS_CardinalityType
      <3> DEFINE m == Cardinality(Inside(i))
                 n == Cardinality(holders[o])
      <3>5. m \in Nat /\ n \in Nat /\ MaxConn \in Nat /\ m <= n /\ n <= MaxConn
        BY <3>2, <3>3, <3>4, BlockerAssumption
      <3> HIDE DEF m, n
      <3>6. m <= MaxConn
        BY <3>5
      <3> QED BY <3>6 DEF m
    <2> QED BY <2>1, <2>2
  <1> QED BY <1>1, BlockerInvariance, PTL

(***************************************************************************)
(* BlockerSpec implies that UsageExact always holds: the usage counter of a       *)
(* consumer is the number of goroutines that use it, and put finds it.     *)
(***************************************************************************)
THEOREM Usage == BlockerSpec => []UsageExact
  <1>1. BlockerInv => UsageExact
    BY DEF BlockerInv, Sharing, Counting, UsageExact, BlockerTypeOK
  <1> QED BY <1>1, BlockerInvariance, PTL

(***************************************************************************)
(* BlockerSpec implies that BlockerTypeOK always holds; in particular put never makes a  *)
(* usage count negative.                                                   *)
(***************************************************************************)
THEOREM BlockerTyping == BlockerSpec => []BlockerTypeOK
  <1>1. BlockerInv => BlockerTypeOK
    BY DEF BlockerInv
  <1> QED BY <1>1, BlockerInvariance, PTL
=============================================================================
