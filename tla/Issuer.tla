------------------------------- MODULE Issuer -------------------------------
(***************************************************************************)
(* Instances of the certificate issuer of one domain (xhttp/ssl.go): the   *)
(* certificate it serves, its worker goroutine, and the cache file that    *)
(* all of them share.                                                      *)
(*                                                                         *)
(* A certificate of the CA is its number in the order of issue.  Time is   *)
(* counted in spans of 30 days; the CA's certificates are valid for three. *)
(* Between two spans every worker tries at least once.  Retries are spaced *)
(* in minutes, and the ages of the requests that failed within the last    *)
(* hour are kept in minutes.                                               *)
(***************************************************************************)
EXTENDS Integers, Sequences, FiniteSets

CONSTANT MaxCerts     \* bound on the certificates issued

VARIABLES now, notAfter,   \* notAfter[c]: when certificate c expires
          file,            \* the cache file
          issuer           \* the instances so far

issuerVars == <<now, notAfter, file, issuer>>

None == 0         \* no file; nil
Torn == -1        \* a file that is not a certificate; also the self-signed one
SelfSigned == -1
Validity == 3
MinInterval == 1
MaxInterval == 60

\* leCert and tlsCert; the worker's task and its place in it; whether it has tried in
\* this span and the wait before the next try; whether ctx is done.  History: ages of
\* failed requests, requests made after Shutdown, whether saving failed or another
\* instance wrote the file since (unsaved), and whether it overlaps another's saving.
Born(le, tls, task) ==
  [le |-> le, tls |-> tls, task |-> task, pc |-> "task", tried |-> FALSE, interval |-> MinInterval,
   done |-> FALSE, recent |-> {}, late |-> 0, unsaved |-> FALSE, mixed |-> FALSE]

Set(i, r) == issuer' = [issuer EXCEPT ![i] = r]
Failed(r) == [r EXCEPT !.pc = "wait", !.tried = TRUE]

\* workerTask returns: after the first task the worker renews, then it sleeps.
TaskEnds(r) ==
  IF r.task = "issue" THEN [r EXCEPT !.task = "renew", !.pc = "task", !.interval = MinInterval]
  ELSE [r EXCEPT !.pc = "sleep", !.tried = TRUE]

\* Unmarshalling and parseX509 make a certificate of a file, or fail.
parseX509(f) == f > 0

loadCachedCertificate == Born(file, file, "renew")
assignSelfSigned == Born(None, SelfSigned, "issue")
NewIssuer == issuer' = Append(issuer, IF parseX509(file) THEN loadCachedCertificate ELSE assignSelfSigned)

GetCertificate(i) == issuer[i].tls

Requested(r) == [r EXCEPT !.late = IF r.done THEN @ + 1 ELSE @]

\* Mutant: a failed request puts the self-signed certificate back.
RequestFailsFallsBack(r) == Failed([Requested(r) EXCEPT !.recent = @ \cup {0}, !.tls = SelfSigned])

\* Obtain or Renew fails, or getLEClient before it.
RequestFails(r) == Failed([Requested(r) EXCEPT !.recent = IF r.done THEN {} ELSE @ \cup {0}])

\* Obtain or Renew succeeds: leCert and tlsCert are set before the file is written.
Received(i) ==
  /\ Len(notAfter) < MaxCerts
  /\ notAfter' = Append(notAfter, now + Validity)
  /\ LET c == Len(notAfter) + 1 IN Set(i, [Requested(issuer[i]) EXCEPT !.le = c, !.tls = c, !.pc = "write"])

\* Mutant: a failure is not tried again.
issueOnce(i) ==
  /\ issuer[i].pc = "task" /\ issuer[i].task = "issue"
  /\ Received(i) \/ (Set(i, TaskEnds(RequestFails(issuer[i]))) /\ UNCHANGED notAfter)
  /\ UNCHANGED <<now, file>>

issueAndSaveCertificate(i) ==
  /\ issuer[i].pc = "task" /\ issuer[i].task = "issue"
  /\ Received(i) \/ (Set(i, RequestFails(issuer[i])) /\ UNCHANGED notAfter)
  /\ UNCHANGED <<now, file>>

Left(r) == notAfter[r.tls] - now

\* Mutant: the error of a renewal that is due is lost with the retry.
renewOnceGivesUp(i) ==
  /\ issuer[i].pc = "task" /\ issuer[i].task = "renew"
  /\ \/ issuer[i].le = None /\ Set(i, Failed(issuer[i])) /\ UNCHANGED notAfter
     \/ issuer[i].le # None /\ Left(issuer[i]) > 1 /\ Set(i, TaskEnds(issuer[i])) /\ UNCHANGED notAfter
     \/ /\ issuer[i].le # None /\ Left(issuer[i]) <= 1
        /\ Received(i) \/ (Set(i, TaskEnds(RequestFails(issuer[i]))) /\ UNCHANGED notAfter)
  /\ UNCHANGED <<now, file>>

renewOnce(i) ==
  /\ issuer[i].pc = "task" /\ issuer[i].task = "renew"
  /\ \/ issuer[i].le = None /\ Set(i, Failed(issuer[i])) /\ UNCHANGED notAfter
     \/ issuer[i].le # None /\ Left(issuer[i]) > 1 /\ Set(i, TaskEnds(issuer[i])) /\ UNCHANGED notAfter
     \/ /\ issuer[i].le # None /\ Left(issuer[i]) <= 1
        /\ Received(i) \/ (Set(i, RequestFails(issuer[i])) /\ UNCHANGED notAfter)
  /\ UNCHANGED <<now, file>>

Writers == {i \in DOMAIN issuer : issuer[i].pc = "writing"}

\* writeCert: WriteFile cannot open the file, or it truncates the file, which is then
\* no longer what another instance has saved.
writeCertOpen(i) ==
  /\ issuer[i].pc = "write"
  /\ \/ Set(i, Failed([issuer[i] EXCEPT !.unsaved = TRUE])) /\ UNCHANGED file
     \/ /\ file' = Torn
        /\ issuer' = [j \in DOMAIN issuer |->
             IF j = i THEN [issuer[i] EXCEPT !.pc = "writing", !.unsaved = FALSE, !.mixed = (Writers # {})]
             ELSE [issuer[j] EXCEPT !.unsaved = TRUE, !.mixed = j \in Writers]]
  /\ UNCHANGED <<now, notAfter>>

\* Mutant: what is written is never flushed.
writeCertUnflushed(i) ==
  /\ issuer[i].pc = "writing"
  /\ Set(i, TaskEnds(issuer[i]))
  /\ UNCHANGED <<now, notAfter, file>>

\* writeCert: the rest of WriteFile.  The contents of two writers that overlap may end
\* up mixed; an error leaves what there is.
writeCert(i) ==
  /\ issuer[i].pc = "writing"
  /\ \/ /\ file' \in {issuer[i].le} \cup (IF issuer[i].mixed THEN {Torn} ELSE {})
        /\ issuer' = [j \in DOMAIN issuer |->
             IF j = i THEN TaskEnds([issuer[i] EXCEPT !.unsaved = issuer[i].mixed, !.mixed = FALSE])
             ELSE [issuer[j] EXCEPT !.unsaved = TRUE]]
     \/ /\ UNCHANGED file
        /\ Set(i, Failed([issuer[i] EXCEPT !.unsaved = TRUE, !.mixed = FALSE]))
  /\ UNCHANGED <<now, notAfter>>

Older(recent, minutes) == {a + minutes : a \in {b \in recent : b + minutes < 60}}

\* Mutant: the interval stays the same.
RetrySteady(r) == [r EXCEPT !.pc = "task", !.recent = Older(@, r.interval)]

\* workerTask: the timer of an error fires.
Retry(r) == [r EXCEPT !.pc = "task", !.recent = Older(@, r.interval),
                      !.interval = IF @ * 4 > MaxInterval THEN MaxInterval ELSE @ * 4]

\* workerTask: the select after an error.  The timer is new, so ctx.Done wins if it is
\* there.
workerTask(i) ==
  /\ issuer[i].pc = "wait"
  /\ Set(i, IF issuer[i].done THEN TaskEnds(issuer[i]) ELSE Retry(issuer[i]))
  /\ UNCHANGED <<now, notAfter, file>>

\* Nothing is left of a worker that has ended.
Ended == [Born(None, SelfSigned, "renew") EXCEPT !.pc = "ended", !.done = TRUE]

\* Mutant: a break that leaves the select and not the loop.
workerBreaks(i) ==
  /\ issuer[i].pc = "sleep"
  /\ Set(i, IF issuer[i].done THEN issuer[i]
            ELSE [issuer[i] EXCEPT !.pc = "task", !.interval = MinInterval, !.recent = {}])
  /\ UNCHANGED <<now, notAfter, file>>

\* worker: the select of its loop, a day long
worker(i) ==
  /\ issuer[i].pc = "sleep"
  /\ Set(i, IF issuer[i].done THEN Ended
            ELSE [issuer[i] EXCEPT !.pc = "task", !.interval = MinInterval, !.recent = {}])
  /\ UNCHANGED <<now, notAfter, file>>

\* Shutdown.  The waits that end at once, and their history, are dropped.
Shutdown(i) == Set(i, [issuer[i] EXCEPT !.done = TRUE, !.interval = MinInterval, !.recent = {}])

\* 30 days pass: every worker has tried meanwhile, and is asleep or retries once an hour.
Parked(r) ==
  \/ r.pc = "ended"
  \/ r.tried /\ ~r.done /\ (r.pc = "sleep" \/ (r.pc = "wait" /\ r.interval = MaxInterval))
Tick ==
  /\ \A i \in DOMAIN issuer : Parked(issuer[i])
  /\ now' = now + 1
  /\ issuer' = [i \in DOMAIN issuer |-> [issuer[i] EXCEPT !.tried = FALSE]]
  /\ UNCHANGED <<notAfter, file>>

IssuerStep(i) ==
  \/ issueAndSaveCertificate(i) \/ renewOnce(i) \/ writeCertOpen(i) \/ writeCert(i) \/ workerTask(i) \/ worker(i)
=============================================================================
