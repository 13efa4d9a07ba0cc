---------------------------- MODULE Certificates ----------------------------
(***************************************************************************)
(* The certificates of one domain: a process with a CertMaster             *)
(* (xhttp/tls_master.go) and its issuer, which crashes, starts again and   *)
(* replaces its CertMaster, and a second process whose CertWatcher         *)
(* (xhttp/ssl_foreign.go) reads the first one's cache directory.           *)
(*                                                                         *)
(* CertMaster.Shutdown does not wait for the worker of the issuer: the     *)
(* worker may still ask for a certificate and write it while the next      *)
(* issuer is at work on the same file.                                     *)
(***************************************************************************)
EXTENDS Issuer

CONSTANTS MaxIssuers, MaxNow    \* bounds

ASSUME TimeAssumption == MaxNow \in Nat

VARIABLES current,    \* the issuer of the CertMaster in use, 0 while there is none
          watched     \* the watcher's map: empty, the unnamed nil entry, or the certificate

vars == <<issuerVars, current, watched>>

Init ==
  /\ now = 0 /\ notAfter = <<>> /\ file = None /\ issuer = <<>>
  /\ current = 0 /\ watched = None

NewCertMaster ==
  /\ current = 0 /\ Len(issuer) < MaxIssuers
  /\ NewIssuer
  /\ current' = Len(issuer) + 1
  /\ UNCHANGED <<now, notAfter, file, watched>>

\* CertMaster.Shutdown
MasterShutdown ==
  /\ current # 0
  /\ Shutdown(current)
  /\ current' = 0
  /\ UNCHANGED <<now, notAfter, file, watched>>

\* The process dies, and its goroutines with it.
Crash ==
  /\ \E i \in DOMAIN issuer : issuer[i].pc # "ended"
  /\ issuer' = [i \in DOMAIN issuer |-> Ended]
  /\ current' = 0
  /\ UNCHANGED <<now, notAfter, file, watched>>

\* CertMaster.GetCertificate for the domain
masterGetCertificate == IF current = 0 THEN None ELSE GetCertificate(current)

\* CertWatcher.read: a file that cannot be parsed becomes an entry without a name.
read == IF file = None \/ parseX509(file) THEN file ELSE Torn

\* CertWatcher.GetCertificate for the domain
watcherGetCertificate == IF watched > 0 THEN watched ELSE None

\* Mutant: a certificate that has been read is not read again.
syncOnce ==
  /\ watched' = IF watched > 0 THEN watched ELSE read
  /\ UNCHANGED <<issuerVars, current>>

\* CertWatcher.sync: the map is made anew; if the directory cannot be listed it stays.
sync ==
  /\ watched' = read
  /\ UNCHANGED <<issuerVars, current>>

Next ==
  \/ NewCertMaster \/ MasterShutdown \/ Crash \/ sync
  \/ (now < MaxNow /\ Tick /\ UNCHANGED <<current, watched>>)
  \/ \E i \in DOMAIN issuer : IssuerStep(i) /\ UNCHANGED <<current, watched>>

\* The workers and the watcher are scheduled, and a CA that is asked again and again
\* answers in the end.
Fairness ==
  /\ WF_vars(sync)
  /\ \A i \in 1 .. MaxIssuers :
       /\ WF_vars(i \in DOMAIN issuer /\ IssuerStep(i) /\ UNCHANGED <<current, watched>>)
       /\ SF_vars(/\ i \in DOMAIN issuer /\ issueAndSaveCertificate(i)
                  /\ notAfter' # notAfter /\ UNCHANGED <<current, watched>>)

Spec == Init /\ [][Next]_vars /\ Fairness

(***************************************************************************)
(* Properties                                                              *)
(***************************************************************************)
\* Types: every certificate in use has been issued.
TypeOK ==
  /\ now \in 0 .. MaxNow /\ notAfter \in Seq(0 .. MaxNow + Validity)
  /\ {file, watched} \subseteq -1 .. Len(notAfter) /\ current \in 0 .. Len(issuer)
  /\ \A i \in DOMAIN issuer :
       /\ issuer[i].le \in 0 .. Len(notAfter) /\ issuer[i].tls \in {SelfSigned} \cup 1 .. Len(notAfter)
       /\ issuer[i].pc \in {"task", "write", "writing", "wait", "sleep", "ended"}

\* A worker never sleeps on an expired certificate, nor on a self-signed one, whatever
\* requests and writes failed before: serving one means it is still trying.
SleepsOnValid ==
  \A i \in DOMAIN issuer : issuer[i].pc = "sleep" /\ ~issuer[i].done =>
    issuer[i].le # None /\ notAfter[GetCertificate(i)] > now

\* While the worker of the issuer in use sleeps, the cache file holds the certificate
\* served, across crashes and a former issuer's last steps: unless saving it failed,
\* or another issuer's worker wrote the file since.
CacheCurrent ==
  /\ TypeOK
  /\ current # 0 /\ issuer[current].pc = "sleep" /\ ~issuer[current].unsaved => file = issuer[current].le

\* The CA's limit named in workerTask: no more than 5 requests of an issuer in use fail
\* within an hour.  After Shutdown a worker, wherever it is, makes no more than one
\* request of each task.
RequestsLimited ==
  \A i \in DOMAIN issuer :
    /\ Cardinality(issuer[i].recent) <= 5
    /\ issuer[i].late <= 2 /\ (issuer[i].task = "issue" => issuer[i].late <= 1)

\* What the issuer in use serves only changes for the better: to a certificate of the
\* CA that expires no earlier.
ServedNeverWorse ==
  [][current # 0 /\ current' = current =>
       LET old == masterGetCertificate new == masterGetCertificate' IN
       new # old => new > 0 /\ (old > 0 => notAfter'[new] >= notAfter[old])]_vars

\* The workers of issuers that were shut down end: again and again none is left.
WorkersEnd == []<>(\A i \in DOMAIN issuer : issuer[i].done => issuer[i].pc = "ended")

\* An issuer that stays in use comes to serve a certificate of the CA, even if it found
\* a torn file (or the certificates of the instance are used up).
EventuallyTrusted == []<>(current = 0 \/ masterGetCertificate > 0 \/ Len(notAfter) = MaxCerts)

\* The watcher keeps catching up with the file, however often it is rewritten: again
\* and again it answers with what has been saved.
WatcherFollows == []<>(watcherGetCertificate = IF parseX509(file) THEN file ELSE None)
=============================================================================
