------------------------------- MODULE XPipe -------------------------------
(***************************************************************************)
(* The in-memory pipe of xpipe/pipe.go with a goroutine that reads, one    *)
(* that writes, and others that close it and set deadlines.                *)
(*                                                                         *)
(* A step is a stretch of code under the pipe's lock, or a check before    *)
(* the lock is taken.  The bytes are numbered as the writer's caller       *)
(* counts them: a call continues after the n bytes that the calls before   *)
(* it said they wrote.                                                     *)
(***************************************************************************)
EXTENDS XCond

CONSTANTS R, W,          \* the reading and the writing goroutine
          MaxBufferSize,
          MaxBytes,      \* bound on the bytes written
          WriteLen,      \* lengths callers pass to Write
          ReadLen        \* lengths callers pass to Read

ASSUME PipeAssumption ==
  /\ MaxBufferSize \in Nat /\ MaxBytes \in Nat
  /\ WriteLen \subseteq Nat /\ ReadLen \subseteq Nat

VARIABLES buffer,
          closing,    \* "no", or how the pipe was closed: "clean", by Close
                      \* while no Write runs, or "early"
          rTrigger, wTrigger,  \* condition variables
          rdeadline, wdeadline, \* "zero", "future" or "past"
          ctxDone,    \* the pipe's context has ended
          rpc, wpc,   \* "idle", "lock" or "wait"
          rlen,       \* length of the running Read
          todo,       \* bytes the running Write still has to append
          acked,      \* bytes the caller of Write counts as written
          done,       \* n of the running Write
          out,        \* bytes read
          rerr        \* error of the last Read

condVars == <<rTrigger, wTrigger>>
dlVars == <<rdeadline, wdeadline, ctxDone>>
rVars == <<rpc, rlen, out, rerr>>
wVars == <<wpc, todo, acked, done>>
vars == <<buffer, closing, condVars, dlVars, rVars, wVars>>

closed == closing # "no"

Least(a, b) == IF a < b THEN a ELSE b

Init ==
  /\ buffer = <<>> /\ closing = "no"
  /\ rTrigger = NewCond /\ wTrigger = NewCond
  /\ rdeadline = "zero" /\ wdeadline = "zero" /\ ctxDone = FALSE
  /\ rpc = "idle" /\ rlen = 0 /\ out = <<>> /\ rerr = "nil"
  /\ wpc = "idle" /\ todo = 0 /\ acked = 0 /\ done = 0

\* What wait() returns without waiting, "nil" if it would wait ...
waitError(deadline) ==
  IF deadline = "past" THEN "deadline" ELSE IF closed THEN "closed" ELSE "nil"

\* ... and what it returns after a wake-up.
wokenError(deadline) ==
  IF closed THEN "closed" ELSE IF deadline = "past" THEN "deadline" ELSE "nil"

-----------------------------------------------------------------------------
\* Read: the check before the lock.
Read(n) ==
  /\ rpc = "idle"
  /\ IF rdeadline = "past"
     THEN rerr' = "deadline" /\ UNCHANGED <<rpc, rlen>>
     ELSE rpc' = "lock" /\ rlen' = n /\ UNCHANGED rerr
  /\ UNCHANGED <<buffer, closing, condVars, dlVars, out, wVars>>

ReadReturn(err) == rpc' = "idle" /\ rlen' = 0 /\ rerr' = err

\* Mutant: the Broadcast for the writer is left out.
ReadTakeSilent(rt) ==
  LET n == Least(Len(buffer), rlen)
  IN  /\ out' = out \o SubSeq(buffer, 1, n)
      /\ buffer' = SubSeq(buffer, n + 1, Len(buffer))
      /\ rTrigger' = rt
      /\ ReadReturn("nil")
      /\ UNCHANGED <<closing, wTrigger>>

\* The end of Read, with data; rt is rTrigger after a preceding Wait.
ReadTake(rt) ==
  LET n == Least(Len(buffer), rlen)
  IN  /\ out' = out \o SubSeq(buffer, 1, n)
      /\ buffer' = SubSeq(buffer, n + 1, Len(buffer))
      /\ rTrigger' = rt
      /\ wTrigger' = Broadcast(wTrigger)
      /\ ReadReturn("nil")
      /\ UNCHANGED closing

\* The loop of Read with the lock; err is what wait() says.
ReadLoop(rt, err) ==
  \/ buffer # <<>> /\ ReadTake(rt)
  \/ /\ buffer = <<>>
     /\ UNCHANGED <<buffer, closing, out, wTrigger>>
     /\ IF err = "nil"
        THEN rpc' = "wait" /\ rTrigger' = WaitEnter(rt) /\ UNCHANGED <<rlen, rerr>>
        ELSE ReadReturn(err) /\ rTrigger' = rt

ReadLocked ==
  /\ rpc = "lock"
  /\ ReadLoop(rTrigger, waitError(rdeadline))
  /\ UNCHANGED <<dlVars, wVars>>

\* wait() closes the pipe when the context ended; data that came meanwhile is
\* delivered whatever wait() returned.
ReadWoken ==
  /\ rpc = "wait"
  /\ UNCHANGED <<dlVars, wVars>>
  /\ \/ /\ R \in rTrigger.ready
        /\ ReadLoop(WaitLeave(rTrigger, R), wokenError(rdeadline))
     \/ /\ R \in rTrigger.failed
        /\ closing' = IF closed THEN closing ELSE "early"
        /\ LET rt == WaitLeave(rTrigger, R)
               rt2 == IF closed THEN rt ELSE Broadcast(rt)
               wt2 == IF closed THEN wTrigger ELSE Broadcast(wTrigger)
               n == Least(Len(buffer), rlen)
           IN  /\ rTrigger' = rt2
               /\ IF buffer = <<>>
                  THEN ReadReturn("context") /\ wTrigger' = wt2 /\ UNCHANGED <<buffer, out>>
                  ELSE /\ out' = out \o SubSeq(buffer, 1, n)
                       /\ buffer' = SubSeq(buffer, n + 1, Len(buffer))
                       /\ wTrigger' = Broadcast(wt2)
                       /\ ReadReturn("nil")

-----------------------------------------------------------------------------
\* Write: the checks before the lock; closed is read without it.
Write(n) ==
  /\ wpc = "idle" /\ acked + n <= MaxBytes
  /\ IF wdeadline = "past" \/ closed
     THEN UNCHANGED wVars
     ELSE wpc' = "lock" /\ todo' = n /\ done' = 0 /\ UNCHANGED acked
  /\ UNCHANGED <<buffer, closing, condVars, dlVars, rVars>>

\* Mutant: an error return forgets what was appended.
WriteReturnZero(n) ==
  /\ wpc' = "idle" /\ todo' = 0 /\ done' = 0
  /\ acked' = acked + (IF n = todo + done THEN n ELSE 0)

\* The caller learns n whether or not there is an error.
WriteReturn(n) == wpc' = "idle" /\ todo' = 0 /\ acked' = acked + n /\ done' = 0

\* The loop of Write with the lock, from a state with a given wTrigger: append
\* what fits; then return if that was all, else the buffer is full and wait.
WriteLoop(wt) ==
  LET n == Least(todo, MaxBufferSize - Len(buffer))
  IN  /\ buffer' = buffer \o [i \in 1..n |-> acked + done + i]
      /\ rTrigger' = IF n > 0 THEN Broadcast(rTrigger) ELSE rTrigger
      /\ IF n = todo \/ waitError(wdeadline) # "nil"
         THEN WriteReturn(done + n) /\ wTrigger' = wt
         ELSE /\ wpc' = "wait" /\ todo' = todo - n /\ done' = done + n
              /\ wTrigger' = WaitEnter(wt)
              /\ UNCHANGED acked
      /\ UNCHANGED closing

WriteLocked ==
  /\ wpc = "lock"
  /\ WriteLoop(wTrigger)
  /\ UNCHANGED <<dlVars, rVars>>

WriteWoken ==
  /\ wpc = "wait"
  /\ UNCHANGED <<dlVars, rVars>>
  /\ \/ /\ W \in wTrigger.ready
        /\ IF wokenError(wdeadline) = "nil"
           THEN WriteLoop(WaitLeave(wTrigger, W))
           ELSE /\ WriteReturn(done)
                /\ wTrigger' = WaitLeave(wTrigger, W)
                /\ UNCHANGED <<buffer, closing, rTrigger>>
     \/ /\ W \in wTrigger.failed
        /\ WriteReturn(done)
        /\ closing' = IF closed THEN closing ELSE "early"
        /\ rTrigger' = IF closed THEN rTrigger ELSE Broadcast(rTrigger)
        /\ wTrigger' = IF closed THEN WaitLeave(wTrigger, W)
                                 ELSE Broadcast(WaitLeave(wTrigger, W))
        /\ UNCHANGED buffer

-----------------------------------------------------------------------------
\* Close; on a closed pipe it changes nothing.
Close ==
  /\ ~closed
  /\ closing' = IF wpc = "idle" THEN "clean" ELSE "early"
  /\ rTrigger' = Broadcast(rTrigger)
  /\ wTrigger' = Broadcast(wTrigger)
  /\ UNCHANGED <<buffer, dlVars, rVars, wVars>>

SetReadDeadline(t) ==
  /\ rdeadline' = t
  /\ rTrigger' = Broadcast(rTrigger)
  /\ UNCHANGED <<buffer, closing, wTrigger, wdeadline, ctxDone, rVars, wVars>>

SetWriteDeadline(t) ==
  /\ wdeadline' = t
  /\ wTrigger' = Broadcast(wTrigger)
  /\ UNCHANGED <<buffer, closing, rTrigger, rdeadline, ctxDone, rVars, wVars>>

SetDeadline(t) ==
  /\ rdeadline' = t /\ wdeadline' = t
  /\ rTrigger' = Broadcast(rTrigger) /\ wTrigger' = Broadcast(wTrigger)
  /\ UNCHANGED <<buffer, closing, ctxDone, rVars, wVars>>

\* Time passes; no timer is armed, so nobody is told.
DeadlinePasses ==
  /\ "future" \in {rdeadline, wdeadline}
  /\ \/ rdeadline = "future" /\ rdeadline' = "past" /\ UNCHANGED wdeadline
     \/ wdeadline = "future" /\ wdeadline' = "past" /\ UNCHANGED rdeadline
  /\ UNCHANGED <<buffer, closing, condVars, ctxDone, rVars, wVars>>

ContextEnds ==
  /\ ~ctxDone
  /\ ctxDone' = TRUE
  /\ UNCHANGED <<buffer, closing, condVars, rdeadline, wdeadline, rVars, wVars>>

\* A goroutine in the select of Cond.Wait: it receives or parks ...
SelectStep(c, p) ==
  /\ Entering(c, p)
  /\ \/ CanReceive(c, p) /\ c' = Receive(c, p)
     \/ ~CanReceive(c, p) /\ ~ctxDone /\ c' = Park(c, p)

\* ... or sees that the context ended.
ExpireStep(c, p) ==
  /\ ctxDone /\ p \notin c.ready \cup c.failed
  /\ c' = Expire(c, p)

ReadSelect ==
  /\ rpc = "wait" /\ SelectStep(rTrigger, R)
  /\ UNCHANGED <<buffer, closing, wTrigger, dlVars, rVars, wVars>>

ReadExpire ==
  /\ rpc = "wait" /\ ExpireStep(rTrigger, R)
  /\ UNCHANGED <<buffer, closing, wTrigger, dlVars, rVars, wVars>>

WriteSelect ==
  /\ wpc = "wait" /\ SelectStep(wTrigger, W)
  /\ UNCHANGED <<buffer, closing, rTrigger, dlVars, rVars, wVars>>

WriteExpire ==
  /\ wpc = "wait" /\ ExpireStep(wTrigger, W)
  /\ UNCHANGED <<buffer, closing, rTrigger, dlVars, rVars, wVars>>

Deadlines == {"zero", "future", "past"}

Next ==
  \/ \E n \in ReadLen : Read(n)
  \/ ReadLocked \/ ReadSelect \/ ReadExpire \/ ReadWoken
  \/ \E n \in WriteLen : Write(n)
  \/ WriteLocked \/ WriteSelect \/ WriteExpire \/ WriteWoken
  \/ Close
  \/ \E t \in Deadlines : SetReadDeadline(t) \/ SetWriteDeadline(t) \/ SetDeadline(t)
  \/ DeadlinePasses
  \/ ContextEnds

\* The two goroutines go on with a call they have begun, and a select chooses
\* among its ready cases at random: it does not ignore an ended context for ever.
Spec ==
  /\ Init /\ [][Next]_vars
  /\ WF_vars(ReadLocked) /\ WF_vars(ReadSelect) /\ WF_vars(ReadWoken)
  /\ WF_vars(WriteLocked) /\ WF_vars(WriteSelect) /\ WF_vars(WriteWoken)
  /\ SF_vars(ReadExpire) /\ SF_vars(WriteExpire)

-----------------------------------------------------------------------------
\* Every variable has its type; the buffer keeps to MaxBufferSize and each
\* condition variable counts the one goroutine that may wait on it.
TypeOK ==
  /\ buffer \in Seq(Nat) /\ Len(buffer) <= MaxBufferSize
  /\ closing \in {"no", "clean", "early"} /\ ctxDone \in BOOLEAN
  /\ rdeadline \in Deadlines /\ wdeadline \in Deadlines
  /\ rpc \in {"idle", "lock", "wait"} /\ wpc \in {"idle", "lock", "wait"}
  /\ rTrigger.waiters = (IF rpc = "wait" THEN 1 ELSE 0)
  /\ wTrigger.waiters = (IF wpc = "wait" THEN 1 ELSE 0)
  /\ rlen \in ReadLen \cup {0} /\ todo \in Nat /\ done \in Nat /\ acked \in 0..MaxBytes
  /\ out \in Seq(Nat) /\ rerr \in {"nil", "deadline", "closed", "context"}

\* The stream is intact: what was read and what is in the buffer is exactly
\* what the writer's caller counts as written, plus the part of a Write in
\* progress, in order, nothing twice, whatever errors cut the calls short.  When
\* the pipe is closed between two Writes, a reader that is told so has read every
\* byte that Write said it wrote.
StreamIntact ==
  /\ out \o buffer = [i \in 1..(acked + done) |-> i]
  /\ closing = "clean" /\ rerr = "closed" => Len(out) = acked

\* No wake-up is lost: a reader that sleeps has nothing to read, a writer that
\* sleeps has no room, and the pipe is open.
SleepersHaveReason ==
  /\ TypeOK
  /\ R \in Parked(rTrigger) => buffer = <<>> /\ ~closed
  /\ W \in Parked(wTrigger) => Len(buffer) = MaxBufferSize /\ ~closed

\* Data, a close or the end of the context ends a blocked Read, and a close or the
\* end of the context a blocked Write.
CallsReleased ==
  /\ (rpc = "wait" /\ (buffer # <<>> \/ closed \/ ctxDone)) ~> (rpc = "idle")
  /\ (wpc = "wait" /\ (closed \/ ctxDone)) ~> (wpc = "idle")
=============================================================================
