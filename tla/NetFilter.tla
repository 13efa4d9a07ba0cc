----------------------------- MODULE NetFilter -----------------------------
(***************************************************************************)
(* The isolation rules of ipam/nft_linux.go and the connection to the      *)
(* kernel they go through.                                                 *)
(*                                                                         *)
(* All goroutines share one nftables.Conn.  AddRule and DelRule only queue *)
(* a message; Flush sends every queued message, of whichever goroutine, as *)
(* one batch, which the kernel applies entirely or not at all, and clears  *)
(* the queue in both cases.  Flushing an empty queue succeeds.             *)
(*                                                                         *)
(* A rule that isolates a peer carries the peer's address as its id.  The  *)
(* kernel numbers rules with handles and never gives a handle twice; the   *)
(* model takes any handle that nobody still refers to, which no reader can *)
(* tell from a new one.                                                    *)
(***************************************************************************)
EXTENDS Kernel, Naturals, Sequences, FiniteSets

CONSTANTS Proc,     \* goroutines that call the address manager
          MaxRules  \* bound on the rules installed and queued at one time

ASSUME NetFilterAssumption == MaxRules \in Nat

VARIABLES queue,    \* messages queued in nftables.Conn
          rules,    \* the peer rules of the isolation chain, first to last
          target    \* handle of the rule each goroutine is about to delete

nfVars == <<queue, rules, target>>

NoHandle == 0

\* Every goroutine refers to at most one rule that may be gone already, in
\* target or in the queue.
Handles == 1..(MaxRules + 2 * Cardinality(Proc))

Messages == [op : {"add", "del", "init"}, ip : Nat, h : Nat]

NfInit ==
  /\ queue = <<>>
  /\ rules = <<>>
  /\ target = [p \in Proc |-> NoHandle]

Installed(rs) == {rs[i].h : i \in DOMAIN rs}

Referred(rs) ==
  Installed(rs) \cup {target[p] : p \in Proc} \cup {queue[i].h : i \in DOMAIN queue}

FreshHandle(rs) == CHOOSE h \in Handles : h \notin Referred(rs)

\* The rules without the one of handle h.
DeleteRule(rs, h) ==
  LET i == CHOOSE i \in DOMAIN rs : rs[i].h = h
  IN  [j \in 1..(Len(rs) - 1) |-> IF j < i THEN rs[j] ELSE rs[j + 1]]

\* The messages, and what the kernel does with one of a batch.
AddMessage(a) == [op |-> "add", ip |-> a, h |-> NoHandle]
DelMessage(h) == [op |-> "del", ip |-> 0, h |-> h]
InitMessage == [op |-> "init", ip |-> 0, h |-> NoHandle]

ApplyMessage(m, b) ==
  IF m.op = "add" THEN [b EXCEPT !.rules = Append(@, [h |-> FreshHandle(@), ip |-> m.ip])]
  ELSE IF m.op = "init" THEN [b EXCEPT !.rules = <<>>]
  ELSE IF m.h \in Installed(b.rules) THEN [b EXCEPT !.rules = DeleteRule(@, m.h)]
  ELSE [b EXCEPT !.ok = FALSE]

Batch ==
  LET b[i \in 0..Len(queue)] ==
        IF i = 0 THEN [ok |-> TRUE, rules |-> rules]
                 ELSE ApplyMessage(queue[i], b[i - 1])
  IN  b[Len(queue)]

\* Conn.Flush.  Only a batch that is really sent can fail.
Flush(ok) ==
  /\ queue' = <<>>
  /\ \/ ok /\ Batch.ok /\ rules' = Batch.rules
     \/ /\ ~ok /\ queue # <<>>
        /\ ~Batch.ok \/ "flush" \in faults
        /\ UNCHANGED rules

\* newIsolatePeerRule: AddRule, then Flush.
IsolatePeerQueue(a) ==
  /\ queue' = Append(queue, AddMessage(a))
  /\ UNCHANGED <<rules, target>>

IsolatePeerFlush(ok) == Flush(ok) /\ UNCHANGED target

\* findAndRemoveRule: list the rules and take the first with the peer's id ...
FindRule(p, a, found) ==
  /\ UNCHANGED <<queue, rules>>
  /\ \/ /\ found
        /\ \E i \in DOMAIN rules :
             /\ rules[i].ip = a
             /\ \A j \in 1..(i - 1) : rules[j].ip # a
             /\ target' = [target EXCEPT ![p] = rules[i].h]
     \/ /\ ~found
        /\ (\A i \in DOMAIN rules : rules[i].ip # a) \/ "list" \in faults
        /\ UNCHANGED target

\* ... queue its deletion by handle ...
RemoveRuleQueue(p) ==
  /\ queue' = Append(queue, DelMessage(target[p]))
  /\ target' = [target EXCEPT ![p] = NoHandle]
  /\ UNCHANGED rules

\* ... and flush, whatever the outcome.
RemoveRuleFlush == \E ok \in BOOLEAN : Flush(ok) /\ UNCHANGED target

\* init: recreate the tables without any peer rule.
NfReinitQueue ==
  /\ queue' = Append(queue, InitMessage)
  /\ UNCHANGED <<rules, target>>

Isolated(a) == \E i \in DOMAIN rules : rules[i].ip = a

NfTypeOK ==
  /\ queue \in Seq(Messages)
  /\ rules \in Seq([h : Handles, ip : Nat])
  /\ Cardinality(Installed(rules)) = Len(rules)
  /\ target \in [Proc -> Handles \cup {NoHandle}]
=============================================================================
