---------------------------- MODULE PriorityList ----------------------------
(***************************************************************************)
(* The slice of PriorityResolver (xdns/client/priority.go): its elements,  *)
(* which are pointers to entities, and its capacity.                       *)
(*                                                                         *)
(* add ranges over the slice as it was while it changes the slice.  As     *)
(* long as no append has to allocate, the elements it ranges over are the  *)
(* changed ones; afterwards they are those of the old array.               *)
(***************************************************************************)
EXTENDS Naturals, Sequences

\* append allocates for n elements, from capacity c.
Grown(c, n) == IF n <= c THEN c ELSE IF n > 2 * c THEN n ELSE 2 * c

Append1(s, e) == [seq |-> Append(s.seq, e), cap |-> Grown(s.cap, Len(s.seq) + 1)]

\* append(append(r[:idx], entity), r[idx:]...)
Doubled(s, i, e) ==
  [seq |-> [j \in 1 .. Len(s.seq) + 1 |->
              IF j < i THEN s.seq[j] ELSE IF j <= i + 1 THEN e ELSE s.seq[j - 1]],
   cap |-> Grown(s.cap, Len(s.seq) + 1)]

\* A round of the loop of add for priority p.  Of r, slice is the slice, old the
\* array that is ranged over once the slice has another (<<>> before that), and hit
\* the entity whose resolver was replaced, which ends the loop, or 0: the one that is
\* at this index of the slice by then.
AddRound(r, i, p, replace, prio) ==
  LET e == IF r.old = <<>> THEN r.slice.seq[i] ELSE r.old[i]
      d == Doubled(r.slice, i, e)
  IN  IF r.hit # 0 THEN r
      ELSE IF prio[e] = p /\ replace THEN [r EXCEPT !.hit = r.slice.seq[i]]
      ELSE IF prio[e] > p
      THEN [slice |-> d, hit |-> 0,
            old |-> IF r.old = <<>> /\ d.cap # r.slice.cap THEN r.slice.seq ELSE r.old]
      ELSE r

AddLoop(s, p, replace, prio) ==
  LET loop[i \in 0 .. Len(s.seq)] ==
        IF i = 0 THEN [slice |-> s, old |-> <<>>, hit |-> 0]
                 ELSE AddRound(loop[i - 1], i, p, replace, prio)
  IN  loop[Len(s.seq)]

\* add: the slice, and the entity that was replaced or 0 when new was appended.
add(s, p, new, replace, prio) ==
  LET r == AddLoop(s, p, replace, prio)
  IN  [slice |-> IF r.hit # 0 THEN r.slice ELSE Append1(r.slice, new), hit |-> r.hit]

\* The index of the first entity of priority p, or 0.
Find(s, p, prio) ==
  IF \E i \in 1 .. Len(s.seq) : prio[s.seq[i]] = p
  THEN CHOOSE i \in 1 .. Len(s.seq) : prio[s.seq[i]] = p /\ \A j \in 1 .. i - 1 : prio[s.seq[j]] # p
  ELSE 0

\* append(r[:idx], r[idx+1:]...)
Unset(s, i) ==
  [s EXCEPT !.seq = [j \in 1 .. Len(@) - 1 |-> IF j < i THEN @[j] ELSE @[j + 1]]]
=============================================================================
