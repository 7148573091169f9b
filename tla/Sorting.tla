------------------------------- MODULE Sorting -------------------------------
(* shell_sortr of splotch.c: the order in which pick_winner goes through the *)
(* activities, as a vector of places that leaves the activities alone.       *)
EXTENDS Integers, Sequences

\* itype is 1 for an ascending order and -1 for a descending one.
Wrong(x, y, itype) == IF itype = 1 THEN y < x ELSE y > x

\* One sweep with a gap swaps each pair that is the wrong way round, going up.
\* (Places count from 1 here.)
Sweep(reals, idx, gap, itype) ==
  LET after[i \in 0 .. Len(idx) - gap] ==
        IF i = 0 THEN [idx |-> idx, more |-> FALSE]
        ELSE LET p == after[i - 1]
                 here == p.idx[i]
                 there == p.idx[i + gap]
             IN  IF Wrong(reals[here], reals[there], itype)
                 THEN [idx |-> [p.idx EXCEPT ![i] = there, ![i + gap] = here],
                       more |-> TRUE]
                 ELSE p
  IN  after[Len(idx) - gap]

\* Sweeps until nothing is swapped any more, then with half the gap.
RECURSIVE Sweeps(_, _, _, _)
Sweeps(reals, idx, gap, itype) ==
  LET p == Sweep(reals, idx, gap, itype)
  IN  IF p.more THEN Sweeps(reals, p.idx, gap, itype)
      ELSE IF gap > 1 THEN Sweeps(reals, p.idx, gap \div 2, itype)
      ELSE p.idx

shell_sortr(reals, itype) ==
  LET start == [i \in 1 .. Len(reals) |-> i]
  IN  IF Len(reals) <= 1 THEN start
      ELSE Sweeps(reals, start, Len(reals) \div 2, itype)
-----------------------------------------------------------------------------
\* What a sort promises: every place once, in the order of its values.
Sorts(reals, itype) ==
  LET idx == shell_sortr(reals, itype)
  IN  /\ Len(idx) = Len(reals)
      /\ \A i \in DOMAIN reals : \E j \in DOMAIN idx : idx[j] = i
      /\ \A j \in 1 .. Len(idx) - 1 :
           itype * reals[idx[j]] <= itype * reals[idx[j + 1]]
=============================================================================
