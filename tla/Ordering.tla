------------------------------- MODULE Ordering -------------------------------
(***************************************************************************)
(* What Python's sort does: list.sort and sorted are stable, so equals keep *)
(* the order they had.  What is put in order is cut to its own length, so  *)
(* that TLC works it out once.                                             *)
(***************************************************************************)
EXTENDS Integers, Sequences, FiniteSets

\* The members of S one after another, given those that come before each.
InOrder(S, before) ==
  LET n == Cardinality(S)
  IN  SubSeq([k \in 1..n |-> CHOOSE i \in S : Cardinality(before[i]) = k - 1], 1, n)

\* The sequence ordered by `less`, equals in the order they had.
SortBy(seq, less(_, _)) ==
  LET first(i, j) == less(seq[i], seq[j]) \/ (i < j /\ ~less(seq[j], seq[i]))
      order == InOrder(DOMAIN seq, [i \in DOMAIN seq |-> {j \in (DOMAIN seq) \ {i} : first(j, i)}])
  IN  SubSeq([k \in 1..Len(seq) |-> seq[order[k]]], 1, Len(seq))
=============================================================================
