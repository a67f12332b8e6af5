------------------------------- MODULE Totals --------------------------------
(***************************************************************************)
(* The total of a sequence of natural numbers.                             *)
(***************************************************************************)
EXTENDS Naturals, Sequences

\* A recursive function, so that it can be reasoned about: sum[i] is the total of the
\* first i elements.
Total(q) ==
  LET sum[i \in 0..Len(q)] == IF i = 0 THEN 0 ELSE sum[i - 1] + q[i]
  IN  sum[Len(q)]
=============================================================================
