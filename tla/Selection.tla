----------------------------- MODULE Selection ------------------------------
(***************************************************************************)
(* The part of a sequence that lies in a set, in order.                    *)
(***************************************************************************)
EXTENDS Naturals, Sequences

\* SelectSeq with the test given as a set, written as a recursive function so that
\* it can be reasoned about: selected[i] is what the first i elements leave.
Select(s, S) ==
  LET selected[i \in 0..Len(s)] ==
        IF i = 0 THEN <<>>
        ELSE IF s[i] \in S THEN Append(selected[i - 1], s[i])
        ELSE selected[i - 1]
  IN  selected[Len(s)]
=============================================================================
