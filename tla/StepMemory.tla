----------------------------- MODULE StepMemory -----------------------------
(***************************************************************************)
(* opencode_final.go: an adapter's memory of the text of the step each     *)
(* session is in, from which the step that ends a turn takes the turn's    *)
(* final message.  Every line is recorded by both surfaces.                *)
(***************************************************************************)
EXTENDS Sequences, SequencesExt

VARIABLE steps              \* session -> its step's parts, in the order they arrived
StepInit == steps = [s \in {} |-> <<>>]

StepOf(s) == IF s \in DOMAIN steps THEN steps[s] ELSE <<>>
Remember(s, parts) == steps' = [x \in DOMAIN steps \union {s} |-> IF x = s THEN parts ELSE steps[x]]

\* Faulty variant: a step the session is already in goes on.
StartKeeps(s) == Remember(s, StepOf(s))
\* start
StepStarts(s) == Remember(s, <<>>)

\* add: a part is stored under its id, so a second time changes nothing.
AddPart(s, part) == Remember(s, IF Contains(StepOf(s), part) THEN StepOf(s) ELSE Append(StepOf(s), part))

\* final: the parts in order; reading does not consume them.
Final(s) == StepOf(s)
=============================================================================
