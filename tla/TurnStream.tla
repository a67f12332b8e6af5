----------------------------- MODULE TurnStream -----------------------------
(***************************************************************************)
(* What a turn's stream promises its consumer, whoever produces it: events *)
(* arrive one at a time, exactly one of them ends the turn, it is the last *)
(* one, and the stream closes after it and never before.                   *)
(***************************************************************************)
EXTENDS TurnEvents

VARIABLES sent,    \* every event put on the stream so far, in order
          closed   \* the stream is closed

streamVars == <<sent, closed>>

Init ==
  /\ sent = <<>>
  /\ closed = FALSE

Publish(e) ==
  /\ ~closed
  /\ ~HasTerminal(sent)
  /\ sent' = Append(sent, e)
  /\ UNCHANGED closed

Close ==
  /\ ~closed
  /\ HasTerminal(sent)
  /\ closed' = TRUE
  /\ UNCHANGED sent

Next == Close \/ \E e \in StreamEvents : Publish(e)

Spec == Init /\ [][Next]_streamVars
=============================================================================
