-------------------------- MODULE MCEventPipeline ---------------------------
(* Instances of EventPipeline for TLC.                                     *)
EXTENDS EventPipeline

Event(kind, text) ==
  [kind |-> kind, text |-> text, path |-> NoPath, metered |-> FALSE, in |-> 0, out |-> 0]

Metered(kind, in, out) ==
  [Event(kind, "") EXCEPT !.metered = TRUE, !.in = in, !.out = out]

\* A text that may repeat, one the scope guard objects to, usage that is dear in
\* dollars and an ending that is dear in tokens: two endings exceed the token budget
\* of 3 alone, usage and an ending the dollar budget of 6 alone.
MCEvents ==
  {Event("delta", "hello"), Event("delta", "/etc/"), Metered("usage", 0, 1),
   Metered("done", 2, 0)}

MCKeys == {Key(e) : e \in MCEvents}
=============================================================================
