----------------------------- MODULE TurnEvents -----------------------------
(***************************************************************************)
(* The vocabulary of one CLI turn.                                         *)
(*                                                                         *)
(* A bridge publishes a turn on two surfaces: the stream (the channel of   *)
(* llmtypes.StreamEvent that StreamChat returns) and, when the caller sets *)
(* one, the typed callback (provider/events).  An event is represented by  *)
(* its kind.  Kinds no rule of the bridges tells apart (usage, session id, *)
(* thinking, tool result, sub-agent spawn, permission denial) are "info".  *)
(***************************************************************************)
EXTENDS Selection

\* What an adapter's parser may return for one line of output.
AdapterEvents == {"delta", "tool_use", "info", "done", "error"}

\* Terminals the bridge makes itself.  "guard", "cancelled" and "exited" are
\* EventError with the bridge's own message, "end" is the synthesised EventDone.
BridgeTerminals == {"guard", "cancelled", "exited", "end"}

StreamEvents == AdapterEvents \union BridgeTerminals

\* llmtypes.IsTurnComplete: EventDone and EventError end a turn.
Terminal == {"done", "error"} \union BridgeTerminals

Success == {"done", "end"}

TypedEvents == StreamEvents \union {"stderr", "heartbeat"}

HasTerminal(s) == \E i \in 1..Len(s) : s[i] \in Terminal

Terminals(s) == Select(s, Terminal)

(***************************************************************************)
(* One line of CLI output, as the bridge's parser goroutine meets it:      *)
(* form "event" is a line ParseLine accepts, with the events ParseLine     *)
(* (stream) and ParseLineEvents (typed, <<>> for nil) return for it;       *)
(* "malformed" is a line ParseLine rejects; "overlong" is a line that does *)
(* not fit the scanner's 1 MiB buffer.                                     *)
(***************************************************************************)
LineForms == {"event", "malformed", "overlong"}

IsLine(l) ==
  /\ l.form \in LineForms
  /\ l.stream \in Seq(AdapterEvents)
  /\ l.typed \in Seq(AdapterEvents)

EventLine(stream, typed) == [form |-> "event", stream |-> stream, typed |-> typed]
MalformedLine == [form |-> "malformed", stream |-> <<>>, typed |-> <<>>]
OverlongLine == [form |-> "overlong", stream |-> <<>>, typed |-> <<>>]

\* The line ends the turn.
Ends(l) == HasTerminal(l.stream)

\* The line carries nothing for either surface.
Quiet(l) == l.stream = <<>> /\ l.typed = <<>>

\* What the typed surface makes of a line: the adapter's own typed events or,
\* when it has none, translateStreamEvents of the stream events, which keeps
\* each event's kind (and drops only events that carry no payload).
TypedOf(l) == IF l.typed = <<>> THEN l.stream ELSE l.typed
=============================================================================
