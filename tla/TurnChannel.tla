----------------------------- MODULE TurnChannel ----------------------------
(***************************************************************************)
(* The stream surface of a turn: the buffered channel both bridges make    *)
(* ("ch := make(chan llmtypes.StreamEvent, 64)") and the consumer at its   *)
(* other end.  The channel's history is kept, with a cursor for what the   *)
(* consumer has taken, so that properties can speak of the whole turn.     *)
(***************************************************************************)
EXTENDS CliProcess

CONSTANTS
  ChanCap,    \* capacity of the channel (64 in the code)
  MayAbandon  \* the consumer may stop reading before the stream closes

ASSUME ChannelAssumption ==
  /\ ChanCap \in Nat \ {0}
  /\ MayAbandon \in BOOLEAN

VARIABLES
  sending,    \* the event the parser goroutine is blocked on in "ch <- ev"
  sent,       \* everything ever sent on the channel, in order
  received,   \* how much of it the consumer has taken
  abandoned   \* the consumer has stopped reading

chanVars == <<sent, received, abandoned>>

None == "none"

ChannelTypeOK ==
  /\ sending \in StreamEvents \union {None}
  /\ sent \in Seq(StreamEvents)
  /\ received \in 0..Len(sent)
  /\ abandoned \in BOOLEAN

ChannelInit == sending = None /\ sent = <<>> /\ received = 0 /\ abandoned = FALSE

\* "ch <- ev" proceeds once the channel has room, whatever the context says.
Deliver ==
  /\ Len(sent) - received < ChanCap
  /\ sent' = Append(sent, sending)
  /\ sending' = None
  /\ UNCHANGED <<received, abandoned>>

Receive ==
  /\ ~abandoned
  /\ received < Len(sent)
  /\ received' = received + 1
  /\ UNCHANGED <<sending, sent, abandoned>>

\* CompleteWithUsage returns at the first EventError it receives; any consumer may
\* stop ranging over the channel.
Abandon ==
  /\ MayAbandon
  /\ ~abandoned
  /\ received > 0
  /\ abandoned' = TRUE
  /\ UNCHANGED <<sending, sent, received>>

-----------------------------------------------------------------------------
(* What a consumer relies on, whichever bridge fills the channel.          *)

\* Whatever the adapter emits, a terminal of the bridge's own (guard, cancelled,
\* process exited, synthesised done) never follows another terminal: terminalSent
\* covers every path that could end the turn a second time.
BridgeTerminalIsFirst ==
  \A i, j \in 1..Len(sent) :
    i < j /\ sent[j] \in BridgeTerminals => sent[i] \notin Terminal

\* No silent drop: a success that follows tool calls without any text is reported
\* only for a cancelled turn, or after something else already ended it.
NoSilentDrop ==
  \A i \in 1..Len(sent) :
    /\ sent[i] \in Success
    /\ \E j \in 1..(i - 1) : sent[j] = "tool_use"
    => \/ cancelled
       \/ \E j \in 1..(i - 1) : sent[j] \in {"delta"} \union Terminal

\* The bridge decides that the turn ends with a success of its own making.
DecidesOnSuccess == sending # "end" /\ sending' = "end"

\* A success the bridge makes up itself means the CLI ended on its own with status
\* 0: when the bridge decides on it the process is gone with that status and the
\* context is not done, so nobody has told the CLI to stop.  A crash, and a kill that
\* the CLI answers by exiting with status 0, are never dressed up as a completed turn.
OwnSuccessIsReal ==
  [][DecidesOnSuccess => child = "exited" /\ exitOk /\ ~cancelled]_sending

\* The stream half of the contract, for any adapter: one terminal per turn.
OneTerminal == Len(Terminals(sent)) <= 1
=============================================================================
