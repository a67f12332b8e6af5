---------------------------- MODULE EventPipeline ---------------------------
(***************************************************************************)
(* EventReactionPipeline (provider/event_pipeline.go): the decorator that  *)
(* shows every stream event of a provider to the scope guard, the progress *)
(* tracker and the cost monitor, and cuts the stream when one of them      *)
(* objects in "kill" mode.  One pipeline serves several concurrent calls,  *)
(* which share its monitors and its "active" flag, each under a lock of    *)
(* its own; a call's goroutine takes them one after the other.             *)
(*                                                                         *)
(* The wrapped provider's streams are taken to keep TurnStream's promise.  *)
(***************************************************************************)
EXTENDS CostMonitor, ProgressTracker, ScopeGuard, Totals, SequencesExt

CONSTANTS
  Streams,    \* concurrent calls of StreamChat
  Events,     \* what a provider may send
  MaxEvents,  \* bound: events of one stream before its terminal
  ChanCap,    \* capacity of a monitored channel (64; 1 in the fallback)
  Enabled,    \* monitors the configuration turns on
  Kills       \* monitors whose mode is "kill"

Kinds == {"delta", "tool_use", "usage", "info", "done", "error"}

IsEvent(e) ==
  /\ e.kind \in Kinds
  /\ e.metered \in BOOLEAN
  /\ e.in \in Nat
  /\ e.out \in Nat
  /\ Key(e) \in Keys

ASSUME PipelineAssumption ==
  /\ IsFiniteSet(Streams)
  /\ \A e \in Events : IsEvent(e)
  /\ MaxEvents \in Nat
  /\ ChanCap \in Nat \ {0}
  /\ Enabled \subseteq {"scope", "loop", "budget"}
  /\ Kills \subseteq {"scope", "loop", "budget"}

Ending(e) == e.kind \in {"done", "error"}

\* The pipeline's own events: the policy error and the fallback's.
Own(kind) ==
  [kind |-> kind, text |-> "", path |-> NoPath, metered |-> FALSE, in |-> 0, out |-> 0]

Policy == Own("policy")

\* What a consumer may be sent.
Visible == Events \union {Policy, Own("delta"), Own("done"), Own("error")}

VARIABLES
  supports,   \* the provider's SupportsStreamJSON capability
  active,     \* shared by every call
  pc,         \* where each call's goroutine is
  hand,       \* the event it is working on
  cancelled,  \* its context is done
  taken,      \* everything it received from the provider's stream
  shown,      \* everything it sent on the monitored stream
  backlog,    \* how much of that the consumer has not read
  late        \* ghost: events it forwarded after a policy error appeared

callVars == <<pc, hand, cancelled, taken, shown, backlog, late>>
vars == <<costVars, trackVars, supports, active, callVars>>

Labels == {"idle", "rejected", "select", "active", "loop", "budget",
           "terminate", "forward", "complete", "fallback", "closed"}

TypeOK ==
  /\ CostTypeOK
  /\ TrackTypeOK
  /\ supports \in BOOLEAN
  /\ active \in BOOLEAN
  /\ pc \in [Streams -> Labels]
  /\ hand \in [Streams -> Seq(Visible)]
  /\ cancelled \in [Streams -> BOOLEAN]
  /\ taken \in [Streams -> Seq(Events)]
  /\ shown \in [Streams -> Seq(Visible)]
  /\ backlog \in [Streams -> 0..ChanCap]
  /\ late \in [Streams -> Nat]

Init ==
  /\ CostInit
  /\ TrackInit
  /\ supports \in BOOLEAN
  /\ active = TRUE
  /\ pc = [s \in Streams |-> "idle"]
  /\ hand = [s \in Streams |-> <<>>]
  /\ cancelled = [s \in Streams |-> FALSE]
  /\ taken = [s \in Streams |-> <<>>]
  /\ shown = [s \in Streams |-> <<>>]
  /\ backlog = [s \in Streams |-> 0]
  /\ late = [s \in Streams |-> 0]

\* A policy error is on some stream, or its goroutine is about to send it.
Killed ==
  \E s \in Streams :
    \/ pc[s] = "forward" /\ hand[s] = <<Policy>>
    \/ \E i \in 1..Len(shown[s]) : shown[s][i] = Policy

Goto(s, label) == pc' = [pc EXCEPT ![s] = label]

-----------------------------------------------------------------------------
(* StreamChat.                                                             *)

\* A provider that streams is monitored; one that does not is completed instead,
\* unmonitored.
Open(s) ==
  /\ pc[s] = "idle"
  /\ Goto(s, IF supports THEN "select" ELSE "complete")
  /\ UNCHANGED <<costVars, trackVars, supports, active, hand, cancelled, taken, shown,
                 backlog, late>>

\* The provider's StreamChat fails.
OpenFails(s) ==
  /\ pc[s] = "idle"
  /\ supports
  /\ Goto(s, "rejected")
  /\ UNCHANGED <<costVars, trackVars, supports, active, hand, cancelled, taken, shown,
                 backlog, late>>

-----------------------------------------------------------------------------
(* monitorStream: select between the context and the provider's stream.    *)

rest == <<supports, cancelled, shown, backlog, late>>

Over(s) == taken[s] # <<>> /\ Ending(taken[s][Len(taken[s])])

\* Faulty variant: a plain range over the provider's stream.
ContextNotWatched(s) ==
  /\ pc[s] = "select"
  /\ cancelled[s] /\ Over(s)
  /\ Goto(s, "closed")
  /\ UNCHANGED <<costVars, trackVars, active, hand, taken, rest>>

\* The context is done: the stream closes with nothing more on it, whatever the
\* provider has ready.
ContextDone(s) ==
  /\ pc[s] = "select"
  /\ cancelled[s]
  /\ Goto(s, "closed")
  /\ UNCHANGED <<costVars, trackVars, active, hand, taken, rest>>

\* The provider's next event.
TakeEvent(s, e) ==
  /\ pc[s] = "select"
  /\ ~Over(s)
  /\ Len(taken[s]) < MaxEvents \/ Ending(e)
  /\ taken' = [taken EXCEPT ![s] = Append(@, e)]
  /\ hand' = [hand EXCEPT ![s] = <<e>>]
  /\ Goto(s, "active")
  /\ UNCHANGED <<costVars, trackVars, active, rest>>

\* The provider closes its stream, after its terminal.
ProviderCloses(s) ==
  /\ pc[s] = "select"
  /\ Over(s)
  /\ Goto(s, "closed")
  /\ UNCHANGED <<costVars, trackVars, active, hand, taken, rest>>

-----------------------------------------------------------------------------
(* shouldTerminate: the flag, then the monitors in order.                  *)

\* The stream is to be cut with a policy error instead of the event in hand.
Cut(s) ==
  /\ hand' = [hand EXCEPT ![s] = <<Policy>>]
  /\ Goto(s, "forward")

\* A monitor that is off finds nothing; one in "log" mode stops nothing.
Objects(monitor, finds) == monitor \in Enabled \cap Kills /\ finds

\* Faulty variant: the flag is not looked at.
ReadActiveNever(s) ==
  /\ pc[s] = "active"
  /\ Goto(s, IF Objects("scope", OutOfScope(hand[s][1])) THEN "terminate" ELSE "loop")
  /\ UNCHANGED <<costVars, trackVars, active, hand, taken, rest>>

\* The flag is read once per event, before any monitor; the scope guard has no state.
ReadActive(s) ==
  /\ pc[s] = "active"
  /\ IF active
     THEN /\ Goto(s, IF Objects("scope", OutOfScope(hand[s][1])) THEN "terminate" ELSE "loop")
          /\ UNCHANGED hand
     ELSE Cut(s)
  /\ UNCHANGED <<costVars, trackVars, active, taken, rest>>

CheckProgress(s) ==
  /\ pc[s] = "loop"
  /\ Goto(s, IF Objects("loop", Looping(hand[s][1])) THEN "terminate" ELSE "budget")
  /\ IF "loop" \in Enabled THEN Look(hand[s][1]) ELSE UNCHANGED trackVars
  /\ UNCHANGED <<costVars, active, hand, taken, rest>>

\* Faulty variant: each event is compared with the budget by itself.
CheckBudgetAlone(s) ==
  /\ pc[s] = "budget"
  /\ Goto(s, IF Objects("budget", OverspendsAlone(hand[s][1])) THEN "terminate" ELSE "forward")
  /\ IF "budget" \in Enabled THEN Count(hand[s][1]) ELSE UNCHANGED costVars
  /\ UNCHANGED <<trackVars, active, hand, taken, rest>>

CheckBudget(s) ==
  /\ pc[s] = "budget"
  /\ Goto(s, IF Objects("budget", Overspends(hand[s][1])) THEN "terminate" ELSE "forward")
  /\ IF "budget" \in Enabled THEN Count(hand[s][1]) ELSE UNCHANGED costVars
  /\ UNCHANGED <<trackVars, active, hand, taken, rest>>

\* Faulty variant: the stream is closed without the policy error.
TerminateSilently(s) ==
  /\ pc[s] = "terminate"
  /\ active' = FALSE
  /\ Goto(s, "closed")
  /\ UNCHANGED <<costVars, trackVars, hand, taken, rest>>

\* terminate: from here on no call of the pipeline gets anything through, ever.
Terminate(s) ==
  /\ pc[s] = "terminate"
  /\ active' = FALSE
  /\ Cut(s)
  /\ UNCHANGED <<costVars, trackVars, taken, rest>>

-----------------------------------------------------------------------------
(* Sending, which does not watch the context.                              *)

Put(s, e) ==
  /\ backlog[s] < ChanCap
  /\ shown' = [shown EXCEPT ![s] = Append(@, e)]
  /\ backlog' = [backlog EXCEPT ![s] = @ + 1]

\* Faulty variant: the goroutine goes on after the policy error.
ForwardAndGoOn(s) ==
  /\ pc[s] = "forward"
  /\ Put(s, hand[s][1])
  /\ hand' = [hand EXCEPT ![s] = <<>>]
  /\ Goto(s, "select")
  /\ late' = [late EXCEPT ![s] = IF Killed /\ hand[s] # <<Policy>> THEN @ + 1 ELSE @]
  /\ UNCHANGED <<costVars, trackVars, supports, active, cancelled, taken>>

\* The event goes on to the consumer; after a policy error the stream is closed and
\* what else the provider sends is never received.
Forward(s) ==
  /\ pc[s] = "forward"
  /\ Put(s, hand[s][1])
  /\ hand' = [hand EXCEPT ![s] = <<>>]
  /\ Goto(s, IF hand[s] = <<Policy>> THEN "closed" ELSE "select")
  /\ late' = [late EXCEPT ![s] = IF Killed /\ hand[s] # <<Policy>> THEN @ + 1 ELSE @]
  /\ UNCHANGED <<costVars, trackVars, supports, active, cancelled, taken>>

-----------------------------------------------------------------------------
(* fallbackToNonStreaming.                                                 *)

\* The provider's Complete returns a text or an error.
CompleteReturns(s) ==
  /\ pc[s] = "complete"
  /\ \E reply \in {<<Own("delta"), Own("done")>>, <<Own("error")>>} :
       hand' = [hand EXCEPT ![s] = reply]
  /\ Goto(s, "fallback")
  /\ UNCHANGED <<costVars, trackVars, active, taken, rest>>

FallbackSends(s) ==
  /\ pc[s] = "fallback"
  /\ hand[s] # <<>>
  /\ Put(s, hand[s][1])
  /\ hand' = [hand EXCEPT ![s] = Tail(@)]
  /\ UNCHANGED <<costVars, trackVars, supports, active, pc, cancelled, taken, late>>

FallbackCloses(s) ==
  /\ pc[s] = "fallback"
  /\ hand[s] = <<>>
  /\ Goto(s, "closed")
  /\ UNCHANGED <<costVars, trackVars, active, hand, taken, rest>>

-----------------------------------------------------------------------------
(* The callers.                                                            *)

Read(s) ==
  /\ backlog[s] > 0
  /\ backlog' = [backlog EXCEPT ![s] = @ - 1]
  /\ UNCHANGED <<costVars, trackVars, supports, active, pc, hand, cancelled, taken,
                 shown, late>>

Cancel(s) ==
  /\ ~cancelled[s]
  /\ cancelled' = [cancelled EXCEPT ![s] = TRUE]
  /\ UNCHANGED <<costVars, trackVars, supports, active, pc, hand, taken, shown,
                 backlog, late>>

Elapse ==
  /\ TimePasses
  /\ UNCHANGED <<costVars, supports, active, callVars>>

Goroutine(s) ==
  \/ ContextDone(s) \/ ProviderCloses(s)
  \/ ReadActive(s) \/ CheckProgress(s) \/ CheckBudget(s)
  \/ Terminate(s) \/ Forward(s)
  \/ CompleteReturns(s) \/ FallbackSends(s) \/ FallbackCloses(s)

Next ==
  \/ \E s \in Streams :
       \/ Open(s) \/ OpenFails(s)
       \/ \E e \in Events : TakeEvent(s, e)
       \/ Goroutine(s)
       \/ Read(s) \/ Cancel(s)
  \/ Elapse

Spec == Init /\ [][Next]_vars

(***************************************************************************)
(* Fairness: a call's goroutine runs, its consumer reads, and Complete     *)
(* returns.  A provider's stream may stay silent for ever.                 *)
(***************************************************************************)
FairSpec == Spec /\ \A s \in Streams : WF_vars(Goroutine(s)) /\ WF_vars(Read(s))

-----------------------------------------------------------------------------
(* Properties.                                                             *)

\* The decorator adds nothing and loses nothing but what it says: a monitored stream
\* is what the provider sent, in order, cut at most once and then by a policy error
\* in place of the event that was objected to; nothing it received is kept back when
\* it closes, cancelled or not.
OnlyCuts ==
  supports =>
    \A s \in Streams :
      LET n == Len(shown[s])
      IN  /\ \A i \in 1..n :
               \/ i <= Len(taken[s]) /\ shown[s][i] = taken[s][i]
               \/ i = n /\ shown[s][i] = Policy /\ pc[s] = "closed"
          /\ pc[s] = "closed" => n = Len(taken[s])

\* A stream that closes without a terminal was cancelled by its caller.
ClosedIsExplained ==
  \A s \in Streams :
    pc[s] = "closed" /\ ~cancelled[s] =>
      /\ shown[s] # <<>>
      /\ shown[s][Len(shown[s])].kind \in {"done", "error", "policy"}

\* Once a policy error is on its way to one caller, every other call gets at most one
\* more event through: the one it had already shown the flag.
KillReachesEveryCall == \A s \in Streams : late[s] <= 1

\* What a list of events weighs.
Weigh(list, weight) == Total([i \in 1..Len(list) |-> weight[list[i]]])

\* A number of each call, over all calls.
OverCalls(n) == Total([i \in 1..Cardinality(Streams) |-> n[SetToSeq(Streams)[i]]])

\* What the events that reached callers weigh, whichever call they belong to.
Reached(weight) == OverCalls([s \in Streams |-> Weigh(shown[s], weight)])

TokensIn == [e \in Visible |-> IF Counted(e) THEN e.in ELSE 0]

TokensOut == [e \in Visible |-> IF Counted(e) THEN e.out ELSE 0]

\* With the cost monitor in "kill" mode, the usage of all events that reached callers
\* stays within both budgets.
BudgetsHold ==
  "budget" \in Enabled \cap Kills =>
    LET in == Reached(TokensIn)
        out == Reached(TokensOut)
    IN  /\ TokenBudget > 0 => in + out <= TokenBudget
        /\ CostBudget > 0 => Cost(in, out) <= CostBudget

\* Events the tracker takes for the same as e.
SameAs(e) == [v \in Visible |-> IF Key(v) = Key(e) THEN 1 ELSE 0]

\* With the progress tracker in "kill" mode, and while nothing is old enough to be
\* forgotten, all callers together see an event no more often than its threshold
\* allows (and the first time in any case).
LoopsAreCut ==
  supports /\ "loop" \in Enabled \cap Kills /\ clock < Window =>
    \A e \in Events :
      Tracked(e) => Reached(SameAs(e)) <= 1 \/ Reached(SameAs(e)) <= Threshold(e)

\* A call whose context is done, or whose provider has ended its turn, is closed: no
\* monitor and no other call's termination can hold it up.
CallsEnd ==
  \A s \in Streams :
    (pc[s] \notin {"idle", "rejected"} /\ (cancelled[s] \/ Over(s))) ~> pc[s] = "closed"
=============================================================================
