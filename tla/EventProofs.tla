---------------------------- MODULE EventProofs -----------------------------
(***************************************************************************)
(* Theorems about what is made of a turn's events.  About EventPipeline,   *)
(* for any number of concurrent calls, any events and any monitors.  About *)
(* AdapterMemory: neither surface is ever charged more for a session than  *)
(* its turns cost, and a session the ledger has kept is charged exactly    *)
(* that, for any number of processes and sessions, any ledger size and any *)
(* order in which the lines of concurrent turns are parsed.                *)
(***************************************************************************)
EXTENDS EventPipeline, AdapterMemory, DataLemmas, FiniteSetTheorems

-----------------------------------------------------------------------------
(* EventPipeline. *)

Checking == {"active", "loop", "budget", "terminate"}

Monitored == {"select", "forward"} \union Checking

\* What a call's goroutine holds: the provider's event while the monitors look at it,
\* that event or the policy error when it sends, a reply in the fallback.
HandInv(s) ==
  /\ pc[s] \in Checking => \E e \in Events : hand[s] = <<e>>
  /\ pc[s] = "forward" => \E e \in Events \union {Policy} : hand[s] = <<e>>
  /\ pc[s] \in Monitored => supports
  /\ pc[s] \in {"complete", "fallback"} => ~supports

\* What a monitored stream shows of what the provider sent.
CutInv(s) ==
  supports =>
    /\ \A i \in 1..Len(shown[s]) :
         \/ i <= Len(taken[s]) /\ shown[s][i] = taken[s][i]
         \/ i = Len(shown[s]) /\ shown[s][i] = Policy /\ pc[s] = "closed"
    /\ pc[s] \in {"idle", "select", "closed"} => Len(shown[s]) = Len(taken[s])
    /\ pc[s] \in Checking \union {"forward"} =>
         /\ Len(taken[s]) = Len(shown[s]) + 1
         /\ hand[s] # <<Policy>> => hand[s][1] = taken[s][Len(taken[s])]

LastKind(s) == shown[s][Len(shown[s])].kind

\* How a stream comes to be closed, and what the fallback has left to send.
ExplainInv(s) ==
  /\ pc[s] = "fallback" =>
       \/ hand[s] = <<>> /\ shown[s] # <<>> /\ LastKind(s) \in {"done", "error"}
       \/ hand[s] = <<Own("delta"), Own("done")>>
       \/ hand[s] = <<Own("done")>>
       \/ hand[s] = <<Own("error")>>
  /\ pc[s] = "closed" /\ ~cancelled[s] =>
       shown[s] # <<>> /\ LastKind(s) \in {"done", "error", "policy"}

KilledBy(s) ==
  \/ pc[s] = "forward" /\ hand[s] = <<Policy>>
  \/ \E i \in 1..Len(shown[s]) : shown[s][i] = Policy

\* A kill leaves the flag down for ever, and a call that has let an event through
\* since then has yet to read the flag again, or is being cut.
KillInv(s) ==
  /\ KilledBy(s) => ~active
  /\ \/ late[s] = 0
     \/ /\ late[s] = 1
        /\ ~active
        /\ \/ pc[s] \in {"select", "active", "closed"}
           \/ pc[s] = "forward" /\ hand[s] = <<Policy>>

CallInv(s) == HandInv(s) /\ CutInv(s) /\ ExplainInv(s) /\ KillInv(s)

PipelineInv == TypeOK /\ \A s \in Streams : CallInv(s)

-----------------------------------------------------------------------------
(* The pipeline's own events are none of the provider's.                   *)

LEMMA OwnEvents ==
  /\ Policy \notin Events
  /\ Policy.kind = "policy"
  /\ \A k \in {"delta", "done", "error"} : Own(k) \in Visible /\ Own(k) # Policy /\ Own(k).kind = k
  /\ Events \subseteq Visible
  /\ Policy \in Visible
<1>1. \A k : Own(k).kind = k
  BY DEF Own
<1>2. Policy.kind = "policy"
  BY <1>1 DEF Policy
<1>3. \A e \in Events : e.kind # "policy"
  BY PipelineAssumption DEF IsEvent, Kinds
<1> QED
  BY <1>1, <1>2, <1>3 DEF Visible

\* One more event on a sequence: what it has, and where.
LEMMA OneMore ==
  ASSUME NEW S, NEW q \in Seq(S), NEW e \in S
  PROVE  /\ Append(q, e) \in Seq(S)
         /\ Len(Append(q, e)) = Len(q) + 1
         /\ Append(q, e) # <<>>
         /\ Append(q, e)[Len(q) + 1] = e
         /\ \A i \in 1..Len(q) : Append(q, e)[i] = q[i]
         /\ Len(q) \in Nat
  BY AppendProperties, LenProperties, EmptySeq

-----------------------------------------------------------------------------
(* Type correctness.                                                       *)

\* The call's part of the state when only its program counter moves.
LEMMA GotoTypes ==
  ASSUME TypeOK, NEW s \in Streams, NEW label \in Labels, Goto(s, label)
  PROVE  pc' \in [Streams -> Labels]
  BY DEF TypeOK, Goto

\* What the monitors keep is well typed after any event of the provider.
LEMMA MonitorTypes ==
  ASSUME TypeOK, NEW e \in Events
  PROVE  /\ Count(e) => CostTypeOK'
         /\ Look(e) => TrackTypeOK'
<1>1. ASSUME Count(e) PROVE CostTypeOK'
  BY <1>1, PipelineAssumption DEF Count, CostTypeOK, TypeOK, IsEvent, costVars
<1>2. ASSUME Look(e) PROVE TrackTypeOK'
  <2>1. Key(e) \in Keys
    BY PipelineAssumption DEF IsEvent
  <2>2. NoRecord \in [count : Nat, stamp : 0..MaxTime]
    BY TrackerAssumption DEF NoRecord
  <2>3. Cleaned \in [Keys -> [count : Nat, stamp : 0..MaxTime]]
    BY <2>2 DEF Cleaned, TypeOK, TrackTypeOK
  <2>4. history' \in [Keys -> [count : Nat, stamp : 0..MaxTime]]
    <3>1. clock \in 0..MaxTime
      BY DEF TypeOK, TrackTypeOK
    <3>2. Record(Cleaned[Key(e)]) \in [count : Nat, stamp : 0..MaxTime]
      BY <2>1, <2>3, <3>1 DEF Record
    <3> QED
      BY <1>2, <2>3, <3>2 DEF Look
  <2>5. looked' \in Seq([key : Keys, at : 0..MaxTime])
    <3>1. [key |-> Key(e), at |-> clock] \in [key : Keys, at : 0..MaxTime]
      BY <2>1 DEF TypeOK, TrackTypeOK
    <3>2. looked \in Seq([key : Keys, at : 0..MaxTime])
      BY DEF TypeOK, TrackTypeOK
    <3>3. Append(looked, [key |-> Key(e), at |-> clock]) \in Seq([key : Keys, at : 0..MaxTime])
      BY <3>1, <3>2, AppendProperties
    <3> QED
      BY <1>2, <3>2, <3>3 DEF Look
  <2> QED
    BY <1>2, <2>4, <2>5 DEF Look, TypeOK, TrackTypeOK
<1> QED
  BY <1>1, <1>2

\* Sending keeps the stream and its backlog well typed.
LEMMA PutTypes ==
  ASSUME TypeOK, NEW s \in Streams, NEW e \in Visible, Put(s, e)
  PROVE  /\ shown' \in [Streams -> Seq(Visible)]
         /\ backlog' \in [Streams -> 0..ChanCap]
<1>1. shown[s] \in Seq(Visible)
  BY DEF TypeOK
<1>2. Append(shown[s], e) \in Seq(Visible)
  BY <1>1, AppendProperties
<1> QED
  BY <1>2, PipelineAssumption DEF TypeOK, Put

-----------------------------------------------------------------------------
(* One step of one call.                                                   *)

\* A call that another call's step, or the clock, leaves alone.
LEMMA OtherCalls ==
  ASSUME PipelineInv, NEW t \in Streams,
         supports' = supports, active' => active,
         pc'[t] = pc[t], hand'[t] = hand[t], cancelled'[t] = cancelled[t],
         taken'[t] = taken[t], shown'[t] = shown[t], late'[t] = late[t]
  PROVE  CallInv(t)'
<1>1. HandInv(t) /\ CutInv(t) /\ ExplainInv(t) /\ KillInv(t) /\ active \in BOOLEAN
  BY DEF PipelineInv, CallInv, TypeOK
<1>2. HandInv(t)'
  BY <1>1 DEF HandInv
<1>3. CutInv(t)'
  BY <1>1 DEF CutInv
<1>4. ExplainInv(t)'
  BY <1>1 DEF ExplainInv, LastKind
<1>5. KillInv(t)'
  BY <1>1 DEF KillInv, KilledBy
<1> QED
  BY <1>2, <1>3, <1>4, <1>5 DEF CallInv

\* What the invariant says of one call, with the types of its variables.
CallFactsOf(s) ==
  /\ HandInv(s) /\ CutInv(s) /\ ExplainInv(s) /\ KillInv(s)
  /\ active \in BOOLEAN
  /\ pc \in [Streams -> Labels] /\ pc[s] \in Labels
  /\ hand \in [Streams -> Seq(Visible)] /\ hand[s] \in Seq(Visible)
  /\ taken \in [Streams -> Seq(Events)] /\ taken[s] \in Seq(Events)
  /\ shown \in [Streams -> Seq(Visible)] /\ shown[s] \in Seq(Visible)
  /\ cancelled \in [Streams -> BOOLEAN]
  /\ late \in [Streams -> Nat]
  /\ Len(taken[s]) \in Nat /\ Len(shown[s]) \in Nat

LEMMA CallFacts ==
  ASSUME PipelineInv, NEW s \in Streams
  PROVE  CallFactsOf(s)
  BY LenProperties DEF PipelineInv, CallInv, TypeOK, CallFactsOf

\* Steps of the monitors, and others that only move the call's program counter
\* between points where the invariant asks for the same.
LEMMA MonitorSteps ==
  ASSUME PipelineInv, NEW s \in Streams,
         CheckProgress(s) \/ CheckBudget(s) \/ OpenFails(s) \/ Open(s)
  PROVE  CallInv(s)'
<1>f. CallFactsOf(s)
  BY CallFacts
<1>0. /\ supports' = supports /\ active' = active /\ hand' = hand /\ cancelled' = cancelled
      /\ taken' = taken /\ shown' = shown /\ late' = late
  BY <1>f DEF CallFactsOf, CheckProgress, CheckBudget, OpenFails, Open, rest
<1>1. \/ pc[s] \in {"loop", "budget"} /\ pc'[s] \in {"budget", "terminate", "forward"}
      \/ pc[s] = "idle" /\ pc'[s] = "select" /\ supports
      \/ pc[s] = "idle" /\ pc'[s] = "complete" /\ ~supports
      \/ pc[s] = "idle" /\ pc'[s] = "rejected"
  BY <1>f DEF CallFactsOf, CheckProgress, CheckBudget, OpenFails, Open, Goto
<1>2. HandInv(s)'
  BY <1>f, <1>0, <1>1 DEF CallFactsOf, HandInv, Checking, Monitored
<1>3. CutInv(s)'
  BY <1>f, <1>0, <1>1 DEF CallFactsOf, CutInv, Checking
<1>4. ExplainInv(s)'
  BY <1>f, <1>0, <1>1 DEF CallFactsOf, ExplainInv, LastKind
<1>5. KillInv(s)'
  <2>1. pc'[s] = "forward" => hand[s] # <<Policy>>
    <3>1. pc'[s] = "forward" => \E e \in Events : hand[s] = <<e>>
      BY <1>f, <1>1 DEF CallFactsOf, HandInv, Checking
    <3> QED
      BY <3>1, OwnEvents
  <2>2. KilledBy(s)' => KilledBy(s)
    BY <1>f, <1>0, <2>1 DEF CallFactsOf, KilledBy
  <2> QED
    BY <1>f, <1>0, <1>1, <2>2 DEF CallFactsOf, KillInv
<1> QED
  BY <1>2, <1>3, <1>4, <1>5 DEF CallInv

LEMMA TakeEventKeeps ==
  ASSUME PipelineInv, NEW s \in Streams, NEW e \in Events, TakeEvent(s, e)
  PROVE  CallInv(s)'
<1>f. CallFactsOf(s)
  BY CallFacts
<1>0. /\ supports' = supports /\ active' = active /\ cancelled' = cancelled
      /\ shown' = shown /\ late' = late
      /\ pc[s] = "select" /\ pc'[s] = "active"
      /\ hand'[s] = <<e>> /\ taken'[s] = Append(taken[s], e)
  BY <1>f DEF CallFactsOf, TakeEvent, Goto, rest
<1>1. HandInv(s)'
  BY <1>f, <1>0 DEF CallFactsOf, HandInv, Checking, Monitored
<1>2. CutInv(s)'
  <2>1. /\ Len(taken[s]) \in Nat /\ Len(taken'[s]) = Len(taken[s]) + 1
        /\ taken'[s][Len(taken[s]) + 1] = e
        /\ \A i \in 1..Len(taken[s]) : taken'[s][i] = taken[s][i]
    BY <1>f, <1>0, OneMore DEF CallFactsOf
  <2>2. supports => /\ Len(shown[s]) = Len(taken[s])
                    /\ \A i \in 1..Len(shown[s]) : i <= Len(taken[s]) /\ shown[s][i] = taken[s][i]
    BY <1>f, <1>0 DEF CallFactsOf, CutInv
  <2>3. supports => /\ Len(taken'[s]) = Len(shown[s]) + 1
                    /\ \A i \in 1..Len(shown[s]) : i <= Len(taken'[s]) /\ shown[s][i] = taken'[s][i]
                    /\ hand'[s][1] = taken'[s][Len(taken'[s])]
    <3>1. hand'[s][1] = e
      BY <1>0
    <3>2. supports => Len(taken'[s]) = Len(shown[s]) + 1
      BY <2>1, <2>2
    <3>3. taken'[s][Len(taken'[s])] = e
      BY <2>1
    <3>4. supports => \A i \in 1..Len(shown[s]) : i <= Len(taken'[s]) /\ shown[s][i] = taken'[s][i]
      BY <2>1, <2>2
    <3> QED
      BY <3>1, <3>2, <3>3, <3>4
  <2> QED
    BY <1>0, <2>3, SMTT(60) DEF CutInv, Checking
<1>3. ExplainInv(s)'
  BY <1>f, <1>0 DEF CallFactsOf, ExplainInv, LastKind
<1>4. KillInv(s)'
  BY <1>f, <1>0 DEF CallFactsOf, KillInv, KilledBy
<1> QED
  BY <1>1, <1>2, <1>3, <1>4 DEF CallInv

LEMMA CloseKeeps ==
  ASSUME PipelineInv, NEW s \in Streams, ContextDone(s) \/ ProviderCloses(s)
  PROVE  CallInv(s)'
<1>f. CallFactsOf(s)
  BY CallFacts
<1>0. /\ supports' = supports /\ active' = active /\ hand' = hand /\ cancelled' = cancelled
      /\ taken' = taken /\ shown' = shown /\ late' = late
      /\ pc[s] = "select" /\ pc'[s] = "closed"
      /\ cancelled[s] \/ Over(s)
  BY <1>f DEF CallFactsOf, ContextDone, ProviderCloses, Goto, rest
<1>1. HandInv(s)'
  BY <1>f, <1>0 DEF CallFactsOf, HandInv, Checking, Monitored
<1>2. CutInv(s)'
  BY <1>f, <1>0 DEF CallFactsOf, CutInv, Checking
<1>3. ExplainInv(s)'
  <2>1. CASE cancelled[s]
    BY <1>f, <2>1, <1>0 DEF CallFactsOf, ExplainInv
  <2>2. CASE Over(s)
    <3>1. supports /\ Len(shown[s]) = Len(taken[s])
      BY <1>f, <1>0 DEF CallFactsOf, HandInv, CutInv, Monitored
    <3>2. Len(shown[s]) # 0
      BY <1>f, <2>2, <3>1, EmptySeq DEF CallFactsOf, Over
    <3>3. shown[s][Len(shown[s])] = taken[s][Len(taken[s])]
      <4>1. Len(shown[s]) \in 1..Len(shown[s])
        BY <3>2
      <4> QED
        BY <1>f, <1>0, <3>1, <4>1 DEF CallFactsOf, CutInv
    <3>4. LastKind(s) \in {"done", "error"} /\ shown[s] # <<>>
      BY <1>f, <2>2, <3>2, <3>3, EmptySeq DEF CallFactsOf, Over, Ending, LastKind
    <3> QED
      BY <1>f, <1>0, <3>4 DEF CallFactsOf, ExplainInv, LastKind
  <2> QED
    BY <1>0, <2>1, <2>2
<1>4. KillInv(s)'
  BY <1>f, <1>0 DEF CallFactsOf, KillInv, KilledBy
<1> QED
  BY <1>1, <1>2, <1>3, <1>4 DEF CallInv

\* Reading the flag, and taking it down.
LEMMA FlagSteps ==
  ASSUME PipelineInv, NEW s \in Streams, ReadActive(s) \/ Terminate(s)
  PROVE  CallInv(s)'
<1>f. CallFactsOf(s)
  BY CallFacts
<1>0. /\ supports' = supports /\ cancelled' = cancelled
      /\ taken' = taken /\ shown' = shown /\ late' = late
      /\ pc[s] \in {"active", "terminate"}
      /\ \/ active /\ active' /\ hand' = hand /\ pc'[s] \in {"loop", "terminate"}
         \/ ~active' /\ hand'[s] = <<Policy>> /\ pc'[s] = "forward"
  BY <1>f DEF CallFactsOf, ReadActive, Terminate, Cut, Goto, rest
<1>1. HandInv(s)'
  BY <1>f, <1>0 DEF CallFactsOf, HandInv, Checking, Monitored
<1>2. CutInv(s)'
  BY <1>f, <1>0 DEF CallFactsOf, CutInv, Checking
<1>3. ExplainInv(s)'
  BY <1>f, <1>0 DEF CallFactsOf, ExplainInv, LastKind
<1>4. KillInv(s)'
  BY <1>f, <1>0 DEF CallFactsOf, KillInv, KilledBy
<1> QED
  BY <1>1, <1>2, <1>3, <1>4 DEF CallInv

LEMMA ForwardKeeps ==
  ASSUME PipelineInv, NEW s \in Streams, Forward(s)
  PROVE  CallInv(s)'
<1>f. CallFactsOf(s)
  BY CallFacts
<1>1. PICK e \in Events \union {Policy} : hand[s] = <<e>>
  BY <1>f DEF CallFactsOf, Forward, HandInv
<1>2. hand[s][1] = e /\ (hand[s] = <<Policy>> <=> e = Policy) /\ e \in Visible
  BY <1>1, OwnEvents
<1>0. /\ supports' = supports /\ active' = active /\ cancelled' = cancelled /\ taken' = taken
      /\ pc[s] = "forward" /\ pc'[s] = IF e = Policy THEN "closed" ELSE "select"
      /\ shown'[s] = Append(shown[s], e)
      /\ late'[s] = IF Killed /\ e # Policy THEN late[s] + 1 ELSE late[s]
  BY <1>f, <1>2 DEF CallFactsOf, Forward, Put, Goto
<1>3. /\ Len(shown'[s]) = Len(shown[s]) + 1
      /\ shown'[s] # <<>>
      /\ shown'[s][Len(shown[s]) + 1] = e
      /\ \A i \in 1..Len(shown[s]) : shown'[s][i] = shown[s][i]
  BY <1>f, <1>0, <1>2, OneMore DEF CallFactsOf
<1>4. supports
  BY <1>f, <1>0 DEF CallFactsOf, HandInv, Monitored
<1>5. HandInv(s)'
  BY <1>f, <1>0, <1>4 DEF CallFactsOf, HandInv, Checking, Monitored
<1>6. CutInv(s)'
  BY <1>f, <1>0, <1>2, <1>3 DEF CallFactsOf, CutInv, Checking
<1>7. ExplainInv(s)'
  BY <1>f, <1>0, <1>3, OwnEvents DEF CallFactsOf, ExplainInv, LastKind
<1>8. KillInv(s)'
  <2>1. KilledBy(s)' => KilledBy(s)
    BY <1>f, <1>0, <1>1, <1>2, <1>3 DEF CallFactsOf, KilledBy
  <2>2. Killed => ~active
    BY <1>f DEF CallFactsOf, Killed, PipelineInv, CallInv, KillInv, KilledBy
  <2>3. CASE e = Policy
    BY <1>f, <1>0, <2>1, <2>3 DEF CallFactsOf, KillInv
  <2>4. CASE e # Policy
    <3>1. late[s] = 0
      BY <1>f, <1>0, <1>2, <2>4 DEF CallFactsOf, KillInv
    <3> QED
      BY <1>f, <1>0, <2>1, <2>2, <2>4, <3>1 DEF CallFactsOf, KillInv
  <2> QED
    BY <2>3, <2>4
<1> QED
  BY <1>5, <1>6, <1>7, <1>8 DEF CallInv

LEMMA FallbackKeeps ==
  ASSUME PipelineInv, NEW s \in Streams,
         CompleteReturns(s) \/ FallbackSends(s) \/ FallbackCloses(s)
  PROVE  CallInv(s)'
<1>f. CallFactsOf(s)
  BY CallFacts
<1>0. /\ supports' = supports /\ active' = active /\ cancelled' = cancelled /\ taken' = taken
      /\ late' = late /\ ~supports /\ pc[s] \in {"complete", "fallback"}
      /\ pc'[s] \in {"fallback", "closed"}
  BY <1>f DEF CallFactsOf, CompleteReturns, FallbackSends, FallbackCloses, Goto, rest, HandInv
<1>1. HandInv(s)'
  BY <1>f, <1>0 DEF CallFactsOf, HandInv, Checking, Monitored
<1>2. CutInv(s)'
  BY <1>f, <1>0 DEF CallFactsOf, CutInv
<1>3. CASE CompleteReturns(s)
  <2>1. shown' = shown /\ pc'[s] = "fallback"
        /\ hand'[s] \in {<<Own("delta"), Own("done")>>, <<Own("error")>>}
    BY <1>f, <1>3 DEF CallFactsOf, CompleteReturns, Goto, rest
  <2>2. ExplainInv(s)'
    BY <1>f, <2>1 DEF CallFactsOf, ExplainInv
  <2>3. KillInv(s)'
    BY <1>f, <1>0, <2>1 DEF CallFactsOf, KillInv, KilledBy
  <2> QED
    BY <1>1, <1>2, <2>2, <2>3 DEF CallInv
<1>4. CASE FallbackSends(s)
  <2>1. PICK k \in {"delta", "done", "error"} :
          /\ hand[s][1] = Own(k)
          /\ \/ k = "delta" /\ Tail(hand[s]) = <<Own("done")>>
             \/ k # "delta" /\ Tail(hand[s]) = <<>>
    <3>1. /\ hand[s] # <<>>
          /\ \/ hand[s] = <<Own("delta"), Own("done")>>
             \/ \E k \in {"done", "error"} : hand[s] = <<Own(k)>>
      BY <1>f, <1>4 DEF CallFactsOf, FallbackSends, ExplainInv
    <3>2. \A a, b : /\ Tail(<<a, b>>) = <<b>> /\ <<a, b>>[1] = a
                   /\ Tail(<<a>>) = <<>> /\ <<a>>[1] = a
      OBVIOUS
    <3> QED
      BY <3>1, <3>2, ZenonT(30)
  <2>2. /\ pc' = pc /\ pc[s] = "fallback"
        /\ shown'[s] = Append(shown[s], Own(k))
        /\ hand'[s] = Tail(hand[s])
    BY <1>f, <1>4, <2>1 DEF CallFactsOf, FallbackSends, Put
  <2>3. /\ Len(shown'[s]) = Len(shown[s]) + 1
        /\ shown'[s] # <<>>
        /\ shown'[s][Len(shown[s]) + 1] = Own(k)
        /\ \A i \in 1..Len(shown[s]) : shown'[s][i] = shown[s][i]
    <3>1. Own(k) \in Visible /\ shown[s] \in Seq(Visible)
      BY <1>f, OwnEvents DEF CallFactsOf
    <3> QED
      BY <2>2, <3>1, OneMore
  <2>4. ExplainInv(s)'
    BY <1>f, <2>1, <2>2, <2>3, OwnEvents DEF CallFactsOf, ExplainInv, LastKind
  <2>5. KillInv(s)'
    <3>1. KilledBy(s)' => KilledBy(s)
      BY <1>f, <2>2, <2>3, OwnEvents DEF CallFactsOf, KilledBy
    <3> QED
      BY <1>f, <1>0, <2>2, <3>1 DEF CallFactsOf, KillInv
  <2> QED
    BY <1>1, <1>2, <2>4, <2>5 DEF CallInv
<1>5. CASE FallbackCloses(s)
  <2>1. shown' = shown /\ hand' = hand /\ pc[s] = "fallback" /\ hand[s] = <<>> /\ pc'[s] = "closed"
    BY <1>f, <1>5 DEF CallFactsOf, FallbackCloses, Goto, rest
  <2>2. ExplainInv(s)'
    <3>1. \A a, b : <<a>> # <<>> /\ <<a, b>> # <<>>
      OBVIOUS
    <3>2. shown[s] # <<>> /\ LastKind(s) \in {"done", "error"}
      BY <1>f, <2>1, <3>1 DEF CallFactsOf, ExplainInv
    <3> QED
      BY <1>f, <2>1, <3>2 DEF CallFactsOf, ExplainInv, LastKind
  <2>3. KillInv(s)'
    BY <1>f, <1>0, <2>1 DEF CallFactsOf, KillInv, KilledBy
  <2> QED
    BY <1>1, <1>2, <2>2, <2>3 DEF CallInv
<1> QED
  BY <1>3, <1>4, <1>5

\* What callers do disturbs no monitored stream.
LEMMA CallerKeeps ==
  ASSUME PipelineInv, NEW s \in Streams, Read(s) \/ Cancel(s)
  PROVE  CallInv(s)'
<1>f. CallFactsOf(s)
  BY CallFacts
<1>0. /\ supports' = supports /\ active' = active /\ pc' = pc /\ hand' = hand
      /\ taken' = taken /\ shown' = shown /\ late' = late
      /\ ~cancelled'[s] => ~cancelled[s]
  BY <1>f DEF CallFactsOf, Read, Cancel
<1>1. HandInv(s)' /\ CutInv(s)' /\ KillInv(s)'
  BY <1>f, <1>0 DEF CallFactsOf, HandInv, CutInv, KillInv, KilledBy
<1>2. ExplainInv(s)'
  BY <1>f, <1>0 DEF CallFactsOf, ExplainInv, LastKind
<1> QED
  BY <1>1, <1>2 DEF CallInv

-----------------------------------------------------------------------------
(* The invariant.                                                          *)

\* The steps of call s itself.
CallStep(s) ==
  \/ Open(s) \/ OpenFails(s)
  \/ \E e \in Events : TakeEvent(s, e)
  \/ Goroutine(s)
  \/ Read(s) \/ Cancel(s)

LEMMA OwnCall == ASSUME PipelineInv, NEW s \in Streams, CallStep(s) PROVE CallInv(s)'
<1>1. CASE Open(s) \/ OpenFails(s) \/ CheckProgress(s) \/ CheckBudget(s)
  BY <1>1, MonitorSteps
<1>2. CASE \E e \in Events : TakeEvent(s, e)
  BY <1>2, TakeEventKeeps
<1>3. CASE ContextDone(s) \/ ProviderCloses(s)
  BY <1>3, CloseKeeps
<1>4. CASE ReadActive(s) \/ Terminate(s)
  BY <1>4, FlagSteps
<1>5. CASE Forward(s)
  BY <1>5, ForwardKeeps
<1>6. CASE CompleteReturns(s) \/ FallbackSends(s) \/ FallbackCloses(s)
  BY <1>6, FallbackKeeps
<1>7. CASE Read(s) \/ Cancel(s)
  BY <1>7, CallerKeeps
<1> QED
  BY <1>1, <1>2, <1>3, <1>4, <1>5, <1>6, <1>7 DEF CallStep, Goroutine

\* A step of one call touches nothing of another but the flag, which it can only
\* take down.
LEMMA OtherUntouched ==
  ASSUME PipelineInv, NEW s \in Streams, CallStep(s), NEW t \in Streams, t # s
  PROVE  /\ supports' = supports
         /\ active' => active
         /\ pc'[t] = pc[t] /\ hand'[t] = hand[t] /\ cancelled'[t] = cancelled[t]
         /\ taken'[t] = taken[t] /\ shown'[t] = shown[t] /\ late'[t] = late[t]
<1>f. CallFactsOf(t)
  BY CallFacts
<1>1. CASE Open(s) \/ OpenFails(s) \/ CheckProgress(s) \/ CheckBudget(s)
  BY <1>1, <1>f DEF CallFactsOf, Open, OpenFails, CheckProgress, CheckBudget, Goto, rest
<1>2. CASE \E e \in Events : TakeEvent(s, e)
  BY <1>2, <1>f DEF CallFactsOf, TakeEvent, Goto, rest
<1>3. CASE ContextDone(s) \/ ProviderCloses(s) \/ ReadActive(s) \/ Terminate(s)
  BY <1>3, <1>f DEF CallFactsOf, ContextDone, ProviderCloses, ReadActive, Terminate, Cut, Goto, rest
<1>4. CASE Forward(s)
  BY <1>4, <1>f DEF CallFactsOf, Forward, Put, Goto
<1>5. CASE CompleteReturns(s) \/ FallbackSends(s) \/ FallbackCloses(s)
  BY <1>5, <1>f DEF CallFactsOf, CompleteReturns, FallbackSends, FallbackCloses, Put, Goto, rest
<1>6. CASE Read(s) \/ Cancel(s)
  BY <1>6, <1>f DEF CallFactsOf, Read, Cancel
<1> QED
  BY <1>1, <1>2, <1>3, <1>4, <1>5, <1>6 DEF CallStep, Goroutine

LEMMA CallsApart ==
  ASSUME PipelineInv, NEW s \in Streams, CallStep(s), NEW t \in Streams, t # s
  PROVE  CallInv(t)'
  BY OtherUntouched, OtherCalls

LEMMA StepTypes ==
  ASSUME PipelineInv, NEW s \in Streams, CallStep(s)
  PROVE  TypeOK'
<1>f. TypeOK /\ CallFactsOf(s)
  BY CallFacts DEF PipelineInv
<1>g. /\ (UNCHANGED costVars => CostTypeOK') /\ (UNCHANGED trackVars => TrackTypeOK')
      /\ Labels = {"idle", "rejected", "select", "active", "loop", "budget",
                   "terminate", "forward", "complete", "fallback", "closed"}
  BY <1>f DEF TypeOK, CostTypeOK, TrackTypeOK, costVars, trackVars, Labels
<1>1. CASE Open(s) \/ OpenFails(s) \/ ContextDone(s) \/ ProviderCloses(s) \/ FallbackCloses(s)
  BY <1>1, <1>f, <1>g
  DEF TypeOK, Open, OpenFails, ContextDone, ProviderCloses, FallbackCloses, Goto, rest
<1>2. CASE CheckProgress(s) \/ CheckBudget(s)
  <2>1. PICK e \in Events : hand[s] = <<e>>
    BY <1>2, <1>f DEF CallFactsOf, HandInv, Checking, CheckProgress, CheckBudget
  <2>2. hand[s][1] = e
    BY <2>1
  <2>3. CostTypeOK' /\ TrackTypeOK'
    BY <1>2, <1>f, <1>g, <2>2, MonitorTypes DEF CheckProgress, CheckBudget
  <2> QED
    BY <1>2, <1>f, <1>g, <2>3 DEF TypeOK, CheckProgress, CheckBudget, Goto, rest
<1>3. CASE \E e \in Events : TakeEvent(s, e)
  <2>1. PICK e \in Events : TakeEvent(s, e)
    BY <1>3
  <2>2. Append(taken[s], e) \in Seq(Events) /\ <<e>> \in Seq(Visible)
    BY <1>f, OneMore, OwnEvents DEF CallFactsOf
  <2> QED
    BY <1>f, <1>g, <2>1, <2>2 DEF TypeOK, TakeEvent, Goto, rest
<1>4. CASE ReadActive(s) \/ Terminate(s)
  <2>1. <<Policy>> \in Seq(Visible)
    BY OwnEvents
  <2> QED
    BY <1>4, <1>f, <1>g, <2>1 DEF TypeOK, ReadActive, Terminate, Cut, Goto, rest
<1>5. CASE Forward(s)
  <2>1. hand[s][1] \in Visible
    <3>1. PICK e \in Events \union {Policy} : hand[s] = <<e>>
      BY <1>5, <1>f DEF CallFactsOf, HandInv, Forward
    <3> QED
      BY <3>1, OwnEvents
  <2>2. shown' \in [Streams -> Seq(Visible)] /\ backlog' \in [Streams -> 0..ChanCap]
    BY <1>5, <1>f, <2>1, PutTypes DEF Forward
  <2>3. <<>> \in Seq(Visible)
    BY EmptySeq
  <2> QED
    BY <1>5, <1>f, <1>g, <2>2, <2>3, SMTT(30) DEF TypeOK, Forward, Goto
<1>6. CASE CompleteReturns(s)
  <2>1. <<Own("delta"), Own("done")>> \in Seq(Visible) /\ <<Own("error")>> \in Seq(Visible)
    BY OwnEvents
  <2>2. PICK reply \in Seq(Visible) : hand' = [hand EXCEPT ![s] = reply]
    BY <1>6, <2>1 DEF CompleteReturns
  <2>3. hand' \in [Streams -> Seq(Visible)]
    BY <1>f, <2>2 DEF CallFactsOf
  <2> QED
    BY <1>6, <1>f, <1>g, <2>3 DEF TypeOK, CompleteReturns, Goto, rest
<1>7. CASE FallbackSends(s)
  <2>1. hand[s] \in Seq(Visible) /\ hand[s] # <<>>
    BY <1>7, <1>f DEF CallFactsOf, FallbackSends
  <2>2. hand[s][1] \in Visible /\ Tail(hand[s]) \in Seq(Visible)
    BY <2>1, HeadTailProperties
  <2>3. shown' \in [Streams -> Seq(Visible)] /\ backlog' \in [Streams -> 0..ChanCap]
    BY <1>7, <1>f, <2>2, PutTypes DEF FallbackSends
  <2> QED
    BY <1>7, <1>f, <1>g, <2>2, <2>3 DEF TypeOK, FallbackSends
<1>8. CASE Read(s)
  <2>1. backlog' \in [Streams -> 0..ChanCap]
    <3>1. backlog[s] \in 0..ChanCap /\ ChanCap \in Nat
      BY <1>f, PipelineAssumption DEF TypeOK
    <3>2. backlog[s] - 1 \in 0..ChanCap
      BY <1>8, <3>1 DEF Read
    <3> QED
      BY <1>8, <1>f, <3>2 DEF TypeOK, Read
  <2> QED
    BY <1>8, <1>f, <1>g, <2>1 DEF TypeOK, Read
<1>9. CASE Cancel(s)
  BY <1>9, <1>f, <1>g DEF TypeOK, Cancel
<1> QED
  BY <1>1, <1>2, <1>3, <1>4, <1>5, <1>6, <1>7, <1>8, <1>9 DEF CallStep, Goroutine

LEMMA InitPipeline == Init => PipelineInv
<1> SUFFICES ASSUME Init PROVE PipelineInv
  OBVIOUS
<1>1. TypeOK
  <2>1. CostTypeOK /\ TrackTypeOK
    BY TrackerAssumption, EmptySeq
    DEF Init, CostInit, CostTypeOK, TrackInit, TrackTypeOK, NoRecord
  <2> QED
    BY <2>1, EmptySeq, PipelineAssumption DEF Init, TypeOK, Labels
<1>2. ASSUME NEW s \in Streams PROVE CallInv(s)
  <2>1. pc[s] = "idle" /\ shown[s] = <<>> /\ taken[s] = <<>> /\ late[s] = 0
    BY DEF Init
  <2> QED
    BY <2>1 DEF CallInv, HandInv, CutInv, ExplainInv, KillInv, KilledBy, Checking, Monitored
<1> QED
  BY <1>1, <1>2 DEF PipelineInv

LEMMA NextPipeline == PipelineInv /\ [Next]_vars => PipelineInv'
<1> SUFFICES ASSUME PipelineInv, [Next]_vars PROVE PipelineInv'
  OBVIOUS
<1>1. ASSUME NEW s \in Streams, CallStep(s) PROVE PipelineInv'
  BY <1>1, StepTypes, OwnCall, CallsApart DEF PipelineInv
<1>2. CASE Elapse \/ UNCHANGED vars
  <2>1. /\ UNCHANGED <<costVars, supports, active, callVars>>
        /\ TrackTypeOK'
    BY <1>2, TrackerAssumption
    DEF Elapse, TimePasses, TrackTypeOK, trackVars, vars, PipelineInv, TypeOK
  <2>2. TypeOK'
    BY <2>1 DEF PipelineInv, TypeOK, CostTypeOK, costVars, callVars
  <2>3. ASSUME NEW t \in Streams PROVE CallInv(t)'
    BY <2>1, OtherCalls DEF callVars
  <2> QED
    BY <2>2, <2>3 DEF PipelineInv
<1> QED
  BY <1>1, <1>2 DEF Next, CallStep

THEOREM PipelineInvariant == Spec => []PipelineInv
  BY InitPipeline, NextPipeline, PTL DEF Spec

\* The pipeline's state is well typed, monitors included.
THEOREM PipelineTypes == Spec => []TypeOK
<1>1. PipelineInv => TypeOK
  BY DEF PipelineInv
<1> QED
  BY <1>1, PipelineInvariant, PTL

\* However many calls share a pipeline, whatever their providers send and whichever
\* monitor objects: once a policy error is on its way to one caller, every other call
\* gets at most one more event through.
THEOREM KillReaches == Spec => []KillReachesEveryCall
<1>1. PipelineInv => KillReachesEveryCall
  BY DEF PipelineInv, CallInv, KillInv, KillReachesEveryCall
<1> QED
  BY <1>1, PipelineInvariant, PTL

\* A monitored stream is what the provider sent, in order, cut at most once and then
\* by a policy error in the place of the event objected to.
THEOREM PipelineOnlyCuts == Spec => []OnlyCuts
<1>1. PipelineInv => OnlyCuts
  BY DEF PipelineInv, CallInv, CutInv, OnlyCuts
<1> QED
  BY <1>1, PipelineInvariant, PTL

\* A stream that closes without a terminal was cancelled by its caller.
THEOREM ClosesAreExplained == Spec => []ClosedIsExplained
<1>1. PipelineInv => ClosedIsExplained
  BY DEF PipelineInv, CallInv, ExplainInv, LastKind, ClosedIsExplained
<1> QED
  BY <1>1, PipelineInvariant, PTL

-----------------------------------------------------------------------------
(* Sums over the calls.                                                    *)

LEMMA CallOrder ==
  /\ Cardinality(Streams) \in Nat
  /\ SetToSeq(Streams) \in [1..Cardinality(Streams) -> Streams]
  /\ \A i, j \in 1..Cardinality(Streams) :
       SetToSeq(Streams)[i] = SetToSeq(Streams)[j] => i = j
<1>1. Cardinality(Streams) \in Nat /\ ExistsBijection(1..Cardinality(Streams), Streams)
  BY PipelineAssumption, FS_CardinalityType
<1>2. \E f \in [1..Cardinality(Streams) -> Streams] : IsInjective(f)
  BY <1>1 DEF ExistsBijection, Bijection, Injection, IsInjective
<1>3. /\ SetToSeq(Streams) \in [1..Cardinality(Streams) -> Streams]
      /\ IsInjective(SetToSeq(Streams))
  BY <1>2 DEF SetToSeq
<1> QED
  BY <1>1, <1>3 DEF IsInjective

\* The numbers of the calls as the sequence that OverCalls adds up.
LEMMA CallNumbers ==
  ASSUME NEW n \in [Streams -> Nat]
  PROVE  /\ [i \in 1..Cardinality(Streams) |-> n[SetToSeq(Streams)[i]]] \in Seq(Nat)
         /\ Len([i \in 1..Cardinality(Streams) |-> n[SetToSeq(Streams)[i]]]) =
              Cardinality(Streams)
<1>1. [i \in 1..Cardinality(Streams) |-> n[SetToSeq(Streams)[i]]]
        \in [1..Cardinality(Streams) -> Nat]
  BY CallOrder
<1> QED
  BY <1>1, CallOrder

LEMMA OverCallsType ==
  ASSUME NEW n \in [Streams -> Nat] PROVE OverCalls(n) \in Nat
  BY CallNumbers, TotalType DEF OverCalls

LEMMA OverCallsMonotone ==
  ASSUME NEW n \in [Streams -> Nat], NEW m \in [Streams -> Nat],
         \A s \in Streams : n[s] <= m[s]
  PROVE  OverCalls(n) <= OverCalls(m)
<1> DEFINE q == [i \in 1..Cardinality(Streams) |-> n[SetToSeq(Streams)[i]]]
           r == [i \in 1..Cardinality(Streams) |-> m[SetToSeq(Streams)[i]]]
<1>1. q \in Seq(Nat) /\ r \in Seq(Nat) /\ Len(r) = Len(q)
      /\ Len(q) = Cardinality(Streams)
  BY CallNumbers
<1>2. \A i \in 1..Cardinality(Streams) : q[i] <= r[i]
  BY CallOrder
<1>3. OverCalls(n) = Total(q) /\ OverCalls(m) = Total(r)
  BY DEF OverCalls
<1> HIDE DEF q, r
<1> QED
  BY <1>1, <1>2, <1>3, TotalMonotone

\* One call's number grows by w.
LEMMA OverCallsGrows ==
  ASSUME NEW n \in [Streams -> Nat], NEW s \in Streams, NEW w \in Nat
  PROVE  OverCalls([n EXCEPT ![s] = n[s] + w]) <= OverCalls(n) + w
<1> DEFINE m == [n EXCEPT ![s] = n[s] + w]
           q == [i \in 1..Cardinality(Streams) |-> n[SetToSeq(Streams)[i]]]
           r == [i \in 1..Cardinality(Streams) |-> m[SetToSeq(Streams)[i]]]
<1>0. m \in [Streams -> Nat] /\ m[s] = n[s] + w /\ \A t \in Streams : t # s => m[t] = n[t]
  OBVIOUS
<1>1. OverCalls(n) = Total(q) /\ OverCalls(m) = Total(r)
  BY DEF OverCalls
<1> HIDE DEF m
<1>2. q \in Seq(Nat) /\ r \in Seq(Nat) /\ Len(r) = Len(q)
      /\ Len(q) = Cardinality(Streams)
  BY <1>0, CallNumbers
<1>3. CASE \E k \in 1..Cardinality(Streams) : SetToSeq(Streams)[k] = s
  <2>1. PICK k \in 1..Cardinality(Streams) : SetToSeq(Streams)[k] = s
    BY <1>3
  <2>2. r[k] = q[k] + w /\ \A i \in 1..Cardinality(Streams) : i # k => r[i] = q[i]
    BY <1>0, <2>1, CallOrder
  <2> HIDE DEF q, r
  <2>3. Total(r) = Total(q) + w
    BY <1>2, <2>2, TotalGrows, SMTT(30)
  <2>4. Total(q) \in Nat
    BY <1>2, TotalType
  <2> QED
    BY <1>1, <2>3, <2>4 DEF m
<1>4. CASE \A k \in 1..Cardinality(Streams) : SetToSeq(Streams)[k] # s
  <2>1. \A i \in 1..Cardinality(Streams) : r[i] <= q[i]
    BY <1>0, <1>4, CallOrder
  <2> HIDE DEF q, r
  <2>2. Total(r) <= Total(q) /\ Total(q) \in Nat /\ Total(r) \in Nat
    BY <1>2, <2>1, TotalMonotone, TotalType
  <2> QED
    BY <1>1, <2>2 DEF m
<1> QED
  BY <1>3, <1>4

\* The weights of a list as the sequence that Weigh adds up.
LEMMA WeighType ==
  ASSUME NEW list \in Seq(Visible), NEW weight \in [Visible -> Nat]
  PROVE  /\ [i \in 1..Len(list) |-> weight[list[i]]] \in Seq(Nat)
         /\ Weigh(list, weight) \in Nat
<1>1. Len(list) \in Nat /\ \A i \in 1..Len(list) : list[i] \in Visible
  BY ElementOfSeq, LenProperties
<1>2. [i \in 1..Len(list) |-> weight[list[i]]] \in [1..Len(list) -> Nat]
  BY <1>1
<1>3. [i \in 1..Len(list) |-> weight[list[i]]] \in Seq(Nat)
  BY <1>1, <1>2
<1> QED
  BY <1>3, TotalType DEF Weigh

LEMMA WeighEmpty == ASSUME NEW weight PROVE Weigh(<<>>, weight) = 0
<1>1. [i \in 1..Len(<<>>) |-> weight[<<>>[i]]] = <<>>
  OBVIOUS
<1> QED
  BY <1>1, TotalEmpty DEF Weigh

LEMMA WeighAppend ==
  ASSUME NEW list \in Seq(Visible), NEW weight \in [Visible -> Nat], NEW e \in Visible
  PROVE  Weigh(Append(list, e), weight) = Weigh(list, weight) + weight[e]
<1> DEFINE l == Append(list, e)
           q == [i \in 1..Len(list) |-> weight[list[i]]]
           r == [i \in 1..Len(l) |-> weight[l[i]]]
<1>1. /\ l \in Seq(Visible) /\ Len(l) = Len(list) + 1 /\ l[Len(list) + 1] = e
      /\ \A i \in 1..Len(list) : l[i] = list[i]
      /\ Len(list) \in Nat
  BY OneMore
<1> HIDE DEF l
<1>2. q \in Seq(Nat) /\ r \in Seq(Nat) /\ weight[e] \in Nat
  BY <1>1, WeighType
<1>3. Len(q) = Len(list) /\ Len(r) = Len(list) + 1
  BY <1>1
<1>4. /\ \A i \in 1..Len(list) : r[i] = q[i]
      /\ r[Len(list) + 1] = weight[e]
  BY <1>1
<1>5. Weigh(list, weight) = Total(q) /\ Weigh(l, weight) = Total(r)
  BY DEF Weigh
<1> HIDE DEF q, r
<1>6. r = Append(q, weight[e])
  <2> DEFINE a == Append(q, weight[e])
  <2>1. /\ a \in Seq(Nat) /\ Len(a) = Len(q) + 1 /\ a[Len(q) + 1] = weight[e]
        /\ \A i \in 1..Len(q) : a[i] = q[i]
    BY <1>2, AppendProperties
  <2> HIDE DEF a
  <2>2. \A i \in 1..Len(r) : r[i] = a[i]
    BY <1>1, <1>3, <1>4, <2>1
  <2>3. r = a
    BY <1>2, <1>3, <2>1, <2>2, SeqEqual
  <2> QED
    BY <2>3 DEF a
<1>7. Total(r) = Total(q) + weight[e]
  BY <1>2, <1>6, TotalAppend
<1> QED
  BY <1>5, <1>7 DEF l

-----------------------------------------------------------------------------
(* What has passed a monitor: the events on a stream, and the one in hand  *)
(* once the goroutine is past it.                                          *)

\* Where a goroutine is when it is past the cost monitor, and past the tracker.
PastBudget == {"forward"}
PastLoop == {"budget", "forward"}

Passed(s, points) ==
  IF pc[s] \in points THEN Append(shown[s], hand[s][1]) ELSE shown[s]

Passing(points, weight) ==
  OverCalls([s \in Streams |-> Weigh(Passed(s, points), weight)])

LEMMA PassedType ==
  ASSUME PipelineInv, NEW s \in Streams, NEW points \in {PastBudget, PastLoop}
  PROVE  /\ shown[s] \in Seq(Visible)
         /\ pc[s] \in points => hand[s][1] \in Visible
         /\ Passed(s, points) \in Seq(Visible)
<1>f. CallFactsOf(s)
  BY CallFacts
<1>1. shown[s] \in Seq(Visible)
  BY <1>f DEF CallFactsOf
<1>2. pc[s] \in points => hand[s][1] \in Visible
  <2>1. pc[s] \in points => \E e \in Events \union {Policy} : hand[s] = <<e>>
    BY <1>f DEF CallFactsOf, HandInv, Checking, PastBudget, PastLoop
  <2> QED
    BY <2>1, OwnEvents
<1> QED
  BY <1>1, <1>2, AppendProperties DEF Passed

LEMMA PassedSeqs ==
  PipelineInv =>
    \A points \in {PastBudget, PastLoop}, s \in Streams : Passed(s, points) \in Seq(Visible)
  BY PassedType

LEMMA PassedSeqsNext ==
  PipelineInv' =>
    (\A points \in {PastBudget, PastLoop}, s \in Streams : Passed(s, points) \in Seq(Visible))'
  BY PassedSeqs, PTL

\* What reached callers weighs no more than what has passed a monitor.
LEMMA ReachedHasPassed ==
  ASSUME PipelineInv, NEW points \in {PastBudget, PastLoop},
         NEW weight \in [Visible -> Nat]
  PROVE  /\ Reached(weight) \in Nat
         /\ Passing(points, weight) \in Nat
         /\ Reached(weight) <= Passing(points, weight)
<1> DEFINE n == [s \in Streams |-> Weigh(shown[s], weight)]
           m == [s \in Streams |-> Weigh(Passed(s, points), weight)]
<1>1. n \in [Streams -> Nat] /\ m \in [Streams -> Nat]
  BY PassedType, WeighType
<1>2. ASSUME NEW s \in Streams PROVE n[s] <= m[s]
  <2>1. CASE pc[s] \in points
    <3>1. shown[s] \in Seq(Visible) /\ hand[s][1] \in Visible
      BY <2>1, PassedType
    <3>2. Weigh(Append(shown[s], hand[s][1]), weight) =
            Weigh(shown[s], weight) + weight[hand[s][1]]
      BY <3>1, WeighAppend
    <3>3. Weigh(shown[s], weight) \in Nat /\ weight[hand[s][1]] \in Nat
      BY <3>1, WeighType
    <3> QED
      BY <2>1, <3>2, <3>3 DEF Passed
  <2>2. CASE pc[s] \notin points
    <3>1. n[s] \in Nat
      BY <1>1
    <3> QED
      BY <2>2, <3>1 DEF Passed
  <2> QED
    BY <2>1, <2>2
<1>3. Reached(weight) = OverCalls(n) /\ Passing(points, weight) = OverCalls(m)
  BY DEF Reached, Passing
<1> HIDE DEF n, m
<1> QED
  BY <1>1, <1>2, <1>3, OverCallsType, OverCallsMonotone

\* Where a call's step takes what it has passed.
PassesOwn(s, points) ==
  \E k \in {"delta", "done", "error"} :
    ~supports /\ Passed(s, points)' = Append(Passed(s, points), Own(k))

PassesPolicy(s, points) == Passed(s, points)' = Append(Passed(s, points), Policy)

PassesEvent(s, points) ==
  \E e \in Events :
    /\ hand[s] = <<e>>
    /\ Passed(s, points)' = Append(Passed(s, points), e)
    /\ \/ points = PastBudget /\ CheckBudget(s) /\ pc'[s] = "forward"
       \/ points = PastLoop /\ CheckProgress(s) /\ pc'[s] = "budget"

\* The cost monitor objects to what the tracker let pass.
Unpasses(s, points) ==
  \E e \in Events : Passed(s, points) = Append(Passed(s, points)', e)

LEMMA PassedMoves ==
  ASSUME PipelineInv, NEW s \in Streams, CallStep(s),
         NEW points \in {PastBudget, PastLoop}
  PROVE  /\ \A t \in Streams : t # s => Passed(t, points)' = Passed(t, points)
         /\ \/ Passed(s, points)' = Passed(s, points)
            \/ PassesOwn(s, points)
            \/ PassesPolicy(s, points)
            \/ PassesEvent(s, points)
            \/ Unpasses(s, points)
<1>f. CallFactsOf(s)
  BY CallFacts
<1>p. points = {"forward"} \/ points = {"budget", "forward"}
  BY DEF PastBudget, PastLoop
<1>1. ASSUME NEW t \in Streams, t # s PROVE Passed(t, points)' = Passed(t, points)
  <2>f. CallFactsOf(t)
    BY CallFacts
  <2>1. pc'[t] = pc[t] /\ hand'[t] = hand[t] /\ shown'[t] = shown[t]
    BY <1>1, <1>f, <2>f, OtherUntouched
  <2> QED
    BY <2>1 DEF Passed
<1>2. CASE Open(s) \/ OpenFails(s) \/ ContextDone(s) \/ ProviderCloses(s)
           \/ FallbackCloses(s) \/ CompleteReturns(s) \/ Read(s) \/ Cancel(s)
  <2>1. /\ shown' = shown
        /\ \/ pc' = pc /\ hand' = hand
           \/ pc[s] \notin points /\ pc'[s] \notin points
    BY <1>2, <1>f, <1>p
    DEF CallFactsOf, Open, OpenFails, ContextDone, ProviderCloses, FallbackCloses,
        CompleteReturns, Read, Cancel, Goto, rest
  <2> QED
    BY <1>1, <2>1 DEF Passed
<1>3. CASE \E e \in Events : TakeEvent(s, e)
  <2>1. shown' = shown /\ pc[s] \notin points /\ pc'[s] \notin points
    BY <1>3, <1>f, <1>p DEF CallFactsOf, TakeEvent, Goto, rest
  <2> QED
    BY <1>1, <2>1 DEF Passed
<1>4. CASE ReadActive(s) \/ Terminate(s)
  <2>1. /\ shown' = shown /\ pc[s] \notin points
        /\ \/ pc'[s] \notin points
           \/ pc'[s] \in points /\ hand'[s] = <<Policy>>
    BY <1>4, <1>f, <1>p DEF CallFactsOf, ReadActive, Terminate, Cut, Goto, rest
  <2>2. <<Policy>>[1] = Policy
    OBVIOUS
  <2> QED
    BY <1>1, <2>1, <2>2 DEF Passed, PassesPolicy
<1>5. CASE CheckProgress(s) \/ CheckBudget(s)
  <2>1. PICK e \in Events : hand[s] = <<e>>
    BY <1>5, <1>f DEF CallFactsOf, HandInv, Checking, CheckProgress, CheckBudget
  <2>2. /\ shown' = shown /\ hand' = hand /\ hand[s][1] = e
        /\ \/ CheckProgress(s) /\ pc[s] = "loop" /\ pc'[s] \in {"terminate", "budget"}
           \/ CheckBudget(s) /\ pc[s] = "budget" /\ pc'[s] \in {"terminate", "forward"}
    BY <1>5, <1>f, <2>1 DEF CallFactsOf, CheckProgress, CheckBudget, Goto, rest
  <2>3. CASE CheckProgress(s) /\ pc[s] = "loop" /\ pc'[s] = "budget"
    BY <1>1, <1>p, <2>1, <2>2, <2>3 DEF Passed, PassesEvent, PastBudget, PastLoop
  <2>4. CASE pc[s] = "loop" /\ pc'[s] = "terminate"
    BY <1>1, <1>p, <2>1, <2>2, <2>4 DEF Passed
  <2>5. CASE CheckBudget(s) /\ pc[s] = "budget" /\ pc'[s] = "forward"
    BY <1>1, <1>p, <2>1, <2>2, <2>5 DEF Passed, PassesEvent, PastBudget, PastLoop
  <2>6. CASE pc[s] = "budget" /\ pc'[s] = "terminate"
    BY <1>1, <1>p, <2>1, <2>2, <2>6 DEF Passed, Unpasses
  <2> QED
    BY <2>2, <2>3, <2>4, <2>5, <2>6
<1>6. CASE Forward(s)
  <2>1. /\ pc[s] = "forward" /\ pc'[s] \in {"closed", "select"}
        /\ shown'[s] = Append(shown[s], hand[s][1])
    BY <1>6, <1>f DEF CallFactsOf, Forward, Put, Goto
  <2> QED
    BY <1>1, <1>p, <2>1 DEF Passed
<1>7. CASE FallbackSends(s)
  <2>1. PICK k \in {"delta", "done", "error"} : hand[s][1] = Own(k)
    <3>1. \/ hand[s] = <<Own("delta"), Own("done")>>
          \/ \E k \in {"done", "error"} : hand[s] = <<Own(k)>>
      BY <1>7, <1>f DEF CallFactsOf, FallbackSends, ExplainInv
    <3>2. \A a, b : <<a, b>>[1] = a /\ <<a>>[1] = a
      OBVIOUS
    <3> QED
      BY <3>1, <3>2
  <2>2. /\ pc' = pc /\ pc[s] = "fallback" /\ ~supports
        /\ shown'[s] = Append(shown[s], Own(k))
    BY <1>7, <1>f, <2>1 DEF CallFactsOf, FallbackSends, Put, HandInv
  <2> QED
    BY <1>1, <1>p, <2>2 DEF Passed, PassesOwn
<1> QED
  BY <1>2, <1>3, <1>4, <1>5, <1>6, <1>7 DEF CallStep, Goroutine

LEMMA PassingMoves ==
  ASSUME PipelineInv, NEW s \in Streams, CallStep(s),
         NEW points \in {PastBudget, PastLoop}, NEW weight \in [Visible -> Nat],
         weight[Policy] = 0,
         supports \/ \A k \in {"delta", "done", "error"} : weight[Own(k)] = 0
  PROVE  \/ Passing(points, weight)' <= Passing(points, weight)
         \/ \E e \in Events :
              /\ hand[s] = <<e>>
              /\ Passing(points, weight)' <= Passing(points, weight) + weight[e]
              /\ \/ points = PastBudget /\ CheckBudget(s) /\ pc'[s] = "forward"
                 \/ points = PastLoop /\ CheckProgress(s) /\ pc'[s] = "budget"
<1> DEFINE n == [t \in Streams |-> Weigh(Passed(t, points), weight)]
           m == [t \in Streams |-> Weigh(Passed(t, points)', weight)]
           list == Passed(s, points)
           more == Passed(s, points)'
<1>0. PipelineInv'
  BY StepTypes, OwnCall, CallsApart DEF PipelineInv
<1>1. ASSUME NEW t \in Streams
      PROVE  Passed(t, points) \in Seq(Visible) /\ Passed(t, points)' \in Seq(Visible)
  BY <1>0, PassedSeqs, PassedSeqsNext
<1>2. n \in [Streams -> Nat] /\ m \in [Streams -> Nat]
  BY <1>1, WeighType
<1>3. Passing(points, weight) = OverCalls(n) /\ Passing(points, weight)' = OverCalls(m)
  BY DEF Passing
<1>4. \A t \in Streams : t # s => m[t] = n[t]
  BY PassedMoves
<1>5. n[s] = Weigh(list, weight) /\ m[s] = Weigh(more, weight)
  OBVIOUS
<1>6. list \in Seq(Visible) /\ more \in Seq(Visible)
  BY <1>1
<1>7. \/ more = list
      \/ \E k \in {"delta", "done", "error"} : ~supports /\ more = Append(list, Own(k))
      \/ more = Append(list, Policy)
      \/ PassesEvent(s, points) /\ \E e \in Events : hand[s] = <<e>> /\ more = Append(list, e)
      \/ \E e \in Events : list = Append(more, e)
  BY PassedMoves DEF PassesOwn, PassesPolicy, PassesEvent, Unpasses
<1> HIDE DEF n, m, list, more
\* Growing by w.
<1>8. ASSUME NEW w \in Nat, m[s] = n[s] + w
      PROVE  OverCalls(m) <= OverCalls(n) + w
  <2>1. m = [n EXCEPT ![s] = n[s] + w]
    BY <1>2, <1>4, <1>8
  <2> QED
    BY <1>2, <2>1, OverCallsGrows
<1>9. OverCalls(n) \in Nat /\ OverCalls(m) \in Nat /\ n[s] \in Nat /\ m[s] \in Nat
  BY <1>2, OverCallsType
<1>10. ASSUME NEW e \in Visible, more = Append(list, e) PROVE m[s] = n[s] + weight[e]
  BY <1>5, <1>6, <1>10, WeighAppend
<1>11. ASSUME m[s] <= n[s] PROVE OverCalls(m) <= OverCalls(n)
  <2>1. \A t \in Streams : m[t] <= n[t]
    BY <1>2, <1>4, <1>11
  <2> QED
    BY <1>2, <2>1, OverCallsMonotone
<1>12. CASE more = list
  BY <1>3, <1>5, <1>9, <1>11, <1>12
<1>13. CASE \E k \in {"delta", "done", "error"} : ~supports /\ more = Append(list, Own(k))
  <2>1. PICK k \in {"delta", "done", "error"} : ~supports /\ more = Append(list, Own(k))
    BY <1>13
  <2>2. Own(k) \in Visible /\ weight[Own(k)] = 0
    BY <2>1, OwnEvents
  <2>3. m[s] = n[s] + 0
    BY <1>10, <2>1, <2>2
  <2> QED
    BY <1>3, <1>9, <1>11, <2>3
<1>14. CASE more = Append(list, Policy)
  <2>1. m[s] = n[s] + 0
    BY <1>10, <1>14, OwnEvents
  <2> QED
    BY <1>3, <1>9, <1>11, <2>1
<1>15. CASE PassesEvent(s, points)
  <2>1. PICK e \in Events :
          /\ hand[s] = <<e>>
          /\ Passed(s, points)' = Append(Passed(s, points), e)
          /\ \/ points = PastBudget /\ CheckBudget(s) /\ pc'[s] = "forward"
             \/ points = PastLoop /\ CheckProgress(s) /\ pc'[s] = "budget"
    BY <1>15 DEF PassesEvent
  <2>2. e \in Visible /\ weight[e] \in Nat
    BY OwnEvents
  <2>3. m[s] = n[s] + weight[e]
    <3>1. more = Append(list, e)
      BY <2>1 DEF more, list
    <3> QED
      BY <1>10, <2>2, <3>1
  <2>4. OverCalls(m) <= OverCalls(n) + weight[e]
    BY <1>8, <2>2, <2>3
  <2> QED
    BY <1>3, <2>1, <2>4
<1>16. CASE \E e \in Events : list = Append(more, e)
  <2>1. PICK e \in Events : list = Append(more, e)
    BY <1>16
  <2>2. e \in Visible /\ weight[e] \in Nat
    BY OwnEvents
  <2>3. n[s] = m[s] + weight[e]
    BY <1>5, <1>6, <2>1, <2>2, WeighAppend
  <2>4. m[s] <= n[s]
    BY <1>9, <2>2, <2>3
  <2> QED
    BY <1>3, <1>11, <2>4
<1> QED
  BY <1>7, <1>12, <1>13, <1>14, <1>15, <1>16

LEMMA NothingPassed ==
  ASSUME Init, NEW points \in {PastBudget, PastLoop}, NEW weight \in [Visible -> Nat]
  PROVE  Passing(points, weight) = 0
<1> DEFINE n == [s \in Streams |-> Weigh(Passed(s, points), weight)]
           zeros == [i \in 1..Cardinality(Streams) |-> n[SetToSeq(Streams)[i]]]
<1>1. \A s \in Streams : Passed(s, points) = <<>>
  BY DEF Init, Passed, PastBudget, PastLoop
<1>2. n = [s \in Streams |-> 0]
  BY <1>1, WeighEmpty
<1>3. \A i \in 1..Cardinality(Streams) : zeros[i] = 0
  BY <1>2, CallOrder
<1>4. zeros \in Seq(Nat) /\ Len(zeros) = Cardinality(Streams)
  <2>1. n \in [Streams -> Nat]
    BY <1>2
  <2> HIDE DEF n
  <2> QED
    BY <2>1, CallNumbers
<1>5. Passing(points, weight) = Total(zeros)
  BY DEF Passing, OverCalls
<1> HIDE DEF n, zeros
<1>6. Total(zeros) = 0
  <2>1. PICK f : Sums(f, zeros) /\ Total(zeros) = f[Len(zeros)]
    BY <1>4, TotalSteps
  <2>2. Len(zeros) \in Nat
    BY <1>4, LenProperties
  <2> DEFINE P == {i \in Nat : i <= Len(zeros) => f[i] = 0}
  <2>3. 0 \in P
    BY <2>1 DEF Sums
  <2>4. ASSUME NEW i \in Nat, i \in P PROVE i + 1 \in P
    <3>1. SUFFICES ASSUME i + 1 <= Len(zeros) PROVE f[i + 1] = 0
      OBVIOUS
    <3>2. i + 1 \in 1..Len(zeros) /\ (i + 1) - 1 = i /\ i <= Len(zeros)
      BY <2>2, <3>1
    <3>3. f[i + 1] = f[i] + zeros[i + 1] /\ f[i] = 0 /\ zeros[i + 1] = 0
      BY <1>3, <1>4, <2>1, <2>4, <3>2 DEF Sums
    <3> QED
      BY <3>3
  <2> HIDE DEF P
  <2>5. Len(zeros) \in P
    BY <2>2, <2>3, <2>4, NatInd
  <2> QED
    BY <2>1, <2>2, <2>5 DEF P
<1> QED
  BY <1>5, <1>6

-----------------------------------------------------------------------------
(* The budgets.                                                            *)

LEMMA TokenWeights ==
  /\ TokensIn \in [Visible -> Nat] /\ TokensOut \in [Visible -> Nat]
  /\ TokensIn[Policy] = 0 /\ TokensOut[Policy] = 0
  /\ \A k \in {"delta", "done", "error"} : TokensIn[Own(k)] = 0 /\ TokensOut[Own(k)] = 0
  /\ \A e \in Events : /\ e.in \in Nat /\ e.out \in Nat
                       /\ TokensIn[e] = IF Counted(e) THEN e.in ELSE 0
                       /\ TokensOut[e] = IF Counted(e) THEN e.out ELSE 0
<1>1. \A k : Own(k).in = 0 /\ Own(k).out = 0 /\ Own(k).metered = FALSE
  BY DEF Own
<1>2. \A e \in Events : e.in \in Nat /\ e.out \in Nat
  BY PipelineAssumption DEF IsEvent
<1>3. \A e \in Visible : e.in \in Nat /\ e.out \in Nat
  BY <1>1, <1>2 DEF Visible, Policy
<1>4. TokensIn \in [Visible -> Nat] /\ TokensOut \in [Visible -> Nat]
  BY <1>3 DEF TokensIn, TokensOut
<1>5. \A k : ~Counted(Own(k)) /\ ~Counted(Policy)
  BY <1>1 DEF Counted, Policy
<1> QED
  BY <1>2, <1>4, <1>5, OwnEvents DEF TokensIn, TokensOut

\* The totals hold all that has passed the cost monitor, and that is within the budgets.
BudgetInv ==
  "budget" \in Enabled \cap Kills =>
    LET in == Passing(PastBudget, TokensIn)
        out == Passing(PastBudget, TokensOut)
    IN  /\ in <= totalIn
        /\ out <= totalOut
        /\ TokenBudget > 0 => in + out <= TokenBudget
        /\ CostBudget > 0 => Cost(in, out) <= CostBudget

LEMMA PassingNat ==
  PipelineInv =>
    Passing(PastBudget, TokensIn) \in Nat /\ Passing(PastBudget, TokensOut) \in Nat
  BY ReachedHasPassed, TokenWeights

LEMMA PassingNatNext ==
  PipelineInv' =>
    (Passing(PastBudget, TokensIn) \in Nat /\ Passing(PastBudget, TokensOut) \in Nat)'
  BY PassingNat, PTL

LEMMA InitBudget == Init => BudgetInv
<1> SUFFICES ASSUME Init PROVE BudgetInv
  OBVIOUS
<1>1. Passing(PastBudget, TokensIn) = 0 /\ Passing(PastBudget, TokensOut) = 0
  BY NothingPassed, TokenWeights
<1> QED
  BY <1>1, BudgetAssumption DEF Init, CostInit, BudgetInv, Cost

\* A step of a call that lets nothing more past the cost monitor.
LEMMA BudgetKept ==
  ASSUME PipelineInv, BudgetInv, PipelineInv',
         totalIn' >= totalIn, totalOut' >= totalOut,
         Passing(PastBudget, TokensIn)' <= Passing(PastBudget, TokensIn),
         Passing(PastBudget, TokensOut)' <= Passing(PastBudget, TokensOut)
  PROVE  BudgetInv'
<1> DEFINE in == Passing(PastBudget, TokensIn)
           out == Passing(PastBudget, TokensOut)
           in2 == Passing(PastBudget, TokensIn)'
           out2 == Passing(PastBudget, TokensOut)'
           total2 == totalIn'
           totalOut2 == totalOut'
<1>1. in \in Nat /\ out \in Nat /\ in2 \in Nat /\ out2 \in Nat
  BY PassingNat, PassingNatNext
<1>2. totalIn \in Nat /\ totalOut \in Nat /\ total2 \in Nat /\ totalOut2 \in Nat
  BY DEF PipelineInv, TypeOK, CostTypeOK
<1>3. "budget" \in Enabled \cap Kills =>
        /\ in <= totalIn
        /\ out <= totalOut
        /\ TokenBudget > 0 => in + out <= TokenBudget
        /\ CostBudget > 0 => in + 5 * out <= CostBudget
  BY DEF BudgetInv, Cost
<1>4. in2 <= in /\ out2 <= out /\ total2 >= totalIn /\ totalOut2 >= totalOut
  OBVIOUS
<1> HIDE DEF in, out, in2, out2, total2, totalOut2
<1>5. "budget" \in Enabled \cap Kills =>
        /\ in2 <= total2
        /\ out2 <= totalOut2
        /\ TokenBudget > 0 => in2 + out2 <= TokenBudget
        /\ CostBudget > 0 => in2 + 5 * out2 <= CostBudget
  BY <1>1, <1>2, <1>3, <1>4, BudgetAssumption
<1> QED
  BY <1>5 DEF in2, out2, total2, totalOut2, BudgetInv, Cost

LEMMA NextBudget == PipelineInv /\ BudgetInv /\ PipelineInv' /\ [Next]_vars => BudgetInv'
<1> SUFFICES ASSUME PipelineInv, BudgetInv, PipelineInv', [Next]_vars PROVE BudgetInv'
  OBVIOUS
<1>t. /\ totalIn \in Nat /\ totalOut \in Nat /\ totalIn' \in Nat /\ totalOut' \in Nat
      /\ Passing(PastBudget, TokensIn) \in Nat /\ Passing(PastBudget, TokensOut) \in Nat
      /\ Passing(PastBudget, TokensIn)' \in Nat /\ Passing(PastBudget, TokensOut)' \in Nat
  BY PassingNat, PassingNatNext DEF PipelineInv, TypeOK, CostTypeOK
<1>1. ASSUME NEW s \in Streams, CallStep(s) PROVE BudgetInv'
  <2>f. CallFactsOf(s)
    BY CallFacts
  <2>1. \/ UNCHANGED costVars
        \/ \E e \in Events : hand[s] = <<e>> /\ Count(e) /\ CheckBudget(s)
    <3>1. CASE CheckBudget(s)
      <4>1. PICK e \in Events : hand[s] = <<e>>
        BY <3>1, <2>f DEF CallFactsOf, HandInv, Checking, CheckBudget
      <4>2. hand[s][1] = e
        BY <4>1
      <4>3. UNCHANGED costVars \/ Count(e)
        BY <3>1, <4>2 DEF CheckBudget
      <4> QED
        BY <3>1, <4>1, <4>3
    <3>2. CASE Open(s) \/ OpenFails(s) \/ \E e \in Events : TakeEvent(s, e)
      BY <3>2 DEF Open, OpenFails, TakeEvent
    <3>3. CASE ContextDone(s) \/ ProviderCloses(s) \/ ReadActive(s) \/ CheckProgress(s)
      BY <3>3 DEF ContextDone, ProviderCloses, ReadActive, CheckProgress
    <3>4. CASE Terminate(s) \/ Forward(s) \/ Read(s) \/ Cancel(s)
      BY <3>4 DEF Terminate, Forward, Read, Cancel
    <3>5. CASE CompleteReturns(s) \/ FallbackSends(s) \/ FallbackCloses(s)
      BY <3>5 DEF CompleteReturns, FallbackSends, FallbackCloses
    <3> QED
      BY <1>1, <3>1, <3>2, <3>3, <3>4, <3>5 DEF CallStep, Goroutine
  <2>2. totalIn' >= totalIn /\ totalOut' >= totalOut
    BY <1>t, <2>1, TokenWeights DEF Count, costVars
  <2>3. CASE CheckBudget(s) /\ pc'[s] = "forward"
    <3>1. PICK e \in Events : hand[s] = <<e>>
      BY <2>3, <2>f DEF CallFactsOf, HandInv, Checking, CheckBudget
    <3>2. hand[s][1] = e /\ \A d : hand[s] = <<d>> => d = e
      BY <3>1
    <3>3. "budget" \in Enabled \cap Kills => Count(e) /\ ~Overspends(e)
      BY <2>3, <2>f, <3>2 DEF CallFactsOf, CheckBudget, Objects, Goto
    <3>4. /\ Passing(PastBudget, TokensIn)' <= Passing(PastBudget, TokensIn) + TokensIn[e]
          /\ Passing(PastBudget, TokensOut)' <= Passing(PastBudget, TokensOut) + TokensOut[e]
      <4>1. ASSUME NEW weight \in {TokensIn, TokensOut}
            PROVE  Passing(PastBudget, weight)' <= Passing(PastBudget, weight) + weight[e]
        <5>1. /\ weight \in [Visible -> Nat] /\ weight[Policy] = 0
              /\ \A k \in {"delta", "done", "error"} : weight[Own(k)] = 0
              /\ weight[e] \in Nat
          BY TokenWeights, OwnEvents
        <5>2. \/ Passing(PastBudget, weight)' <= Passing(PastBudget, weight)
              \/ \E d \in Events :
                   /\ hand[s] = <<d>>
                   /\ Passing(PastBudget, weight)' <= Passing(PastBudget, weight) + weight[d]
          <6>1. PastBudget \in {PastBudget, PastLoop}
            OBVIOUS
          <6> QED
            BY <1>1, <5>1, <6>1, PassingMoves
        <5>3. Passing(PastBudget, weight) \in Nat /\ Passing(PastBudget, weight)' \in Nat
          BY <1>t
        <5> QED
          BY <3>2, <5>1, <5>2, <5>3
      <4> QED
        BY <4>1
    <3>5. e.in \in Nat /\ e.out \in Nat
      BY TokenWeights
    <3>6. CASE "budget" \in Enabled \cap Kills /\ Counted(e)
      <4> DEFINE in == Passing(PastBudget, TokensIn)
                 out == Passing(PastBudget, TokensOut)
                 in2 == Passing(PastBudget, TokensIn)'
                 out2 == Passing(PastBudget, TokensOut)'
                 total2 == totalIn'
                 totalOut2 == totalOut'
      <4>1. in2 <= in + e.in /\ out2 <= out + e.out
        BY <3>4, <3>6, TokenWeights
      <4>2. total2 = totalIn + e.in /\ totalOut2 = totalOut + e.out
        BY <3>3, <3>6 DEF Count
      <4>3. in <= totalIn /\ out <= totalOut
        BY <3>6 DEF BudgetInv
      <4>4. /\ in \in Nat /\ out \in Nat /\ in2 \in Nat /\ out2 \in Nat
            /\ total2 \in Nat /\ totalOut2 \in Nat
        BY <1>t
      <4> HIDE DEF in, out, in2, out2, total2, totalOut2
      <4>5. /\ TokenBudget > 0 => total2 + totalOut2 <= TokenBudget
            /\ CostBudget > 0 => total2 + 5 * totalOut2 <= CostBudget
        BY <1>t, <3>3, <3>5, <3>6, <4>2, BudgetAssumption DEF Overspends, Cost
      <4>6. in2 <= total2 /\ out2 <= totalOut2
        BY <1>t, <3>5, <4>1, <4>2, <4>3, <4>4
      <4>7. /\ TokenBudget > 0 => in2 + out2 <= TokenBudget
            /\ CostBudget > 0 => in2 + 5 * out2 <= CostBudget
        BY <4>4, <4>5, <4>6, BudgetAssumption
      <4> QED
        BY <4>6, <4>7 DEF in2, out2, total2, totalOut2, BudgetInv, Cost
    <3>7. CASE "budget" \in Enabled \cap Kills /\ ~Counted(e)
      <4>1. TokensIn[e] = 0 /\ TokensOut[e] = 0
        BY <3>7, TokenWeights
      <4>2. /\ Passing(PastBudget, TokensIn)' <= Passing(PastBudget, TokensIn)
            /\ Passing(PastBudget, TokensOut)' <= Passing(PastBudget, TokensOut)
        BY <1>t, <3>4, <4>1
      <4> QED
        BY <2>2, <4>2, BudgetKept
    <3>8. CASE ~("budget" \in Enabled \cap Kills)
      BY <3>8 DEF BudgetInv
    <3> QED
      BY <3>6, <3>7, <3>8
  <2>4. CASE ~(CheckBudget(s) /\ pc'[s] = "forward")
    <3>1. ASSUME NEW weight \in {TokensIn, TokensOut}
          PROVE  Passing(PastBudget, weight)' <= Passing(PastBudget, weight)
      <4>1. /\ weight \in [Visible -> Nat] /\ weight[Policy] = 0
            /\ \A k \in {"delta", "done", "error"} : weight[Own(k)] = 0
        BY TokenWeights
      <4>2. PastBudget \in {PastBudget, PastLoop} /\ PastBudget # PastLoop
        BY DEF PastBudget, PastLoop
      <4> QED
        BY <1>1, <2>4, <4>1, <4>2, PassingMoves
    <3> QED
      BY <2>2, <3>1, BudgetKept
  <2> QED
    BY <2>3, <2>4
<1>2. CASE Elapse \/ UNCHANGED vars
  <2>1. UNCHANGED <<costVars, callVars>>
    BY <1>2 DEF Elapse, vars
  <2>2. /\ Passing(PastBudget, TokensIn)' = Passing(PastBudget, TokensIn)
        /\ Passing(PastBudget, TokensOut)' = Passing(PastBudget, TokensOut)
    BY <2>1 DEF callVars, Passing, Passed
  <2> QED
    BY <1>t, <2>1, <2>2, BudgetKept DEF costVars
<1> QED
  BY <1>1, <1>2 DEF Next, CallStep

LEMMA BudgetInvariant == Spec => [](PipelineInv /\ BudgetInv)
<1>1. Init => PipelineInv /\ BudgetInv
  BY InitPipeline, InitBudget
<1>2. (PipelineInv /\ BudgetInv) /\ [Next]_vars => (PipelineInv /\ BudgetInv)'
  BY NextPipeline, NextBudget
<1> QED
  BY <1>1, <1>2, PTL DEF Spec

\* However many calls share a cost monitor in "kill" mode and whatever their providers
\* report: the usage of all events that reached callers stays within both budgets.
THEOREM BudgetsAreKept == Spec => []BudgetsHold
<1>1. ASSUME PipelineInv, BudgetInv PROVE BudgetsHold
  <2> DEFINE in == Reached(TokensIn)
             out == Reached(TokensOut)
             passedIn == Passing(PastBudget, TokensIn)
             passedOut == Passing(PastBudget, TokensOut)
  <2>1. /\ in \in Nat /\ out \in Nat /\ passedIn \in Nat /\ passedOut \in Nat
        /\ in <= passedIn /\ out <= passedOut
    BY <1>1, ReachedHasPassed, TokenWeights
  <2>2. "budget" \in Enabled \cap Kills =>
          /\ TokenBudget > 0 => passedIn + passedOut <= TokenBudget
          /\ CostBudget > 0 => passedIn + 5 * passedOut <= CostBudget
    BY <1>1 DEF BudgetInv, Cost
  <2> HIDE DEF in, out, passedIn, passedOut
  <2>3. "budget" \in Enabled \cap Kills =>
          /\ TokenBudget > 0 => in + out <= TokenBudget
          /\ CostBudget > 0 => in + 5 * out <= CostBudget
    BY <2>1, <2>2, BudgetAssumption
  <2> QED
    BY <2>3 DEF in, out, BudgetsHold, Cost
<1> QED
  BY <1>1, BudgetInvariant, PTL

-----------------------------------------------------------------------------
(* Loops.                                                                  *)

LEMMA SameWeights ==
  ASSUME NEW e \in Events
  PROVE  /\ SameAs(e) \in [Visible -> Nat]
         /\ SameAs(e)[Policy] = 0
         /\ \A d \in Events : SameAs(e)[d] = IF Key(d) = Key(e) THEN 1 ELSE 0
<1>1. SameAs(e) \in [Visible -> Nat]
  BY DEF SameAs
<1>2. Key(Policy) # Key(e)
  BY OwnEvents, PipelineAssumption DEF IsEvent, Kinds, Key
<1> QED
  BY <1>1, <1>2, OwnEvents DEF SameAs

\* Events with the same key are treated alike by the tracker.
LEMMA SameTreatment ==
  ASSUME NEW d \in Events, NEW e \in Events, Key(d) = Key(e)
  PROVE  (Tracked(d) <=> Tracked(e)) /\ Threshold(d) = Threshold(e)
<1>1. d.kind = e.kind /\ d.text = e.text
  BY DEF Key
<1> QED
  BY <1>1 DEF Tracked, Threshold

\* While nothing is old enough to be forgotten, nothing is.
LEMMA NothingForgotten ==
  ASSUME TypeOK, clock < Window
  PROVE  Cleaned = history
<1>1. \A k \in Keys : Fresh(history[k])
  BY TrackerAssumption DEF TypeOK, TrackTypeOK, Fresh
<1> QED
  BY <1>1 DEF Cleaned, TypeOK, TrackTypeOK

LEMMA ThresholdType == \A e \in Events : Threshold(e) \in Nat
  BY TrackerAssumption DEF Threshold

\* All that has passed the tracker of an event's kind is on its record, and as much as
\* the threshold allows.
LoopInvOf(e) ==
  LET seen == Passing(PastLoop, SameAs(e))
  IN  /\ seen <= history[Key(e)].count
      /\ seen <= 1 \/ seen <= Threshold(e)

LoopInv ==
  supports /\ "loop" \in Enabled \cap Kills /\ clock < Window =>
    \A e \in Events : Tracked(e) => LoopInvOf(e)

LEMMA SeenNat == PipelineInv => \A e \in Events : Passing(PastLoop, SameAs(e)) \in Nat
  BY ReachedHasPassed, SameWeights

LEMMA SeenNatNext ==
  PipelineInv' => (\A e \in Events : Passing(PastLoop, SameAs(e)) \in Nat)'
  BY SeenNat, PTL

LEMMA InitLoop == Init => LoopInv
<1> SUFFICES ASSUME Init, NEW e \in Events PROVE LoopInvOf(e)
  BY DEF LoopInv
<1>1. Passing(PastLoop, SameAs(e)) = 0
  BY NothingPassed, SameWeights
<1>2. history[Key(e)].count = 0
  BY PipelineAssumption DEF Init, TrackInit, NoRecord, IsEvent
<1> QED
  BY <1>1, <1>2 DEF LoopInvOf

\* The steps that do not ask the tracker leave it alone.
LEMMA TrackerUntouched ==
  ASSUME NEW s \in Streams, CallStep(s), ~CheckProgress(s)
  PROVE  UNCHANGED trackVars
<1>1. CASE Open(s) \/ OpenFails(s) \/ \E e \in Events : TakeEvent(s, e)
  BY <1>1 DEF Open, OpenFails, TakeEvent
<1>2. CASE ContextDone(s) \/ ProviderCloses(s) \/ ReadActive(s) \/ CheckBudget(s)
  BY <1>2 DEF ContextDone, ProviderCloses, ReadActive, CheckBudget
<1>3. CASE Terminate(s) \/ Forward(s) \/ Read(s) \/ Cancel(s)
  BY <1>3 DEF Terminate, Forward, Read, Cancel
<1>4. CASE CompleteReturns(s) \/ FallbackSends(s) \/ FallbackCloses(s)
  BY <1>4 DEF CompleteReturns, FallbackSends, FallbackCloses
<1> QED
  BY <1>1, <1>2, <1>3, <1>4 DEF CallStep, Goroutine

LEMMA SupportsStays ==
  ASSUME NEW s \in Streams, CallStep(s) PROVE supports' = supports
<1>1. CASE Open(s) \/ OpenFails(s) \/ \E e \in Events : TakeEvent(s, e)
  BY <1>1 DEF Open, OpenFails, TakeEvent, rest
<1>2. CASE ContextDone(s) \/ ProviderCloses(s) \/ ReadActive(s) \/ CheckBudget(s)
           \/ CheckProgress(s)
  BY <1>2 DEF ContextDone, ProviderCloses, ReadActive, CheckBudget, CheckProgress, rest
<1>3. CASE Terminate(s) \/ Forward(s) \/ Read(s) \/ Cancel(s)
  BY <1>3 DEF Terminate, Forward, Read, Cancel, rest
<1>4. CASE CompleteReturns(s) \/ FallbackSends(s) \/ FallbackCloses(s)
  BY <1>4 DEF CompleteReturns, FallbackSends, FallbackCloses, rest
<1> QED
  BY <1>1, <1>2, <1>3, <1>4 DEF CallStep, Goroutine

\* What a step does to the records.
LEMMA TrackerMoves ==
  ASSUME PipelineInv, NEW s \in Streams, CallStep(s)
  PROVE  \/ UNCHANGED trackVars
         \/ \E d \in Events : hand[s] = <<d>> /\ Look(d) /\ CheckProgress(s)
<1>1. CASE CheckProgress(s)
  <2>1. PICK d \in Events : hand[s] = <<d>>
    BY <1>1, CallFacts DEF CallFactsOf, HandInv, Checking, CheckProgress
  <2>2. hand[s][1] = d
    BY <2>1
  <2> QED
    BY <1>1, <2>1, <2>2 DEF CheckProgress
<1>2. CASE ~CheckProgress(s)
  BY <1>2, TrackerUntouched
<1> QED
  BY <1>1, <1>2

LEMMA NextLoop == PipelineInv /\ LoopInv /\ PipelineInv' /\ [Next]_vars => LoopInv'
<1> SUFFICES ASSUME PipelineInv, LoopInv, PipelineInv', [Next]_vars,
                    supports', "loop" \in Enabled \cap Kills, clock' < Window,
                    NEW e \in Events, Tracked(e)
             PROVE  LoopInvOf(e)'
  BY DEF LoopInv
<1> DEFINE seen == Passing(PastLoop, SameAs(e))
           seen2 == Passing(PastLoop, SameAs(e))'
           count == history[Key(e)].count
           count2 == history'[Key(e)].count
<1>0. /\ seen \in Nat /\ seen2 \in Nat /\ count \in Nat /\ count2 \in Nat
      /\ Key(e) \in Keys /\ Threshold(e) \in Nat
      /\ clock \in Nat /\ clock' \in Nat /\ TypeOK
  <2>1. Key(e) \in Keys
    BY PipelineAssumption DEF IsEvent
  <2>2. count \in Nat /\ count2 \in Nat /\ clock \in Nat /\ clock' \in Nat /\ TypeOK
    BY <2>1, TrackerAssumption DEF PipelineInv, TypeOK, TrackTypeOK
  <2> QED
    BY <2>1, <2>2, SeenNat, SeenNatNext, ThresholdType
\* It is enough that what has passed grows only with the record.
<1>1. ASSUME supports, clock < Window,
             \/ seen2 <= seen /\ count2 >= count
             \/ /\ seen2 <= seen + 1 /\ count2 = count + 1
                /\ count = 0 \/ count + 1 <= Threshold(e)
      PROVE  LoopInvOf(e)'
  <2>1. /\ seen <= count
        /\ seen <= 1 \/ seen <= Threshold(e)
    BY <1>1 DEF LoopInv, LoopInvOf
  <2> HIDE DEF seen, seen2, count, count2
  <2>2. /\ seen2 <= count2
        /\ seen2 <= 1 \/ seen2 <= Threshold(e)
    BY <1>0, <1>1, <2>1
  <2> QED
    BY <2>2 DEF seen2, count2, LoopInvOf
<1>2. ASSUME NEW s \in Streams, CallStep(s) PROVE LoopInvOf(e)'
  <2>f. CallFactsOf(s)
    BY CallFacts
  <2>1. supports
    BY <1>2, SupportsStays
  <2>2. clock < Window
    <3>1. clock' = clock
      BY <1>2, TrackerMoves DEF Look, trackVars
    <3> QED
      BY <3>1
  <2>3. Cleaned = history
    BY <1>0, <2>2, NothingForgotten
  <2>4. ASSUME NEW d \in Events, Look(d) PROVE count2 >= count
    <3>1. history' = IF Tracked(d)
                     THEN [history EXCEPT ![Key(d)] = Record(history[Key(d)])]
                     ELSE history
      BY <2>3, <2>4 DEF Look
    <3>2. history \in [Keys -> [count : Nat, stamp : 0..MaxTime]]
      BY <1>0 DEF TypeOK, TrackTypeOK
    <3>3. \/ history'[Key(e)] = history[Key(e)]
          \/ history'[Key(e)] = Record(history[Key(e)])
      BY <1>0, <3>1, <3>2
    <3>4. count2 = count \/ count2 = count + 1
      BY <3>3 DEF Record
    <3> QED
      BY <1>0, <3>4
  <2>5. count2 >= count
    BY <1>0, <1>2, <2>4, TrackerMoves DEF trackVars
  <2>6. CASE CheckProgress(s) /\ pc'[s] = "budget"
    <3>1. PICK d \in Events : hand[s] = <<d>>
      BY <2>6, <2>f DEF CallFactsOf, HandInv, Checking, CheckProgress
    <3>2. hand[s][1] = d /\ \A c : hand[s] = <<c>> => c = d
      BY <3>1
    <3>3. Look(d) /\ ~Looping(d)
      BY <2>6, <2>f, <3>2 DEF CallFactsOf, CheckProgress, Objects, Goto
    <3>4. seen2 <= seen + SameAs(e)[d]
      <4>1. PastLoop \in {PastBudget, PastLoop} /\ SameAs(e)[d] \in Nat
        BY SameWeights
      <4>2. \/ seen2 <= seen
            \/ \E c \in Events : hand[s] = <<c>> /\ seen2 <= seen + SameAs(e)[c]
        BY <1>2, <2>1, <4>1, SameWeights, PassingMoves
      <4> QED
        BY <1>0, <3>2, <4>1, <4>2
    <3>5. CASE Key(d) = Key(e)
      <4>1. Tracked(d) /\ Threshold(d) = Threshold(e)
        BY <3>5, SameTreatment
      <4>2. history' = [history EXCEPT ![Key(e)] = Record(history[Key(e)])]
        BY <2>3, <3>3, <3>5, <4>1 DEF Look
      <4>3. count2 = count + 1
        BY <1>0, <4>2 DEF Record, TypeOK, TrackTypeOK
      <4>4. count = 0 \/ count + 1 <= Threshold(e)
        <5>1. history[Key(e)] = NoRecord \/ ~(count + 1 > Threshold(e))
          BY <2>3, <3>3, <3>5, <4>1 DEF Looping
        <5> QED
          BY <1>0, <5>1 DEF NoRecord
      <4>5. seen2 <= seen + 1
        BY <3>4, <3>5, SameWeights
      <4> QED
        BY <1>1, <2>1, <2>2, <4>3, <4>4, <4>5
    <3>6. CASE Key(d) # Key(e)
      <4>1. seen2 <= seen
        BY <1>0, <3>4, <3>6, SameWeights
      <4> QED
        BY <1>1, <2>1, <2>2, <2>5, <4>1
    <3> QED
      BY <3>5, <3>6
  <2>7. CASE ~(CheckProgress(s) /\ pc'[s] = "budget")
    <3>1. PastLoop \in {PastBudget, PastLoop} /\ PastLoop # PastBudget
      BY DEF PastLoop, PastBudget
    <3>2. seen2 <= seen
      BY <1>2, <2>1, <2>7, <3>1, SameWeights, PassingMoves
    <3> QED
      BY <1>1, <2>1, <2>2, <2>5, <3>2
  <2> QED
    BY <2>6, <2>7
<1>3. CASE Elapse \/ UNCHANGED vars
  <2>1. UNCHANGED <<history, supports, callVars>> /\ clock' >= clock
    <3>1. CASE Elapse
      <4>1. clock' = clock + 1 /\ UNCHANGED <<history, supports, callVars>>
        BY <3>1 DEF Elapse, TimePasses
      <4>2. clock' >= clock
        BY <1>0, <4>1
      <4> QED
        BY <4>1, <4>2
    <3>2. CASE UNCHANGED vars
      <4>1. clock' = clock /\ UNCHANGED <<history, supports, callVars>>
        BY <3>2 DEF vars, trackVars
      <4>2. clock' >= clock
        BY <1>0, <4>1
      <4> QED
        BY <4>1, <4>2
    <3> QED
      BY <1>3, <3>1, <3>2
  <2>2. seen2 = seen
    <3>1. \A t \in Streams : Passed(t, PastLoop)' = Passed(t, PastLoop)
      BY <2>1 DEF callVars, Passed
    <3> QED
      BY <3>1 DEF Passing
  <2>3. supports /\ clock < Window /\ count2 = count
    BY <1>0, <2>1, TrackerAssumption
  <2> QED
    BY <1>0, <1>1, <2>2, <2>3
<1> QED
  BY <1>2, <1>3 DEF Next, CallStep

\* However many calls share a progress tracker in "kill" mode: while nothing is old
\* enough to be forgotten, all callers together see an event no more often than its
\* threshold allows, or once.
THEOREM LoopsEnd == Spec => []LoopsAreCut
<1>1. Init => PipelineInv /\ LoopInv
  BY InitPipeline, InitLoop
<1>2. (PipelineInv /\ LoopInv) /\ [Next]_vars => (PipelineInv /\ LoopInv)'
  BY NextPipeline, NextLoop
<1>3. ASSUME PipelineInv, LoopInv PROVE LoopsAreCut
  <2> SUFFICES ASSUME supports, "loop" \in Enabled \cap Kills, clock < Window,
                      NEW e \in Events, Tracked(e)
               PROVE  Reached(SameAs(e)) <= 1 \/ Reached(SameAs(e)) <= Threshold(e)
    BY DEF LoopsAreCut
  <2>1. /\ Reached(SameAs(e)) \in Nat /\ Passing(PastLoop, SameAs(e)) \in Nat
        /\ Reached(SameAs(e)) <= Passing(PastLoop, SameAs(e))
    BY <1>3, ReachedHasPassed, SameWeights
  <2>2. \/ Passing(PastLoop, SameAs(e)) <= 1
        \/ Passing(PastLoop, SameAs(e)) <= Threshold(e)
    BY <1>3 DEF LoopInv, LoopInvOf
  <2> QED
    BY <2>1, <2>2, ThresholdType
<1> QED
  BY <1>1, <1>2, <1>3, PTL DEF Spec

-----------------------------------------------------------------------------
(* Runs of repetitions.                                                    *)

\* How many of the last times follow each other within a window: the candidates.
Runs(ts) ==
  {n \in 0..Len(ts) :
     \A i \in (Len(ts) - n + 1)..(Len(ts) - 1) : ts[i + 1] - ts[i] < Window}

LEMMA MaxIs ==
  ASSUME NEW S, S \subseteq Nat, NEW m \in S, \A x \in S : x <= m
  PROVE  Max(S) = m
<1>1. \A x \in S : m >= x
  OBVIOUS
<1>2. \A x \in S : (\A y \in S : x >= y) => x = m
  OBVIOUS
<1> QED
  BY <1>1, <1>2 DEF Max

LEMMA RunIs ==
  ASSUME NEW ts \in Seq(Nat)
  PROVE  /\ Run(ts) \in Runs(ts)
         /\ Run(ts) \in Nat
         /\ \A n \in Runs(ts) : n <= Run(ts)
<1>1. Len(ts) \in Nat
  BY LenProperties
<1>2. 0 \in Runs(ts)
  BY <1>1 DEF Runs
<1>3. Runs(ts) \subseteq 0..Len(ts)
  BY DEF Runs
<1> DEFINE short == {Len(ts) - n : n \in Runs(ts)}
<1>4. short \subseteq Nat /\ short # {}
  BY <1>1, <1>2, <1>3
<1>5. PICK x \in short : \A y \in short : x <= y
  BY <1>4, NatLeast
<1>6. PICK m \in Runs(ts) : x = Len(ts) - m
  BY <1>5
<1>7. \A n \in Runs(ts) : n <= m
  <2>1. ASSUME NEW n \in Runs(ts) PROVE n <= m
    <3>1. Len(ts) - n \in short
      OBVIOUS
    <3>2. Len(ts) - m <= Len(ts) - n
      BY <1>5, <1>6, <3>1
    <3>3. m \in Nat /\ n \in Nat
      BY <1>3
    <3> QED
      BY <1>1, <3>2, <3>3
  <2> QED
    BY <2>1
<1>8. Runs(ts) \subseteq Nat
  BY <1>3
<1>9. Max(Runs(ts)) = m
  BY <1>7, <1>8, MaxIs
<1>10. Run(ts) = Max(Runs(ts))
  BY DEF Run, Runs
<1> QED
  BY <1>7, <1>8, <1>9, <1>10

\* One more time goes on with the run, or starts another.
LEMMA RunAppend ==
  ASSUME NEW ts \in Seq(Nat), NEW t \in Nat
  PROVE  Run(Append(ts, t)) =
           IF ts # <<>> /\ t - ts[Len(ts)] < Window THEN Run(ts) + 1 ELSE 1
<1> DEFINE u == Append(ts, t)
<1>1. /\ u \in Seq(Nat) /\ Len(u) = Len(ts) + 1 /\ u[Len(ts) + 1] = t
      /\ \A i \in 1..Len(ts) : u[i] = ts[i]
      /\ Len(ts) \in Nat /\ (ts # <<>> <=> Len(ts) >= 1)
      /\ \A i \in 1..Len(ts) : ts[i] \in Nat
  BY AppendProperties, LenProperties, EmptySeq, ElementOfSeq
<1>2. Window \in Nat
  BY TrackerAssumption
<1> HIDE DEF u
<1>3. /\ Run(u) \in Runs(u) /\ Run(u) \in Nat
      /\ \A n \in Runs(u) : n <= Run(u)
  BY <1>1, RunIs
<1>4. /\ Run(ts) \in Runs(ts) /\ Run(ts) \in 0..Len(ts)
      /\ \A n \in Runs(ts) : n <= Run(ts)
  BY RunIs DEF Runs
<1>5. CASE ts # <<>> /\ t - ts[Len(ts)] < Window
  <2>1. Run(ts) + 1 \in Runs(u)
    <3>1. Run(ts) + 1 \in 0..Len(u)
      BY <1>1, <1>4
    <3>2. ASSUME NEW i \in (Len(u) - (Run(ts) + 1) + 1)..(Len(u) - 1)
          PROVE  u[i + 1] - u[i] < Window
      <4>1. i \in 1..Len(ts) /\ i >= Len(ts) - Run(ts) + 1
        BY <1>1, <1>4
      <4>2. CASE i = Len(ts)
        BY <1>1, <1>5, <4>1, <4>2
      <4>3. CASE i # Len(ts)
        <5>1. i + 1 \in 1..Len(ts) /\ i \in (Len(ts) - Run(ts) + 1)..(Len(ts) - 1)
          BY <1>1, <1>4, <4>1, <4>3
        <5>2. ts[i + 1] - ts[i] < Window
          BY <1>4, <5>1 DEF Runs
        <5> QED
          BY <1>1, <4>1, <5>1, <5>2
      <4> QED
        BY <4>2, <4>3
    <3> QED
      BY <3>1, <3>2 DEF Runs
  <2>2. ASSUME NEW n \in Runs(u) PROVE n <= Run(ts) + 1
    <3>1. n \in 0..(Len(ts) + 1)
      BY <1>1 DEF Runs
    <3>2. CASE n = 0
      BY <1>4, <3>2
    <3>3. CASE n # 0
      <4>1. n - 1 \in 0..Len(ts)
        BY <1>1, <3>1, <3>3
      <4>2. ASSUME NEW i \in (Len(ts) - (n - 1) + 1)..(Len(ts) - 1)
            PROVE  ts[i + 1] - ts[i] < Window
        <5>1. /\ i \in (Len(u) - n + 1)..(Len(u) - 1)
              /\ i \in 1..Len(ts) /\ i + 1 \in 1..Len(ts)
          BY <1>1, <3>1, <4>1
        <5>2. u[i + 1] - u[i] < Window
          BY <5>1 DEF Runs
        <5> QED
          BY <1>1, <5>1, <5>2
      <4>3. n - 1 \in Runs(ts)
        BY <4>1, <4>2 DEF Runs
      <4>4. n - 1 <= Run(ts)
        BY <1>4, <4>3
      <4> QED
        BY <1>4, <3>1, <4>4
    <3> QED
      BY <3>2, <3>3
  <2>3. Run(u) <= Run(ts) + 1 /\ Run(ts) + 1 <= Run(u)
    BY <1>3, <2>1, <2>2
  <2> QED
    BY <1>3, <1>4, <1>5, <2>3 DEF u
<1>6. CASE ~(ts # <<>> /\ t - ts[Len(ts)] < Window)
  <2>1. 1 \in Runs(u)
    BY <1>1 DEF Runs
  <2>2. ASSUME NEW n \in Runs(u) PROVE n <= 1
    <3>1. n \in 0..(Len(ts) + 1)
      BY <1>1 DEF Runs
    <3>2. SUFFICES ASSUME n >= 2 PROVE FALSE
      BY <3>1
    <3>3. Len(ts) \in (Len(u) - n + 1)..(Len(u) - 1) /\ Len(ts) \in 1..Len(ts)
      BY <1>1, <3>1, <3>2
    <3>4. u[Len(ts) + 1] - u[Len(ts)] < Window
      BY <3>3 DEF Runs
    <3> QED
      BY <1>1, <1>6, <3>3, <3>4, SMTT(30)
  <2>3. Run(u) <= 1 /\ 1 <= Run(u)
    BY <1>3, <2>1, <2>2
  <2> QED
    BY <1>3, <1>6, <2>3 DEF u
<1> QED
  BY <1>5, <1>6

-----------------------------------------------------------------------------
(* The tracker's records.                                                  *)

Looks == [key : Keys, at : 0..MaxTime]

\* When key k comes by in a list of looks.
TimesIn(q, k) ==
  LET of == Select(q, [key : {k}, at : 0..MaxTime])
  IN  [i \in 1..Len(of) |-> of[i].at]

LEMMA TimesAppend ==
  ASSUME NEW q \in Seq(Looks), NEW r \in Looks, NEW k
  PROVE  /\ TimesIn(q, k) \in Seq(Nat)
         /\ TimesIn(Append(q, r), k) =
              IF r.key = k THEN Append(TimesIn(q, k), r.at) ELSE TimesIn(q, k)
<1> DEFINE S == [key : {k}, at : 0..MaxTime]
           of == Select(q, S)
           of2 == Select(Append(q, r), S)
           times == [i \in 1..Len(of) |-> of[i].at]
<1>0. MaxTime \in Nat
  BY TrackerAssumption
<1>1. r \in S <=> r.key = k
  BY DEF Looks
<1>2. of \in Seq(Looks)
  BY SelectType
<1>3. Len(of) \in Nat /\ \A i \in 1..Len(of) : of[i] \in Looks
  BY <1>2, ElementOfSeq, LenProperties
<1>4. of2 = IF r \in S THEN Append(of, r) ELSE of
  BY SelectAppend
<1>5. TimesIn(q, k) = times /\ TimesIn(Append(q, r), k) = [i \in 1..Len(of2) |-> of2[i].at]
  BY DEF TimesIn
<1> HIDE DEF S, of, of2
<1>6. times \in Seq(Nat) /\ Len(times) = Len(of)
  <2>1. \A i \in 1..Len(of) : of[i].at \in Nat
    BY <1>0, <1>3 DEF Looks
  <2>2. times \in [1..Len(of) -> Nat]
    BY <2>1
  <2> QED
    BY <1>3, <2>2
<1>7. CASE r.key = k
  <2> DEFINE times2 == [i \in 1..Len(of2) |-> of2[i].at]
  <2>1. /\ Len(of2) = Len(of) + 1 /\ of2[Len(of) + 1] = r
        /\ \A i \in 1..Len(of) : of2[i] = of[i]
    BY <1>1, <1>2, <1>4, <1>7, AppendProperties
  <2>2. /\ times2[Len(of) + 1] = r.at
        /\ \A i \in 1..Len(of) : times2[i] = times[i]
    BY <1>3, <2>1
  <2>3. r.at \in Nat
    BY <1>0 DEF Looks
  <2>4. times2 \in Seq(Nat) /\ Len(times2) = Len(of) + 1
    <3>1. \A i \in 1..Len(of2) : of2[i].at \in Nat
      <4>1. ASSUME NEW i \in 1..Len(of2) PROVE of2[i] \in Looks
        BY <1>3, <2>1
      <4> QED
        BY <1>0, <4>1 DEF Looks
    <3>2. times2 \in [1..Len(of2) -> Nat]
      BY <3>1
    <3> QED
      BY <1>3, <2>1, <3>2
  <2> HIDE DEF times, times2
  <2> DEFINE a == Append(times, r.at)
  <2>5. /\ a \in Seq(Nat) /\ Len(a) = Len(times) + 1 /\ a[Len(times) + 1] = r.at
        /\ \A i \in 1..Len(times) : a[i] = times[i]
    BY <1>6, <2>3, AppendProperties
  <2> HIDE DEF a
  <2>6. ASSUME NEW i \in 1..Len(times2) PROVE times2[i] = a[i]
    <3>1. i \in 1..Len(of) \/ i = Len(of) + 1
      BY <1>3, <2>4
    <3>2. CASE i \in 1..Len(of)
      <4>1. i \in 1..Len(times)
        BY <1>6, <3>2
      <4> QED
        BY <2>2, <2>5, <3>2, <4>1
    <3>3. CASE i = Len(of) + 1
      BY <1>6, <2>2, <2>5, <3>3
    <3> QED
      BY <3>1, <3>2, <3>3
  <2>7. times2 = a
    BY <1>6, <2>4, <2>5, <2>6, SeqEqual
  <2> QED
    BY <1>5, <1>6, <1>7, <2>7 DEF a, times2
<1>8. CASE r.key # k
  BY <1>1, <1>4, <1>5, <1>6, <1>8
<1> QED
  BY <1>7, <1>8

\* A record is the length of the latest run of a key's times and the last of them; a key
\* without one has not come by for a window.
RecordOf(r, ts) ==
  IF r = NoRecord
  THEN ts = <<>> \/ clock - ts[Len(ts)] >= Window
  ELSE ts # <<>> /\ r = [count |-> Run(ts), stamp |-> ts[Len(ts)]]

RunsInv == \A k \in Keys : RecordOf(history[k], TimesIn(looked, k))

LEMMA InitRuns == Init => RunsInv
<1>1. ASSUME Init, NEW k \in Keys PROVE TimesIn(looked, k) = <<>> /\ history[k] = NoRecord
  BY <1>1, SelectEmpty DEF Init, TrackInit, TimesIn
<1> QED
  BY <1>1 DEF RunsInv, RecordOf

\* Forgetting keeps to what the times say.
LEMMA CleanedKeeps ==
  ASSUME TypeOK, RunsInv, NEW k \in Keys
  PROVE  RecordOf(Cleaned[k], TimesIn(looked, k))
<1> DEFINE ts == TimesIn(looked, k)
<1>1. RecordOf(history[k], ts) /\ looked \in Seq(Looks)
  BY DEF RunsInv, TypeOK, TrackTypeOK, Looks
<1>2. Cleaned[k] = IF Fresh(history[k]) THEN history[k] ELSE NoRecord
  BY DEF Cleaned
<1>3. CASE Fresh(history[k]) \/ history[k] = NoRecord
  BY <1>1, <1>2, <1>3
<1>4. CASE ~Fresh(history[k]) /\ history[k] # NoRecord
  <2>1. ts # <<>> /\ history[k] = [count |-> Run(ts), stamp |-> ts[Len(ts)]]
    BY <1>1, <1>4 DEF RecordOf
  <2>2. history[k].stamp = ts[Len(ts)] /\ history[k].stamp \in 0..MaxTime
    BY <2>1 DEF TypeOK, TrackTypeOK
  <2>3. clock - ts[Len(ts)] >= Window
    BY <1>4, <2>2, TrackerAssumption DEF Fresh, TypeOK, TrackTypeOK
  <2> QED
    BY <1>2, <1>4, <2>3 DEF RecordOf
<1> QED
  BY <1>3, <1>4

LEMMA LookKeepsRuns ==
  ASSUME TypeOK, RunsInv, NEW e \in Events, Look(e)
  PROVE  RunsInv'
<1>1. /\ Key(e) \in Keys /\ clock \in 0..MaxTime /\ clock' = clock
      /\ looked \in Seq(Looks)
      /\ [key |-> Key(e), at |-> clock] \in Looks
      /\ Window \in Nat /\ MaxTime \in Nat
  BY PipelineAssumption, TrackerAssumption DEF IsEvent, TypeOK, TrackTypeOK, Looks, Look
<1>2. Cleaned \in [Keys -> [count : Nat, stamp : 0..MaxTime]]
  BY TrackerAssumption DEF Cleaned, TypeOK, TrackTypeOK, NoRecord
<1>3. ASSUME NEW k \in Keys, ~Tracked(e) \/ k # Key(e)
      PROVE  RecordOf(history[k], TimesIn(looked, k))'
  <2>1. history'[k] = Cleaned[k]
    BY <1>2, <1>3 DEF Look
  <2>2. TimesIn(looked', k) = TimesIn(looked, k)
    <3>1. CASE ~Tracked(e)
      BY <3>1 DEF Look
    <3>2. CASE Tracked(e)
      BY <1>1, <1>3, <3>2, TimesAppend DEF Look
    <3> QED
      BY <3>1, <3>2
  <2>3. RecordOf(Cleaned[k], TimesIn(looked, k))
    BY CleanedKeeps
  <2> QED
    BY <1>1, <2>1, <2>2, <2>3 DEF RecordOf
<1>4. ASSUME Tracked(e) PROVE RecordOf(history[Key(e)], TimesIn(looked, Key(e)))'
  <2> DEFINE k == Key(e)
             ts == TimesIn(looked, k)
             ts2 == Append(ts, clock)
  <2>1. /\ ts \in Seq(Nat) /\ TimesIn(looked', k) = ts2
    BY <1>1, <1>4, TimesAppend DEF Look
  <2>2. history'[k] = [count |-> Cleaned[k].count + 1, stamp |-> clock]
    BY <1>1, <1>2, <1>4 DEF Look, Record
  <2>3. RecordOf(Cleaned[k], ts) /\ Cleaned[k] \in [count : Nat, stamp : 0..MaxTime]
    BY <1>1, <1>2, CleanedKeeps
  <2>4. clock \in Nat /\ (Fresh(Cleaned[k]) \/ Cleaned[k] = NoRecord)
    BY <1>1 DEF Cleaned
  <2>5. /\ ts2 # <<>> /\ ts2[Len(ts2)] = clock
        /\ Run(ts2) = IF ts # <<>> /\ clock - ts[Len(ts)] < Window THEN Run(ts) + 1 ELSE 1
    <3>1. ts2 # <<>> /\ ts2[Len(ts2)] = clock
      BY <2>1, <2>4, OneMore
    <3> QED
      BY <2>1, <2>4, <3>1, RunAppend
  <2>6. Cleaned[k].count + 1 = Run(ts2)
    <3>1. CASE Cleaned[k] = NoRecord
      <4>1. ts = <<>> \/ clock - ts[Len(ts)] >= Window
        BY <2>3, <3>1 DEF RecordOf
      <4>2. ts # <<>> => ts[Len(ts)] \in Nat
        <5>1. ts # <<>> => Len(ts) \in 1..Len(ts)
          BY <2>1, EmptySeq, LenProperties
        <5> QED
          BY <2>1, <5>1, ElementOfSeq
      <4>3. ~(ts # <<>> /\ clock - ts[Len(ts)] < Window)
        BY <1>1, <2>4, <4>1, <4>2
      <4> QED
        BY <2>5, <3>1, <4>3 DEF NoRecord
    <3>2. CASE Cleaned[k] # NoRecord
      <4>1. ts # <<>> /\ Cleaned[k] = [count |-> Run(ts), stamp |-> ts[Len(ts)]]
        BY <2>3, <3>2 DEF RecordOf
      <4>2. clock - ts[Len(ts)] < Window
        <5>1. Cleaned[k].stamp = ts[Len(ts)] /\ Cleaned[k].stamp \in Nat
          BY <1>1, <2>3, <4>1
        <5> QED
          BY <1>1, <2>4, <3>2, <5>1 DEF Fresh
      <4> QED
        BY <2>5, <4>1, <4>2
    <3> QED
      BY <3>1, <3>2
  <2>7. history'[k] # NoRecord
    BY <2>2, <2>3 DEF NoRecord
  <2> HIDE DEF k, ts, ts2
  <2>8. history'[k] = [count |-> Run(ts2), stamp |-> ts2[Len(ts2)]]
    BY <2>2, <2>5, <2>6
  <2> QED
    BY <2>1, <2>5, <2>7, <2>8 DEF RecordOf, k
<1> QED
  BY <1>3, <1>4 DEF RunsInv

LEMMA NextRuns == PipelineInv /\ RunsInv /\ [Next]_vars => RunsInv'
<1> SUFFICES ASSUME PipelineInv, RunsInv, [Next]_vars PROVE RunsInv'
  OBVIOUS
<1>1. ASSUME UNCHANGED trackVars PROVE RunsInv'
  BY <1>1 DEF trackVars, RunsInv, RecordOf
<1>2. ASSUME NEW s \in Streams, CallStep(s) PROVE RunsInv'
  BY <1>1, <1>2, TrackerMoves, LookKeepsRuns DEF PipelineInv
<1>3. CASE Elapse
  <2>1. history' = history /\ looked' = looked /\ clock' = clock + 1
    BY <1>3 DEF Elapse, TimePasses
  <2>2. ASSUME NEW k \in Keys PROVE RecordOf(history[k], TimesIn(looked, k))'
    <3> DEFINE ts == TimesIn(looked, k)
    <3>1. RecordOf(history[k], ts) /\ looked \in Seq(Looks) /\ clock \in 0..MaxTime
          /\ Window \in Nat /\ MaxTime \in Nat
      BY TrackerAssumption DEF RunsInv, PipelineInv, TypeOK, TrackTypeOK, Looks
    <3>2. ts # <<>> => ts[Len(ts)] \in Nat
      <4>1. ts \in Seq(Nat)
        <5>1. [key |-> k, at |-> clock] \in Looks
          BY <3>1 DEF Looks
        <5> QED
          BY <3>1, <5>1, TimesAppend
      <4>2. ts # <<>> => Len(ts) \in 1..Len(ts)
        BY <4>1, EmptySeq, LenProperties
      <4> QED
        BY <4>1, <4>2, ElementOfSeq
    <3> HIDE DEF ts
    <3>3. clock - ts[Len(ts)] >= Window /\ ts # <<>> => (clock + 1) - ts[Len(ts)] >= Window
      BY <3>1, <3>2
    <3>4. /\ history[k] = NoRecord => ts = <<>> \/ (clock + 1) - ts[Len(ts)] >= Window
          /\ history[k] # NoRecord =>
               ts # <<>> /\ history[k] = [count |-> Run(ts), stamp |-> ts[Len(ts)]]
      BY <3>1, <3>3 DEF RecordOf
    <3> QED
      BY <2>1, <3>4 DEF ts, RecordOf
  <2> QED
    BY <2>2 DEF RunsInv
<1>4. CASE UNCHANGED vars
  BY <1>1, <1>4 DEF vars
<1> QED
  BY <1>2, <1>3, <1>4 DEF Next, CallStep

\* Whatever comes by and whenever: the tracker's records, cleaned on every event of any
\* call, are what one that forgets nothing would compute.
THEOREM RecordsAreExact == Spec => []RecordsAreRuns
<1>1. Init => PipelineInv /\ RunsInv
  BY InitPipeline, InitRuns
<1>2. (PipelineInv /\ RunsInv) /\ [Next]_vars => (PipelineInv /\ RunsInv)'
  BY NextPipeline, NextRuns
<1>3. RunsInv => RecordsAreRuns
  BY DEF RunsInv, RecordOf, RecordsAreRuns, Times, TimesIn
<1> QED
  BY <1>1, <1>2, <1>3, PTL DEF Spec

-----------------------------------------------------------------------------
(* AdapterMemory. *)

----------------------------------------------------------------------------
(* The invariant. *)

Entry == [total : Nat, uuid : Nat, delta : Nat, seq : Nat]
Result == [type : {"result", "failure"}, session : Sessions, uuid : Nat,
           total : Nat, usage : Nat, model : Nat]

\* The lines of opencode turns.
Speech == { l \in UNION { ToSet(s) : s \in Scripts } :
              l.type \in {"step_start", "text", "step_finish"} }

\* What a goroutine has still to parse: one result, or lines of a script.
Output == Seq(Speech) \union { <<r>> : r \in Result }

Process == [session : Sessions \union Chats \union {""}, lines : Output,
            surface : Surface, script : Scripts \union {<<>>}]

TypeInv ==
  /\ DOMAIN entries \subseteq Sessions
  /\ entries \in [DOMAIN entries -> Entry]
  /\ seq \in Nat /\ turns \in Nat
  /\ cli \in [Sessions -> Nat] /\ ran \in [Sessions -> Nat]
  /\ charged \in [Surface -> [Sessions -> Nat]]
  /\ proc \in [Procs -> Process]

\* A session has one turn at a time.
Apart == \A p, q \in Procs :
  p # q /\ proc[p].session = proc[q].session => proc[p].session = ""

\* What the next result of a session would be charged if it cost nothing.
Gap(s) == IF cli[s] >= entries[s].total THEN cli[s] - entries[s].total ELSE cli[s]

\* What was charged, with what the CLI has counted since the last result the ledger
\* knows, is paid for by the turns that ran.
Room == \A x \in Surface, s \in Sessions :
  /\ charged[x][s] <= ran[s]
  /\ Has(s) => charged[x][s] + Gap(s) <= ran[s]

\* A surface the line of p has still to be parsed for.
Due(p, x) == Parses(p, "result") /\ (proc[p].surface = "legacy" \/ x = "typed")

\* A line yet to be charged is paid for, whichever way it will be charged: as a turn
\* of its own or, seen before, by what was found then.
DuePaid == \A p \in Procs, x \in Surface : Due(p, x) =>
  /\ proc[p].session # "" /\ Line(p).session = proc[p].session
  /\ Line(p).total = cli[Line(p).session] /\ Line(p).model = Line(p).total
  /\ charged[x][Line(p).session] + Line(p).usage <= ran[Line(p).session]
  /\ Again(Line(p)) =>
       /\ entries[Line(p).session].total = Line(p).total
       /\ charged[x][Line(p).session] + entries[Line(p).session].delta <= ran[Line(p).session]

\* No line of a turn to come has been written or is in the ledger.
PastOnly ==
  /\ \A s \in DOMAIN entries : entries[s].uuid <= turns
  /\ \A p \in Procs : Parses(p, "result") => Line(p).uuid <= turns

Inv == TypeInv /\ Apart /\ Room /\ DuePaid /\ PastOnly

----------------------------------------------------------------------------
(* Lines. *)

LEMMA ScriptsAreSpeech == \A s \in Scripts : s \in Seq(Speech)
<1> SUFFICES ASSUME NEW s \in Scripts PROVE s \in Seq(Speech)
  OBVIOUS
<1> DEFINE S == {l \in ToSet(s) : l.type \in {"step_start", "text", "step_finish"}}
<1>1. s \in Seq(S)
  BY TurnAssumption
<1>2. S \subseteq Speech
  BY DEF Speech
<1> HIDE DEF S
<1> QED
  BY <1>1, <1>2

\* A result is a goroutine's only line.
LEMMA ResultAlone ==
  ASSUME TypeInv, NEW p \in Procs, Parses(p, "result")
  PROVE  /\ Line(p) \in Result /\ Len(proc[p].lines) = 1
         /\ proc[p] \in Process
<1>1. proc[p] \in Process /\ proc[p].lines \in Output
  BY DEF TypeInv, Process
<1>2. proc[p].lines \notin Seq(Speech)
  <2> SUFFICES ASSUME proc[p].lines \in Seq(Speech) PROVE FALSE
    OBVIOUS
  <2>1. Head(proc[p].lines) \in Speech
    BY HeadTailProperties DEF Parses
  <2> QED
    BY <2>1 DEF Parses, Line, Speech
<1>3. PICK r \in Result : proc[p].lines = <<r>>
  BY <1>1, <1>2 DEF Output
<1> QED
  BY <1>1, <1>3 DEF Line

\* What remains after a line is output of the same kind.
LEMMA ParsedProcess ==
  ASSUME TypeInv, NEW p \in Procs, proc[p].lines # <<>>, Parsed(p)
  PROVE  /\ proc' \in [Procs -> Process]
         /\ \A q \in Procs : q # p => proc'[q] = proc[q]
         /\ proc'[p].session \in {proc[p].session, ""}
         /\ Parses(p, "result")' => /\ Parses(p, "result")
                                    /\ proc[p].surface = "legacy" /\ proc'[p].surface = "typed"
                                    /\ proc'[p].session = proc[p].session
                                    /\ proc'[p].lines = proc[p].lines
<1>1. proc[p] \in Process /\ proc[p].lines \in Output /\ proc \in [Procs -> Process]
  BY DEF TypeInv, Process
<1>2. Idle \in Process
  BY EmptySeq DEF Idle, Process, Output, Surface
<1>3. CASE proc[p].surface = "legacy"
  <2>1. proc' = [proc EXCEPT ![p] = [proc[p] EXCEPT !.surface = "typed"]]
    BY <1>3 DEF Parsed
  <2> QED
    BY <1>1, <1>3, <2>1 DEF Process, Surface, Parses, Line
<1>4. CASE proc[p].surface # "legacy" /\ Len(proc[p].lines) = 1
  <2>1. proc' = [proc EXCEPT ![p] = Idle]
    BY <1>4 DEF Parsed
  <2> QED
    BY <1>1, <1>2, <2>1 DEF Idle, Parses
<1>5. CASE proc[p].surface # "legacy" /\ Len(proc[p].lines) # 1
  <2>1. proc' = [proc EXCEPT ![p] = [proc[p] EXCEPT !.surface = "legacy", !.lines = Tail(proc[p].lines)]]
    BY <1>5 DEF Parsed
  <2>2. proc[p].lines \in Seq(Speech)
    BY <1>1, <1>5 DEF Output
  <2>3. Tail(proc[p].lines) \in Seq(Speech)
    BY <2>2, HeadTailProperties
  <2>4. proc' \in [Procs -> Process]
    BY <1>1, <2>1, <2>3 DEF Process, Output, Surface
  <2>5. ~Parses(p, "result")'
    <3> SUFFICES ASSUME Parses(p, "result")' PROVE FALSE
      OBVIOUS
    <3>1. proc'[p].lines = Tail(proc[p].lines)
      BY <1>1, <2>1 DEF Process
    <3>2. Head(Tail(proc[p].lines)) \in Speech
      BY <2>3, <3>1, HeadTailProperties DEF Parses
    <3> QED
      BY <3>1, <3>2 DEF Parses, Line, Speech
  <2> QED
    BY <1>1, <2>1, <2>4, <2>5 DEF Process
<1> QED
  BY <1>3, <1>4, <1>5

----------------------------------------------------------------------------
(* What a result is charged. *)

\* What the ledger makes of a line is covered, on every surface it is still due on,
\* and the line it remembers is the one last counted.
LEMMA DeltaPaid ==
  ASSUME Inv, NEW p \in Procs, NEW x \in Surface, Due(p, x)
  PROVE  /\ Delta(Line(p)) \in Nat
         /\ charged[x][Line(p).session] + Delta(Line(p)) <= ran[Line(p).session]
<1> DEFINE l == Line(p)
           s == Line(p).session
<1>1. l \in Result /\ s \in Sessions
  BY ResultAlone DEF Due, Inv, Result
<1>2. /\ charged[x][s] \in Nat /\ ran[s] \in Nat /\ cli[s] \in Nat
      /\ l.total \in Nat /\ l.usage \in Nat /\ l.model \in Nat
  BY <1>1 DEF Inv, TypeInv, Result
<1>3. Has(s) => entries[s] \in Entry
  BY DEF Inv, TypeInv, Has
<1>4. /\ l.total = cli[s] /\ charged[x][s] + l.usage <= ran[s]
      /\ l.model = l.total
      /\ Again(l) => charged[x][s] + entries[s].delta <= ran[s]
  BY DEF Inv, DuePaid
<1>5. /\ charged[x][s] <= ran[s]
      /\ Has(s) => charged[x][s] + Gap(s) <= ran[s]
  BY <1>1 DEF Inv, Room
<1>6. CASE Again(l)
  BY <1>2, <1>3, <1>4, <1>6 DEF Delta, Again, Entry
<1>7. CASE ~Again(l) /\ ~Has(s)
  <2>1. Delta(l) = IF CoversOneTurn(l) THEN l.total ELSE 0
    BY <1>7 DEF Delta
  <2>2. CoversOneTurn(l) => l.total = l.usage
    BY <1>4 DEF CoversOneTurn
  <2> QED
    BY <1>2, <1>4, <1>5, <2>1, <2>2
<1>8. CASE ~Again(l) /\ Has(s)
  <2>1. Delta(l) = IF l.total >= entries[s].total THEN l.total - entries[s].total ELSE l.total
    BY <1>8 DEF Delta
  <2>2. Delta(l) = Gap(s)
    BY <1>4, <2>1 DEF Gap
  <2>3. entries[s].total \in Nat
    BY <1>3, <1>8 DEF Entry
  <2> QED
    BY <1>2, <1>4, <1>5, <1>8, <2>1, <2>2, <2>3 DEF Gap
<1> QED
  BY <1>6, <1>7, <1>8

\* What the ledger remembers once a line has been accounted for.
LEMMA AccountKeeps ==
  ASSUME TypeInv, NEW l \in Result, Account(l), Delta(l) \in Nat
  PROVE  /\ seq' \in Nat
         /\ DOMAIN entries' \subseteq Sessions
         /\ entries' \in [DOMAIN entries' -> Entry]
         /\ \A s \in DOMAIN entries' : s # l.session => s \in DOMAIN entries /\ entries'[s] = entries[s]
         /\ l.session \in DOMAIN entries'
         /\ entries'[l.session].uuid = l.uuid /\ entries'[l.session].delta = Delta(l)
         /\ entries'[l.session].total =
              IF Again(l) THEN entries[l.session].total ELSE l.total
<1>1. l.session \in Sessions /\ l.total \in Nat /\ l.uuid \in Nat
  BY DEF Result
<1>2. /\ DOMAIN entries \subseteq Sessions /\ entries \in [DOMAIN entries -> Entry]
      /\ seq \in Nat
  BY DEF TypeInv
<1>3. CASE Again(l)
  <2>1. entries' = [entries EXCEPT ![l.session].seq = seq + 1] /\ seq' = seq + 1
    BY <1>3 DEF Account
  <2>2. l.session \in DOMAIN entries /\ entries[l.session].uuid = l.uuid
    BY <1>3 DEF Again, Has
  <2>3. Delta(l) = entries[l.session].delta
    BY <1>3, <2>2 DEF Delta, Has
  <2> QED
    BY <1>2, <1>3, <2>1, <2>2, <2>3 DEF Entry
<1>4. CASE ~Again(l)
  <2> DEFINE gone == IF Has(l.session) THEN {} ELSE Evicted
             new == [total |-> l.total, uuid |-> l.uuid, delta |-> Delta(l), seq |-> seq + 1]
  <2>1. /\ seq' = seq + 1
        /\ entries' = [s \in (DOMAIN entries \ gone) \union {l.session} |->
                         IF s = l.session THEN new ELSE entries[s]]
    BY <1>4 DEF Account
  <2>2. new \in Entry
    BY <1>1, <1>2 DEF Entry
  <2> HIDE DEF gone
  <2> QED
    BY <1>1, <1>2, <1>4, <2>1, <2>2
<1> QED
  BY <1>3, <1>4

----------------------------------------------------------------------------
(* The steps. *)

LEMMA PastGrows ==
  ASSUME NEW m \in Nat, NEW n \in Nat, m <= n,
         NEW S, NEW e, \A s \in S : e[s].uuid \in Nat /\ e[s].uuid <= m
  PROVE  \A s \in S : e[s].uuid <= n
<1> SUFFICES ASSUME NEW s \in S PROVE e[s].uuid <= n
  OBVIOUS
<1>1. \A k \in Nat : k <= m => k <= n
  OBVIOUS
<1> QED
  BY <1>1

\* Steps that leave the ledger and the counts alone and give no process a result.
LEMMA AloneKeeps ==
  ASSUME Inv, UNCHANGED <<ledgerVars, cli, ran, charged>>,
         turns' \in Nat, turns' >= turns,
         proc' \in [Procs -> Process],
         NEW p \in Procs, \A q \in Procs : q # p => proc'[q] = proc[q],
         proc'[p].session = "" \/ \A q \in Procs : q # p => proc[q].session # proc'[p].session,
         ~Parses(p, "result")'
  PROVE  Inv'
<1>1. TypeInv'
  BY DEF Inv, TypeInv, ledgerVars
<1>2. Apart'
  BY DEF Inv, Apart
<1>3. Room'
  BY DEF Inv, Room, Gap, Has, ledgerVars
<1>4. PastOnly'
  <2>1. \A s \in DOMAIN entries : entries[s].uuid \in Nat /\ entries[s].uuid <= turns
    BY DEF Inv, TypeInv, PastOnly, Entry
  <2>2. entries' = entries /\ turns \in Nat /\ turns' \in Nat /\ turns <= turns'
    BY DEF Inv, TypeInv, ledgerVars
  <2>3. \A s \in DOMAIN entries : entries[s].uuid <= turns'
    BY <2>1, <2>2, PastGrows
  <2> DEFINE W == {q \in Procs : Parses(q, "result")}
             l == [q \in W |-> Line(q)]
  <2>4. \A q \in W : l[q].uuid \in Nat /\ l[q].uuid <= turns
    BY ResultAlone DEF Inv, PastOnly, Result
  <2>5. \A q \in W : Line(q).uuid <= turns'
    <3>1. \A q \in W : l[q].uuid <= turns'
      <4> HIDE DEF W, l
      <4> QED
        BY <2>2, <2>4, PastGrows
    <3> QED
      BY <3>1
  <2>6. \A q \in Procs : Parses(q, "result")' => q \in W /\ Line(q)' = Line(q)
    BY DEF Parses, Line
  <2> HIDE DEF W
  <2> QED
    BY <2>2, <2>3, <2>5, <2>6 DEF PastOnly
<1>5. DuePaid'
  <2> SUFFICES ASSUME NEW q \in Procs, NEW x \in Surface, Due(q, x)'
               PROVE  /\ proc'[q].session # "" /\ Line(q)'.session = proc'[q].session
                      /\ Line(q)'.total = cli'[Line(q)'.session] /\ Line(q)'.model = Line(q)'.total
                      /\ charged'[x][Line(q)'.session] + Line(q)'.usage <= ran'[Line(q)'.session]
                      /\ Again(Line(q))' =>
                           /\ entries'[Line(q)'.session].total = Line(q)'.total
                           /\ charged'[x][Line(q)'.session] + entries'[Line(q)'.session].delta <= ran'[Line(q)'.session]
    BY DEF DuePaid
  <2>1. q # p /\ proc'[q] = proc[q]
    BY DEF Due
  <2>2. Due(q, x) /\ Line(q)' = Line(q)
    BY <2>1 DEF Due, Parses, Line
  <2> QED
    BY <2>1, <2>2 DEF Inv, DuePaid, Again, Has, ledgerVars
<1> QED
  BY <1>1, <1>2, <1>3, <1>4, <1>5 DEF Inv

\* A line that is not a result.
LEMMA QuietKeeps ==
  ASSUME Inv, UNCHANGED <<ledgerVars, turns, cli, ran, charged>>, NEW p \in Procs,
         proc[p].lines # <<>>, ~Parses(p, "result"), Parsed(p)
  PROVE  Inv'
<1>1. /\ proc' \in [Procs -> Process]
      /\ \A q \in Procs : q # p => proc'[q] = proc[q]
      /\ proc'[p].session \in {proc[p].session, ""}
      /\ ~Parses(p, "result")'
  BY ParsedProcess DEF Inv
<1>2. proc'[p].session = "" \/ \A q \in Procs : q # p => proc[q].session # proc'[p].session
  BY <1>1 DEF Inv, Apart
<1>3. turns' \in Nat /\ turns' >= turns
  BY DEF Inv, TypeInv
<1> QED
  BY <1>1, <1>2, <1>3, AloneKeeps

\* An idle process starts a turn of a session no other one has.
LEMMA FreshSession ==
  ASSUME Inv, NEW p \in Procs, proc[p] = Idle, NEW s, ~Busy(s)
  PROVE  s # "" /\ \A q \in Procs : proc[q].session # s
<1>1. \A q \in Procs : proc[q].session # s
  BY DEF Busy
<1>2. Idle.session = ""
  BY DEF Idle
<1> QED
  BY <1>1, <1>2

LEMMA OpencodeKeeps ==
  ASSUME Inv, NEW p \in Procs, NEW s \in Chats, NEW script \in Scripts, OpencodeTurn(p, s, script)
  PROVE  Inv'
<1>1. proc' = [proc EXCEPT ![p] = [Idle EXCEPT !.session = s, !.lines = script, !.script = script]]
  BY DEF OpencodeTurn
<1>2. script \in Seq(Speech)
  BY ScriptsAreSpeech
<1>3. [Idle EXCEPT !.session = s, !.lines = script, !.script = script] \in Process
  BY <1>2 DEF Idle, Process, Output, Surface
<1>4. proc \in [Procs -> Process]
  BY DEF Inv, TypeInv
<1>5. /\ proc' \in [Procs -> Process] /\ \A q \in Procs : q # p => proc'[q] = proc[q]
      /\ proc'[p].session = s /\ proc'[p].lines = script
  BY <1>1, <1>3, <1>4 DEF Idle
<1>6. ~Parses(p, "result")'
  <2> SUFFICES ASSUME Parses(p, "result")' PROVE FALSE
    OBVIOUS
  <2>1. Head(script) \in Speech
    BY <1>2, <1>5, HeadTailProperties DEF Parses
  <2> QED
    BY <1>5, <2>1 DEF Parses, Line, Speech
<1>7. \A q \in Procs : q # p => proc[q].session # proc'[p].session
  BY <1>5, FreshSession DEF OpencodeTurn
<1>8. turns' \in Nat /\ turns' >= turns
  BY DEF OpencodeTurn, Inv, TypeInv
<1> QED
  BY <1>5, <1>6, <1>7, <1>8, AloneKeeps DEF OpencodeTurn

LEMMA DiesKeeps == ASSUME Inv, NEW p \in Procs, Dies(p) PROVE Inv'
<1>1. Idle \in Process
  BY EmptySeq DEF Idle, Process, Output, Surface
<1>2. proc' = [proc EXCEPT ![p] = Idle] /\ proc \in [Procs -> Process]
  BY DEF Dies, Inv, TypeInv
<1>3. /\ proc' \in [Procs -> Process] /\ \A q \in Procs : q # p => proc'[q] = proc[q]
      /\ proc'[p].session = "" /\ ~Parses(p, "result")'
  BY <1>1, <1>2 DEF Idle, Parses
<1>4. turns' \in Nat /\ turns' >= turns
  BY DEF Dies, Inv, TypeInv
<1> QED
  BY <1>3, <1>4, AloneKeeps DEF Dies

\* A turn that costs c leaves room for c more, and its line, the only one of its
\* session, carries what the CLI counts.
LEMMA ClaudeTurnKeeps ==
  ASSUME Inv, NEW p \in Procs, NEW s \in Sessions, NEW c \in Costs,
         NEW fresh \in BOOLEAN, NEW good \in BOOLEAN, ClaudeTurn(p, s, c, fresh, good)
  PROVE  Inv'
<1> DEFINE total == IF fresh THEN c ELSE cli[s] + c
           line == [type |-> IF good THEN "result" ELSE "failure", session |-> s,
                    uuid |-> turns + 1, total |-> total, usage |-> c, model |-> total]
           new == [Idle EXCEPT !.session = s, !.lines = <<line>>]
<1>1. /\ proc[p] = Idle /\ turns' = turns + 1
      /\ cli' = [cli EXCEPT ![s] = total]
      /\ proc' = [proc EXCEPT ![p] = new]
      /\ ran' = [ran EXCEPT ![s] = ran[s] + c]
      /\ UNCHANGED <<ledgerVars, charged>>
  BY DEF ClaudeTurn
<1>2. /\ c \in Nat /\ turns \in Nat /\ cli \in [Sessions -> Nat] /\ ran \in [Sessions -> Nat]
      /\ proc \in [Procs -> Process] /\ total \in Nat
      /\ charged \in [Surface -> [Sessions -> Nat]]
      /\ DOMAIN entries \subseteq Sessions /\ entries \in [DOMAIN entries -> Entry]
  BY TurnAssumption DEF Inv, TypeInv
<1>3. line \in Result
  BY <1>2 DEF Result
<1>4. new \in Process /\ new.session = s /\ new.lines = <<line>>
  BY <1>3 DEF Idle, Process, Output, Surface
<1>5. s # "" /\ \A q \in Procs : proc[q].session # s
  BY FreshSession DEF ClaudeTurn
<1>6. /\ total >= c
      /\ Has(s) => Gap(s)' <= Gap(s) + c
  <2>1. total >= c
    BY <1>2
  <2>2. ASSUME Has(s) PROVE Gap(s)' <= Gap(s) + c
    <3>1. entries[s].total \in Nat /\ entries' = entries /\ cli'[s] = total
      BY <1>1, <1>2, <2>2 DEF Has, Entry, ledgerVars
    <3> QED
      BY <1>2, <3>1 DEF Gap
  <2> QED
    BY <2>1, <2>2
<1> HIDE DEF total, line, new
<1>7. TypeInv'
  BY <1>1, <1>2, <1>4 DEF Inv, TypeInv, ledgerVars
<1>8. Apart'
  BY <1>1, <1>2, <1>4, <1>5 DEF Inv, Apart
<1>9. Room'
  <2> SUFFICES ASSUME NEW x \in Surface, NEW t \in Sessions
               PROVE  /\ charged'[x][t] <= ran'[t]
                      /\ Has(t)' => charged'[x][t] + Gap(t)' <= ran'[t]
    BY DEF Room
  <2>1. /\ charged[x][t] <= ran[t] /\ (Has(t) => charged[x][t] + Gap(t) <= ran[t])
        /\ charged'[x][t] = charged[x][t] /\ charged[x][t] \in Nat
        /\ entries' = entries /\ (Has(t)' <=> Has(t))
    BY <1>1, <1>2 DEF Inv, Room, Has, ledgerVars
  <2>2. CASE t = s
    <3>1. ran'[t] = ran[t] + c /\ ran[t] \in Nat
      BY <1>1, <1>2, <2>2
    <3>2. ASSUME Has(t) PROVE Gap(t) \in Nat /\ Gap(t)' \in Nat
      <4>1. entries[t].total \in Nat /\ cli[t] \in Nat /\ cli'[t] \in Nat
        BY <1>1, <1>2, <3>2 DEF Has, Entry
      <4> QED
        BY <2>1, <4>1 DEF Gap
    <3> QED
      BY <1>2, <1>6, <2>1, <2>2, <3>1, <3>2
  <2>3. CASE t # s
    BY <1>1, <1>2, <2>1, <2>3 DEF Gap
  <2> QED
    BY <2>2, <2>3
<1>10. PastOnly'
  <2>1. \A t \in DOMAIN entries : entries[t].uuid \in Nat /\ entries[t].uuid <= turns
    BY <1>2 DEF Inv, PastOnly, Entry
  <2>2. ASSUME NEW q \in Procs, Parses(q, "result")' PROVE Line(q)'.uuid <= turns'
    <3>1. CASE q = p
      BY <1>1, <1>2, <1>4, <3>1 DEF Line, line
    <3>2. CASE q # p
      <4>1. Parses(q, "result") /\ Line(q)' = Line(q)
        BY <1>1, <2>2, <3>2 DEF Parses, Line
      <4>2. Line(q).uuid \in Nat /\ Line(q).uuid <= turns
        BY <4>1, ResultAlone DEF Inv, PastOnly, Result
      <4> QED
        BY <1>1, <1>2, <4>1, <4>2
    <3> QED
      BY <3>1, <3>2
  <2> QED
    BY <1>1, <1>2, <2>1, <2>2 DEF PastOnly, ledgerVars
<1>11. ASSUME NEW q \in Procs, NEW x \in Surface, Due(q, x)'
       PROVE  /\ proc'[q].session # "" /\ Line(q)'.session = proc'[q].session
              /\ Line(q)'.total = cli'[Line(q)'.session] /\ Line(q)'.model = Line(q)'.total
              /\ charged'[x][Line(q)'.session] + Line(q)'.usage <= ran'[Line(q)'.session]
              /\ Again(Line(q))' =>
                   /\ entries'[Line(q)'.session].total = Line(q)'.total
                   /\ charged'[x][Line(q)'.session] + entries'[Line(q)'.session].delta <= ran'[Line(q)'.session]
  <2>1. CASE q = p
    <3>1. proc'[q] = new /\ Line(q)' = line
      BY <1>1, <1>2, <1>4, <2>1 DEF Line
    <3>2. /\ line.session = s /\ line.total = total /\ line.model = total /\ line.usage = c
          /\ line.uuid = turns + 1
      BY DEF line
    <3>3. ~Again(Line(q))'
      <4>1. entries' = entries
        BY <1>1 DEF ledgerVars
      <4>2. \A t \in DOMAIN entries : entries[t].uuid \in Nat /\ entries[t].uuid <= turns
        BY <1>2 DEF Inv, PastOnly, Entry
      <4>3. s \in DOMAIN entries => entries[s].uuid # turns + 1
        BY <1>2, <4>2
      <4>4. Line(q)'.session = s /\ Line(q)'.uuid = turns + 1
        BY <3>1, <3>2
      <4> QED
        BY <4>1, <4>3, <4>4 DEF Again, Has
    <3>4. cli'[s] = total /\ ran'[s] = ran[s] + c
      BY <1>1, <1>2
    <3>5. charged'[x][s] = charged[x][s] /\ charged[x][s] \in Nat /\ charged[x][s] <= ran[s] /\ ran[s] \in Nat
      BY <1>1, <1>2 DEF Inv, Room
    <3>6. charged'[x][s] + c <= ran'[s]
      BY <1>2, <3>4, <3>5
    <3>7. proc'[q].session = s
      BY <1>4, <3>1
    <3> QED
      BY <1>5, <3>1, <3>2, <3>3, <3>4, <3>6, <3>7
  <2>2. CASE q # p
    <3>1. proc'[q] = proc[q]
      BY <1>1, <2>2
    <3>2. Due(q, x) /\ Line(q)' = Line(q)
      BY <1>11, <3>1 DEF Due, Parses, Line
    <3>3. Line(q).session = proc[q].session /\ proc[q].session # s
      BY <1>5, <3>2 DEF Inv, DuePaid
    <3>4. cli'[Line(q).session] = cli[Line(q).session] /\ ran'[Line(q).session] = ran[Line(q).session]
      BY <1>1, <1>2, <3>3
    <3> QED
      BY <1>1, <3>1, <3>2, <3>4 DEF Inv, DuePaid, Again, Has, ledgerVars
  <2> QED
    BY <2>1, <2>2
<1>12. DuePaid'
  BY <1>11 DEF DuePaid
<1> QED
  BY <1>7, <1>8, <1>9, <1>10, <1>12 DEF Inv

\* A result is parsed for one of the surfaces it is due on: its session has then no
\* gap, and the other surface will be charged what this one was.
LEMMA ParseResultKeeps == ASSUME Inv, NEW p \in Procs, ParseResult(p) PROVE Inv'
<1> DEFINE l == Line(p)
           s == Line(p).session
           x0 == proc[p].surface
<1>1. Parses(p, "result") /\ Parsed(p) /\ Account(l)
  BY DEF ParseResult
<1>2. /\ l \in Result /\ s \in Sessions /\ l.uuid \in Nat /\ x0 \in Surface /\ l.total \in Nat
      /\ Due(p, x0)
  <2>1. l \in Result /\ proc[p] \in Process
    BY <1>1, ResultAlone DEF Inv
  <2> QED
    BY <1>1, <2>1 DEF Result, Process, Due, Surface
<1>3. \A x \in Surface : Due(p, x) =>
        /\ Delta(l) \in Nat
        /\ charged[x][s] + Delta(l) <= ran[s]
  BY DeltaPaid
<1>4. /\ proc[p].session # "" /\ s = proc[p].session
      /\ l.total = cli[s] /\ l.model = l.total
      /\ Again(l) => entries[s].total = l.total
  BY <1>2 DEF Inv, DuePaid
<1>5. /\ charged' = [charged EXCEPT ![x0][s] = charged[x0][s] + Delta(l)]
      /\ UNCHANGED <<turns, cli, ran>>
  BY <1>4 DEF ParseResult
<1>6. /\ seq' \in Nat
      /\ DOMAIN entries' \subseteq Sessions
      /\ entries' \in [DOMAIN entries' -> Entry]
      /\ \A t \in DOMAIN entries' : t # s => t \in DOMAIN entries /\ entries'[t] = entries[t]
      /\ s \in DOMAIN entries'
      /\ entries'[s].uuid = l.uuid /\ entries'[s].delta = Delta(l)
      /\ entries'[s].total = l.total
  BY <1>1, <1>2, <1>3, <1>4, AccountKeeps DEF Inv
<1>7. /\ proc' \in [Procs -> Process]
      /\ \A q \in Procs : q # p => proc'[q] = proc[q]
      /\ proc'[p].session \in {proc[p].session, ""}
      /\ Parses(p, "result")' => /\ x0 = "legacy" /\ proc'[p].surface = "typed"
                                 /\ proc'[p].session = proc[p].session
                                 /\ proc'[p].lines = proc[p].lines
  BY <1>1, ParsedProcess DEF Inv, Parses
<1>8. charged \in [Surface -> [Sessions -> Nat]] /\ cli \in [Sessions -> Nat] /\ ran \in [Sessions -> Nat]
      /\ Delta(l) \in Nat
  BY <1>2, <1>3 DEF Inv, TypeInv
<1>9. ASSUME NEW x \in Surface, NEW t \in Sessions, x # x0 \/ t # s
      PROVE  charged'[x][t] = charged[x][t]
  BY <1>2, <1>5, <1>8, <1>9
<1>10. charged'[x0][s] = charged[x0][s] + Delta(l)
  BY <1>2, <1>5, <1>8
<1>11. TypeInv'
  <2>1. charged' \in [Surface -> [Sessions -> Nat]]
    BY <1>2, <1>5, <1>8
  <2> QED
    BY <1>5, <1>6, <1>7, <2>1 DEF Inv, TypeInv
<1> HIDE DEF l, s, x0
<1>12. Apart'
  BY <1>7, ZenonT(30) DEF Inv, Apart
<1>13. Room'
  <2> SUFFICES ASSUME NEW x \in Surface, NEW t \in Sessions
               PROVE  /\ charged'[x][t] <= ran'[t]
                      /\ Has(t)' => charged'[x][t] + Gap(t)' <= ran'[t]
    BY DEF Room
  <2>1. /\ charged[x][t] <= ran[t] /\ (Has(t) => charged[x][t] + Gap(t) <= ran[t])
        /\ ran'[t] = ran[t] /\ charged'[x][t] \in Nat /\ ran[t] \in Nat
    BY <1>5, <1>8, <1>11 DEF Inv, Room, TypeInv
  <2>2. CASE t = s
    <3>1. Gap(t)' = 0
      <4>1. entries'[t].total = l.total /\ cli'[t] = l.total /\ l.total \in Nat
        BY <1>2, <1>4, <1>5, <1>6, <2>2
      <4> QED
        BY <4>1 DEF Gap
    <3>2. charged'[x][t] <= ran[t]
      BY <1>2, <1>3, <1>9, <1>10, <2>1, <2>2
    <3> QED
      BY <2>1, <3>1, <3>2
  <2>3. CASE t # s
    <3>1. charged'[x][t] = charged[x][t]
      BY <1>9, <2>3
    <3>2. Has(t)' => Has(t) /\ entries'[t] = entries[t]
      BY <1>6, <2>3 DEF Has
    <3>3. Has(t)' => Gap(t)' = Gap(t)
      BY <1>5, <3>2 DEF Gap
    <3> QED
      BY <2>1, <3>1, <3>2, <3>3
  <2> QED
    BY <2>2, <2>3
<1>14. PastOnly'
  <2>1. l.uuid <= turns
    BY <1>1 DEF Inv, PastOnly, l
  <2>2. \A t \in DOMAIN entries' : entries'[t].uuid <= turns'
    BY <1>5, <1>6, <2>1 DEF Inv, PastOnly
  <2>3. \A q \in Procs : Parses(q, "result")' => Parses(q, "result") /\ Line(q)' = Line(q)
    BY <1>1, <1>7 DEF Parses, Line
  <2> QED
    BY <1>5, <2>2, <2>3 DEF Inv, PastOnly
<1>15. ASSUME NEW q \in Procs, NEW x \in Surface, Due(q, x)'
       PROVE  /\ proc'[q].session # "" /\ Line(q)'.session = proc'[q].session
              /\ Line(q)'.total = cli'[Line(q)'.session] /\ Line(q)'.model = Line(q)'.total
              /\ charged'[x][Line(q)'.session] + Line(q)'.usage <= ran'[Line(q)'.session]
              /\ Again(Line(q))' =>
                   /\ entries'[Line(q)'.session].total = Line(q)'.total
                   /\ charged'[x][Line(q)'.session] + entries'[Line(q)'.session].delta <= ran'[Line(q)'.session]
  <2>1. CASE q = p
    <3>1. /\ x0 = "legacy" /\ x = "typed" /\ Due(p, x)
          /\ proc'[p].session = proc[p].session /\ Line(q)' = l
      BY <1>1, <1>7, <1>15, <2>1 DEF Due, Line, l, x0
    <3>2. charged'[x][s] = charged[x][s]
      BY <1>2, <1>9, <3>1
    <3>3. charged[x][s] + l.usage <= ran[s]
      BY <3>1 DEF Inv, DuePaid, l, s
    <3>4. charged[x][s] + Delta(l) <= ran[s]
      BY <1>3, <3>1
    <3>5. l.session = s
      BY DEF l, s
    <3> QED
      BY <1>4, <1>5, <1>6, <2>1, <3>1, <3>2, <3>3, <3>4, <3>5
  <2>2. CASE q # p
    <3>1. proc'[q] = proc[q]
      BY <1>7, <2>2
    <3>2. Due(q, x) /\ Line(q)' = Line(q)
      BY <1>15, <3>1 DEF Due, Parses, Line
    <3>3. Line(q).session = proc[q].session /\ proc[q].session # s
      BY <1>4, <2>2, <3>2 DEF Inv, DuePaid, Apart
    <3>4. Line(q).session \in Sessions
      BY <3>2, ResultAlone DEF Due, Inv, Result
    <3>5. charged'[x][Line(q).session] = charged[x][Line(q).session]
      BY <1>9, <3>3, <3>4
    <3>6. Again(Line(q))' => Again(Line(q)) /\ entries'[Line(q).session] = entries[Line(q).session]
      BY <1>6, <3>2, <3>3 DEF Again, Has
    <3> QED
      BY <1>5, <3>1, <3>2, <3>5, <3>6 DEF Inv, DuePaid
  <2> QED
    BY <2>1, <2>2
<1>16. DuePaid'
  BY <1>15 DEF DuePaid
<1> QED
  BY <1>11, <1>12, <1>13, <1>14, <1>16 DEF Inv

----------------------------------------------------------------------------
(* The theorem. *)

LEMMA InvStep == Inv /\ [MemoryNext]_memoryVars => Inv'
<1> SUFFICES ASSUME Inv, [MemoryNext]_memoryVars PROVE Inv'
  OBVIOUS
<1>1. CASE UNCHANGED memoryVars
  BY <1>1, ZenonT(30)
  DEF memoryVars, ledgerVars, hostVars, Inv, TypeInv, Apart, Room, Gap, Has, DuePaid, Due,
      Parses, Line, Again, PastOnly
<1>2. ASSUME NEW p \in Procs, Step(p) PROVE Inv'
  <2>1. ASSUME NEW s \in Sessions, NEW c \in Costs, NEW fresh \in BOOLEAN, NEW good \in BOOLEAN,
               ClaudeTurn(p, s, c, fresh, good)
        PROVE  Inv'
    BY <2>1, ClaudeTurnKeeps
  <2>2. CASE ParseResult(p)
    BY <2>2, ParseResultKeeps
  <2>3. CASE ParseFailure(p) \/ StepStart(p) \/ Text(p) \/ StepFinish(p)
    BY <2>3, QuietKeeps DEF ParseFailure, StepStart, Text, StepFinish, Parses
  <2>4. ASSUME NEW s \in Chats, NEW script \in Scripts, OpencodeTurn(p, s, script) PROVE Inv'
    BY <2>4, OpencodeKeeps
  <2>5. CASE Dies(p)
    BY <2>5, DiesKeeps
  <2> QED
    BY <1>2, <2>1, <2>2, <2>3, <2>4, <2>5 DEF Step
<1> QED
  BY <1>1, <1>2 DEF MemoryNext

LEMMA InitInv == MemoryInit => Inv
<1> SUFFICES ASSUME MemoryInit PROVE Inv
  OBVIOUS
<1>1. Idle \in Process /\ Idle.session = "" /\ Idle.lines = <<>>
  BY EmptySeq DEF Idle, Process, Output, Surface
<1>2. /\ entries = [s \in {} |-> 0] /\ seq = 0 /\ turns = 0
      /\ proc = [p \in Procs |-> Idle] /\ cli \in [Sessions -> {0} \union Costs]
      /\ ran = [s \in Sessions |-> 0]
      /\ charged = [x \in Surface |-> [s \in Sessions |-> 0]]
  BY DEF MemoryInit, LedgerInit
<1>3. TypeInv
  <2>1. DOMAIN entries = {} /\ entries \in [DOMAIN entries -> Entry]
    BY <1>2
  <2>2. cli \in [Sessions -> Nat]
    <3>1. {0} \union Costs \subseteq Nat
      BY TurnAssumption
    <3> QED
      BY <1>2, <3>1
  <2>3. charged \in [Surface -> [Sessions -> Nat]] /\ ran \in [Sessions -> Nat]
    BY <1>2
  <2> QED
    BY <1>1, <1>2, <2>1, <2>2, <2>3 DEF TypeInv
<1>4. \A p \in Procs : ~Parses(p, "result")
  BY <1>1, <1>2 DEF Parses
<1>5. \A s : ~Has(s)
  BY <1>2 DEF Has
<1>6. Room
  BY <1>2, <1>5 DEF Room
<1>7. Apart /\ DuePaid /\ PastOnly
  BY <1>1, <1>2, <1>4 DEF Apart, DuePaid, Due, PastOnly
<1> QED
  BY <1>3, <1>6, <1>7 DEF Inv

\* claude_cost.go: the cost events of a session, on the stream or on the typed surface,
\* never add up to more than the session's turns cost, however the turns of other
\* sessions fall in between, whatever a full ledger forgets, and whether the CLI
\* resumes a session, counts it afresh or reports a failure without usage.
THEOREM NobodyOvercharged == MemorySpec => []NeverOvercharged
<1>1. Inv => NeverOvercharged
  BY DEF Inv, Room, NeverOvercharged
<1> QED
  BY <1>1, InitInv, InvStep, PTL DEF MemorySpec

----------------------------------------------------------------------------
(* Exactness. *)

\* The other surface is still to be charged what this line was found to cost.
Remembered(s, x) == \E p \in Procs : Due(p, x) /\ proc[p].session = s /\ Again(Line(p))

\* What was charged, with what the ledger's next look will find, is all that ran.
Reported(s, x) ==
  /\ ~Has(s) => charged[x][s] = 0
  /\ Has(s) => /\ entries[s].total <= cli[s]
               /\ charged[x][s] + (IF Remembered(s, x) THEN entries[s].delta
                                   ELSE cli[s] - entries[s].total) = ran[s]

\* The last result of a session has reached the ledger, or is about to.
Heard(s) ==
  \/ \E p \in Procs : Due(p, "legacy") /\ proc[p].session = s
  \/ Has(s) /\ entries[s].total = cli[s]

Sound(s) ==
  /\ ran[s] <= cli[s]
  /\ \A x \in Surface : Reported(s, x)
  /\ s \in settled => Heard(s)

\* A result is of a Claude turn, and the ledger remembers it once it has been seen.
Halfway(p) ==
  Parses(p, "result") =>
    /\ proc[p].script = <<>>
    /\ proc[p].surface = "typed" => proc[p].session \in flawed \/ Again(Line(p))

Exact == (\A s \in Sessions \ flawed : Sound(s)) /\ \A p \in Procs : Halfway(p)

\* Steps that leave the accounts alone and neither take nor give a result.
LEMMA AloneExact ==
  ASSUME Exact, UNCHANGED <<ledgerVars, cli, ran, charged, flawed, settled>>,
         NEW p \in Procs, \A q \in Procs : q # p => proc'[q] = proc[q],
         ~Parses(p, "result"), ~Parses(p, "result")'
  PROVE  Exact'
<1>1. \A q \in Procs :
        Parses(q, "result")' <=> Parses(q, "result")
  BY DEF Parses, Line
<1>2. \A q \in Procs : Parses(q, "result") => proc'[q] = proc[q] /\ Line(q)' = Line(q)
  BY DEF Line
<1>3. \A q \in Procs : Again(Line(q))' <=> Again(Line(q)')
  BY DEF Again, Has, ledgerVars
<1>4. \A q \in Procs, x \in Surface : Due(q, x)' <=> Due(q, x)
  BY <1>1, <1>2 DEF Due
<1>5. "legacy" \in Surface /\ entries' = entries
  BY DEF Surface, ledgerVars
<1>6. \A q \in Procs : Parses(q, "result") => (Again(Line(q))' <=> Again(Line(q)))
  BY <1>2, <1>5 DEF Again, Has
<1>7. ASSUME NEW s \in Sessions, NEW x \in Surface PROVE Remembered(s, x)' <=> Remembered(s, x)
  BY <1>2, <1>4, <1>6 DEF Remembered, Due
<1>8. ASSUME NEW s \in Sessions, Heard(s) PROVE Heard(s)'
  BY <1>2, <1>4, <1>5, <1>8 DEF Heard, Has, Due
<1>9. ASSUME NEW s \in Sessions \ flawed PROVE Sound(s)'
  <2>1. ran'[s] <= cli'[s] /\ (s \in settled' => Heard(s)')
    BY <1>8, <1>9 DEF Exact, Sound
  <2>2. ASSUME NEW x \in Surface PROVE Reported(s, x)'
    <3>1. Reported(s, x)
      BY <1>9 DEF Exact, Sound
    <3> QED
      BY <1>5, <1>7, <1>9, <3>1 DEF Reported, Has
  <2> QED
    BY <2>1, <2>2 DEF Sound
<1>10. ASSUME NEW q \in Procs PROVE Halfway(q)'
  BY <1>1, <1>2, <1>6 DEF Exact, Halfway
<1> QED
  BY <1>9, <1>10 DEF Exact

\* A new turn's result is not in the ledger, and both counts grow by its cost.
LEMMA ClaudeTurnExact ==
  ASSUME Inv, Exact, NEW p \in Procs, NEW s \in Sessions, NEW c \in Costs,
         NEW fresh \in BOOLEAN, NEW good \in BOOLEAN, ClaudeTurn(p, s, c, fresh, good)
  PROVE  Exact'
<1> DEFINE total == IF fresh THEN c ELSE cli[s] + c
           line == [type |-> IF good THEN "result" ELSE "failure", session |-> s,
                    uuid |-> turns + 1, total |-> total, usage |-> c, model |-> total]
           new == [Idle EXCEPT !.session = s, !.lines = <<line>>]
<1>1. /\ proc[p] = Idle
      /\ cli' = [cli EXCEPT ![s] = total]
      /\ proc' = [proc EXCEPT ![p] = new]
      /\ ran' = [ran EXCEPT ![s] = ran[s] + c]
      /\ settled' = IF good THEN settled \union {s} ELSE settled \ {s}
      /\ flawed' = IF fresh THEN flawed \union {s} ELSE flawed
      /\ entries' = entries /\ charged' = charged
  BY DEF ClaudeTurn, ledgerVars
<1>2. /\ c \in Nat /\ turns \in Nat /\ cli \in [Sessions -> Nat] /\ ran \in [Sessions -> Nat]
      /\ charged \in [Surface -> [Sessions -> Nat]] /\ proc \in [Procs -> Process]
      /\ entries \in [DOMAIN entries -> Entry] /\ DOMAIN entries \subseteq Sessions
  BY TurnAssumption DEF Inv, TypeInv
<1>3. s # "" /\ \A q \in Procs : proc[q].session # s
  BY FreshSession DEF ClaudeTurn
<1>4. ~Parses(p, "result")
  <2>1. Idle.lines = <<>>
    BY DEF Idle
  <2> QED
    BY <1>1, <2>1 DEF Parses
<1>5. /\ proc'[p].session = s /\ proc'[p].surface = "legacy" /\ proc'[p].script = <<>>
      /\ proc'[p].lines = <<line>> /\ Line(p)' = line
  <2>1. proc'[p] = new
    BY <1>1, <1>2
  <2>2. new.session = s /\ new.surface = "legacy" /\ new.script = <<>> /\ new.lines = <<line>>
    BY DEF Idle
  <2> HIDE DEF new, line
  <2> QED
    BY <2>1, <2>2 DEF Line
<1>6. \A q \in Procs : q # p => proc'[q] = proc[q]
  BY <1>1
<1>7. line.session = s /\ line.uuid = turns + 1 /\ (good => line.type = "result")
  OBVIOUS
<1> HIDE DEF total, line, new
<1>8. ~Again(Line(p))'
  <2>1. \A t \in DOMAIN entries : entries[t].uuid \in Nat /\ entries[t].uuid <= turns
    BY <1>2 DEF Inv, PastOnly, Entry
  <2>2. s \in DOMAIN entries => entries[s].uuid # turns + 1
    BY <1>2, <2>1
  <2> QED
    BY <1>1, <1>5, <1>7, <2>2 DEF Again, Has
<1>9. \A q \in Procs : q # p =>
        /\ \A x \in Surface : Due(q, x)' <=> Due(q, x)
        /\ Halfway(q)' <=> Halfway(q)
  <2> SUFFICES ASSUME NEW q \in Procs, q # p
               PROVE  /\ \A x \in Surface : Due(q, x)' <=> Due(q, x)
                      /\ Halfway(q) => Halfway(q)'
    BY DEF Exact
  <2>1. proc'[q] = proc[q] /\ Line(q)' = Line(q) /\ (Parses(q, "result")' <=> Parses(q, "result"))
    BY <1>6 DEF Line, Parses
  <2>2. Again(Line(q))' <=> Again(Line(q))
    BY <1>1, <2>1 DEF Again, Has
  <2>3. flawed \subseteq flawed'
    BY <1>1
  <2> QED
    BY <2>1, <2>2, <2>3 DEF Due, Halfway
<1>10. \A q \in Procs : q # p => (Again(Line(q))' <=> Again(Line(q))) /\ proc'[q] = proc[q]
  BY <1>1, <1>6 DEF Again, Has, Line
<1>11. ASSUME NEW t \in Sessions, NEW x \in Surface, t # s
       PROVE  Remembered(t, x)' <=> Remembered(t, x)
  BY <1>4, <1>5, <1>9, <1>10, <1>11 DEF Remembered, Due
<1>12. ASSUME NEW x \in Surface PROVE ~Remembered(s, x) /\ ~Remembered(s, x)'
  BY <1>3, <1>8, <1>10 DEF Remembered
<1>13. ASSUME NEW t \in Sessions \ flawed', t # s PROVE Sound(t)'
  <2>1. t \in Sessions \ flawed /\ Sound(t)
    BY <1>1, <1>13 DEF Exact
  <2>2. ran'[t] = ran[t] /\ cli'[t] = cli[t] /\ (t \in settled' <=> t \in settled)
    BY <1>1, <1>2, <1>13
  <2>3. Heard(t) => Heard(t)'
    <3>1. ASSUME NEW q \in Procs, Due(q, "legacy"), proc[q].session = t
          PROVE  Due(q, "legacy")' /\ proc'[q].session = t
      <4>1. q # p /\ "legacy" \in Surface
        BY <1>4, <3>1 DEF Due, Surface
      <4> QED
        BY <1>9, <1>10, <3>1, <4>1
    <3> QED
      BY <1>1, <2>2, <3>1 DEF Heard, Has
  <2>4. ASSUME NEW x \in Surface PROVE Reported(t, x)'
    BY <1>1, <1>11, <1>13, <2>1, <2>2 DEF Sound, Reported, Has
  <2> QED
    BY <2>1, <2>2, <2>3, <2>4 DEF Sound
<1>14. ASSUME s \notin flawed' PROVE Sound(s)'
  <2>1. ~fresh /\ Sound(s)
    BY <1>1, <1>14 DEF Exact
  <2>2. ran'[s] = ran[s] + c /\ cli'[s] = cli[s] + c /\ ran[s] \in Nat /\ cli[s] \in Nat
    BY <1>1, <1>2, <2>1 DEF total
  <2>3. ran'[s] <= cli'[s]
    BY <1>2, <2>1, <2>2 DEF Sound
  <2>4. s \in settled' => Heard(s)'
    BY <1>1, <1>5, <1>7 DEF Heard, Due, Parses
  <2>5. ASSUME NEW x \in Surface PROVE Reported(s, x)'
    <3>1. Reported(s, x) /\ charged[x][s] \in Nat
      BY <1>2, <2>1 DEF Sound
    <3>2. CASE ~Has(s)
      BY <1>1, <3>1, <3>2 DEF Reported, Has
    <3>3. CASE Has(s)
      <4>1. entries[s].total \in Nat /\ entries[s].total <= cli[s]
            /\ charged[x][s] + (cli[s] - entries[s].total) = ran[s]
        BY <1>2, <1>12, <3>1, <3>3 DEF Reported, Has, Entry
      <4>2. entries[s].total <= cli'[s] /\ charged[x][s] + (cli'[s] - entries[s].total) = ran'[s]
        BY <1>2, <2>2, <3>1, <4>1
      <4> QED
        BY <1>1, <1>12, <3>3, <4>2 DEF Reported, Has
    <3> QED
      BY <3>2, <3>3
  <2> QED
    BY <2>3, <2>4, <2>5 DEF Sound
<1>15. Halfway(p)'
  BY <1>5 DEF Halfway
<1> QED
  BY <1>9, <1>13, <1>14, <1>15 DEF Exact

\* What is found for a line is just what was missing on a surface it is due on.
LEMMA DeltaExact ==
  ASSUME Inv, Exact, NEW p \in Procs, NEW x \in Surface, Due(p, x),
         Line(p).session \notin flawed, Has(Line(p).session) \/ CoversOneTurn(Line(p))
  PROVE  charged[x][Line(p).session] + Delta(Line(p)) = ran[Line(p).session]
<1> DEFINE l == Line(p)
           s == Line(p).session
<1>1. l \in Result /\ s \in Sessions
  BY ResultAlone DEF Due, Inv, Result
<1>2. /\ charged[x][s] \in Nat /\ ran[s] \in Nat /\ cli[s] \in Nat
      /\ l.total \in Nat /\ l.usage \in Nat
  BY <1>1 DEF Inv, TypeInv, Result
<1>3. /\ s = proc[p].session /\ s # "" /\ l.total = cli[s] /\ l.model = l.total
      /\ charged[x][s] + l.usage <= ran[s]
  BY DEF Inv, DuePaid
<1>4. ran[s] <= cli[s] /\ Reported(s, x)
  BY <1>1 DEF Exact, Sound
<1>5. CASE Again(l)
  <2>1. Has(s) /\ Remembered(s, x)
    BY <1>3, <1>5 DEF Again, Remembered
  <2> QED
    BY <1>4, <1>5, <2>1 DEF Reported, Delta
<1>6. CASE ~Again(l) /\ Has(s)
  <2>1. ~Remembered(s, x)
    BY <1>3, <1>6 DEF Remembered, Inv, Apart
  <2>2. entries[s].total \in Nat /\ entries[s].total <= cli[s]
        /\ charged[x][s] + (cli[s] - entries[s].total) = ran[s]
    BY <1>4, <1>6, <2>1 DEF Inv, TypeInv, Has, Entry, Reported
  <2>3. Delta(l) = IF l.total >= entries[s].total THEN l.total - entries[s].total ELSE l.total
    BY <1>6 DEF Delta
  <2> QED
    BY <1>2, <1>3, <2>2, <2>3
<1>7. CASE ~Again(l) /\ ~Has(s)
  <2>1. Delta(l) = l.total /\ l.usage = l.total /\ charged[x][s] = 0
    BY <1>3, <1>4, <1>7 DEF Delta, CoversOneTurn, Reported
  <2>2. ran[s] = l.total
    <3>1. 0 + l.total <= ran[s] /\ ran[s] <= l.total
      BY <1>3, <1>4, <2>1
    <3> HIDE DEF l, s
    <3> QED
      BY <1>2, <3>1
  <2> QED
    BY <1>2, <2>1, <2>2
<1> QED
  BY <1>5, <1>6, <1>7

\* The surface a result is parsed for has then been charged all; the other one is
\* still to be, or has been before, when the ledger came to know the total.
LEMMA ParseResultExact == ASSUME Inv, Inv', Exact, NEW p \in Procs, ParseResult(p) PROVE Exact'
<1> SUFFICES ASSUME NEW s, s = Line(p).session, NEW l, l = Line(p), NEW x0, x0 = proc[p].surface
             PROVE  Exact'
  OBVIOUS
<1>1. Parses(p, "result") /\ Parsed(p) /\ Account(l)
  BY DEF ParseResult
<1>2. /\ l \in Result /\ s \in Sessions /\ l.uuid \in Nat /\ x0 \in Surface /\ l.total \in Nat
      /\ Due(p, x0)
  <2>1. l \in Result /\ proc[p] \in Process
    BY <1>1, ResultAlone DEF Inv
  <2> QED
    BY <1>1, <2>1 DEF Result, Process, Due, Surface
<1>3. Delta(l) \in Nat
  BY <1>2, DeltaPaid
<1>4. /\ proc[p].session # "" /\ s = proc[p].session
      /\ l.total = cli[s] /\ l.model = l.total
      /\ Again(l) => entries[s].total = l.total
  BY <1>2 DEF Inv, DuePaid
<1>5. /\ charged' = [charged EXCEPT ![x0][s] = charged[x0][s] + Delta(l)]
      /\ UNCHANGED <<cli, ran, settled>>
      /\ flawed' = flawed \union (DOMAIN entries \ DOMAIN entries')
                     \union (IF Has(s) \/ CoversOneTurn(l) THEN {} ELSE {s})
  BY <1>4 DEF ParseResult
<1>6. /\ DOMAIN entries' \subseteq Sessions
      /\ \A t \in DOMAIN entries' : t # s => t \in DOMAIN entries /\ entries'[t] = entries[t]
      /\ s \in DOMAIN entries'
      /\ entries'[s].uuid = l.uuid /\ entries'[s].delta = Delta(l)
      /\ entries'[s].total = cli[s]
  BY <1>1, <1>2, <1>3, <1>4, AccountKeeps DEF Inv
<1>7. /\ \A q \in Procs : q # p => proc'[q] = proc[q]
      /\ Parses(p, "result")' => /\ x0 = "legacy" /\ proc'[p].surface = "typed"
                                 /\ proc'[p].session = proc[p].session
                                 /\ proc'[p].lines = proc[p].lines
  BY <1>1, ParsedProcess DEF Inv, Parses
<1>8. /\ charged \in [Surface -> [Sessions -> Nat]] /\ cli \in [Sessions -> Nat] /\ ran \in [Sessions -> Nat]
      /\ proc \in [Procs -> Process]
  BY DEF Inv, TypeInv
<1>9. /\ charged'[x0][s] = charged[x0][s] + Delta(l)
      /\ \A x \in Surface, t \in Sessions : x # x0 \/ t # s => charged'[x][t] = charged[x][t]
  BY <1>2, <1>5, <1>8
<1>10. \A q \in Procs : q # p => (Line(q)' = Line(q) /\ \A x \in Surface : Due(q, x)' <=> Due(q, x))
  BY <1>7 DEF Line, Due, Parses
<1>11. \A q \in Procs, x \in Surface : q # p /\ Due(q, x) => proc[q].session # s
  BY <1>4 DEF Inv, Apart
<1>12. Parses(p, "result")' => Line(p)' = l /\ Again(Line(p))'
  BY <1>6, <1>7 DEF Line, Again, Has
<1>13. proc[p].script = <<>> /\ proc'[p].script \in {<<>>, Idle.script}
  <2>1. proc[p].script = <<>>
    BY <1>1 DEF Exact, Halfway
  <2>2. proc'[p].script \in {proc[p].script, Idle.script}
    BY <1>1, <1>8 DEF Parsed
  <2> QED
    BY <2>1, <2>2
<1>14. \A t \in Sessions : t \notin flawed' =>
         /\ t \notin flawed
         /\ Has(t) => Has(t)'
  BY <1>5 DEF Has
<1>15. ASSUME NEW t \in Sessions \ flawed', t # s PROVE Sound(t)'
  <2>1. Sound(t) /\ ran'[t] = ran[t] /\ cli'[t] = cli[t] /\ (t \in settled' <=> t \in settled)
    BY <1>5, <1>14, <1>15 DEF Exact
  <2>2. (Has(t)' <=> Has(t)) /\ (Has(t) => entries'[t] = entries[t])
    BY <1>6, <1>14, <1>15 DEF Has
  <2>3. "legacy" \in Surface
    BY DEF Surface
  <2>4. ASSUME NEW q \in Procs, proc[q].session = t, NEW x \in Surface, Due(q, x)
        PROVE  q # p /\ proc'[q].session = t /\ Due(q, x)' /\ (Again(Line(q))' <=> Again(Line(q)))
    <3>1. q # p
      BY <1>4, <1>15, <2>4
    <3>2. Line(q).session = t
      BY <2>4 DEF Inv, DuePaid
    <3> QED
      BY <1>7, <1>10, <2>2, <2>4, <3>1, <3>2 DEF Again, Has
  <2>5. ASSUME NEW q \in Procs, proc'[q].session = t, NEW x \in Surface, Due(q, x)'
        PROVE  q # p /\ proc[q].session = t /\ Due(q, x)
    BY <1>4, <1>7, <1>10, <1>15, <2>5 DEF Due
  <2>6. Heard(t) => Heard(t)'
    BY <2>1, <2>2, <2>3, <2>4 DEF Heard
  <2>7. ASSUME NEW x \in Surface PROVE Reported(t, x)'
    <3>1. Remembered(t, x)' <=> Remembered(t, x)
      BY <2>4, <2>5 DEF Remembered
    <3>2. charged'[x][t] = charged[x][t]
      BY <1>9, <1>15
    <3> QED
      BY <2>1, <2>2, <3>1, <3>2 DEF Sound, Reported
  <2> QED
    BY <2>1, <2>6, <2>7 DEF Sound
<1>16. ASSUME s \notin flawed' PROVE Sound(s)'
  <2>1. /\ s \notin flawed /\ Sound(s) /\ (Has(s) \/ CoversOneTurn(l))
        /\ ran'[s] = ran[s] /\ cli'[s] = cli[s] /\ cli[s] \in Nat /\ ran[s] \in Nat
    BY <1>2, <1>5, <1>8, <1>16 DEF Exact
  <2>2. Has(s)' /\ entries'[s].total = cli'[s]
    BY <1>6, <2>1 DEF Has
  <2>3. ASSUME NEW x \in Surface, Due(p, x) PROVE charged[x][s] + Delta(l) = ran[s]
    BY <2>1, <2>3, DeltaExact
  <2>4. ASSUME NEW x \in Surface PROVE Reported(s, x)'
    <3>1. charged[x][s] \in Nat /\ entries'[s].total <= cli'[s] /\ cli'[s] - entries'[s].total = 0
      BY <1>2, <1>8, <2>1, <2>2
    <3>2. Remembered(s, x)' => Due(p, x)' /\ x = "typed" /\ x0 = "legacy"
      <4>1. ASSUME NEW q \in Procs, Due(q, x)', proc'[q].session = s PROVE q = p
        BY <1>7, <1>10, <1>11, <4>1
      <4> QED
        BY <1>7, <4>1 DEF Remembered, Due
    <3>3. CASE x = x0
      <4>1. ~Remembered(s, x)' /\ charged'[x][s] = ran[s]
        BY <1>2, <1>9, <2>3, <3>2, <3>3
      <4> QED
        BY <2>1, <2>2, <3>1, <4>1 DEF Reported
    <3>4. CASE x # x0 /\ x0 = "legacy"
      <4>1. x = "typed" /\ Due(p, x)
        BY <1>1, <3>4 DEF Surface, Due
      <4>2. charged'[x][s] + Delta(l) = ran[s]
        BY <1>2, <1>9, <2>3, <3>4, <4>1
      <4>3. Remembered(s, x)'
        <5>1. Parses(p, "result")'
          BY <1>1, <3>4 , <1>8 DEF Parsed, Parses, Line
        <5> QED
          BY <1>4, <1>7, <1>12, <4>1, <5>1 DEF Remembered, Due
      <4> QED
        BY <1>6, <2>1, <2>2, <3>1, <4>2, <4>3 DEF Reported
    <3>5. CASE x # x0 /\ x0 # "legacy"
      <4>1. x = "legacy" /\ x0 = "typed"
        BY <1>2, <3>5 DEF Surface
      <4>2. Again(l) /\ ~Due(p, x)
        BY <1>1, <1>4, <2>1, <4>1 DEF Exact, Halfway, Due
      <4>3. Has(s) /\ entries[s].total = cli[s] /\ ~Remembered(s, x)
        BY <1>4, <1>11, <4>2 DEF Again, Remembered
      <4>4. charged[x][s] = ran[s]
        BY <2>1, <3>1, <4>3 DEF Sound, Reported
      <4>5. ~Remembered(s, x)' /\ charged'[x][s] = ran[s]
        BY <1>2, <1>9, <3>2, <3>5, <4>1, <4>4
      <4> QED
        BY <2>1, <2>2, <3>1, <4>5 DEF Reported
    <3> QED
      BY <3>3, <3>4, <3>5
  <2> QED
    BY <2>1, <2>2, <2>4 DEF Sound, Heard
<1>17. ASSUME NEW q \in Procs PROVE Halfway(q)'
  <2>1. CASE q = p
    BY <1>12, <1>13, <2>1 DEF Halfway, Idle
  <2>2. CASE q # p
    <3> SUFFICES ASSUME Parses(q, "result")'
                 PROVE  /\ proc'[q].script = <<>>
                        /\ proc'[q].surface = "typed" => proc'[q].session \in flawed' \/ Again(Line(q))'
      BY DEF Halfway
    <3>1. proc'[q] = proc[q] /\ Line(q)' = Line(q) /\ Parses(q, "result")
      BY <1>7, <1>10, <2>2 DEF Parses, Line
    <3>2. proc[q].script = <<>> /\ (proc[q].surface = "typed" => proc[q].session \in flawed \/ Again(Line(q)))
      BY <3>1 DEF Exact, Halfway
    <3>3. Line(q).session = proc[q].session /\ proc[q].session # s /\ proc[q].session \in Sessions
      <4>1. Due(q, "typed") /\ "typed" \in Surface
        BY <3>1 DEF Due, Surface
      <4>2. Line(q).session \in Sessions
        BY <3>1, ResultAlone DEF Inv, Result
      <4> QED
        BY <1>11, <2>2, <4>1, <4>2 DEF Inv, DuePaid
    <3>4. Again(Line(q)) => Again(Line(q))' \/ proc[q].session \in flawed'
      BY <1>5, <1>6, <3>1, <3>3 DEF Again, Has
    <3>5. flawed \subseteq flawed'
      BY <1>5
    <3> QED
      BY <3>1, <3>2, <3>4, <3>5
  <2> QED
    BY <2>1, <2>2
<1> QED
  BY <1>15, <1>16, <1>17 DEF Exact

LEMMA ExactStep == Inv /\ Inv' /\ Exact /\ [MemoryNext]_memoryVars => Exact'
<1> SUFFICES ASSUME Inv, Inv', Exact, [MemoryNext]_memoryVars PROVE Exact'
  OBVIOUS
<1>1. CASE UNCHANGED memoryVars
  BY <1>1
  DEF memoryVars, ledgerVars, hostVars, Exact, Sound, Reported, Remembered, Heard, Halfway, Has, Due,
      Parses, Line, Again
<1>2. ASSUME NEW p \in Procs, Step(p) PROVE Exact'
  <2>1. ASSUME NEW s \in Sessions, NEW c \in Costs, NEW fresh \in BOOLEAN, NEW good \in BOOLEAN,
               ClaudeTurn(p, s, c, fresh, good)
        PROVE  Exact'
    BY <2>1, ClaudeTurnExact
  <2>2. CASE ParseResult(p)
    BY <2>2, ParseResultExact
  <2>3. CASE ParseFailure(p) \/ StepStart(p) \/ Text(p) \/ StepFinish(p)
    <3>1. /\ proc[p].lines # <<>> /\ ~Parses(p, "result") /\ Parsed(p)
          /\ UNCHANGED <<ledgerVars, cli, ran, charged, flawed, settled>>
      BY <2>3 DEF ParseFailure, StepStart, Text, StepFinish, Parses
    <3>2. /\ \A q \in Procs : q # p => proc'[q] = proc[q]
          /\ ~Parses(p, "result")'
      BY <3>1, ParsedProcess DEF Inv
    <3> QED
      BY <3>1, <3>2, AloneExact
  <2>4. ASSUME NEW s \in Chats, NEW script \in Scripts, OpencodeTurn(p, s, script) PROVE Exact'
    <3>1. /\ proc[p] = Idle
          /\ proc' = [proc EXCEPT ![p] = [Idle EXCEPT !.session = s, !.lines = script, !.script = script]]
          /\ UNCHANGED <<ledgerVars, cli, ran, charged, flawed, settled>>
      BY <2>4 DEF OpencodeTurn
    <3>2. Idle.lines = <<>> /\ [Idle EXCEPT !.session = s, !.lines = script, !.script = script].lines = script
      BY DEF Idle
    <3>3. ~Parses(p, "result") /\ \A q \in Procs : q # p => proc'[q] = proc[q]
      BY <3>1, <3>2 DEF Parses
    <3>4. ~Parses(p, "result")'
      <4> SUFFICES ASSUME Parses(p, "result")' PROVE FALSE
        OBVIOUS
      <4>1. proc'[p].lines = script
        BY <3>1, <3>2 DEF Inv, TypeInv
      <4>2. Head(script) \in Speech
        BY <4>1, ScriptsAreSpeech, HeadTailProperties DEF Parses
      <4> QED
        BY <4>1, <4>2 DEF Parses, Line, Speech
    <3> QED
      BY <3>1, <3>3, <3>4, AloneExact
  <2>5. CASE Dies(p)
    <3>1. /\ proc' = [proc EXCEPT ![p] = Idle] /\ proc[p].script # <<>>
          /\ UNCHANGED <<ledgerVars, cli, ran, charged, flawed, settled>>
      BY <2>5 DEF Dies
    <3>2. ~Parses(p, "result") /\ \A q \in Procs : q # p => proc'[q] = proc[q]
      BY <3>1 DEF Exact, Halfway
    <3>3. Idle.lines = <<>> /\ proc'[p] = Idle
      BY <3>1 DEF Idle, Inv, TypeInv
    <3>4. ~Parses(p, "result")'
      BY <3>3 DEF Parses
    <3> QED
      BY <3>1, <3>2, <3>4, AloneExact
  <2> QED
    BY <1>2, <2>1, <2>2, <2>3, <2>4, <2>5 DEF Step
<1> QED
  BY <1>1, <1>2 DEF MemoryNext

LEMMA InitExact == MemoryInit => Exact
<1> SUFFICES ASSUME MemoryInit PROVE Exact
  OBVIOUS
<1>1. /\ entries = [s \in {} |-> 0] /\ proc = [p \in Procs |-> Idle] /\ settled = {}
      /\ cli \in [Sessions -> {0} \union Costs] /\ ran = [s \in Sessions |-> 0]
      /\ charged = [x \in Surface |-> [s \in Sessions |-> 0]]
  BY DEF MemoryInit, LedgerInit
<1>2. Idle.lines = <<>>
  BY DEF Idle
<1>3. \A s : ~Has(s)
  BY <1>1 DEF Has
<1>4. ASSUME NEW s \in Sessions PROVE Sound(s)
  <2>1. {0} \union Costs \subseteq Nat
    BY TurnAssumption
  <2>2. ran[s] <= cli[s]
    BY <1>1, <2>1
  <2> QED
    BY <1>1, <1>3, <2>2 DEF Sound, Reported
<1>5. \A p \in Procs : Halfway(p)
  BY <1>1, <1>2 DEF Halfway, Parses
<1> QED
  BY <1>4, <1>5 DEF Exact

\* claude_cost.go: once a session's turn has succeeded, what the stream and the typed
\* surface each reported adds up to just what its turns under this host cost, unless the
\* ledger dropped it, first met it in the middle, or the CLI counted it afresh.
THEOREM CostsAreExact == MemorySpec => []CostIsExact
<1>1. Inv /\ Exact => CostIsExact
  <2> SUFFICES ASSUME Inv, Exact, NEW s \in Sessions, s \in settled \ flawed, ~Busy(s), NEW x \in Surface
               PROVE  charged[x][s] = ran[s]
    BY DEF CostIsExact
  <2>1. Sound(s) /\ charged[x][s] \in Nat /\ ran[s] \in Nat /\ cli[s] \in Nat
    BY DEF Exact, Inv, TypeInv
  <2>2. ~Remembered(s, x) /\ \A p \in Procs : proc[p].session # s
    BY DEF Remembered, Busy
  <2>3. Has(s) /\ entries[s].total = cli[s]
    BY <2>1, <2>2 DEF Sound, Heard
  <2> QED
    BY <2>1, <2>2, <2>3 DEF Sound, Reported
<1> QED
  BY <1>1, InitInv, InvStep, InitExact, ExactStep, PTL DEF MemorySpec

----------------------------------------------------------------------------
(* The final message. *)

\* The answer of a turn of which n lines have been written.
InStep(s, n) ==
  { i \in 1..n :
      /\ s[i].type = "text"
      /\ \A j \in i..n : s[j].type # "step_start"
      /\ \A h \in 1..i-1 :
           (s[h].type = "text" /\ s[h].part = s[i].part) =>
             \E j \in h..i : s[j].type = "step_start" }
UpTo(n) == [i \in 1..n |-> i]
Places(s, n) == Select(UpTo(n), InStep(s, n))
Spoken(s, n) == [k \in 1..Len(Places(s, n)) |-> s[Places(s, n)[k]].part]

LEMMA AnswerIsSpoken == ASSUME NEW s PROVE Answer(s) = Spoken(s, Len(s))
  BY DEF Answer, LastStep, Spoken, Places, InStep, UpTo

LEMMA UpToGrows ==
  ASSUME NEW n \in Nat
  PROVE  /\ UpTo(n) \in Seq(Nat) /\ Len(UpTo(n)) = n /\ \A i \in 1..n : UpTo(n)[i] = i
         /\ UpTo(n + 1) = Append(UpTo(n), n + 1)
<1>1. ASSUME NEW m \in Nat
      PROVE  UpTo(m) \in Seq(Nat) /\ Len(UpTo(m)) = m /\ \A i \in 1..m : UpTo(m)[i] = i
  BY IsASeq DEF UpTo
<1>2. n + 1 \in Nat /\ n \in Nat
  OBVIOUS
<1> DEFINE t == Append(UpTo(n), n + 1)
<1>3. /\ t \in Seq(Nat) /\ Len(t) = n + 1 /\ t[n + 1] = n + 1
      /\ \A i \in 1..n : t[i] = UpTo(n)[i]
  <2> DEFINE u == UpTo(n)
             m == n + 1
  <2>1. u \in Seq(Nat) /\ Len(u) = n /\ m \in Nat
    BY <1>1
  <2> HIDE DEF u, m
  <2>2. /\ Append(u, m) \in Seq(Nat) /\ Len(Append(u, m)) = Len(u) + 1
        /\ Append(u, m)[Len(u) + 1] = m /\ \A i \in 1..Len(u) : Append(u, m)[i] = u[i]
    BY <2>1, AppendProperties
  <2> QED
    BY <2>1, <2>2 DEF u, m
<1> HIDE DEF t
<1>4. UpTo(n + 1) = t
  <2>1. ASSUME NEW i \in 1..n + 1 PROVE UpTo(n + 1)[i] = t[i]
    <3>1. i \in 1..n \/ i = n + 1
      OBVIOUS
    <3> QED
      BY <1>1, <1>2, <1>3, <3>1
  <2>2. UpTo(n + 1) \in Seq(Nat) /\ Len(UpTo(n + 1)) = n + 1
    BY <1>1, <1>2
  <2> QED
    BY <1>3, <2>1, <2>2, SeqEqual
<1> QED
  BY <1>1, <1>2, <1>4 DEF t

LEMMA PlacesType ==
  ASSUME NEW s, NEW n \in Nat
  PROVE  /\ Places(s, n) \in Seq(Nat) /\ Len(Places(s, n)) \in Nat
         /\ \A e : (\E k \in 1..Len(Places(s, n)) : Places(s, n)[k] = e) <=> e \in InStep(s, n)
<1>1. UpTo(n) \in Seq(Nat) /\ Len(UpTo(n)) = n /\ \A i \in 1..n : UpTo(n)[i] = i
  BY UpToGrows
<1>2. Places(s, n) \in Seq(Nat)
  BY <1>1, SelectType DEF Places
<1>3. ASSUME NEW e
      PROVE (\E k \in 1..Len(Places(s, n)) : Places(s, n)[k] = e) <=> e \in InStep(s, n)
  <2>1. (\E k \in 1..Len(Places(s, n)) : Places(s, n)[k] = e)
           <=> e \in InStep(s, n) /\ \E i \in 1..Len(UpTo(n)) : UpTo(n)[i] = e
    <3> DEFINE u == UpTo(n)
               S == InStep(s, n)
    <3>1. u \in Seq(Nat)
      BY <1>1
    <3> HIDE DEF u, S
    <3>2. (\E k \in 1..Len(Select(u, S)) : Select(u, S)[k] = e)
             <=> e \in S /\ \E i \in 1..Len(u) : u[i] = e
      BY <3>1, SelectRange, SMTT(60)
    <3> QED
      BY <3>2 DEF Places, u, S
  <2>2. e \in InStep(s, n) => e \in 1..n
    BY DEF InStep
  <2> QED
    BY <1>1, <2>1, <2>2
<1> QED
  BY <1>2, <1>3, LenProperties

\* A line more.
LEMMA PlacesGrow ==
  ASSUME NEW s, NEW n \in Nat
  PROVE  /\ s[n + 1].type = "step_start" => Places(s, n + 1) = <<>>
         /\ s[n + 1].type # "step_start" =>
              Places(s, n + 1) = IF n + 1 \in InStep(s, n + 1)
                                 THEN Append(Places(s, n), n + 1) ELSE Places(s, n)
<1>1. /\ UpTo(n) \in Seq(Nat) /\ Len(UpTo(n)) = n /\ \A i \in 1..n : UpTo(n)[i] = i
      /\ UpTo(n + 1) = Append(UpTo(n), n + 1) /\ n + 1 \in Nat
      /\ UpTo(n + 1) \in Seq(Nat) /\ Len(UpTo(n + 1)) = n + 1
      /\ \A i \in 1..n+1 : UpTo(n + 1)[i] = i
  BY UpToGrows, n + 1 \in Nat
<1>2. ASSUME s[n + 1].type = "step_start" PROVE Places(s, n + 1) = <<>>
  <2>1. ASSUME NEW i \in 1..n+1 PROVE i \notin InStep(s, n + 1)
    <3>1. n + 1 \in i..n+1
      OBVIOUS
    <3> QED
      BY <1>2, <3>1 DEF InStep
  <2> QED
    BY <1>1, <2>1, SelectNone DEF Places
<1>3. ASSUME s[n + 1].type # "step_start"
      PROVE  Places(s, n + 1) = IF n + 1 \in InStep(s, n + 1)
                                THEN Append(Places(s, n), n + 1) ELSE Places(s, n)
  <2>1. ASSUME NEW i \in 1..n PROVE i \in InStep(s, n + 1) <=> i \in InStep(s, n)
    <3>1. i \in 1..n+1 /\ i..n+1 = i..n \union {n + 1}
      OBVIOUS
    <3> QED
      BY <1>3, <3>1 DEF InStep
  <2>2. Select(UpTo(n), InStep(s, n + 1)) = Select(UpTo(n), InStep(s, n))
    BY <1>1, <2>1, SelectSame
  <2>3. Select(Append(UpTo(n), n + 1), InStep(s, n + 1)) =
          IF n + 1 \in InStep(s, n + 1)
          THEN Append(Select(UpTo(n), InStep(s, n + 1)), n + 1)
          ELSE Select(UpTo(n), InStep(s, n + 1))
    <3> DEFINE u == UpTo(n)
               S == InStep(s, n + 1)
               m == n + 1
    <3>1. u \in Seq(Nat) /\ m \in Nat
      BY <1>1
    <3> HIDE DEF u, S, m
    <3>2. Select(Append(u, m), S) = IF m \in S THEN Append(Select(u, S), m) ELSE Select(u, S)
      BY <3>1, SelectAppend
    <3> QED
      BY <3>2 DEF u, S, m
  <2> QED
    BY <1>1, <2>2, <2>3 DEF Places
<1> QED
  BY <1>2, <1>3

\* A part is new to its step just when no place of the step holds it yet.
LEMMA FreshPart ==
  ASSUME NEW s, NEW n \in Nat, s[n + 1].type = "text"
  PROVE  n + 1 \in InStep(s, n + 1) <=> ~\E i \in InStep(s, n) : s[i].part = s[n + 1].part
<1>1. n + 1 \in 1..n+1 /\ (n + 1) - 1 = n
  OBVIOUS
<1>2. ASSUME NEW i \in InStep(s, n), s[i].part = s[n + 1].part PROVE n + 1 \notin InStep(s, n + 1)
  <2>1. i \in 1..n /\ s[i].type = "text" /\ \A j \in i..n : s[j].type # "step_start"
    BY DEF InStep
  <2>2. i..n+1 = i..n \union {n + 1}
    BY <2>1
  <2>3. \A j \in i..n+1 : s[j].type # "step_start"
    BY <2>1, <2>2
  <2>4. i \in 1..(n + 1) - 1
    BY <2>1
  <2> QED
    BY <1>2, <2>1, <2>3, <2>4 DEF InStep
<1>3. ASSUME n + 1 \notin InStep(s, n + 1) PROVE \E i \in InStep(s, n) : s[i].part = s[n + 1].part
  <2> DEFINE H == {h \in 1..n : /\ s[h].type = "text" /\ s[h].part = s[n + 1].part
                                /\ \A j \in h..n : s[j].type # "step_start"}
  <2>1. H # {}
    <3>1. \A j \in n+1..n+1 : s[j].type # "step_start"
      OBVIOUS
    <3>2. PICK h \in 1..(n + 1) - 1 :
            /\ s[h].type = "text" /\ s[h].part = s[n + 1].part
            /\ ~\E j \in h..n+1 : s[j].type = "step_start"
      BY <1>1, <1>3, <3>1 DEF InStep
    <3>3. h \in 1..n /\ h..n \subseteq h..n+1
      BY <1>1, <3>2
    <3> QED
      BY <3>2, <3>3
  <2>2. H \subseteq Nat
    OBVIOUS
  <2>3. PICK i \in H : \A h \in H : i <= h
    BY <2>1, <2>2, NatLeast
  <2>4. i \in 1..n /\ s[i].type = "text" /\ s[i].part = s[n + 1].part
        /\ \A j \in i..n : s[j].type # "step_start"
    BY <2>3
  <2>5. ASSUME NEW h \in 1..i-1, s[h].type = "text", s[h].part = s[i].part,
               \A j \in h..i : s[j].type # "step_start"
        PROVE  FALSE
    <3>1. h \in 1..n /\ h..n \subseteq h..i \union i..n /\ h < i
      BY <2>4
    <3>2. \A j \in h..n : s[j].type # "step_start"
      BY <2>4, <2>5, <3>1
    <3>3. h \in H
      BY <2>4, <2>5, <3>1, <3>2
    <3> QED
      BY <2>3, <2>4, <3>1, <3>3
  <2>6. i \in InStep(s, n)
    BY <2>4, <2>5 DEF InStep
  <2> QED
    BY <2>4, <2>6
<1> QED
  BY <1>2, <1>3

\* What a line adds to the answer so far.
LEMMA SpokenGrows ==
  ASSUME NEW s, NEW n \in Nat
  PROVE  /\ s[n + 1].type = "step_start" => Spoken(s, n + 1) = <<>>
         /\ s[n + 1].type = "step_finish" => Spoken(s, n + 1) = Spoken(s, n)
         /\ s[n + 1].type = "text" =>
              Spoken(s, n + 1) = IF Contains(Spoken(s, n), s[n + 1].part) THEN Spoken(s, n)
                                 ELSE Append(Spoken(s, n), s[n + 1].part)
<1> DEFINE a == Places(s, n)
           b == Places(s, n + 1)
<1>1. /\ a \in Seq(Nat) /\ Len(a) \in Nat
      /\ \A e : (\E k \in 1..Len(a) : a[k] = e) <=> e \in InStep(s, n)
  BY PlacesType
<1>2. /\ s[n + 1].type = "step_start" => b = <<>>
      /\ s[n + 1].type # "step_start" =>
           b = IF n + 1 \in InStep(s, n + 1) THEN Append(a, n + 1) ELSE a
  BY PlacesGrow
<1>3. /\ Spoken(s, n) = [k \in 1..Len(a) |-> s[a[k]].part]
      /\ Spoken(s, n + 1) = [k \in 1..Len(b) |-> s[b[k]].part]
  BY DEF Spoken
<1> HIDE DEF a, b
<1>4. CASE s[n + 1].type = "step_start"
  <2>1. Len(b) = 0
    BY <1>2, <1>4, EmptySeq
  <2>2. Spoken(s, n + 1) = <<>>
    BY <1>3, <2>1
  <2> QED
    BY <1>4, <2>2
<1>5. CASE s[n + 1].type = "step_finish"
  <2>1. n + 1 \notin InStep(s, n + 1)
    BY <1>5 DEF InStep
  <2> QED
    BY <1>2, <1>3, <1>5, <2>1
<1>6. CASE s[n + 1].type = "text"
  <2> DEFINE P == {s[k].part : k \in Nat}
             q == s[n + 1].part
             f == Spoken(s, n)
  <2>1. f \in Seq(P) /\ Len(f) = Len(a) /\ \A k \in 1..Len(a) : f[k] = s[a[k]].part
    <3>1. \A k \in 1..Len(a) : a[k] \in Nat
      BY <1>1, ElementOfSeq
    <3>2. \A k \in 1..Len(a) : s[a[k]].part \in P
      BY <3>1
    <3> HIDE DEF P
    <3> QED
      BY <1>1, <1>3, <3>2, IsASeq
  <2>2. q \in P
    BY n + 1 \in Nat
  <2> HIDE DEF P, q, f
  <2>3. Contains(f, q) <=> \E i \in InStep(s, n) : s[i].part = q
    BY <1>1, <2>1, SMTT(30) DEF Contains
  <2>4. n + 1 \in InStep(s, n + 1) <=> ~Contains(f, q)
    BY <1>6, <2>3, FreshPart DEF q
  <2>5. CASE Contains(f, q)
    BY <1>2, <1>3, <1>6, <2>4, <2>5 DEF f, q
  <2>6. CASE ~Contains(f, q)
    <3>1. b = Append(a, n + 1)
      BY <1>2, <1>6, <2>4, <2>6
    <3>2. Len(b) = Len(a) + 1 /\ b[Len(a) + 1] = n + 1 /\ \A k \in 1..Len(a) : b[k] = a[k]
      BY <1>1, <3>1, AppendProperties, n + 1 \in Nat
    <3>3. Append(f, q) \in Seq(P) /\ Len(Append(f, q)) = Len(f) + 1
          /\ Append(f, q)[Len(f) + 1] = q /\ \A k \in 1..Len(f) : Append(f, q)[k] = f[k]
      BY <2>1, <2>2, AppendProperties
    <3>4. Spoken(s, n + 1) = Append(f, q)
      <4> DEFINE g == Spoken(s, n + 1)
      <4>1. ASSUME NEW k \in 1..Len(a) + 1
            PROVE  s[b[k]].part = Append(f, q)[k] /\ s[b[k]].part \in P
        <5>1. k \in 1..Len(a) \/ k = Len(a) + 1
          BY <1>1
        <5>2. CASE k \in 1..Len(a)
          <6>1. s[b[k]].part = f[k] /\ Append(f, q)[k] = f[k] /\ f[k] \in P
            BY <2>1, <3>2, <3>3, <5>2, ElementOfSeq
          <6> QED
            BY <6>1
        <5>3. CASE k = Len(a) + 1
          BY <2>1, <2>2, <3>2, <3>3, <5>3 DEF q
        <5> QED
          BY <5>1, <5>2, <5>3
      <4>2. g = [k \in 1..Len(a) + 1 |-> s[b[k]].part]
        BY <1>3, <3>2
      <4>3. g \in Seq(P) /\ Len(g) = Len(a) + 1 /\ \A k \in 1..Len(a)+1 : g[k] = Append(f, q)[k]
        <5> HIDE DEF g
        <5>1. Len(a) + 1 \in Nat
          BY <1>1
        <5>2. \A k \in 1..Len(a) + 1 : s[b[k]].part \in P
          BY <4>1
        <5>3. [k \in 1..Len(a) + 1 |-> s[b[k]].part] \in Seq(P)
          BY <5>1, <5>2, IsASeq
        <5>4. DOMAIN g = 1..Len(a) + 1 /\ g \in Seq(P)
          BY <4>2, <5>3
        <5>5. Len(g) = Len(a) + 1
          BY <5>1, <5>4, LenProperties
        <5>6. \A k \in 1..Len(a) + 1 : g[k] = Append(f, q)[k]
          BY <4>1, <4>2
        <5> QED
          BY <5>4, <5>5, <5>6
      <4> HIDE DEF g
      <4>4. g = Append(f, q)
        BY <2>1, <3>3, <4>3, SeqEqual
      <4> QED
        BY <4>4 DEF g
    <3> QED
      BY <1>6, <2>6, <3>4 DEF f, q
  <2> QED
    BY <2>5, <2>6
<1> QED
  BY <1>4, <1>5, <1>6

\* What a turn that is over has reported.
Message == {Unsaid} \union {[script |-> s, said |-> Answer(s)] : s \in Scripts}

\* The lines of the turn the step memory has seen: of the first in hand, the first
\* surface has passed it on before the second one does.
Handled(p) ==
  Len(proc[p].script) - Len(proc[p].lines) + (IF proc[p].surface = "typed" THEN 1 ELSE 0)

\* A process has the end of its script before it, and the step memory of its session
\* holds what the lines already handled say.
InTurn(p) ==
  IF proc[p].script = <<>> THEN proc[p].lines = <<>> \/ \E r \in Result : proc[p].lines = <<r>>
  ELSE /\ proc[p].session # "" /\ proc[p].lines \in Seq(Speech)
       /\ Len(proc[p].lines) \in 1..Len(proc[p].script)
       /\ \A i \in 1..Len(proc[p].lines) :
            proc[p].lines[i] = proc[p].script[(Len(proc[p].script) - Len(proc[p].lines)) + i]
       /\ Handled(p) > 0 => StepOf(proc[p].session) = Spoken(proc[p].script, Handled(p))

SpeechInv ==
  /\ final \in [Procs -> [Surface -> Message]]
  /\ \A p \in Procs : InTurn(p)

\* A process whose own part does not change keeps its turn, if the steps of its session
\* stay as they are.
LEMMA OtherTurn ==
  ASSUME Inv, SpeechInv, NEW p \in Procs, NEW q \in Procs, q # p, proc'[q] = proc[q],
         \A x : x # proc[p].session =>
           (x \in DOMAIN steps' <=> x \in DOMAIN steps) /\ (x \in DOMAIN steps => steps'[x] = steps[x])
  PROVE  InTurn(q)'
<1>1. InTurn(q)
  BY DEF SpeechInv
<1>2. Handled(q)' = Handled(q)
  BY DEF Handled
<1>3. CASE proc[q].script = <<>>
  BY <1>1, <1>3 DEF InTurn
<1>4. CASE proc[q].script # <<>>
  <2>1. proc[q].session # proc[p].session
    BY <1>1, <1>4 DEF InTurn, Inv, Apart
  <2>2. StepOf(proc[q].session)' = StepOf(proc[q].session)
    BY <2>1 DEF StepOf
  <2> QED
    BY <1>1, <1>2, <1>4, <2>2 DEF InTurn
<1> QED
  BY <1>3, <1>4

\* Steps that leave the step memory alone and p, in the end, with no opencode turn.
LEMMA NoTurn ==
  ASSUME Inv, SpeechInv, NEW p \in Procs, UNCHANGED <<steps, final>>,
         \A q \in Procs : q # p => proc'[q] = proc[q],
         proc'[p].script = <<>>,
         proc'[p].lines = <<>> \/ \E r \in Result : proc'[p].lines = <<r>>
  PROVE  SpeechInv'
<1>1. InTurn(p)'
  BY DEF InTurn
<1>2. ASSUME NEW q \in Procs, q # p PROVE InTurn(q)'
  BY <1>2, OtherTurn
<1> QED
  BY <1>1, <1>2 DEF SpeechInv

\* Only a process without a script has a result to parse.
LEMMA NoScript ==
  ASSUME SpeechInv, NEW p \in Procs, Parses(p, "result") \/ Parses(p, "failure")
  PROVE  proc[p].script = <<>> /\ \E r \in Result : proc[p].lines = <<r>>
<1>1. InTurn(p)
  BY DEF SpeechInv
<1>2. ASSUME proc[p].script # <<>> PROVE FALSE
  <2>1. Head(proc[p].lines) \in Speech
    BY <1>1, <1>2, HeadTailProperties DEF InTurn, Parses
  <2> QED
    BY <2>1 DEF Parses, Line, Speech
<1> QED
  BY <1>1, <1>2 DEF InTurn, Parses

LEMMA ResultSpeech ==
  ASSUME Inv, SpeechInv, NEW p \in Procs, Parses(p, "result") \/ Parses(p, "failure"),
         Parsed(p), UNCHANGED <<steps, final>>
  PROVE  SpeechInv'
<1>1. /\ proc[p].script = <<>> /\ proc[p].lines # <<>> /\ Len(proc[p].lines) = 1
      /\ \E r \in Result : proc[p].lines = <<r>>
  <2>1. proc[p].script = <<>> /\ \E r \in Result : proc[p].lines = <<r>>
    BY NoScript
  <2> QED
    BY <2>1
<1>2. proc \in [Procs -> Process] /\ proc[p] \in Process
  BY DEF Inv, TypeInv
<1>3. \A q \in Procs : q # p => proc'[q] = proc[q]
  BY <1>1, ParsedProcess DEF Inv
<1>4. CASE proc[p].surface = "legacy"
  <2>1. proc' = [proc EXCEPT ![p] = [proc[p] EXCEPT !.surface = "typed"]]
    BY <1>4 DEF Parsed
  <2>2. proc'[p].script = proc[p].script /\ proc'[p].lines = proc[p].lines
    BY <1>2, <2>1 DEF Process
  <2> QED
    BY <1>1, <1>3, <2>2, NoTurn
<1>5. CASE proc[p].surface # "legacy"
  <2>1. proc' = [proc EXCEPT ![p] = Idle]
    BY <1>1, <1>5 DEF Parsed
  <2>2. proc'[p].script = <<>> /\ proc'[p].lines = <<>>
    BY <1>2, <2>1 DEF Idle
  <2> QED
    BY <1>3, <2>2, NoTurn
<1> QED
  BY <1>4, <1>5

\* A line of a turn: which one it is, and what the step memory holds when it is parsed.
LEMMA TheLine ==
  ASSUME Inv, SpeechInv, NEW p \in Procs, proc[p].lines # <<>>,
         Line(p).type \in {"step_start", "text", "step_finish"}
  PROVE  LET n == Len(proc[p].script) - Len(proc[p].lines)
             s == proc[p].script
         IN  /\ s \in Scripts /\ s \in Seq(Speech) /\ proc[p].session # "" /\ n \in Nat
             /\ n + 1 \in 1..Len(s)
             /\ Line(p) = s[n + 1]
             /\ Line(p).type # "step_start" => n > 0
             /\ proc[p].surface = "legacy" => (n > 0 => StepOf(proc[p].session) = Spoken(s, n))
             /\ proc[p].surface # "legacy" => StepOf(proc[p].session) = Spoken(s, n + 1)
<1> DEFINE s == proc[p].script
           l == proc[p].lines
           n == Len(s) - Len(l)
<1>1. InTurn(p) /\ proc[p] \in Process
  BY DEF SpeechInv, Inv, TypeInv
<1>2. s # <<>>
  <2> SUFFICES ASSUME s = <<>> PROVE FALSE
    OBVIOUS
  <2>1. PICK r \in Result : l = <<r>>
    BY <1>1 DEF InTurn
  <2> QED
    BY <2>1 DEF Line, Result
<1>3. s \in Scripts
  BY <1>1, <1>2 DEF Process
<1>4. s \in Seq(Speech) /\ s[1].type = "step_start"
  BY <1>3, ScriptsAreSpeech, TurnAssumption
<1>5. /\ proc[p].session # "" /\ l \in Seq(Speech) /\ Len(l) \in 1..Len(s)
      /\ \A i \in 1..Len(l) : l[i] = s[n + i]
      /\ Handled(p) > 0 => StepOf(proc[p].session) = Spoken(s, Handled(p))
  BY <1>1, <1>2 DEF InTurn
<1>6. Len(s) \in Nat /\ Len(l) \in Nat
  BY <1>4, <1>5, LenProperties
<1>7. n \in Nat /\ n + 1 \in 1..Len(s) /\ 1 \in 1..Len(l) /\ n = Len(s) - Len(l)
  <2> DEFINE a == Len(s)
             b == Len(l)
  <2>1. a \in Nat /\ b \in Nat /\ b \in 1..a
    BY <1>5, <1>6
  <2> HIDE DEF a, b
  <2>2. a - b \in Nat /\ (a - b) + 1 \in 1..a /\ 1 \in 1..b
    BY <2>1
  <2> QED
    BY <2>2 DEF a, b
<1>n. n \in Nat
  BY <1>7
<1>8. Line(p) = l[1]
  BY HeadTailProperties DEF Line
<1> HIDE DEF n
<1>9. Line(p) = s[n + 1]
  BY <1>5, <1>7, <1>8
<1>10. Line(p).type # "step_start" => n > 0
  <2>1. n = 0 => n + 1 = 1
    BY <1>n
  <2>2. n # 0 => n > 0
    BY <1>n
  <2> QED
    BY <1>4, <1>9, <2>1, <2>2
<1>11. proc[p].surface \in {"legacy", "typed"}
  BY <1>1 DEF Process, Surface
<1>12. Handled(p) = IF proc[p].surface = "legacy" THEN n ELSE n + 1
  <2>1. Handled(p) = n + (IF proc[p].surface = "typed" THEN 1 ELSE 0)
    BY DEF Handled, n
  <2>2. n + 0 = n
    BY <1>n
  <2> QED
    BY <1>11, <2>1, <2>2
<1>13. /\ proc[p].surface = "legacy" => (n > 0 => StepOf(proc[p].session) = Spoken(s, n))
       /\ proc[p].surface # "legacy" => StepOf(proc[p].session) = Spoken(s, n + 1)
  <2>1. n + 1 > 0
    BY <1>n
  <2> QED
    BY <1>5, <1>12, <2>1
<1> QED
  BY <1>3, <1>4, <1>5, <1>7, <1>9, <1>10, <1>13 DEF n

\* One line parsed for one surface: afterwards the step memory is to hold what the
\* lines up to this one say.
LEMMA LineSpeech ==
  ASSUME Inv, SpeechInv, NEW p \in Procs, proc[p].lines # <<>>,
         Line(p).type \in {"step_start", "text", "step_finish"}, Parsed(p),
         \A x : x # proc[p].session =>
           (x \in DOMAIN steps' <=> x \in DOMAIN steps) /\ (x \in DOMAIN steps => steps'[x] = steps[x]),
         (IF proc[p].session \in DOMAIN steps' THEN steps'[proc[p].session] ELSE <<>>) =
           Spoken(proc[p].script, (Len(proc[p].script) - Len(proc[p].lines)) + 1)
  PROVE  \A q \in Procs : InTurn(q)'
<1> DEFINE s == proc[p].script
           l == proc[p].lines
           n == Len(s) - Len(l)
<1>1. /\ s \in Scripts /\ s \in Seq(Speech) /\ proc[p].session # "" /\ n \in Nat
      /\ n + 1 \in 1..Len(s)
  BY TheLine
<1>n. n \in Nat
  BY <1>1
<1>2. proc[p] \in Process /\ proc \in [Procs -> Process] /\ InTurn(p)
  BY DEF Inv, TypeInv, SpeechInv
<1>3. s # <<>>
  BY <1>1, TurnAssumption
<1>4. /\ l \in Seq(Speech) /\ Len(l) \in 1..Len(s)
      /\ \A i \in 1..Len(l) : l[i] = s[n + i]
  BY <1>2, <1>3 DEF InTurn
<1>5. Len(s) \in Nat /\ Len(l) \in Nat
  BY <1>1, <1>4, LenProperties
<1>6. \A q \in Procs : q # p => proc'[q] = proc[q]
  BY ParsedProcess DEF Inv
<1>7. ASSUME NEW q \in Procs, q # p PROVE InTurn(q)'
  BY <1>6, <1>7, OtherTurn
<1>8. CASE proc[p].surface = "legacy"
  <2>1. proc' = [proc EXCEPT ![p] = [proc[p] EXCEPT !.surface = "typed"]]
    BY <1>8 DEF Parsed
  <2>2. /\ proc'[p].script = s /\ proc'[p].lines = l /\ proc'[p].session = proc[p].session
        /\ proc'[p].surface = "typed"
    BY <1>2, <2>1 DEF Process
  <2>3. Handled(p)' = n + 1
    BY <2>2 DEF Handled
  <2>4. StepOf(proc[p].session)' = Spoken(s, n + 1)
    BY <2>2 DEF StepOf
  <2>5. InTurn(p)'
    <3> DEFINE k == n + 1
    <3>1. Handled(p)' = k /\ StepOf(proc[p].session)' = Spoken(s, k)
      BY <2>3, <2>4
    <3> HIDE DEF k
    <3>2. (StepOf(proc[p].session) = Spoken(proc[p].script, Handled(p)))'
      BY <2>2, <3>1
    <3> QED
      BY <1>1, <1>3, <1>4, <2>2, <3>2 DEF InTurn
  <2> QED
    BY <1>7, <2>5
<1>9. CASE proc[p].surface # "legacy" /\ Len(l) = 1
  <2>1. proc' = [proc EXCEPT ![p] = Idle]
    BY <1>9 DEF Parsed
  <2>2. proc'[p].script = <<>> /\ proc'[p].lines = <<>>
    BY <1>2, <2>1 DEF Idle
  <2> QED
    BY <1>7, <2>2 DEF InTurn
<1>10. CASE proc[p].surface # "legacy" /\ Len(l) # 1
  <2> DEFINE t == Tail(l)
  <2>1. proc' = [proc EXCEPT ![p] = [proc[p] EXCEPT !.surface = "legacy", !.lines = t]]
    BY <1>10 DEF Parsed
  <2>2. /\ proc'[p].script = s /\ proc'[p].lines = t /\ proc'[p].session = proc[p].session
        /\ proc'[p].surface = "legacy"
    BY <1>2, <2>1 DEF Process
  <2>3. /\ t \in Seq(Speech) /\ Len(t) = Len(l) - 1
        /\ \A i \in 1..Len(t) : t[i] = l[i + 1]
    BY <1>4, HeadTailProperties
  <2> HIDE DEF t
  <2>4. Len(t) \in 1..Len(s) /\ Len(s) - Len(t) = n + 1
    <3> DEFINE a == Len(s)
               b == Len(l)
               c == Len(t)
    <3>1. a \in Nat /\ b \in 1..a /\ c = b - 1 /\ b # 1
      BY <1>4, <1>5, <1>10, <2>3
    <3> HIDE DEF a, b, c
    <3>2. c \in 1..a /\ a - c = (a - b) + 1
      BY <3>1
    <3> QED
      BY <3>2 DEF a, b, c
  <2>5. Handled(p)' = n + 1
    <3>1. Handled(p)' = (Len(s) - Len(t)) + 0
      BY <2>2 DEF Handled
    <3> HIDE DEF n
    <3>2. (n + 1) + 0 = n + 1
      BY <1>n
    <3> QED
      BY <2>4, <3>1, <3>2
  <2>6. ASSUME NEW i \in 1..Len(t) PROVE t[i] = s[(Len(s) - Len(t)) + i]
    <3> HIDE DEF n
    <3>1. i + 1 \in 1..Len(l) /\ n + (i + 1) = (n + 1) + i
      <4> DEFINE b == Len(l)
                 c == Len(t)
      <4>1. b \in Nat /\ c = b - 1 /\ i \in 1..c
        BY <1>5, <2>3
      <4> HIDE DEF b, c
      <4>2. i + 1 \in 1..b /\ i \in Nat
        BY <4>1
      <4>3. n + (i + 1) = (n + 1) + i
        BY <1>n, <4>2
      <4> QED
        BY <4>2, <4>3 DEF b
    <3>2. l[i + 1] = s[n + (i + 1)]
      BY <1>4, <3>1
    <3> QED
      BY <2>3, <2>4, <3>1, <3>2
  <2>7. StepOf(proc[p].session)' = Spoken(s, n + 1)
    BY <2>2 DEF StepOf
  <2> QED
    BY <1>1, <1>3, <1>7, <2>2, <2>3, <2>4, <2>5, <2>6, <2>7, ZenonT(30) DEF InTurn
<1> QED
  BY <1>7, <1>8, <1>9, <1>10

\* What Remember leaves.
LEMMA Remembers ==
  ASSUME NEW x, NEW parts, Remember(x, parts)
  PROVE  /\ \A y : y # x =>
              (y \in DOMAIN steps' <=> y \in DOMAIN steps) /\ (y \in DOMAIN steps => steps'[y] = steps[y])
         /\ x \in DOMAIN steps' /\ steps'[x] = parts
  BY DEF Remember

LEMMA StepStartSpeech == ASSUME Inv, SpeechInv, NEW p \in Procs, StepStart(p) PROVE SpeechInv'
<1> DEFINE n == Len(proc[p].script) - Len(proc[p].lines)
           s == proc[p].script
<1>1. /\ Parsed(p) /\ Remember(proc[p].session, <<>>) /\ final' = final
      /\ proc[p].lines # <<>> /\ Line(p).type = "step_start"
  BY DEF StepStart, StepStarts, Parses
<1>2. Line(p) = s[n + 1] /\ n \in Nat
  BY <1>1, TheLine
<1>3. Spoken(s, n + 1) = <<>>
  BY <1>1, <1>2, SpokenGrows
<1>4. \A q \in Procs : InTurn(q)'
  <2>1. (IF proc[p].session \in DOMAIN steps' THEN steps'[proc[p].session] ELSE <<>>) = Spoken(s, n + 1)
    BY <1>1, <1>3, Remembers, ZenonT(30)
  <2> QED
    BY <1>1, <2>1, Remembers, LineSpeech
<1> QED
  BY <1>1, <1>4 DEF SpeechInv

LEMMA TextSpeech == ASSUME Inv, SpeechInv, NEW p \in Procs, Text(p) PROVE SpeechInv'
<1> DEFINE n == Len(proc[p].script) - Len(proc[p].lines)
           s == proc[p].script
           x == proc[p].session
           part == Line(p).part
           parts == IF Contains(StepOf(x), part) THEN StepOf(x) ELSE Append(StepOf(x), part)
<1>1. /\ Parsed(p) /\ Remember(x, parts) /\ final' = final
      /\ proc[p].lines # <<>> /\ Line(p).type = "text"
  BY DEF Text, AddPart, Parses
<1>2. /\ Line(p) = s[n + 1] /\ n \in Nat /\ n > 0
      /\ proc[p].surface = "legacy" => (n > 0 => StepOf(x) = Spoken(s, n))
      /\ proc[p].surface # "legacy" => StepOf(x) = Spoken(s, n + 1)
  BY <1>1, TheLine
<1>3. Spoken(s, n + 1) = IF Contains(Spoken(s, n), part) THEN Spoken(s, n)
                         ELSE Append(Spoken(s, n), part)
  BY <1>1, <1>2, SpokenGrows
<1>4. parts = Spoken(s, n + 1)
  <2>1. CASE proc[p].surface = "legacy"
    BY <1>2, <1>3, <2>1
  <2>2. CASE proc[p].surface # "legacy"
    <3>1. Contains(Spoken(s, n + 1), part)
      <4>1. CASE Contains(Spoken(s, n), part)
        BY <1>3, <4>1
      <4>2. CASE ~Contains(Spoken(s, n), part)
        <5> DEFINE f == Spoken(s, n)
                   T == {f[i] : i \in 1..Len(f)} \union {part}
        <5>1. f \in Seq(T) /\ part \in T
          <6>1. f = [k \in 1..Len(Places(s, n)) |-> s[Places(s, n)[k]].part]
                /\ Len(Places(s, n)) \in Nat
            BY <1>2, PlacesType DEF Spoken
          <6> DEFINE m == Len(Places(s, n))
                     e(k) == s[Places(s, n)[k]].part
          <6>2. f = [k \in 1..m |-> e(k)] /\ m \in Nat
            BY <6>1
          <6> HIDE DEF m, e
          <6> HIDE DEF f
          <6>3. f = [k \in 1..m |-> f[k]] /\ Len(f) = m
            BY <6>2
          <6>4. \A k \in 1..m : f[k] \in T
            BY <6>3
          <6> HIDE DEF T
          <6>5. [k \in 1..m |-> f[k]] \in Seq(T)
            BY <6>2, <6>4, IsASeq
          <6> QED
            BY <6>3, <6>5 DEF T
        <5> HIDE DEF f, T
        <5>2. Len(Append(f, part)) = Len(f) + 1 /\ Append(f, part)[Len(f) + 1] = part
              /\ Len(f) \in Nat
          BY <5>1, AppendProperties, LenProperties
        <5>3. Len(f) + 1 \in 1..Len(Append(f, part))
          BY <5>2
        <5>4. Contains(Append(f, part), part)
          BY <5>2, <5>3 DEF Contains
        <5> QED
          BY <1>3, <4>2, <5>4 DEF f
      <4> QED
        BY <4>1, <4>2
    <3> QED
      BY <1>2, <2>2, <3>1
  <2> QED
    BY <2>1, <2>2
<1> HIDE DEF parts
<1>5. \A q \in Procs : InTurn(q)'
  <2>1. (IF x \in DOMAIN steps' THEN steps'[x] ELSE <<>>) = Spoken(s, n + 1)
    BY <1>1, <1>4, Remembers, ZenonT(30)
  <2> QED
    BY <1>1, <2>1, Remembers, LineSpeech
<1> QED
  BY <1>1, <1>5 DEF SpeechInv

LEMMA StepFinishSpeech == ASSUME Inv, SpeechInv, NEW p \in Procs, StepFinish(p) PROVE SpeechInv'
<1> DEFINE n == Len(proc[p].script) - Len(proc[p].lines)
           s == proc[p].script
           x == proc[p].session
<1>1. /\ Parsed(p) /\ steps' = steps /\ proc[p].lines # <<>> /\ Line(p).type = "step_finish"
  BY DEF StepFinish, Parses
<1>2. /\ Line(p) = s[n + 1] /\ n \in Nat /\ n > 0 /\ s \in Scripts /\ n + 1 \in 1..Len(s)
      /\ proc[p].surface = "legacy" => (n > 0 => StepOf(x) = Spoken(s, n))
      /\ proc[p].surface # "legacy" => StepOf(x) = Spoken(s, n + 1)
  BY <1>1, TheLine
<1>3. Spoken(s, n + 1) = Spoken(s, n)
  BY <1>1, <1>2, SpokenGrows
<1>4. StepOf(x) = Spoken(s, n + 1)
  BY <1>2, <1>3
<1>5. \A q \in Procs : InTurn(q)'
  <2>1. (IF x \in DOMAIN steps' THEN steps'[x] ELSE <<>>) = Spoken(s, n + 1)
    BY <1>1, <1>4 DEF StepOf
  <2> QED
    BY <1>1, <2>1, LineSpeech
<1>6. final' \in [Procs -> [Surface -> Message]]
  <2>1. CASE EndsTurn(Line(p).reason)
    <3>1. n + 1 = Len(s)
      BY <1>1, <1>2, <2>1, TurnAssumption
    <3>2. [script |-> s, said |-> Final(x)] \in Message
      BY <1>2, <1>4, <3>1, AnswerIsSpoken DEF Message, Final
    <3>3. proc[p].surface \in Surface
      BY DEF Inv, TypeInv, Process
    <3>4. final' = [final EXCEPT ![p][proc[p].surface] = [script |-> s, said |-> Final(x)]]
      BY <2>1 DEF StepFinish
    <3> QED
      BY <3>2, <3>3, <3>4 DEF SpeechInv
  <2>2. CASE ~EndsTurn(Line(p).reason)
    BY <2>2 DEF StepFinish, SpeechInv
  <2> QED
    BY <2>1, <2>2
<1> QED
  BY <1>5, <1>6 DEF SpeechInv

LEMMA OpencodeSpeech ==
  ASSUME Inv, SpeechInv, NEW p \in Procs, NEW x \in Chats, NEW s \in Scripts, OpencodeTurn(p, x, s)
  PROVE  SpeechInv'
<1>1. /\ proc' = [proc EXCEPT ![p] = [Idle EXCEPT !.session = x, !.lines = s, !.script = s]]
      /\ final' = [final EXCEPT ![p] = [y \in Surface |-> Unsaid]] /\ steps' = steps
  BY DEF OpencodeTurn
<1>2. s \in Seq(Speech) /\ s # <<>>
  BY ScriptsAreSpeech, TurnAssumption
<1>3. x # ""
  BY FreshSession DEF OpencodeTurn
<1>4. /\ proc'[p].session = x /\ proc'[p].lines = s /\ proc'[p].script = s
      /\ proc'[p].surface = "legacy" /\ \A q \in Procs : q # p => proc'[q] = proc[q]
  BY <1>1 DEF Idle, Inv, TypeInv
<1>5. Len(s) \in 1..Len(s) /\ Len(s) - Len(s) = 0 /\ \A i \in 1..Len(s) : 0 + i = i
  BY <1>2, EmptySeq, LenProperties
<1>6. Handled(p)' = 0
  BY <1>4, <1>5 DEF Handled
<1>7. InTurn(p)'
  <2>1. ~(Handled(p) > 0)'
    BY <1>6
  <2>2. \A i \in 1..Len(s) : s[i] = s[(Len(s) - Len(s)) + i]
    BY <1>5
  <2> QED
    BY <1>2, <1>3, <1>4, <1>5, <2>1, <2>2 DEF InTurn
<1>8. ASSUME NEW q \in Procs, q # p PROVE InTurn(q)'
  BY <1>1, <1>4, <1>8, OtherTurn
<1>9. final' \in [Procs -> [Surface -> Message]]
  BY <1>1 DEF SpeechInv, Message
<1> QED
  BY <1>7, <1>8, <1>9 DEF SpeechInv

LEMMA SpeechStep == Inv /\ SpeechInv /\ [MemoryNext]_memoryVars => SpeechInv'
<1> SUFFICES ASSUME Inv, SpeechInv, [MemoryNext]_memoryVars PROVE SpeechInv'
  OBVIOUS
<1>1. CASE UNCHANGED memoryVars
  <2>1. steps' = steps /\ proc' = proc /\ final' = final
    BY <1>1 DEF memoryVars, hostVars
  <2> QED
    BY <2>1 DEF SpeechInv, InTurn, Handled, StepOf
<1>2. ASSUME NEW p \in Procs, Step(p) PROVE SpeechInv'
  <2>1. ASSUME NEW s \in Sessions, NEW c \in Costs, NEW fresh \in BOOLEAN, NEW good \in BOOLEAN,
               ClaudeTurn(p, s, c, fresh, good)
        PROVE  SpeechInv'
    <3> DEFINE total == IF fresh THEN c ELSE cli[s] + c
               result == [type |-> IF good THEN "result" ELSE "failure", session |-> s,
                          uuid |-> turns + 1, total |-> total, usage |-> c, model |-> total]
    <3>1. c \in Nat /\ turns \in Nat /\ cli[s] \in Nat
      BY TurnAssumption DEF Inv, TypeInv
    <3>2. result \in Result
      BY <3>1 DEF Result
    <3>3. /\ proc' = [proc EXCEPT ![p] = [Idle EXCEPT !.session = s, !.lines = <<result>>]]
          /\ UNCHANGED <<steps, final>>
      BY <2>1 DEF ClaudeTurn
    <3> HIDE DEF result
    <3>4. proc'[p].script = <<>> /\ proc'[p].lines = <<result>>
          /\ \A q \in Procs : q # p => proc'[q] = proc[q]
      BY <3>3 DEF Idle, Inv, TypeInv
    <3> QED
      BY <3>2, <3>3, <3>4, NoTurn
  <2>2. CASE ParseResult(p)
    BY <2>2, ResultSpeech DEF ParseResult
  <2>3. CASE ParseFailure(p)
    BY <2>3, ResultSpeech DEF ParseFailure
  <2>4. CASE StepStart(p)
    BY <2>4, StepStartSpeech
  <2>5. CASE Text(p)
    BY <2>5, TextSpeech
  <2>6. CASE StepFinish(p)
    BY <2>6, StepFinishSpeech
  <2>7. ASSUME NEW x \in Chats, NEW s \in Scripts, OpencodeTurn(p, x, s) PROVE SpeechInv'
    BY <2>7, OpencodeSpeech
  <2>8. CASE Dies(p)
    <3>1. proc' = [proc EXCEPT ![p] = Idle] /\ UNCHANGED <<steps, final>>
      BY <2>8 DEF Dies
    <3>2. proc'[p].script = <<>> /\ proc'[p].lines = <<>>
          /\ \A q \in Procs : q # p => proc'[q] = proc[q]
      BY <3>1 DEF Idle, Inv, TypeInv
    <3> QED
      BY <3>1, <3>2, NoTurn
  <2> QED
    BY <1>2, <2>1, <2>2, <2>3, <2>4, <2>5, <2>6, <2>7, <2>8 DEF Step
<1> QED
  BY <1>1, <1>2 DEF MemoryNext

LEMMA InitSpeech == MemoryInit => SpeechInv
<1> SUFFICES ASSUME MemoryInit PROVE SpeechInv
  OBVIOUS
<1>1. proc = [p \in Procs |-> Idle] /\ final = [p \in Procs |-> [x \in Surface |-> Unsaid]]
  BY DEF MemoryInit
<1>2. Idle.script = <<>> /\ Idle.lines = <<>>
  BY DEF Idle
<1> QED
  BY <1>1, <1>2 DEF SpeechInv, InTurn, Message

\* opencode_final.go: the final message of every turn that ends well, on either surface,
\* is the text of its own last step, each part once and in order, whichever turns of the
\* same session died before it and whatever other sessions write at the same time.
THEOREM FinalsAreTheirs == MemorySpec => []FinalIsTheAnswer
<1>1. SpeechInv => FinalIsTheAnswer
  <2> SUFFICES ASSUME SpeechInv, NEW p \in Procs, NEW x \in Surface, final[p][x] # Unsaid
               PROVE  final[p][x].said = Answer(final[p][x].script)
    BY DEF FinalIsTheAnswer
  <2>1. final[p][x] \in Message
    BY DEF SpeechInv
  <2> QED
    BY <2>1 DEF Message
<1> QED
  BY <1>1, InitInv, InvStep, InitSpeech, SpeechStep, PTL DEF MemorySpec
=============================================================================
