----------------------- MODULE SubprocessBridgeProofs -----------------------
(***************************************************************************)
(* Theorems about SubprocessBridge, for every value of its constants.      *)
(***************************************************************************)
EXTENDS SubprocessBridge, TurnLemmas

-----------------------------------------------------------------------------
(* Type correctness.                                                       *)

\* Where the parser goroutine may be inside a send or a callback, and what it must
\* hold there for its next step to be well typed.
Control ==
  /\ err + errTodo <= MaxStderr
  /\ pc = "send" => sending \in StreamEvents /\ resume \in {"events", "drain", "typedEnd"}
  /\ pc = "callback" => resume \in {"parsed", "held", "reap"}
  /\ pc = "typedEnd" => sent # <<>>

TypeInv == TypeOK /\ Control

\* The steps that need more than unfolding, one lemma each.
LEMMA ScanLineTypes == TypeInv /\ ScanLine => TypeInv'
<1> SUFFICES ASSUME TypeInv, ScanLine PROVE TypeInv'
  OBVIOUS
<1>1. Head(out) \in Lines /\ Tail(out) \in Seq(Lines)
  <2>1. out \in Seq(Lines) /\ out # <<>>
    BY DEF ScanLine, TypeInv, TypeOK, CliTypeOK
  <2> QED
    BY <2>1, HeadTailProperties
<1>2. /\ events' \in Seq(AdapterEvents)
      /\ typed' \in Seq(AdapterEvents)
  <2>1. Head(out).stream \in Seq(AdapterEvents) /\ TypedOf(Head(out)) \in Seq(AdapterEvents)
    BY <1>1, LineTypes
  <2>2. events' \in {events, Head(out).stream} /\ typed' \in {typed, TypedOf(Head(out)), <<>>}
    BY DEF ScanLine
  <2>3. events \in Seq(AdapterEvents) /\ typed \in Seq(AdapterEvents)
    BY DEF TypeInv, TypeOK
  <2> QED
    BY <2>1, <2>2, <2>3, EmptySeq
<1> QED
  BY <1>1, <1>2
  DEF ScanLine, elsewhere, procVars, TypeInv, TypeOK, Control, CliTypeOK, ChannelTypeOK, TypedTypeOK, Labels

LEMMA PostLoopTypes == TypeInv /\ PostLoop => TypeInv'
<1> SUFFICES ASSUME TypeInv, PostLoop PROVE TypeInv'
  OBVIOUS
<1>1. heldTerminal' \in Seq(Terminal)
  <2>1. "guard" \in Terminal
    BY DEF Terminal, BridgeTerminals
  <2>2. heldTerminal \in Seq(Terminal)
    BY DEF TypeInv, TypeOK
  <2>3. heldTerminal' = heldTerminal \/ heldTerminal' = Append(heldTerminal, "guard")
    BY DEF PostLoop, SendGuard
  <2> QED
    BY <2>1, <2>2, <2>3, AppendProperties
<1>2. "guard" \in StreamEvents
  BY DEF StreamEvents, BridgeTerminals
<1>3. CASE GuardDue
  BY <1>1, <1>2, <1>3
  DEF PostLoop, SendGuard, BeginSend, cliVars, procVars, elsewhere, TypeInv, TypeOK, Control, CliTypeOK, ChannelTypeOK, TypedTypeOK, Labels
<1>4. CASE ~GuardDue
  BY <1>1, <1>4 DEF PostLoop, cliVars, procVars, elsewhere, TypeInv, TypeOK, Control, CliTypeOK, ChannelTypeOK, TypedTypeOK, Labels
<1> QED
  BY <1>3, <1>4

LEMMA EmitOwnTerminalTypes == TypeInv /\ EmitOwnTerminal => TypeInv'
<1> SUFFICES ASSUME TypeInv, EmitOwnTerminal PROVE TypeInv'
  OBVIOUS
<1>1. typedLog' \in Seq(TypedEvents)
  <2>1. sent \in Seq(StreamEvents) /\ sent # <<>> /\ typedLog \in Seq(TypedEvents)
    BY DEF EmitOwnTerminal, TypeInv, TypeOK, Control, CliTypeOK, ChannelTypeOK, TypedTypeOK, Labels
  <2>2. Len(sent) \in 1..Len(sent)
    BY <2>1, EmptySeq, LenProperties
  <2>3. sent[Len(sent)] \in TypedEvents
    BY <2>1, <2>2, ElementOfSeq, EventKinds
  <2>4. typedLog' = typedLog \/ typedLog' = Append(typedLog, sent[Len(sent)])
    BY DEF EmitOwnTerminal, CallBack
  <2> QED
    BY <2>1, <2>3, <2>4, AppendProperties
<1> QED
  BY <1>1
  DEF EmitOwnTerminal, CallBack, cliVars, scanVars, procVars, elsewhere, TypeInv, TypeOK, Control, CliTypeOK, ChannelTypeOK, TypedTypeOK, Labels

LEMMA HeartbeatTypes == TypeInv /\ HeartbeatStep => TypeInv'
<1> SUFFICES ASSUME TypeInv, HeartbeatStep PROVE TypeInv'
  OBVIOUS
<1>1. TypedTypeOK'
  BY BeatTypes DEF HeartbeatStep, TypeInv, TypeOK
<1> QED
  BY <1>1
  DEF HeartbeatStep, cliVars, parserVars, scanVars, procVars, errVars, chanVars,
      TypeInv, TypeOK, Control, CliTypeOK, ChannelTypeOK, Labels

LEMMA EnvironmentTypes == TypeInv /\ Environment => TypeInv'
<1> SUFFICES ASSUME TypeInv, Environment PROVE TypeInv'
  OBVIOUS
<1>1. CliTypeOK'
  BY CliStepTypes DEF Environment, TypeInv, TypeOK
<1> QED
  BY <1>1
  DEF Environment, bridgeVars, parserVars, scanVars, procVars, errVars, beatVars, chanVars,
      TypeInv, TypeOK, Control, ChannelTypeOK, TypedTypeOK, Labels

LEMMA SendTypes == TypeInv /\ Send => TypeInv'
<1> SUFFICES ASSUME TypeInv, Send PROVE TypeInv'
  OBVIOUS
<1>1. ChannelTypeOK' /\ sent' # <<>>
  BY DeliverTypes DEF Send, TypeInv, TypeOK, Control
<1> QED
  BY <1>1
  DEF Send, cliVars, scanVars, procVars, errVars, beatVars,
      TypeInv, TypeOK, Control, CliTypeOK, TypedTypeOK, Labels

LEMMA TypeInvStep == TypeInv /\ [Next]_vars => TypeInv'
<1> SUFFICES ASSUME TypeInv, [Next]_vars PROVE TypeInv'
  OBVIOUS
<1>1. CASE StartFails
  BY <1>1
  DEF StartFails, cliVars, scanVars, procVars, errVars, beatVars, chanVars, TypeInv,
      TypeOK, Control, CliTypeOK, ChannelTypeOK, TypedTypeOK, Labels
<1>2. CASE StartTurn
  BY <1>2, BridgeAssumption
  DEF StartTurn, Spawn, StartBeat, scanVars, chanVars, TypeInv, TypeOK, Control,
      CliTypeOK, ChannelTypeOK, TypedTypeOK, Labels
<1>3. CASE ScanLine
  BY <1>3, ScanLineTypes
<1>4. CASE ScanEnds
  BY <1>4
  DEF ScanEnds, cliVars, scanVars, procVars, elsewhere, TypeInv, TypeOK, Control,
      CliTypeOK, ChannelTypeOK, TypedTypeOK, Labels
<1>5. CASE HoldTerminal
  BY <1>5
  DEF HoldTerminal, cliVars, procVars, elsewhere, TypeInv, TypeOK, Control,
      CliTypeOK, ChannelTypeOK, TypedTypeOK, Labels
<1>6. CASE EmitParsed
  BY <1>6
  DEF EmitParsed, CallBack, cliVars, procVars, elsewhere, TypedEvents, StreamEvents,
      TypeInv, TypeOK, Control, CliTypeOK, ChannelTypeOK, TypedTypeOK, Labels
<1>7. CASE ParsedDone
  BY <1>7
  DEF ParsedDone, cliVars, scanVars, procVars, elsewhere, TypeInv, TypeOK, Control,
      CliTypeOK, ChannelTypeOK, TypedTypeOK, Labels
<1>8. CASE CallbackReturns
  BY <1>8
  DEF CallbackReturns, cliVars, scanVars, procVars, elsewhere, TypeInv, TypeOK,
      Control, CliTypeOK, ChannelTypeOK, TypedTypeOK, Labels
<1>9. CASE ReplaceDone
  BY <1>9
  DEF ReplaceDone, SendGuard, cliVars, procVars, elsewhere, BeginSend, StreamEvents,
      Terminal, BridgeTerminals, TypeInv, TypeOK, Control, CliTypeOK, ChannelTypeOK,
      TypedTypeOK, Labels
<1>10. CASE ForwardEvent
  BY <1>10
  DEF ForwardEvent, BeginSend, cliVars, procVars, elsewhere, StreamEvents, TypeInv,
      TypeOK, Control, CliTypeOK, ChannelTypeOK, TypedTypeOK, Labels
<1>11. CASE EventsDone
  BY <1>11
  DEF EventsDone, cliVars, scanVars, procVars, elsewhere, TypeInv, TypeOK, Control,
      CliTypeOK, ChannelTypeOK, TypedTypeOK, Labels
<1>12. CASE Send
  BY <1>12, SendTypes
<1>13. CASE PostLoop
  BY <1>13, PostLoopTypes
<1>14. CASE DrainStderr
  BY <1>14
  DEF DrainStderr, cliVars, scanVars, procVars, elsewhere, TypeInv, TypeOK, Control,
      CliTypeOK, ChannelTypeOK, TypedTypeOK, Labels
<1>15. CASE WaitProcess
  <2>1. waitFailed' \in BOOLEAN
    BY <1>15 DEF WaitProcess
  <2> QED
    BY <1>15, <2>1
    DEF WaitProcess, cliVars, scanVars, elsewhere, TypeInv, TypeOK, Control,
      CliTypeOK, ChannelTypeOK, TypedTypeOK, Labels
<1>16. CASE AwaitStderr
  BY <1>16
  DEF AwaitStderr, cliVars, scanVars, procVars, elsewhere, TypeInv, TypeOK, Control,
      CliTypeOK, ChannelTypeOK, TypedTypeOK, Labels
<1>17. CASE EmitHeld
  <2>1. Head(heldTerminal) \in Terminal /\ Tail(heldTerminal) \in Seq(Terminal)
    BY <1>17, HeadTailProperties DEF EmitHeld, TypeInv, TypeOK
  <2>2. typedLog' \in Seq(TypedEvents)
    BY <1>17, <2>1, EventKinds, AppendProperties DEF EmitHeld, CallBack, TypeInv, TypeOK, TypedTypeOK
  <2> QED
    BY <1>17, <2>1, <2>2
    DEF EmitHeld, CallBack, cliVars, procVars, elsewhere, TypeInv, TypeOK, Control,
      CliTypeOK, ChannelTypeOK, TypedTypeOK, Labels
<1>18. CASE HeldDone
  BY <1>18
  DEF HeldDone, cliVars, scanVars, procVars, elsewhere, TypeInv, TypeOK, Control,
      CliTypeOK, ChannelTypeOK, TypedTypeOK, Labels
<1>19. CASE DecideTerminal
  BY <1>19
  DEF DecideTerminal, BeginSend, OwnTerminal, cliVars, scanVars, procVars,
      elsewhere, StreamEvents, BridgeTerminals, TypeInv, TypeOK, Control, CliTypeOK,
      ChannelTypeOK, TypedTypeOK, Labels
<1>20. CASE EmitOwnTerminal
  BY <1>20, EmitOwnTerminalTypes
<1>21. CASE ReportExit
  BY <1>21
  DEF ReportExit, cliVars, scanVars, elsewhere, TypeInv, TypeOK, Control, CliTypeOK,
      ChannelTypeOK, TypedTypeOK, Labels
<1>22. CASE CloseStream
  BY <1>22
  DEF CloseStream, StopBeat, cliVars, scanVars, procVars, errVars, chanVars,
      TypeInv, TypeOK, Control, CliTypeOK, ChannelTypeOK, TypedTypeOK, Labels
<1>23. CASE ReadStderr
  <2>1. typedLog' \in Seq(TypedEvents)
    <3>1. "stderr" \in TypedEvents
      BY DEF TypedEvents
    <3>2. typedLog \in Seq(TypedEvents) /\ typedLog' = Append(typedLog, "stderr")
      BY <1>23 DEF ReadStderr, TypeInv, TypeOK, TypedTypeOK
    <3> QED
      BY <3>1, <3>2, AppendProperties
  <2>2. err' \in 0..MaxStderr /\ err' + errTodo' <= MaxStderr
    BY <1>23, BridgeAssumption DEF ReadStderr, readerRest, TypeInv, TypeOK, Control
  <2> QED
    BY <1>23, <2>1, <2>2
    DEF ReadStderr, readerRest, cliVars, scanVars, procVars, beatVars, chanVars,
        TypeInv, TypeOK, Control, CliTypeOK, ChannelTypeOK, TypedTypeOK,
        Labels
<1>24. CASE StderrCallbackReturns
  BY <1>24
  DEF StderrCallbackReturns, readerRest, cliVars, scanVars, procVars, beatVars,
      chanVars, TypeInv, TypeOK, Control, CliTypeOK, ChannelTypeOK, TypedTypeOK,
      Labels
<1>25. CASE StderrEnds
  BY <1>25
  DEF StderrEnds, readerRest, cliVars, scanVars, procVars, beatVars, chanVars,
      TypeInv, TypeOK, Control, CliTypeOK, ChannelTypeOK, TypedTypeOK, Labels
<1>26. CASE HeartbeatStep
  BY <1>26, HeartbeatTypes
<1>27. CASE Consume
  BY <1>27
  DEF Consume, Receive, cliVars, parserVars, errVars, beatVars, scanVars, procVars,
      TypeInv, TypeOK, Control, CliTypeOK, ChannelTypeOK, TypedTypeOK, Labels
<1>28. CASE ConsumerStops
  BY <1>28
  DEF ConsumerStops, Abandon, cliVars, parserVars, errVars, beatVars, scanVars,
      procVars, TypeInv, TypeOK, Control, CliTypeOK, ChannelTypeOK, TypedTypeOK,
      Labels
<1>29. CASE Environment
  BY <1>29, EnvironmentTypes
<1>30. CASE WriteStderr
  BY <1>30, BridgeAssumption
  DEF WriteStderr, cliVars, bridgeVars, parserVars, beatVars, chanVars, scanVars,
      procVars, TypeInv, TypeOK, Control, CliTypeOK, ChannelTypeOK, TypedTypeOK,
      Labels
<1>31. CASE UNCHANGED vars
  BY <1>31
  DEF vars, cliVars, scanVars, procVars, errVars, beatVars, chanVars, TypeInv,
      TypeOK, Control, CliTypeOK, ChannelTypeOK, TypedTypeOK, Labels
<1> QED
  BY <1>1, <1>2, <1>3, <1>4, <1>5, <1>6, <1>7, <1>8, <1>9, <1>10, <1>11, <1>12,
      <1>13, <1>14, <1>15, <1>16, <1>17, <1>18, <1>19, <1>20, <1>21, <1>22, <1>23,
      <1>24, <1>25, <1>26, <1>27, <1>28, <1>29, <1>30, <1>31
  DEF Next, Parser, StderrReader

\* The inductive invariant behind type correctness holds throughout.
LEMMA TypeInvHolds == Spec => []TypeInv
<1>1. Init => TypeInv
  <2> SUFFICES ASSUME Init PROVE TypeInv
    OBVIOUS
  <2>1. CliTypeOK /\ ChannelTypeOK /\ TypedTypeOK
    BY InitTypes DEF Init
  <2>2. /\ events \in Seq(AdapterEvents) /\ typed \in Seq(AdapterEvents)
        /\ heldTerminal \in Seq(Terminal)
    <3>1. <<>> \in Seq(AdapterEvents) /\ <<>> \in Seq(Terminal)
      BY EmptySeq
    <3> QED
      BY <3>1 DEF Init
  <2>3. /\ err \in 0..MaxStderr
        /\ errTodo \in 0..MaxStderr
        /\ err + errTodo <= MaxStderr
    BY BridgeAssumption DEF Init
  <2> QED
    BY <2>1, <2>2, <2>3 DEF Init, TypeInv, TypeOK, Control, Labels
<1>2. TypeInv /\ [Next]_vars => TypeInv'
  BY TypeInvStep
<1> QED
  BY <1>1, <1>2, PTL DEF Spec

\* Every variable keeps its type: in particular, no step sends or emits an event that
\* is not one, and the terminal switch always has something to say.
THEOREM TypeCorrect == Spec => []TypeOK
  BY TypeInvHolds, PTL DEF TypeInv

-----------------------------------------------------------------------------
(* Where a turn is.                                                        *)

\* The bridge has said, or is saying, its own terminal, or has decided that it
\* need not.
Over ==
  \/ pc \in {"typedEnd", "reap", "defers", "closed"}
  \/ pc = "callback" /\ resume = "reap"
  \/ pc = "send" /\ resume = "typedEnd"

\* The terminals of the turn are being delivered to the typed callback, or were.
Reported ==
  \/ Over
  \/ pc \in {"held", "terminal"}
  \/ pc = "callback" /\ resume = "held"

\* cmd.Wait has returned.
Waited == Reported \/ pc = "stderr"

\* A terminal is on the stream or about to be.
Ended == HasTerminal(sent) \/ (pc = "send" /\ sending \in Terminal)

\* terminalSent tells exactly whether the turn has ended, until the bridge ends it
\* itself; and a terminal of the bridge's own finds no other on the stream.
EndInv ==
  /\ terminalSent => Ended
  /\ Ended => terminalSent \/ Over
  /\ Over => Ended
  /\ pc = "send" /\ sending \in BridgeTerminals => ~HasTerminal(sent)
  /\ BridgeTerminalIsFirst

\* The process is gone once waited for, and the wait has told a failed one apart.
ExitInv == Waited => child = "exited" /\ (waitFailed \/ exitOk)

\* The tracker follows the process, and stderr is collected before terminals.
TrackInv ==
  /\ pc \in {"start", "rejected"} <=> child = "unborn"
  /\ child = "running" => tracker = "started"
  /\ tracker = "exited" <=> pc \in {"defers", "closed"}
  /\ Reported => reader = "done"

\* Typed terminals are emitted only when everything else has been, and the bridge's
\* own comes from a terminal it has put on the stream.
TypedInv ==
  /\ HasTerminal(typedLog) => Reported
  /\ pc = "send" /\ resume = "typedEnd" => sending \in Terminal
  /\ pc = "typedEnd" => sent[Len(sent)] \in Terminal
  /\ TypedTerminalsAreLast

-----------------------------------------------------------------------------
(* One terminal of the bridge's own.                                       *)

LEMMA EndInvStep == TypeInv /\ EndInv /\ [Next]_vars => EndInv'
<1> SUFFICES ASSUME TypeInv, EndInv, [Next]_vars PROVE EndInv'
  OBVIOUS
<1>1. ASSUME UNCHANGED <<pc, resume, sending, sent, terminalSent>> PROVE EndInv'
  BY <1>1 DEF EndInv, Ended, Over, HasTerminal, BridgeTerminalIsFirst
<1>2. ASSUME UNCHANGED <<sent, terminalSent>>, pc # "send", pc' # "send", Over' <=> Over
      PROVE  EndInv'
  BY <1>2 DEF EndInv, Ended, HasTerminal, BridgeTerminalIsFirst
<1>3. CASE HoldTerminal
  BY <1>3, <1>1
  DEF HoldTerminal
<1>4. CASE ReadStderr
  BY <1>4, <1>1
  DEF ReadStderr, readerRest, scanVars, chanVars
<1>5. CASE StderrCallbackReturns
  BY <1>5, <1>1
  DEF StderrCallbackReturns, readerRest, scanVars, chanVars
<1>6. CASE StderrEnds
  BY <1>6, <1>1
  DEF StderrEnds, readerRest, scanVars, chanVars
<1>7. CASE HeartbeatStep
  BY <1>7, <1>1
  DEF HeartbeatStep, Heartbeat, parserVars, chanVars, Tick, BeatProgress, scanVars,
      Beat, BeatCallbackReturns, BeatEnds
<1>8. CASE Consume
  BY <1>8, <1>1
  DEF Consume, Receive, parserVars, scanVars
<1>9. CASE ConsumerStops
  BY <1>9, <1>1
  DEF ConsumerStops, Abandon, parserVars, scanVars
<1>10. CASE Environment
  BY <1>10, <1>1
  DEF Environment, bridgeVars, parserVars, chanVars, scanVars
<1>11. CASE WriteStderr
  BY <1>11, <1>1
  DEF WriteStderr, bridgeVars, parserVars, chanVars, scanVars
<1>12. CASE StartFails
  BY <1>12, <1>2
  DEF StartFails, scanVars, chanVars, Over
<1>13. CASE StartTurn
  BY <1>13, <1>2
  DEF StartTurn, Spawn, StartBeat, scanVars, chanVars, Over
<1>14. CASE ScanLine
  BY <1>14, <1>2
  DEF ScanLine, Over
<1>15. CASE ScanEnds
  BY <1>15, <1>2
  DEF ScanEnds, scanVars, Over
<1>16. CASE EmitParsed
  BY <1>16, <1>2
  DEF EmitParsed, CallBack, Over
<1>17. CASE ParsedDone
  BY <1>17, <1>2
  DEF ParsedDone, scanVars, Over
<1>18. CASE CallbackReturns
  BY <1>18, <1>2
  DEF CallbackReturns, scanVars, Over, TypeInv, Control
<1>19. CASE EventsDone
  BY <1>19, <1>2
  DEF EventsDone, scanVars, Over
<1>20. CASE DrainStderr
  BY <1>20, <1>2
  DEF DrainStderr, scanVars, Over
<1>21. CASE WaitProcess
  BY <1>21, <1>2
  DEF WaitProcess, scanVars, Over
<1>22. CASE AwaitStderr
  BY <1>22, <1>2
  DEF AwaitStderr, scanVars, Over
<1>23. CASE EmitHeld
  BY <1>23, <1>2
  DEF EmitHeld, CallBack, Over
<1>24. CASE HeldDone
  BY <1>24, <1>2
  DEF HeldDone, scanVars, Over
<1>25. CASE EmitOwnTerminal
  BY <1>25, <1>2
  DEF EmitOwnTerminal, CallBack, scanVars, Over
<1>26. CASE ReportExit
  BY <1>26, <1>2
  DEF ReportExit, scanVars, Over
<1>27. CASE CloseStream
  BY <1>27, <1>2
  DEF CloseStream, StopBeat, scanVars, chanVars, Over
<1>28. ASSUME NEW e \in StreamEvents, NEW next, BeginSend(e, next), pc # "send", sent' = sent,
      next # "typedEnd" => ~Over,
      e \in BridgeTerminals => ~HasTerminal(sent),
      terminalSent' <=> (terminalSent \/ (e \in Terminal /\ next # "typedEnd")),
      next = "typedEnd" => e \in Terminal
      PROVE  EndInv'
  BY <1>28, EventKinds DEF EndInv, Ended, Over, HasTerminal, BridgeTerminalIsFirst, BeginSend
<1>29. CASE ReplaceDone
  <2>1. BeginSend("guard", "events") /\ pc = "events" /\ sent' = sent /\ ~terminalSent /\ terminalSent' = TRUE
    BY <1>29 DEF ReplaceDone, SendGuard, GuardDue
  <2>2. ~Over /\ ~HasTerminal(sent)
    BY <2>1 DEF EndInv, Ended, Over
  <2> QED
    BY <2>1, <2>2, <1>28 DEF BridgeTerminals, Terminal, StreamEvents
<1>30. CASE PostLoop
  <2>1. CASE GuardDue
    <3>1. BeginSend("guard", "drain") /\ pc = "postloop" /\ sent' = sent /\ ~terminalSent /\ terminalSent' = TRUE
      BY <1>30, <2>1 DEF PostLoop, SendGuard, GuardDue
    <3>2. ~Over /\ ~HasTerminal(sent)
      BY <3>1 DEF EndInv, Ended, Over
    <3> QED
      BY <3>1, <3>2, <1>28 DEF BridgeTerminals, Terminal, StreamEvents
  <2>2. CASE ~GuardDue
    BY <1>30, <2>2, <1>2 DEF PostLoop, Over
  <2> QED
    BY <2>1, <2>2
<1>31. CASE ForwardEvent
  <2>1. Head(events) \in AdapterEvents
    BY <1>31, HeadTailProperties DEF ForwardEvent, TypeInv, TypeOK
  <2>2. /\ BeginSend(Head(events), "events")
        /\ pc = "events"
        /\ sent' = sent
        /\ terminalSent' = (terminalSent \/ Head(events) \in {"done", "error"})
    BY <1>31 DEF ForwardEvent
  <2>3. /\ Head(events) \in StreamEvents \ BridgeTerminals
        /\ Head(events) \in {"done", "error"} <=> Head(events) \in Terminal
    BY <2>1 DEF AdapterEvents, BridgeTerminals, StreamEvents, Terminal
  <2>4. ~Over
    BY <2>2 DEF Over
  <2> QED
    BY <2>2, <2>3, <2>4, <1>28
<1>32. CASE DecideTerminal
  <2>1. CASE terminalSent
    BY <1>32, <2>1 DEF DecideTerminal, EndInv, Ended, Over, HasTerminal, BridgeTerminalIsFirst
  <2>2. CASE ~terminalSent
    <3>1. BeginSend(OwnTerminal, "typedEnd") /\ pc = "terminal" /\ sent' = sent /\ terminalSent' = terminalSent
      BY <1>32, <2>2 DEF DecideTerminal, scanVars
    <3>2. OwnTerminal \in BridgeTerminals
      BY DEF OwnTerminal, BridgeTerminals
    <3>3. ~HasTerminal(sent)
      BY <2>2, <3>1 DEF EndInv, Ended, Over
    <3> QED
      BY <2>2, <3>1, <3>2, <3>3, EventKinds, <1>28
  <2> QED
    BY <2>1, <2>2
<1>33. CASE Send
  <2>1. /\ sent \in Seq(StreamEvents)
        /\ sending \in StreamEvents
        /\ resume \in {"events", "drain", "typedEnd"}
    BY <1>33 DEF Send, TypeInv, TypeOK, ChannelTypeOK, Control
  <2>2. /\ sent' = Append(sent, sending)
        /\ pc = "send" /\ pc' = resume /\ resume' = resume /\ terminalSent' = terminalSent
    BY <1>33 DEF Send, Deliver, scanVars
  <2>3. HasTerminal(sent') <=> HasTerminal(sent) \/ sending \in Terminal
    BY <2>1, <2>2, SentGrows
  <2>4. BridgeTerminalIsFirst'
    <3>1. /\ Len(sent) \in Nat
          /\ Len(sent') = Len(sent) + 1
          /\ \A i \in 1..Len(sent) : sent'[i] = sent[i]
          /\ sent'[Len(sent) + 1] = sending
      BY <2>1, <2>2, AppendProperties, LenProperties
    <3>2. sending \in BridgeTerminals => \A i \in 1..Len(sent) : sent[i] \notin Terminal
      BY <2>2 DEF EndInv, HasTerminal
    <3>3. BridgeTerminalIsFirst
      BY DEF EndInv
    <3> QED
      BY <3>1, <3>2, <3>3 DEF BridgeTerminalIsFirst
  <2> QED
    BY <2>1, <2>2, <2>3, <2>4 DEF EndInv, Ended, Over
<1>34. CASE UNCHANGED vars
  BY <1>34, <1>1 DEF vars, scanVars, chanVars
<1> QED
  BY <1>3, <1>4, <1>5, <1>6, <1>7, <1>8, <1>9, <1>10, <1>11, <1>12, <1>13, <1>14,
      <1>15, <1>16, <1>17, <1>18, <1>19, <1>20, <1>21, <1>22, <1>23, <1>24, <1>25,
      <1>26, <1>27, <1>29, <1>30, <1>31, <1>32, <1>33, <1>34
  DEF Next, Parser, StderrReader

LEMMA EndInvHolds == Spec => []EndInv
<1>1. Init => EndInv
  <2> SUFFICES ASSUME Init PROVE EndInv
    OBVIOUS
  <2>1. sent = <<>> /\ pc = "start" /\ terminalSent = FALSE /\ Len(sent) = 0
    BY EmptySeq DEF Init, ChannelInit
  <2> QED
    BY <2>1 DEF EndInv, Ended, Over, HasTerminal, BridgeTerminalIsFirst
<1>2. TypeInv /\ EndInv /\ [Next]_vars => EndInv'
  BY EndInvStep
<1> QED
  BY <1>1, <1>2, TypeInvHolds, PTL DEF Spec

\* A terminal of the bridge's own never follows another terminal of the turn, whatever
\* lines the CLI writes and whenever it is cancelled, crashes or is reaped.
THEOREM BridgeTerminalFirst == Spec => []BridgeTerminalIsFirst
  BY EndInvHolds, PTL DEF EndInv

\* The stream never closes without a terminal, for any CLI and any cancellation.
THEOREM TerminalBeforeClose == Spec => []ClosedHasTerminal
<1>1. EndInv => ClosedHasTerminal
  BY DEF EndInv, Over, Ended, ClosedHasTerminal, Closed
<1> QED
  BY <1>1, EndInvHolds, PTL

-----------------------------------------------------------------------------
(* A success made up by the bridge, and the tracker.                       *)

LEMMA ExitInvStep == TypeInv /\ ExitInv /\ [Next]_vars => ExitInv'
<1> SUFFICES ASSUME TypeInv, ExitInv, [Next]_vars PROVE ExitInv'
  OBVIOUS
<1>1. ASSUME UNCHANGED <<pc, resume, waitFailed>>,
             child = "exited" => child' = "exited" /\ exitOk' = exitOk
      PROVE  ExitInv'
  BY <1>1 DEF ExitInv, Waited, Reported, Over
<1>2. ASSUME UNCHANGED waitFailed, Waited' => Waited,
             child = "exited" => child' = "exited" /\ exitOk' = exitOk
      PROVE  ExitInv'
  BY <1>2 DEF ExitInv
<1>3. CASE HoldTerminal
  BY <1>3, <1>1
  DEF HoldTerminal, cliVars, procVars
<1>4. CASE ReadStderr
  BY <1>4, <1>1
  DEF ReadStderr, readerRest, cliVars, procVars, chanVars
<1>5. CASE StderrCallbackReturns
  BY <1>5, <1>1
  DEF StderrCallbackReturns, readerRest, cliVars, procVars, chanVars
<1>6. CASE StderrEnds
  BY <1>6, <1>1
  DEF StderrEnds, readerRest, cliVars, procVars, chanVars
<1>7. CASE HeartbeatStep
  BY <1>7, <1>1
  DEF HeartbeatStep, Heartbeat, cliVars, parserVars, chanVars, Tick, BeatProgress,
      procVars, Beat, BeatCallbackReturns, BeatEnds
<1>8. CASE Consume
  BY <1>8, <1>1
  DEF Consume, Receive, cliVars, parserVars, procVars
<1>9. CASE ConsumerStops
  BY <1>9, <1>1
  DEF ConsumerStops, Abandon, cliVars, parserVars, procVars
<1>10. CASE Environment
  BY <1>10, <1>1
  DEF Environment, bridgeVars, parserVars, chanVars, procVars, CliStep, WriteLine,
      ShutStdout, Finish, Crash, Killed, Exit, Release, Cancel
<1>11. CASE WriteStderr
  BY <1>11, <1>1
  DEF WriteStderr, cliVars, bridgeVars, parserVars, chanVars, procVars
<1>12. CASE StartFails
  BY <1>12, <1>2
  DEF StartFails, cliVars, procVars, chanVars, Waited, Reported, Over
<1>13. CASE StartTurn
  BY <1>13, <1>2
  DEF StartTurn, Spawn, StartBeat, chanVars, Waited, Reported, Over
<1>14. CASE ScanLine
  BY <1>14, <1>2
  DEF ScanLine, procVars, Waited, Reported, Over
<1>15. CASE ScanEnds
  BY <1>15, <1>2
  DEF ScanEnds, cliVars, procVars, Waited, Reported, Over
<1>16. CASE EmitParsed
  BY <1>16, <1>2
  DEF EmitParsed, CallBack, cliVars, procVars, Waited, Reported, Over
<1>17. CASE ParsedDone
  BY <1>17, <1>2
  DEF ParsedDone, cliVars, procVars, Waited, Reported, Over
<1>18. CASE CallbackReturns
  BY <1>18, <1>2
  DEF CallbackReturns, cliVars, procVars, Waited, Reported, Over, TypeInv, Control
<1>19. CASE EventsDone
  BY <1>19, <1>2
  DEF EventsDone, cliVars, procVars, Waited, Reported, Over
<1>20. CASE DrainStderr
  BY <1>20, <1>2
  DEF DrainStderr, cliVars, procVars, Waited, Reported, Over
<1>21. CASE AwaitStderr
  BY <1>21, <1>2
  DEF AwaitStderr, cliVars, procVars, Waited, Reported, Over
<1>22. CASE EmitHeld
  BY <1>22, <1>2
  DEF EmitHeld, CallBack, cliVars, procVars, Waited, Reported, Over
<1>23. CASE HeldDone
  BY <1>23, <1>2
  DEF HeldDone, cliVars, procVars, Waited, Reported, Over
<1>24. CASE EmitOwnTerminal
  BY <1>24, <1>2
  DEF EmitOwnTerminal, CallBack, cliVars, procVars, Waited, Reported, Over
<1>25. CASE ReportExit
  BY <1>25, <1>2
  DEF ReportExit, cliVars, Waited, Reported, Over
<1>26. CASE CloseStream
  BY <1>26, <1>2
  DEF CloseStream, StopBeat, cliVars, procVars, chanVars, Waited, Reported, Over
<1>27. CASE WaitProcess
  BY <1>27 DEF WaitProcess, cliVars, scanVars, ExitInv, Waited, Reported, Over, TypeInv, TypeOK,
             CliTypeOK
<1>28. ASSUME NEW e, NEW next, BeginSend(e, next), UNCHANGED <<child, exitOk, waitFailed>>,
      next = "typedEnd" => Waited,
      next # "typedEnd" => next \in {"events", "drain"}
      PROVE  ExitInv'
  BY <1>28 DEF ExitInv, Waited, Reported, Over, BeginSend
<1>29. CASE ReplaceDone
  BY <1>28, <1>29 DEF ReplaceDone, SendGuard, cliVars, procVars
<1>30. CASE PostLoop
  <2>1. CASE GuardDue
    BY <1>28, <1>30, <2>1 DEF PostLoop, SendGuard, cliVars, procVars
  <2>2. CASE ~GuardDue
    BY <1>2, <1>30, <2>2 DEF PostLoop, cliVars, procVars, Waited, Reported, Over
  <2> QED
    BY <2>1, <2>2
<1>31. CASE ForwardEvent
  BY <1>28, <1>31 DEF ForwardEvent, cliVars, procVars
<1>32. CASE DecideTerminal
  <2>1. CASE terminalSent
    BY <1>2, <1>32, <2>1 DEF DecideTerminal, cliVars, procVars, Waited, Reported, Over
  <2>2. CASE ~terminalSent
    BY <1>28, <1>32, <2>2 DEF DecideTerminal, cliVars, procVars, Waited, Reported
  <2> QED
    BY <2>1, <2>2
<1>33. CASE Send
  <2>1. resume \in {"events", "drain", "typedEnd"}
    BY <1>33 DEF Send, TypeInv, Control
  <2>2. pc = "send" /\ pc' = resume /\ resume' = resume
    BY <1>33 DEF Send
  <2>3. UNCHANGED <<child, exitOk, waitFailed>>
    BY <1>33 DEF Send, cliVars, procVars
  <2> QED
    BY <2>1, <2>2, <2>3 DEF ExitInv, Waited, Reported, Over
<1>34. CASE UNCHANGED vars
  BY <1>34, <1>1 DEF vars, cliVars, procVars, chanVars
<1> QED
  BY <1>3, <1>4, <1>5, <1>6, <1>7, <1>8, <1>9, <1>10, <1>11, <1>12, <1>13, <1>14,
      <1>15, <1>16, <1>17, <1>18, <1>19, <1>20, <1>21, <1>22, <1>23, <1>24, <1>25,
      <1>26, <1>27, <1>29, <1>30, <1>31, <1>32, <1>33, <1>34
  DEF Next, Parser, StderrReader

LEMMA ExitInvHolds == Spec => []ExitInv
<1>1. Init => ExitInv
  BY DEF Init, ExitInv, Waited, Reported, Over
<1>2. TypeInv /\ ExitInv /\ [Next]_vars => ExitInv'
  BY ExitInvStep
<1> QED
  BY <1>1, <1>2, TypeInvHolds, PTL DEF Spec

\* Only DecideTerminal puts the success of the bridge's own on its way.
LEMMA DecisionStep ==
  ASSUME TypeInv, [Next]_vars, DecidesOnSuccess
  PROVE  DecideTerminal
<1>1. ASSUME UNCHANGED sending PROVE FALSE
  BY <1>1 DEF DecidesOnSuccess
<1>2. ASSUME sending' # "end" PROVE FALSE
  BY <1>2 DEF DecidesOnSuccess
<1>3. CASE ReplaceDone
  BY <1>2, <1>3 DEF ReplaceDone, SendGuard, BeginSend
<1>4. CASE PostLoop
  <2>1. CASE GuardDue
    BY <1>2, <1>4, <2>1 DEF PostLoop, SendGuard, BeginSend
  <2>2. CASE ~GuardDue
    BY <1>1, <1>4, <2>2 DEF PostLoop
  <2> QED
    BY <2>1, <2>2
<1>5. CASE ForwardEvent
  <2>1. Head(events) \in AdapterEvents
    BY <1>5, HeadTailProperties DEF ForwardEvent, TypeInv, TypeOK
  <2>2. Head(events) # "end"
    BY <2>1 DEF AdapterEvents
  <2> QED
    BY <1>2, <1>5, <2>2 DEF ForwardEvent, BeginSend
<1>6. CASE Send
  BY <1>2, <1>6 DEF Send, Deliver, None
<1>7. CASE StartFails \/ StartTurn \/ ScanLine \/ ScanEnds \/ EmitParsed \/ HoldTerminal
  BY <1>1, <1>7 DEF StartFails, StartTurn, ScanLine, ScanEnds, EmitParsed, HoldTerminal
<1>8. CASE ParsedDone \/ CallbackReturns \/ EventsDone \/ DrainStderr \/ WaitProcess
  BY <1>1, <1>8 DEF ParsedDone, CallbackReturns, EventsDone, DrainStderr, WaitProcess
<1>9. CASE AwaitStderr \/ EmitHeld \/ HeldDone \/ EmitOwnTerminal \/ ReportExit \/ CloseStream
  BY <1>1, <1>9
  DEF AwaitStderr, EmitHeld, HeldDone, EmitOwnTerminal, ReportExit, CloseStream
<1>10. CASE StderrReader
  BY <1>1, <1>10
  DEF StderrReader, ReadStderr, StderrCallbackReturns, StderrEnds, readerRest
<1>11. CASE HeartbeatStep \/ Consume \/ ConsumerStops \/ Environment \/ WriteStderr
  BY <1>1, <1>11
  DEF HeartbeatStep, Consume, Receive, ConsumerStops, Abandon, Environment, WriteStderr,
      bridgeVars
<1>12. CASE UNCHANGED vars
  BY <1>1, <1>12 DEF vars
<1> QED
  BY <1>3, <1>4, <1>5, <1>6, <1>7, <1>8, <1>9, <1>10, <1>11, <1>12 DEF Next, Parser

\* A Done the bridge makes up means the CLI ended by itself with status 0: when it is
\* decided on, the process has been waited for and has not failed, and the context is
\* not done, so no crash, kill or signal is ever dressed up as a completed turn.
THEOREM OwnSuccess == Spec => OwnSuccessIsReal
<1>1. ASSUME TypeInv, ExitInv, [Next]_vars, DecidesOnSuccess
      PROVE  child = "exited" /\ exitOk /\ ~cancelled
  <2>1. DecideTerminal
    BY <1>1, DecisionStep
  <2>2. child = "exited" /\ (waitFailed \/ exitOk)
    BY <1>1, <2>1 DEF DecideTerminal, ExitInv, Waited, Reported
  <2>3. ~terminalSent /\ sending' = OwnTerminal
    BY <1>1, <2>1 DEF DecideTerminal, BeginSend, DecidesOnSuccess
  <2>4. ~cancelled /\ ~waitFailed
    BY <1>1, <2>3 DEF OwnTerminal, DecidesOnSuccess
  <2> QED
    BY <2>2, <2>4
<1>2. TypeInv /\ ExitInv /\ [Next]_vars
        => [DecidesOnSuccess => child = "exited" /\ exitOk /\ ~cancelled]_sending
  BY <1>1
<1> QED
  BY <1>2, TypeInvHolds, ExitInvHolds, PTL DEF Spec, OwnSuccessIsReal

LEMMA TrackInvStep == TypeInv /\ ExitInv /\ TrackInv /\ [Next]_vars => TrackInv'
<1> SUFFICES ASSUME TypeInv, ExitInv, TrackInv, [Next]_vars PROVE TrackInv'
  OBVIOUS
<1>1. ASSUME UNCHANGED <<pc, resume, tracker>>,
             child' = child \/ (child = "running" /\ child' = "exited"),
             reader = "done" => reader' = "done"
      PROVE  TrackInv'
  BY <1>1 DEF TrackInv, Reported, Over
<1>2. ASSUME UNCHANGED <<child, tracker, reader>>,
             pc \notin {"start", "rejected", "defers", "closed"},
             pc' \notin {"start", "rejected", "defers", "closed"},
             Reported' => Reported \/ reader = "done"
      PROVE  TrackInv'
  BY <1>2 DEF TrackInv
<1>3. CASE HoldTerminal
  BY <1>3, <1>1
  DEF HoldTerminal, cliVars, procVars, elsewhere
<1>4. CASE ReadStderr
  BY <1>4, <1>1
  DEF ReadStderr, readerRest, cliVars, procVars
<1>5. CASE StderrCallbackReturns
  BY <1>5, <1>1
  DEF StderrCallbackReturns, readerRest, cliVars, procVars
<1>6. CASE StderrEnds
  BY <1>6, <1>1
  DEF StderrEnds, readerRest, cliVars, procVars
<1>7. CASE HeartbeatStep
  BY <1>7, <1>1
  DEF HeartbeatStep, Heartbeat, cliVars, parserVars, errVars, Tick, BeatProgress,
      procVars, Beat, BeatCallbackReturns, BeatEnds
<1>8. CASE Consume
  BY <1>8, <1>1
  DEF Consume, Receive, cliVars, parserVars, errVars, procVars
<1>9. CASE ConsumerStops
  BY <1>9, <1>1
  DEF ConsumerStops, Abandon, cliVars, parserVars, errVars, procVars
<1>10. CASE Environment
  BY <1>10, <1>1
  DEF Environment, bridgeVars, errVars, parserVars, procVars, CliStep, WriteLine,
      ShutStdout, Finish, Crash, Killed, Exit, Release, Cancel
<1>11. CASE WriteStderr
  BY <1>11, <1>1
  DEF WriteStderr, cliVars, bridgeVars, parserVars, procVars
<1>12. CASE ScanLine
  BY <1>12, <1>2
  DEF ScanLine, procVars, elsewhere, Reported, Over
<1>13. CASE ScanEnds
  BY <1>13, <1>2
  DEF ScanEnds, cliVars, procVars, elsewhere, Reported, Over
<1>14. CASE EmitParsed
  BY <1>14, <1>2
  DEF EmitParsed, CallBack, cliVars, procVars, elsewhere, Reported, Over
<1>15. CASE ParsedDone
  BY <1>15, <1>2
  DEF ParsedDone, cliVars, procVars, elsewhere, Reported, Over
<1>16. CASE CallbackReturns
  BY <1>16, <1>2
  DEF CallbackReturns, cliVars, procVars, elsewhere, Reported, Over, TypeInv,
      Control
<1>17. CASE EventsDone
  BY <1>17, <1>2
  DEF EventsDone, cliVars, procVars, elsewhere, Reported, Over
<1>18. CASE DrainStderr
  BY <1>18, <1>2
  DEF DrainStderr, cliVars, procVars, elsewhere, Reported, Over
<1>19. CASE WaitProcess
  BY <1>19, <1>2
  DEF WaitProcess, cliVars, elsewhere, Reported, Over
<1>20. CASE AwaitStderr
  BY <1>20, <1>2
  DEF AwaitStderr, cliVars, procVars, elsewhere, Reported, Over
<1>21. CASE EmitHeld
  BY <1>21, <1>2
  DEF EmitHeld, CallBack, cliVars, procVars, elsewhere, Reported, Over
<1>22. CASE HeldDone
  BY <1>22, <1>2
  DEF HeldDone, cliVars, procVars, elsewhere, Reported, Over
<1>23. CASE EmitOwnTerminal
  BY <1>23, <1>2
  DEF EmitOwnTerminal, CallBack, cliVars, procVars, elsewhere, Reported, Over
<1>24. CASE StartFails
  BY <1>24
  DEF StartFails, cliVars, procVars, errVars, TrackInv, Reported, Over
<1>25. CASE StartTurn
  BY <1>25
  DEF StartTurn, Spawn, StartBeat, TrackInv, Reported, Over
<1>26. CASE ReportExit
  BY <1>26
  DEF ReportExit, cliVars, elsewhere, TrackInv, Reported, Over, ExitInv, Waited
<1>27. CASE CloseStream
  BY <1>27
  DEF CloseStream, StopBeat, cliVars, procVars, errVars, TrackInv, Reported, Over
<1>28. CASE ReplaceDone
  BY <1>28, <1>2
  DEF ReplaceDone, SendGuard, cliVars, procVars, elsewhere, BeginSend, Reported,
      Over
<1>29. CASE ForwardEvent
  BY <1>29, <1>2
  DEF ForwardEvent, BeginSend, cliVars, procVars, elsewhere, Reported, Over
<1>30. CASE PostLoop
  BY <1>30, <1>2
  DEF PostLoop, SendGuard, cliVars, procVars, elsewhere, BeginSend, Reported, Over
<1>31. CASE DecideTerminal
  BY <1>31, <1>2
  DEF DecideTerminal, BeginSend, OwnTerminal, cliVars, procVars, elsewhere,
      Reported, Over
<1>32. CASE Send
  <2>1. resume \in {"events", "drain", "typedEnd"}
    BY <1>32 DEF Send, TypeInv, Control
  <2> QED
    BY <1>32, <1>2, <2>1 DEF Send, cliVars, procVars, errVars, Reported, Over
<1>33. CASE UNCHANGED vars
  BY <1>33, <1>1 DEF vars, cliVars, procVars, errVars
<1> QED
  BY <1>3, <1>4, <1>5, <1>6, <1>7, <1>8, <1>9, <1>10, <1>11, <1>12, <1>13, <1>14,
      <1>15, <1>16, <1>17, <1>18, <1>19, <1>20, <1>21, <1>22, <1>23, <1>24, <1>25,
      <1>26, <1>27, <1>28, <1>29, <1>30, <1>31, <1>32, <1>33
  DEF Next, Parser, StderrReader

LEMMA TrackInvHolds == Spec => []TrackInv
<1>1. Init => TrackInv
  BY DEF Init, CliInit, TrackInv, Reported, Over
<1>2. TypeInv /\ ExitInv /\ TrackInv /\ [Next]_vars => TrackInv'
  BY TrackInvStep
<1> QED
  BY <1>1, <1>2, TypeInvHolds, ExitInvHolds, PTL DEF Spec

\* The tracker's view of the process is true: a live process is known to it, one it
\* was told is gone has been reaped with its stderr collected and its terminal
\* delivered, and a closed stream leaves no process behind.
THEOREM TrackerTruthful == Spec => []TrackerIsTruthful
<1>1. TypeInv /\ EndInv /\ ExitInv /\ TrackInv => TrackerIsTruthful
  BY DEF EndInv, ExitInv, TrackInv, Ended, Waited, Reported, Over, TrackerIsTruthful, Closed
<1> QED
  BY <1>1, TypeInvHolds, EndInvHolds, ExitInvHolds, TrackInvHolds, PTL

-----------------------------------------------------------------------------
(* The typed surface.                                                      *)

\* One more call of the typed callback: a terminal, a heartbeat, or anything else as
\* long as no terminal has been reported.
LEMMA LogGrows ==
  ASSUME TypeInv, TypedInv, NEW e \in TypedEvents, typedLog' = Append(typedLog, e),
         e \notin Terminal \union {"heartbeat"} => ~HasTerminal(typedLog)
  PROVE  /\ TypedTerminalsAreLast'
         /\ HasTerminal(typedLog') => HasTerminal(typedLog) \/ e \in Terminal
<1>1. typedLog \in Seq(TypedEvents)
  BY DEF TypeInv, TypeOK, TypedTypeOK
<1>2. /\ Len(typedLog) \in Nat
      /\ Len(typedLog') = Len(typedLog) + 1
      /\ \A i \in 1..Len(typedLog) : typedLog'[i] = typedLog[i]
      /\ typedLog'[Len(typedLog) + 1] = e
  BY <1>1, AppendProperties, LenProperties
<1>3. HasTerminal(typedLog') => HasTerminal(typedLog) \/ e \in Terminal
  BY <1>2 DEF HasTerminal
<1>4. TypedTerminalsAreLast'
  <2> SUFFICES ASSUME NEW i \in 1..Len(typedLog'), NEW j \in 1..Len(typedLog'),
                      i < j, typedLog'[i] \in Terminal
               PROVE  typedLog'[j] \in Terminal \union {"heartbeat"}
    BY DEF TypedTerminalsAreLast
  <2>1. i \in 1..Len(typedLog) /\ typedLog[i] \in Terminal
    BY <1>2
  <2>2. CASE j = Len(typedLog) + 1
    BY <1>2, <2>1, <2>2 DEF HasTerminal
  <2>3. CASE j # Len(typedLog) + 1
    BY <1>2, <2>1, <2>3 DEF TypedInv, TypedTerminalsAreLast
  <2> QED
    BY <2>2, <2>3
<1> QED
  BY <1>3, <1>4

LEMMA TypedInvStep == TypeInv /\ TrackInv /\ TypedInv /\ [Next]_vars => TypedInv'
<1> SUFFICES ASSUME TypeInv, TrackInv, TypedInv, [Next]_vars PROVE TypedInv'
  OBVIOUS
<1>1. ASSUME UNCHANGED <<pc, resume, sending, sent, typedLog>> PROVE TypedInv'
  BY <1>1 DEF TypedInv, HasTerminal, TypedTerminalsAreLast, Reported, Over
<1>2. ASSUME UNCHANGED typedLog, pc' \notin {"send", "typedEnd"}, Reported => Reported'
      PROVE  TypedInv'
  BY <1>2 DEF TypedInv, HasTerminal, TypedTerminalsAreLast
<1>3. ASSUME UNCHANGED <<typedLog, sent>>, pc' = "send", Reported => Reported',
             resume' = "typedEnd" => sending' \in Terminal
      PROVE  TypedInv'
  BY <1>3 DEF TypedInv, HasTerminal, TypedTerminalsAreLast
<1>4. CASE HoldTerminal
  BY <1>4, <1>1
  DEF HoldTerminal
<1>5. CASE StderrCallbackReturns
  BY <1>5, <1>1
  DEF StderrCallbackReturns, readerRest, chanVars
<1>6. CASE StderrEnds
  BY <1>6, <1>1
  DEF StderrEnds, readerRest, chanVars
<1>7. CASE Consume
  BY <1>7, <1>1
  DEF Consume, Receive, parserVars
<1>8. CASE ConsumerStops
  BY <1>8, <1>1
  DEF ConsumerStops, Abandon, parserVars
<1>9. CASE Environment
  BY <1>9, <1>1
  DEF Environment, bridgeVars, parserVars, chanVars
<1>10. CASE WriteStderr
  BY <1>10, <1>1
  DEF WriteStderr, bridgeVars, parserVars, chanVars
<1>11. CASE StartFails
  BY <1>11, <1>2
  DEF StartFails, Reported, Over
<1>12. CASE StartTurn
  BY <1>12, <1>2
  DEF StartTurn, Spawn, StartBeat, Reported, Over
<1>13. CASE ScanLine
  BY <1>13, <1>2
  DEF ScanLine, Reported, Over
<1>14. CASE ScanEnds
  BY <1>14, <1>2
  DEF ScanEnds, Reported, Over
<1>15. CASE ParsedDone
  BY <1>15, <1>2
  DEF ParsedDone, Reported, Over
<1>16. CASE CallbackReturns
  BY <1>16, <1>2
  DEF CallbackReturns, Reported, Over, TypeInv, Control
<1>17. CASE EventsDone
  BY <1>17, <1>2
  DEF EventsDone, Reported, Over
<1>18. CASE DrainStderr
  BY <1>18, <1>2
  DEF DrainStderr, Reported, Over
<1>19. CASE WaitProcess
  BY <1>19, <1>2
  DEF WaitProcess, Reported, Over
<1>20. CASE AwaitStderr
  BY <1>20, <1>2
  DEF AwaitStderr, Reported, Over
<1>21. CASE HeldDone
  BY <1>21, <1>2
  DEF HeldDone, Reported, Over
<1>22. CASE ReportExit
  BY <1>22, <1>2
  DEF ReportExit, Reported, Over
<1>23. CASE CloseStream
  BY <1>23, <1>2
  DEF CloseStream, StopBeat, Reported, Over
<1>24. CASE ReplaceDone
  BY <1>24, <1>3
  DEF ReplaceDone, SendGuard, BeginSend, Reported, Over
<1>25. CASE ForwardEvent
  BY <1>25, <1>3
  DEF ForwardEvent, BeginSend, Reported, Over
<1>26. CASE PostLoop
  <2>1. CASE GuardDue
    BY <1>3, <1>26, <2>1 DEF PostLoop, SendGuard, BeginSend, Reported, Over
  <2>2. CASE ~GuardDue
    BY <1>2, <1>26, <2>2 DEF PostLoop, Reported, Over
  <2> QED
    BY <2>1, <2>2
<1>27. CASE DecideTerminal
  <2>1. OwnTerminal \in Terminal
    BY DEF OwnTerminal, Terminal, BridgeTerminals
  <2>2. CASE terminalSent
    BY <1>2, <1>27, <2>2 DEF DecideTerminal, Reported, Over
  <2>3. CASE ~terminalSent
    BY <1>3, <1>27, <2>1, <2>3 DEF DecideTerminal, BeginSend, Reported, Over
  <2> QED
    BY <2>2, <2>3
<1>28. CASE Send
  <2>1. /\ sent \in Seq(StreamEvents)
        /\ sending \in StreamEvents
        /\ resume \in {"events", "drain", "typedEnd"}
    BY <1>28 DEF Send, TypeInv, TypeOK, ChannelTypeOK, Control
  <2>2. /\ sent' = Append(sent, sending)
        /\ pc = "send" /\ pc' = resume /\ resume' = resume /\ typedLog' = typedLog
    BY <1>28 DEF Send, Deliver
  <2>3. sent'[Len(sent')] = sending
    BY <2>1, <2>2, AppendProperties, LenProperties
  <2>4. Reported => Reported'
    BY <2>1, <2>2 DEF Reported, Over
  <2> QED
    BY <2>1, <2>2, <2>3, <2>4 DEF TypedInv, HasTerminal, TypedTerminalsAreLast
<1>29. CASE ReadStderr
  <2>1. ~HasTerminal(typedLog)
    BY <1>29 DEF ReadStderr, TrackInv, TypedInv
  <2>2. "stderr" \in TypedEvents \ (Terminal \union {"heartbeat"})
    BY DEF TypedEvents, Terminal, BridgeTerminals
  <2>3. TypedTerminalsAreLast' /\ ~HasTerminal(typedLog')
    BY <1>29, <2>1, <2>2, LogGrows DEF ReadStderr
  <2> QED
    BY <1>29, <2>3 DEF ReadStderr, readerRest, chanVars, TypedInv
<1>30. CASE HeartbeatStep
  <2>1. UNCHANGED <<pc, resume, sending, sent>>
    BY <1>30 DEF HeartbeatStep, parserVars, chanVars
  <2>2. CASE Beat
    <3>1. "heartbeat" \in TypedEvents \ Terminal
      BY DEF TypedEvents, Terminal, BridgeTerminals
    <3>2. TypedTerminalsAreLast' /\ (HasTerminal(typedLog') => HasTerminal(typedLog))
      BY <2>2, <3>1, LogGrows DEF Beat
    <3> QED
      BY <2>1, <3>2 DEF TypedInv, Reported, Over
  <2>3. CASE ~Beat
    BY <1>1, <1>30, <2>1, <2>3
    DEF HeartbeatStep, Heartbeat, Tick, BeatProgress, BeatCallbackReturns, BeatEnds
  <2> QED
    BY <2>2, <2>3
<1>31. CASE EmitParsed
  <2>1. Head(typed) \in TypedEvents \ Terminal
    <3>1. Head(typed) \in AdapterEvents
      BY <1>31, HeadTailProperties DEF EmitParsed, TypeInv, TypeOK
    <3> QED
      BY <1>31, <3>1, EventKinds DEF EmitParsed
  <2>2. ~HasTerminal(typedLog)
    BY <1>31 DEF EmitParsed, TypedInv, Reported, Over
  <2>3. TypedTerminalsAreLast' /\ ~HasTerminal(typedLog')
    BY <1>31, <2>1, <2>2, LogGrows DEF EmitParsed, CallBack
  <2> QED
    BY <1>31, <2>3 DEF EmitParsed, CallBack, TypedInv
<1>32. CASE EmitHeld
  <2>1. Head(heldTerminal) \in Terminal
    BY <1>32, HeadTailProperties DEF EmitHeld, TypeInv, TypeOK
  <2>2. TypedTerminalsAreLast'
    BY <1>32, <2>1, EventKinds, LogGrows DEF EmitHeld, CallBack
  <2> QED
    BY <1>32, <2>2 DEF EmitHeld, CallBack, TypedInv, Reported
<1>33. CASE EmitOwnTerminal
  <2>1. CASE HasTyped
    <3>1. sent[Len(sent)] \in Terminal
      BY <1>33 DEF EmitOwnTerminal, TypedInv
    <3>2. TypedTerminalsAreLast'
      BY <1>33, <2>1, <3>1, EventKinds, LogGrows DEF EmitOwnTerminal, CallBack
    <3> QED
      BY <1>33, <2>1, <3>2 DEF EmitOwnTerminal, CallBack, TypedInv, Reported, Over
  <2>2. CASE ~HasTyped
    BY <1>2, <1>33, <2>2 DEF EmitOwnTerminal, Reported, Over
  <2> QED
    BY <2>1, <2>2
<1>34. CASE UNCHANGED vars
  BY <1>34, <1>1 DEF vars, chanVars
<1> QED
  BY <1>4, <1>5, <1>6, <1>7, <1>8, <1>9, <1>10, <1>11, <1>12, <1>13, <1>14, <1>15,
      <1>16, <1>17, <1>18, <1>19, <1>20, <1>21, <1>22, <1>23, <1>24, <1>25, <1>26,
      <1>27, <1>28, <1>29, <1>30, <1>31, <1>32, <1>33, <1>34
  DEF Next, Parser, StderrReader

LEMMA TypedInvHolds == Spec => []TypedInv
<1>1. Init => TypedInv
  <2> SUFFICES ASSUME Init PROVE TypedInv
    OBVIOUS
  <2>1. typedLog = <<>> /\ pc = "start" /\ Len(typedLog) = 0
    BY EmptySeq DEF Init, TypedInit
  <2> QED
    BY <2>1 DEF TypedInv, HasTerminal, TypedTerminalsAreLast
<1>2. TypeInv /\ TrackInv /\ TypedInv /\ [Next]_vars => TypedInv'
  BY TypedInvStep
<1> QED
  BY <1>1, <1>2, TypeInvHolds, TrackInvHolds, PTL DEF Spec

\* Once a typed terminal is out, neither a stderr line nor any other event of the turn
\* follows it, whichever goroutine it would come from, heartbeats aside.
THEOREM TypedTerminalsLast == Spec => []TypedTerminalsAreLast
  BY TypedInvHolds, PTL DEF TypedInv

-----------------------------------------------------------------------------
(* No silent drop.                                                         *)

\* Event e is on the stream, or about to be.
Saw(e) ==
  \/ \E i \in 1..Len(sent) : sent[i] = e
  \/ pc = "send" /\ sending = e

\* The guard after the scan loop has been decided on, and the bridge's own terminal
\* has not.
AfterLoop ==
  \/ pc \in {"drain", "wait", "stderr", "held", "terminal"}
  \/ pc = "callback" /\ resume = "held"
  \/ pc = "send" /\ resume = "drain"

\* The two flags know what is on the stream, the guard is never still due once it
\* has been decided on, and a success is begun only with an excuse.
DropInv ==
  /\ Saw("tool_use") => seenToolUse
  /\ seenDelta => Saw("delta")
  /\ AfterLoop => ~GuardDue
  /\ pc = "send" /\ sending \in Success => Excused
  /\ NoSilentDrop

\* A send that begins: the flags take note of the event, and a success has an excuse.
LEMMA DropBegins ==
  ASSUME DropInv, NEW e, NEW next, BeginSend(e, next), pc # "send",
         UNCHANGED <<sent, cancelled>>,
         seenToolUse' <=> (seenToolUse \/ e = "tool_use"),
         seenDelta' <=> (seenDelta \/ e = "delta"),
         next = "drain" => terminalSent',
         e \in Success => Excused
  PROVE  DropInv'
  BY DEF DropInv, Saw, AfterLoop, Excused, GuardDue, NoSilentDrop, BeginSend

\* The send goes through.
LEMMA DropSends == TypeInv /\ DropInv /\ Send => DropInv'
<1> SUFFICES ASSUME TypeInv, DropInv, Send PROVE DropInv'
  OBVIOUS
<1>1. /\ sent \in Seq(StreamEvents)
      /\ resume \in {"events", "drain", "typedEnd"}
      /\ sent' = Append(sent, sending)
      /\ pc = "send" /\ pc' = resume /\ resume' = resume
      /\ UNCHANGED <<seenDelta, seenToolUse, terminalSent, cancelled>>
  BY DEF Send, Deliver, scanVars, cliVars, TypeInv, TypeOK, ChannelTypeOK, Control
<1>2. /\ Len(sent) \in Nat
      /\ Len(sent') = Len(sent) + 1
      /\ \A i \in 1..Len(sent) : sent'[i] = sent[i]
      /\ sent'[Len(sent) + 1] = sending
  BY <1>1, AppendProperties, LenProperties
<1>3. NoSilentDrop'
  BY <1>1, DropGrows DEF DropInv
<1>4. /\ Saw("tool_use")' => Saw("tool_use")
      /\ Saw("delta") => Saw("delta")'
  BY <1>1, <1>2 DEF Saw
<1> QED
  BY <1>1, <1>3, <1>4 DEF DropInv, AfterLoop, GuardDue

LEMMA DropInvStep == TypeInv /\ EndInv /\ DropInv /\ [Next]_vars => DropInv'
<1> SUFFICES ASSUME TypeInv, EndInv, DropInv, [Next]_vars PROVE DropInv'
  OBVIOUS
<1>1. ASSUME UNCHANGED <<pc, resume, sending, sent, seenDelta, seenToolUse, terminalSent>>,
             cancelled => cancelled'
      PROVE  DropInv'
  BY <1>1 DEF DropInv, Saw, AfterLoop, Excused, GuardDue, NoSilentDrop
<1>2. ASSUME UNCHANGED <<sent, seenDelta, seenToolUse, terminalSent, cancelled>>,
             pc # "send", pc' # "send", AfterLoop' => AfterLoop \/ ~GuardDue
      PROVE  DropInv'
  BY <1>2 DEF DropInv, Saw, AfterLoop, GuardDue, NoSilentDrop
<1>3. CASE HoldTerminal
  BY <1>3, <1>1 DEF HoldTerminal, cliVars
<1>4. CASE ReadStderr
  BY <1>4, <1>1 DEF ReadStderr, readerRest, cliVars, scanVars, chanVars
<1>5. CASE StderrCallbackReturns
  BY <1>5, <1>1 DEF StderrCallbackReturns, readerRest, cliVars, scanVars, chanVars
<1>6. CASE StderrEnds
  BY <1>6, <1>1 DEF StderrEnds, readerRest, cliVars, scanVars, chanVars
<1>7. CASE HeartbeatStep
  BY <1>7, <1>1 DEF HeartbeatStep, parserVars, cliVars, scanVars, chanVars
<1>8. CASE Consume
  BY <1>8, <1>1 DEF Consume, Receive, parserVars, cliVars, scanVars
<1>9. CASE ConsumerStops
  BY <1>9, <1>1 DEF ConsumerStops, Abandon, parserVars, cliVars, scanVars
<1>10. CASE Environment
  <2>1. cancelled => cancelled'
    BY <1>10 DEF Environment, CliStep, WriteLine, ShutStdout, Finish, Crash, Killed, Exit, Release, Cancel
  <2> QED
    BY <1>10, <2>1, <1>1 DEF Environment, bridgeVars, parserVars, scanVars, chanVars
<1>11. CASE WriteStderr
  BY <1>11, <1>1 DEF WriteStderr, bridgeVars, parserVars, cliVars, scanVars, chanVars
<1>12. CASE StartFails
  BY <1>12, <1>2 DEF StartFails, cliVars, scanVars, chanVars, AfterLoop
<1>13. CASE StartTurn
  BY <1>13, <1>2 DEF StartTurn, Spawn, scanVars, chanVars, AfterLoop
<1>14. CASE ScanLine
  BY <1>14, <1>2 DEF ScanLine, AfterLoop
<1>15. CASE ScanEnds
  BY <1>15, <1>2 DEF ScanEnds, cliVars, scanVars, AfterLoop
<1>16. CASE EmitParsed
  BY <1>16, <1>2 DEF EmitParsed, CallBack, cliVars, AfterLoop
<1>17. CASE ParsedDone
  BY <1>17, <1>2 DEF ParsedDone, cliVars, scanVars, AfterLoop
<1>18. CASE CallbackReturns
  BY <1>18, <1>2 DEF CallbackReturns, cliVars, scanVars, AfterLoop, TypeInv, Control
<1>19. CASE EventsDone
  BY <1>19, <1>2 DEF EventsDone, cliVars, scanVars, AfterLoop
<1>20. CASE DrainStderr
  BY <1>20, <1>2 DEF DrainStderr, cliVars, scanVars, AfterLoop
<1>21. CASE WaitProcess
  BY <1>21, <1>2 DEF WaitProcess, cliVars, scanVars, AfterLoop
<1>22. CASE AwaitStderr
  BY <1>22, <1>2 DEF AwaitStderr, cliVars, scanVars, AfterLoop
<1>23. CASE EmitHeld
  BY <1>23, <1>2 DEF EmitHeld, CallBack, cliVars, AfterLoop
<1>24. CASE HeldDone
  BY <1>24, <1>2 DEF HeldDone, cliVars, scanVars, AfterLoop
<1>25. CASE EmitOwnTerminal
  BY <1>25, <1>2 DEF EmitOwnTerminal, CallBack, cliVars, scanVars, AfterLoop
<1>26. CASE ReportExit
  BY <1>26, <1>2 DEF ReportExit, cliVars, scanVars, AfterLoop
<1>27. CASE CloseStream
  BY <1>27, <1>2 DEF CloseStream, cliVars, scanVars, chanVars, AfterLoop
<1>28. CASE ReplaceDone
  <2>1. BeginSend("guard", "events") /\ pc = "events" /\ UNCHANGED <<sent, cancelled, seenToolUse, seenDelta>>
    BY <1>28 DEF ReplaceDone, SendGuard, cliVars
  <2> QED
    BY <2>1, DropBegins DEF Success
<1>29. CASE PostLoop
  <2>1. CASE GuardDue
    <3>1. /\ BeginSend("guard", "drain") /\ pc = "postloop" /\ terminalSent'
          /\ UNCHANGED <<sent, cancelled, seenToolUse, seenDelta>>
      BY <1>29, <2>1 DEF PostLoop, SendGuard, cliVars
    <3> QED
      BY <3>1, DropBegins DEF Success
  <2>2. CASE ~GuardDue
    BY <1>29, <2>2, <1>2 DEF PostLoop, cliVars
  <2> QED
    BY <2>1, <2>2
<1>30. CASE ForwardEvent
  <2>1. /\ BeginSend(Head(events), "events") /\ pc = "events"
        /\ UNCHANGED <<sent, cancelled>>
        /\ seenToolUse' = (seenToolUse \/ Head(events) = "tool_use")
        /\ seenDelta' = (seenDelta \/ Head(events) = "delta")
    BY <1>30 DEF ForwardEvent, cliVars
  <2>2. Head(events) \in AdapterEvents
    BY <1>30, HeadTailProperties DEF ForwardEvent, TypeInv, TypeOK
  <2>3. ASSUME Head(events) \in Success PROVE Excused
    <3>1. ~GuardDue
      BY <1>30, <2>2, <2>3 DEF ForwardEvent, AdapterEvents, Success
    <3>2. terminalSent => HasTerminal(sent)
      BY <2>1 DEF EndInv, Ended
    <3> QED
      BY <2>1, <3>1, <3>2 DEF GuardDue, Excused, DropInv, Saw, HasTerminal
  <2> QED
    BY <2>1, <2>3, DropBegins
<1>31. CASE DecideTerminal
  <2>1. CASE terminalSent
    BY <1>31, <2>1, <1>2 DEF DecideTerminal, cliVars, scanVars, AfterLoop
  <2>2. CASE ~terminalSent
    <3>1. /\ BeginSend(OwnTerminal, "typedEnd") /\ pc = "terminal"
          /\ UNCHANGED <<sent, cancelled, seenToolUse, seenDelta>>
      BY <1>31, <2>2 DEF DecideTerminal, cliVars, scanVars
    <3>2. ~GuardDue
      BY <3>1 DEF DropInv, AfterLoop
    <3>3. OwnTerminal \in Success => Excused
      BY <2>2, <3>1, <3>2 DEF GuardDue, Excused, DropInv, Saw
    <3>4. OwnTerminal \notin {"tool_use", "delta"}
      BY DEF OwnTerminal
    <3> QED
      BY <3>1, <3>3, <3>4, DropBegins
  <2> QED
    BY <2>1, <2>2
<1>32. CASE Send
  BY <1>32, DropSends
<1>33. CASE UNCHANGED vars
  BY <1>33, <1>1 DEF vars, cliVars, scanVars, chanVars
<1> QED
  BY <1>3, <1>4, <1>5, <1>6, <1>7, <1>8, <1>9, <1>10, <1>11, <1>12, <1>13, <1>14,
      <1>15, <1>16, <1>17, <1>18, <1>19, <1>20, <1>21, <1>22, <1>23, <1>24, <1>25,
      <1>26, <1>27, <1>28, <1>29, <1>30, <1>31, <1>32, <1>33
  DEF Next, Parser, StderrReader

LEMMA DropInvHolds == Spec => []DropInv
<1>1. Init => DropInv
  <2> SUFFICES ASSUME Init PROVE DropInv
    OBVIOUS
  <2>1. sent = <<>> /\ pc = "start" /\ seenDelta = FALSE /\ Len(sent) = 0
    BY EmptySeq DEF Init, ChannelInit
  <2> QED
    BY <2>1 DEF DropInv, Saw, AfterLoop, NoSilentDrop
<1>2. TypeInv /\ EndInv /\ DropInv /\ [Next]_vars => DropInv'
  BY DropInvStep
<1> QED
  BY <1>1, <1>2, TypeInvHolds, EndInvHolds, PTL DEF Spec

\* A turn that called tools and said nothing is never reported as a success, by the
\* adapter's Done or by the bridge's own, unless it was cancelled or had already ended.
THEOREM ToolsWithoutText == Spec => []NoSilentDrop
  BY DropInvHolds, PTL DEF DropInv

-----------------------------------------------------------------------------
(* The two surfaces agree.                                                 *)

\* The bridge's own terminal is on the stream, or on its way, and the typed surface
\* has yet to be told.
OwnDue == pc = "typedEnd" \/ (pc = "send" /\ resume = "typedEnd")

\* Where the parser goroutine may be while a line's events or the terminals kept
\* back are still to be reported, and an event is being sent.
PlaceInv ==
  /\ pc # "send" => sending = None
  /\ typed # <<>> => pc = "parsed" \/ (pc = "callback" /\ resume = "parsed")
  /\ events # <<>> => \/ pc \in {"parsed", "events"}
                      \/ pc = "callback" /\ resume = "parsed"
                      \/ pc = "send" /\ resume = "events"
  /\ OwnDue \/ pc = "terminal" => heldTerminal = <<>>
  /\ pc \in {"reap", "defers", "closed"} => heldTerminal = <<>>
  /\ pc = "callback" /\ resume = "reap" => heldTerminal = <<>>

\* Until the guard is sent, the ends of the turn the typed surface was told of, the
\* ones kept back and those of the current line are, in order, the ends the stream
\* was sent and those still to be forwarded; the bridge's own comes last.
InStep ==
  /\ ~OwnDue =>
       Told(typedLog, heldTerminal, typed) = Forwarded(sent, sending, events)
  /\ pc = "send" /\ resume = "typedEnd" =>
       Terminals(typedLog) = Terminals(sent) /\ sending \in Terminal
  /\ pc = "typedEnd" =>
       /\ sent[Len(sent)] \in Terminal
       /\ Append(Terminals(typedLog), sent[Len(sent)]) = Terminals(sent)

AgreeInv == HasTyped /\ ~Guarded => InStep

LEMMA PlaceInvStep == TypeInv /\ PlaceInv /\ [Next]_vars => PlaceInv'
<1> SUFFICES ASSUME TypeInv, PlaceInv, [Next]_vars PROVE PlaceInv'
  OBVIOUS
<1>1. ASSUME UNCHANGED <<pc, resume, sending, events, typed, heldTerminal>>
      PROVE  PlaceInv'
  BY <1>1 DEF PlaceInv, OwnDue
<1>2. CASE StartFails \/ StartTurn
  BY <1>2 DEF StartFails, StartTurn, scanVars, PlaceInv, OwnDue
<1>3. CASE ScanLine
  BY <1>3 DEF ScanLine, PlaceInv, OwnDue
<1>4. CASE ScanEnds \/ ParsedDone \/ CallbackReturns \/ EventsDone \/ DrainStderr
  BY <1>4 DEF ScanEnds, ParsedDone, CallbackReturns, EventsDone, DrainStderr, scanVars,
              PlaceInv, OwnDue, TypeInv, Control
<1>5. CASE HoldTerminal
  BY <1>5 DEF HoldTerminal, PlaceInv, OwnDue
<1>6. CASE EmitParsed \/ EmitHeld
  BY <1>6 DEF EmitParsed, EmitHeld, CallBack, PlaceInv, OwnDue
<1>7. CASE ReplaceDone \/ PostLoop
  BY <1>7 DEF ReplaceDone, PostLoop, SendGuard, BeginSend, PlaceInv, OwnDue
<1>8. CASE ForwardEvent
  BY <1>8 DEF ForwardEvent, BeginSend, PlaceInv, OwnDue
<1>9. CASE Send
  BY <1>9 DEF Send, Deliver, scanVars, PlaceInv, OwnDue, TypeInv, Control
<1>10. CASE WaitProcess \/ AwaitStderr \/ HeldDone
  BY <1>10 DEF WaitProcess, AwaitStderr, HeldDone, scanVars, PlaceInv, OwnDue
<1>11. CASE DecideTerminal
  BY <1>11 DEF DecideTerminal, BeginSend, scanVars, PlaceInv, OwnDue
<1>12. CASE EmitOwnTerminal
  BY <1>12 DEF EmitOwnTerminal, CallBack, scanVars, PlaceInv, OwnDue
<1>13. CASE ReportExit \/ CloseStream
  BY <1>13 DEF ReportExit, CloseStream, scanVars, PlaceInv, OwnDue
<1>14. CASE StderrReader
  BY <1>14, <1>1 DEF StderrReader, ReadStderr, StderrCallbackReturns, StderrEnds, readerRest, scanVars
<1>15. CASE HeartbeatStep
  BY <1>15, <1>1 DEF HeartbeatStep, parserVars, scanVars
<1>16. CASE Consume \/ ConsumerStops
  BY <1>16, <1>1 DEF Consume, ConsumerStops, Receive, Abandon, parserVars, scanVars
<1>17. CASE Environment \/ WriteStderr
  BY <1>17, <1>1 DEF Environment, WriteStderr, bridgeVars, parserVars, scanVars
<1>18. CASE UNCHANGED vars
  BY <1>18, <1>1 DEF vars, scanVars
<1> QED
  BY <1>2, <1>3, <1>4, <1>5, <1>6, <1>7, <1>8, <1>9, <1>10, <1>11, <1>12, <1>13,
     <1>14, <1>15, <1>16, <1>17, <1>18
  DEF Next, Parser

LEMMA AgreeInvStep == TypeInv /\ PlaceInv /\ AgreeInv /\ [Next]_vars => AgreeInv'
<1> SUFFICES ASSUME TypeInv, PlaceInv, AgreeInv, [Next]_vars, HasTyped, ~Guarded'
             PROVE  InStep'
  BY DEF AgreeInv
<1>1. /\ typedLog \in Seq(TypedEvents) /\ sent \in Seq(StreamEvents)
      /\ typed \in Seq(AdapterEvents) /\ events \in Seq(AdapterEvents)
      /\ heldTerminal \in Seq(Terminal)
      /\ typed \in Seq(TypedEvents) /\ heldTerminal \in Seq(TypedEvents)
      /\ events \in Seq(StreamEvents)
  <2>1. /\ typedLog \in Seq(TypedEvents) /\ sent \in Seq(StreamEvents)
        /\ typed \in Seq(AdapterEvents) /\ events \in Seq(AdapterEvents)
        /\ heldTerminal \in Seq(Terminal)
    BY DEF TypeInv, TypeOK, ChannelTypeOK, TypedTypeOK
  <2>2. /\ AdapterEvents \subseteq TypedEvents /\ Terminal \subseteq TypedEvents
        /\ AdapterEvents \subseteq StreamEvents
    BY EventKinds
  <2> QED
    BY <2>1, <2>2, SeqMonotonic
<1>2. \A e : sent' = Append(sent, e) =>
        /\ Len(sent) \in Nat
        /\ Len(sent') = Len(sent) + 1 /\ sent'[Len(sent) + 1] = e
        /\ \A i \in 1..Len(sent) : sent'[i] = sent[i]
  BY <1>1, LenProperties
<1>3. ASSUME UNCHANGED sent, sending = sending' \/ sending = None PROVE InStep
  <2>1. ~Guarded
    BY <1>3 DEF Guarded, None
  <2> QED
    BY <2>1 DEF AgreeInv
\* A step that leaves both surfaces alone.
<1>4. ASSUME UNCHANGED <<pc, resume, sending, sent, events, typed, heldTerminal>>,
             Terminals(typedLog') = Terminals(typedLog)
      PROVE  InStep'
  BY <1>4, <1>3 DEF InStep, OwnDue, Told
\* A step of the parser goroutine that moves an event from one place to another.
<1>5. ASSUME ~OwnDue, ~OwnDue', UNCHANGED sent, sending = sending' \/ sending = None,
             Told(typedLog, heldTerminal, typed)' = Told(typedLog, heldTerminal, typed),
             Forwarded(sent, sending, events)' = Forwarded(sent, sending, events)
      PROVE  InStep'
  BY <1>5, <1>3 DEF InStep, OwnDue
\* A step that only moves the parser goroutine on.
<1>6. ASSUME ~OwnDue, ~OwnDue',
             UNCHANGED <<sending, sent, events, typed, heldTerminal, typedLog>>
      PROVE  InStep'
  BY <1>6, <1>5
<1>7. CASE StartFails \/ StartTurn
  BY <1>7, <1>6 DEF StartFails, StartTurn, scanVars, chanVars, OwnDue
<1>8. CASE ScanLine
  <2>1. /\ pc = "scan" /\ sending = None /\ events = <<>> /\ typed = <<>>
        /\ UNCHANGED <<sending, sent, heldTerminal, typedLog>>
        /\ pc' \in {"scan", "parsed"}
    BY <1>8 DEF ScanLine, PlaceInv, OwnDue
  <2>2. CASE Head(out).form = "malformed"
    BY <1>8, <2>1, <2>2, <1>6 DEF ScanLine, OwnDue
  <2>3. CASE Head(out).form # "malformed"
    <3>1. events' = Head(out).stream /\ typed' = TypedOf(Head(out))
      BY <1>8, <2>3 DEF ScanLine
    <3>2. Head(out) \in Lines
      BY <1>8, PipeShrinks DEF ScanLine, TypeInv, TypeOK, CliTypeOK
    <3>3. Told(typedLog, heldTerminal, <<>>) = Forwarded(sent, None, <<>>)
      BY <2>1, <1>3 DEF InStep, OwnDue
    <3>4. Told(typedLog, heldTerminal, TypedOf(Head(out)))
            = Forwarded(sent, None, Head(out).stream)
      BY <1>1, <3>2, <3>3, LineBegins
    <3> QED
      BY <2>1, <3>1, <3>4 DEF InStep, OwnDue
  <2> QED
    BY <2>2, <2>3
<1>9. CASE ScanEnds \/ ParsedDone \/ CallbackReturns \/ EventsDone \/ DrainStderr
  BY <1>9, <1>6 DEF ScanEnds, ParsedDone, CallbackReturns, EventsDone, DrainStderr,
                    scanVars, OwnDue, TypeInv, Control
<1>10. CASE WaitProcess \/ AwaitStderr \/ HeldDone \/ ReportExit
  BY <1>10, <1>6 DEF WaitProcess, AwaitStderr, HeldDone, ReportExit, scanVars, OwnDue
<1>11. CASE CloseStream
  BY <1>11, <1>6 DEF CloseStream, scanVars, chanVars, OwnDue
<1>12. CASE HoldTerminal
  <2>1. /\ UNCHANGED <<pc, resume, sending, sent, events, typedLog>> /\ pc = "parsed"
        /\ typed # <<>> /\ Head(typed) \in Terminal
        /\ heldTerminal' = Append(heldTerminal, Head(typed)) /\ typed' = Tail(typed)
    BY <1>12 DEF HoldTerminal
  <2>2. Told(typedLog, heldTerminal, typed)' = Told(typedLog, heldTerminal, typed)
    BY <1>1, <2>1, ToldHeld
  <2> QED
    BY <2>1, <2>2, <1>5 DEF OwnDue
<1>13. CASE EmitParsed
  <2>1. /\ UNCHANGED <<sending, sent, events, heldTerminal>> /\ pc = "parsed"
        /\ pc' = "callback" /\ typed # <<>> /\ Head(typed) \notin Terminal
        /\ typedLog' = Append(typedLog, Head(typed)) /\ typed' = Tail(typed)
    BY <1>13 DEF EmitParsed, CallBack
  <2>2. Head(typed) \in TypedEvents
    BY <1>1, <2>1, HeadTailProperties
  <2>3. Told(typedLog', heldTerminal, Tail(typed)) = Told(typedLog, heldTerminal, Tail(typed))
    BY <1>1, <2>1, <2>2, ToldOther
  <2>4. Told(typedLog, heldTerminal, Tail(typed)) = Told(typedLog, heldTerminal, typed)
    BY <1>1, <2>1, ToldSkips
  <2> QED
    BY <2>1, <2>3, <2>4, <1>5 DEF OwnDue
<1>14. CASE EmitHeld
  <2>1. /\ UNCHANGED <<sending, sent, events, typed>> /\ pc = "held"
        /\ pc' = "callback" /\ heldTerminal # <<>>
        /\ typedLog' = Append(typedLog, Head(heldTerminal))
        /\ heldTerminal' = Tail(heldTerminal)
    BY <1>14 DEF EmitHeld, CallBack
  <2>2. Told(typedLog, heldTerminal, typed)' = Told(typedLog, heldTerminal, typed)
    BY <1>1, <2>1, ToldReleased
  <2> QED
    BY <2>1, <2>2, <1>5 DEF OwnDue
<1>15. CASE ReplaceDone
  BY <1>15 DEF ReplaceDone, SendGuard, BeginSend, Guarded
<1>16. CASE PostLoop
  <2>1. ~GuardDue
    BY <1>16 DEF PostLoop, SendGuard, BeginSend, Guarded
  <2> QED
    BY <1>16, <2>1, <1>6 DEF PostLoop, OwnDue
<1>17. CASE ForwardEvent
  <2>1. /\ UNCHANGED <<sent, typed, heldTerminal, typedLog>> /\ pc = "events"
        /\ pc' = "send" /\ resume' = "events" /\ events # <<>> /\ sending = None
        /\ sending' = Head(events) /\ events' = Tail(events)
    BY <1>17 DEF ForwardEvent, BeginSend, PlaceInv
  <2>2. Forwarded(sent, sending, events)' = Forwarded(sent, sending, events)
    BY <1>1, <2>1, ForwardBegins
  <2> QED
    BY <2>1, <2>2, <1>5 DEF OwnDue
<1>18. CASE Send
  <2>1. /\ pc = "send" /\ pc' = resume /\ resume' = resume
        /\ sent' = Append(sent, sending) /\ sending' = None
        /\ UNCHANGED <<events, typed, heldTerminal, typedLog>>
        /\ sending \in StreamEvents /\ resume \in {"events", "drain", "typedEnd"}
    BY <1>18 DEF Send, Deliver, scanVars, TypeInv, Control
  <2>2. ~Guarded
    <3>1. /\ Len(sent) \in Nat
          /\ Len(sent') = Len(sent) + 1 /\ sent'[Len(sent) + 1] = sending
          /\ \A i \in 1..Len(sent) : sent'[i] = sent[i]
      BY <1>2, <2>1
    <3> QED
      BY <3>1 DEF Guarded
  <2>3. CASE resume # "typedEnd"
    <3>1. Told(typedLog, heldTerminal, typed) = Forwarded(sent, sending, events)
      BY <2>1, <2>2, <2>3 DEF AgreeInv, InStep, OwnDue
    <3>2. Forwarded(sent', None, events) = Forwarded(sent, sending, events)
      BY <1>1, <2>1, ForwardEnds
    <3> QED
      BY <2>1, <2>3, <3>1, <3>2 DEF InStep, OwnDue
  <2>4. CASE resume = "typedEnd"
    <3>1. Terminals(typedLog) = Terminals(sent) /\ sending \in Terminal
      BY <2>1, <2>2, <2>4 DEF AgreeInv, InStep
    <3>2. Terminals(sent') = Append(Terminals(sent), sending)
      BY <1>1, <2>1, <3>1, TerminalsAppend
    <3>3. sent'[Len(sent')] = sending
      BY <1>2, <2>1
    <3> QED
      BY <2>1, <2>4, <3>1, <3>2, <3>3 DEF InStep, OwnDue
  <2> QED
    BY <2>3, <2>4
<1>19. CASE DecideTerminal
  <2>1. /\ pc = "terminal" /\ heldTerminal = <<>> /\ typed = <<>> /\ events = <<>>
        /\ sending = None /\ UNCHANGED <<sent, events, typed, heldTerminal, typedLog>>
    BY <1>19 DEF DecideTerminal, scanVars, PlaceInv, OwnDue
  <2>2. CASE terminalSent
    BY <1>19, <2>1, <2>2, <1>6 DEF DecideTerminal, OwnDue
  <2>3. CASE ~terminalSent
    <3>1. sending' = OwnTerminal /\ pc' = "send" /\ resume' = "typedEnd"
      BY <1>19, <2>3 DEF DecideTerminal, BeginSend
    <3>2. OwnTerminal \in Terminal
      BY DEF OwnTerminal, Terminal, BridgeTerminals
    <3>3. Told(typedLog, heldTerminal, typed) = Forwarded(sent, sending, events)
      BY <2>1, <1>3 DEF InStep, OwnDue
    <3>4. Terminals(typedLog) = Terminals(sent)
      BY <1>1, <2>1, <3>3, NothingLeft
    <3> QED
      BY <2>1, <3>1, <3>2, <3>4 DEF InStep, OwnDue
  <2> QED
    BY <2>2, <2>3
<1>20. CASE EmitOwnTerminal
  <2> DEFINE e == sent[Len(sent)]
  <2>1. /\ pc = "typedEnd" /\ typedLog' = Append(typedLog, e)
        /\ pc' = "callback" /\ resume' = "reap"
        /\ heldTerminal = <<>> /\ typed = <<>> /\ events = <<>> /\ sending = None
        /\ UNCHANGED <<sending, sent, events, typed, heldTerminal>>
    BY <1>20 DEF EmitOwnTerminal, CallBack, scanVars, PlaceInv, OwnDue
  <2>2. e \in Terminal /\ Append(Terminals(typedLog), e) = Terminals(sent)
    BY <2>1, <1>3 DEF InStep
  <2>3. e \in TypedEvents
    BY <2>2, EventKinds
  <2> HIDE DEF e
  <2>4. Terminals(typedLog') = Terminals(sent) /\ typedLog' \in Seq(TypedEvents)
    BY <1>1, <2>1, <2>2, <2>3, TerminalsAppend, AppendProperties
  <2>5. Told(typedLog', <<>>, <<>>) = Forwarded(sent, None, <<>>)
    BY <1>1, <2>4, NothingLeft
  <2> QED
    BY <2>1, <2>5 DEF InStep, OwnDue
<1>21. CASE StderrReader
  <2>1. /\ UNCHANGED <<pc, resume, sending, sent, events, typed, heldTerminal>>
        /\ typedLog' = typedLog \/ typedLog' = Append(typedLog, "stderr")
    BY <1>21 DEF StderrReader, ReadStderr, StderrCallbackReturns, StderrEnds, readerRest, scanVars, chanVars
  <2>2. "stderr" \in TypedEvents \ Terminal
    BY DEF TypedEvents, Terminal, BridgeTerminals
  <2> QED
    BY <1>1, <2>1, <2>2, <1>4, TerminalsAppend
<1>22. CASE HeartbeatStep
  <2>1. /\ UNCHANGED <<pc, resume, sending, sent, events, typed, heldTerminal>>
        /\ typedLog' = typedLog \/ typedLog' = Append(typedLog, "heartbeat")
    BY <1>22 DEF HeartbeatStep, Heartbeat, Tick, BeatProgress, Beat, BeatCallbackReturns,
                 BeatEnds, parserVars, scanVars, chanVars
  <2>2. "heartbeat" \in TypedEvents \ Terminal
    BY DEF TypedEvents, Terminal, BridgeTerminals
  <2> QED
    BY <1>1, <2>1, <2>2, <1>4, TerminalsAppend
<1>23. CASE Consume \/ ConsumerStops
  BY <1>23, <1>4 DEF Consume, ConsumerStops, Receive, Abandon, parserVars, scanVars
<1>24. CASE Environment \/ WriteStderr
  BY <1>24, <1>4 DEF Environment, WriteStderr, bridgeVars, parserVars, scanVars, chanVars
<1>25. CASE UNCHANGED vars
  BY <1>25, <1>4 DEF vars, scanVars, chanVars
<1> QED
  BY <1>7, <1>8, <1>9, <1>10, <1>11, <1>12, <1>13, <1>14, <1>15, <1>16, <1>17, <1>18,
     <1>19, <1>20, <1>21, <1>22, <1>23, <1>24, <1>25
  DEF Next, Parser

LEMMA AgreeInvHolds == Spec => [](TypeInv /\ PlaceInv /\ AgreeInv)
<1>1. Init => PlaceInv /\ AgreeInv
  <2> SUFFICES ASSUME Init PROVE PlaceInv /\ AgreeInv
    OBVIOUS
  <2>1. /\ sent = <<>> /\ typedLog = <<>> /\ pc = "start" /\ sending = None
        /\ typed = <<>> /\ events = <<>> /\ heldTerminal = <<>>
    BY DEF Init, ChannelInit, TypedInit
  <2>2. PlaceInv
    BY <2>1 DEF PlaceInv, OwnDue
  <2>3. <<>> \in Seq(TypedEvents) /\ <<>> \in Seq(StreamEvents)
    BY EmptySeq
  <2>4. Told(<<>>, <<>>, <<>>) = Forwarded(<<>>, None, <<>>)
    BY <2>3, NothingLeft
  <2> QED
    BY <2>1, <2>2, <2>4 DEF AgreeInv, InStep, OwnDue
<1>2. TypeInv /\ PlaceInv /\ [Next]_vars => PlaceInv'
  BY PlaceInvStep
<1>3. TypeInv /\ PlaceInv /\ AgreeInv /\ [Next]_vars => AgreeInv'
  BY AgreeInvStep
<1> QED
  BY <1>1, <1>2, <1>3, TypeInvHolds, PTL DEF Spec

\* Once the stream has closed, the typed callback has seen the stream's terminals, in
\* the stream's order, unless the guard replaced one: whatever was held back, cancelled
\* or made up by the bridge.
THEOREM SurfacesMatch == Spec => []SurfacesAgree
<1>1. TypeInv /\ PlaceInv /\ AgreeInv => SurfacesAgree
  <2> SUFFICES ASSUME TypeInv, PlaceInv, AgreeInv, Closed, HasTyped,
                      \A i \in 1..Len(sent) : sent[i] # "guard"
               PROVE  Terminals(typedLog) = Terminals(sent)
    BY DEF SurfacesAgree
  <2>1. /\ sending = None /\ typed = <<>> /\ events = <<>> /\ heldTerminal = <<>>
        /\ ~OwnDue
    BY DEF Closed, PlaceInv, OwnDue
  <2>2. ~Guarded
    BY <2>1 DEF Guarded, None
  <2>3. Told(typedLog, <<>>, <<>>) = Forwarded(sent, None, <<>>)
    BY <2>1, <2>2 DEF AgreeInv, InStep
  <2>4. typedLog \in Seq(TypedEvents) /\ sent \in Seq(StreamEvents)
    BY DEF TypeInv, TypeOK, ChannelTypeOK, TypedTypeOK
  <2> QED
    BY <2>3, <2>4, NothingLeft
<1> QED
  BY <1>1, AgreeInvHolds, PTL

-----------------------------------------------------------------------------
(* The bridge implements TurnStream, for a CLI that reports the end of its *)
(* turn once.                                                              *)

\* Nothing in the pipe carries a stream event.
Silent == \A i \in 1..Len(out) : out[i].stream = <<>>

\* Lines are still being taken from the pipe and forwarded.
Scanning ==
  \/ pc \in {"start", "scan", "parsed", "events"}
  \/ pc = "callback" /\ resume = "parsed"
  \/ pc = "send" /\ resume = "events"

\* The end of the turn travels from the CLI through the pipe and the events of the
\* current line to the stream, and nothing comes after it at any of these places.
OnceInv ==
  /\ \A i \in 1..Len(out) : Ends(out[i]) =>
       turnOver /\ \A j \in 1..Len(out) : j > i => out[j].stream = <<>>
  /\ \A i \in 1..Len(events) : events[i] \in Terminal => i = Len(events)
  /\ HasTerminal(events) => turnOver /\ Silent
  /\ Scanning /\ Ended => events = <<>> /\ turnOver /\ Silent
  /\ pc = "send" => ~HasTerminal(sent)

-----------------------------------------------------------------------------
(* The steps that move the end of the turn along.                          *)

LEMMA WriteLineOnce ==
  ASSUME TypeInv, OnceInv, OneTurn, NEW l \in Lines, WriteLine(l),
         UNCHANGED <<events, pc, resume, sending, sent>>
  PROVE  OnceInv'
<1>1. out \in Seq(Lines) /\ out' = Append(out, l) /\ (turnOver => Quiet(l))
      /\ turnOver' = (turnOver \/ Ends(l)) /\ turnOver \in BOOLEAN
  BY DEF WriteLine, TypeInv, TypeOK, CliTypeOK
<1>2. /\ Len(out) \in Nat /\ Len(out') = Len(out) + 1
      /\ \A i \in 1..Len(out) : out'[i] = out[i]
      /\ out'[Len(out) + 1] = l
  BY <1>1, PipeGrows
<1>3. \A i \in 1..Len(out') : i \in 1..Len(out) \/ i = Len(out) + 1
  BY <1>2
<1>4. turnOver /\ Silent => Silent'
  BY <1>1, <1>2, <1>3 DEF Silent, Quiet
<1>5. ASSUME NEW i \in 1..Len(out'), Ends(out'[i])
      PROVE  turnOver' /\ \A j \in 1..Len(out') : j > i => out'[j].stream = <<>>
  <2>1. CASE i \in 1..Len(out)
    <3>1. turnOver /\ \A j \in 1..Len(out) : j > i => out[j].stream = <<>>
      BY <1>2, <1>5, <2>1 DEF OnceInv
    <3>2. l.stream = <<>>
      BY <1>1, <3>1 DEF Quiet
    <3> QED
      BY <1>1, <1>2, <1>3, <3>1, <3>2
  <2>2. CASE i = Len(out) + 1
    <3>1. Ends(l)
      BY <1>2, <1>5, <2>2
    <3>2. \A j \in 1..Len(out') : ~(j > i)
      BY <1>2, <2>2
    <3> QED
      BY <1>1, <3>1, <3>2
  <2> QED
    BY <1>3, <2>1, <2>2
<1>6. Scanning' = Scanning /\ Ended' = Ended
  BY DEF Scanning, Ended, HasTerminal
<1> QED
  BY <1>1, <1>4, <1>5, <1>6 DEF OnceInv, HasTerminal

LEMMA ScanLineOnce == TypeInv /\ OnceInv /\ ScanLine => OnceInv'
<1> SUFFICES ASSUME TypeInv, OnceInv, ScanLine PROVE OnceInv'
  OBVIOUS
<1>1. /\ out \in Seq(Lines) /\ out # <<>> /\ out' = Tail(out)
      /\ turnOver' = turnOver /\ sent' = sent /\ pc = "scan"
      /\ \/ pc' = pc /\ events' = events
         \/ pc' = "parsed" /\ events' = Head(out).stream
  BY DEF ScanLine, TypeInv, TypeOK, CliTypeOK
<1>2. /\ Len(out) \in Nat /\ Len(out) >= 1
      /\ Len(out') = Len(out) - 1
      /\ \A i \in 1..Len(out') : out'[i] = out[i + 1]
      /\ Head(out) = out[1] /\ Head(out) \in Lines
  BY <1>1, PipeShrinks
<1>3. Silent => Silent' /\ Head(out).stream = <<>>
  BY <1>2 DEF Silent
<1>4. Ends(Head(out)) => turnOver /\ Silent'
  <2> SUFFICES ASSUME Ends(Head(out)) PROVE turnOver /\ Silent'
    OBVIOUS
  <2>1. 1 \in 1..Len(out) /\ Ends(out[1])
    BY <1>2
  <2>2. turnOver /\ \A j \in 1..Len(out) : j > 1 => out[j].stream = <<>>
    BY <2>1 DEF OnceInv
  <2> QED
    BY <1>2, <2>2 DEF Silent
<1>5. ASSUME NEW i \in 1..Len(out'), Ends(out'[i])
      PROVE  turnOver' /\ \A j \in 1..Len(out') : j > i => out'[j].stream = <<>>
  <2>1. i + 1 \in 1..Len(out) /\ Ends(out[i + 1])
    BY <1>2, <1>5
  <2>2. turnOver /\ \A j \in 1..Len(out) : j > i + 1 => out[j].stream = <<>>
    BY <2>1 DEF OnceInv
  <2> QED
    BY <1>1, <1>2, <2>2
<1>6. \A i \in 1..Len(events') : events'[i] \in Terminal => i = Len(events')
  BY <1>1, <1>2, LineAssumption DEF OnceInv
<1>7. HasTerminal(events') => turnOver' /\ Silent'
  BY <1>1, <1>3, <1>4 DEF OnceInv, Ends
<1>8. Ended' => events' = <<>> /\ turnOver' /\ Silent'
  <2>1. Scanning /\ (Ended' => Ended)
    BY <1>1 DEF Scanning, Ended, HasTerminal
  <2> QED
    BY <1>1, <1>3, <2>1 DEF OnceInv
<1> QED
  BY <1>1, <1>5, <1>6, <1>7, <1>8 DEF OnceInv

\* An event of the current line goes to the stream, as it is or as the guard.
LEMMA EventOnce ==
  ASSUME TypeInv, OnceInv, events # <<>>, pc = "events",
         NEW e, BeginSend(e, "events"), e \in Terminal => Head(events) \in Terminal,
         events' = Tail(events), UNCHANGED <<out, turnOver, sent>>
  PROVE  OnceInv'
<1>1. /\ \A i \in 1..Len(events') : events'[i] \in Terminal => i = Len(events')
      /\ HasTerminal(events') => HasTerminal(events)
      /\ Head(events) \in Terminal => events' = <<>> /\ HasTerminal(events)
  <2>1. events \in Seq(AdapterEvents)
    BY DEF TypeInv, TypeOK
  <2>2. \A i \in 1..Len(events) : events[i] \in Terminal => i = Len(events)
    BY DEF OnceInv
  <2> QED
    BY <2>1, <2>2, TailEvents
<1>2. ~HasTerminal(sent)
  BY DEF OnceInv, Scanning, Ended
<1>3. e \in Terminal => events' = <<>> /\ turnOver /\ Silent
  BY <1>1 DEF OnceInv
<1> QED
  BY <1>1, <1>2, <1>3 DEF OnceInv, Scanning, Ended, HasTerminal, Silent, BeginSend

LEMMA SendOnce == TypeInv /\ OnceInv /\ Send => OnceInv'
<1> SUFFICES ASSUME TypeInv, OnceInv, Send PROVE OnceInv'
  OBVIOUS
<1>1. /\ sent \in Seq(StreamEvents)
      /\ sending \in StreamEvents
      /\ resume \in {"events", "drain", "typedEnd"}
  BY DEF Send, TypeInv, TypeOK, ChannelTypeOK, Control
<1>2. /\ sent' = Append(sent, sending)
      /\ pc = "send" /\ pc' = resume /\ resume' = resume
      /\ UNCHANGED <<out, turnOver, events>>
  BY DEF Send, Deliver, cliVars, scanVars
<1>3. HasTerminal(sent') <=> HasTerminal(sent) \/ sending \in Terminal
  BY <1>1, <1>2, SentGrows
<1>4. Scanning' /\ Ended' => Scanning /\ Ended
  BY <1>1, <1>2, <1>3 DEF Scanning, Ended
<1> QED
  BY <1>1, <1>2, <1>4 DEF OnceInv, Silent, HasTerminal

-----------------------------------------------------------------------------
(* The invariant.                                                          *)

LEMMA OnceInvStep ==
  ASSUME OneTurn PROVE TypeInv /\ EndInv /\ OnceInv /\ [Next]_vars => OnceInv'
<1> SUFFICES ASSUME TypeInv, EndInv, OnceInv, [Next]_vars PROVE OnceInv'
  OBVIOUS
<1>1. ASSUME UNCHANGED <<out, turnOver, events, pc, resume, sending, sent>> PROVE OnceInv'
  BY <1>1 DEF OnceInv, Scanning, Ended, HasTerminal, Silent
<1>2. ASSUME UNCHANGED <<out, turnOver, events, sent>>, pc' # "send", Scanning' => Scanning
      PROVE  OnceInv'
  BY <1>2 DEF OnceInv, Ended, HasTerminal, Silent
<1>3. ASSUME UNCHANGED <<out, turnOver, events, sent>>, ~Scanning', ~HasTerminal(sent)
      PROVE  OnceInv'
  BY <1>3 DEF OnceInv, HasTerminal, Silent
<1>4. CASE HoldTerminal
  BY <1>4, <1>1
  DEF HoldTerminal, cliVars
<1>5. CASE ReadStderr
  BY <1>5, <1>1
  DEF ReadStderr, readerRest, cliVars, scanVars, chanVars
<1>6. CASE StderrCallbackReturns
  BY <1>6, <1>1
  DEF StderrCallbackReturns, readerRest, cliVars, scanVars, chanVars
<1>7. CASE StderrEnds
  BY <1>7, <1>1
  DEF StderrEnds, readerRest, cliVars, scanVars, chanVars
<1>8. CASE HeartbeatStep
  BY <1>8, <1>1
  DEF HeartbeatStep, Heartbeat, cliVars, parserVars, chanVars, Tick, BeatProgress,
      scanVars, Beat, BeatCallbackReturns, BeatEnds
<1>9. CASE Consume
  BY <1>9, <1>1
  DEF Consume, Receive, cliVars, parserVars, scanVars
<1>10. CASE ConsumerStops
  BY <1>10, <1>1
  DEF ConsumerStops, Abandon, cliVars, parserVars, scanVars
<1>11. CASE WriteStderr
  BY <1>11, <1>1
  DEF WriteStderr, cliVars, bridgeVars, parserVars, chanVars, scanVars
<1>12. CASE StartFails
  BY <1>12, <1>2
  DEF StartFails, cliVars, scanVars, chanVars, Scanning
<1>13. CASE StartTurn
  BY <1>13, <1>2
  DEF StartTurn, Spawn, StartBeat, scanVars, chanVars, Scanning
<1>14. CASE ScanEnds
  BY <1>14, <1>2
  DEF ScanEnds, cliVars, scanVars, Scanning
<1>15. CASE EmitParsed
  BY <1>15, <1>2
  DEF EmitParsed, CallBack, cliVars, Scanning
<1>16. CASE ParsedDone
  BY <1>16, <1>2
  DEF ParsedDone, cliVars, scanVars, Scanning
<1>17. CASE CallbackReturns
  BY <1>17, <1>2
  DEF CallbackReturns, cliVars, scanVars, Scanning, TypeInv, Control
<1>18. CASE EventsDone
  BY <1>18, <1>2
  DEF EventsDone, cliVars, scanVars, Scanning
<1>19. CASE DrainStderr
  BY <1>19, <1>2
  DEF DrainStderr, cliVars, scanVars, Scanning
<1>20. CASE WaitProcess
  BY <1>20, <1>2
  DEF WaitProcess, cliVars, scanVars, Scanning
<1>21. CASE AwaitStderr
  BY <1>21, <1>2
  DEF AwaitStderr, cliVars, scanVars, Scanning
<1>22. CASE EmitHeld
  BY <1>22, <1>2
  DEF EmitHeld, CallBack, cliVars, Scanning
<1>23. CASE HeldDone
  BY <1>23, <1>2
  DEF HeldDone, cliVars, scanVars, Scanning
<1>24. CASE EmitOwnTerminal
  BY <1>24, <1>2
  DEF EmitOwnTerminal, CallBack, cliVars, scanVars, Scanning
<1>25. CASE ReportExit
  BY <1>25, <1>2
  DEF ReportExit, cliVars, scanVars, Scanning
<1>26. CASE CloseStream
  BY <1>26, <1>2
  DEF CloseStream, StopBeat, cliVars, scanVars, chanVars, Scanning
<1>27. CASE Environment
  <2>1. UNCHANGED <<events, pc, resume, sending, sent>>
    BY <1>27 DEF Environment, bridgeVars, parserVars, scanVars, chanVars
  <2>2. CASE \E l \in Lines : WriteLine(l)
    BY <2>1, <2>2, WriteLineOnce
  <2>3. CASE ~\E l \in Lines : WriteLine(l)
    <3>1. UNCHANGED <<out, turnOver>>
      BY <1>27, <2>3
      DEF Environment, CliStep, ShutStdout, Finish, Crash, Killed, Exit, Release, Cancel
    <3> QED
      BY <1>1, <2>1, <3>1
  <2> QED
    BY <2>2, <2>3
<1>28. CASE ScanLine
  BY <1>28, ScanLineOnce
<1>29. CASE ReplaceDone
  <2>1. Head(events) \in Terminal
    BY <1>29 DEF ReplaceDone, Terminal
  <2> QED
    BY <1>29, <2>1, EventOnce DEF ReplaceDone, SendGuard, cliVars
<1>30. CASE ForwardEvent
  BY <1>30, EventOnce DEF ForwardEvent, cliVars
<1>31. CASE Send
  BY <1>31, SendOnce
<1>32. CASE PostLoop
  <2>1. CASE GuardDue
    <3>1. ~HasTerminal(sent)
      BY <1>32, <2>1 DEF PostLoop, GuardDue, EndInv, Ended, Over
    <3> QED
      BY <1>3, <1>32, <2>1, <3>1 DEF PostLoop, SendGuard, BeginSend, cliVars, Scanning
  <2>2. CASE ~GuardDue
    BY <1>2, <1>32, <2>2 DEF PostLoop, cliVars, Scanning
  <2> QED
    BY <2>1, <2>2
<1>33. CASE DecideTerminal
  <2>1. CASE terminalSent
    BY <1>2, <1>33, <2>1 DEF DecideTerminal, cliVars, scanVars, Scanning
  <2>2. CASE ~terminalSent
    <3>1. ~HasTerminal(sent)
      BY <1>33, <2>2 DEF DecideTerminal, EndInv, Ended, Over
    <3> QED
      BY <1>3, <1>33, <2>2, <3>1 DEF DecideTerminal, BeginSend, cliVars, scanVars, Scanning
  <2> QED
    BY <2>1, <2>2
<1>34. CASE UNCHANGED vars
  BY <1>34, <1>1 DEF vars, cliVars, scanVars, chanVars
<1> QED
  BY <1>4, <1>5, <1>6, <1>7, <1>8, <1>9, <1>10, <1>11, <1>12, <1>13, <1>14, <1>15,
      <1>16, <1>17, <1>18, <1>19, <1>20, <1>21, <1>22, <1>23, <1>24, <1>25, <1>26,
      <1>27, <1>28, <1>29, <1>30, <1>31, <1>32, <1>33, <1>34
  DEF Next, Parser, StderrReader

LEMMA OnceInvHolds == ASSUME OneTurn PROVE Spec => []OnceInv
<1>1. Init => OnceInv
  <2> SUFFICES ASSUME Init PROVE OnceInv
    OBVIOUS
  <2>1. sent = <<>> /\ events = <<>> /\ out = <<>> /\ pc = "start" /\ Len(<<>>) = 0
    BY EmptySeq DEF Init, ChannelInit, CliInit
  <2> QED
    BY <2>1 DEF OnceInv, Scanning, Ended, HasTerminal, Silent
<1>2. TypeInv /\ EndInv /\ OnceInv /\ [Next]_vars => OnceInv'
  BY OnceInvStep
<1> QED
  BY <1>1, <1>2, TypeInvHolds, EndInvHolds, PTL DEF Spec

-----------------------------------------------------------------------------
(* The refinement.                                                         *)

\* TurnStream's vocabulary is this module's.
LEMMA SameVocabulary ==
  /\ Stream!StreamEvents = StreamEvents
  /\ Stream!HasTerminal(sent) <=> HasTerminal(sent)
  BY DEF Stream!StreamEvents, Stream!HasTerminal, Stream!Terminal, Stream!BridgeTerminals,
         Stream!AdapterEvents, StreamEvents, HasTerminal, Terminal, BridgeTerminals,
         AdapterEvents

\* A step puts one event on an open stream without a terminal, closes a stream with
\* one, or leaves both alone.
LEMMA StreamStep ==
  ASSUME TypeInv, EndInv, OnceInv, [Next]_vars
  PROVE  [Stream!Next]_(Stream!streamVars)
<1>1. CASE Send
  <2>1. /\ sending \in StreamEvents /\ sent' = Append(sent, sending)
        /\ ~Closed /\ ~Closed' /\ ~HasTerminal(sent)
    BY <1>1 DEF Send, Deliver, TypeInv, Control, OnceInv, Closed
  <2>2. Stream!Publish(sending)
    BY <2>1, SameVocabulary DEF Stream!Publish, Closed
  <2> QED
    BY <2>1, <2>2, SameVocabulary DEF Stream!Next
<1>2. CASE CloseStream
  <2>1. ~Closed /\ Closed' /\ sent' = sent /\ HasTerminal(sent)
    BY <1>2 DEF CloseStream, chanVars, EndInv, Over, Ended, Closed
  <2> QED
    BY <2>1, SameVocabulary DEF Stream!Next, Stream!Close
<1>3. ASSUME UNCHANGED <<sent, pc>> PROVE [Stream!Next]_(Stream!streamVars)
  BY <1>3 DEF Stream!streamVars, Closed
<1>4. ASSUME sent' = sent, pc # "closed", pc' # "closed" PROVE [Stream!Next]_(Stream!streamVars)
  BY <1>4 DEF Stream!streamVars, Closed
<1>5. CASE HoldTerminal
  BY <1>5, <1>3
  DEF HoldTerminal
<1>6. CASE ReadStderr
  BY <1>6, <1>3
  DEF ReadStderr, readerRest, chanVars
<1>7. CASE StderrCallbackReturns
  BY <1>7, <1>3
  DEF StderrCallbackReturns, readerRest, chanVars
<1>8. CASE StderrEnds
  BY <1>8, <1>3
  DEF StderrEnds, readerRest, chanVars
<1>9. CASE HeartbeatStep
  BY <1>9, <1>3
  DEF HeartbeatStep, Heartbeat, parserVars, chanVars, Tick, BeatProgress, Beat,
      BeatCallbackReturns, BeatEnds
<1>10. CASE Consume
  BY <1>10, <1>3
  DEF Consume, Receive, parserVars
<1>11. CASE ConsumerStops
  BY <1>11, <1>3
  DEF ConsumerStops, Abandon, parserVars
<1>12. CASE Environment
  BY <1>12, <1>3
  DEF Environment, bridgeVars, parserVars, chanVars
<1>13. CASE WriteStderr
  BY <1>13, <1>3
  DEF WriteStderr, bridgeVars, parserVars, chanVars
<1>14. CASE StartFails
  BY <1>14, <1>4
  DEF StartFails, chanVars
<1>15. CASE StartTurn
  BY <1>15, <1>4
  DEF StartTurn, Spawn, StartBeat, chanVars
<1>16. CASE ScanLine
  BY <1>16, <1>4
  DEF ScanLine
<1>17. CASE ScanEnds
  BY <1>17, <1>4
  DEF ScanEnds
<1>18. CASE EmitParsed
  BY <1>18, <1>4
  DEF EmitParsed, CallBack
<1>19. CASE ParsedDone
  BY <1>19, <1>4
  DEF ParsedDone
<1>20. CASE CallbackReturns
  BY <1>20, <1>4
  DEF CallbackReturns, TypeInv, Control
<1>21. CASE EventsDone
  BY <1>21, <1>4
  DEF EventsDone
<1>22. CASE DrainStderr
  BY <1>22, <1>4
  DEF DrainStderr
<1>23. CASE WaitProcess
  BY <1>23, <1>4
  DEF WaitProcess
<1>24. CASE AwaitStderr
  BY <1>24, <1>4
  DEF AwaitStderr
<1>25. CASE EmitHeld
  BY <1>25, <1>4
  DEF EmitHeld, CallBack
<1>26. CASE HeldDone
  BY <1>26, <1>4
  DEF HeldDone
<1>27. CASE EmitOwnTerminal
  BY <1>27, <1>4
  DEF EmitOwnTerminal, CallBack
<1>28. CASE ReportExit
  BY <1>28, <1>4
  DEF ReportExit
<1>29. CASE ReplaceDone
  BY <1>29, <1>4
  DEF ReplaceDone, SendGuard, BeginSend
<1>30. CASE ForwardEvent
  BY <1>30, <1>4
  DEF ForwardEvent, BeginSend
<1>31. CASE PostLoop
  BY <1>31, <1>4
  DEF PostLoop, SendGuard, BeginSend
<1>32. CASE DecideTerminal
  BY <1>32, <1>4
  DEF DecideTerminal, BeginSend, OwnTerminal
<1>33. CASE UNCHANGED vars
  BY <1>33, <1>3 DEF vars, chanVars
<1> QED
  BY <1>1, <1>2, <1>5, <1>6, <1>7, <1>8, <1>9, <1>10, <1>11, <1>12, <1>13, <1>14,
      <1>15, <1>16, <1>17, <1>18, <1>19, <1>20, <1>21, <1>22, <1>23, <1>24, <1>25,
      <1>26, <1>27, <1>28, <1>29, <1>30, <1>31, <1>32, <1>33
  DEF Next, Parser, StderrReader

\* The contract of subprocess.go:251: with a CLI that reports the end of its turn once,
\* every turn's stream is events, then exactly one terminal, then close, whatever mix
\* of guard, adapter terminal, cancellation, crash and exit status happens.
THEOREM BridgeImplementsStream == ASSUME OneTurn PROVE Spec => StreamContract
<1>1. Init => Stream!Init
  BY DEF Init, ChannelInit, Stream!Init, Closed
<1>2. TypeInv /\ EndInv /\ OnceInv /\ [Next]_vars => [Stream!Next]_(Stream!streamVars)
  BY StreamStep
<1> QED
  BY <1>1, <1>2, TypeInvHolds, EndInvHolds, OnceInvHolds, PTL
  DEF Spec, StreamContract, Stream!Spec
=============================================================================
