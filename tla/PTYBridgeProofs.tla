-------------------------- MODULE PTYBridgeProofs ---------------------------
(***************************************************************************)
(* Theorems about PTYBridge, for every value of its constants: what it     *)
(* sends and emits, that its own terminals come first, and that it         *)
(* implements TurnStream for a CLI that reports the end of its turn once.  *)
(***************************************************************************)
EXTENDS PTYBridge, TurnLemmas

-----------------------------------------------------------------------------
(* Type correctness.                                                       *)

\* Where the parser goroutine may be inside a send or a callback, and what it must
\* hold there for its next step to be well typed.
Control ==
  /\ pc = "send" => /\ sending \in StreamEvents
                    /\ resume \in {"events", "guardedLine", "guardedEnd", "typedEnd"}
  /\ pc = "callback" => resume \in {"parsed", "events", "wait", "reap"}
  /\ pc = "typedEnd" => sent # <<>>

TypeInv == TypeOK /\ Control

LEMMA ScanLineTypes == TypeInv /\ ScanLine => TypeInv'
<1> SUFFICES ASSUME TypeInv, ScanLine PROVE TypeInv'
  OBVIOUS
<1>1. Head(out) \in Lines /\ Tail(out) \in Seq(Lines)
  BY HeadTailProperties DEF ScanLine, TypeInv, TypeOK, CliTypeOK
<1>2. events' \in Seq(AdapterEvents) /\ typed' \in Seq(AdapterEvents)
  <2>1. Head(out).stream \in Seq(AdapterEvents) /\ TypedOf(Head(out)) \in Seq(AdapterEvents)
    BY <1>1, LineTypes
  <2>2. events' \in {events, Head(out).stream} /\ typed' \in {typed, TypedOf(Head(out)), <<>>}
    BY DEF ScanLine
  <2>3. events \in Seq(AdapterEvents) /\ typed \in Seq(AdapterEvents)
    BY DEF TypeInv, TypeOK
  <2> QED
    BY <2>1, <2>2, <2>3, EmptySeq
<1> QED
  BY <1>1, <1>2
  DEF ScanLine, elsewhere, beatVars, procVars, TypeInv, TypeOK, Control, CliTypeOK,
      ChannelTypeOK, TypedTypeOK, Labels

\* A call of the typed callback, wherever the parser goroutine makes it.
LEMMA CallBackTypes ==
  ASSUME TypeInv, NEW e \in TypedEvents, NEW next \in {"parsed", "events", "wait", "reap"},
         CallBack(e, next), typed' \in Seq(AdapterEvents),
         UNCHANGED <<cliVars, sending, events, seenDelta, seenToolUse, terminalSent,
                     procVars, sent, elsewhere>>
  PROVE  TypeInv'
<1>1. typedLog' \in Seq(TypedEvents)
  BY AppendProperties DEF CallBack, TypeInv, TypeOK, TypedTypeOK
<1> QED
  BY <1>1
  DEF CallBack, cliVars, procVars, elsewhere, beatVars, TypeInv, TypeOK, Control,
      CliTypeOK, ChannelTypeOK, TypedTypeOK, Labels

LEMMA TypeInvStep == TypeInv /\ [Next]_vars => TypeInv'
<1> SUFFICES ASSUME TypeInv, [Next]_vars PROVE TypeInv'
  OBVIOUS
<1>1. CASE StartFails
  BY <1>1
  DEF StartFails, cliVars, scanVars, procVars, beatVars, chanVars, TypeInv, TypeOK,
      Control, CliTypeOK, ChannelTypeOK, TypedTypeOK, Labels
<1>2. CASE StartTurn
  BY <1>2
  DEF StartTurn, Spawn, StartBeat, scanVars, chanVars, TypeInv, TypeOK, Control,
      CliTypeOK, ChannelTypeOK, TypedTypeOK, Labels
<1>3. CASE ScanLine
  BY <1>3, ScanLineTypes
<1>4. CASE ScanEnds
  BY <1>4
  DEF ScanEnds, cliVars, scanVars, procVars, elsewhere, beatVars, TypeInv, TypeOK,
      Control, CliTypeOK, ChannelTypeOK, TypedTypeOK, Labels
<1>5. CASE EmitParsed
  <2>1. Head(typed) \in TypedEvents /\ typed' \in Seq(AdapterEvents)
    BY <1>5, HeadTailProperties, EventKinds DEF EmitParsed, TypeInv, TypeOK
  <2> QED
    BY <1>5, <2>1, CallBackTypes DEF EmitParsed
<1>6. CASE ParsedDone
  BY <1>6
  DEF ParsedDone, cliVars, scanVars, procVars, elsewhere, beatVars, TypeInv, TypeOK,
      Control, CliTypeOK, ChannelTypeOK, TypedTypeOK, Labels
<1>7. CASE CallbackReturns
  BY <1>7
  DEF CallbackReturns, cliVars, scanVars, procVars, elsewhere, beatVars, TypeInv,
      TypeOK, Control, CliTypeOK, ChannelTypeOK, TypedTypeOK, Labels
<1>8. CASE ReplaceDone
  <2>1. events' \in Seq(AdapterEvents)
    BY <1>8, HeadTailProperties DEF ReplaceDone, TypeInv, TypeOK
  <2> QED
    BY <1>8, <2>1
    DEF ReplaceDone, SendGuard, BeginSend, cliVars, procVars, elsewhere, beatVars,
        StreamEvents, BridgeTerminals, TypeInv, TypeOK, Control, CliTypeOK,
        ChannelTypeOK, TypedTypeOK, Labels
<1>9. CASE EmitGuard
  <2>1. CASE HasTyped
    <3>1. "guard" \in TypedEvents
      BY DEF TypedEvents, StreamEvents, BridgeTerminals
    <3>2. typed' \in Seq(AdapterEvents)
      BY <1>9 DEF EmitGuard, scanVars, TypeInv, TypeOK
    <3>3. \E next \in {"parsed", "events", "wait", "reap"} : CallBack("guard", next)
      BY <1>9, <2>1 DEF EmitGuard
    <3> QED
      BY <1>9, <3>1, <3>2, <3>3, CallBackTypes DEF EmitGuard, scanVars
  <2>2. CASE ~HasTyped
    BY <1>9, <2>2
    DEF EmitGuard, cliVars, scanVars, procVars, elsewhere, beatVars, TypeInv, TypeOK,
        Control, CliTypeOK, ChannelTypeOK, TypedTypeOK, Labels
  <2> QED
    BY <2>1, <2>2
<1>10. CASE ForwardEvent
  <2>1. Head(events) \in AdapterEvents /\ events' \in Seq(AdapterEvents)
    BY <1>10, HeadTailProperties DEF ForwardEvent, TypeInv, TypeOK
  <2> QED
    BY <1>10, <2>1, EventKinds
    DEF ForwardEvent, BeginSend, cliVars, procVars, elsewhere, beatVars, TypeInv,
        TypeOK, Control, CliTypeOK, ChannelTypeOK, TypedTypeOK, Labels
<1>11. CASE EventsDone
  BY <1>11
  DEF EventsDone, cliVars, scanVars, procVars, elsewhere, beatVars, TypeInv, TypeOK,
      Control, CliTypeOK, ChannelTypeOK, TypedTypeOK, Labels
<1>12. CASE Send
  <2>1. ChannelTypeOK' /\ sent' # <<>>
    BY <1>12, DeliverTypes DEF Send, TypeInv, TypeOK, Control
  <2> QED
    BY <1>12, <2>1
    DEF Send, cliVars, scanVars, procVars, beatVars, TypeInv, TypeOK, Control,
        CliTypeOK, TypedTypeOK, Labels
<1>13. CASE PostLoop
  <2>1. CASE GuardDue
    BY <1>13, <2>1
    DEF PostLoop, SendGuard, BeginSend, cliVars, procVars, elsewhere, beatVars,
        StreamEvents, BridgeTerminals, TypeInv, TypeOK, Control, CliTypeOK,
        ChannelTypeOK, TypedTypeOK, Labels
  <2>2. CASE ~GuardDue
    BY <1>13, <2>2
    DEF PostLoop, cliVars, procVars, elsewhere, beatVars, TypeInv, TypeOK, Control,
        CliTypeOK, ChannelTypeOK, TypedTypeOK, Labels
  <2> QED
    BY <2>1, <2>2
<1>14. CASE WaitProcess
  <2>1. waitFailed' \in BOOLEAN
    BY <1>14 DEF WaitProcess
  <2> QED
    BY <1>14, <2>1
    DEF WaitProcess, cliVars, scanVars, elsewhere, beatVars, TypeInv, TypeOK, Control,
        CliTypeOK, ChannelTypeOK, TypedTypeOK, Labels
<1>15. CASE DecideTerminal
  BY <1>15
  DEF DecideTerminal, BeginSend, OwnTerminal, cliVars, scanVars, procVars, elsewhere,
      beatVars, StreamEvents, BridgeTerminals, TypeInv, TypeOK, Control, CliTypeOK,
      ChannelTypeOK, TypedTypeOK, Labels
<1>16. CASE EmitOwnTerminal
  <2>1. CASE HasTyped
    <3>1. sent \in Seq(StreamEvents) /\ sent # <<>>
      BY <1>16 DEF EmitOwnTerminal, TypeInv, TypeOK, Control, ChannelTypeOK
    <3>2. Len(sent) \in 1..Len(sent)
      BY <3>1, EmptySeq, LenProperties
    <3>3. sent[Len(sent)] \in TypedEvents
      BY <3>1, <3>2, ElementOfSeq, EventKinds
    <3>4. typed' \in Seq(AdapterEvents)
      BY <1>16 DEF EmitOwnTerminal, scanVars, TypeInv, TypeOK
    <3> QED
      BY <1>16, <2>1, <3>3, <3>4, CallBackTypes DEF EmitOwnTerminal, scanVars
  <2>2. CASE ~HasTyped
    BY <1>16, <2>2
    DEF EmitOwnTerminal, cliVars, scanVars, procVars, elsewhere, beatVars, TypeInv,
        TypeOK, Control, CliTypeOK, ChannelTypeOK, TypedTypeOK, Labels
  <2> QED
    BY <2>1, <2>2
<1>17. CASE ReportExit
  BY <1>17
  DEF ReportExit, cliVars, scanVars, elsewhere, beatVars, TypeInv, TypeOK, Control,
      CliTypeOK, ChannelTypeOK, TypedTypeOK, Labels
<1>18. CASE CloseStream
  BY <1>18
  DEF CloseStream, StopBeat, cliVars, scanVars, procVars, chanVars, TypeInv, TypeOK,
      Control, CliTypeOK, ChannelTypeOK, TypedTypeOK, Labels
<1>19. CASE HeartbeatStep
  <2>1. TypedTypeOK'
    BY <1>19, BeatTypes DEF HeartbeatStep, TypeInv, TypeOK
  <2> QED
    BY <1>19, <2>1
    DEF HeartbeatStep, cliVars, parserVars, scanVars, procVars, chanVars, TypeInv,
        TypeOK, Control, CliTypeOK, ChannelTypeOK, Labels
<1>20. CASE Consume
  BY <1>20
  DEF Consume, Receive, cliVars, parserVars, scanVars, procVars, beatVars, TypeInv,
      TypeOK, Control, CliTypeOK, ChannelTypeOK, TypedTypeOK, Labels
<1>21. CASE ConsumerStops
  BY <1>21
  DEF ConsumerStops, Abandon, cliVars, parserVars, scanVars, procVars, beatVars,
      TypeInv, TypeOK, Control, CliTypeOK, ChannelTypeOK, TypedTypeOK, Labels
<1>22. CASE Environment
  <2>1. CliTypeOK'
    BY <1>22, CliStepTypes DEF Environment, TypeInv, TypeOK
  <2> QED
    BY <1>22, <2>1
    DEF Environment, parserVars, scanVars, procVars, beatVars, chanVars, TypeInv,
        TypeOK, Control, ChannelTypeOK, TypedTypeOK, Labels
<1>23. CASE UNCHANGED vars
  BY <1>23
  DEF vars, cliVars, scanVars, procVars, beatVars, chanVars, TypeInv, TypeOK, Control,
      CliTypeOK, ChannelTypeOK, TypedTypeOK, Labels
<1> QED
  BY <1>1, <1>2, <1>3, <1>4, <1>5, <1>6, <1>7, <1>8, <1>9, <1>10, <1>11, <1>12, <1>13,
      <1>14, <1>15, <1>16, <1>17, <1>18, <1>19, <1>20, <1>21, <1>22, <1>23
  DEF Next, Parser

\* The inductive invariant behind type correctness holds throughout.
LEMMA TypeInvHolds == Spec => []TypeInv
<1>1. Init => TypeInv
  <2> SUFFICES ASSUME Init PROVE TypeInv
    OBVIOUS
  <2>1. CliTypeOK /\ ChannelTypeOK /\ TypedTypeOK
    BY InitTypes DEF Init
  <2>2. events \in Seq(AdapterEvents) /\ typed \in Seq(AdapterEvents)
    BY EmptySeq DEF Init
  <2> QED
    BY <2>1, <2>2 DEF Init, TypeInv, TypeOK, Control, Labels
<1>2. TypeInv /\ [Next]_vars => TypeInv'
  BY TypeInvStep
<1> QED
  BY <1>1, <1>2, PTL DEF Spec

\* Every variable of the PTY bridge keeps its type: no step sends or emits what is not
\* an event of its surface, and the terminal switch of pty.go always has an event of
\* its own on the stream to repeat on the typed surface.
THEOREM PTYTypeCorrect == Spec => []TypeOK
  BY TypeInvHolds, PTL DEF TypeInv

-----------------------------------------------------------------------------
(* The end of the turn.                                                    *)

\* The bridge has said, or is saying, its own terminal, or has decided that it
\* need not.
Over ==
  \/ pc \in {"typedEnd", "reap", "defers", "closed"}
  \/ pc = "callback" /\ resume = "reap"
  \/ pc = "send" /\ resume = "typedEnd"

\* A terminal is on the stream or about to be.
Ended == HasTerminal(sent) \/ (pc = "send" /\ sending \in Terminal)

\* terminalSent tells exactly whether the turn has ended, until the bridge ends it
\* itself; and a terminal of the bridge's own finds no other on the stream.
EndInv ==
  /\ terminalSent => Ended
  /\ Ended => terminalSent \/ Over
  /\ Over => Ended
  /\ pc = "send" /\ sending \in BridgeTerminals => ~HasTerminal(sent)
  /\ BridgeTerminalIsFirst

LEMMA EndInvStep == TypeInv /\ EndInv /\ [Next]_vars => EndInv'
<1> SUFFICES ASSUME TypeInv, EndInv, [Next]_vars PROVE EndInv'
  OBVIOUS
<1>1. ASSUME UNCHANGED <<pc, resume, sending, sent, terminalSent>> PROVE EndInv'
  BY <1>1 DEF EndInv, Ended, Over, HasTerminal, BridgeTerminalIsFirst
<1>2. ASSUME UNCHANGED <<sent, terminalSent>>, pc # "send", pc' # "send", Over' <=> Over
      PROVE  EndInv'
  BY <1>2 DEF EndInv, Ended, HasTerminal, BridgeTerminalIsFirst
<1>3. ASSUME NEW e \in StreamEvents, NEW next, BeginSend(e, next), pc # "send", sent' = sent,
             next # "typedEnd" => ~Over,
             e \in BridgeTerminals => ~HasTerminal(sent),
             terminalSent' <=> (terminalSent \/ (e \in Terminal /\ next # "typedEnd")),
             next = "typedEnd" => e \in Terminal
      PROVE  EndInv'
  BY <1>3, EventKinds DEF EndInv, Ended, Over, HasTerminal, BridgeTerminalIsFirst, BeginSend
<1>4. ASSUME NEW next \in {"guardedLine", "guardedEnd"}, SendGuard(next), GuardDue,
             pc \in {"events", "postloop"}, sent' = sent
      PROVE  EndInv'
  <2>1. BeginSend("guard", next) /\ ~terminalSent /\ terminalSent' = TRUE
    BY <1>4 DEF SendGuard, GuardDue
  <2>2. ~Over /\ ~HasTerminal(sent)
    BY <1>4, <2>1 DEF EndInv, Ended, Over
  <2> QED
    BY <1>3, <1>4, <2>1, <2>2 DEF BridgeTerminals, Terminal, StreamEvents
<1>5. CASE StartFails
  BY <1>5, <1>2 DEF StartFails, scanVars, chanVars, Over
<1>6. CASE StartTurn
  BY <1>6, <1>2 DEF StartTurn, Spawn, StartBeat, scanVars, chanVars, Over
<1>7. CASE ScanLine
  BY <1>7, <1>2 DEF ScanLine, Over
<1>8. CASE ScanEnds
  BY <1>8, <1>2 DEF ScanEnds, scanVars, Over
<1>9. CASE EmitParsed
  BY <1>9, <1>2 DEF EmitParsed, CallBack, Over
<1>10. CASE ParsedDone
  BY <1>10, <1>2 DEF ParsedDone, scanVars, Over
<1>11. CASE CallbackReturns
  BY <1>11, <1>2 DEF CallbackReturns, scanVars, Over, TypeInv, Control
<1>12. CASE ReplaceDone
  BY <1>12, <1>4 DEF ReplaceDone
<1>13. CASE EmitGuard
  BY <1>13, <1>2 DEF EmitGuard, CallBack, scanVars, Over
<1>14. CASE ForwardEvent
  <2>1. Head(events) \in AdapterEvents
    BY <1>14, HeadTailProperties DEF ForwardEvent, TypeInv, TypeOK
  <2>2. /\ BeginSend(Head(events), "events") /\ pc = "events" /\ sent' = sent
        /\ terminalSent' = (terminalSent \/ Head(events) \in {"done", "error"})
    BY <1>14 DEF ForwardEvent
  <2>3. /\ Head(events) \in StreamEvents \ BridgeTerminals
        /\ Head(events) \in {"done", "error"} <=> Head(events) \in Terminal
    BY <2>1 DEF AdapterEvents, BridgeTerminals, StreamEvents, Terminal
  <2>4. ~Over
    BY <2>2 DEF Over
  <2> QED
    BY <2>2, <2>3, <2>4, <1>3
<1>15. CASE EventsDone
  BY <1>15, <1>2 DEF EventsDone, scanVars, Over
<1>16. CASE Send
  <2>1. /\ sent \in Seq(StreamEvents) /\ sending \in StreamEvents
        /\ resume \in {"events", "guardedLine", "guardedEnd", "typedEnd"}
    BY <1>16 DEF Send, TypeInv, TypeOK, ChannelTypeOK, Control
  <2>2. /\ sent' = Append(sent, sending)
        /\ pc = "send" /\ pc' = resume /\ resume' = resume /\ terminalSent' = terminalSent
    BY <1>16 DEF Send, Deliver, scanVars
  <2>3. HasTerminal(sent') <=> HasTerminal(sent) \/ sending \in Terminal
    BY <2>1, <2>2, SentGrows
  <2>4. BridgeTerminalIsFirst'
    <3>1. /\ Len(sent) \in Nat
          /\ Len(sent') = Len(sent) + 1
          /\ \A i \in 1..Len(sent) : sent'[i] = sent[i]
          /\ sent'[Len(sent) + 1] = sending
      BY <2>1, <2>2, AppendProperties, LenProperties
    <3>2. sending \in BridgeTerminals => \A i \in 1..Len(sent) : sent[i] \notin Terminal
      BY <2>2 DEF EndInv, HasTerminal
    <3>3. BridgeTerminalIsFirst
      BY DEF EndInv
    <3> QED
      BY <3>1, <3>2, <3>3 DEF BridgeTerminalIsFirst
  <2> QED
    BY <2>1, <2>2, <2>3, <2>4 DEF EndInv, Ended, Over
<1>17. CASE PostLoop
  <2>1. CASE GuardDue
    BY <1>17, <2>1, <1>4 DEF PostLoop
  <2>2. CASE ~GuardDue
    BY <1>17, <2>2, <1>2 DEF PostLoop, Over
  <2> QED
    BY <2>1, <2>2
<1>18. CASE WaitProcess
  BY <1>18, <1>2 DEF WaitProcess, scanVars, Over
<1>19. CASE DecideTerminal
  <2>1. CASE terminalSent
    BY <1>19, <2>1 DEF DecideTerminal, scanVars, EndInv, Ended, Over, HasTerminal, BridgeTerminalIsFirst
  <2>2. CASE ~terminalSent
    <3>1. BeginSend(OwnTerminal, "typedEnd") /\ pc = "terminal" /\ sent' = sent /\ terminalSent' = terminalSent
      BY <1>19, <2>2 DEF DecideTerminal, scanVars
    <3>2. OwnTerminal \in BridgeTerminals
      BY DEF OwnTerminal, BridgeTerminals
    <3>3. ~HasTerminal(sent)
      BY <2>2, <3>1 DEF EndInv, Ended, Over
    <3> QED
      BY <2>2, <3>1, <3>2, <3>3, EventKinds, <1>3
  <2> QED
    BY <2>1, <2>2
<1>20. CASE EmitOwnTerminal
  BY <1>20, <1>2 DEF EmitOwnTerminal, CallBack, scanVars, Over
<1>21. CASE ReportExit
  BY <1>21, <1>2 DEF ReportExit, scanVars, Over
<1>22. CASE CloseStream
  BY <1>22, <1>2 DEF CloseStream, StopBeat, scanVars, chanVars, Over
<1>23. CASE HeartbeatStep
  BY <1>23, <1>1
  DEF HeartbeatStep, Heartbeat, parserVars, chanVars, Tick, BeatProgress, scanVars,
      Beat, BeatCallbackReturns, BeatEnds
<1>24. CASE Consume
  BY <1>24, <1>1 DEF Consume, Receive, parserVars, scanVars
<1>25. CASE ConsumerStops
  BY <1>25, <1>1 DEF ConsumerStops, Abandon, parserVars, scanVars
<1>26. CASE Environment
  BY <1>26, <1>1 DEF Environment, parserVars, chanVars, scanVars
<1>27. CASE UNCHANGED vars
  BY <1>27, <1>1 DEF vars, scanVars, chanVars
<1> QED
  BY <1>5, <1>6, <1>7, <1>8, <1>9, <1>10, <1>11, <1>12, <1>13, <1>14, <1>15, <1>16,
      <1>17, <1>18, <1>19, <1>20, <1>21, <1>22, <1>23, <1>24, <1>25, <1>26, <1>27
  DEF Next, Parser

LEMMA EndInvHolds == Spec => []EndInv
<1>1. Init => EndInv
  <2> SUFFICES ASSUME Init PROVE EndInv
    OBVIOUS
  <2>1. sent = <<>> /\ pc = "start" /\ terminalSent = FALSE /\ Len(sent) = 0
    BY EmptySeq DEF Init, ChannelInit
  <2> QED
    BY <2>1 DEF EndInv, Ended, Over, HasTerminal, BridgeTerminalIsFirst
<1>2. TypeInv /\ EndInv /\ [Next]_vars => EndInv'
  BY EndInvStep
<1> QED
  BY <1>1, <1>2, TypeInvHolds, PTL DEF Spec

\* On a pseudo-terminal too, a terminal of the bridge's own never follows another
\* terminal of the turn, whatever lines the CLI and its stderr write.
THEOREM PTYTerminalFirst == Spec => []BridgeTerminalIsFirst
  BY EndInvHolds, PTL DEF EndInv

-----------------------------------------------------------------------------
(* A success made up by the bridge.                                        *)

\* At the switch the process is gone, and the wait has told a failed one apart.
WaitInv == pc = "terminal" => child = "exited" /\ (waitFailed \/ exitOk)

LEMMA WaitInvStep == TypeInv /\ WaitInv /\ [Next]_vars => WaitInv'
<1> SUFFICES ASSUME TypeInv, WaitInv, [Next]_vars PROVE WaitInv'
  OBVIOUS
<1>1. ASSUME pc' # "terminal" PROVE WaitInv'
  BY <1>1 DEF WaitInv
<1>2. ASSUME UNCHANGED <<pc, waitFailed>>,
             child = "exited" => child' = "exited" /\ exitOk' = exitOk
      PROVE  WaitInv'
  BY <1>2 DEF WaitInv
<1>3. CASE WaitProcess
  BY <1>3 DEF WaitProcess, cliVars, WaitInv, TypeInv, TypeOK, CliTypeOK
<1>4. CASE CallbackReturns
  BY <1>1, <1>4 DEF CallbackReturns, TypeInv, Control
<1>5. CASE Send
  BY <1>1, <1>5 DEF Send, TypeInv, Control
<1>6. CASE StartFails \/ StartTurn \/ ScanLine \/ ScanEnds \/ EmitParsed \/ ParsedDone
  <2>1. CASE ScanLine
    BY <1>1, <2>1 DEF ScanLine
  <2>2. CASE StartFails \/ StartTurn \/ ScanEnds \/ EmitParsed \/ ParsedDone
    BY <1>1, <2>2 DEF StartFails, StartTurn, ScanEnds, EmitParsed, CallBack, ParsedDone
  <2> QED
    BY <1>6, <2>1, <2>2
<1>7. CASE ReplaceDone \/ ForwardEvent \/ PostLoop
  BY <1>1, <1>7 DEF ReplaceDone, ForwardEvent, PostLoop, SendGuard, BeginSend
<1>8. CASE EmitGuard \/ EventsDone \/ DecideTerminal \/ EmitOwnTerminal
  BY <1>1, <1>8
  DEF EmitGuard, EventsDone, DecideTerminal, EmitOwnTerminal, CallBack, BeginSend
<1>9. CASE ReportExit \/ CloseStream
  BY <1>1, <1>9 DEF ReportExit, CloseStream
<1>10. CASE HeartbeatStep \/ Consume \/ ConsumerStops
  BY <1>2, <1>10
  DEF HeartbeatStep, Consume, Receive, ConsumerStops, Abandon, cliVars, parserVars, procVars
<1>11. CASE Environment
  BY <1>2, <1>11
  DEF Environment, parserVars, procVars, CliStep, WriteLine, ShutStdout, Finish, Crash,
      Killed, Exit, Release, Cancel
<1>12. CASE UNCHANGED vars
  BY <1>2, <1>12 DEF vars, cliVars, procVars
<1> QED
  BY <1>3, <1>4, <1>5, <1>6, <1>7, <1>8, <1>9, <1>10, <1>11, <1>12 DEF Next, Parser

LEMMA WaitInvHolds == Spec => []WaitInv
<1>1. Init => WaitInv
  BY DEF Init, WaitInv
<1>2. TypeInv /\ WaitInv /\ [Next]_vars => WaitInv'
  BY WaitInvStep
<1> QED
  BY <1>1, <1>2, TypeInvHolds, PTL DEF Spec

\* Only DecideTerminal puts the success of the bridge's own on its way.
LEMMA DecisionStep ==
  ASSUME TypeInv, [Next]_vars, DecidesOnSuccess
  PROVE  DecideTerminal
<1>1. ASSUME UNCHANGED sending PROVE FALSE
  BY <1>1 DEF DecidesOnSuccess
<1>2. ASSUME sending' # "end" PROVE FALSE
  BY <1>2 DEF DecidesOnSuccess
<1>3. CASE ReplaceDone
  BY <1>2, <1>3 DEF ReplaceDone, SendGuard, BeginSend
<1>4. CASE PostLoop
  <2>1. CASE GuardDue
    BY <1>2, <1>4, <2>1 DEF PostLoop, SendGuard, BeginSend
  <2>2. CASE ~GuardDue
    BY <1>1, <1>4, <2>2 DEF PostLoop
  <2> QED
    BY <2>1, <2>2
<1>5. CASE ForwardEvent
  <2>1. Head(events) \in AdapterEvents
    BY <1>5, HeadTailProperties DEF ForwardEvent, TypeInv, TypeOK
  <2>2. Head(events) # "end"
    BY <2>1 DEF AdapterEvents
  <2> QED
    BY <1>2, <1>5, <2>2 DEF ForwardEvent, BeginSend
<1>6. CASE Send
  BY <1>2, <1>6 DEF Send, Deliver, None
<1>7. CASE StartFails \/ StartTurn \/ ScanLine \/ ScanEnds \/ EmitParsed \/ ParsedDone
  BY <1>1, <1>7 DEF StartFails, StartTurn, ScanLine, ScanEnds, EmitParsed, ParsedDone
<1>8. CASE CallbackReturns \/ EmitGuard \/ EventsDone \/ WaitProcess
  BY <1>1, <1>8 DEF CallbackReturns, EmitGuard, EventsDone, WaitProcess
<1>9. CASE EmitOwnTerminal \/ ReportExit \/ CloseStream
  BY <1>1, <1>9 DEF EmitOwnTerminal, ReportExit, CloseStream
<1>10. CASE HeartbeatStep \/ Consume \/ ConsumerStops \/ Environment
  BY <1>1, <1>10
  DEF HeartbeatStep, Consume, Receive, ConsumerStops, Abandon, Environment
<1>11. CASE UNCHANGED vars
  BY <1>1, <1>11 DEF vars
<1> QED
  BY <1>3, <1>4, <1>5, <1>6, <1>7, <1>8, <1>9, <1>10, <1>11 DEF Next, Parser

\* Under a PTY too, a Done the bridge makes up means the CLI ended by itself with
\* status 0: it has been waited for, has not failed, and nobody has told it to stop.
THEOREM PTYOwnSuccess == Spec => OwnSuccessIsReal
<1>1. ASSUME TypeInv, WaitInv, [Next]_vars, DecidesOnSuccess
      PROVE  child = "exited" /\ exitOk /\ ~cancelled
  <2>1. DecideTerminal
    BY <1>1, DecisionStep
  <2>2. child = "exited" /\ (waitFailed \/ exitOk)
    BY <1>1, <2>1 DEF DecideTerminal, WaitInv
  <2>3. ~terminalSent /\ sending' = OwnTerminal
    BY <1>1, <2>1 DEF DecideTerminal, BeginSend, DecidesOnSuccess
  <2>4. ~cancelled /\ ~waitFailed
    BY <1>1, <2>3 DEF OwnTerminal, DecidesOnSuccess
  <2> QED
    BY <2>2, <2>4
<1>2. TypeInv /\ WaitInv /\ [Next]_vars
        => [DecidesOnSuccess => child = "exited" /\ exitOk /\ ~cancelled]_sending
  BY <1>1
<1> QED
  BY <1>2, TypeInvHolds, WaitInvHolds, PTL DEF Spec, OwnSuccessIsReal

-----------------------------------------------------------------------------
(* A CLI that ends its turn once.                                          *)

\* Nothing in the terminal's buffer carries a stream event.
Silent == \A i \in 1..Len(out) : out[i].stream = <<>>

\* Lines are still being read and forwarded.
Scanning ==
  \/ pc \in {"start", "scan", "parsed", "events", "guardedLine"}
  \/ pc = "callback" /\ resume \in {"parsed", "events"}
  \/ pc = "send" /\ resume \in {"events", "guardedLine"}

\* The end of the turn travels from the CLI through the terminal and the events of
\* the current line to the stream, and nothing comes after it at any of these places.
OnceInv ==
  /\ \A i \in 1..Len(out) : Ends(out[i]) =>
       turnOver /\ \A j \in 1..Len(out) : j > i => out[j].stream = <<>>
  /\ \A i \in 1..Len(events) : events[i] \in Terminal => i = Len(events)
  /\ HasTerminal(events) => turnOver /\ Silent
  /\ Scanning /\ Ended => events = <<>> /\ turnOver /\ Silent
  /\ pc = "send" => ~HasTerminal(sent)

LEMMA WriteLineOnce ==
  ASSUME TypeInv, OnceInv, OneTurn, NEW l \in Lines, WriteLine(l),
         UNCHANGED <<events, pc, resume, sending, sent>>
  PROVE  OnceInv'
<1>1. out \in Seq(Lines) /\ out' = Append(out, l) /\ (turnOver => Quiet(l))
      /\ turnOver' = (turnOver \/ Ends(l)) /\ turnOver \in BOOLEAN
  BY DEF WriteLine, TypeInv, TypeOK, CliTypeOK
<1>2. /\ Len(out) \in Nat /\ Len(out') = Len(out) + 1
      /\ \A i \in 1..Len(out) : out'[i] = out[i]
      /\ out'[Len(out) + 1] = l
  BY <1>1, PipeGrows
<1>3. \A i \in 1..Len(out') : i \in 1..Len(out) \/ i = Len(out) + 1
  BY <1>2
<1>4. turnOver /\ Silent => Silent'
  BY <1>1, <1>2, <1>3 DEF Silent, Quiet
<1>5. ASSUME NEW i \in 1..Len(out'), Ends(out'[i])
      PROVE  turnOver' /\ \A j \in 1..Len(out') : j > i => out'[j].stream = <<>>
  <2>1. CASE i \in 1..Len(out)
    <3>1. turnOver /\ \A j \in 1..Len(out) : j > i => out[j].stream = <<>>
      BY <1>2, <1>5, <2>1 DEF OnceInv
    <3>2. l.stream = <<>>
      BY <1>1, <3>1 DEF Quiet
    <3> QED
      BY <1>1, <1>2, <1>3, <3>1, <3>2
  <2>2. CASE i = Len(out) + 1
    <3>1. Ends(l)
      BY <1>2, <1>5, <2>2
    <3>2. \A j \in 1..Len(out') : ~(j > i)
      BY <1>2, <2>2
    <3> QED
      BY <1>1, <3>1, <3>2
  <2> QED
    BY <1>3, <2>1, <2>2
<1>6. Scanning' = Scanning /\ Ended' = Ended
  BY DEF Scanning, Ended, HasTerminal
<1> QED
  BY <1>1, <1>4, <1>5, <1>6 DEF OnceInv, HasTerminal

LEMMA ScanLineOnce == TypeInv /\ OnceInv /\ ScanLine => OnceInv'
<1> SUFFICES ASSUME TypeInv, OnceInv, ScanLine PROVE OnceInv'
  OBVIOUS
<1>1. /\ out \in Seq(Lines) /\ out # <<>> /\ out' = Tail(out)
      /\ turnOver' = turnOver /\ sent' = sent /\ pc = "scan"
      /\ \/ pc' = pc /\ events' = events
         \/ pc' = "parsed" /\ events' = Head(out).stream
  BY DEF ScanLine, TypeInv, TypeOK, CliTypeOK
<1>2. /\ Len(out) \in Nat /\ Len(out) >= 1
      /\ Len(out') = Len(out) - 1
      /\ \A i \in 1..Len(out') : out'[i] = out[i + 1]
      /\ Head(out) = out[1] /\ Head(out) \in Lines
  BY <1>1, PipeShrinks
<1>3. Silent => Silent' /\ Head(out).stream = <<>>
  BY <1>2 DEF Silent
<1>4. Ends(Head(out)) => turnOver /\ Silent'
  <2> SUFFICES ASSUME Ends(Head(out)) PROVE turnOver /\ Silent'
    OBVIOUS
  <2>1. 1 \in 1..Len(out) /\ Ends(out[1])
    BY <1>2
  <2>2. turnOver /\ \A j \in 1..Len(out) : j > 1 => out[j].stream = <<>>
    BY <2>1 DEF OnceInv
  <2> QED
    BY <1>2, <2>2 DEF Silent
<1>5. ASSUME NEW i \in 1..Len(out'), Ends(out'[i])
      PROVE  turnOver' /\ \A j \in 1..Len(out') : j > i => out'[j].stream = <<>>
  <2>1. i + 1 \in 1..Len(out) /\ Ends(out[i + 1])
    BY <1>2, <1>5
  <2>2. turnOver /\ \A j \in 1..Len(out) : j > i + 1 => out[j].stream = <<>>
    BY <2>1 DEF OnceInv
  <2> QED
    BY <1>1, <1>2, <2>2
<1>6. \A i \in 1..Len(events') : events'[i] \in Terminal => i = Len(events')
  BY <1>1, <1>2, LineAssumption DEF OnceInv
<1>7. HasTerminal(events') => turnOver' /\ Silent'
  BY <1>1, <1>3, <1>4 DEF OnceInv, Ends
<1>8. Ended' => events' = <<>> /\ turnOver' /\ Silent'
  <2>1. Scanning /\ (Ended' => Ended)
    BY <1>1 DEF Scanning, Ended, HasTerminal
  <2> QED
    BY <1>1, <1>3, <2>1 DEF OnceInv
<1> QED
  BY <1>1, <1>5, <1>6, <1>7, <1>8 DEF OnceInv

\* An event of the current line goes to the stream, as it is or as the guard.
LEMMA EventOnce ==
  ASSUME TypeInv, OnceInv, events # <<>>, pc = "events",
         NEW e, NEW next \in {"events", "guardedLine"}, BeginSend(e, next),
         e \in Terminal => Head(events) \in Terminal,
         events' = Tail(events), UNCHANGED <<out, turnOver, sent>>
  PROVE  OnceInv'
<1>1. /\ \A i \in 1..Len(events') : events'[i] \in Terminal => i = Len(events')
      /\ HasTerminal(events') => HasTerminal(events)
      /\ Head(events) \in Terminal => events' = <<>> /\ HasTerminal(events)
  <2>1. events \in Seq(AdapterEvents)
    BY DEF TypeInv, TypeOK
  <2>2. \A i \in 1..Len(events) : events[i] \in Terminal => i = Len(events)
    BY DEF OnceInv
  <2> QED
    BY <2>1, <2>2, TailEvents
<1>2. ~HasTerminal(sent)
  BY DEF OnceInv, Scanning, Ended
<1>3. e \in Terminal => events' = <<>> /\ turnOver /\ Silent
  BY <1>1 DEF OnceInv
<1> QED
  BY <1>1, <1>2, <1>3 DEF OnceInv, Scanning, Ended, HasTerminal, Silent, BeginSend

LEMMA SendOnce == TypeInv /\ OnceInv /\ Send => OnceInv'
<1> SUFFICES ASSUME TypeInv, OnceInv, Send PROVE OnceInv'
  OBVIOUS
<1>1. /\ sent \in Seq(StreamEvents)
      /\ sending \in StreamEvents
      /\ resume \in {"events", "guardedLine", "guardedEnd", "typedEnd"}
  BY DEF Send, TypeInv, TypeOK, ChannelTypeOK, Control
<1>2. /\ sent' = Append(sent, sending)
      /\ pc = "send" /\ pc' = resume /\ resume' = resume
      /\ UNCHANGED <<out, turnOver, events>>
  BY DEF Send, Deliver, cliVars, scanVars
<1>3. HasTerminal(sent') <=> HasTerminal(sent) \/ sending \in Terminal
  BY <1>1, <1>2, SentGrows
<1>4. Scanning' /\ Ended' => Scanning /\ Ended
  BY <1>1, <1>2, <1>3 DEF Scanning, Ended
<1> QED
  BY <1>1, <1>2, <1>4 DEF OnceInv, Silent, HasTerminal

LEMMA OnceInvStep ==
  ASSUME OneTurn PROVE TypeInv /\ EndInv /\ OnceInv /\ [Next]_vars => OnceInv'
<1> SUFFICES ASSUME TypeInv, EndInv, OnceInv, [Next]_vars PROVE OnceInv'
  OBVIOUS
<1>1. ASSUME UNCHANGED <<out, turnOver, events, pc, resume, sending, sent>> PROVE OnceInv'
  BY <1>1 DEF OnceInv, Scanning, Ended, HasTerminal, Silent
<1>2. ASSUME UNCHANGED <<out, turnOver, events, sent>>, pc' # "send", Scanning' => Scanning
      PROVE  OnceInv'
  BY <1>2 DEF OnceInv, Ended, HasTerminal, Silent
<1>3. ASSUME UNCHANGED <<out, turnOver, events, sent>>, ~Scanning', ~HasTerminal(sent)
      PROVE  OnceInv'
  BY <1>3 DEF OnceInv, HasTerminal, Silent
<1>4. CASE StartFails
  BY <1>4, <1>2 DEF StartFails, cliVars, scanVars, chanVars, Scanning
<1>5. CASE StartTurn
  BY <1>5, <1>2 DEF StartTurn, Spawn, StartBeat, scanVars, chanVars, Scanning
<1>6. CASE ScanLine
  BY <1>6, ScanLineOnce
<1>7. CASE ScanEnds
  BY <1>7, <1>2 DEF ScanEnds, cliVars, scanVars, Scanning
<1>8. CASE EmitParsed
  BY <1>8, <1>2 DEF EmitParsed, CallBack, cliVars, Scanning
<1>9. CASE ParsedDone
  BY <1>9, <1>2 DEF ParsedDone, cliVars, scanVars, Scanning
<1>10. CASE CallbackReturns
  BY <1>10, <1>2 DEF CallbackReturns, cliVars, scanVars, Scanning, TypeInv, Control
<1>11. CASE ReplaceDone
  <2>1. Head(events) \in Terminal
    BY <1>11 DEF ReplaceDone, Terminal
  <2> QED
    BY <1>11, <2>1, EventOnce DEF ReplaceDone, SendGuard, cliVars
<1>12. CASE EmitGuard
  BY <1>12, <1>2 DEF EmitGuard, CallBack, cliVars, scanVars, Scanning
<1>13. CASE ForwardEvent
  BY <1>13, EventOnce DEF ForwardEvent, cliVars
<1>14. CASE EventsDone
  BY <1>14, <1>2 DEF EventsDone, cliVars, scanVars, Scanning
<1>15. CASE Send
  BY <1>15, SendOnce
<1>16. CASE PostLoop
  <2>1. CASE GuardDue
    <3>1. ~HasTerminal(sent)
      BY <1>16, <2>1 DEF PostLoop, GuardDue, EndInv, Ended, Over
    <3> QED
      BY <1>3, <1>16, <2>1, <3>1 DEF PostLoop, SendGuard, BeginSend, cliVars, Scanning
  <2>2. CASE ~GuardDue
    BY <1>2, <1>16, <2>2 DEF PostLoop, cliVars, Scanning
  <2> QED
    BY <2>1, <2>2
<1>17. CASE WaitProcess
  BY <1>17, <1>2 DEF WaitProcess, cliVars, scanVars, Scanning
<1>18. CASE DecideTerminal
  <2>1. CASE terminalSent
    BY <1>2, <1>18, <2>1 DEF DecideTerminal, cliVars, scanVars, Scanning
  <2>2. CASE ~terminalSent
    <3>1. ~HasTerminal(sent)
      BY <1>18, <2>2 DEF DecideTerminal, EndInv, Ended, Over
    <3> QED
      BY <1>3, <1>18, <2>2, <3>1 DEF DecideTerminal, BeginSend, cliVars, scanVars, Scanning
  <2> QED
    BY <2>1, <2>2
<1>19. CASE EmitOwnTerminal
  BY <1>19, <1>2 DEF EmitOwnTerminal, CallBack, cliVars, scanVars, Scanning
<1>20. CASE ReportExit
  BY <1>20, <1>2 DEF ReportExit, cliVars, scanVars, Scanning
<1>21. CASE CloseStream
  BY <1>21, <1>2 DEF CloseStream, StopBeat, cliVars, scanVars, chanVars, Scanning
<1>22. CASE HeartbeatStep
  BY <1>22, <1>1
  DEF HeartbeatStep, Heartbeat, cliVars, parserVars, chanVars, Tick, BeatProgress,
      scanVars, Beat, BeatCallbackReturns, BeatEnds
<1>23. CASE Consume
  BY <1>23, <1>1 DEF Consume, Receive, cliVars, parserVars, scanVars
<1>24. CASE ConsumerStops
  BY <1>24, <1>1 DEF ConsumerStops, Abandon, cliVars, parserVars, scanVars
<1>25. CASE Environment
  <2>1. UNCHANGED <<events, pc, resume, sending, sent>>
    BY <1>25 DEF Environment, parserVars, scanVars, chanVars
  <2>2. CASE \E l \in Lines : WriteLine(l)
    BY <2>1, <2>2, WriteLineOnce
  <2>3. CASE ~\E l \in Lines : WriteLine(l)
    <3>1. UNCHANGED <<out, turnOver>>
      BY <1>25, <2>3
      DEF Environment, CliStep, ShutStdout, Finish, Crash, Killed, Exit, Release, Cancel
    <3> QED
      BY <1>1, <2>1, <3>1
  <2> QED
    BY <2>2, <2>3
<1>26. CASE UNCHANGED vars
  BY <1>26, <1>1 DEF vars, cliVars, scanVars, chanVars
<1> QED
  BY <1>4, <1>5, <1>6, <1>7, <1>8, <1>9, <1>10, <1>11, <1>12, <1>13, <1>14, <1>15,
      <1>16, <1>17, <1>18, <1>19, <1>20, <1>21, <1>22, <1>23, <1>24, <1>25, <1>26
  DEF Next, Parser

LEMMA OnceInvHolds == ASSUME OneTurn PROVE Spec => []OnceInv
<1>1. Init => OnceInv
  <2> SUFFICES ASSUME Init PROVE OnceInv
    OBVIOUS
  <2>1. sent = <<>> /\ events = <<>> /\ out = <<>> /\ pc = "start" /\ Len(<<>>) = 0
    BY EmptySeq DEF Init, ChannelInit, CliInit
  <2> QED
    BY <2>1 DEF OnceInv, Scanning, Ended, HasTerminal, Silent
<1>2. TypeInv /\ EndInv /\ OnceInv /\ [Next]_vars => OnceInv'
  BY OnceInvStep
<1> QED
  BY <1>1, <1>2, TypeInvHolds, EndInvHolds, PTL DEF Spec

-----------------------------------------------------------------------------
(* The refinement.                                                         *)

\* TurnStream's vocabulary is this module's.
LEMMA SameVocabulary ==
  /\ Stream!StreamEvents = StreamEvents
  /\ Stream!HasTerminal(sent) <=> HasTerminal(sent)
  BY DEF Stream!StreamEvents, Stream!HasTerminal, Stream!Terminal, Stream!BridgeTerminals,
         Stream!AdapterEvents, StreamEvents, HasTerminal, Terminal, BridgeTerminals,
         AdapterEvents

\* A step puts one event on an open stream without a terminal, closes a stream with
\* one, or leaves both alone.
LEMMA StreamStep ==
  ASSUME TypeInv, EndInv, OnceInv, [Next]_vars
  PROVE  [Stream!Next]_(Stream!streamVars)
<1>1. CASE Send
  <2>1. /\ sending \in StreamEvents /\ sent' = Append(sent, sending)
        /\ ~Closed /\ ~Closed' /\ ~HasTerminal(sent)
    BY <1>1 DEF Send, Deliver, TypeInv, Control, OnceInv, Closed
  <2>2. Stream!Publish(sending)
    BY <2>1, SameVocabulary DEF Stream!Publish, Closed
  <2> QED
    BY <2>1, <2>2, SameVocabulary DEF Stream!Next
<1>2. CASE CloseStream
  <2>1. ~Closed /\ Closed' /\ sent' = sent /\ HasTerminal(sent)
    BY <1>2 DEF CloseStream, chanVars, EndInv, Over, Ended, Closed
  <2> QED
    BY <2>1, SameVocabulary DEF Stream!Next, Stream!Close
<1>3. ASSUME UNCHANGED <<sent, pc>> PROVE [Stream!Next]_(Stream!streamVars)
  BY <1>3 DEF Stream!streamVars, Closed
<1>4. ASSUME sent' = sent, pc # "closed", pc' # "closed" PROVE [Stream!Next]_(Stream!streamVars)
  BY <1>4 DEF Stream!streamVars, Closed
<1>5. CASE StartFails
  BY <1>5, <1>4 DEF StartFails, chanVars
<1>6. CASE StartTurn
  BY <1>6, <1>4 DEF StartTurn, Spawn, StartBeat, chanVars
<1>7. CASE ScanLine
  BY <1>7, <1>4 DEF ScanLine
<1>8. CASE ScanEnds
  BY <1>8, <1>4 DEF ScanEnds
<1>9. CASE EmitParsed
  BY <1>9, <1>4 DEF EmitParsed, CallBack
<1>10. CASE ParsedDone
  BY <1>10, <1>4 DEF ParsedDone
<1>11. CASE CallbackReturns
  BY <1>11, <1>4 DEF CallbackReturns, TypeInv, Control
<1>12. CASE ReplaceDone
  BY <1>12, <1>4 DEF ReplaceDone, SendGuard, BeginSend
<1>13. CASE EmitGuard
  BY <1>13, <1>4 DEF EmitGuard, CallBack
<1>14. CASE ForwardEvent
  BY <1>14, <1>4 DEF ForwardEvent, BeginSend
<1>15. CASE EventsDone
  BY <1>15, <1>4 DEF EventsDone
<1>16. CASE PostLoop
  BY <1>16, <1>4 DEF PostLoop, SendGuard, BeginSend
<1>17. CASE WaitProcess
  BY <1>17, <1>4 DEF WaitProcess
<1>18. CASE DecideTerminal
  BY <1>18, <1>4 DEF DecideTerminal, BeginSend
<1>19. CASE EmitOwnTerminal
  BY <1>19, <1>4 DEF EmitOwnTerminal, CallBack
<1>20. CASE ReportExit
  BY <1>20, <1>4 DEF ReportExit
<1>21. CASE HeartbeatStep
  BY <1>21, <1>3
  DEF HeartbeatStep, Heartbeat, parserVars, chanVars, Tick, BeatProgress, Beat,
      BeatCallbackReturns, BeatEnds
<1>22. CASE Consume
  BY <1>22, <1>3 DEF Consume, Receive, parserVars
<1>23. CASE ConsumerStops
  BY <1>23, <1>3 DEF ConsumerStops, Abandon, parserVars
<1>24. CASE Environment
  BY <1>24, <1>3 DEF Environment, parserVars, chanVars
<1>25. CASE UNCHANGED vars
  BY <1>25, <1>3 DEF vars, chanVars
<1> QED
  BY <1>1, <1>2, <1>5, <1>6, <1>7, <1>8, <1>9, <1>10, <1>11, <1>12, <1>13, <1>14,
      <1>15, <1>16, <1>17, <1>18, <1>19, <1>20, <1>21, <1>22, <1>23, <1>24, <1>25
  DEF Next, Parser

\* The contract of pty.go:218: with a CLI that reports the end of its turn once, every
\* turn's stream is events, then exactly one terminal, then close, although stderr
\* arrives in the middle of the lines and the end of the output is a read error.
THEOREM PTYImplementsStream == ASSUME OneTurn PROVE Spec => StreamContract
<1>1. Init => Stream!Init
  BY DEF Init, ChannelInit, Stream!Init, Closed
<1>2. TypeInv /\ EndInv /\ OnceInv /\ [Next]_vars => [Stream!Next]_(Stream!streamVars)
  BY StreamStep
<1> QED
  BY <1>1, <1>2, TypeInvHolds, EndInvHolds, OnceInvHolds, PTL
  DEF Spec, StreamContract, Stream!Spec

-----------------------------------------------------------------------------
(* No silent drop.                                                         *)

\* Event e is on the stream, or about to be.
Saw(e) ==
  \/ \E i \in 1..Len(sent) : sent[i] = e
  \/ pc = "send" /\ sending = e

\* The guard after the scan loop has been decided on, and the bridge's own terminal
\* has not.
AfterLoop ==
  \/ pc \in {"guardedEnd", "wait", "terminal"}
  \/ pc \in {"send", "callback"} /\ resume \in {"guardedEnd", "wait"}

\* The two flags know what is on the stream, the guard is never still due once it
\* has been decided on, and a success is begun only with an excuse.
DropInv ==
  /\ Saw("tool_use") => seenToolUse
  /\ seenDelta => Saw("delta")
  /\ AfterLoop => ~GuardDue
  /\ pc = "send" /\ sending \in Success => Excused
  /\ NoSilentDrop

\* A send that begins: the flags take note of the event, and a success has an excuse.
LEMMA DropBegins ==
  ASSUME DropInv, NEW e, NEW next, BeginSend(e, next), pc # "send",
         UNCHANGED <<sent, cancelled>>,
         seenToolUse' <=> (seenToolUse \/ e = "tool_use"),
         seenDelta' <=> (seenDelta \/ e = "delta"),
         next = "guardedEnd" => terminalSent',
         next # "wait", e \in Success => Excused
  PROVE  DropInv'
  BY DEF DropInv, Saw, AfterLoop, Excused, GuardDue, NoSilentDrop, BeginSend

\* The send goes through.
LEMMA DropSends == TypeInv /\ DropInv /\ Send => DropInv'
<1> SUFFICES ASSUME TypeInv, DropInv, Send PROVE DropInv'
  OBVIOUS
<1>1. /\ sent \in Seq(StreamEvents)
      /\ resume \in {"events", "guardedLine", "guardedEnd", "typedEnd"}
      /\ sent' = Append(sent, sending)
      /\ pc = "send" /\ pc' = resume /\ resume' = resume
      /\ UNCHANGED <<seenDelta, seenToolUse, terminalSent, cancelled>>
  BY DEF Send, Deliver, scanVars, cliVars, TypeInv, TypeOK, ChannelTypeOK, Control
<1>2. /\ Len(sent) \in Nat
      /\ Len(sent') = Len(sent) + 1
      /\ \A i \in 1..Len(sent) : sent'[i] = sent[i]
      /\ sent'[Len(sent) + 1] = sending
  BY <1>1, AppendProperties, LenProperties
<1>3. NoSilentDrop'
  BY <1>1, DropGrows DEF DropInv
<1>4. /\ Saw("tool_use")' => Saw("tool_use")
      /\ Saw("delta") => Saw("delta")'
  BY <1>1, <1>2 DEF Saw
<1> QED
  BY <1>1, <1>3, <1>4 DEF DropInv, AfterLoop, GuardDue

LEMMA DropInvStep == TypeInv /\ EndInv /\ DropInv /\ [Next]_vars => DropInv'
<1> SUFFICES ASSUME TypeInv, EndInv, DropInv, [Next]_vars PROVE DropInv'
  OBVIOUS
<1>1. ASSUME UNCHANGED <<pc, resume, sending, sent, seenDelta, seenToolUse, terminalSent>>,
             cancelled => cancelled'
      PROVE  DropInv'
  BY <1>1 DEF DropInv, Saw, AfterLoop, Excused, GuardDue, NoSilentDrop
<1>2. ASSUME UNCHANGED <<sent, seenDelta, seenToolUse, terminalSent, cancelled>>,
             pc # "send", pc' # "send", AfterLoop' => AfterLoop \/ ~GuardDue
      PROVE  DropInv'
  BY <1>2 DEF DropInv, Saw, AfterLoop, GuardDue, NoSilentDrop
<1>3. CASE HeartbeatStep
  BY <1>3, <1>1 DEF HeartbeatStep, parserVars, cliVars, scanVars, chanVars
<1>4. CASE Consume
  BY <1>4, <1>1 DEF Consume, Receive, parserVars, cliVars, scanVars
<1>5. CASE ConsumerStops
  BY <1>5, <1>1 DEF ConsumerStops, Abandon, parserVars, cliVars, scanVars
<1>6. CASE Environment
  <2>1. cancelled => cancelled'
    BY <1>6 DEF Environment, CliStep, WriteLine, ShutStdout, Finish, Crash, Killed, Exit, Release, Cancel
  <2> QED
    BY <1>6, <2>1, <1>1 DEF Environment, parserVars, scanVars, chanVars
<1>7. CASE StartFails
  BY <1>7, <1>2 DEF StartFails, cliVars, scanVars, chanVars, AfterLoop
<1>8. CASE StartTurn
  BY <1>8, <1>2 DEF StartTurn, Spawn, scanVars, chanVars, AfterLoop
<1>9. CASE ScanLine
  BY <1>9, <1>2 DEF ScanLine, AfterLoop
<1>10. CASE ScanEnds
  BY <1>10, <1>2 DEF ScanEnds, cliVars, scanVars, AfterLoop
<1>11. CASE EmitParsed
  BY <1>11, <1>2 DEF EmitParsed, CallBack, cliVars, AfterLoop
<1>12. CASE ParsedDone
  BY <1>12, <1>2 DEF ParsedDone, cliVars, scanVars, AfterLoop
<1>13. CASE CallbackReturns
  BY <1>13, <1>2 DEF CallbackReturns, cliVars, scanVars, AfterLoop, TypeInv, Control
<1>14. CASE EventsDone
  BY <1>14, <1>2 DEF EventsDone, cliVars, scanVars, AfterLoop
<1>15. CASE WaitProcess
  BY <1>15, <1>2 DEF WaitProcess, cliVars, scanVars, AfterLoop
<1>16. CASE EmitGuard
  BY <1>16, <1>2 DEF EmitGuard, CallBack, cliVars, scanVars, AfterLoop, DropInv, GuardDue
<1>17. CASE EmitOwnTerminal
  BY <1>17, <1>2 DEF EmitOwnTerminal, CallBack, cliVars, scanVars, AfterLoop
<1>18. CASE ReportExit
  BY <1>18, <1>2 DEF ReportExit, cliVars, scanVars, AfterLoop
<1>19. CASE CloseStream
  BY <1>19, <1>2 DEF CloseStream, cliVars, scanVars, chanVars, AfterLoop
<1>20. CASE ReplaceDone
  <2>1. BeginSend("guard", "guardedLine") /\ pc = "events" /\ UNCHANGED <<sent, cancelled, seenToolUse, seenDelta>>
    BY <1>20 DEF ReplaceDone, SendGuard, cliVars
  <2> QED
    BY <2>1, DropBegins DEF Success
<1>21. CASE PostLoop
  <2>1. CASE GuardDue
    <3>1. /\ BeginSend("guard", "guardedEnd") /\ pc = "postloop" /\ terminalSent'
          /\ UNCHANGED <<sent, cancelled, seenToolUse, seenDelta>>
      BY <1>21, <2>1 DEF PostLoop, SendGuard, cliVars
    <3> QED
      BY <3>1, DropBegins DEF Success
  <2>2. CASE ~GuardDue
    BY <1>21, <2>2, <1>2 DEF PostLoop, cliVars
  <2> QED
    BY <2>1, <2>2
<1>22. CASE ForwardEvent
  <2>1. /\ BeginSend(Head(events), "events") /\ pc = "events"
        /\ UNCHANGED <<sent, cancelled>>
        /\ seenToolUse' = (seenToolUse \/ Head(events) = "tool_use")
        /\ seenDelta' = (seenDelta \/ Head(events) = "delta")
    BY <1>22 DEF ForwardEvent, cliVars
  <2>2. Head(events) \in AdapterEvents
    BY <1>22, HeadTailProperties DEF ForwardEvent, TypeInv, TypeOK
  <2>3. ASSUME Head(events) \in Success PROVE Excused
    <3>1. ~GuardDue
      BY <1>22, <2>2, <2>3 DEF ForwardEvent, AdapterEvents, Success
    <3>2. terminalSent => HasTerminal(sent)
      BY <2>1 DEF EndInv, Ended
    <3> QED
      BY <2>1, <3>1, <3>2 DEF GuardDue, Excused, DropInv, Saw, HasTerminal
  <2> QED
    BY <2>1, <2>3, DropBegins
<1>23. CASE DecideTerminal
  <2>1. CASE terminalSent
    BY <1>23, <2>1, <1>2 DEF DecideTerminal, cliVars, scanVars, AfterLoop
  <2>2. CASE ~terminalSent
    <3>1. /\ BeginSend(OwnTerminal, "typedEnd") /\ pc = "terminal"
          /\ UNCHANGED <<sent, cancelled, seenToolUse, seenDelta>>
      BY <1>23, <2>2 DEF DecideTerminal, cliVars, scanVars
    <3>2. ~GuardDue
      BY <3>1 DEF DropInv, AfterLoop
    <3>3. OwnTerminal \in Success => Excused
      BY <2>2, <3>1, <3>2 DEF GuardDue, Excused, DropInv, Saw
    <3>4. OwnTerminal \notin {"tool_use", "delta"}
      BY DEF OwnTerminal
    <3> QED
      BY <3>1, <3>3, <3>4, DropBegins
  <2> QED
    BY <2>1, <2>2
<1>24. CASE Send
  BY <1>24, DropSends
<1>25. CASE UNCHANGED vars
  BY <1>25, <1>1 DEF vars, cliVars, scanVars, chanVars
<1> QED
  BY <1>3, <1>4, <1>5, <1>6, <1>7, <1>8, <1>9, <1>10, <1>11, <1>12, <1>13, <1>14,
      <1>15, <1>16, <1>17, <1>18, <1>19, <1>20, <1>21, <1>22, <1>23, <1>24, <1>25
  DEF Next, Parser

LEMMA DropInvHolds == Spec => []DropInv
<1>1. Init => DropInv
  <2> SUFFICES ASSUME Init PROVE DropInv
    OBVIOUS
  <2>1. sent = <<>> /\ pc = "start" /\ seenDelta = FALSE /\ Len(sent) = 0
    BY EmptySeq DEF Init, ChannelInit
  <2> QED
    BY <2>1 DEF DropInv, Saw, AfterLoop, NoSilentDrop
<1>2. TypeInv /\ EndInv /\ DropInv /\ [Next]_vars => DropInv'
  BY DropInvStep
<1> QED
  BY <1>1, <1>2, TypeInvHolds, EndInvHolds, PTL DEF Spec

\* A turn that called tools and said nothing is never reported as a success, by the
\* adapter's Done or by the bridge's own, unless it was cancelled or had already ended.
THEOREM PTYToolsWithoutText == Spec => []NoSilentDrop
  BY DropInvHolds, PTL DEF DropInv

-----------------------------------------------------------------------------
(* The two surfaces agree.                                                 *)

\* The bridge's own terminal is on the stream, or on its way, and the typed surface
\* has yet to be told.
OwnDue == pc = "typedEnd" \/ (pc = "send" /\ resume = "typedEnd")

\* Where the parser goroutine may be while a line's events are still to be reported,
\* and an event is being sent; the typed guard is emitted after the stream's.
PlaceInv ==
  /\ pc # "send" => sending = None
  /\ typed # <<>> => pc = "parsed" \/ (pc = "callback" /\ resume = "parsed")
  /\ events # <<>> => \/ pc \in {"parsed", "events", "guardedLine"}
                      \/ pc = "callback" /\ resume \in {"parsed", "events"}
                      \/ pc = "send" /\ resume \in {"events", "guardedLine"}
  /\ pc \in {"guardedLine", "guardedEnd"} => Guarded
  /\ pc = "send" /\ resume \in {"guardedLine", "guardedEnd"} => sending = "guard"

\* Until the guard is sent, the ends of the turn the typed surface was told of and
\* those of the current line are, in order, the ends the stream was sent and those
\* still to be forwarded; the bridge's own comes last.
InStep ==
  /\ ~OwnDue => Told(typedLog, <<>>, typed) = Forwarded(sent, sending, events)
  /\ pc = "send" /\ resume = "typedEnd" =>
       Terminals(typedLog) = Terminals(sent) /\ sending \in Terminal
  /\ pc = "typedEnd" =>
       /\ sent[Len(sent)] \in Terminal
       /\ Append(Terminals(typedLog), sent[Len(sent)]) = Terminals(sent)

AgreeInv == HasTyped /\ ~Guarded => InStep

LEMMA PlaceInvStep == TypeInv /\ PlaceInv /\ [Next]_vars => PlaceInv'
<1> SUFFICES ASSUME TypeInv, PlaceInv, [Next]_vars PROVE PlaceInv'
  OBVIOUS
<1>1. ASSUME UNCHANGED <<pc, resume, sending, sent, events, typed>>
      PROVE  PlaceInv'
  BY <1>1 DEF PlaceInv, Guarded
<1>2. CASE StartFails \/ StartTurn
  BY <1>2 DEF StartFails, StartTurn, scanVars, PlaceInv
<1>3. CASE ScanLine
  BY <1>3 DEF ScanLine, PlaceInv
<1>4. CASE ScanEnds \/ ParsedDone \/ CallbackReturns \/ EventsDone
  BY <1>4 DEF ScanEnds, ParsedDone, CallbackReturns, EventsDone, scanVars,
              PlaceInv, TypeInv, Control
<1>5. CASE EmitGuard
  BY <1>5 DEF EmitGuard, CallBack, scanVars, PlaceInv
<1>6. CASE EmitParsed
  BY <1>6 DEF EmitParsed, CallBack, PlaceInv
<1>7. CASE ReplaceDone \/ PostLoop
  BY <1>7 DEF ReplaceDone, PostLoop, SendGuard, BeginSend, PlaceInv
<1>8. CASE ForwardEvent
  BY <1>8 DEF ForwardEvent, BeginSend, PlaceInv
<1>9. CASE Send
  <2>1. /\ pc = "send" /\ pc' = resume /\ resume' = resume /\ sending' = None
        /\ sent' = Append(sent, sending) /\ sent \in Seq(StreamEvents)
        /\ resume \in {"events", "guardedLine", "guardedEnd", "typedEnd"}
        /\ UNCHANGED <<events, typed>>
    BY <1>9 DEF Send, Deliver, scanVars, TypeInv, TypeOK, ChannelTypeOK, Control
  <2>2. sent'[Len(sent) + 1] = sending /\ Len(sent) + 1 \in 1..Len(sent')
    BY <2>1, LenProperties
  <2>3. sending = "guard" => Guarded'
    BY <2>2 DEF Guarded
  <2> QED
    BY <2>1, <2>3 DEF PlaceInv
<1>10. CASE WaitProcess
  BY <1>10 DEF WaitProcess, scanVars, PlaceInv
<1>11. CASE DecideTerminal
  BY <1>11 DEF DecideTerminal, BeginSend, scanVars, PlaceInv
<1>12. CASE EmitOwnTerminal
  BY <1>12 DEF EmitOwnTerminal, CallBack, scanVars, PlaceInv
<1>13. CASE ReportExit \/ CloseStream
  BY <1>13 DEF ReportExit, CloseStream, scanVars, PlaceInv
<1>14. CASE HeartbeatStep
  BY <1>14, <1>1 DEF HeartbeatStep, parserVars, scanVars, chanVars
<1>15. CASE Consume \/ ConsumerStops
  BY <1>15, <1>1 DEF Consume, ConsumerStops, Receive, Abandon, parserVars, scanVars
<1>16. CASE Environment
  BY <1>16, <1>1 DEF Environment, parserVars, scanVars, chanVars
<1>17. CASE UNCHANGED vars
  BY <1>17, <1>1 DEF vars, scanVars, chanVars
<1> QED
  BY <1>2, <1>3, <1>4, <1>5, <1>6, <1>7, <1>8, <1>9, <1>10, <1>11, <1>12, <1>13,
     <1>14, <1>15, <1>16, <1>17
  DEF Next, Parser

LEMMA AgreeInvStep == TypeInv /\ PlaceInv /\ AgreeInv /\ [Next]_vars => AgreeInv'
<1> SUFFICES ASSUME TypeInv, PlaceInv, AgreeInv, [Next]_vars, HasTyped, ~Guarded'
             PROVE  InStep'
  BY DEF AgreeInv
<1>1. /\ typedLog \in Seq(TypedEvents) /\ sent \in Seq(StreamEvents)
      /\ typed \in Seq(AdapterEvents) /\ events \in Seq(AdapterEvents)
      /\ typed \in Seq(TypedEvents)
      /\ events \in Seq(StreamEvents)
  <2>1. /\ typedLog \in Seq(TypedEvents) /\ sent \in Seq(StreamEvents)
        /\ typed \in Seq(AdapterEvents) /\ events \in Seq(AdapterEvents)
      BY DEF TypeInv, TypeOK, ChannelTypeOK, TypedTypeOK
  <2>2. /\ AdapterEvents \subseteq TypedEvents /\ Terminal \subseteq TypedEvents
        /\ AdapterEvents \subseteq StreamEvents
    BY EventKinds
  <2> QED
    BY <2>1, <2>2, SeqMonotonic
<1>2. \A e : sent' = Append(sent, e) =>
        /\ Len(sent) \in Nat
        /\ Len(sent') = Len(sent) + 1 /\ sent'[Len(sent) + 1] = e
        /\ \A i \in 1..Len(sent) : sent'[i] = sent[i]
  BY <1>1, LenProperties
<1>3. ASSUME UNCHANGED sent, sending = sending' \/ sending = None PROVE InStep
  <2>1. ~Guarded
    BY <1>3 DEF Guarded, None
  <2> QED
    BY <2>1 DEF AgreeInv
\* A step that leaves both surfaces alone.
<1>4. ASSUME UNCHANGED <<pc, resume, sending, sent, events, typed>>,
             Terminals(typedLog') = Terminals(typedLog)
      PROVE  InStep'
  BY <1>4, <1>3 DEF InStep, OwnDue, Told
\* A step of the parser goroutine that moves an event from one place to another.
<1>5. ASSUME ~OwnDue, ~OwnDue', UNCHANGED sent, sending = sending' \/ sending = None,
             Told(typedLog, <<>>, typed)' = Told(typedLog, <<>>, typed),
             Forwarded(sent, sending, events)' = Forwarded(sent, sending, events)
      PROVE  InStep'
  BY <1>5, <1>3 DEF InStep, OwnDue
\* A step that only moves the parser goroutine on.
<1>6. ASSUME ~OwnDue, ~OwnDue',
             UNCHANGED <<sending, sent, events, typed, typedLog>>
      PROVE  InStep'
  BY <1>6, <1>5
<1>7. CASE StartFails \/ StartTurn
  BY <1>7, <1>6 DEF StartFails, StartTurn, scanVars, chanVars, OwnDue
<1>8. CASE ScanLine
  <2>1. /\ pc = "scan" /\ sending = None /\ events = <<>> /\ typed = <<>>
        /\ UNCHANGED <<sending, sent, typedLog>>
        /\ pc' \in {"scan", "parsed"}
    BY <1>8 DEF ScanLine, PlaceInv, OwnDue
  <2>2. CASE Head(out).form = "malformed"
    BY <1>8, <2>1, <2>2, <1>6 DEF ScanLine, OwnDue
  <2>3. CASE Head(out).form # "malformed"
    <3>1. events' = Head(out).stream /\ typed' = TypedOf(Head(out))
      BY <1>8, <2>3 DEF ScanLine
    <3>2. Head(out) \in Lines
      BY <1>8, PipeShrinks DEF ScanLine, TypeInv, TypeOK, CliTypeOK
    <3>3. Told(typedLog, <<>>, <<>>) = Forwarded(sent, None, <<>>)
      BY <2>1, <1>3 DEF InStep, OwnDue
    <3>4. Told(typedLog, <<>>, TypedOf(Head(out)))
            = Forwarded(sent, None, Head(out).stream)
      <4>1. <<>> \in Seq(TypedEvents)
        BY EmptySeq
      <4> QED
        BY <1>1, <3>2, <3>3, <4>1, LineBegins
    <3> QED
      BY <2>1, <3>1, <3>4 DEF InStep, OwnDue
  <2> QED
    BY <2>2, <2>3
<1>9. CASE ScanEnds \/ ParsedDone \/ CallbackReturns \/ EventsDone
  BY <1>9, <1>6 DEF ScanEnds, ParsedDone, CallbackReturns, EventsDone,
                    scanVars, OwnDue, TypeInv, Control
<1>10. CASE WaitProcess \/ ReportExit
  BY <1>10, <1>6 DEF WaitProcess, ReportExit, scanVars, OwnDue
<1>11. CASE CloseStream
  BY <1>11, <1>6 DEF CloseStream, scanVars, chanVars, OwnDue
<1>12. CASE EmitGuard
  BY <1>12 DEF EmitGuard, PlaceInv, Guarded
<1>13. CASE EmitParsed
  <2>1. /\ UNCHANGED <<sending, sent, events>> /\ pc = "parsed"
        /\ pc' = "callback" /\ typed # <<>>
        /\ typedLog' = Append(typedLog, Head(typed)) /\ typed' = Tail(typed)
    BY <1>13 DEF EmitParsed, CallBack
  <2>2. Told(typedLog, <<>>, typed)' = Told(typedLog, <<>>, typed)
    BY <1>1, <2>1, ToldNext
  <2> QED
    BY <2>1, <2>2, <1>5 DEF OwnDue
<1>15. CASE ReplaceDone
  BY <1>15 DEF ReplaceDone, SendGuard, BeginSend, Guarded
<1>16. CASE PostLoop
  <2>1. ~GuardDue
    BY <1>16 DEF PostLoop, SendGuard, BeginSend, Guarded
  <2> QED
    BY <1>16, <2>1, <1>6 DEF PostLoop, OwnDue
<1>17. CASE ForwardEvent
  <2>1. /\ UNCHANGED <<sent, typed, typedLog>> /\ pc = "events"
        /\ pc' = "send" /\ resume' = "events" /\ events # <<>> /\ sending = None
        /\ sending' = Head(events) /\ events' = Tail(events)
    BY <1>17 DEF ForwardEvent, BeginSend, PlaceInv
  <2>2. Forwarded(sent, sending, events)' = Forwarded(sent, sending, events)
    BY <1>1, <2>1, ForwardBegins
  <2> QED
    BY <2>1, <2>2, <1>5 DEF OwnDue
<1>18. CASE Send
  <2>1. /\ pc = "send" /\ pc' = resume /\ resume' = resume
        /\ sent' = Append(sent, sending) /\ sending' = None
        /\ UNCHANGED <<events, typed, typedLog>>
        /\ sending \in StreamEvents /\ resume \in {"events", "guardedLine", "guardedEnd", "typedEnd"}
    BY <1>18 DEF Send, Deliver, scanVars, TypeInv, Control
  <2>2. ~Guarded
    <3>1. /\ Len(sent) \in Nat
          /\ Len(sent') = Len(sent) + 1 /\ sent'[Len(sent) + 1] = sending
          /\ \A i \in 1..Len(sent) : sent'[i] = sent[i]
      BY <1>2, <2>1
    <3> QED
      BY <3>1 DEF Guarded
  <2>3. CASE resume # "typedEnd"
    <3>1. Told(typedLog, <<>>, typed) = Forwarded(sent, sending, events)
      BY <2>1, <2>2, <2>3 DEF AgreeInv, InStep, OwnDue
    <3>2. Forwarded(sent', None, events) = Forwarded(sent, sending, events)
      BY <1>1, <2>1, ForwardEnds
    <3> QED
      BY <2>1, <2>3, <3>1, <3>2 DEF InStep, OwnDue
  <2>4. CASE resume = "typedEnd"
    <3>1. Terminals(typedLog) = Terminals(sent) /\ sending \in Terminal
      BY <2>1, <2>2, <2>4 DEF AgreeInv, InStep
    <3>2. Terminals(sent') = Append(Terminals(sent), sending)
      BY <1>1, <2>1, <3>1, TerminalsAppend
    <3>3. sent'[Len(sent')] = sending
      BY <1>2, <2>1
    <3> QED
      BY <2>1, <2>4, <3>1, <3>2, <3>3 DEF InStep, OwnDue
  <2> QED
    BY <2>3, <2>4
<1>19. CASE DecideTerminal
  <2>1. /\ pc = "terminal" /\ typed = <<>> /\ events = <<>>
        /\ sending = None /\ UNCHANGED <<sent, events, typed, typedLog>>
    BY <1>19 DEF DecideTerminal, scanVars, PlaceInv, OwnDue
  <2>2. CASE terminalSent
    BY <1>19, <2>1, <2>2, <1>6 DEF DecideTerminal, OwnDue
  <2>3. CASE ~terminalSent
    <3>1. sending' = OwnTerminal /\ pc' = "send" /\ resume' = "typedEnd"
      BY <1>19, <2>3 DEF DecideTerminal, BeginSend
    <3>2. OwnTerminal \in Terminal
      BY DEF OwnTerminal, Terminal, BridgeTerminals
    <3>3. Told(typedLog, <<>>, typed) = Forwarded(sent, sending, events)
      BY <2>1, <1>3 DEF InStep, OwnDue
    <3>4. Terminals(typedLog) = Terminals(sent)
      BY <1>1, <2>1, <3>3, NothingLeft
    <3> QED
      BY <2>1, <3>1, <3>2, <3>4 DEF InStep, OwnDue
  <2> QED
    BY <2>2, <2>3
<1>20. CASE EmitOwnTerminal
  <2> DEFINE e == sent[Len(sent)]
  <2>1. /\ pc = "typedEnd" /\ typedLog' = Append(typedLog, e)
        /\ pc' = "callback" /\ resume' = "reap"
        /\ typed = <<>> /\ events = <<>> /\ sending = None
        /\ UNCHANGED <<sending, sent, events, typed>>
    BY <1>20 DEF EmitOwnTerminal, CallBack, scanVars, PlaceInv, OwnDue
  <2>2. e \in Terminal /\ Append(Terminals(typedLog), e) = Terminals(sent)
    BY <2>1, <1>3 DEF InStep
  <2>3. e \in TypedEvents
    BY <2>2, EventKinds
  <2> HIDE DEF e
  <2>4. Terminals(typedLog') = Terminals(sent) /\ typedLog' \in Seq(TypedEvents)
    BY <1>1, <2>1, <2>2, <2>3, TerminalsAppend, AppendProperties
  <2>5. Told(typedLog', <<>>, <<>>) = Forwarded(sent, None, <<>>)
    BY <1>1, <2>4, NothingLeft
  <2> QED
    BY <2>1, <2>5 DEF InStep, OwnDue
<1>22. CASE HeartbeatStep
  <2>1. /\ UNCHANGED <<pc, resume, sending, sent, events, typed>>
        /\ typedLog' = typedLog \/ typedLog' = Append(typedLog, "heartbeat")
    BY <1>22 DEF HeartbeatStep, Heartbeat, Tick, BeatProgress, Beat, BeatCallbackReturns,
                 BeatEnds, parserVars, scanVars, chanVars
  <2>2. "heartbeat" \in TypedEvents \ Terminal
    BY DEF TypedEvents, Terminal, BridgeTerminals
  <2> QED
    BY <1>1, <2>1, <2>2, <1>4, TerminalsAppend
<1>23. CASE Consume \/ ConsumerStops
  BY <1>23, <1>4 DEF Consume, ConsumerStops, Receive, Abandon, parserVars, scanVars
<1>24. CASE Environment
  BY <1>24, <1>4 DEF Environment, parserVars, scanVars, chanVars
<1>25. CASE UNCHANGED vars
  BY <1>25, <1>4 DEF vars, scanVars, chanVars
<1> QED
  BY <1>7, <1>8, <1>9, <1>10, <1>11, <1>12, <1>13, <1>15, <1>16, <1>17, <1>18,
     <1>19, <1>20, <1>22, <1>23, <1>24, <1>25
  DEF Next, Parser

LEMMA AgreeInvHolds == Spec => [](TypeInv /\ PlaceInv /\ AgreeInv)
<1>1. Init => PlaceInv /\ AgreeInv
  <2> SUFFICES ASSUME Init PROVE PlaceInv /\ AgreeInv
    OBVIOUS
  <2>1. /\ sent = <<>> /\ typedLog = <<>> /\ pc = "start" /\ sending = None
        /\ typed = <<>> /\ events = <<>>
    BY DEF Init, ChannelInit, TypedInit
  <2>2. PlaceInv
    BY <2>1 DEF PlaceInv, OwnDue
  <2>3. <<>> \in Seq(TypedEvents) /\ <<>> \in Seq(StreamEvents)
    BY EmptySeq
  <2>4. Told(<<>>, <<>>, <<>>) = Forwarded(<<>>, None, <<>>)
    BY <2>3, NothingLeft
  <2> QED
    BY <2>1, <2>2, <2>4 DEF AgreeInv, InStep, OwnDue
<1>2. TypeInv /\ PlaceInv /\ [Next]_vars => PlaceInv'
  BY PlaceInvStep
<1>3. TypeInv /\ PlaceInv /\ AgreeInv /\ [Next]_vars => AgreeInv'
  BY AgreeInvStep
<1> QED
  BY <1>1, <1>2, <1>3, TypeInvHolds, PTL DEF Spec

\* Once the PTY bridge's stream has closed, the typed callback has seen the stream's terminals, in
\* the stream's order, unless the guard replaced one: whatever was
\* cancelled or made up by the bridge.
THEOREM PTYSurfacesMatch == Spec => []SurfacesAgree
<1>1. TypeInv /\ PlaceInv /\ AgreeInv => SurfacesAgree
  <2> SUFFICES ASSUME TypeInv, PlaceInv, AgreeInv, Closed, HasTyped,
                      \A i \in 1..Len(sent) : sent[i] # "guard"
               PROVE  Terminals(typedLog) = Terminals(sent)
    BY DEF SurfacesAgree
  <2>1. /\ sending = None /\ typed = <<>> /\ events = <<>>
        /\ ~OwnDue
    BY DEF Closed, PlaceInv, OwnDue
  <2>2. ~Guarded
    BY <2>1 DEF Guarded, None
  <2>3. Told(typedLog, <<>>, <<>>) = Forwarded(sent, None, <<>>)
    BY <2>1, <2>2 DEF AgreeInv, InStep
  <2>4. typedLog \in Seq(TypedEvents) /\ sent \in Seq(StreamEvents)
    BY DEF TypeInv, TypeOK, ChannelTypeOK, TypedTypeOK
  <2> QED
    BY <2>3, <2>4, NothingLeft
<1> QED
  BY <1>1, AgreeInvHolds, PTL
=============================================================================
