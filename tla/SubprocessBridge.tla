-------------------------- MODULE SubprocessBridge --------------------------
(***************************************************************************)
(* One turn of SubprocessBridge.streamCLI (provider/subprocess.go) and the *)
(* three goroutines it starts: the parser, the stderr reader and the       *)
(* heartbeat (provider/events_emit.go), together with the consumer of the  *)
(* stream.  The CLI, its pipes and the context come from CliProcess.       *)
(*                                                                         *)
(* A goroutine's local variables are private until it sends, calls back or *)
(* closes, so one action runs it from one such point to the next.          *)
(***************************************************************************)
EXTENDS TurnChannel, TypedSurface

CONSTANT
  MaxStderr   \* bound: stderr lines per turn

ASSUME BridgeAssumption == MaxStderr \in Nat

VARIABLES
  pc,           \* where the parser goroutine is
  resume,       \* where it goes on after a send or a callback
  events,       \* stream events of the current line still to be forwarded
  typed,        \* typed events of the current line still to be emitted
  seenDelta, seenToolUse, terminalSent,
  heldTerminal, \* typed Done/Error kept back until stderr is drained
  waitFailed,   \* cmd.Wait returned an error
  tracker,      \* what the process callback was last told
  err,          \* lines in the stderr pipe
  errTodo,      \* stderr lines the CLI has yet to write
  errClosed,    \* cmd.Wait has closed the read end of the stderr pipe
  reader        \* the stderr goroutine

scanVars == <<events, typed, seenDelta, seenToolUse, terminalSent, heldTerminal>>
procVars == <<waitFailed, tracker>>
errVars == <<err, errTodo, errClosed, reader>>
vars == <<cliVars, pc, resume, sending, scanVars, procVars, errVars, beatVars,
          chanVars, typedLog>>

\* What the other goroutines and the consumer keep for themselves.
elsewhere == <<errTodo, err, reader, beat, beats, received, abandoned>>

Labels == {"start", "rejected", "scan", "parsed", "events", "send", "callback",
           "postloop", "drain", "wait", "stderr", "held", "terminal", "typedEnd",
           "reap", "defers", "closed"}

TypeOK ==
  /\ CliTypeOK
  /\ ChannelTypeOK
  /\ TypedTypeOK
  /\ pc \in Labels
  /\ resume \in {"parsed", "events", "drain", "held", "typedEnd", "reap"}
  /\ events \in Seq(AdapterEvents)
  /\ typed \in Seq(AdapterEvents)
  /\ seenDelta \in BOOLEAN
  /\ seenToolUse \in BOOLEAN
  /\ terminalSent \in BOOLEAN
  /\ heldTerminal \in Seq(Terminal)
  /\ waitFailed \in BOOLEAN
  /\ tracker \in {"none", "started", "exited"}
  /\ err \in 0..MaxStderr
  /\ errTodo \in 0..MaxStderr
  /\ errClosed \in BOOLEAN
  /\ reader \in {"reading", "callback", "done"}

Init ==
  /\ CliInit
  /\ ChannelInit
  /\ TypedInit
  /\ pc = "start" /\ resume = "events"
  /\ events = <<>> /\ typed = <<>>
  /\ seenDelta = FALSE /\ seenToolUse = FALSE /\ terminalSent = FALSE
  /\ heldTerminal = <<>>
  /\ waitFailed = FALSE /\ tracker = "none"
  /\ err = 0 /\ errTodo \in 0..MaxStderr /\ errClosed = FALSE
  /\ reader = "done"

-----------------------------------------------------------------------------
(* StreamChat: the caller's goroutine.                                     *)

\* No user message, a pipe or cmd.Start fails: an error instead of a stream.
StartFails ==
  /\ pc = "start"
  /\ pc' = "rejected"
  /\ UNCHANGED <<cliVars, resume, sending, scanVars, procVars, errVars, beatVars,
                 chanVars, typedLog>>

\* The process runs, the tracker knows it, and the goroutines are started: the
\* stderr reader and the heartbeat only when there is a typed callback.
StartTurn ==
  /\ pc = "start"
  /\ Spawn
  /\ pc' = "scan"
  /\ tracker' = "started"
  /\ reader' = IF HasTyped THEN "reading" ELSE "done"
  /\ StartBeat
  /\ UNCHANGED <<resume, sending, scanVars, waitFailed, err, errTodo, errClosed,
                 chanVars, typedLog>>

-----------------------------------------------------------------------------
(* The parser goroutine.                                                   *)

\* The next line, parsed.  A line ParseLine rejects is skipped.
ScanLine ==
  /\ pc = "scan"
  /\ out # <<>>
  /\ Head(out).form # "overlong"
  /\ out' = Tail(out)
  /\ IF Head(out).form = "malformed"
     THEN UNCHANGED <<pc, events, typed>>
     ELSE /\ pc' = "parsed"
          /\ events' = Head(out).stream
          /\ typed' = IF HasTyped THEN TypedOf(Head(out)) ELSE <<>>
  /\ UNCHANGED <<child, exitOk, todo, shut, turnOver, holders, cancelled, resume, sending,
                 seenDelta, seenToolUse, terminalSent, heldTerminal, procVars,
                 errClosed, beatStop, sent, typedLog, elsewhere>>

\* The scanner ends at the end of the output or at a line that overflows its
\* buffer; in the latter case what is left in the pipe is never read.
ScanEnds ==
  /\ pc = "scan"
  /\ StdoutEOF \/ (out # <<>> /\ Head(out).form = "overlong")
  /\ pc' = "postloop"
  /\ UNCHANGED <<cliVars, resume, sending, scanVars, procVars, errClosed, beatStop,
                 sent, typedLog, elsewhere>>

\* emitParsed keeps a typed terminal back until stderr is drained ...
HoldTerminal ==
  /\ pc = "parsed"
  /\ typed # <<>>
  /\ Head(typed) \in Terminal
  /\ heldTerminal' = Append(heldTerminal, Head(typed))
  /\ typed' = Tail(typed)
  /\ UNCHANGED <<cliVars, pc, resume, sending, events, seenDelta, seenToolUse,
                 terminalSent, procVars, errClosed, beatStop, sent, typedLog, elsewhere>>

\* The parser goroutine is inside the typed callback.
CallBack(e, next) ==
  /\ typedLog' = Append(typedLog, e)
  /\ pc' = "callback"
  /\ resume' = next

\* ... and emits the others as they come.
EmitParsed ==
  /\ pc = "parsed"
  /\ typed # <<>>
  /\ Head(typed) \notin Terminal
  /\ CallBack(Head(typed), "parsed")
  /\ typed' = Tail(typed)
  /\ UNCHANGED <<cliVars, sending, events, seenDelta, seenToolUse, terminalSent,
                 heldTerminal, procVars, errClosed, beatStop, sent, elsewhere>>

ParsedDone ==
  /\ pc = "parsed"
  /\ typed = <<>>
  /\ pc' = "events"
  /\ UNCHANGED <<cliVars, resume, sending, scanVars, procVars, errClosed, beatStop,
                 sent, typedLog, elsewhere>>

CallbackReturns ==
  /\ pc = "callback"
  /\ pc' = resume
  /\ UNCHANGED <<cliVars, resume, sending, scanVars, procVars, errClosed, beatStop,
                 sent, typedLog, elsewhere>>

\* The turn called tools and said nothing, and nothing has ended it yet.
GuardDue == seenToolUse /\ ~seenDelta /\ ~terminalSent /\ ~cancelled

BeginSend(e, next) ==
  /\ sending' = e
  /\ pc' = "send"
  /\ resume' = next

\* emitGuardIfNeeded: the guard goes to the stream at once and to the typed
\* surface with the held terminals.
SendGuard(next) ==
  /\ BeginSend("guard", next)
  /\ terminalSent' = TRUE
  /\ heldTerminal' = IF HasTyped THEN Append(heldTerminal, "guard") ELSE heldTerminal

\* Faulty variant: without the "continue" the Done goes out after the guard.
ReplaceDoneFallsThrough ==
  /\ pc = "events"
  /\ events # <<>>
  /\ Head(events) = "done"
  /\ GuardDue
  /\ SendGuard("events")
  /\ UNCHANGED <<cliVars, events, typed, seenDelta, seenToolUse, procVars, errClosed,
                 beatStop, sent, typedLog, elsewhere>>

\* The adapter's EventDone is replaced by the guard.
ReplaceDone ==
  /\ pc = "events"
  /\ events # <<>>
  /\ Head(events) = "done"
  /\ GuardDue
  /\ SendGuard("events")
  /\ events' = Tail(events)
  /\ UNCHANGED <<cliVars, typed, seenDelta, seenToolUse, procVars, errClosed,
                 beatStop, sent, typedLog, elsewhere>>

\* Faulty variant: an adapter's EventError is not recorded as the turn's terminal.
ForwardEventForgetsError ==
  /\ pc = "events"
  /\ events # <<>>
  /\ ~(Head(events) = "done" /\ GuardDue)
  /\ BeginSend(Head(events), "events")
  /\ events' = Tail(events)
  /\ seenDelta' = (seenDelta \/ Head(events) = "delta")
  /\ seenToolUse' = (seenToolUse \/ Head(events) = "tool_use")
  /\ terminalSent' = (terminalSent \/ Head(events) = "done")
  /\ UNCHANGED <<cliVars, typed, heldTerminal, procVars, errClosed, beatStop, sent,
                 typedLog, elsewhere>>

\* Every other adapter event is forwarded as it is.
ForwardEvent ==
  /\ pc = "events"
  /\ events # <<>>
  /\ ~(Head(events) = "done" /\ GuardDue)
  /\ BeginSend(Head(events), "events")
  /\ events' = Tail(events)
  /\ seenDelta' = (seenDelta \/ Head(events) = "delta")
  /\ seenToolUse' = (seenToolUse \/ Head(events) = "tool_use")
  /\ terminalSent' = (terminalSent \/ Head(events) \in {"done", "error"})
  /\ UNCHANGED <<cliVars, typed, heldTerminal, procVars, errClosed, beatStop, sent,
                 typedLog, elsewhere>>

EventsDone ==
  /\ pc = "events"
  /\ events = <<>>
  /\ pc' = "scan"
  /\ UNCHANGED <<cliVars, resume, sending, scanVars, procVars, errClosed, beatStop,
                 sent, typedLog, elsewhere>>

Send ==
  /\ pc = "send"
  /\ Deliver
  /\ pc' = resume
  /\ UNCHANGED <<cliVars, resume, scanVars, procVars, errVars, beatVars, typedLog>>

\* Faulty variant: the guard only watches for an adapter's Done.
PostLoopWithoutGuard ==
  /\ pc = "postloop"
  /\ pc' = "drain"
  /\ UNCHANGED <<cliVars, resume, sending, scanVars, procVars, errClosed, beatStop,
                 sent, typedLog, elsewhere>>

\* After the scan loop: the guard for a turn without a terminal.
PostLoop ==
  /\ pc = "postloop"
  /\ IF GuardDue
     THEN SendGuard("drain")
     ELSE /\ pc' = "drain"
          /\ UNCHANGED <<sending, resume, terminalSent, heldTerminal>>
  /\ UNCHANGED <<cliVars, events, typed, seenDelta, seenToolUse, procVars, errClosed,
                 beatStop, sent, typedLog, elsewhere>>

\* Faulty variant: no time.After, so a descendant can hold the turn open.
DrainStderrUnbounded ==
  /\ pc = "drain"
  /\ reader = "done"
  /\ pc' = "wait"
  /\ UNCHANGED <<cliVars, resume, sending, scanVars, procVars, errClosed, beatStop,
                 sent, typedLog, elsewhere>>

\* select { <-stderrDone; <-time.After(WaitDelay) }: either may come first.
DrainStderr ==
  /\ pc = "drain"
  /\ pc' = "wait"
  /\ UNCHANGED <<cliVars, resume, sending, scanVars, procVars, errClosed, beatStop,
                 sent, typedLog, elsewhere>>

\* Faulty variant: waiting for the pipes' other ends as well as the process.
WaitProcessAndPipes ==
  /\ pc = "wait"
  /\ StderrAllClosed
  /\ waitFailed' \in {~exitOk} \union (IF cancelled THEN {TRUE} ELSE {})
  /\ errClosed' = TRUE
  /\ pc' = "stderr"
  /\ UNCHANGED <<cliVars, resume, sending, scanVars, tracker, beatStop, sent, typedLog,
                 elsewhere>>

\* cmd.Wait returns once the process is gone, whoever still holds its pipes, and
\* closes their read ends.  A process the context interrupted counts as failed
\* even when it exits with status 0.
WaitProcess ==
  /\ pc = "wait"
  /\ child = "exited"
  /\ waitFailed' \in {~exitOk} \union (IF cancelled THEN {TRUE} ELSE {})
  /\ errClosed' = TRUE
  /\ pc' = "stderr"
  /\ UNCHANGED <<cliVars, resume, sending, scanVars, tracker, beatStop, sent, typedLog,
                 elsewhere>>

\* Faulty variant: the terminal does not wait for the stderr goroutine.
AwaitStderrSkipped ==
  /\ pc = "stderr"
  /\ pc' = "held"
  /\ UNCHANGED <<cliVars, resume, sending, scanVars, procVars, errClosed, beatStop,
                 sent, typedLog, elsewhere>>

\* <-stderrDone: from here on no stderr line can be reported.
AwaitStderr ==
  /\ pc = "stderr"
  /\ reader = "done"
  /\ pc' = "held"
  /\ UNCHANGED <<cliVars, resume, sending, scanVars, procVars, errClosed, beatStop,
                 sent, typedLog, elsewhere>>

EmitHeld ==
  /\ pc = "held"
  /\ heldTerminal # <<>>
  /\ CallBack(Head(heldTerminal), "held")
  /\ heldTerminal' = Tail(heldTerminal)
  /\ UNCHANGED <<cliVars, sending, events, typed, seenDelta, seenToolUse, terminalSent,
                 procVars, errClosed, beatStop, sent, elsewhere>>

HeldDone ==
  /\ pc = "held"
  /\ heldTerminal = <<>>
  /\ pc' = "terminal"
  /\ UNCHANGED <<cliVars, resume, sending, scanVars, procVars, errClosed, beatStop,
                 sent, typedLog, elsewhere>>

\* Faulty variant: only the exit status is looked at.
OwnTerminalIgnoresCancel == IF waitFailed THEN "exited" ELSE "end"

\* What the bridge says itself when the adapter has not ended the turn.
OwnTerminal ==
  IF cancelled THEN "cancelled" ELSE IF waitFailed THEN "exited" ELSE "end"

\* Faulty variant: a cancelled turn closes its stream without a word.
DecideTerminalSilentOnCancel ==
  /\ pc = "terminal"
  /\ IF terminalSent \/ cancelled
     THEN pc' = "reap" /\ UNCHANGED <<sending, resume>>
     ELSE BeginSend(OwnTerminal, "typedEnd")
  /\ UNCHANGED <<cliVars, scanVars, procVars, errClosed, beatStop, sent, typedLog,
                 elsewhere>>

\* The switch after cmd.Wait.
DecideTerminal ==
  /\ pc = "terminal"
  /\ IF terminalSent
     THEN pc' = "reap" /\ UNCHANGED <<sending, resume>>
     ELSE BeginSend(OwnTerminal, "typedEnd")
  /\ UNCHANGED <<cliVars, scanVars, procVars, errClosed, beatStop, sent, typedLog,
                 elsewhere>>

\* Faulty variant: the bridge's own terminal is left out of the typed surface.
EmitOwnTerminalSkipped ==
  /\ pc = "typedEnd"
  /\ pc' = "reap"
  /\ UNCHANGED <<cliVars, resume, sending, scanVars, procVars, errClosed, beatStop, sent,
                 typedLog, elsewhere>>

\* The typed counterpart of the terminal just sent.
EmitOwnTerminal ==
  /\ pc = "typedEnd"
  /\ IF HasTyped
     THEN CallBack(sent[Len(sent)], "reap")
     ELSE pc' = "reap" /\ UNCHANGED <<resume, typedLog>>
  /\ UNCHANGED <<cliVars, sending, scanVars, procVars, errClosed, beatStop, sent,
                 elsewhere>>

\* The tracker learns that the process is gone.
ReportExit ==
  /\ pc = "reap"
  /\ tracker' = "exited"
  /\ pc' = "defers"
  /\ UNCHANGED <<cliVars, resume, sending, scanVars, waitFailed, errClosed, beatStop,
                 sent, typedLog, elsewhere>>

\* Faulty variant: stopHeartbeat is not called.
CloseStreamLeaksHeartbeat ==
  /\ pc = "defers"
  /\ pc' = "closed"
  /\ UNCHANGED <<cliVars, resume, sending, scanVars, procVars, errClosed, beatStop, sent,
                 typedLog, elsewhere>>

\* The deferred calls: stopHeartbeat, stdout.Close, close(ch).
CloseStream ==
  /\ pc = "defers"
  /\ StopBeat
  /\ pc' = "closed"
  /\ UNCHANGED <<cliVars, resume, sending, scanVars, procVars, errVars, chanVars,
                 typedLog>>

Parser ==
  \/ ScanLine \/ ScanEnds
  \/ HoldTerminal \/ EmitParsed \/ ParsedDone \/ CallbackReturns
  \/ ReplaceDone \/ ForwardEvent \/ EventsDone \/ Send
  \/ PostLoop \/ DrainStderr \/ WaitProcess \/ AwaitStderr
  \/ EmitHeld \/ HeldDone \/ DecideTerminal \/ EmitOwnTerminal
  \/ ReportExit \/ CloseStream

-----------------------------------------------------------------------------
(* The stderr goroutine.                                                   *)

readerRest == <<cliVars, pc, resume, sending, scanVars, procVars, errTodo, errClosed,
                beatVars, chanVars>>

ReadStderr ==
  /\ reader = "reading"
  /\ err > 0
  /\ err' = err - 1
  /\ typedLog' = Append(typedLog, "stderr")
  /\ reader' = "callback"
  /\ UNCHANGED readerRest

StderrCallbackReturns ==
  /\ reader = "callback"
  /\ reader' = "reading"
  /\ UNCHANGED <<readerRest, err, typedLog>>

\* End of the pipe, or its read end closed by cmd.Wait, which loses what has not
\* been read.
StderrEnds ==
  /\ reader = "reading"
  /\ errClosed \/ (err = 0 /\ StderrAllClosed)
  /\ reader' = "done"
  /\ UNCHANGED <<readerRest, err, typedLog>>

StderrReader == ReadStderr \/ StderrCallbackReturns \/ StderrEnds

-----------------------------------------------------------------------------
(* The rest of the system, with the bridge standing still.                 *)

parserVars == <<pc, resume, scanVars, procVars>>

HeartbeatStep ==
  /\ Heartbeat
  /\ UNCHANGED <<cliVars, parserVars, sending, errVars, chanVars>>

Consume ==
  /\ Receive
  /\ UNCHANGED <<cliVars, parserVars, errVars, beatVars, typedLog>>

ConsumerStops ==
  /\ Abandon
  /\ UNCHANGED <<cliVars, parserVars, errVars, beatVars, typedLog>>

bridgeVars == <<parserVars, sending, beatVars, chanVars, typedLog>>

Environment ==
  /\ CliStep
  /\ UNCHANGED <<bridgeVars, errVars>>

\* The CLI writes a line to stderr.  Without a typed callback stderr is /dev/null.
WriteStderr ==
  /\ child = "running"
  /\ HasTyped
  /\ errTodo > 0
  /\ errTodo' = errTodo - 1
  /\ err' = err + 1
  /\ UNCHANGED <<cliVars, bridgeVars, errClosed, reader>>

Next ==
  \/ StartFails
  \/ StartTurn
  \/ Parser
  \/ StderrReader
  \/ HeartbeatStep
  \/ Consume
  \/ ConsumerStops
  \/ Environment
  \/ WriteStderr

Spec == Init /\ [][Next]_vars

(***************************************************************************)
(* Fairness.  The goroutines of the bridge are scheduled and a consumer    *)
(* that has not stopped keeps reading.  A cancelled process is eventually  *)
(* killed (SIGKILL after WaitDelay).  Nothing makes a CLI that was not     *)
(* cancelled finish, or a descendant let go of a pipe: the properties that *)
(* need either say so with the formulas after FairSpec.                    *)
(***************************************************************************)
FairSpec ==
  /\ Spec
  /\ WF_vars(Parser)
  /\ WF_vars(StderrReader)
  /\ WF_vars(BeatProgress /\ UNCHANGED <<cliVars, parserVars, sending, errVars, chanVars>>)
  /\ WF_vars(Consume)
  /\ WF_vars(Killed /\ UNCHANGED <<bridgeVars, errVars>>)

\* The CLI does its work to the end unless a full pipe stops it.
CliWorks ==
  WF_vars((Finish \/ \E l \in Lines : WriteLine(l)) /\ UNCHANGED <<bridgeVars, errVars>>)

\* Descendants let go of stdout in the end.
StdoutReleased ==
  WF_vars(Release("stdout") /\ UNCHANGED <<bridgeVars, errVars>>)

-----------------------------------------------------------------------------
(* Properties.                                                             *)

Closed == pc = "closed"

Started == pc \notin {"start", "rejected"}

Stream == INSTANCE TurnStream WITH closed <- Closed

\* The contract quoted at subprocess.go:251 and pty.go:218: with a CLI that ends
\* its turn once, the stream is events, then exactly one terminal, then close,
\* whatever mix of guard, adapter terminal, cancellation and exit status happens.
StreamContract == Stream!Spec

\* The stream never closes without a terminal ("Always emit a terminal event so
\* consumers see an explicit boundary before the channel closes").
ClosedHasTerminal == Closed => HasTerminal(sent)

\* The tracker's view of the process is true: a live process is known to it, one
\* it was told is gone has been reaped, its stderr is collected and the consumer
\* has its terminal, and a closed stream leaves no process behind.
TrackerIsTruthful ==
  /\ child = "running" => tracker = "started"
  /\ tracker = "exited" => child = "exited" /\ reader = "done" /\ HasTerminal(sent)
  /\ Closed => tracker = "exited"

\* Typed terminals wait for stderr: once one is out, neither a stderr line nor any
\* other event of the turn follows, whichever goroutine it would come from.  Only
\* the heartbeat goroutine, which no one synchronises, is left out.
TypedTerminalsAreLast ==
  \A i, j \in 1..Len(typedLog) :
    i < j /\ typedLog[i] \in Terminal => typedLog[j] \in Terminal \union {"heartbeat"}

\* The two surfaces tell the same story: unless the guard replaced a Done, the
\* typed callback saw the same terminals, in the same order, as the stream.
SurfacesAgree ==
  /\ Closed
  /\ HasTyped
  /\ \A i \in 1..Len(sent) : sent[i] # "guard"
  => Terminals(typedLog) = Terminals(sent)

\* A turn ends: with a CLI that does its work and descendants that let go of stdout,
\* the stream closes, even when one of them never lets go of stderr.
TurnEnds == CliWorks /\ StdoutReleased => (Started ~> Closed)

\* Cancelling ends a turn: the CLI is killed and the stream closes, even when it
\* would never have finished by itself.
CancelledTurnEnds == StdoutReleased => ((Started /\ cancelled) ~> Closed)

\* No goroutine outlives the turn: after the close the stderr reader is gone and the
\* heartbeat goroutine ends for good.
GoroutinesEnd == Closed ~> [](reader = "done" /\ beat = "off")
=============================================================================
