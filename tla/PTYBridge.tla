----------------------------- MODULE PTYBridge ------------------------------
(***************************************************************************)
(* One turn of PTYBridge.streamCLI (provider/pty.go): the CLI runs in a    *)
(* pseudo-terminal, so stdout and stderr are one stream, there is no       *)
(* stderr goroutine, and typed events, terminals included, are emitted as  *)
(* soon as their line is parsed.  The terminal reports its end only when   *)
(* nobody has it open any more: a descendant of the CLI that the hangup    *)
(* signal of the session leader's exit does not reach, or that ignores it, *)
(* keeps it, like the "stdout" pipe of CliProcess.                         *)
(***************************************************************************)
EXTENDS TurnChannel, TypedSurface

\* The terminal is the only thing of the bridge's a descendant can hold.
ASSUME TerminalAssumption == Holdable \subseteq {"stdout"}

VARIABLES
  pc,         \* where the parser goroutine is
  resume,     \* where it goes on after a send or a callback
  events,     \* stream events of the current line still to be forwarded
  typed,      \* typed events of the current line still to be emitted
  seenDelta, seenToolUse, terminalSent,
  waitFailed, \* cmd.Wait returned an error
  tracker     \* what the process callback was last told

scanVars == <<events, typed, seenDelta, seenToolUse, terminalSent>>
procVars == <<waitFailed, tracker>>
vars == <<cliVars, pc, resume, sending, scanVars, procVars, beatVars, chanVars,
          typedLog>>

\* What the heartbeat and the consumer keep for themselves.
elsewhere == <<beatVars, received, abandoned>>

Labels == {"start", "rejected", "scan", "parsed", "events", "send", "guardedLine",
           "guardedEnd", "callback", "postloop", "wait", "terminal", "typedEnd",
           "reap", "defers", "closed"}

TypeOK ==
  /\ CliTypeOK
  /\ ChannelTypeOK
  /\ TypedTypeOK
  /\ pc \in Labels
  /\ resume \in {"parsed", "events", "guardedLine", "guardedEnd", "wait", "typedEnd", "reap"}
  /\ events \in Seq(AdapterEvents)
  /\ typed \in Seq(AdapterEvents)
  /\ seenDelta \in BOOLEAN
  /\ seenToolUse \in BOOLEAN
  /\ terminalSent \in BOOLEAN
  /\ waitFailed \in BOOLEAN
  /\ tracker \in {"none", "started", "exited"}

Init ==
  /\ CliInit
  /\ ChannelInit
  /\ TypedInit
  /\ pc = "start" /\ resume = "events"
  /\ events = <<>> /\ typed = <<>>
  /\ seenDelta = FALSE /\ seenToolUse = FALSE /\ terminalSent = FALSE
  /\ waitFailed = FALSE /\ tracker = "none"

-----------------------------------------------------------------------------
(* StreamChat: the caller's goroutine.                                     *)

\* No user message, or pty.Start fails: an error instead of a stream.
StartFails ==
  /\ pc = "start"
  /\ pc' = "rejected"
  /\ UNCHANGED <<cliVars, resume, sending, scanVars, procVars, beatVars, chanVars,
                 typedLog>>

StartTurn ==
  /\ pc = "start"
  /\ Spawn
  /\ pc' = "scan"
  /\ tracker' = "started"
  /\ StartBeat
  /\ UNCHANGED <<resume, sending, scanVars, waitFailed, chanVars, typedLog>>

-----------------------------------------------------------------------------
(* The parser goroutine.                                                   *)

\* The next line, parsed.  A line ParseLine rejects is skipped.
ScanLine ==
  /\ pc = "scan"
  /\ out # <<>>
  /\ Head(out).form # "overlong"
  /\ out' = Tail(out)
  /\ IF Head(out).form = "malformed"
     THEN UNCHANGED <<pc, events, typed>>
     ELSE /\ pc' = "parsed"
          /\ events' = Head(out).stream
          /\ typed' = IF HasTyped THEN TypedOf(Head(out)) ELSE <<>>
  /\ UNCHANGED <<child, exitOk, todo, shut, turnOver, holders, cancelled, resume, sending,
                 seenDelta, seenToolUse, terminalSent, procVars, sent, typedLog,
                 elsewhere>>

\* Faulty variant: EIO is taken for a passing condition and the read retried.
ScanEndsIgnoresHangup ==
  /\ pc = "scan"
  /\ out # <<>> /\ Head(out).form = "overlong"
  /\ pc' = "postloop"
  /\ UNCHANGED <<cliVars, resume, sending, scanVars, procVars, sent, typedLog,
                 elsewhere>>

\* EIO once nobody has the terminal open and its output is read, or a line that
\* overflows the scanner's buffer, after which nothing more is read.
ScanEnds ==
  /\ pc = "scan"
  /\ StdoutEOF \/ (out # <<>> /\ Head(out).form = "overlong")
  /\ pc' = "postloop"
  /\ UNCHANGED <<cliVars, resume, sending, scanVars, procVars, sent, typedLog,
                 elsewhere>>

\* The parser goroutine is inside the typed callback.
CallBack(e, next) ==
  /\ typedLog' = Append(typedLog, e)
  /\ pc' = "callback"
  /\ resume' = next

\* emitTyped for the whole line before any of its stream events is forwarded.
EmitParsed ==
  /\ pc = "parsed"
  /\ typed # <<>>
  /\ CallBack(Head(typed), "parsed")
  /\ typed' = Tail(typed)
  /\ UNCHANGED <<cliVars, sending, events, seenDelta, seenToolUse, terminalSent,
                 procVars, sent, elsewhere>>

ParsedDone ==
  /\ pc = "parsed"
  /\ typed = <<>>
  /\ pc' = "events"
  /\ UNCHANGED <<cliVars, resume, sending, scanVars, procVars, sent, typedLog,
                 elsewhere>>

CallbackReturns ==
  /\ pc = "callback"
  /\ pc' = resume
  /\ UNCHANGED <<cliVars, resume, sending, scanVars, procVars, sent, typedLog,
                 elsewhere>>

\* The turn called tools and said nothing, and nothing has ended it yet.
GuardDue == seenToolUse /\ ~seenDelta /\ ~terminalSent /\ ~cancelled

BeginSend(e, next) ==
  /\ sending' = e
  /\ pc' = "send"
  /\ resume' = next

\* emitGuardIfNeeded: to the stream first, then to the typed surface.  The flag is
\* private to the parser goroutine, so it may be set when the send begins.
SendGuard(next) ==
  /\ BeginSend("guard", next)
  /\ terminalSent' = TRUE

\* Faulty variant: the adapter's Done is forwarded after the guard.
ReplaceDoneFallsThrough ==
  /\ pc = "events"
  /\ events # <<>>
  /\ Head(events) = "done"
  /\ GuardDue
  /\ SendGuard("guardedLine")
  /\ UNCHANGED <<cliVars, events, typed, seenDelta, seenToolUse, procVars, sent,
                 typedLog, elsewhere>>

\* The adapter's EventDone is replaced by the guard.
ReplaceDone ==
  /\ pc = "events"
  /\ events # <<>>
  /\ Head(events) = "done"
  /\ GuardDue
  /\ SendGuard("guardedLine")
  /\ events' = Tail(events)
  /\ UNCHANGED <<cliVars, typed, seenDelta, seenToolUse, procVars, sent, typedLog,
                 elsewhere>>

\* The typed guard, then on with the line or past the loop.
EmitGuard ==
  /\ pc \in {"guardedLine", "guardedEnd"}
  /\ LET next == IF pc = "guardedLine" THEN "events" ELSE "wait" IN
       IF HasTyped
       THEN CallBack("guard", next)
       ELSE pc' = next /\ UNCHANGED <<resume, typedLog>>
  /\ UNCHANGED <<cliVars, sending, scanVars, procVars, sent, elsewhere>>

\* Every other adapter event is forwarded as it is.
ForwardEvent ==
  /\ pc = "events"
  /\ events # <<>>
  /\ ~(Head(events) = "done" /\ GuardDue)
  /\ BeginSend(Head(events), "events")
  /\ events' = Tail(events)
  /\ seenDelta' = (seenDelta \/ Head(events) = "delta")
  /\ seenToolUse' = (seenToolUse \/ Head(events) = "tool_use")
  /\ terminalSent' = (terminalSent \/ Head(events) \in {"done", "error"})
  /\ UNCHANGED <<cliVars, typed, procVars, sent, typedLog, elsewhere>>

EventsDone ==
  /\ pc = "events"
  /\ events = <<>>
  /\ pc' = "scan"
  /\ UNCHANGED <<cliVars, resume, sending, scanVars, procVars, sent, typedLog,
                 elsewhere>>

Send ==
  /\ pc = "send"
  /\ Deliver
  /\ pc' = resume
  /\ UNCHANGED <<cliVars, resume, scanVars, procVars, beatVars, typedLog>>

\* After the scan loop: the guard for a turn without a terminal.
PostLoop ==
  /\ pc = "postloop"
  /\ IF GuardDue
     THEN SendGuard("guardedEnd")
     ELSE pc' = "wait" /\ UNCHANGED <<sending, resume, terminalSent>>
  /\ UNCHANGED <<cliVars, events, typed, seenDelta, seenToolUse, procVars, sent,
                 typedLog, elsewhere>>

\* cmd.Wait.  A process the context interrupted counts as failed even when it exits
\* with status 0.
WaitProcess ==
  /\ pc = "wait"
  /\ child = "exited"
  /\ waitFailed' \in {~exitOk} \union (IF cancelled THEN {TRUE} ELSE {})
  /\ pc' = "terminal"
  /\ UNCHANGED <<cliVars, resume, sending, scanVars, tracker, sent, typedLog, elsewhere>>

\* Faulty variant: only the exit status is looked at.
OwnTerminalIgnoresCancel == IF waitFailed THEN "exited" ELSE "end"

\* What the bridge says itself when the adapter has not ended the turn.
OwnTerminal ==
  IF cancelled THEN "cancelled" ELSE IF waitFailed THEN "exited" ELSE "end"

\* The switch after cmd.Wait.
DecideTerminal ==
  /\ pc = "terminal"
  /\ IF terminalSent
     THEN pc' = "reap" /\ UNCHANGED <<sending, resume>>
     ELSE BeginSend(OwnTerminal, "typedEnd")
  /\ UNCHANGED <<cliVars, scanVars, procVars, sent, typedLog, elsewhere>>

\* The typed counterpart of the terminal just sent.
EmitOwnTerminal ==
  /\ pc = "typedEnd"
  /\ IF HasTyped
     THEN CallBack(sent[Len(sent)], "reap")
     ELSE pc' = "reap" /\ UNCHANGED <<resume, typedLog>>
  /\ UNCHANGED <<cliVars, sending, scanVars, procVars, sent, elsewhere>>

\* The tracker learns that the process is gone.
ReportExit ==
  /\ pc = "reap"
  /\ tracker' = "exited"
  /\ pc' = "defers"
  /\ UNCHANGED <<cliVars, resume, sending, scanVars, waitFailed, sent, typedLog,
                 elsewhere>>

\* The deferred calls: stopHeartbeat, ptmx.Close, close(ch).
CloseStream ==
  /\ pc = "defers"
  /\ StopBeat
  /\ pc' = "closed"
  /\ UNCHANGED <<cliVars, resume, sending, scanVars, procVars, chanVars, typedLog>>

Parser ==
  \/ ScanLine \/ ScanEnds
  \/ EmitParsed \/ ParsedDone \/ CallbackReturns
  \/ ReplaceDone \/ EmitGuard \/ ForwardEvent \/ EventsDone \/ Send
  \/ PostLoop \/ WaitProcess \/ DecideTerminal \/ EmitOwnTerminal
  \/ ReportExit \/ CloseStream

-----------------------------------------------------------------------------
(* The rest of the system, with the bridge standing still.                 *)

parserVars == <<pc, resume, scanVars, procVars>>

HeartbeatStep ==
  /\ Heartbeat
  /\ UNCHANGED <<cliVars, parserVars, sending, chanVars>>

Consume ==
  /\ Receive
  /\ UNCHANGED <<cliVars, parserVars, beatVars, typedLog>>

ConsumerStops ==
  /\ Abandon
  /\ UNCHANGED <<cliVars, parserVars, beatVars, typedLog>>

Environment ==
  /\ CliStep
  /\ UNCHANGED <<parserVars, sending, beatVars, chanVars, typedLog>>

Next ==
  \/ StartFails
  \/ StartTurn
  \/ Parser
  \/ HeartbeatStep
  \/ Consume
  \/ ConsumerStops
  \/ Environment

Spec == Init /\ [][Next]_vars

(***************************************************************************)
(* Fairness as in SubprocessBridge: the bridge's goroutines and a reading  *)
(* consumer run on, and a cancelled CLI is killed in the end.  Nothing     *)
(* makes a descendant close the terminal.                                  *)
(***************************************************************************)
FairSpec ==
  /\ Spec
  /\ WF_vars(Parser)
  /\ WF_vars(BeatProgress /\ UNCHANGED <<cliVars, parserVars, sending, chanVars>>)
  /\ WF_vars(Consume)
  /\ WF_vars(Killed /\ UNCHANGED <<parserVars, sending, beatVars, chanVars, typedLog>>)

\* Descendants let go of the terminal in the end.
StdoutReleased ==
  WF_vars(/\ Release("stdout")
          /\ UNCHANGED <<parserVars, sending, beatVars, chanVars, typedLog>>)

-----------------------------------------------------------------------------
(* Properties.                                                             *)

Closed == pc = "closed"

Started == pc \notin {"start", "rejected"}

Stream == INSTANCE TurnStream WITH closed <- Closed

\* The contract quoted at pty.go:218: with a CLI that ends its turn once, the stream
\* is events, then exactly one terminal, then close.
StreamContract == Stream!Spec

\* The two surfaces tell the same story: unless the guard replaced a Done, the
\* typed callback saw the same terminals, in the same order, as the stream.
SurfacesAgree ==
  /\ Closed
  /\ HasTyped
  /\ \A i \in 1..Len(sent) : sent[i] # "guard"
  => Terminals(typedLog) = Terminals(sent)

\* Cancelling ends a turn: the CLI is killed, the terminal reports its end, and the
\* stream closes, provided descendants let go of the terminal; apart from them only a
\* consumer that stops reading can keep the stream open.  The proviso is needed: the
\* wait with its grace period comes after the scan loop and cannot end it.
CancelledTurnEnds ==
  StdoutReleased => ((Started /\ cancelled) ~> (Closed \/ abandoned))
=============================================================================
