----------------------------- MODULE CliProcess -----------------------------
(***************************************************************************)
(* The world around a bridge: the CLI a turn runs, its output pipe and the *)
(* caller's context.  None of it is code of this repository; it is what    *)
(* os/exec, the kernel and the CLI do as seen from streamCLI, which starts *)
(* the command with                                                        *)
(*     cmd.Cancel    = SIGTERM to the process                              *)
(*     cmd.WaitDelay = the grace period before SIGKILL                     *)
(* so that cancelling the context ends the process, with or without a      *)
(* graceful exit, but does nothing to its descendants.                     *)
(***************************************************************************)
EXTENDS TurnEvents

CONSTANTS
  Lines,      \* the lines the CLI may write to stdout
  MaxLines,   \* bound: lines per turn
  PipeCap,    \* bound: lines the stdout pipe holds before a write blocks
  Holdable,   \* pipes a descendant of the CLI may keep open after it exits
  OneTurn     \* the CLI reports the end of the turn once and then writes nothing

ASSUME CliAssumption ==
  /\ \A l \in Lines : IsLine(l)
  /\ MaxLines \in Nat
  /\ PipeCap \in Nat \ {0}
  /\ Holdable \subseteq {"stdout", "stderr"}
  /\ OneTurn \in BOOLEAN

\* No adapter reports anything on the stream after the event that ends the turn in
\* the same line.
ASSUME LineAssumption ==
  \A l \in Lines : \A i \in 1..Len(l.stream) :
    l.stream[i] \in Terminal => i = Len(l.stream)

\* Every adapter reads the end of the turn from the same field of the line on both
\* surfaces.
ASSUME SurfaceAssumption ==
  \A l \in Lines : Terminals(TypedOf(l)) = Terminals(l.stream)

VARIABLES
  child,      \* "unborn", "running" or "exited"
  exitOk,     \* the CLI exited with status 0
  todo,       \* lines the CLI has yet to write
  out,        \* lines in the stdout pipe
  shut,       \* the CLI has closed its stdout and lives on
  turnOver,   \* the CLI has written a line that ends the turn
  holders,    \* pipes a descendant holds open
  cancelled   \* the caller's context is done

cliVars == <<child, exitOk, todo, out, shut, turnOver, holders, cancelled>>

CliTypeOK ==
  /\ child \in {"unborn", "running", "exited"}
  /\ exitOk \in BOOLEAN
  /\ todo \in 0..MaxLines
  /\ out \in Seq(Lines)
  /\ shut \in BOOLEAN
  /\ turnOver \in BOOLEAN
  /\ holders \subseteq {"stdout", "stderr"}
  /\ cancelled \in BOOLEAN

CliInit ==
  /\ child = "unborn"
  /\ exitOk = TRUE
  /\ todo \in 0..MaxLines
  /\ out = <<>>
  /\ shut = FALSE
  /\ turnOver = FALSE
  /\ holders = {}
  /\ cancelled = FALSE

\* cmd.Start: refused when the context is already done.
Spawn ==
  /\ child = "unborn"
  /\ ~cancelled
  /\ child' = "running"
  /\ UNCHANGED <<exitOk, todo, out, shut, turnOver, holders, cancelled>>

\* The CLI writes one line; the write blocks while the pipe is full.
WriteLine(l) ==
  /\ child = "running"
  /\ todo > 0
  /\ ~shut
  /\ Len(out) < PipeCap
  /\ OneTurn /\ turnOver => Quiet(l)
  /\ out' = Append(out, l)
  /\ todo' = todo - 1
  /\ turnOver' = (turnOver \/ Ends(l))
  /\ UNCHANGED <<child, exitOk, shut, holders, cancelled>>

\* The CLI is gone; descendants may still hold some of its pipes.
Exit(ok) ==
  /\ child = "running"
  /\ child' = "exited"
  /\ exitOk' = ok
  /\ todo' = 0
  /\ holders' \in SUBSET (IF shut THEN Holdable \ {"stdout"} ELSE Holdable)
  /\ UNCHANGED <<out, shut, turnOver, cancelled>>

\* It closes its stdout, no descendant has it open, and the process lingers.
ShutStdout ==
  /\ child = "running"
  /\ ~shut
  /\ shut' = TRUE
  /\ todo' = 0
  /\ UNCHANGED <<child, exitOk, out, turnOver, holders, cancelled>>

\* It has nothing more to write and exits, with any status.
Finish == (todo = 0 \/ (OneTurn /\ turnOver)) /\ \E ok \in BOOLEAN : Exit(ok)

\* It dies in the middle of its work.
Crash == Exit(FALSE)

\* SIGTERM, then SIGKILL after the grace period.  A CLI that handles SIGTERM may
\* still write what it has and exit with status 0.
Killed == cancelled /\ \E ok \in BOOLEAN : Exit(ok)

\* The last descendant with the pipe open closes it.
Release(p) ==
  /\ p \in holders
  /\ holders' = holders \ {p}
  /\ UNCHANGED <<child, exitOk, todo, out, shut, turnOver, cancelled>>

\* The caller cancels the context, or its deadline passes.
Cancel ==
  /\ ~cancelled
  /\ cancelled' = TRUE
  /\ UNCHANGED <<child, exitOk, todo, out, shut, turnOver, holders>>

CliStep ==
  \/ \E l \in Lines : WriteLine(l)
  \/ ShutStdout
  \/ Finish
  \/ Crash
  \/ Killed
  \/ \E p \in Holdable : Release(p)
  \/ Cancel

\* The read side of stdout has been read to its end.
StdoutEOF == out = <<>> /\ (shut \/ child = "exited") /\ "stdout" \notin holders

StderrAllClosed == child = "exited" /\ "stderr" \notin holders
=============================================================================
