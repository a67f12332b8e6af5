------------------------------ MODULE FakeCLI -------------------------------
(***************************************************************************)
(* A fake CLI that has claimed its run: the engine that plays the run's    *)
(* steps, the goroutine that reads stdin, the goroutine that handles       *)
(* SIGTERM (serve.go), and the program under test at the other end of the  *)
(* pipes.  Several goroutines append to one call file.                     *)
(***************************************************************************)
EXTENDS FakeCalls, Selection

CONSTANTS
  ChanCap,     \* capacity of the channel of lines (256 in the code)
  MaxSent,     \* bound: lines the program under test writes
  MaxSignals   \* bound: SIGTERMs it sends

ASSUME EngineAssumption == ChanCap \in Nat \ {0} /\ MaxSent \in Nat /\ MaxSignals \in Nat

-----------------------------------------------------------------------------
(* Frames: what a JSON line is to the fake.  A Claude control request is    *)
(* paired with its answer by an id of its own.                             *)

Frames ==
  [kind : {"line", "notification", "request", "response", "control_request", "control_response"},
   name : STRING, id : Nat]
Frame(kind, name, id) == [kind |-> kind, name |-> name, id |-> id]
Asks(f) == f.kind \in {"request", "control_request"}
Answers(f) == f.kind \in {"response", "control_response"}
IsControl(f) == f.kind \in {"control_request", "control_response"}
IdKey(f) == <<IsControl(f), f.id>>

\* A step of a run does one thing.
RunStep ==
  [form : {"stdout", "stderr", "send", "recv", "text", "echo", "eof", "sleep", "hang", "exit"},
   frame : Frames, code : Nat]

\* The requests a transcript has received before its n-th step and not answered.
Owed(steps, n) ==
  { IdKey(steps[i].frame) : i \in
      { j \in 1..n-1 :
          /\ steps[j].form = "recv" /\ Asks(steps[j].frame)
          /\ \A k \in j+1..n-1 :
               ~(steps[k].form = "send" /\ Answers(steps[k].frame)
                   /\ IdKey(steps[k].frame) = IdKey(steps[j].frame)) } }

\* A transcript answers a request it has received, and once; as plain output it
\* writes no answers.
ASSUME TranscriptAssumption ==
  \A s \in Scenarios :
    /\ s.frames \subseteq Frames
    /\ \A i \in DOMAIN s.runs :
         LET steps == s.runs[i].steps
         IN  /\ steps \in Seq(RunStep)
             /\ \A n \in 1..Len(steps) : Answers(steps[n].frame) =>
                  /\ steps[n].form = "send" => IdKey(steps[n].frame) \in Owed(steps, n)
                  /\ steps[n].form # "stdout"

VARIABLES
  eng,         \* the engine and the reader of each process
  io,          \* its pipes: lines sent and how many are read, whether stdin is
               \* open, lines written to stdout
  term,        \* its SIGTERM handler
  signals

engVars == <<eng, io, term, signals>>
vars == <<callVars, engVars>>

\* step: position in the run; pending: the line recv pushed back; lines: the
\* channel; hold: the line the reader has recorded and not yet handed on; ids:
\* request ids of the transcript to those of the live client.
NewEngine == [step |-> 1, pending |-> <<>>, lines |-> <<>>, hold |-> <<>>,
              reader |-> "read", ids |-> [k \in {} |-> 0]]
NewPipes == [sent |-> <<>>, read |-> 0, open |-> TRUE, out |-> <<>>]

Init ==
  /\ CallsInit
  /\ eng = [p \in Proc |-> NewEngine]
  /\ io = [p \in Proc |-> [NewPipes EXCEPT !.open = scenario.frames # {}]]
  /\ term = [p \in Proc |-> "off"]
  /\ signals = 0

-----------------------------------------------------------------------------
(* A frame that is waited for, and the ids learned on the way.             *)

Matches(want, got) ==
  CASE want.kind = "line" -> TRUE
    [] want.kind \in {"request", "notification"} ->
         got.kind = want.kind /\ got.name = want.name
    [] want.kind = "response" -> got.kind = want.kind /\ got.id = want.id
    [] OTHER -> got.kind = want.kind

\* The ids a matched frame teaches the engine.
Remember(ids, want, got) ==
  IF Asks(want) THEN [k \in DOMAIN ids \union {IdKey(want)} |->
                        IF k = IdKey(want) THEN got.id ELSE ids[k]]
  ELSE ids

\* Faulty variant: the transcript's own id goes out.
RemapNone(ids, f) == f

\* A response goes out under the id of the live request it answers.
Remap(ids, f) ==
  IF Answers(f) /\ IdKey(f) \in DOMAIN ids
  THEN [f EXCEPT !.id = ids[IdKey(f)]] ELSE f

\* The JSON-RPC error that refuses a request nobody scripted.
ErrorReply(f) == Frame("response", "error", f.id)

-----------------------------------------------------------------------------
(* The engine.                                                             *)

Steps(p) == scenario.runs[run[p]].steps
Playing(p) == pc[p] = "serve" /\ eng[p].step <= Len(Steps(p))
Step(p) == Steps(p)[eng[p].step]
Plays(p, form) == Playing(p) /\ Step(p).form = form

\* e.next(): the line pushed back, or the next of the channel, or the end.
HasLine(p) == eng[p].pending # <<>> \/ eng[p].lines # <<>>
Line(p) == Head(eng[p].pending \o eng[p].lines)
Taken(p) ==
  IF eng[p].pending # <<>> THEN [eng[p] EXCEPT !.pending = <<>>]
  ELSE [eng[p] EXCEPT !.lines = Tail(@)]
InputEnded(p) == ~HasLine(p) /\ eng[p].reader = "done"

Advance(e) == [e EXCEPT !.step = @ + 1]
SetEngine(p, e) == eng' = [eng EXCEPT ![p] = e]
Prints(p, f) == io' = [io EXCEPT ![p].out = Append(@, f)]

\* The run is over: its exit record is next.
Finishes(p, status) == Goto(p, "record") /\ code' = [code EXCEPT ![p] = status]

\* What the engine leaves alone while its run goes on.
aside == <<scenario, args, claimVars, linked, kills, term, signals>>
GoesOn == UNCHANGED <<aside, pc, code>>

\* handleSIGTERM, and the start of the engine and its reader.
InstallHandler(p) ==
  /\ pc[p] = "handler"
  /\ term' = [term EXCEPT ![p] = IF scenario.runs[run[p]].sigterm = "die" THEN "off" ELSE "ready"]
  /\ Goto(p, "serve")
  /\ UNCHANGED <<scenario, args, claimVars, file, linked, code, kills, eng, io, signals>>

\* Stdout, Stderr and Send; nobody reads stderr here.
Output(p) ==
  /\ Plays(p, "stdout") \/ Plays(p, "stderr") \/ Plays(p, "send")
  /\ IF Step(p).form = "stderr" THEN UNCHANGED io
     ELSE Prints(p, IF Step(p).form = "send" THEN Remap(eng[p].ids, Step(p).frame)
                    ELSE Step(p).frame)
  /\ SetEngine(p, Advance(eng[p]))
  /\ GoesOn /\ UNCHANGED file

\* recv, with the line it waits for.
RecvMatches(p) ==
  /\ Plays(p, "recv") /\ HasLine(p) /\ Matches(Step(p).frame, Line(p))
  /\ SetEngine(p, Advance([Taken(p) EXCEPT !.ids = Remember(@, Step(p).frame, Line(p))]))
  /\ GoesOn /\ UNCHANGED <<file, io>>

\* A notification the client never sends is skipped: the line is kept for the
\* next step.
RecvSkips(p) ==
  /\ Plays(p, "recv") /\ HasLine(p) /\ ~Matches(Step(p).frame, Line(p))
  /\ Step(p).frame.kind = "notification"
  /\ SetEngine(p, Advance([Taken(p) EXCEPT !.pending = <<Line(p)>>]))
  /\ Writes(p, Record("note", "not sent"))
  /\ GoesOn /\ UNCHANGED io

\* Another line: a notification is ignored, a request refused, the rest an
\* error.  recv goes on waiting.
RecvOther(p) ==
  /\ Plays(p, "recv") /\ HasLine(p) /\ ~Matches(Step(p).frame, Line(p))
  /\ Step(p).frame.kind # "notification"
  /\ SetEngine(p, Taken(p))
  /\ Writes(p, Record(IF Line(p).kind = "notification" THEN "note" ELSE "error", "unexpected"))
  /\ IF Line(p).kind = "request" THEN Prints(p, ErrorReply(Line(p))) ELSE UNCHANGED io
  /\ GoesOn

\* Faulty variant: RecvText goes on waiting when stdin closes.
OnlyRecvFails(p) ==
  /\ Plays(p, "recv")
  /\ InputEnded(p)
  /\ Writes(p, Record("error", "stdin closed"))
  /\ Finishes(p, exitFakeError)
  /\ UNCHANGED <<aside, eng, io>>

\* recv and RecvText fail when stdin closes while they wait.
RecvFails(p) ==
  /\ Plays(p, "recv") \/ Plays(p, "text")
  /\ InputEnded(p)
  /\ Writes(p, Record("error", "stdin closed"))
  /\ Finishes(p, exitFakeError)
  /\ UNCHANGED <<aside, eng, io>>

RecvText(p) ==
  /\ Plays(p, "text") /\ HasLine(p)
  /\ SetEngine(p, Advance(Taken(p)))
  /\ GoesOn /\ UNCHANGED <<file, io>>

EchoLine(p) ==
  /\ Plays(p, "echo") /\ HasLine(p)
  /\ SetEngine(p, Taken(p))
  /\ Prints(p, Frame("line", "echo", Line(p).id))
  /\ GoesOn /\ UNCHANGED file

\* drain: requests nobody scripted get an error, other lines nothing.
DrainLine(p) ==
  /\ Plays(p, "eof") /\ HasLine(p)
  /\ SetEngine(p, Taken(p))
  /\ IF Line(p).kind = "request"
     THEN Writes(p, Record("error", "unexpected")) /\ Prints(p, ErrorReply(Line(p)))
     ELSE UNCHANGED <<file, io>>
  /\ GoesOn

\* The end of stdin ends Echo and AwaitEOF; a pause ends by itself.
Passes(p) ==
  /\ \/ (Plays(p, "echo") \/ Plays(p, "eof")) /\ InputEnded(p)
     \/ Plays(p, "sleep")
  /\ SetEngine(p, Advance(eng[p]))
  /\ GoesOn /\ UNCHANGED <<file, io>>

\* An Exit step, or no step left.
RunEnds(p) ==
  /\ pc[p] = "serve"
  /\ \/ Plays(p, "exit") /\ Finishes(p, Step(p).code)
     \/ ~Playing(p) /\ Finishes(p, 0)
  /\ UNCHANGED <<aside, file, eng, io>>

EngineStep(p) ==
  \/ InstallHandler(p) \/ Output(p) \/ RecvMatches(p) \/ RecvSkips(p) \/ RecvOther(p)
  \/ RecvFails(p) \/ RecvText(p) \/ EchoLine(p) \/ DrainLine(p) \/ Passes(p) \/ RunEnds(p)

-----------------------------------------------------------------------------
(* readLines: a line is recorded before the engine can see it.  The        *)
(* goroutine lives until the process ends.                                 *)

Alive(p) == pc[p] \in Serving \ {"handler"} /\ run[p] # NoRun

ReadLine(p) ==
  /\ Alive(p) /\ eng[p].reader = "read" /\ io[p].read < Len(io[p].sent)
  /\ SetEngine(p, [eng[p] EXCEPT !.hold = <<io[p].sent[io[p].read + 1]>>, !.reader = "record"])
  /\ io' = [io EXCEPT ![p].read = @ + 1]
  /\ GoesOn /\ UNCHANGED file

RecordLine(p) ==
  /\ Alive(p) /\ eng[p].reader = "record"
  /\ Writes(p, Record("stdin", Head(eng[p].hold)))
  /\ SetEngine(p, [eng[p] EXCEPT !.reader = "send"])
  /\ GoesOn /\ UNCHANGED io

\* Faulty variant: the line is handed on first, and recorded when there is time.
HandOnAtOnce(p) ==
  /\ Alive(p) /\ eng[p].reader = "record" /\ Len(eng[p].lines) < ChanCap
  /\ SetEngine(p, [eng[p] EXCEPT !.lines = @ \o eng[p].hold, !.hold = <<>>, !.reader = "read"])
  /\ GoesOn /\ UNCHANGED <<file, io>>

HandOn(p) ==
  /\ Alive(p) /\ eng[p].reader = "send" /\ Len(eng[p].lines) < ChanCap
  /\ SetEngine(p, [eng[p] EXCEPT !.lines = @ \o eng[p].hold, !.hold = <<>>, !.reader = "read"])
  /\ GoesOn /\ UNCHANGED <<file, io>>

ReadEnds(p) ==
  /\ Alive(p) /\ eng[p].reader = "read"
  /\ io[p].read = Len(io[p].sent) /\ ~io[p].open
  /\ SetEngine(p, [eng[p] EXCEPT !.reader = "done"])
  /\ GoesOn /\ UNCHANGED <<file, io>>

ReaderStep(p) == ReadLine(p) \/ RecordLine(p) \/ HandOn(p) \/ ReadEnds(p)

-----------------------------------------------------------------------------
(* The SIGTERM goroutine: it records the signal and, for a run that exits  *)
(* on it, the exit, and ends the process under the engine.                 *)

beside == <<scenario, args, claimVars, linked, kills, eng, io, signals>>

RecordSignal(p) ==
  /\ Running(p) /\ term[p] = "caught"
  /\ Writes(p, Record("signal", "SIGTERM"))
  /\ term' = [term EXCEPT ![p] =
       IF scenario.runs[run[p]].sigterm = "exit" THEN "recording" ELSE "ready"]
  /\ UNCHANGED <<beside, pc, code>>

SignalExit == 7

RecordSignalExit(p) ==
  /\ Running(p) /\ term[p] = "recording"
  /\ Writes(p, Record("exit", SignalExit))
  /\ term' = [term EXCEPT ![p] = "leaving"]
  /\ UNCHANGED <<beside, pc, code>>

ExitOnSignal(p) ==
  /\ Running(p) /\ term[p] = "leaving"
  /\ Leaves(p, SignalExit)
  /\ UNCHANGED <<beside, file, term>>

HandlerStep(p) == RecordSignal(p) \/ RecordSignalExit(p) \/ ExitOnSignal(p)

-----------------------------------------------------------------------------
(* The program under test.                                                 *)

\* The live client numbers its requests in its own way.
LiveId(n) == 10 + n

Send(p) ==
  /\ pc[p] = "serve" /\ io[p].open /\ Len(io[p].sent) < MaxSent
  /\ \E f \in scenario.frames :
       io' = [io EXCEPT ![p].sent = Append(@,
                IF Asks(f)
                THEN [f EXCEPT !.id = LiveId(Len(io[p].sent))] ELSE f)]
  /\ UNCHANGED <<callVars, eng, term, signals>>

CloseStdin(p) ==
  /\ io[p].open /\ pc[p] = "serve"
  /\ io' = [io EXCEPT ![p].open = FALSE]
  /\ UNCHANGED <<callVars, eng, term, signals>>

\* Without a handler the signal kills; with one it waits in the channel of one
\* (a test sends one).
Terminate(p) ==
  /\ Running(p) /\ signals < MaxSignals /\ scenario.invocations = 1
  /\ signals' = signals + 1
  /\ IF term[p] = "off" THEN Dies(p) /\ UNCHANGED term
     ELSE /\ term' = [term EXCEPT ![p] = IF @ = "ready" THEN "caught" ELSE @]
          /\ UNCHANGED <<scenario, pc, args, claimVars, file, linked, code>>
  /\ UNCHANGED <<kills, eng, io>>

\* A step of one of the process's own goroutines.
ProcessStep(p) ==
  \/ CallStep(p) /\ UNCHANGED engVars
  \/ EngineStep(p) \/ ReaderStep(p) \/ HandlerStep(p)

Next ==
  \E p \in Proc :
    \/ (Invoke(p) \/ Kill(p)) /\ UNCHANGED engVars
    \/ ProcessStep(p)
    \/ Send(p) \/ CloseStdin(p) \/ Terminate(p)

\* A process that can go on does, whichever of its goroutines runs, and the
\* program under test closes the stdin it is done with.
Fairness ==
  /\ \A p \in Proc : WF_vars(ProcessStep(p))
  /\ WF_vars(\E p \in Proc : CloseStdin(p))

Spec == Init /\ [][Next]_vars
FairSpec == Spec /\ Fairness

-----------------------------------------------------------------------------
\* A request of the live client is answered under the id it used, whatever id
\* the captured transcript carries for it, and never answered twice.
AnswersTheLiveRequest ==
  \A p \in Proc :
    LET answers == { i \in DOMAIN io[p].out : Answers(io[p].out[i]) }
    IN  /\ \A i \in answers : \E k \in 1..io[p].read :
             Asks(io[p].sent[k]) /\ io[p].sent[k].id = io[p].out[i].id
        /\ \A i, j \in answers : io[p].out[i].id = io[p].out[j].id => i = j

\* Where in a call file the lines of stdin are.
Told(records) ==
  Select([i \in 1..Len(records) |-> i], { i \in 1..Len(records) : records[i].kind = "stdin" })

\* What the call file says the fake was told is what it was told, in order, and
\* covers every line the engine has acted on, also when it is killed.
InputIsRecorded ==
  \A p \in Proc :
    LET told == Told(file[p])
        actedOn == io[p].read - Len(eng[p].hold) - Len(eng[p].lines)
    IN  /\ actedOn <= Len(told) /\ Len(told) <= io[p].read
        /\ \A k \in DOMAIN told : file[p][told[k]].what = io[p].sent[k]

\* An invocation ends once its stdin is closed, unless its run hangs.
Hangs(p) == run[p] # NoRun /\ \E i \in DOMAIN Steps(p) : Steps(p)[i].form = "hang"
InvocationsEnd ==
  (\E p \in Proc : Running(p)) ~> (\A p \in Proc : Running(p) => Hangs(p))

=============================================================================
