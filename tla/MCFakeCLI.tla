----------------------------- MODULE MCFakeCLI ------------------------------
(***************************************************************************)
(* Instances of FakeCLI: tests that start several fakes at once, and tests *)
(* that talk to one.                                                       *)
(***************************************************************************)
EXTENDS FakeCLI

CONSTANTS a, b

\* Steps and runs.
Do(form, frame) == [form |-> form, frame |-> frame, code |-> 0]
NoFrame == Frame("line", "", 0)
ExitWith(n) == [form |-> "exit", frame |-> NoFrame, code |-> n]
Plain(form) == Do(form, NoFrame)
MCRun(match, repeat, sigterm, steps) ==
  [match |-> match, repeat |-> repeat, sigterm |-> sigterm, steps |-> steps]

\* Several invocations compete for a script of four runs.
Compete(flock, invocations, given) ==
  [runs |-> << MCRun({a, b}, FALSE, "die", <<>>), MCRun({a}, FALSE, "die", <<>>),
               MCRun({b}, TRUE, "die", <<>>), MCRun({}, FALSE, "die", <<>>) >>,
   flock |-> flock, invocations |-> invocations, given |-> given, frames |-> {}]

Talk(steps, sigterm, frames) ==
  [runs |-> << MCRun({}, FALSE, sigterm, steps) >>,
   flock |-> TRUE, invocations |-> 1, given |-> {{}}, frames |-> frames]

\* A JSON-RPC exchange: a request, a notification, a request from the fake.
Rpc == Talk(<< Do("recv", Frame("request", "init", 1)), Do("send", Frame("response", "", 1)),
               Do("recv", Frame("notification", "ready", 0)),
               Do("send", Frame("request", "approve", 5)),
               Do("recv", Frame("response", "", 5)), Plain("eof") >>, "die",
  {Frame("request", "init", 0), Frame("request", "other", 0),
   Frame("notification", "ready", 0), Frame("response", "", 5)})

\* Two requests, answered in the other order under each other's number.
Crossed == Talk(<< Do("recv", Frame("request", "init", 2)), Do("recv", Frame("request", "other", 1)),
                   Do("send", Frame("response", "", 1)), Do("send", Frame("response", "", 2)) >>, "die",
  {Frame("request", "init", 0), Frame("request", "other", 0)})

\* Claude's control protocol, in a run that exits when it is told to.
Control == Talk(<< Plain("stderr"), Do("recv", Frame("control_request", "", 1)),
                   Do("send", Frame("control_response", "", 1)), Plain("text"), ExitWith(3) >>,
  "exit", {Frame("control_request", "", 0), Frame("notification", "ready", 0)})

\* Plain lines, and a run that is slow to shut down.
Lines == Talk(<< Plain("stdout"), Plain("sleep"), Plain("text"), Plain("echo") >>, "ignore",
              {Frame("line", "", 0)})

Hanging == Talk(<< Plain("stdout"), Plain("hang") >>, "exit", {})

MCScenarios ==
  {Compete(TRUE, 3, {{a}}), Compete(TRUE, 2, {{a}, {a, b}, {b}}), Compete(FALSE, 2, {{a}, {a, b}}),
   Rpc, Crossed, Control, Lines, Hanging}

=============================================================================
