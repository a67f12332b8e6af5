\* Up to three processes compete for a script of four runs, with and without
\* flock; in the other scenarios one process talks to the program under test.
\* One kill, one SIGTERM, a channel of one line, three lines sent.
CONSTANTS
  MaxProcs = 3
  a = a
  b = b
  Arg = {a, b}
  Scenarios <- MCScenarios
  MaxKills = 1
  ChanCap = 1
  MaxSent = 3
  MaxSignals = 1
SPECIFICATION FairSpec
INVARIANTS
  CallsStartComplete
  AnswersTheLiveRequest
  InputIsRecorded
PROPERTIES
  LedgerKept
  InvocationsEnd
CHECK_DEADLOCK FALSE
