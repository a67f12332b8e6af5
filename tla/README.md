# A verification project for go-providers

`go-providers` runs agent CLIs (Claude Code, Codex, OpenCode, Antigravity) and turns what they
write into a stream of events. This directory models the part of it where order, concurrency and
failure decide whether a caller can trust what it is told, checks the models with TLC on small
instances, and proves the most important facts with TLAPS for every instance.

All paths below are relative to `src/`.

## 1. The system

| Component | State it keeps | Operations | Interacts with | What makes it correct |
|---|---|---|---|---|
| Subprocess bridge (`provider/subprocess.go`) | flags of one turn (`seenDelta`, `seenToolUse`, `terminalSent`), held typed terminals, the command | `StreamChat` → `streamCLI`: parser goroutine, stderr goroutine, deferred close | CLI pipes, context, consumer's channel, typed callback, process tracker | one terminal, last, before the close; no silent drop; typed and plain surface agree; tracker truthful; turn ends; no goroutine left |
| PTY bridge (`provider/pty.go`) | the same flags | `StreamChat` → `streamCLI`: parser goroutine | a pseudo-terminal carrying stdout and stderr | the same |
| Typed surface, heartbeat (`provider/events_emit.go`) | last activity, stopped | `emitTyped`, `startHeartbeat`/stop | called from three goroutines | no stray event after the turn's end |
| Line parsers (`pty_claude*.go`, `pty_codex*.go`, `pty_opencode_events.go`, `pty_antigravity_events.go`) | none (but for the two memories below) | `ParseLine`, `ParseLineEvents` | the bridges | what they may return per kind of line |
| Event reaction pipeline (`provider/event_pipeline.go`) | the `active` flag, three monitors | `StreamChat`, `monitorStream`, `terminate`, fallback | any provider; several calls at once | only ever cuts a stream; a kill reaches every call; every call ends |
| Cost monitor (`cost_monitor.go`) | token totals | `CheckEvent` | pipeline | budgets hold over all calls |
| Progress tracker (`progress_tracker.go`) | three lists of records | `CheckEvent` | pipeline, clock | records count what they say; loops are cut |
| Scope guard (`scope_guard.go`) | none | `CheckEvent` | pipeline | – |
| Claude cost ledger (`claude_cost.go`) | running total and last result per session, LRU | `delta`, `evictLocked` | parser, across turns | every cost counted once, none twice |
| OpenCode step memory (`opencode_final.go`) | text parts per session | `start`, `add`, `take` | parser, across turns | a final text belongs to its own step |
| Runtime preparation (`provider/preparation.go`) and workspace trust (`provider/bootdir_claude.go`) | files on the host, a lock file, cleanup closures | `PrepareRuntime`, `Cleanup`, seed, remove | other processes, the claude CLI | cleanup undoes what it owns and nothing else |
| Layout table (`layout/`) | a table of rows | `Find` | everything below | each file is planted where its CLI looks |
| Launch projection and argv (`argv.go`, `projection.go`, `pty_*.go`) | none | `ProviderProjection`, `BuildArgs`, `ResolveTurn`, `ApplyEnvDeltas` | layout, boot directories, bridges, CLIs | prompt, system prompt and session id are read as what they are, whatever they say |
| MCP servers (`mcp_servers.go`, `mcp_exclusive.go`) | none | server map, `ValidateMCPServers`, `CheckMCPExclusive` | boot directories, projection | exclusive means nothing else is loaded |
| Boot directories (`bootdir*.go`) | none | `BootDirSpec` of four adapters | layout, MCP servers, preparation | what is planted is found |
| Turn interrupt and lost sessions (`turn_interrupt.go`, `session_lost.go`) | none | `DetectSessionLost`, interrupt messages | the host | a resumed turn continued its session |
| Descriptor registry (`registry/`) | entries and a name index | `Lookup`, `All`, `register`, `RegisterForTest` | tests | index and entries agree |
| Fake CLI (`providertest/`) | a state file, call files, a lock | `claim`, `openRecorder`, `serve`, `recv`, SIGTERM handling | test processes, the program under test | every run used once, every call recorded, live ids answered |
| Adapter lookup tables, CLI detection, capture tool, examples | data | – | – | – |

Hard behaviour is concentrated in the bridges: three goroutines per turn, a process that may crash,
hang, ignore a signal or leave descendants that hold its pipes, a caller that cancels or stops
reading, and five code paths that may each end the turn (an adapter's terminal, the no-silent-drop
guard in two places, the terminal switch after `cmd.Wait`, the scanner's end). The pipeline comes
second: several calls share a flag and three monitors, each under its own lock. Then come the two
memories that outlive a turn, the fake CLI, whose processes share files, and the launch, which is
sequential but has many shapes and puts untrusted text on command lines. `PROJECT.json`
lists every hazard at its line with the properties that watch it, or the reason none does yet.

## 2. Modules

```
TurnEvents ── CliProcess ──┬── TurnChannel ──┬── SubprocessBridge ── SubprocessBridgeProofs
                           └── TypedSurface ─┤          ▲
                                             ├── TurnLemmas (facts about the shared parts)
                                             │          ▼
TurnStream (abstract) ◄── refinement ────────┴── PTYBridge ── PTYBridgeProofs
CliAdapters (lines of the four CLIs) ── used by MCSubprocessBridge, MCPTYBridge
CostMonitor, ProgressTracker, ScopeGuard ── EventPipeline ──┬── EventProofs
CostLedger, StepMemory ───────────────────── AdapterMemory ─┘
ClaudeConfig ── Preparation ── HostProofs (also of Registry and Launch)
FakeCalls ── FakeCLI ── FakeCLIProofs;  FakeLedger (abstract) ◄── refinement ── FakeCLI
Layout ──┬── Argv ──┬── BootDir ──────────────┐
         │          └── CliReading (external) ─┼── Launch ── ArgvLemmas ── HostProofs
         └── Registry ─────────────────────────┘
```

Each component that runs has an `MC…` module beside it. `Selection` and `Totals` filter and add up sequences
with recursive functions, for the specifications and for `DataLemmas`, which every module of proofs uses.

* **TurnEvents**: event kinds and the shape of a line (`event`, `malformed`, `overlong`). An event
  is its kind; kinds no rule of the bridges distinguishes are `info`.
* **CliAdapters**: for each kind of line of each CLI, the stream and typed events its parser returns.
* **CliProcess** (external): the CLI, its stdout pipe (which it may close and live on), its exit status, descendants that keep a pipe
  open (`holders`), and the caller's context. `cmd.Cancel`/`WaitDelay` appear as `Killed`: SIGTERM,
  which a CLI may survive long enough to write more and exit with 0, then SIGKILL.
* **TurnChannel**: the channel of 64 events and its consumer, who may stop reading (`MayAbandon`).
  The channel's whole history is kept, with a cursor.
* **TypedSurface**: the typed callback and the heartbeat goroutine. `typedLog` is the order in which
  calls of the callback begin.
* **SubprocessBridge**: one turn. `pc` is the parser goroutine's position in `streamCLI`; an action
  runs it from one visible point (send, callback, wait, close) to the next, since its locals are its
  own. `reader` is the stderr goroutine. Variables carry the code's names.
* **PTYBridge**: the same turn on a pseudo-terminal. Its differences are the code's: typed events go
  out as soon as a line is parsed, stderr arrives as (rejected) lines, EIO ends the scan, there is
  neither a stderr goroutine nor a held terminal. The terminal reports its end only when nobody has it open
  any more: a descendant may keep it (`Holdable`), like stdout.
* **TurnStream**: the abstract promise. Events one at a time, exactly one terminal, last, then close.
  Both bridges are shown to implement it (`StreamContract == Stream!Spec`, with
  `closed <- pc = "closed"`).
* **CostMonitor, ProgressTracker, ScopeGuard, EventPipeline**: the decorator and its monitors for
  several concurrent calls. A call's goroutine takes the flag and each monitor's lock in turn, so
  other calls run in between; `terminate` is a step of its own, as in the code.
* **CostLedger, StepMemory, AdapterMemory**: what an adapter remembers across turns. A process of the
  model runs a turn of one session line by line, and every line is parsed for the plain and for the
  typed surface, as the bridges do; a Claude turn may fail, an OpenCode turn die after any line. `cli` is the running total the CLI
  itself keeps, `ran` what the turns under this host really cost, `charged` what each surface was told.
* **ClaudeConfig**: what seeding and removing a trust entry make of the content of `~/.claude.json`.
  An entry is the set of its fields; `own` stands for whatever claude keeps there itself.
* **Preparation**: processes calling `PrepareRuntime`, then `Cleanup` any number of times, on one host.
  `pc` follows a process through the loop over the required effects and, inside an effect, through
  every file operation: making the lock file, reading, writing a temporary file, renaming, removing
  the lock file. `job` tells seeding from removing, which share those steps as they share the lock. Any
  file operation may fail, any process of `MayCrash` may die between two; claude and codex write the
  same files during a session, and the caller removes boot directories when sessions are over. The
  two-second deadline is "may give up while the lock file is there": the owner may take longer.
* **FakeLedger** (abstract), **FakeCalls**, **FakeCLI**: the fake CLI of the tests. FakeLedger says that
  invocations are served one after the other, each by the first run left that matches its arguments. FakeCalls has the processes taking the
  lock (flock, or a lock file where there is none), reading and writing the state file, making a call
  file under a free name, and being killed anywhere. FakeCLI adds what a claimed run does: the engine
  that plays its steps, the goroutine that reads stdin, records each line and passes it on through a
  channel, the SIGTERM goroutine, and the program under test that writes to it. `Owed` is what a transcript
  has still to answer at a step, which no variable of the code holds.
* **Selection**, **Totals**: the elements of a sequence that are in a set; the sum of a sequence of numbers.
* **Layout**: the table row by row, and the choice of the most specific row.
* **Registry**: descriptors registered at start and by tests, with the index of names and its repair when
  one is removed; the built-in descriptors' facts and postures.
* **Argv**: the conventions of the four adapters in every shape, their resolution for a turn, BuildArgs. An argument is a
  sequence of parts; joining a flag or a directory to a text appends to it.
* **BootDir**: what each adapter's boot directory holds and what its projection says and refuses. A file
  is what it is for, where it goes, the servers it configures and whether it carries the system prompt.
* **CliReading** (external): how each CLI takes an argument list apart and where it finds its servers,
  skills and instructions, as the conventions, the layout table and the descriptors record it.
* **Launch**: a host projects an adapter, or takes a projection made elsewhere and checks it, or plants the
  BootDirSpec and calls BuildArgs; then runs turns, resuming with the id the CLI last reported. The
  CLI may forget sessions, and the registry goes on changing. Its Init, Next and Spec, like those of AdapterMemory, carry
  the module's name (`LaunchSpec`, `MemorySpec`), because a module of proofs extends it together with another specification.
* **TurnLemmas**: what sending, reading, typed calls and the CLI's own steps do to the parts both bridges
  are built from, proved once for both.
* **MC…**: the lines, scripts, adapters and events of the TLC instances.

A definition whose comment starts with "Faulty variant" is a plausible bug, used to show that a
property can fail; nothing else uses it.

## 3. What the runs check

| Run | Question | Instance |
|---|---|---|
| `sub_turn` | Does a turn of the subprocess bridge implement TurnStream? Is a tools-only turn never reported as a plain success (`NoSilentDrop`), a crash or kill never as one either, not even one the CLI answers by exiting with 0 (`OwnSuccessIsReal`)? Do typed terminals wait for stderr, do both surfaces tell the same story? | CLI that ends its turn once; typed callback; stderr; cancellation, crash, stderr held by a descendant |
| `sub_any_cli` | For *any* lines of *any* adapter, is a terminal of the bridge's own always the first one, and is there always one before the close? | every line of all four adapters, several endings per turn, consumer that stops reading |
| `sub_ends` | Does the turn close, after the CLI's end or after a cancellation, with stderr held open for ever? Are all goroutines gone? | stdout and stderr may be held; fairness below |
| `pty_turn` | The same of the PTY bridge: does a turn implement TurnStream, is a success of its own real; and does a cancelled turn end once descendants let go of the terminal? | as `sub_turn`, with stderr lines in the stream, a consumer that stops and a descendant that may keep the terminal open |
| `pipeline` | Are streams only ever cut (`OnlyCuts`, `ClosedIsExplained`)? Does a kill reach the other call within one event? Do both budgets hold over both calls together? Do the records equal those of a tracker that forgets nothing (`RecordsAreRuns`), are loops cut, does every call end? | two calls, three monitors in kill mode, streaming and non-streaming provider |
| `prepare` | Does the lock exclude, and is a lock or temporary file that nobody is using always one of a process that is gone or one whose removal failed (`LockDiscipline`)? Is what a result lists in force whatever other preparations do (`PreparedIsInForce`)? Is everything owned gone after an error-free Cleanup, of a half-failed preparation too (`CleanupIsComplete`)? Is what is the user's kept, but for what claude writes while a preparation is about to replace the file (`UserDataIsKept`)? Does every call return, stale lock or not (`CallsReturn`)? | two processes in two directories, one of them behind a link; partial failures, two failing file operations, one crash, Cleanup twice; unreadable, `null` and odd configurations; fairness below |
| `memory` | Is no session ever charged more than its turns cost (`NeverOvercharged`), and one that was never evicted exactly that, on both surfaces (`CostIsExact`)? Is a turn's final message the text of its last step (`FinalIsTheAnswer`)? | three Claude sessions in a ledger of two, two OpenCode sessions, two processes, dying turns |
| `fakecli` | Are runs used as if by one process after the other (`LedgerKept`), does a call file never show without its start record (`CallsStartComplete`), are live requests answered under their own ids (`AnswersTheLiveRequest`), is whatever the fake acts on recorded first (`InputIsRecorded`), does every invocation end (`InvocationsEnd`)? | three processes on one script, with flock and with the lock file; JSON-RPC and control conversations; one kill, one SIGTERM |
| `launch` | Does a text that equals a flag or `--` change what the CLI reads (`TurnIsReadAsMeant`)? Has every turn the system prompt (`SystemPromptIsHeard`) and does a resumed one continue its session (`ResumeIsHonest`)? Are the servers, skills and instructions that were planted found (`PlantedIsFound`), and under an exclusive launch nothing else (`ExclusiveIsReal`)? Do projection and BuildArgs describe one launch (`TwoPathsAgree`)? Do descriptors stay with the test that owns them (`OwnersKeepTheirs`)? | ten adapters of every shape, eight projections from elsewhere, two tests, up to three turns |
| `prepare_unrelated` | **violated**: cleanup preserves unrelated project keys. `claude` itself takes no lock | one entry written between read and rename |
| `sub_codex_failure` | **violated**: exactly one terminal per turn. Codex writes `error` and `turn.failed` for one failure, and both are forwarded | codex lines |
| `sub_overlong` | **violated**: the turn ends. A line over 1 MiB stops the reader while the CLI still has more to write than the pipe holds | an overlong line |

The three violations are disagreements between the code and a comment or the README; `PROJECT.json` quotes
both.

**Bounds.** One line (`sub_ends`, where only blocking matters) to three lines per turn, one or two lines in the pipe, a channel of one event, one
stderr line, one heartbeat. They suffice because the bridge keeps three flags and no counters: a
turn's fate is decided by which of "text", "tool call", "terminal" came before which, and by where
cancellation, exit and stderr fall, and three lines reach every combination of the flags with one
more line to spare. A channel of one event makes sends block as a full channel of 64 does. In the
pipeline two calls of one event and a terminal each exceed every threshold (loops after 1, tokens 3, cost 6)
only together, so each verdict depends on both; three clock ticks with a window of two let a
record be refreshed and expire. In `prepare` a conflict needs two processes: a critical section is one read and one rename, so a third process only repeats what
the second does. Two faults reach every error path and, after it, the failing removal of the temporary or lock file it leaves to a deferred call;
a second Cleanup finds what the first left. Two trust entries of one directory are left to the theorems, which hold for any requests: what distinguishes
them is the cleanup that takes the other's entry, which `PreparedIsInForce` excepts.
claude takes no lock in any of the runs.
In `memory` three sessions in a ledger of two is the least that evicts one in use, and four turns let
one be charged, evicted, and charged again after another; two processes give every interleaving of
two turns, and the ledger is indifferent to a third's. All costs are 1: totals are only added and
subtracted. In `fakecli` up to three processes (a holder, a waiter, and one that comes after a kill)
share a script of four runs; conversations have one process, since a run's pipes are its own, a channel of one
line so that the reader blocks, and three lines sent, which is what the reader's hand, the channel and the
engine's pushed-back line hold between them. In
`launch` conventions are pure, so the bounds are the cases: every shape of the four adapters, two
contexts (a system prompt that is a flag and a named agent; a server that takes another's name), four
options, prompts that are a flag and `--`;
three turns make a first one, one that resumes, and one after a session was lost. Two tests holding one
descriptor each suffice for the index repair, which shifts whatever comes after the removed entry.

**Fairness.** Goroutines are scheduled, a consumer that has not stopped reads, a cancelled process
is killed (`WaitDelay`). Nothing makes an uncancelled CLI finish, a descendant let go of a pipe, a
provider speak, a heartbeat tick, a caller call `Cleanup`, or a session end: where a property needs one of those it says so
(`CliWorks`, `StdoutReleased`: both bridges' cancelled turns need the second). In `prepare` every process that has called goes on with its call. For the fake CLI each process's goroutines run and the program
under test closes the stdin it is done with, which is the client's part of the protocol; a run whose step
is `hang` is excepted. A select that finds the context done and an event ready picks either.

`CHECK_DEADLOCK FALSE` is set everywhere: a turn that has closed stops, and so does one whose
consumer stopped reading (the send does not watch the context, `subprocess.go:262`), processes that have
run their turns or used up the script, and a host that was refused.

## 4. What is proved

`SubprocessBridgeProofs` (every set of lines, every capacity, every mix of constants):

* `TypeCorrect`: `Spec => []TypeOK`. `TypeOK` is not inductive: a send needs an event in hand and a
  known place to return to, the typed counterpart of the bridge's own terminal reads the last event
  sent, and the stderr pipe must have room for what is still to be written. `Control` says so.
* `BridgeTerminalFirst`: `Spec => []BridgeTerminalIsFirst` and `TerminalBeforeClose`:
  `Spec => []ClosedHasTerminal`. The invariant is `EndInv`: until the bridge ends the turn itself,
  `terminalSent` holds exactly when a terminal is on the stream or in hand; afterwards there is one;
  and a terminal of the bridge's own in hand finds none on the stream. Every path that begins a send
  is one case of a single lemma step about `BeginSend`.
* `OwnSuccess`: `Spec => OwnSuccessIsReal`, an action property: the step that puts a Done of the bridge's own in hand is taken
  in a state in which the process has exited with 0 and the context is not done. Only the terminal switch takes it (`DecidesOnSuccess`),
  and `ExitInv` says that past `cmd.Wait` the process is gone and `waitFailed` tells its status.
* `TrackerTruthful`: `Spec => []TrackerIsTruthful`, from `TrackInv` with `ExitInv` and `EndInv`; the process
  tracker is told of an exit once, and rightly.
* `TypedTerminalsLast`: `Spec => []TypedTerminalsAreLast`, from `TypedInv`: a typed terminal is out only
  once the stderr goroutine is gone and nothing of the scan loop is left.
* `BridgeImplementsStream`, `OneTurn` assumed: `Spec => StreamContract`, the
  bridge implements TurnStream. `OnceInv` follows the end of the turn on its way: once it is in the pipe,
  among the current line's events, in hand or on the stream, nothing behind it carries a stream event,
  so whatever is sent finds no terminal before it. Every step then publishes one event on an open
  stream without a terminal, closes one with it, or stutters.
* `ToolsWithoutText`: `Spec => []NoSilentDrop`. The guard looks at two flags, the property at the stream.
  `DropInv` ties the one to the other: a tool call on the stream or in hand has set `seenToolUse`, a flag
  `seenDelta` that is set is backed by an event sent or in hand, past the scan loop's guard `GuardDue` is over
  for good, and a success in hand has an excuse (`Excused`).
* `SurfacesMatch`: `Spec => []SurfacesAgree`, for every set of lines whose two readings carry the same
  terminals (`SurfaceAssumption`). `PlaceInv` says where in `streamCLI` events may be in hand; `InStep` is a
  conserved quantity: the terminals the callback was told of, those held back and those of the current line
  (`Told`) are those sent, in hand and still to be forwarded (`Forwarded`). Every step moves one event from one
  place to the next; the equality is carried through `\o` and `Append` by the lemmas about `Select`.

`PTYBridgeProofs` (every set of lines, every capacity): `PTYTypeCorrect`, `Spec => []TypeOK`; `PTYTerminalFirst`,
`Spec => []BridgeTerminalIsFirst`; and `PTYImplementsStream`, `OneTurn` assumed, `Spec => StreamContract`.
The argument is that of the other bridge, on a shorter path: there is no stderr goroutine and no held terminal,
but the guard's typed error is a step of its own after the stream's, at which the terminal is already out.
`PTYOwnSuccess`, `Spec => OwnSuccessIsReal`, rests on `WaitInv` as `OwnSuccess` does on `ExitInv`.
`PTYToolsWithoutText` and `PTYSurfacesMatch` are the other bridge's theorems about `NoSilentDrop` and `SurfacesAgree`; the
typed event goes out before the stream's here, so the surfaces are apart the other way round. No run checks the PTY's surfaces again.

`EventProofs`, of AdapterMemory (any number of sessions, processes and turns, any capacity of the ledger, any costs):
`NobodyOvercharged`, `MemorySpec => []NeverOvercharged`. What can go wrong is that a total is charged from the
beginning although part of it was charged before. The invariant relates the three accounts of a session:
`Room` says that what was charged plus the `Gap` between the CLI's total and the total the ledger
remembers never exceeds what the turns cost; a session the ledger does not know is charged only for a
result whose token counts cover one turn, and then no more than that turn's cost. `DuePaid` says the same of a result still in a process's pipe, with the part
of it one of the two surfaces has already taken, `PastOnly` that the memo a repeated result is recognised by
belongs to the past, `Apart` that one session is in one process at a time.
`CostsAreExact`, `MemorySpec => []CostIsExact`, turns the bounds into an equality for the sessions that are not
`flawed`: what was charged, with what the ledger's next look will find, is all that ran (`Reported`). The
next look finds the difference of two totals, or, for the second surface of a line, the delta remembered
from the first; `Halfway` says that a line seen once is remembered until it is seen again.
`FinalsAreTheirs`, `MemorySpec => []FinalIsTheAnswer`, is about the other memory. `SpeechInv` says of a process in a turn
that the lines it has still to parse are the end of its script, and that the parts remembered for its session are
the texts of the step that is open after the lines behind it (`Spoken`); one turn at a time works on a
session (`Apart`), and its first line, a step start, forgets what a turn that died has left.

`FakeCLIProofs` (any number of processes, any scripts, kills anywhere):

* `LedgerIsKept`: `Spec => LedgerKept`, the processes implement FakeLedger. A claim is the abstract step when
  the state file is written; whoever reads the state holds the lock (`LockHeld`), so what it read is still
  what is there (`StoreAgrees`).
* `RunsServeOnce`: no two invocations have the same run, unless it repeats; `CallNamesAreFree`: no call file is ever written over
  (`Numbered`, `Filed`: a name in hand is above every name taken).
* `StartRecords`: `Spec => []CallsStartComplete`. A call file appears by being linked from a complete one, so
  whoever lists them meets a start record first, a kill before the link leaving none at all.
* `InputRecorded`: `Spec => []InputIsRecorded`, and `AnswersAreLive`: `Spec => []AnswersTheLiveRequest`. Both
  come from one invariant, `TalkInv`, which says of every process that engine, pipes and call file are a
  `Conversation`: the engine has dealt with the first `d` lines sent and the others that were read wait in order,
  in its pushed-back line, the channel and the reader's hand (`Waiting`); the call file tells all that was read but
  the line in the reader's hand before it is recorded (`Tells`); and every answer written, like every id the
  engine remembers, belongs to a request among those `d`, no two answers to one (`Repaid`). That the next answer goes to a
  live request not answered before is the part of `Repaid` about `Owed`: what the transcript still has to answer
  is remembered, under different ids, and has no answer yet.

`EventProofs`, of EventPipeline (any number of concurrent calls, any events, monitors, budgets and modes):

* `PipelineTypes`: `Spec => []TypeOK`, the monitors' totals and records included.
* `KillReaches`: `Spec => []KillReachesEveryCall`. The flag goes down before a policy error can be in
  any goroutine's hand and never comes up again, so a call that let an event through after the kill
  (`late = 1`) has the flag still to read, or holds a policy error itself (`KillInv`).
* `PipelineOnlyCuts`: `Spec => []OnlyCuts`. A call that is not closed shows a prefix of what it
  received, one event short while it works on one (`CutInv`).
* `ClosesAreExplained`: `Spec => []ClosedIsExplained`, which needs what the fallback still has to send
  and that the provider closes after a terminal only (`ExplainInv`).

These four are proved together, as `PipelineInv`, call by call: `OwnCall` for the call that moves,
`CallsApart` for the others, which it can touch only through the flag.

* `BudgetsAreKept`: `Spec => []BudgetsHold`. A sum over all calls of what each let through: `BudgetInv` compares it with the
  monitor's totals, counting a call's event as passing from the moment the monitor let it by (`PastBudget`), since it
  reaches the caller only later. The step that adds an event to one call adds its weight to the sum
  (`Totals`, and a sum over a finite set of streams), and a kill is what keeps it at the budget.
* `LoopsEnd`: `Spec => []LoopsAreCut`, by the same sum with equal events weighing 1: `LoopInv` bounds it by the count of
  the event's record, which is never forgotten while the clock is below the window.
* `RecordsAreExact`: `Spec => []RecordsAreRuns`. `RunsInv` keeps every record equal to what the times of the events looked at
  give; cleaning forgets only what no later event can continue, and the recursive count of a run is unfolded
  one element at a time.

`HostProofs`, what a host does before a turn (any number of processes, directories, requests, faults and crashes; any tests and
whatever they register):

* `PreparationTypes`: `Spec => []TypeOK`. While an effect is prepared it is the one at position `k`
  (`Control`); every action is a `MovesTo`, and `StepKept` turns one into the invariant.
* `LockIsHeld`: `Spec => []LockDiscipline`. A step of a process takes the free lock, frees its own, leaves it, or
  fails to remove its own, which `litter` then names (`LockMove`); and only its own temporary files appear (`TempsMove`). Removals may fail
  without a crash, as the code ignores their errors.
* `UserDataKept`: `Spec => UserDataIsKept`, with no assumption about the CLI. The draft a process is about to
  rename into place keeps all that is the user's in the file as it is *now*, but for the keys claude has written since it
  was made (`DraftInv`, `Keeps`): the lock keeps the other preparations out, `news` records what claude, which takes no lock, did meanwhile.
  `prepare_unrelated` shows that the exception is needed.
* `ResultIsInForce`: `Spec => []PreparedIsInForce`, with no assumption about the CLI. An entry may be lost in two ways, by a draft that was
  made without it and by another cleanup. So the invariant says the same of the file and of every draft about to replace it
  (`TrustInv`), and carries the entry from draft to file to result (`SeedInv`, under the lock); a directory that is being prepared
  is there, so the key the entry was stored under is still the one looked up (`PlaceInv`).
* `CleanupUndoes`: `Spec => []CleanupIsComplete`. `GotPast` and `Undone` follow the cleanup list closure by closure; what is undone
  stays so in the file and in every other process's draft (`StaysUndone`). That a cleanup which finds nothing to remove
  has nothing to remove needs two facts about the past: the file of a seed that succeeded is an object for ever (`FormInv`), and the
  list is that of the effects, also when the preparation failed (`ListedInv`, `IssuedInv`).
  Both rest on what any step of a process may do to the file, its draft and its result (`ConfigMove`, `DraftMove`,
  `UnlockMove`, `EffectMove`, `AuthMove`), proved once, action by action.
* `BuiltinsSound`: the six built-in descriptors pass `Shaped` and `MatchesLayout` and share no name. The
  layout table is reduced to which modes a provider's rows pin (`LayoutOf`), each descriptor to its modes and capability lists.
* `OwnersAreKept`: `RegSpec => []OwnersKeepTheirs`. The index is exact both ways (`IndexOf`: every name of a descriptor leads to its
  place, and no other name is known), so no two places share a name and the first descriptor with an id is the only one;
  `Rebuilt` gives the index of what is left. Every descriptor still to be removed stands behind the
  built-ins and is to be removed once (`Owned`), and there are as many as places there (`Counted`).
* `LaunchKeepsRegistry`: `LaunchSpec => RegSpec`: each step of a launch is one of the registry's or leaves it alone. So
  `LaunchKeepsOwners`: `LaunchSpec => []OwnersKeepTheirs`.

`HostProofs` on `ArgvLemmas`, a launch (any adapters, contexts, options, settings and prompts, any number of turns, any tests changing
the registry meanwhile, any conversations forgotten):

* `LaunchIsSound`: `LaunchSpec => []LaunchInv`, the inductive invariant of what follows. A launch that is ready is a projection of an
  adapter, one made from an adapter's fields, or a foreign one (`IsProjection`, `IsFielded`); the last turn was made of the launch the
  host still holds (`TurnMade`); what the host looks up for its runtime is the built-in descriptor, whatever tests have registered
  and removed since (`RegInv`, `BuiltinOf`); the ids stored by the host and known to the CLI are those of turns already taken, so
  that a new conversation has a new one.
* `TurnsAreReadAsMeant`: `LaunchSpec => [](launch.path # "foreign" => TurnIsReadAsMeant)`. `ArgvLemmas` reads an argument list as the CLI
  does, argument by argument. `Adds` says that arguments given to a CLI between two options add certain options and leave it
  between two options again, whatever came before; `Says` lifts that to a part of a convention, for every prompt, system prompt, session and extra
  argument; parts that say something one behind the other say the union (`SaysBoth`). Each adapter's
  convention in each shape is put together from such parts, and the prompt comes behind `--` or joined to its flag (`Reads`). A
  posture's arguments are options too (`Postured`), so the extra slot takes them.
* `TwoPathsAreOne`: `LaunchSpec => []TwoPathsAgree`. A convention made over the layout and one made over the adapter's fields give the same
  arguments part by part (`Alike`), because the layout's row for a concern names the very path the field is given
  (`Twins`, shape by shape); the planted files are those of the same rows.
* `SystemPromptsAreHeard`: `LaunchSpec => []SystemPromptIsHeard`, and `ResumesAreHonest`: `LaunchSpec => [](launch.path # "foreign" =>
  ResumeIsHonest)`, with `LaunchIsFaithful`. Every turn of a launch of ours has the system prompt in its arguments, in its text, in a file planted where the CLI
  looks, or resumes (`Heard`); the session in the CLI's reading is the one that was asked for (`ResumeIs`), as an option, a word or not at
  all; and a runtime that keeps its ids is found out when it answers under another.
* `PlantedIsAlwaysFound`: `LaunchSpec => []PlantedIsFound`. A server's entry as an adapter renders it is understood by that CLI as the server that
  was meant (`UnderstoodHttp`, `UnderstoodStdio`); a valid list of servers shares no name with the host's own two
  (`ServersAreApart`), so no entry hides another (`Seen`); and the file is where the working directory, the flags and the environment of the turn
  lead the CLI (`Plants`, `AtHome`; for the instructions `OwnInstructs` and `NotesAreRead`, which meet at `NotesPlace`), since neither a posture nor the host's own environment can move its home
  variable (`HomeIsGiven`).
* `ExclusiveIsAlwaysReal`: `LaunchSpec => [](launch.path # "foreign" => ExclusiveIsReal)`. Exclusive launches are Claude's or Codex's only (`ExclusiveRuntimes`);
  the one reads its strict flag, whatever the other texts are, the other finds its home in the boot directory.

`TurnIsReadAsMeant`, `ResumeIsHonest` and `ExclusiveIsReal` also speak of conventions made elsewhere (`launch.path = "foreign"`), which the
host accepts after checking a few of their templates. Of those the theorems say nothing: a convention of arbitrary templates can make a flag
swallow the prompt, and no check of the code rules that out. The `launch` run covers eight of them. The adapters' own `ExtraArgs` are left empty in all of `launch` (below).

The assumptions are the named ASSUMEs on constants: lines are well formed (`CliAssumption`), a
line's terminal is its last event (`LineAssumption`) and its two readings carry the same terminals
(`SurfaceAssumption`; both true of all four adapters and checked by TLC on every run), an OpenCode turn is step starts, texts and
step ends, begins with a step start, and ends with the step end that says so, and costs are naturals
(`TurnAssumption`; `pty_opencode_events.go:15-25`), a scenario's script is a list of runs (`ScenarioAssumption`), a
transcript answers requests it has received, each once, and by `Send` (`TranscriptAssumption`: only there "a JSON-RPC
response takes the id of the live request it answers", `providertest/run.go:22-23`), the calls of a pipeline are finitely many
(`PipelineAssumption`), the tests are finitely many and the built-in names are already in lower case
(`RegistryAssumption`), the fields of adapters, contexts and options have the types the code gives them, an adapter has no extra arguments of its
own and its skills directory is a path, which no flag begins (`LaunchAssumption`), capacities are positive. TLC evaluates every one of them on the instances.

`DataLemmas` proves the few facts about sequences that the library states for an operator
parameter, which no prover here can instantiate. Induction is by a least counterexample, with a set in the place of the predicate
(`NatInd`, `SeqInd`), and `SelectSeq` is opaque to the provers, so `Selection` filters with a recursive
function instead: `SelectAppend`, `SelectConcat`, `SelectSame` and `SelectRange` are what it computes. `Total` is treated alike.

Only model-checked: all liveness, and what `launch` says of conventions made elsewhere. Liveness under fairness, and what a recursive definition
computes for every input, is out of these provers' reach; the recursive functions the conventions need (`Flat`, `Read`, `ApplyEnvDeltas`) are
unfolded one element at a time instead.

## 5. Known and not covered by a property

* The typed callback is entered by the parser, stderr and heartbeat goroutines with nothing between
  them (`subprocess.go:163`, `events_emit.go:269`), while `events_emit.go:16-20` says it is called
  from a single goroutine. The model lets the calls overlap.
* On a PTY a tools-only turn delivers a typed Done and then the guard's typed Error (`pty.go:206`).
* A descendant that holds stdout keeps a turn, even a cancelled one, from ending: the scan loop comes
  before `cmd.Wait`. `TurnEnds` and `CancelledTurnEnds` assume `StdoutReleased`.
* The same on a PTY. When the CLI exits, only the foreground group gets SIGHUP; a descendant in another group or session, or one that
  ignores it, and has the terminal open, keeps the scan loop (`pty.go:180`) from EIO, and `cmd.Wait` with its `WaitDelay` (`pty.go:247`) comes
  after the loop. `CancelledTurnEnds` assumes `StdoutReleased` there too.
* `GoroutinesEnd` says that the heartbeat goroutine ends, not that it says nothing after the terminal or the close.
* Calls of a non-streaming provider are looked at by no monitor, also after a kill (`event_pipeline.go:213`).
* After a policy error the pipeline stops receiving and does not cancel: a bridge with more than a
  channelful left blocks for ever (`event_pipeline.go:138-145`).
* A cancelled monitored stream closes without a terminal (`event_pipeline.go:130`).
* `"*"` in `AllowedScopes` compiles to `^.*$`, which matches no text of several lines, so the default
  configuration reports multi-line texts that mention `/usr/` (`scope_guard.go:125`).
* Two preparations of one boot root share one trust entry, and the first cleanup takes it from both;
  an entry the user accepted by hand, with the same two fields, is removed as well.
* A boot directory behind a symbolic link that is removed before `Cleanup` leaves its entry behind, with
  no error (`bootdir_claude.go:453`): the key is resolved anew.
* `~/.claude.json` holding just `null` makes the seed panic (`bootdir_claude.go:376`).
* A tool call turned into the guard's Error leaves the adapter's typed Done where it is, and a heartbeat that
  was about to be told may come after a typed terminal.
* `CheckMCPExclusive` looks at all templates of a convention alike, also at one meant for the first turn only
  (`mcp_exclusive.go:58`).
* A lock file left by a crash, or by a failed `os.Remove`, whose error is dropped (`bootdir_claude.go:551`), makes every later preparation
  fail after two seconds, until somebody removes it. Likewise temporary files stay when their removal fails (`:409`, `:502`, `preparation.go:325`).
* claude's own write of `~/.claude.json` is one atomic step in the model: how that CLI writes is not known here.
* `AnswersTheLiveRequest` would not notice two answers swapped between live requests, or a pushed-back line that is lost.
* An OpenCode adapter without an agent plants `agents/default.md` (`bootdir_opencode.go:53`) and passes `--agent` with the empty name
  (`argv.go:319`), for which OpenCode takes its own default agent; the comment at `bootdir_opencode.go:49` says the planted file is
  the one `run --agent` selects. `PlantedIsFound` excepts it, and a server, whose agent is chosen over HTTP (`NamesAgent`).

## 6. Not modelled

Tool-argument fingerprints, previews, block ids, message wording, file rendering and log lines change
no control flow and are left out. `Complete` of both bridges ranges over the stream and appears as
its consumer.

* Of a launch: where an executable is looked for, servers' arguments, headers and environment, file modes,
  TreeHash, the list of `ProviderEffects` (Preparation has what they do), diagnostics' wording, reading the host's
  codex `auth.json`, and the generator of `docs/LAYOUT.md`. An adapter's own extra
  arguments are left empty: that they are whole options, with no `--` and no flag waiting for a value, is the host's to see to.
* Interrupt messages are only built here; hosts outside this repository send them.
* In `AdapterMemory` the turns of one session follow one another, every result line has a uuid (without
  one the second surface to parse it would see a cost of 0), and a repeated part has the same text.
* The cost monitor's `Reset`, `SetCostRate` and summary: a pipeline's monitor is private and no caller
  reaches them.
* The fake's constructors, fixtures and the executable they install are input and output.
* Adapter lookup tables are a map under a lock; detection runs a binary and reads its version; the capture
  tool and the examples are programs beside the library.

## 7. Plan

Order of work, most important first:

1. *(done)* bridges, typed surface, adapters' vocabulary, abstract stream, their runs; the subprocess
   bridge's theorems.
2. *(done)* pipeline and monitors, and their safety proved.
3. *(done)* **ClaudeConfig** and **Preparation**, their run, the lock and the user's data proved.
4. *(done)* **AdapterMemory**: ledger and step memory, their run, the accounts proved.
5. *(done)* **FakeCLI** over the abstract **FakeLedger**, its run and its proofs.
6. *(done)* **Layout**, **Registry**, **Argv**, **BootDir**, **CliReading**, **Launch** and their run.
7. *(done)* the PTY bridge's counterparts of the subprocess bridge's theorems.
8. *(done)* both memories of the adapters, the pipeline's sums and records, the fake CLI's conversations, what a preparation
   promises and what its cleanup undoes: proved for every instance.
9. *(done)* the registry: the index repair, the built-in descriptors, and that a launch leaves it alone.
10. *(done)* what `launch` says of arguments, sessions, planted files and exclusive servers, proved for every launch of this package's own adapters.
