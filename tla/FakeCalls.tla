----------------------------- MODULE FakeCalls ------------------------------
(***************************************************************************)
(* providertest's fake CLI as a set of processes that start concurrently   *)
(* and share one hidden directory: each claims a run of the script under   *)
(* the lock (serve.go: claim) and publishes a call file that opens with    *)
(* its start record (openRecorder).  Any of them may be killed anywhere.   *)
(* What a claimed run then does is FakeCLI.                                *)
(***************************************************************************)
EXTENDS Naturals, Sequences, FiniteSets

CONSTANTS
  MaxProcs,    \* bound: invocations of the fake
  Arg,         \* the arguments a run may ask for
  Scenarios,   \* what a test sets up: the script, the lock, the invocations
  MaxKills     \* bound: processes killed

ASSUME FakeAssumption == MaxProcs \in Nat /\ MaxKills \in Nat

\* A script is a list of runs, and the arguments are among those runs match.
ASSUME ScenarioAssumption ==
  \A s \in Scenarios :
    /\ DOMAIN s.runs = 1..Len(s.runs) /\ Len(s.runs) \in Nat
    /\ \A i \in DOMAIN s.runs : s.runs[i].match \in SUBSET Arg /\ s.runs[i].repeat \in BOOLEAN
    /\ s.given \subseteq SUBSET Arg

\* The processes, named in the order they are started in.
Proc == 1..MaxProcs
NoProc == 0

VARIABLES
  scenario,    \* the test's choice, fixed
  pc,          \* where each process is
  args,        \* its arguments
  lock,        \* who holds the lock file; on a system without flock perhaps dead
  store,       \* state.json: not there, cut short by a kill, or whole
  seen,        \* what claim read and will write back
  seq, run,    \* what claim returned: the call's number, and its run
  file,        \* the records written through each process's descriptor
  linked,      \* the call files that stand in the calls directory
  code,        \* what a process is about to exit with, then did
  kills,
  claimed      \* history: the claims whose state was written, in order

claimVars == <<lock, store, seen, seq, run, claimed>>
callVars == <<scenario, pc, args, claimVars, file, linked, code, kills>>

\* The script and the claims, as the promise about them sees them.
Ledger == INSTANCE FakeLedger WITH
  runs <- [i \in DOMAIN scenario.runs |->
            [match |-> scenario.runs[i].match, repeat |-> scenario.runs[i].repeat]],
  ledger <- claimed

NoRun == Ledger!NoRun
exitFakeError == 97

Claiming == {"load", "save", "write", "unlock"}
Recording == {"temp", "start", "link"}
Serving == {"handler", "serve", "record", "exit"}
Ended == {"gone", "dead"}
Labels == {"idle", "lock", "refuse"} \union Claiming \union Recording
            \union Serving \union Ended

Running(p) == pc[p] \notin {"idle"} \union Ended

Fresh == [used |-> {}, calls |-> 0]
Absent == [form |-> "absent", state |-> Fresh]
Cut == [form |-> "cut", state |-> Fresh]
Whole(s) == [form |-> "whole", state |-> s]

\* A record of a call file: its kind, and what it says.
Record(kind, what) == [kind |-> kind, what |-> what]
StartRecord(p) == Record("start", [seq |-> seq[p], run |-> run[p], args |-> args[p]])

Goto(p, label) == pc' = [pc EXCEPT ![p] = label]
Leaves(p, status) == Goto(p, "gone") /\ code' = [code EXCEPT ![p] = status]
Writes(p, r) == file' = [file EXCEPT ![p] = Append(@, r)]

CallsInit ==
  /\ scenario \in Scenarios
  /\ pc = [p \in Proc |-> "idle"]
  /\ args = [p \in Proc |-> {}]
  /\ lock = NoProc /\ store = Absent
  /\ seen = [p \in Proc |-> Fresh]
  /\ seq = [p \in Proc |-> 0] /\ run = [p \in Proc |-> NoRun]
  /\ file = [p \in Proc |-> <<>>] /\ linked = {}
  /\ code = [p \in Proc |-> 0]
  /\ kills = 0 /\ claimed = <<>>

-----------------------------------------------------------------------------
(* serve, up to the claim.                                                 *)

\* The code under test starts the fake, perhaps while others are starting.
Invoke(p) ==
  /\ pc[p] = "idle"
  /\ p <= scenario.invocations /\ \A q \in 1..(p - 1) : pc[q] # "idle"
  /\ \E given \in scenario.given : args' = [args EXCEPT ![p] = given]
  /\ Goto(p, "lock")
  /\ UNCHANGED <<scenario, claimVars, file, linked, code, kills>>

\* Faulty variant: the state is read without waiting for the lock.
LockIgnored(p) ==
  /\ pc[p] = "lock"
  /\ lock' = p
  /\ Goto(p, "load")
  /\ UNCHANGED <<scenario, args, store, seen, seq, run, claimed, file, linked, code, kills>>

Lock(p) ==
  /\ pc[p] = "lock" /\ lock = NoProc
  /\ lock' = p
  /\ Goto(p, "load")
  /\ UNCHANGED <<scenario, args, store, seen, seq, run, claimed, file, linked, code, kills>>

\* Without flock the lock is a file: after 30 seconds of finding it there an
\* invocation gives up.
LockTimesOut(p) ==
  /\ pc[p] = "lock" /\ lock # NoProc /\ ~scenario.flock
  /\ Leaves(p, exitFakeError)
  /\ UNCHANGED <<scenario, args, claimVars, file, linked, kills>>

Load(p) ==
  /\ pc[p] = "load" /\ store.form # "cut"
  /\ seen' = [seen EXCEPT ![p] = store.state]
  /\ Goto(p, "save")
  /\ UNCHANGED <<scenario, args, lock, store, seq, run, claimed, file, linked, code, kills>>

\* What a kill left of state.json does not parse: the invocation fails.
LoadFails(p) ==
  /\ pc[p] = "load" /\ store.form = "cut"
  /\ lock' = NoProc
  /\ Leaves(p, exitFakeError)
  /\ UNCHANGED <<scenario, args, store, seen, seq, run, claimed, file, linked, kills>>

\* os.WriteFile truncates the state file first...
Truncate(p) ==
  /\ pc[p] = "save"
  /\ store' = Cut
  /\ Goto(p, "write")
  /\ UNCHANGED <<scenario, args, lock, seen, seq, run, claimed, file, linked, code, kills>>

\* The run claim's loop picks for p, and the state with it used.
Picked(p) == Ledger!FirstEligible(scenario.runs, seen[p].used, args[p])
WithPicked(p) ==
  [used |-> IF Picked(p) = NoRun \/ scenario.runs[Picked(p)].repeat
            THEN seen[p].used ELSE seen[p].used \union {Picked(p)},
   calls |-> seen[p].calls + 1]

\* ... and writes it whole.
Write(p) ==
  /\ pc[p] = "write"
  /\ store' = Whole(WithPicked(p))
  /\ seq' = [seq EXCEPT ![p] = seen[p].calls + 1]
  /\ run' = [run EXCEPT ![p] = Picked(p)]
  /\ claimed' = Append(claimed, [args |-> args[p], run |-> Picked(p)])
  /\ Goto(p, "unlock")
  /\ UNCHANGED <<scenario, args, lock, seen, file, linked, code, kills>>

Unlock(p) ==
  /\ pc[p] = "unlock"
  /\ lock' = NoProc
  /\ Goto(p, "temp")
  /\ UNCHANGED <<scenario, args, store, seen, seq, run, claimed, file, linked, code, kills>>

-----------------------------------------------------------------------------
(* openRecorder: the file is filled under a name nobody reads, then linked. *)

\* Faulty variant: the call file is created under its own name, and filled
\* afterwards.
CreateNamed(p) ==
  /\ pc[p] = "temp"
  /\ linked' = linked \union {p}
  /\ Goto(p, "start")
  /\ UNCHANGED <<scenario, args, claimVars, file, code, kills>>

CreateTemp(p) ==
  /\ pc[p] = "temp"
  /\ Goto(p, "start")
  /\ UNCHANGED <<scenario, args, claimVars, file, linked, code, kills>>

WriteStart(p) ==
  /\ pc[p] = "start"
  /\ Writes(p, StartRecord(p))
  /\ Goto(p, "link")
  /\ UNCHANGED <<scenario, args, claimVars, linked, code, kills>>

NameTaken(p) == \E q \in linked : seq[q] = seq[p]

\* The call is visible from here on; without a run it only reports so.  link(2)
\* fails when the name is taken, which FakeCLIProofs shows never to happen.
Link(p) ==
  /\ pc[p] = "link" /\ ~NameTaken(p)
  /\ linked' = linked \union {p}
  /\ Goto(p, IF run[p] = NoRun THEN "refuse" ELSE "handler")
  /\ UNCHANGED <<scenario, args, claimVars, file, code, kills>>

Refuse(p) ==
  /\ pc[p] = "refuse"
  /\ Writes(p, Record("error", "no run left"))
  /\ code' = [code EXCEPT ![p] = exitFakeError]
  /\ Goto(p, "record")
  /\ UNCHANGED <<scenario, args, claimVars, linked, kills>>

\* recorder.exit, then the process's end.
RecordExit(p) ==
  /\ pc[p] = "record"
  /\ Writes(p, Record("exit", code[p]))
  /\ Goto(p, "exit")
  /\ UNCHANGED <<scenario, args, claimVars, linked, code, kills>>

Exit(p) ==
  /\ pc[p] = "exit"
  /\ Leaves(p, code[p])
  /\ UNCHANGED <<scenario, args, claimVars, file, linked, kills>>

-----------------------------------------------------------------------------
\* A process ends without its own doing: the kernel drops its flock, a lock
\* file stays, and the record it was writing may be cut short.
Dies(p) ==
  /\ Goto(p, "dead")
  /\ lock' = IF lock = p /\ scenario.flock THEN NoProc ELSE lock
  /\ \/ UNCHANGED file
     \/ pc[p] \in {"refuse"} \union Serving /\ Writes(p, Record("torn", ""))
  /\ UNCHANGED <<scenario, args, store, seen, seq, run, claimed, linked, code>>

Kill(p) ==
  /\ Running(p) /\ kills < MaxKills
  /\ kills' = kills + 1
  /\ Dies(p)

\* What a process does before its run starts, and after it ended.
CallStep(p) ==
  \/ Lock(p) \/ LockTimesOut(p) \/ Load(p) \/ LoadFails(p) \/ Truncate(p)
  \/ Write(p) \/ Unlock(p) \/ CreateTemp(p) \/ WriteStart(p) \/ Link(p)
  \/ Refuse(p) \/ RecordExit(p) \/ Exit(p)

-----------------------------------------------------------------------------
(* fake.go: what the test reads back.                                      *)

\* Every file Calls() lists opens with its start record, and says of the claim
\* what the ledger says (the race fixed by CW-20261001-0119).
CallsStartComplete ==
  \A p \in linked :
    /\ file[p] # <<>>
    /\ file[p][1] = StartRecord(p)
    /\ seq[p] \in DOMAIN claimed
    /\ claimed[seq[p]] = [args |-> args[p], run |-> run[p]]

\* No two invocations ask for the same call file.
NamesAreFree == \A p \in Proc : pc[p] = "link" => ~NameTaken(p)

\* However many fakes start at once and wherever one is killed, the runs they
\* claim are those of invocations served one after the other (serve.go: claim).
LedgerKept == Ledger!LedgerSpec
=============================================================================
