----------------------------- MODULE FakeLedger -----------------------------
(***************************************************************************)
(* What a fake CLI promises about its script (providertest/doc.go): the    *)
(* invocations are served one after the other, each by the first run that  *)
(* matches its arguments and is not used up.  How several processes bring  *)
(* that about with a lock and a state file is FakeCalls.                   *)
(***************************************************************************)
EXTENDS Naturals, Sequences

CONSTANT Arg        \* the arguments a run may ask for

VARIABLES
  runs,             \* the script: what each run asks for, and whether it repeats
  ledger            \* the invocations so far: arguments, and the run that served

ledgerVars == <<runs, ledger>>

\* No run is left for an invocation.
NoRun == 0

Run == [match : SUBSET Arg, repeat : BOOLEAN]
UsedRuns(l) == { l[i].run : i \in DOMAIN l }

\* The runs that could serve args when those in used are gone.
Eligible(script, used, args) ==
  { i \in DOMAIN script :
      /\ script[i].match \subseteq args
      /\ script[i].repeat \/ i \notin used }

\* The first of them, as claim's loop finds it.
FirstEligible(script, used, args) ==
  LET e == Eligible(script, used, args)
  IN  IF e = {} THEN NoRun ELSE CHOOSE i \in e : \A j \in e : i <= j

LedgerInit == runs \in Seq(Run) /\ ledger = <<>>

Serve(args) ==
  /\ ledger' = Append(ledger,
       [args |-> args, run |-> FirstEligible(runs, UsedRuns(ledger), args)])
  /\ UNCHANGED runs

LedgerNext == \E args \in SUBSET Arg : Serve(args)

LedgerSpec == LedgerInit /\ [][LedgerNext]_ledgerVars

-----------------------------------------------------------------------------
\* A run that does not repeat serves one invocation at most.
RunServedOnce ==
  \A i, j \in DOMAIN ledger :
    /\ i # j
    /\ ledger[i].run = ledger[j].run
    /\ ledger[i].run # NoRun
    => runs[ledger[i].run].repeat
=============================================================================
