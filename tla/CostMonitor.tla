---------------------------- MODULE CostMonitor -----------------------------
(***************************************************************************)
(* The cost monitor (provider/cost_monitor.go): totals over every stream   *)
(* of a pipeline, and the budgets they are checked against.  Tokens and    *)
(* dollars are kept in whole units; the default rates price an output      *)
(* token as five input tokens, so a dollar budget is counted in the price  *)
(* of an input token.                                                      *)
(***************************************************************************)
EXTENDS Naturals

CONSTANTS
  TokenBudget, \* 0: no budget
  CostBudget   \* 0: no budget

ASSUME BudgetAssumption == TokenBudget \in Nat /\ CostBudget \in Nat

VARIABLES totalIn, totalOut

costVars == <<totalIn, totalOut>>

CostTypeOK == totalIn \in Nat /\ totalOut \in Nat

CostInit == totalIn = 0 /\ totalOut = 0

Cost(in, out) == in + 5 * out

\* Events that carry usage.
Counted(e) == e.kind \in {"usage", "done"} /\ e.metered

\* Faulty variant: each event is checked against the budgets by itself.
OverspendsAlone(e) ==
  /\ Counted(e)
  /\ \/ TokenBudget > 0 /\ e.in + e.out > TokenBudget
     \/ CostBudget > 0 /\ Cost(e.in, e.out) > CostBudget

\* updateUsageAndCheck: the event is counted, then the totals are compared, strictly.
Overspends(e) ==
  LET in == totalIn + e.in
      out == totalOut + e.out
  IN  /\ Counted(e)
      /\ \/ TokenBudget > 0 /\ in + out > TokenBudget
         \/ CostBudget > 0 /\ Cost(in, out) > CostBudget

Count(e) ==
  IF Counted(e)
  THEN totalIn' = totalIn + e.in /\ totalOut' = totalOut + e.out
  ELSE UNCHANGED costVars
=============================================================================
