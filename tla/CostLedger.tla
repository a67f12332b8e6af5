----------------------------- MODULE CostLedger -----------------------------
(***************************************************************************)
(* claude_cost.go: Claude Code's result line reports what its session has  *)
(* cost so far; the ledger of the process turns that into the cost of one  *)
(* turn, from the previous result of the same session.  It remembers Cap   *)
(* sessions.                                                               *)
(***************************************************************************)
EXTENDS Naturals, FiniteSets

CONSTANTS Sessions, Cap
ASSUME CapAssumption == Cap \in Nat \ {0}

VARIABLES entries,          \* session -> its last result: total, uuid, delta, and when it was used
          seq               \* uses so far
ledgerVars == <<entries, seq>>

LedgerInit == entries = [s \in {} |-> 0] /\ seq = 0

Has(s) == s \in DOMAIN entries

\* The session's token counts are this turn's own, so its cost is too.
CoversOneTurn(line) == line.model # 0 /\ line.usage = line.model

\* The same line seen again, by the other surface.
Again(line) == Has(line.session) /\ entries[line.session].uuid = line.uuid

\* Faulty variant: a session never seen before is charged its whole total.
DeltaWhole(line) ==
  CASE Again(line) -> entries[line.session].delta
    [] ~Has(line.session) -> line.total
    [] OTHER -> IF line.total >= entries[line.session].total
                THEN line.total - entries[line.session].total ELSE line.total
\* Faulty variant: a line seen twice is charged by what it adds to itself.
DeltaNoMemo(line) ==
  CASE ~Has(line.session) -> IF CoversOneTurn(line) THEN line.total ELSE 0
    [] OTHER -> IF line.total >= entries[line.session].total
                THEN line.total - entries[line.session].total ELSE line.total
\* Without a previous result the total counts only when it is this turn's; a
\* total that went down is a session that began counting afresh.
Delta(line) ==
  CASE Again(line) -> entries[line.session].delta
    [] ~Has(line.session) -> IF CoversOneTurn(line) THEN line.total ELSE 0
    [] OTHER -> IF line.total >= entries[line.session].total
                THEN line.total - entries[line.session].total ELSE line.total

\* A full ledger drops the session used longest ago.
Evicted ==
  IF Cardinality(DOMAIN entries) < Cap THEN {}
  ELSE { s \in DOMAIN entries : \A x \in DOMAIN entries : entries[s].seq <= entries[x].seq }

Account(line) ==
  /\ seq' = seq + 1
  /\ IF Again(line)
     THEN entries' = [entries EXCEPT ![line.session].seq = seq + 1]
     ELSE LET gone == IF Has(line.session) THEN {} ELSE Evicted
          IN  entries' = [s \in (DOMAIN entries \ gone) \union {line.session} |->
                            IF s = line.session
                            THEN [total |-> line.total, uuid |-> line.uuid, delta |-> Delta(line), seq |-> seq + 1]
                            ELSE entries[s]]
=============================================================================
