--------------------------- MODULE AdapterMemory ---------------------------
(***************************************************************************)
(* What the parsers remember between lines, under several turns at once.   *)
(* Each CLI process of a host has a goroutine that takes its lines one by  *)
(* one and parses each twice, ParseLine and then ParseLineEvents, while    *)
(* the other processes' goroutines use the same ledger and the same step   *)
(* memory.  A session runs one turn at a time.                             *)
(***************************************************************************)
EXTENDS CostLedger, StepMemory, Selection

CONSTANTS Procs,            \* processes of the host
          Chats,            \* opencode's sessions
          Costs,            \* what a Claude turn may cost
          Scripts,          \* the lines an opencode turn may write
          MaxTurns          \* bound: turns the host runs

\* "tool-calls" goes on with another step; any reason but "error" ends the turn.
EndsTurn(reason) == reason \notin {"tool-calls", "error"}

\* A turn is made of steps, and the one that ends it is its last.
ASSUME TurnAssumption ==
  /\ Costs \subseteq Nat
  /\ \A s \in Scripts :
       /\ s \in Seq({l \in ToSet(s) : l.type \in {"step_start", "text", "step_finish"}})
       /\ s # <<>> /\ s[1].type = "step_start"
       /\ \A i \in 1..Len(s) :
            s[i].type = "step_finish" /\ EndsTurn(s[i].reason) => i = Len(s)

VARIABLES proc,             \* process -> the lines its goroutine has still to parse
          turns,            \* turns begun
          cli,              \* Claude session -> what the CLI counts: cost, tokens
          ran,              \* Claude session -> cost of its turns under this host
          settled,          \* sessions whose last turn succeeded
          charged,          \* surface -> session -> cost reported
          flawed,           \* history: sessions whose cost cannot be known in full
          final             \* process -> surface -> what its turn wrote, and its final message
hostVars == <<proc, turns, cli, ran, settled, charged, flawed, final>>
memoryVars == <<ledgerVars, steps, hostVars>>

Surface == {"legacy", "typed"}
Unsaid == [script |-> <<>>, said |-> <<>>]

\* A process: the session its turn is of, the lines left, and the surface
\* the first of them is parsed for next.
Idle == [session |-> "", lines |-> <<>>, surface |-> "legacy", script |-> <<>>]
Line(p) == Head(proc[p].lines)
Busy(s) == \E p \in Procs : proc[p].session = s

\* The line is parsed for one surface, then for the other, then it is done.
Parsed(p) ==
  proc' = [proc EXCEPT ![p] =
             IF @.surface = "legacy" THEN [@ EXCEPT !.surface = "typed"]
             ELSE IF Len(@.lines) = 1 THEN Idle
             ELSE [@ EXCEPT !.surface = "legacy", !.lines = Tail(proc[p].lines)]]

Parses(p, type) == proc[p].lines # <<>> /\ Line(p).type = type

----------------------------------------------------------------------------
(* Claude *)

\* A turn that cost c; the CLI may have begun counting afresh.  A failed turn
\* is counted by the CLI and its result carries no usage.
ClaudeTurn(p, s, c, fresh, good) ==
  /\ proc[p] = Idle /\ ~Busy(s) /\ turns < MaxTurns
  /\ turns' = turns + 1
  /\ LET total == IF fresh THEN c ELSE cli[s] + c
         result == [type |-> IF good THEN "result" ELSE "failure", session |-> s, uuid |-> turns + 1,
                    total |-> total, usage |-> c, model |-> total]
     IN  /\ cli' = [cli EXCEPT ![s] = total]
         /\ proc' = [proc EXCEPT ![p] = [Idle EXCEPT !.session = s, !.lines = <<result>>]]
  /\ ran' = [ran EXCEPT ![s] = @ + c]
  /\ settled' = IF good THEN settled \union {s} ELSE settled \ {s}
  /\ flawed' = IF fresh THEN flawed \union {s} ELSE flawed
  /\ UNCHANGED <<ledgerVars, steps, charged, final>>

ParseResult(p) ==
  /\ Parses(p, "result")
  /\ Account(Line(p))
  /\ charged' = [charged EXCEPT ![proc[p].surface][proc[p].session] = @ + Delta(Line(p))]
  /\ flawed' = flawed \union (DOMAIN entries \ DOMAIN entries')
                  \union (IF Has(Line(p).session) \/ CoversOneTurn(Line(p)) THEN {} ELSE {Line(p).session})
  /\ Parsed(p)
  /\ UNCHANGED <<steps, turns, cli, ran, settled, final>>

ParseFailure(p) ==
  /\ Parses(p, "failure") /\ Parsed(p)
  /\ UNCHANGED <<ledgerVars, steps, turns, cli, ran, settled, charged, flawed, final>>

----------------------------------------------------------------------------
(* OpenCode *)

OpencodeTurn(p, s, script) ==
  /\ proc[p] = Idle /\ ~Busy(s) /\ turns < MaxTurns
  /\ turns' = turns + 1
  /\ proc' = [proc EXCEPT ![p] = [Idle EXCEPT !.session = s, !.lines = script, !.script = script]]
  /\ final' = [final EXCEPT ![p] = [x \in Surface |-> Unsaid]]
  /\ UNCHANGED <<ledgerVars, steps, cli, ran, settled, charged, flawed>>

StepStart(p) ==
  /\ Parses(p, "step_start") /\ StepStarts(proc[p].session) /\ Parsed(p)
  /\ UNCHANGED <<ledgerVars, turns, cli, ran, settled, charged, flawed, final>>
Text(p) ==
  /\ Parses(p, "text") /\ AddPart(proc[p].session, Line(p).part) /\ Parsed(p)
  /\ UNCHANGED <<ledgerVars, turns, cli, ran, settled, charged, flawed, final>>

StepFinish(p) ==
  /\ Parses(p, "step_finish")
  /\ final' = IF EndsTurn(Line(p).reason)
              THEN [final EXCEPT ![p][proc[p].surface] =
                      [script |-> proc[p].script, said |-> Final(proc[p].session)]]
              ELSE final
  /\ Parsed(p)
  /\ UNCHANGED <<ledgerVars, steps, turns, cli, ran, settled, charged, flawed>>

\* A process that dies writes no more; what it wrote has been parsed.
Dies(p) ==
  /\ proc[p].script # <<>> /\ proc[p].surface = "legacy"
  /\ proc' = [proc EXCEPT ![p] = Idle]
  /\ UNCHANGED <<ledgerVars, steps, turns, cli, ran, settled, charged, flawed, final>>

----------------------------------------------------------------------------
\* Sessions may have run, and cost, before this host began.
MemoryInit ==
  /\ LedgerInit /\ StepInit
  /\ proc = [p \in Procs |-> Idle] /\ turns = 0
  /\ cli \in [Sessions -> {0} \union Costs] /\ ran = [s \in Sessions |-> 0]
  /\ settled = {} /\ flawed = {}
  /\ charged = [x \in Surface |-> [s \in Sessions |-> 0]]
  /\ final = [p \in Procs |-> [x \in Surface |-> Unsaid]]

Step(p) ==
  \/ \E s \in Sessions, c \in Costs, fresh, good \in BOOLEAN : ClaudeTurn(p, s, c, fresh, good)
  \/ ParseResult(p) \/ ParseFailure(p)
  \/ \E s \in Chats, script \in Scripts : OpencodeTurn(p, s, script)
  \/ StepStart(p) \/ Text(p) \/ StepFinish(p) \/ Dies(p)
MemoryNext == \E p \in Procs : Step(p)
MemorySpec == MemoryInit /\ [][MemoryNext]_memoryVars

----------------------------------------------------------------------------
(* Properties *)

\* Neither surface ever reports more for a session than its turns cost under
\* this host: whatever was evicted, resumed from before, counted afresh or
\* failed, and wherever other sessions' results come in between.
NeverOvercharged == \A x \in Surface, s \in Sessions : charged[x][s] <= ran[s]

\* A session whose first result was seen here, which was not evicted and did
\* not count afresh, is reported its exact cost on both surfaces, each result
\* counted once though it is parsed twice, and a failed turn with the next.
CostIsExact ==
  \A s \in Sessions : (s \in settled \ flawed /\ ~Busy(s)) =>
    \A x \in Surface : charged[x][s] = ran[s]

\* The final message a turn reports, on either surface, is what it wrote in
\* its last step: nothing of an earlier step, of a turn of its session that
\* died, or of a turn beside it, and no part twice.
LastStep(script) ==
  { i \in 1..Len(script) :
      /\ script[i].type = "text"
      /\ \A j \in i..Len(script) : script[j].type # "step_start"
      /\ \A h \in 1..i-1 :
           (script[h].type = "text" /\ script[h].part = script[i].part) =>
             \E j \in h..i : script[j].type = "step_start" }
Answer(script) ==
  LET places == Select([i \in 1..Len(script) |-> i], LastStep(script))
  IN  [n \in 1..Len(places) |-> script[places[n]].part]
FinalIsTheAnswer ==
  \A p \in Procs, x \in Surface :
    final[p][x] # Unsaid => final[p][x].said = Answer(final[p][x].script)
=============================================================================
