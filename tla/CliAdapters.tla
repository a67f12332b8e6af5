---------------------------- MODULE CliAdapters -----------------------------
(***************************************************************************)
(* The four native adapters as the bridges see them: for each kind of line *)
(* a CLI writes, the events ParseLine and ParseLineEvents return.  Each    *)
(* adapter parses a line twice, once per surface; the definitions keep the *)
(* two results side by side.                                               *)
(***************************************************************************)
EXTENDS TurnEvents

NoEvents == EventLine(<<>>, <<>>)

\* A line both surfaces report alike.
Same(s) == EventLine(s, s)

Usages == {<<>>, <<"info">>}
Denials == {<<>>, <<"info">>}

-----------------------------------------------------------------------------
(* claude -p --output-format stream-json                                   *)

ClaudeSystem == Same(<<"info">>)

\* The content blocks of one assistant message; a Task tool call is also a
\* sub-agent spawn on the typed surface.
ClaudeAssistant ==
  { Same(<<"delta">>), Same(<<"tool_use">>), Same(<<"delta", "tool_use">>),
    EventLine(<<"tool_use">>, <<"tool_use", "info">>) }

\* tool_result blocks reach the typed surface only.
ClaudeUser == EventLine(<<>>, <<"info">>)

\* Usage, then done; the refusals of the turn come first on the typed surface.
ClaudeResult ==
  { EventLine(usage \o <<"done">>, denied \o usage \o <<"done">>) :
      usage \in Usages, denied \in Denials }

ClaudeFailure == Same(<<"error">>)

ClaudeLines ==
  {ClaudeSystem, ClaudeUser, ClaudeFailure, NoEvents, MalformedLine}
    \union ClaudeAssistant \union ClaudeResult

-----------------------------------------------------------------------------
(* codex exec --json: tool items are not reported, so a codex turn has no   *)
(* tool_use.  "error" and "turn.failed" are lines of their own and a failed *)
(* turn writes both.                                                        *)

CodexThreadStarted == Same(<<"info">>)
CodexMessage == Same(<<"delta">>)
CodexTurnCompleted == { Same(usage \o <<"done">>) : usage \in Usages }
CodexFailure == Same(<<"error">>)

CodexLines ==
  {CodexThreadStarted, CodexMessage, CodexFailure, NoEvents, MalformedLine}
    \union CodexTurnCompleted

-----------------------------------------------------------------------------
(* opencode run --format json: unknown or non-JSON lines yield no events,  *)
(* never an error.                                                         *)

OpencodeStepStart == Same(<<"info">>)
OpencodeText == Same(<<"delta">>)
OpencodeToolUse == EventLine(<<"tool_use">>, <<"tool_use", "info">>)

\* opencodeStepEndsTurn: "tool-calls" goes on with the next step, "error" leaves
\* the failure to the error line, every other reason ends the turn.
OpencodeStepFinish(reason) ==
  LET done == IF reason \in {"tool-calls", "error"} THEN <<>> ELSE <<"done">>
  IN  { Same(usage \o done) : usage \in Usages }

OpencodeError == Same(<<"error">>)

OpencodeLines ==
  {OpencodeStepStart, OpencodeText, OpencodeToolUse, OpencodeError, NoEvents}
    \union UNION { OpencodeStepFinish(r) : r \in {"tool-calls", "error", "stop"} }

-----------------------------------------------------------------------------
(* agy --output-format stream-json                                         *)

AgyInit == Same(<<"info">>)

\* An agent_response step: its text and, once it is done, its usage.
AgyResponse == { Same(text \o usage) : text \in {<<>>, <<"delta">>}, usage \in Usages }

\* A tool step is a tool use when it starts and a typed result when it ends.
AgyToolActive == Same(<<"tool_use">>)
AgyToolEnded == EventLine(<<>>, <<"info">>)

AgyResult ==
  { EventLine(<<end>>, denied \o <<end>>) : end \in {"done", "error"}, denied \in Denials }

AgyLines ==
  {AgyInit, AgyToolActive, AgyToolEnded, NoEvents} \union AgyResponse \union AgyResult
=============================================================================
