---------------------------- MODULE MCPTYBridge -----------------------------
(* Instances of PTYBridge for TLC: the lines the CLI may write.            *)
EXTENDS PTYBridge

A == INSTANCE CliAdapters

\* As for the subprocess bridge, plus what the CLI writes to its stderr, which
\* reaches the parser as a line it rejects.
CoreLines ==
  {A!CodexMessage, A!OpencodeToolUse, A!ClaudeUser, A!ClaudeFailure, MalformedLine}
    \union {EventLine(<<"info", "done">>, <<"info", "info", "done">>)}

AnyLines == A!ClaudeLines \union A!CodexLines \union A!OpencodeLines \union A!AgyLines

TextLines == {A!CodexMessage, EventLine(<<"done">>, <<"done">>)}
ToolLines == {A!OpencodeToolUse, EventLine(<<"done">>, <<"done">>)}
=============================================================================
