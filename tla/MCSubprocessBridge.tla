------------------------ MODULE MCSubprocessBridge --------------------------
(* Instances of SubprocessBridge for TLC: the lines the CLI may write.     *)
EXTENDS SubprocessBridge

A == INSTANCE CliAdapters

\* A line with text, a tool call, both kinds of ending, and one for the typed
\* surface only.
CoreLines ==
  {A!CodexMessage, A!OpencodeToolUse, A!ClaudeUser, A!ClaudeFailure}
    \union {EventLine(<<"info", "done">>, <<"info", "info", "done">>)}

\* Each adapter's whole vocabulary.
ClaudeLines == A!ClaudeLines
CodexLines == A!CodexLines
OpencodeLines == A!OpencodeLines
AgyLines == A!AgyLines

\* Everything any of the four CLIs may write.
AnyLines == ClaudeLines \union CodexLines \union OpencodeLines \union AgyLines

\* Text only, with or without a line the scanner cannot hold.
TextLines == {A!CodexMessage, EventLine(<<"done">>, <<"done">>)}
OverlongLines == TextLines \union {OverlongLine}
ToolLines == {A!OpencodeToolUse, EventLine(<<"done">>, <<"done">>)}
=============================================================================
