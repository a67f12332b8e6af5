----------------------------- MODULE ScopeGuard -----------------------------
(***************************************************************************)
(* The scope guard (provider/scope_guard.go), a pure function of one       *)
(* stream event.  Tool names, paths and texts are the strings themselves;  *)
(* what the word list, the suspicious patterns and the compiled globs      *)
(* match is given by sets.                                                 *)
(***************************************************************************)
CONSTANTS
  Dangerous,   \* tool names that contain a word of the dangerous list
  Suspicious,  \* texts that match one of the suspicious patterns
  Allowed,     \* strings that one of the allowed globs matches
  AllowAll     \* "*" is one of the allowed globs

\* A tool input without a "file_path" string.
NoPath == "no path"

\* "*" allows every tool, but a path or a text needs a glob that matches it, and the
\* regexp made of "*" matches no string of several lines.
ToolOutOfScope(e) ==
  \/ e.text \in Dangerous /\ ~AllowAll /\ e.text \notin Allowed
  \/ e.path # NoPath /\ e.path \notin Allowed

TextOutOfScope(e) == e.text \in Suspicious /\ e.text \notin Allowed

OutOfScope(e) ==
  \/ e.kind = "tool_use" /\ ToolOutOfScope(e)
  \/ e.kind = "delta" /\ TextOutOfScope(e)
=============================================================================
