------------------------------- MODULE Layout -------------------------------
(***************************************************************************)
(* layout: the one table of where each agent CLI reads its instructions,   *)
(* configuration, MCP servers and skills, and which flag, variable and     *)
(* working directory make it look there.  Everything a launch is made of   *)
(* (Argv) is read from it with Find.                                       *)
(***************************************************************************)
EXTENDS Naturals, Sequences

\* The modes a runtime can be driven in.
PerTurn == "subprocess-per-turn"
Streaming == "streaming-stdio"
JSONRPC == "jsonrpc-stdio"
HTTPSSE == "http-sse"
PTYMode == "pty"
ACP == {"acp-stdio", "acp-tcp"}
Mode == {PerTurn, Streaming, JSONRPC, HTTPSSE, PTYMode} \union ACP

\* A launch shape: a mode, and a variant of it ("" is none).
Shape(mode, variant) == [mode |-> mode, variant |-> variant]
Plain(mode) == Shape(mode, "")
Bare == Shape(PerTurn, "bare")

\* The table, a row for each place: provider, the mode and variant it is for
\* ("" is any), concern, root, path under it, flag, variables, working directory.
ClaudeRows ==
  << <<"claude", "", "", "instructions", "boot", "CLAUDE.md", "", {}, "boot">>,
     <<"claude", PerTurn, "bare", "instructions", "boot", "CLAUDE.md", "--append-system-prompt-file", {}, "boot">>,
     <<"claude", "", "", "boot", "boot", "boot.md", "", {}, "boot">>,
     <<"claude", "", "", "mcp", "boot", ".mcp.json", "--mcp-config", {}, "boot">>,
     <<"claude", "", "", "native-config", "boot", ".claude/settings.json", "", {}, "boot">>,
     <<"claude", PerTurn, "bare", "native-config", "boot", ".claude/settings.json", "--settings", {}, "boot">>,
     <<"claude", "", "", "skills", "boot", ".claude/skills", "", {}, "boot">>,
     <<"claude", PerTurn, "bare", "skills", "boot", ".claude/skills", "--add-dir", {}, "boot">>,
     <<"claude", "", "", "project-dir", "project", "", "--add-dir", {}, "boot">> >>

CodexRows ==
  << <<"codex", "", "", "instructions", "boot", "AGENTS.md", "", {}, "boot">>,
     <<"codex", "", "", "boot", "boot", "boot.md", "", {}, "boot">>,
     <<"codex", "", "", "native-config", "boot", "config.toml", "", {"CODEX_HOME"}, "boot">>,
     <<"codex", "", "", "auth", "boot", "auth.json", "", {"CODEX_HOME"}, "boot">>,
     <<"codex", "", "", "mcp", "boot", ".mcp.json", "", {}, "boot">>,
     <<"codex", "", "", "skills", "boot", "skills", "", {"CODEX_HOME"}, "boot">>,
     <<"codex", PerTurn, "", "project-dir", "project", "", "--cd", {}, "">> >>

OpencodeRows ==
  << <<"opencode", "", "", "instructions", "boot", "agents/{agent}.md", "", {"OPENCODE_CONFIG_DIR"}, "project">>,
     <<"opencode", "", "", "native-config", "boot", "opencode.json", "", {"OPENCODE_CONFIG_DIR"}, "project">>,
     <<"opencode", "", "", "boot", "boot", "boot.md", "", {}, "">>,
     <<"opencode", "", "", "mcp", "boot", ".mcp.json", "", {}, "">>,
     <<"opencode", "", "", "skills", "boot", "skills", "", {"OPENCODE_CONFIG_DIR"}, "project">>,
     <<"opencode", "", "", "skills", "boot", ".opencode/skills", "", {}, "boot">>,
     <<"opencode", PerTurn, "", "project-dir", "project", "", "--dir", {}, "">>,
     <<"opencode", HTTPSSE, "", "runtime", "project", "", "serve", {}, "">> >>

AntigravityRows ==
  << <<"antigravity", "", "", "instructions", "boot", "AGENTS.md", "", {}, "boot">>,
     <<"antigravity", "", "", "boot", "boot", "boot.md", "", {}, "boot">>,
     <<"antigravity", "", "", "native-config", "boot", ".agents/plugins/tether/plugin.json", "", {}, "boot">>,
     <<"antigravity", "", "", "mcp", "boot", ".agents/plugins/tether/mcp_config.json", "", {}, "boot">>,
     <<"antigravity", "", "", "skills", "boot", ".agents/skills", "", {}, "boot">>,
     <<"antigravity", PerTurn, "", "project-dir", "project", "", "--add-dir", {}, "">> >>

Row(x) == [provider |-> x[1], mode |-> x[2], variant |-> x[3], concern |-> x[4], root |-> x[5],
           rel |-> x[6], flag |-> x[7], env |-> x[8], cwd |-> x[9]]
Rows == ClaudeRows \o CodexRows \o OpencodeRows \o AntigravityRows
Table == [i \in DOMAIN Rows |-> Row(Rows[i])]

AppliesTo(e, s) == e.mode \in {"", s.mode} /\ e.variant \in {"", s.variant}

\* One point for each of mode and variant a row pins.
Specificity(e) ==
  (IF e.mode = "" THEN 0 ELSE 1) + (IF e.variant = "" THEN 0 ELSE 1)

RowsFor(t, r, s, c) ==
  { i \in DOMAIN t : t[i].provider = r /\ t[i].concern = c /\ AppliesTo(t[i], s) }
HasRow(r, s, c) == RowsFor(Table, r, s, c) # {}

\* Faulty variant: the first row that applies, however general.
First(t, rows) == t[CHOOSE i \in rows : \A j \in rows : i <= j]

\* The most specific of the rows; among equals the first.
Best(t, rows) ==
  t[CHOOSE i \in rows : \A j \in rows :
      \/ Specificity(t[i]) > Specificity(t[j])
      \/ Specificity(t[i]) = Specificity(t[j]) /\ i <= j]

Find(r, s, c) == Best(Table, RowsFor(Table, r, s, c))

\* The rows a runtime has, and the variants they pin in a mode.
HasLayout(r) == \E i \in DOMAIN Table : Table[i].provider = r
ModesNamed(r) == { Table[i].mode : i \in { k \in DOMAIN Table : Table[k].provider = r } } \ {""}
VariantsNamed(r, m) ==
  { Table[i].variant : i \in { k \in DOMAIN Table : Table[k].provider = r /\ Table[k].mode = m } } \ {""}
=============================================================================
