----------------------------- MODULE CliReading -----------------------------
(***************************************************************************)
(* The agent CLIs' side of a launch, external to this repository: how each *)
(* reads its arguments, and where it finds its MCP servers, skills and     *)
(* instructions.  Taken from what the conventions, the layout table and    *)
(* the descriptors record as measured.                                     *)
(***************************************************************************)
EXTENDS Argv

\* Flags with no value, with one, and with a list that runs to the next flag.
Switches(r) ==
  CASE r = "claude" -> {"-p", "--verbose", "--bare", StrictFlag, SkipFlag}
    [] r = "codex" -> {"--json", "--skip-git-repo-check"}
    [] r = "opencode" -> {"--auto"}
    [] OTHER -> {SkipFlag}
Valued(r) ==
  CASE r = "claude" -> {"--resume", "--input-format", "--output-format", "--model", "--settings",
                        "--append-system-prompt-file", "--permission-mode"}
    [] r = "codex" -> {"-c", "--cd"}
    [] r = "opencode" -> {"--format", "--agent", "--model", "--dir", "--session", "--port", "--hostname"}
    [] OTHER -> {"--output-format", "--mode", "--model", "--effort", "--agent", "--add-dir", "--conversation"}
Lists(r) == CASE r = "claude" -> {"--mcp-config", "--add-dir"} [] r = "codex" -> {"--image"} [] OTHER -> {}
Inline(r) == CASE r = "claude" -> {"--system-prompt="} [] r = "antigravity" -> {"-p="} [] OTHER -> {}

\* Whatever starts with a dash is taken for a flag.
Dashed ==
  {"--"} \union UNION { Switches(r) \union Valued(r) \union Lists(r) \union Inline(r)
                          : r \in {"claude", "codex", "opencode", "antigravity"} }

\* What the CLI has understood: its options with their values, the words in
\* front of "--" (a subcommand, a thread id), the text after it, a flag
\* still waiting for its value, the list that is open, and whether it gives up.
NotRead == [options |-> {}, words |-> <<>>, text |-> <<>>, ended |-> FALSE,
            wants |-> "", list |-> "", bad |-> FALSE]

ReadOne(r, seen, arg) ==
  LET head == IF arg = <<>> THEN "" ELSE arg[1]
      opt(flag, value) == [seen EXCEPT !.options = @ \union {<<flag, value>>}, !.wants = "", !.list = ""]
      \* codex takes exec's options in front of the resume subcommand only
      late == r = "codex" /\ Contains(seen.words, <<"resume">>)
      is(flags) == arg = <<head>> /\ head \in flags
  IN  IF seen.ended THEN [seen EXCEPT !.text = Append(@, arg)]
      ELSE IF seen.wants # "" THEN opt(seen.wants, arg)
      ELSE IF arg = <<"--">> THEN [seen EXCEPT !.ended = TRUE, !.list = ""]
      ELSE IF head \in Inline(r) THEN opt(head, Tail(arg))
      ELSE IF head \in Dashed
      THEN CASE ~late /\ is(Switches(r)) -> opt(head, <<>>)
             [] ~late /\ is(Valued(r)) -> [seen EXCEPT !.wants = head, !.list = ""]
             [] ~late /\ is(Lists(r)) -> [seen EXCEPT !.list = head]
             [] OTHER -> [seen EXCEPT !.bad = TRUE]
      ELSE IF seen.list # "" THEN [seen EXCEPT !.options = @ \union {<<seen.list, arg>>}]
      ELSE [seen EXCEPT !.words = Append(@, arg)]
Read(r, argv) ==
  LET read[i \in 0..Len(argv)] == IF i = 0 THEN NotRead ELSE ReadOne(r, read[i - 1], argv[i])
  IN  read[Len(argv)]

GivesUp(reading) == reading.bad \/ reading.wants # ""
ValuesOf(reading, flag) == { o[2] : o \in { x \in reading.options : x[1] = flag } }
Switched(reading, flag) == ValuesOf(reading, flag) # {}

\* The turn's text, and the session it resumes (<<>> for a new one).
TextOf(r, reading) ==
  IF r = "antigravity" THEN UNION { {v} : v \in ValuesOf(reading, "-p=") } ELSE ToSet(reading.text)
ResumeOf(r, reading) ==
  CASE r = "codex" -> IF Contains(reading.words, <<"resume">>) THEN Last(reading.words) ELSE <<>>
    [] OTHER -> LET ids == UNION { ValuesOf(reading, f) : f \in {"--resume", "--session", "--conversation"} }
                IN  IF ids = {} THEN <<>> ELSE CHOOSE id \in ids : TRUE

----------------------------------------------------------------------------
(* Discovery, for a process started in cwd with env. *)

\* The places a CLI reads MCP servers from: the file at a path, the user's
\* own configuration, the project's.
UserServers == <<"user-servers">>
ProjectServers == <<"project-servers">>
ServerPlaces(r, shape, reading, cwd, env) ==
  CASE r = "claude" ->
         LET strict == Switched(reading, StrictFlag) IN
         ValuesOf(reading, "--mcp-config")
           \union (IF strict \/ shape = Bare THEN {} ELSE {UserServers, cwd \o <<".mcp.json">>})
    [] r = "codex" -> {IF EnvOf(env, "CODEX_HOME") = <<>> THEN UserServers
                       ELSE env["CODEX_HOME"] \o <<"config.toml">>}
    [] r = "opencode" -> {UserServers, ProjectServers, EnvOf(env, "OPENCODE_CONFIG_DIR") \o <<"opencode.json">>}
    [] OTHER -> {UserServers, cwd \o <<".agents/plugins/tether/mcp_config.json">>}

\* A server as a CLI understands what its configuration says.
Http(url) == [kind |-> "http", at |-> url]
Stdio(command) == [kind |-> "stdio", at |-> command]
Understood(r, entry) ==
  LET typed(t) == r \in DOMAIN t => ("type" \in DOMAIN entry /\ entry.type = t[r])
      url == IF r = "antigravity" THEN "serverUrl" ELSE "url"
  IN  CASE url \in DOMAIN entry /\ typed([claude |-> "http", opencode |-> "remote"]) -> Http(entry[url])
        [] "command" \in DOMAIN entry /\ typed([claude |-> "stdio", opencode |-> "local"]) -> Stdio(entry.command)
        [] OTHER -> [kind |-> "not-understood", at |-> ""]

\* The directories scanned for skills.
SkillPlaces(r, shape, reading, cwd, env) ==
  CASE r = "claude" ->
         { d \o <<".claude/skills">> : d \in ValuesOf(reading, "--add-dir") }
           \union (IF shape = Bare THEN {} ELSE {cwd \o <<".claude/skills">>})
    [] r = "codex" -> {EnvOf(env, "CODEX_HOME") \o <<"skills">>}
    [] r = "opencode" -> {EnvOf(env, "OPENCODE_CONFIG_DIR") \o <<"skills">>, cwd \o <<".opencode/skills">>}
    [] OTHER -> {cwd \o <<".agents/skills">>}

\* The files read as instructions; OpenCode reads its agent's.
InstructionPlaces(r, shape, reading, cwd, env) ==
  CASE r = "claude" ->
         ValuesOf(reading, "--append-system-prompt-file")
           \union (IF shape = Bare THEN {} ELSE {cwd \o <<"CLAUDE.md">>})
    [] r = "codex" -> {cwd \o <<"AGENTS.md">>, EnvOf(env, "CODEX_HOME") \o <<"AGENTS.md">>}
    [] r = "opencode" -> { EnvOf(env, "OPENCODE_CONFIG_DIR") \o <<"agents/{agent}.md">> \o name
                             : name \in ValuesOf(reading, "--agent") }
    [] OTHER -> {cwd \o <<"AGENTS.md">>}

\* Claude, Codex and OpenCode refuse to resume a session they do not have;
\* agy warns and starts another.
RefusesUnknown(r) == r # "antigravity"
=============================================================================
