------------------------------ MODULE BootDir ------------------------------
(***************************************************************************)
(* provider: what is planted in a boot directory for each CLI, by a        *)
(* projection and by the older BootDirSpec.  A file's content is           *)
(* abstracted to the MCP servers it configures and whether it carries the  *)
(* agent's system prompt; arguments, environment and wording are left out. *)
(***************************************************************************)
EXTENDS Argv

Approval == {"on-failure", "on-request", "never"}
Sandbox == {"read-only", "workspace-write", "danger-full-access"}
ClaudeMode == {"default", "acceptEdits", "plan", "bypassPermissions"}

\* The permission policy the native configuration pins: for Codex an approval
\* policy and a sandbox, always, for Claude a default mode; "" is none.
CodexPolicy(a) ==
  [approval |-> IF a.approval = "" THEN "never" ELSE a.approval,
   sandbox |-> IF a.sandbox = "" THEN "workspace-write" ELSE a.sandbox]
ClaudeDefaultMode(a) ==
  IF a.permission # "" THEN a.permission ELSE IF a.skip THEN "bypassPermissions" ELSE ""
PolicyIsValid(a) ==
  CASE a.runtime = "codex" -> CodexPolicy(a).approval \in Approval /\ CodexPolicy(a).sandbox \in Sandbox
    [] a.runtime = "claude" -> ClaudeDefaultMode(a) \in ClaudeMode \union {""}
    [] OTHER -> TRUE

\* What is planted for one launch: the agent's name and system prompt, the
\* loopback URL and aggregator command ("" for none), and further servers.
\* A server has a name and exactly one of a URL and a command.
Reserved == {"loopback", "mux"}
\* Faulty variant: a server may take the name of the loopback or the aggregator.
MCPServersMayShadow(servers) ==
  \A i \in DOMAIN servers :
    servers[i].name \notin {"", "not-a-name"} /\ (servers[i].url = "") # (servers[i].command = "")
MCPServersAreValid(servers) ==
  /\ \A i \in DOMAIN servers :
       /\ servers[i].name \notin Reserved \union {"", "not-a-name"}
       /\ (servers[i].url = "") # (servers[i].command = "")
  /\ \A i, j \in DOMAIN servers : servers[i].name = servers[j].name => i = j

\* A server as each CLI's configuration writes it.
ClaudeEntry(s) ==
  IF s.url # "" THEN [type |-> "http", url |-> s.url] ELSE [type |-> "stdio", command |-> s.command]
OpencodeEntry(s) ==
  IF s.url # "" THEN [type |-> "remote", url |-> s.url, enabled |-> TRUE]
  ELSE [type |-> "local", command |-> s.command, enabled |-> TRUE]
AntigravityEntry(s) ==
  IF s.url # "" THEN [serverUrl |-> s.url] ELSE [command |-> s.command]
CodexEntry(s) == IF s.url # "" THEN [url |-> s.url] ELSE [command |-> s.command]

\* The loopback and the aggregator, when given, and the further servers, in
\* the order they are written, under their names.
Own(ctx) ==
  (IF ctx.loopback = "" THEN <<>> ELSE << [name |-> "loopback", url |-> ctx.loopback, command |-> ""] >>)
    \o (IF ctx.mux = "" THEN <<>> ELSE << [name |-> "mux", url |-> "", command |-> ctx.mux] >>)
Written(servers) ==
  [n \in { servers[i].name : i \in DOMAIN servers } |->
     servers[CHOOSE i \in DOMAIN servers :
               servers[i].name = n /\ \A j \in i+1..Len(servers) : servers[j].name # n]]
Planted(ctx) == Written(ctx.servers \o Own(ctx))
MCPJSON(ctx) == [n \in DOMAIN Planted(ctx) |-> ClaudeEntry(Planted(ctx)[n])]
OpencodeJSON(ctx) == [n \in DOMAIN Planted(ctx) |-> OpencodeEntry(Planted(ctx)[n])]
AntigravityMCPConfig(ctx) == [n \in DOMAIN Planted(ctx) |-> AntigravityEntry(Planted(ctx)[n])]

\* config.toml: a table given twice would make the file unreadable.
CodexConfig(ctx) == Own(ctx) \o ctx.servers
CodexTables(ctx) ==
  IF \A i, j \in DOMAIN CodexConfig(ctx) : CodexConfig(ctx)[i].name = CodexConfig(ctx)[j].name => i = j
  THEN LET s == Written(CodexConfig(ctx)) IN [n \in DOMAIN s |-> CodexEntry(s[n])]
  ELSE <<>>

\* The agent OpenCode runs under: the caller's name, else the adapter's own.
AgentName(a, ctx) ==
  IF ctx.agent # <<>> THEN ctx.agent ELSE IF a.agent # <<>> THEN a.agent ELSE <<"default">>

\* A planted file: its content is the servers it configures and whether the
\* agent's system prompt is in it.
File(r, s, concern) ==
  [concern |-> concern, rel |-> Find(r, s, concern).rel, agent |-> <<>>, servers |-> <<>>, system |-> FALSE]
Serving(r, s, concern, servers) == [File(r, s, concern) EXCEPT !.servers = servers]
Instructions(r, s, ctx) == [File(r, s, "instructions") EXCEPT !.system = (ctx.system # <<>>)]

ClaudeFiles(s, ctx) ==
  { Instructions("claude", s, ctx), File("claude", s, "boot"), File("claude", s, "native-config"),
    Serving("claude", s, "mcp", MCPJSON(ctx)) }
\* The .mcp.json Codex and OpenCode get as well is a mirror they do not read.
CodexFiles(s, ctx) ==
  { Instructions("codex", s, ctx), File("codex", s, "boot"), File("codex", s, "auth"),
    Serving("codex", s, "native-config", CodexTables(ctx)), Serving("codex", s, "mcp", MCPJSON(ctx)) }
\* agents/{agent}.md is named for the agent.
OpencodeFiles(s, ctx, agent) ==
  { [Instructions("opencode", s, ctx) EXCEPT !.agent = agent], File("opencode", s, "boot"),
    Serving("opencode", s, "native-config", OpencodeJSON(ctx)),
    Serving("opencode", s, "mcp", MCPJSON(ctx)) }
AntigravityFiles(s, ctx) ==
  { Instructions("antigravity", s, ctx), File("antigravity", s, "boot"),
    File("antigravity", s, "native-config"),
    Serving("antigravity", s, "mcp", AntigravityMCPConfig(ctx)) }

\* Skill packages go under the skills row: name, validity of name, files and
\* pin, and whether SKILL.md is there.
SkillsAreValid(skills) ==
  \A k \in skills : k.named /\ k.pinned /\ k.inside /\ k.document
SkillFiles(r, s, skills) ==
  { [File(r, s, "skills") EXCEPT !.concern = "skill", !.agent = <<k.name>>] : k \in skills }

\* A projection renders everything it plants, or nothing.
Renders(a, ctx, skills) ==
  PolicyIsValid(a) /\ MCPServersAreValid(ctx.servers) /\ SkillsAreValid(skills)

----------------------------------------------------------------------------
(* BootDirSpec, the older form: files, environment and working directory,   *)
(* as templates the host fills in.                                          *)

LegacyShape(a) == IF a.runtime = "codex" THEN ShapeOf(a) ELSE Plain(PerTurn)
LegacyAgent(a) == IF a.agent = <<>> THEN <<"default">> ELSE a.agent
LegacyFiles(a, ctx) ==
  CASE a.runtime = "claude" -> ClaudeFiles(LegacyShape(a), ctx)
    [] a.runtime = "codex" -> CodexFiles(LegacyShape(a), ctx)
    [] a.runtime = "opencode" -> OpencodeFiles(LegacyShape(a), ctx, LegacyAgent(a))
    [] OTHER -> AntigravityFiles(LegacyShape(a), ctx)
LegacyEnv(a, roots) == [k \in Find(a.runtime, LegacyShape(a), "native-config").env |-> roots["boot"]]
SpawnWorkdir(a, roots) ==
  IF Find(a.runtime, LegacyShape(a), "native-config").cwd = "project" /\ roots["project"] # <<>>
  THEN roots["project"] ELSE roots["boot"]
=============================================================================
