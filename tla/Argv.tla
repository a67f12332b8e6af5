-------------------------------- MODULE Argv --------------------------------
(***************************************************************************)
(* provider: how a turn's command line and environment are made.  A launch *)
(* convention is a sequence of argument templates; ResolveTurn fills them  *)
(* in from the launch roots and the turn.  An adapter's BuildArgs resolves *)
(* the convention built from its own fields, a projection the one built    *)
(* from the layout table.                                                  *)
(*                                                                         *)
(* A text (an argument, a path, a prompt) is a sequence of parts, so       *)
(* joining and inspecting it stays what the code does; <<>> is empty.      *)
(***************************************************************************)
EXTENDS Layout, SequencesExt

\* The parts one after the other, and f with what g adds to it.
Flat(parts) ==
  LET flat[i \in 0..Len(parts)] == IF i = 0 THEN <<>> ELSE flat[i - 1] \o parts[i]
  IN  flat[Len(parts)]
Over(f, g) == [x \in DOMAIN f \union DOMAIN g |-> IF x \in DOMAIN f THEN f[x] ELSE g[x]]

\* An adapter's fields.
NewAdapter(runtime, mode) ==
  [runtime |-> runtime, mode |-> mode, bare |-> FALSE, model |-> <<>>, skip |-> FALSE,
   exclusive |-> FALSE, agent |-> <<>>, permission |-> "", approval |-> "", sandbox |-> "",
   effort |-> <<>>, extra |-> <<>>, mcpConfig |-> <<>>, promptFile |-> <<>>, settings |-> <<>>, skillsDir |-> <<>>,
   projectDirs |-> <<>>]

ClaudeShape(a) ==
  CASE a.bare -> Bare
    [] ~a.bare /\ a.mode = "pty" -> Plain(PTYMode)
    [] ~a.bare /\ a.mode = "stream-json" -> Plain(Streaming)
    [] OTHER -> Plain(PerTurn)
CodexShape(a) == Plain(IF a.mode = "app-server" THEN JSONRPC ELSE PerTurn)
OpencodeShape(a) == Plain(IF a.mode = "serve-http" THEN HTTPSSE ELSE PerTurn)
ShapeOf(a) ==
  CASE a.runtime = "claude" -> ClaudeShape(a)
    [] a.runtime = "codex" -> CodexShape(a)
    [] a.runtime = "opencode" -> OpencodeShape(a)
    [] OTHER -> Plain(PerTurn)

----------------------------------------------------------------------------
(* Argument templates *)

Template(kind, value) ==
  [kind |-> kind, value |-> value, root |-> "", rel |-> "", omit |-> FALSE,
   system |-> FALSE, firstOnly |-> FALSE]
Lit(text) == Template("literal", text)
Lits(words) == [i \in DOMAIN words |-> Lit(<<words[i]>>)]
Prompt == Template("prompt", <<>>)
Extra == Template("extra", <<>>)
Resume(flag) == Template("resume", <<flag>>)
WithSystem(t) == [t EXCEPT !.system = TRUE]

\* A flag and a field's value, or nothing when the field is empty.
FieldArg(flag, text) == IF text = <<>> THEN <<>> ELSE <<Lit(<<flag>>), Lit(text)>>
Value(flag, text) == IF text = <<>> THEN <<>> ELSE Lits(<<flag>>) \o <<Lit(text)>>

PathArg(kind, e) ==
  [Template(kind, <<e.flag>>) EXCEPT !.root = e.root, !.rel = e.rel, !.omit = TRUE]
LayoutFileArg(r, s, c) == PathArg("file", Find(r, s, c))
LayoutProjectDirs(r, s) ==
  IF HasRow(r, s, "project-dir") THEN <<PathArg("root", Find(r, s, "project-dir"))>> ELSE <<>>
FieldProjectDirs(r, s, dirs) ==
  IF HasRow(r, s, "project-dir")
  THEN Flat([i \in DOMAIN dirs |-> FieldArg(Find(r, s, "project-dir").flag, dirs[i])])
  ELSE <<>>

NoPaths == [mcp |-> <<>>, instructions |-> <<>>, settings |-> <<>>, projectDirs |-> <<>>,
            skillsDir |-> <<>>]

\* --bare reads no skills of its working directory: the boot root must be an
\* --add-dir, when there are skills.
\* Faulty variant: also when there are none.
SkillsDirAlways(s, withSkills) ==
  IF s = Bare
  THEN << [Template("root", <<Find("claude", s, "skills").flag>>) EXCEPT !.root = "boot", !.omit = TRUE] >>
  ELSE <<>>
SkillsDir(s, withSkills) ==
  IF s = Bare /\ withSkills
  THEN << [Template("root", <<Find("claude", s, "skills").flag>>) EXCEPT !.root = "boot", !.omit = TRUE] >>
  ELSE <<>>

\* Claude's path arguments in the boot directory's layout.
ClaudeLayoutPaths(s, withSkills) ==
  [mcp |-> <<LayoutFileArg("claude", s, "mcp")>>,
   projectDirs |-> LayoutProjectDirs("claude", s),
   instructions |-> IF s = Bare THEN <<LayoutFileArg("claude", s, "instructions")>> ELSE <<>>,
   settings |-> IF s = Bare THEN <<LayoutFileArg("claude", s, "native-config")>> ELSE <<>>,
   skillsDir |-> SkillsDir(s, withSkills)]

\* The same arguments from the adapter's fields.
ClaudeFieldPaths(a, s) ==
  [mcp |-> FieldArg(Find("claude", s, "mcp").flag, a.mcpConfig),
   projectDirs |-> FieldProjectDirs("claude", s, a.projectDirs),
   instructions |-> IF s = Bare THEN FieldArg(Find("claude", s, "instructions").flag, a.promptFile) ELSE <<>>,
   settings |-> IF s = Bare THEN FieldArg(Find("claude", s, "native-config").flag, a.settings) ELSE <<>>,
   skillsDir |-> IF s = Bare THEN FieldArg(Find("claude", s, "skills").flag, a.skillsDir) ELSE <<>>]

LayoutPaths(a) == [NoPaths EXCEPT !.projectDirs = LayoutProjectDirs(a.runtime, ShapeOf(a))]
FieldPaths(a) ==
  IF a.runtime = "claude" THEN ClaudeFieldPaths(a, ShapeOf(a))
  ELSE [NoPaths EXCEPT !.projectDirs = FieldProjectDirs(a.runtime, ShapeOf(a), a.projectDirs)]

----------------------------------------------------------------------------
(* The conventions.  Turn text is untrusted: it comes last, after "--" or   *)
(* joined to its flag, and extra arguments stay in front of it.             *)

StrictFlag == "--strict-mcp-config"
SkipFlag == "--dangerously-skip-permissions"

\* Working directory, config root and environment hang off the row of the
\* native configuration.
ConventionIn(e, r, s, args) ==
  [runtime |-> r, mode |-> s.mode, variant |-> s.variant, cwd |-> e.cwd, configRoot |-> e.root,
   argv |-> args,
   env |-> SetToSeq({ [name |-> k, value |-> "boot", op |-> "set", precedence |-> "provider-wins"]
                        : k \in e.env })]
NewConvention(r, s, args) == ConventionIn(Find(r, s, "native-config"), r, s, args)

ClaudeArgs(a, s, p) ==
  LET model == Value("--model", a.model)
      mcp == p.mcp \o (IF a.exclusive THEN Lits(<<StrictFlag>>) ELSE <<>>)
      stream == <<"--output-format", "stream-json", "--verbose">>
      body ==
        CASE s.mode = PTYMode -> model \o mcp
          [] s.mode = Streaming -> Lits(<<"-p", "--input-format", "stream-json">> \o stream) \o model \o mcp
          [] s = Bare -> Lits(<<"-p">> \o stream \o <<"--bare">>) \o model \o mcp
                           \o p.instructions \o p.settings
          [] OTHER -> Lits(<<"-p">> \o stream)
                        \o (IF a.mode # "" THEN Lits(<<"--input-format", a.mode>>) ELSE <<>>)
                        \o model \o mcp
                        \o << [Template("system-prompt", <<"--system-prompt=">>) EXCEPT !.firstOnly = TRUE] >>
  IN  <<Resume("--resume")>> \o body \o <<Extra>> \o p.projectDirs \o p.skillsDir
        \o (IF a.skip THEN Lits(<<SkipFlag>>) ELSE <<>>)
        \o (IF s.mode = PerTurn THEN <<Prompt>> ELSE <<>>)

CodexArgs(a, s, p) ==
  LET model == IF a.model = <<>> THEN <<>> ELSE Lits(<<"-c">>) \o <<Lit(<<"model=">> \o a.model)>>
  IN  IF s.mode = JSONRPC THEN Lits(<<"app-server">>) \o model \o <<Extra>>
      ELSE Lits(<<"exec">>) \o model \o <<Extra>> \o Lits(<<"--json", "--skip-git-repo-check">>)
             \o p.projectDirs \o <<Resume("resume"), Prompt>>

OpencodeArgs(a, s, agent, p) ==
  IF s.mode = HTTPSSE
  THEN Lits(<<Find("opencode", s, "runtime").flag, "--port", "0", "--hostname", "127.0.0.1">>) \o <<Extra>>
  ELSE Lits(<<"run", "--format", "json", "--agent">>) \o <<Lit(agent)>> \o Value("--model", a.model)
         \o p.projectDirs \o <<Resume("--session"), Extra, WithSystem(Prompt)>>

AntigravityArgs(a, p) ==
  Lits(<<"--output-format", "stream-json">>)
    \o (CASE a.permission = "bypass" -> Lits(<<SkipFlag>>)
          [] a.permission \in {"accept-edits", "plan"} -> Lits(<<"--mode", a.permission>>)
          [] OTHER -> <<>>)
    \o Value("--model", a.model) \o Value("--effort", a.effort) \o Value("--agent", a.agent)
    \o <<Extra>> \o p.projectDirs \o <<Resume("--conversation")>>
    \o <<WithSystem(Template("prompt-inline", <<"-p=">>))>>

Convention(a, agent, p) ==
  NewConvention(a.runtime, ShapeOf(a),
    CASE a.runtime = "claude" -> ClaudeArgs(a, ShapeOf(a), p)
      [] a.runtime = "codex" -> CodexArgs(a, ShapeOf(a), p)
      [] a.runtime = "opencode" -> OpencodeArgs(a, ShapeOf(a), agent, p)
      [] OTHER -> AntigravityArgs(a, p))

----------------------------------------------------------------------------
(* ResolveTurn *)

\* [flag, value] as two arguments, or one when the flag ends in "=".
Joined == {"--system-prompt=", "-p="}
FlagValue(flag, text) ==
  CASE text = <<>> -> <<>>
    [] text # <<>> /\ flag = <<>> -> <<text>>
    [] text # <<>> /\ flag # <<>> -> IF Last(flag) \in Joined THEN <<flag \o text>> ELSE <<flag, text>>

PrefixSystem(text, system) ==
  IF system = <<>> THEN text ELSE <<"System:">> \o system \o <<"blank-line">> \o text

\* A root's path, <<>> when the launch has none.
RootValue(roots, kind) == IF kind = "" THEN <<>> ELSE roots[kind]

\* Faulty variant: the prompt is a bare positional argument.
ResolveTemplateBare(roots, t, in) ==
  LET root == RootValue(roots, t.root)
  IN  CASE t.firstOnly /\ in.resume # <<>> -> <<>>
        [] t.kind = "literal" -> <<t.value>>
        [] t.kind = "prompt" -> <<in.prompt>>
        [] t.kind = "prompt-inline" -> <<t.value \o PrefixSystem(in.prompt, in.system)>>
        [] t.kind = "system-prompt" -> FlagValue(t.value, in.system)
        [] t.kind = "resume" -> FlagValue(t.value, in.resume)
        [] OTHER -> IF root = <<>> THEN <<>> ELSE <<t.value, root \o <<t.rel>>>>
ResolveTemplate(roots, t, in) ==
  LET text == IF t.system THEN PrefixSystem(in.prompt, in.system) ELSE in.prompt
      root == RootValue(roots, t.root)
      path == root \o (IF t.rel = "" THEN <<>> ELSE <<t.rel>>)
  IN  IF t.firstOnly /\ in.resume # <<>> THEN <<>>
      ELSE CASE t.kind = "literal" -> IF t.value = <<>> /\ t.omit THEN <<>> ELSE <<t.value>>
             [] t.kind = "prompt" -> IF text = <<>> /\ t.omit THEN <<>> ELSE << <<"--">>, text >>
             [] t.kind = "prompt-inline" -> <<t.value \o text>>
             [] t.kind = "system-prompt" -> FlagValue(t.value, in.system)
             [] t.kind = "resume" -> FlagValue(t.value, in.resume)
             [] OTHER -> IF root = <<>> /\ t.omit THEN <<>>
                         ELSE IF t.value = <<>> THEN <<path>> ELSE <<t.value, path>>

\* Everything after the prompt would be read as text: the prompt must be last.
PromptIsLast(c) == \A i \in DOMAIN c.argv : c.argv[i].kind = "prompt" => i = Len(c.argv)

\* Extra arguments go at the convention's slot; without one, in front of the
\* prompt; without that, last.
Slot(argv) ==
  LET kinds == { argv[i].kind : i \in DOMAIN argv }
  IN  CASE "extra" \in kinds -> "extra"
        [] "extra" \notin kinds /\ "prompt" \in kinds -> "prompt"
        [] OTHER -> "end"
Piece(t, slot, roots, in, extra) ==
  (IF t.kind = slot THEN extra ELSE <<>>)
    \o (IF t.kind = "extra" THEN <<>> ELSE ResolveTemplate(roots, t, in))
Filled(argv, slot, roots, in, extra) ==
  Flat([i \in DOMAIN argv |-> Piece(argv[i], slot, roots, in, extra)])
Argv(c, roots, in, extra) ==
  Filled(c.argv, Slot(c.argv), roots, in, extra) \o (IF Slot(c.argv) = "end" THEN extra ELSE <<>>)

\* A binding: where the CLI starts, its arguments and environment amendments.
ResolveTurn(c, given, in, extra) ==
  LET roots == IF given["config"] = <<>> THEN [given EXCEPT !["config"] = given["boot"]] ELSE given
      cwd == RootValue(roots, c.cwd)
      path(v) == IF v \in DOMAIN roots /\ roots[v] # <<>> THEN roots[v] ELSE <<v>>
  IN  [cwd |-> IF cwd = <<>> /\ c.cwd = "project" THEN roots["boot"] ELSE cwd,
       configDir |-> RootValue(roots, c.configRoot),
       argv |-> Argv(c, roots, in, extra),
       env |-> [i \in DOMAIN c.env |-> [c.env[i] EXCEPT !.value = path(c.env[i].value)]]]

Root == {"boot", "project", "config", "state", "scratch", "cwd"}
NoRoots == [k \in Root |-> <<>>]

\* BuildArgs, with a caller's extras after the adapter's own.
BuildArgs(a, in, extras) ==
  Argv(Convention(a, a.agent, FieldPaths(a)), NoRoots, in, a.extra \o extras)

----------------------------------------------------------------------------
(* ApplyEnvDeltas: an environment is a function from names to texts. *)

EnvOf(env, k) == IF k \in DOMAIN env THEN env[k] ELSE <<>>
Apply(env, d) ==
  LET cur == EnvOf(env, d.name)
      given(value) == Over([k \in {d.name} |-> value], env)
  IN  CASE d.precedence = "caller-wins" /\ d.name \in DOMAIN env -> env
        [] OTHER ->
             CASE d.op = "unset" -> [k \in DOMAIN env \ {d.name} |-> env[k]]
               [] d.op = "prepend" -> given(IF cur = <<>> THEN d.value ELSE d.value \o <<":">> \o cur)
               [] d.op = "append" -> given(IF cur = <<>> THEN d.value ELSE cur \o <<":">> \o d.value)
               [] OTHER -> given(d.value)
ApplyEnvDeltas(base, deltas) ==
  LET applied[i \in 0..Len(deltas)] == IF i = 0 THEN base ELSE Apply(applied[i - 1], deltas[i])
  IN  applied[Len(deltas)]
=============================================================================
