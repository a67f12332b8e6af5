------------------------------- MODULE Launch -------------------------------
(***************************************************************************)
(* From an adapter to the process of a turn.  A host either projects the   *)
(* adapter (ProviderProjection), or takes a projection some other adapter  *)
(* made and checks it, or plants the adapter's BootDirSpec and uses its    *)
(* BuildArgs; then it runs turn after turn with the session id the CLI     *)
(* reported last.  The CLI (CliReading, external) reads the arguments,     *)
(* finds its files and may have forgotten the session.  The registry goes  *)
(* on changing under it.                                                   *)
(***************************************************************************)
EXTENDS Registry, BootDir, CliReading

CONSTANTS Adapters,         \* adapters a host has
          Contexts,         \* what it plants: name, system prompt, servers
          Options,          \* what it asks of a projection
          Foreign,          \* projections made by adapters from elsewhere
          Settings,         \* the posture and the environment of its launches
          Prompts,          \* turn texts
          MaxTurns          \* bound: turns of one launch

\* The values these have: a text is a sequence of strings.  An adapter's own
\* extra arguments come from a trusted caller and are left empty; its skills
\* directory is a path, which no flag begins.
Texts == Seq(STRING)
AdapterFields ==
  [runtime : {"claude", "codex", "opencode", "antigravity"}, mode : STRING, bare : BOOLEAN,
   model : Texts, skip : BOOLEAN, exclusive : BOOLEAN, agent : Texts, permission : STRING,
   approval : STRING, sandbox : STRING, effort : Texts, extra : {<<>>}, mcpConfig : Texts,
   promptFile : Texts, settings : Texts, skillsDir : Texts, projectDirs : Seq(Texts)]
ContextFields ==
  [system : Texts, agent : Texts, loopback : STRING, mux : STRING,
   servers : Seq([name : STRING, url : STRING, command : STRING])]
SkillFields == [name : STRING, named : BOOLEAN, pinned : BOOLEAN, inside : BOOLEAN, document : BOOLEAN]
OptionFields == [exclusive : BOOLEAN, skills : SUBSET SkillFields, required : SUBSET STRING]
ASSUME LaunchAssumption ==
  /\ Adapters \subseteq AdapterFields
  /\ \A a \in Adapters : a.skillsDir = <<>> \/ a.skillsDir[1] \notin Dashed
  /\ Contexts \subseteq ContextFields /\ Options \subseteq OptionFields
  /\ \A set \in Settings : set.posture \in STRING /\ set.env \in [DOMAIN set.env -> Texts]
  /\ Prompts \subseteq Texts /\ MaxTurns \in Nat

VARIABLES stage,            \* "idle" | "ready" | "refused"
          launch,           \* the launch the host holds
          stored,           \* the session id it resumes with, <<>> for none
          sessions,         \* ids the CLI has -> whether that conversation heard the system prompt
          turn              \* the last turn
launchVars == <<stage, launch, stored, sessions, turn>>
allVars == <<regVars, launchVars>>

NoTurn == [number |-> 0]
NoLaunch == [path |-> "none"]

\* Where a launch's directories are.
Roots == [NoRoots EXCEPT !["boot"] = <<"/boot">>, !["project"] = <<"/project">>]

----------------------------------------------------------------------------
(* ProviderProjection *)

\* Faulty variant: the flag counts wherever it is.
CarriesStrictAnywhere(argv) ==
  \E i \in DOMAIN argv : argv[i].kind = "literal" /\ argv[i].value = <<StrictFlag>>
\* Ahead of the prompt and of a literal "--" the flag is an option.
CarriesStrictFlag(argv) ==
  \E i \in DOMAIN argv :
    /\ argv[i].kind = "literal" /\ argv[i].value = <<StrictFlag>>
    /\ \A j \in 1..i : /\ argv[j].kind \notin {"prompt", "prompt-inline"}
                       /\ ~(argv[j].kind = "literal" /\ argv[j].value = <<"--">>)

\* The last amendment of a variable must be the provider's, to the boot root.
SetsBootRoot(env, name) ==
  \E i \in DOMAIN env :
    /\ env[i].name = name /\ env[i].op = "set" /\ env[i].precedence = "provider-wins"
    /\ env[i].value = "boot"
    /\ \A j \in i+1..Len(env) : env[j].name # name

LayoutExclusiveEnv(r) == IF r = "codex" THEN "CODEX_HOME" ELSE ""

\* requireMCPExclusive: the registry must declare a mechanism for the mode and
\* the convention must carry it.
MCPExclusiveHolds(conv) ==
  LET how == IF Known(conv.runtime) THEN MCPExclusivity(Lookup(conv.runtime), conv.mode) ELSE ""
      name == LayoutExclusiveEnv(conv.runtime)
  IN  \/ how = "flag" /\ CarriesStrictFlag(conv.argv)
      \/ how = "projected-layout" /\ name # "" /\ SetsBootRoot(conv.env, name)

\* The capability matrix: a row for every native mode of a runtime with
\* projection facts and every variant its layout pins there.
ProjectionShapes(d) ==
  UNION { {Plain(m)} \union { Shape(m, v) : v \in VariantsNamed(d.id, m) } : m \in NativeModes(d) }
ProjectsFeatures(conv, required) ==
  \/ required = {}
  \/ \E i \in DOMAIN All : \E f \in All[i].projection :
       /\ All[i].id = conv.runtime /\ Shape(conv.mode, conv.variant) \in ProjectionShapes(All[i])
       /\ \A x \in required : f.features[x] = "projected"

\* What each adapter's projection launches and plants.  Asked to be
\* exclusive, Claude's sets the flag on a copy of the adapter.
ClaudeProjection(a, ctx, opts) ==
  LET s == ClaudeShape(a)
      b == [a EXCEPT !.exclusive = @ \/ opts.exclusive]
  IN  [conv |-> Convention(b, <<>>, ClaudeLayoutPaths(s, opts.skills # {})), files |-> ClaudeFiles(s, ctx)]
CodexProjection(a, ctx) ==
  [conv |-> Convention(a, <<>>, LayoutPaths(a)), files |-> CodexFiles(CodexShape(a), ctx)]
OpencodeProjection(a, ctx) ==
  [conv |-> Convention(a, AgentName(a, ctx), LayoutPaths(a)),
   files |-> OpencodeFiles(OpencodeShape(a), ctx, AgentName(a, ctx))]
AntigravityProjection(a, ctx) ==
  [conv |-> Convention(a, <<>>, LayoutPaths(a)), files |-> AntigravityFiles(Plain(PerTurn), ctx)]
Projected(a, ctx, opts) ==
  CASE a.runtime = "claude" -> ClaudeProjection(a, ctx, opts)
    [] a.runtime = "codex" -> CodexProjection(a, ctx)
    [] a.runtime = "opencode" -> OpencodeProjection(a, ctx)
    [] OTHER -> AntigravityProjection(a, ctx)

Accepted(conv, opts) ==
  (opts.exclusive => MCPExclusiveHolds(conv)) /\ ProjectsFeatures(conv, opts.required)

Begin(l) == stage' = "ready" /\ launch' = l /\ UNCHANGED <<stored, sessions, turn>>
RefuseLaunch == stage' = "refused" /\ UNCHANGED <<launch, stored, sessions, turn>>

ProviderProjection(a, ctx, opts, set) ==
  /\ Ready /\ stage = "idle"
  /\ \E p \in {Projected(a, ctx, opts)} :
       IF Renders(a, ctx, opts.skills) /\ Accepted(p.conv, opts)
       THEN Begin([path |-> "projection", adapter |-> a, ctx |-> ctx, opts |-> opts, set |-> set,
                   conv |-> p.conv,
                   files |-> p.files \union SkillFiles(a.runtime, ShapeOf(a), opts.skills)])
       ELSE RefuseLaunch
  /\ UNCHANGED regVars

\* CheckMCPExclusive, on a projection this package did not make.
TakeForeign(conv, ctx, opts, set) ==
  /\ Ready /\ stage = "idle" /\ opts.exclusive
  /\ IF MCPExclusiveHolds(conv)
     THEN Begin([path |-> "foreign", adapter |-> NewAdapter(conv.runtime, ""), ctx |-> ctx, opts |-> opts,
                 set |-> set, conv |-> conv, files |-> {}])
     ELSE RefuseLaunch
  /\ UNCHANGED regVars

\* BuildArgs: the host plants the BootDirSpec and names the files in the
\* adapter's fields, Claude's as BareInjectionPaths spells them.
BareInjectionPaths(a) ==
  [a EXCEPT !.mcpConfig = Roots["boot"] \o <<".mcp.json">>, !.promptFile = Roots["boot"] \o <<"CLAUDE.md">>,
            !.settings = Roots["boot"] \o <<".claude/settings.json">>, !.projectDirs = <<Roots["project"]>>]
WithFields(a) ==
  IF a.runtime = "claude" THEN BareInjectionPaths(a) ELSE [a EXCEPT !.projectDirs = <<Roots["project"]>>]
UseAdapter(a, ctx, set) ==
  /\ Ready /\ stage = "idle"
  /\ IF Renders(a, ctx, {})
     THEN Begin([path |-> "fields", adapter |-> WithFields(a), ctx |-> ctx,
                 opts |-> [exclusive |-> FALSE, skills |-> {}, required |-> {}], set |-> set,
                 conv |-> Convention(a, a.agent, FieldPaths(WithFields(a))),
                 files |-> LegacyFiles(a, ctx)])
     ELSE RefuseLaunch
  /\ UNCHANGED regVars

----------------------------------------------------------------------------
(* One turn *)

\* The posture's part: a posture nothing maps stops the launch.
Carried(l) ==
  IF l.set.posture = "" THEN Carries(<<>>, {})
  ELSE IF Known(l.conv.runtime) THEN PostureFor(Lookup(l.conv.runtime), l.set.posture, l.conv.mode)
  ELSE NoMapping

\* What the host hands the CLI: working directory, arguments, environment.
Bound(l, in, extra) ==
  LET prepared == ResolveTurn(l.conv, Roots, in, extra)
      env == IF l.path = "fields" THEN Over(LegacyEnv(l.adapter, Roots), l.set.env)
             ELSE ApplyEnvDeltas(l.set.env, prepared.env)
  IN  [cwd |-> IF l.path = "fields" THEN SpawnWorkdir(l.adapter, Roots) ELSE prepared.cwd,
       argv |-> IF l.path = "fields" THEN BuildArgs(l.adapter, in, extra) ELSE prepared.argv,
       env |-> Over([k \in { v[1] : v \in Carried(l).env } |-> <<l.set.posture>>], env)]

Input(l, prompt, resume) == [prompt |-> prompt, system |-> l.ctx.system, resume |-> resume]
ShapeIn(l) == Shape(l.conv.mode, l.conv.variant)
Reading(l, b) == Read(l.conv.runtime, b.argv)

\* The planted files among those the CLI looks at.
PathOf(f) == Roots["boot"] \o <<f.rel>> \o f.agent
Among(l, places) == { f \in l.files : PathOf(f) \in places }
Finds(l, b) ==
  LET r == l.conv.runtime
      s == ShapeIn(l)
      read == Reading(l, b)
  IN  [instructions |-> InstructionPlaces(r, s, read, b.cwd, b.env),
       servers |-> ServerPlaces(r, s, read, b.cwd, b.env),
       skills |-> SkillPlaces(r, s, read, b.cwd, b.env)]

\* The system prompt reaches a turn in its text, as an option or in a planted
\* file; a server's agent is chosen over HTTP.
Heard(l, b) ==
  \/ l.ctx.system = <<>> \/ l.conv.mode = HTTPSSE
  \/ <<"--system-prompt=", l.ctx.system>> \in Reading(l, b).options
  \/ \E text \in TextOf(l.conv.runtime, Reading(l, b)) : IsPrefix(<<"System:">> \o l.ctx.system, text)
  \/ \E f \in Among(l, Finds(l, b).instructions) : f.system

\* IsSessionLost, in the modes whose stderr shows the loss.
IsSessionLost(l) == Has(Lookup(l.conv.runtime), l.conv.mode, "session-lost-classifier")
\* Faulty variant: every CLI is taken to keep the id of a session it resumes.
AllKeepSessionID(r) == TRUE
ResumeKeepsSessionID(r) == r = "antigravity"

\* The modes that resume over their own protocol, not by an argument.
ByProtocol(l) == l.conv.mode \in {JSONRPC, HTTPSSE}
\* The id of a conversation begun by this turn: one that no earlier turn was given.
SessionID(n) == [i \in 1..n |-> "session"]
FreshID == SessionID(turn.number + 1)
\* The turn t, and how it went.
Ended(t, how, same, heard) ==
  [number |-> t.number, prompt |-> t.prompt, resume |-> t.resume, bound |-> t.bound,
   ended |-> how, same |-> same, heard |-> heard]

\* The turn t ran on conversation id; the host stores the id unless it sees
\* that the session it asked for is gone.
Runs(t, asked, id, same) ==
  LET lost == asked # <<>> /\ ResumeKeepsSessionID(launch.conv.runtime) /\ id # asked
      heard == Heard(launch, t.bound) \/ (same /\ sessions[asked])
  IN  /\ turn' = Ended(t, IF lost THEN "lost" ELSE "answered", same, heard)
      /\ sessions' = Over([x \in {id} |-> heard], sessions)
      /\ stored' = IF lost \/ ByProtocol(launch) THEN <<>> ELSE id
\* The turn t failed; a loss the host recognises makes it drop the id.
Fails(t, lost) ==
  /\ turn' = Ended(t, IF lost THEN "lost" ELSE "failed", FALSE, FALSE)
  /\ stored' = IF lost THEN <<>> ELSE stored
  /\ UNCHANGED sessions

\* The CLI, started as b, has read its arguments and looks for the session asked.
CliRuns(t, reading, asked) ==
  LET refuses == RefusesUnknown(launch.conv.runtime)
  IN  CASE GivesUp(reading) -> Fails(t, FALSE)
        [] ~GivesUp(reading) /\ asked \in DOMAIN sessions ->
             \/ Runs(t, asked, asked, TRUE)
             \/ refuses /\ Runs(t, asked, FreshID, TRUE)
        [] ~GivesUp(reading) /\ asked \notin DOMAIN sessions ->
             \/ (asked = <<>> \/ ~refuses) /\ Runs(t, asked, FreshID, FALSE)
             \/ asked # <<>> /\ refuses /\ Fails(t, IsSessionLost(launch))

Turn(prompt) ==
  /\ stage = "ready" /\ turn.number < MaxTurns
  /\ launch.conv.runtime \in Runtime /\ Carried(launch).ok /\ PromptIsLast(launch.conv)
  /\ \E b \in {Bound(launch, Input(launch, prompt, stored), Carried(launch).args)} :
       \E reading \in {Reading(launch, b)} :
         CliRuns([number |-> turn.number + 1, prompt |-> prompt, resume |-> stored, bound |-> b],
                 reading, ResumeOf(launch.conv.runtime, reading))
  /\ UNCHANGED <<stage, launch, regVars>>

\* The CLI's own housekeeping, external.
Forget(id) ==
  /\ stage = "ready" /\ id \in DOMAIN sessions
  /\ sessions' = [x \in DOMAIN sessions \ {id} |-> sessions[x]]
  /\ UNCHANGED <<stage, launch, stored, turn, regVars>>

LaunchInit ==
  /\ RegInit /\ stage = "idle" /\ launch = NoLaunch /\ stored = <<>>
  /\ sessions = [id \in {} |-> FALSE] /\ turn = NoTurn

LaunchNext ==
  \/ RegNext /\ UNCHANGED launchVars
  \/ \E a \in Adapters, ctx \in Contexts, set \in Settings :
       UseAdapter(a, ctx, set) \/ \E opts \in Options : ProviderProjection(a, ctx, opts, set)
  \/ \E conv \in Foreign, ctx \in Contexts, opts \in Options, set \in Settings :
       TakeForeign(conv, ctx, opts, set)
  \/ \E prompt \in Prompts : Turn(prompt)
  \/ \E id \in DOMAIN sessions : Forget(id)

LaunchSpec == LaunchInit /\ [][LaunchNext]_allVars

----------------------------------------------------------------------------
(* Properties *)

Took == turn # NoTurn

\* Whatever the turn's text and the system prompt are, even equal to a flag
\* or to "--", the CLI reads the options and words of a harmless turn, plus
\* the posture's own, and the text it reads is the text that was given; on a
\* turn that resumes as on a first one.
Harmless == [prompt |-> <<"hello">>, system |-> <<>>, resume |-> turn.resume]
Settled(reading) == { o \in reading.options : o[1] \notin {"--system-prompt=", "-p="} }
TurnIsReadAsMeant ==
  Took =>
    LET r == launch.conv.runtime
        read == Reading(launch, turn.bound)
        plain == Reading(launch, Bound(launch, Harmless, <<>>))
        given == IF launch.conv.mode # PerTurn THEN {}
                 ELSE IF r \in {"opencode", "antigravity"}
                 THEN {PrefixSystem(turn.prompt, launch.ctx.system)} ELSE {turn.prompt}
    IN  /\ ~GivesUp(read)
        /\ Settled(read) = Settled(plain) \union Settled(Read(r, Carried(launch).args))
        /\ read.words = plain.words
        /\ TextOf(r, read) = given

\* Every turn a CLI runs has the agent's system prompt in its conversation:
\* from this turn's arguments, from a planted file the CLI reads, or from an
\* earlier turn of the session, also after the CLI forgot one and began
\* another.
SystemPromptIsHeard == (Took /\ turn.ended = "answered" /\ launch.path # "foreign") => turn.heard

\* A turn the host counts as continuing its session really continued it, and
\* a session it gives up is one the CLI does not have.
ResumeIsHonest ==
  Took => /\ turn.ended = "answered" /\ turn.resume # <<>> => turn.same
          /\ turn.ended = "lost" => ~turn.same

\* What the CLI loads: planted servers and the places of others.
Loaded ==
  LET places == Finds(launch, turn.bound).servers
      planted == Among(launch, places)
  IN  (UNION { { <<n, Understood(launch.conv.runtime, f.servers[n])>> : n \in DOMAIN f.servers } : f \in planted })
        \union { <<"elsewhere", p>> : p \in places \ { PathOf(f) : f \in planted } }
Wanted(ctx) ==
  (IF ctx.loopback = "" THEN {} ELSE {<<"loopback", Http(ctx.loopback)>>})
    \union (IF ctx.mux = "" THEN {} ELSE {<<"mux", Stdio(ctx.mux)>>})
    \union { <<s.name, IF s.url # "" THEN Http(s.url) ELSE Stdio(s.command)>> : s \in ToSet(ctx.servers) }

\* A launch accepted as exclusive loads only the servers it plants, whatever
\* environment the host adds it to and whoever made the projection.
ExclusiveIsReal ==
  (Took /\ launch.opts.exclusive) =>
    IF launch.path = "foreign"
    THEN \A p \in {UserServers, ProjectServers} : <<"elsewhere", p>> \notin Loaded
    ELSE Loaded = Wanted(launch.ctx)

\* The CLI finds the planted instructions.
InstructionsAreFound ==
  \A f \in launch.files : f.concern = "instructions" =>
    PathOf(f) \in Finds(launch, turn.bound).instructions

\* The arguments name the agent the turn runs under: a server's is chosen over
\* HTTP, and the older form plants a file also for an OpenCode without one.
NamesAgent(l) ==
  /\ l.conv.mode # HTTPSSE
  /\ l.path = "fields" /\ l.conv.runtime = "opencode" => l.adapter.agent # <<>>

\* Every server and skill that was planted is one the CLI finds from the
\* working directory, flags and environment it was given, and so are the
\* instructions, unless they belong to an agent the arguments do not name.
PlantedIsFound ==
  (Took /\ launch.path # "foreign") =>
    /\ Wanted(launch.ctx) \subseteq Loaded
    /\ \A f \in launch.files : f.concern = "skill" =>
         Roots["boot"] \o <<f.rel>> \in Finds(launch, turn.bound).skills
    /\ NamesAgent(launch) => InstructionsAreFound

\* BuildArgs from the adapter's fields and the BootDirSpec give the turn the
\* arguments, working directory and environment the projection gives it, and
\* plant the same files.
TwoPathsAgree ==
  (Took /\ launch.path = "projection") =>
    LET a == [WithFields(launch.adapter) EXCEPT
                !.exclusive = launch.adapter.exclusive \/ (launch.adapter.runtime = "claude" /\ launch.opts.exclusive),
                !.agent = IF launch.adapter.runtime = "opencode" THEN AgentName(launch.adapter, launch.ctx) ELSE @,
                !.skillsDir = IF launch.opts.skills = {} THEN <<>> ELSE Roots["boot"]]
        in == Input(launch, turn.prompt, turn.resume)
    IN  /\ turn.bound.argv = BuildArgs(a, in, Carried(launch).args)
        /\ turn.bound.cwd = SpawnWorkdir(a, Roots)
        /\ \A k \in DOMAIN LegacyEnv(a, Roots) : turn.bound.env[k] = LegacyEnv(a, Roots)[k]
        /\ LegacyFiles(a, launch.ctx) = { f \in launch.files : f.concern # "skill" }
=============================================================================
