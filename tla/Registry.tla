------------------------------ MODULE Registry ------------------------------
(***************************************************************************)
(* registry: everything the libraries know about each agent CLI runtime.   *)
(* The built-in descriptors are registered one by one when the package is  *)
(* initialised; tests add and remove their own while other goroutines look *)
(* names up.  A name is an index into one slice, so every removal moves    *)
(* the later descriptors.  mu makes each operation one step.               *)
(***************************************************************************)
EXTENDS Layout, FiniteSets, SequencesExt

CONSTANTS Tests,            \* tests that may call RegisterForTest
          Offered,          \* the descriptors they register
          Spelled,          \* names written in other letters or spaces, and how they read
          MaxHeld           \* bound: descriptors one test registers

VARIABLES entries,          \* the registered descriptors, in order
          byName,           \* normalized name -> index into entries
          booted,           \* built-in descriptors registered so far
          panicked,         \* a built-in failed validation or collided
          held,             \* test -> the descriptors whose cleanups are registered
          testing           \* test -> "running" | "ending"
regVars == <<entries, byName, booted, panicked, held, testing>>

Runtime == {"claude", "codex", "opencode", "copilot", "pi", "antigravity"}
Capability == {"resume", "resume-keeps-id", "typed-events", "auth-classifier",
               "session-lost-classifier", "approvals"}
Feature == {"instructions", "native-config", "mcp", "skill-trees", "hooks", "commands",
            "subagents", "credential", "trust"}
Support == {"projected", "explicit-effect", "unsupported"}

----------------------------------------------------------------------------
(* The built-in descriptors. *)

In(mode, caps) == [mode |-> mode, caps |-> caps]

\* What go-providers projects for a runtime: every feature's support, and
\* what was measured about MCP exclusivity in a mode.
Facts(version, unsupported, explicit, exclusive) ==
  [tested |-> version,
   features |-> [f \in Feature |-> IF f \in unsupported THEN "unsupported"
                                   ELSE IF f \in explicit THEN "explicit-effect" ELSE "projected"],
   exclusive |-> exclusive]
Effects == {"hooks", "commands", "subagents", "credential", "trust"}

\* projection: the facts, or {} for none.  posture: the runtime whose hook it has, or "".
Descriptor(id, aliases, binary, override, modes, projection, posture) ==
  [id |-> id, aliases |-> aliases, binary |-> binary, override |-> override, modes |-> modes,
   default |-> IF modes = <<>> THEN "" ELSE modes[1].mode,
   projection |-> projection, posture |-> posture]

Claude ==
  Descriptor("claude", <<"claude-code", "claudecode">>, "claude", "CLAUDE_CLI_PATH",
    << In(Streaming, <<"resume", "typed-events", "session-lost-classifier">>),
       In(PerTurn, <<"resume", "typed-events", "session-lost-classifier">>),
       In(PTYMode, <<"resume">>), In("acp-stdio", <<"typed-events">>) >>,
    {Facts("2.1.285", {}, Effects, [m \in {Streaming, PerTurn, PTYMode} |-> "flag"])}, "claude")
Codex ==
  Descriptor("codex", <<>>, "codex", "CODEX_CLI_PATH",
    << In(JSONRPC, <<"resume", "typed-events", "approvals">>),
       In(PerTurn, <<"resume", "typed-events", "session-lost-classifier">>),
       In("acp-stdio", <<"typed-events">>) >>,
    {Facts("0.154.0", {"commands", "trust"}, Effects,
           [m \in {JSONRPC, PerTurn} |-> "projected-layout"])}, "codex")
OpenCode ==
  Descriptor("opencode", <<"open-code">>, "opencode", "OPENCODE_CLI_PATH",
    << In(PerTurn, <<"resume", "typed-events", "session-lost-classifier">>),
       In(HTTPSSE, <<"typed-events">>), In("acp-stdio", <<"resume", "typed-events">>) >>,
    {Facts("1.18.30", {"hooks", "trust"}, Effects, [m \in {PerTurn, HTTPSSE} |-> "absent"])},
    "opencode")
Copilot ==
  Descriptor("copilot", <<"copilot-cli">>, "copilot", "COPILOT_CLI_PATH",
    [i \in 1..2 |-> In(<<"acp-stdio", "acp-tcp">>[i], <<"typed-events", "approvals">>)], {}, "")
Pi ==
  Descriptor("pi", <<"pi-acp">>, "pi-acp", "PIACP_CLI_PATH",
    << In("acp-stdio", <<"resume", "typed-events">>) >>, {}, "")
Antigravity ==
  Descriptor("antigravity", <<"agy">>, "agy", "AGY_CLI_PATH",
    << In(PerTurn, <<"resume", "resume-keeps-id", "typed-events", "auth-classifier",
                     "session-lost-classifier">>) >>,
    {Facts("1.2.7", {"trust"}, Effects, <<>>)}, "antigravity")

Builtin == <<Claude, Codex, OpenCode, Copilot, Pi, Antigravity>>

----------------------------------------------------------------------------
(* What a descriptor answers. *)

ModesOf(d) == { d.modes[i].mode : i \in DOMAIN d.modes }
NativeModes(d) == ModesOf(d) \ ACP
Supports(d, m) == m \in ModesOf(d)
Capabilities(d, m) ==
  UNION { ToSet(d.modes[i].caps) : i \in { k \in DOMAIN d.modes : d.modes[k].mode = m } }
Has(d, m, c) == c \in Capabilities(d, m)

\* "" stands for not measured.
MCPExclusivity(d, m) ==
  LET measured == { f \in d.projection : m \in DOMAIN f.exclusive }
  IN  IF measured = {} THEN "" ELSE (CHOOSE f \in measured : TRUE).exclusive[m]
Mechanism == {"flag", "projected-layout"}

Posture == {"default", "accept-edits", "plan", "yolo"}

\* What a launch carries for a posture: arguments for the extra slot (each a
\* sequence of parts) and the environment variables it sets.
Carries(args, env) == [ok |-> TRUE, args |-> args, env |-> env]
NoMapping == [ok |-> FALSE, args |-> <<>>, env |-> {}]

ClaudePosture(p) ==
  LET value == CASE p = "accept-edits" -> "acceptEdits" [] p = "yolo" -> "bypassPermissions" [] OTHER -> p
  IN  Carries(<< <<"--permission-mode">>, <<value>> >>, {})
CodexPosture(p) ==
  LET sandbox == CASE p = "accept-edits" -> "workspace-write"
                   [] p = "yolo" -> "danger-full-access" [] OTHER -> "read-only"
      approval == IF p \in {"plan", "yolo"} THEN "never" ELSE "on-request"
  IN  Carries(<< <<"-c">>, <<"sandbox_mode=", sandbox>>, <<"-c">>, <<"approval_policy=", approval>> >>, {})
OpencodePosture(p) == Carries(<<>>, {<<"OPENCODE_PERMISSION", p>>})
AntigravityPosture(p) ==
  CASE p = "default" -> Carries(<<>>, {})
    [] p = "yolo" -> Carries(<< <<"--dangerously-skip-permissions">> >>, {})
    [] OTHER -> Carries(<< <<"--mode">>, <<p>> >>, {})

PostureFor(d, p, m) ==
  CASE p = "" -> Carries(<<>>, {})
    [] p # "" /\ (p \notin Posture \/ ~Supports(d, m) \/ d.posture = "") -> NoMapping
    [] OTHER -> IF m \in ACP /\ d.posture # "antigravity" THEN NoMapping
                ELSE CASE d.posture = "claude" -> ClaudePosture(p)
                       [] d.posture = "codex" -> CodexPosture(p)
                       [] d.posture = "opencode" -> OpencodePosture(p)
                       [] OTHER -> AntigravityPosture(p)

----------------------------------------------------------------------------
(* Validation. *)

\* Lower case, no surrounding space.
Normalize(n) == IF n \in DOMAIN Spelled THEN Spelled[n] ELSE n

Shaped(d) ==
  /\ d.id # "" /\ Normalize(d.id) = d.id
  /\ d.binary # "" /\ d.override # "" /\ d.modes # <<>>
  /\ \A i \in DOMAIN d.aliases : Normalize(d.aliases[i]) # ""
  /\ ModesOf(d) \subseteq Mode /\ Cardinality(ModesOf(d)) = Len(d.modes)
  /\ \A i \in DOMAIN d.modes : /\ ToSet(d.modes[i].caps) \subseteq Capability
                               /\ IsInjective(d.modes[i].caps)
  /\ d.default \in ModesOf(d)
  /\ NativeModes(d) # {} => d.default \notin ACP

FactsHold(d, f) ==
  /\ f.tested # ""
  /\ DOMAIN f.features = Feature /\ \A x \in Feature : f.features[x] \in Support
  /\ DOMAIN f.exclusive \subseteq NativeModes(d)
  /\ \A m \in DOMAIN f.exclusive : f.exclusive[m] \in Mechanism \union {"absent"}

\* A built-in is one of the runtimes and agrees with the layout table.
MatchesLayout(d) ==
  /\ d.id \in Runtime
  /\ HasLayout(d.id) <=> NativeModes(d) # {}
  /\ HasLayout(d.id) <=> d.projection # {}
  /\ \A f \in d.projection : FactsHold(d, f)
  /\ ModesNamed(d.id) \subseteq NativeModes(d)

----------------------------------------------------------------------------
(* The index. *)

NamesOf(d) == { Normalize(n) : n \in {d.id} \union ToSet(d.aliases) }

Collides(d) == NamesOf(d) \intersect DOMAIN byName # {}
\* addLocked, of a descriptor none of whose names is taken
Add(d) ==
  /\ entries' = Append(entries, d)
  /\ byName' = [n \in NamesOf(d) \union DOMAIN byName |->
                  IF n \in NamesOf(d) THEN Len(entries) + 1 ELSE byName[n]]

\* Faulty variant: the removed descriptor's names go, the others keep their index.
DropNames(id) ==
  LET i == CHOOSE k \in DOMAIN entries : entries[k].id = id
  IN  /\ entries' = RemoveAt(entries, i)
      /\ byName' = [n \in DOMAIN byName \ NamesOf(entries[i]) |-> byName[n]]
\* removeLocked: the index is built again from the descriptors left.
RemoveByID(id) ==
  IF \E k \in DOMAIN entries : entries[k].id = id
  THEN LET i == CHOOSE k \in DOMAIN entries :
                  entries[k].id = id /\ \A j \in 1..k-1 : entries[j].id # id
           left == RemoveAt(entries, i)
       IN  /\ entries' = left
           /\ byName' = [n \in UNION { NamesOf(left[k]) : k \in DOMAIN left } |->
                           CHOOSE k \in DOMAIN left : /\ n \in NamesOf(left[k])
                                                     /\ \A j \in k+1..Len(left) : n \notin NamesOf(left[j])]
  ELSE UNCHANGED <<entries, byName>>

Known(name) == Normalize(name) \in DOMAIN byName
Lookup(name) == entries[byName[Normalize(name)]]
All == entries

----------------------------------------------------------------------------
\* Finitely many tests, and the built-in names are spelled the way they read.
BuiltinNames == UNION { {Builtin[i].id} \union ToSet(Builtin[i].aliases) : i \in DOMAIN Builtin }
ASSUME RegistryAssumption ==
  IsFiniteSet(Tests) /\ MaxHeld \in Nat /\ BuiltinNames \intersect DOMAIN Spelled = {}

RegInit ==
  /\ entries = <<>> /\ byName = [n \in {} |-> 0] /\ booted = 0 /\ panicked = FALSE
  /\ held = [t \in Tests |-> <<>>]
  /\ testing = [t \in Tests |-> "running"]

Ready == booted = Len(Builtin)

\* register, from the package's init: nothing else runs before it is through.
Register ==
  /\ ~Ready /\ ~panicked
  /\ LET d == Builtin[booted + 1]
     IN  \/ /\ Shaped(d) /\ MatchesLayout(d) /\ ~Collides(d) /\ Add(d)
            /\ booted' = booted + 1 /\ UNCHANGED panicked
         \/ /\ ~(Shaped(d) /\ MatchesLayout(d)) \/ Collides(d)
            /\ panicked' = TRUE /\ UNCHANGED <<entries, byName, booted>>
  /\ UNCHANGED <<held, testing>>

\* RegisterForTest.  Fatalf ends the test, and its cleanups run.
RegisterForTest(t, d) ==
  /\ Ready /\ testing[t] = "running" /\ Len(held[t]) < MaxHeld
  /\ IF Shaped(d) /\ ~Collides(d)
     THEN /\ Add(d) /\ held' = [held EXCEPT ![t] = Append(@, d)]
          /\ UNCHANGED testing
     ELSE /\ testing' = [testing EXCEPT ![t] = "ending"]
          /\ UNCHANGED <<entries, byName, held>>
  /\ UNCHANGED <<booted, panicked>>

FinishTest(t) ==
  /\ Ready /\ testing[t] = "running"
  /\ testing' = [testing EXCEPT ![t] = "ending"]
  /\ UNCHANGED <<entries, byName, booted, panicked, held>>

\* A test's cleanups run in the reverse order of their registration.
Cleanup(t) ==
  /\ testing[t] = "ending" /\ held[t] # <<>>
  /\ RemoveByID(Last(held[t]).id)
  /\ held' = [held EXCEPT ![t] = Front(@)]
  /\ UNCHANGED <<booted, panicked, testing>>

RegNext ==
  \/ Register
  \/ \E t \in Tests : (\E d \in Offered : RegisterForTest(t, d)) \/ FinishTest(t) \/ Cleanup(t)

\* The registry by itself: a launch only reads it.
RegSpec == RegInit /\ [][RegNext]_regVars

----------------------------------------------------------------------------
(* Properties *)

\* The removals to come: x[1] the test, x[2] the place in its list.
Pending == { x \in Tests \X (1..MaxHeld) : x[2] \in DOMAIN held[x[1]] }

\* A test finds what it registered, by id and by every alias, until its own
\* cleanup removes it, whatever the tests next to it register and remove; the
\* built-in runtimes lead, in order, and stay.
OwnersKeepTheirs ==
  /\ \A t \in Tests : \A k \in DOMAIN held[t] : \A n \in NamesOf(held[t][k]) :
       n \in DOMAIN byName /\ byName[n] \in DOMAIN entries /\ entries[byName[n]] = held[t][k]
  /\ ~panicked /\ booted <= Len(entries)
  /\ \A i \in 1..booted : entries[i] = Builtin[i]
  /\ Len(entries) = booted + Cardinality(Pending)
=============================================================================
