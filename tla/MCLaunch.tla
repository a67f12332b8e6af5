------------------------------ MODULE MCLaunch ------------------------------
(* A small instance of Launch for TLC. *)
EXTENDS Launch

SpelledDef == "Claude-Code" :> "claude-code" @@ "FAKE" :> "fake" @@ " " :> ""

\* Test descriptors: a fake CLI with facts of its own, one whose alias is the
\* other's id in other letters, one with no alias.
Fake(id, aliases, facts) ==
  Descriptor(id, aliases, "fake", "FAKE_PATH", <<In(PerTurn, <<"resume">>)>>, facts, "")
OfferedDef ==
  { Fake("fake", <<"other">>, {Facts("1", {}, {}, PerTurn :> "flag")}),
    Fake("second", <<"FAKE">>, {}), Fake("third", <<>>, {}) }

\* Adapters of every shape.
A(r, mode) == NewAdapter(r, mode)
AdaptersDef ==
  { [A("claude", "") EXCEPT !.model = <<"m">>],
    [A("claude", "") EXCEPT !.bare = TRUE, !.skip = TRUE],
    A("claude", "stream-json"), A("claude", "pty"),
    [A("codex", "") EXCEPT !.model = <<"m">>], [A("codex", "") EXCEPT !.approval = "untrusted"],
    A("codex", "app-server"), A("opencode", ""), A("opencode", "serve-http"),
    [A("antigravity", "") EXCEPT !.effort = <<"high">>] }

Server(name, url, command) == [name |-> name, url |-> url, command |-> command]
Ctx(system, agent, loopback, mux, servers) ==
  [system |-> system, agent |-> agent, loopback |-> loopback, mux |-> mux, servers |-> servers]
ContextsDef ==
  { Ctx(<<SkipFlag>>, <<"scout">>, "http://loop", "", <<Server("docs", "http://docs", "")>>),
    Ctx(<<"be brief">>, <<>>, "http://loop", "mux", <<Server("loopback", "", "other")>>) }

Opts(exclusive, skills, required) == [exclusive |-> exclusive, skills |-> skills, required |-> required]
Skill(named) == [name |-> "lint", named |-> named, pinned |-> TRUE, inside |-> TRUE, document |-> TRUE]
OptionsDef ==
  { Opts(TRUE, {}, {}), Opts(FALSE, {Skill(TRUE)}, {"mcp"}), Opts(FALSE, {}, {"hooks"}),
    Opts(FALSE, {Skill(FALSE)}, {}) }

\* Projections from elsewhere: one ignores the request, one puts the flag
\* behind a "--" of its own, one the extras behind the prompt, one lets the
\* caller's CODEX_HOME win, one is of a test's runtime, and two are right.
Strict == Lits(<<StrictFlag>>)
C(args) == NewConvention("claude", Plain(PerTurn), <<Resume("--resume")>> \o args)
X(env) == [NewConvention("codex", Plain(PerTurn), Lits(<<"exec">>) \o <<Extra, Resume("resume"), Prompt>>)
             EXCEPT !.env = env]
Delta(precedence) == [name |-> "CODEX_HOME", value |-> "boot", op |-> "set", precedence |-> precedence]
ForeignDef ==
  { C(<<Extra, Prompt>>), C(<<Extra>> \o Lits(<<"--">>) \o Strict), C(Strict \o <<Extra, Prompt>>),
    C(Strict \o <<Prompt, Extra>>),
    X(<<Delta("caller-wins")>>), X(<<Delta("provider-wins")>>), X(<<>>),
    [C(Strict \o <<Extra, Prompt>>) EXCEPT !.runtime = "fake"] }

\* The host brings a CODEX_HOME of its own.
SettingsDef == { [posture |-> "plan", env |-> "CODEX_HOME" :> <<"/home/user/.codex">>] }
PromptsDef == { <<SkipFlag>>, <<"--">> }
TestSymmetry == Permutations(Tests)
=============================================================================
