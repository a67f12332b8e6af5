--------------------------- MODULE MCPreparation ----------------------------
(* Instances of Preparation for TLC: two processes, three directories.     *)
EXTENDS Preparation, TLC

CONSTANTS p1, p2, boot, linked, mine

\* A caller that asks for one effect, allows what it needs and has what it needs.
Ask(provider, required, d) ==
  [provider |-> provider, required |-> required, dir |-> d, home |-> TRUE, root |-> TRUE,
   allow |-> {"credentials", "host", "cleanup"}, credential |-> "good"]

\* Trust, followed in vain by an effect nothing can perform; or an auth.json, after an
\* effect that codex does not declare; next to a session in a linked directory.
First == {Ask("claude", <<"trust", "helper">>, boot), Ask("codex", <<"trust", "auth">>, boot)}
Second == {Ask("claude", <<"trust">>, linked)}

TwoProcesses == p1 :> First @@ p2 :> Second

Nothing == [key \in Keys |-> {}]
Holding(d, entry) ==
  [form |-> "object", projects |-> [Nothing EXCEPT ![<<d, "given">>] = entry]]

SomeConfigs ==
  {[form |-> f, projects |-> Nothing] : f \in {"absent", "malformed", "null"}}
    \union {Holding(boot, {"scalar"})}

Orderly == {Holding(mine, {})}
TrustOnly == [p \in Preps |-> {Ask("claude", <<"trust">>, boot)}]
=============================================================================
