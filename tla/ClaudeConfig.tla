---------------------------- MODULE ClaudeConfig ----------------------------
(***************************************************************************)
(* What seeding and removing a workspace-trust entry make of the content   *)
(* of ~/.claude.json (provider/bootdir_claude.go).  An entry is the set of *)
(* its fields, no entry is {}; top-level keys other than `projects` are    *)
(* copied by both operations and left out.                                 *)
(***************************************************************************)
CONSTANTS
  Dirs,    \* directories the claude CLI may be started in
  Linked   \* those whose path leads through a symbolic link

ASSUME DirsAssumption == Linked \subseteq Dirs

\* projects[] is keyed by path: as given, or resolved.
Keys == Dirs \X {"given", "real"}

Ours == {"trust", "onboard"}
Entries == (SUBSET (Ours \union {"own"})) \union {{"scalar"}}

Forms == {"absent", "malformed", "null", "noProjects", "oddProjects", "object"}
Configs == [form : Forms, projects : [Keys -> Entries]]

\* The file cannot be read as what it should be; it is not to be overwritten.
Unreadable(c) == c.form \in {"malformed", "oddProjects"}

\* EvalSymlinks, or the path as given when the directory is not there.
KeyOf(d, present) == <<d, IF d \in Linked /\ d \in present THEN "real" ELSE "given">>

SeedRefused(c, key) == Unreadable(c) \/ c.projects[key] = {"scalar"}

Seeded(c, key) ==
  [form |-> "object", projects |-> [c.projects EXCEPT ![key] = @ \union Ours]]

\* Faulty variant: any trusted entry is taken for one of ours.
AnyTrusted(entry) == Ours \subseteq entry

\* isPreparationOnlyClaudeTrustEntry.
PreparationOnly(entry) == entry = Ours

Removed(c, key) == [c EXCEPT !.projects[key] = {}]
=============================================================================
