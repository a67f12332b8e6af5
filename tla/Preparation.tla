---------------------------- MODULE Preparation -----------------------------
(***************************************************************************)
(* Processes that call PrepareRuntime and later Cleanup                    *)
(* (provider/preparation.go) for sessions on one host: one ~/.claude.json, *)
(* guarded by a lock file (provider/bootdir_claude.go), and an auth.json   *)
(* per boot directory.  Each file operation is a step.  The CLIs of the    *)
(* sessions write both files too, and claude knows nothing of the lock.    *)
(* Any file operation may fail, a removal whose error the code ignores     *)
(* included; a process may crash between any two.                          *)
(***************************************************************************)
EXTENDS ClaudeConfig, Naturals, Sequences, SequencesExt

CONSTANTS
  Preps,         \* the processes
  Free,          \* no lock file
  Requests,      \* for each process, the requests it may make
  InitialConfigs,\* what ~/.claude.json may hold at the start
  MayCrash,      \* the processes that may crash
  MaxFaults,     \* bound: file operations that fail
  MaxCleanups    \* bound: calls of Cleanup per process

Kinds == {"trust", "auth", "helper"}
Codes == {"unknown_effect", "unauthorized_effect", "unavailable_effect",
          "invalid_mode", "preparation_failed"}

\* RuntimePreparationRequest.  `credential` is what the caller's resolver answers;
\* home and root say whether HomeDir and Roots.BootRoot are given.
Request == [provider : {"claude", "codex"}, required : Seq(Kinds), dir : Dirs,
            home : BOOLEAN, root : BOOLEAN,
            allow : SUBSET {"credentials", "host", "cleanup"},
            credential : {"noResolver", "error", "empty", "loose", "good"}]

ASSUME PreparationAssumption ==
  /\ Free \notin Preps
  /\ Requests \in [Preps -> SUBSET Request]
  /\ InitialConfigs \subseteq Configs
  /\ MayCrash \subseteq Preps
  /\ MaxFaults \in Nat /\ MaxCleanups \in Nat

VARIABLES
  config,   \* ~/.claude.json
  lock,     \* who made ~/.claude.json.lock, or Free
  temps,    \* temporary files, as <<process, what for>>
  litter,   \* the files that were to be removed and could not be, likewise
  auth,     \* auth.json of each directory
  present,  \* the directories that exist
  faults,
  req,      \* the request a process makes
  pc,
  k,        \* position in RequiredEffects, then in the cleanup list
  job,      \* what the critical section is for
  draft,    \* the new content of ~/.claude.json
  news,     \* history: where claude has written since the draft was made
  failed,   \* the operation under way has failed
  effects, diags, closures,   \* RuntimePreparationResult
  errs,     \* an error of the current Cleanup
  cleaned,  \* how the last Cleanup ended
  calls     \* calls of Cleanup

hostVars == <<config, lock, temps, litter, auth, present, faults>>
localVars == <<draft, news, failed>>
resultVars == <<effects, diags, closures>>
cleanVars == <<errs, cleaned, calls>>
vars == <<hostVars, req, pc, k, job, localVars, resultVars, cleanVars>>

Labels == {"idle", "loop", "lock", "read", "write", "rename", "unlock", "authTemp",
           "authRename", "session", "clean", "authRead", "authRemove", "gone"}

TypeOK ==
  /\ config \in Configs
  /\ lock \in Preps \union {Free}
  /\ temps \subseteq Preps \X {"config", "auth"}
  /\ litter \subseteq Preps \X {"lock", "config", "auth"}
  /\ auth \in [Dirs -> {"absent", "issued", "refreshed"}]
  /\ present \subseteq Dirs
  /\ faults \in 0..MaxFaults
  /\ req \in [Preps -> Request]
  /\ pc \in [Preps -> Labels]
  /\ k \in [Preps -> Nat \ {0}]
  /\ job \in [Preps -> {"seed", "drop"}]
  /\ draft \in [Preps -> Configs]
  /\ news \in [Preps -> SUBSET Keys]
  /\ failed \in [Preps -> BOOLEAN]
  /\ effects \in [Preps -> Seq({"trust", "auth"})]
  /\ diags \in [Preps -> Seq(Kinds \X Codes)]
  /\ closures \in [Preps -> Seq({"trust", "auth"})]
  /\ errs \in [Preps -> BOOLEAN]
  /\ cleaned \in [Preps -> {"never", "begun", "ok", "failed"}]
  /\ calls \in [Preps -> 0..MaxCleanups]

NoDraft == [form |-> "absent", projects |-> [key \in Keys |-> {}]]

Init ==
  /\ config \in InitialConfigs
  /\ lock = Free /\ temps = {} /\ litter = {} /\ faults = 0
  /\ auth = [d \in Dirs |-> "absent"]
  /\ present = Dirs
  /\ req \in {r \in [Preps -> UNION Range(Requests)] : \A p \in Preps : r[p] \in Requests[p]}
  /\ pc = [p \in Preps |-> "idle"]
  /\ k = [p \in Preps |-> 1]
  /\ job = [p \in Preps |-> "seed"]
  /\ draft = [p \in Preps |-> NoDraft]
  /\ news = [p \in Preps |-> {}]
  /\ failed = [p \in Preps |-> FALSE]
  /\ effects = [p \in Preps |-> <<>>]
  /\ diags = [p \in Preps |-> <<>>]
  /\ closures = [p \in Preps |-> <<>>]
  /\ errs = [p \in Preps |-> FALSE]
  /\ cleaned = [p \in Preps |-> "never"]
  /\ calls = [p \in Preps |-> 0]

Goto(p, label) == pc' = [pc EXCEPT ![p] = label]
Next1(p) == k' = [k EXCEPT ![p] = @ + 1]

\* A file operation succeeds, or fails.
Works == UNCHANGED faults
Fault == faults < MaxFaults /\ faults' = faults + 1

\* After n failures the removal of a file fails too; its error is ignored.
LeftBehind(p, what, n) ==
  /\ faults + n < MaxFaults
  /\ faults' = faults + n + 1
  /\ litter' = litter \union {<<p, what>>}

-----------------------------------------------------------------------------
(* PrepareRuntime.                                                         *)

Declared(r) == IF r.provider = "claude" THEN {"trust", "helper"} ELSE {"auth"}

\* Why an effect is not even attempted.
Objection(r, kind) ==
  CASE kind \notin Declared(r) -> "unknown_effect"
    [] kind = "helper" -> "unavailable_effect"
    [] kind = "trust" /\ "host" \notin r.allow -> "unauthorized_effect"
    [] kind = "trust" /\ ~(r.home /\ r.root) -> "unavailable_effect"
    [] kind = "auth" /\ "credentials" \notin r.allow -> "unauthorized_effect"
    [] kind = "auth" /\ (~r.root \/ r.credential \in {"noResolver", "error", "empty"}) ->
         "unavailable_effect"
    [] kind = "auth" /\ r.credential = "loose" -> "invalid_mode"
    [] OTHER -> "none"

Call(p) ==
  /\ pc[p] = "idle"
  /\ Goto(p, "loop")
  /\ UNCHANGED <<hostVars, req, k, job, localVars, resultVars, cleanVars>>

InLoop(p) == pc[p] = "loop" /\ k[p] <= Len(req[p].required)
Kind(p) == req[p].required[k[p]]

\* An effect goes wrong: one more diagnostic, and on to the next effect.
Diagnose(p, code) ==
  /\ diags' = [diags EXCEPT ![p] = Append(@, <<Kind(p), code>>)]
  /\ Next1(p)
  /\ Goto(p, "loop")
  /\ UNCHANGED <<effects, closures>>

\* An effect is done; its cleanup is remembered when the policy allows one.
Perform(p) ==
  /\ effects' = [effects EXCEPT ![p] = Append(@, Kind(p))]
  /\ closures' = IF "cleanup" \in req[p].allow
                 THEN [closures EXCEPT ![p] = Append(@, Kind(p))] ELSE closures
  /\ Next1(p)
  /\ Goto(p, "loop")
  /\ UNCHANGED diags

Refuse(p) ==
  /\ InLoop(p)
  /\ Objection(req[p], Kind(p)) # "none"
  /\ Diagnose(p, Objection(req[p], Kind(p)))
  /\ UNCHANGED <<hostVars, req, job, localVars, cleanVars>>

BeginEffect(p) ==
  /\ InLoop(p)
  /\ Objection(req[p], Kind(p)) = "none"
  /\ Goto(p, IF Kind(p) = "trust" THEN "lock" ELSE "authTemp")
  /\ UNCHANGED <<hostVars, req, k, job, localVars, resultVars, cleanVars>>

\* Faulty variant: an error returns an empty result.
ReturnNothingOnError(p) ==
  /\ pc[p] = "loop" /\ k[p] > Len(req[p].required)
  /\ Goto(p, "session")
  /\ closures' = IF diags[p] # <<>> THEN [closures EXCEPT ![p] = <<>>] ELSE closures
  /\ UNCHANGED <<hostVars, req, k, job, localVars, effects, diags, cleanVars>>

\* What was done stays done, and in the result, when there are diagnostics.
Return(p) ==
  /\ pc[p] = "loop" /\ k[p] > Len(req[p].required)
  /\ Goto(p, "session")
  /\ UNCHANGED <<hostVars, req, k, job, localVars, resultVars, cleanVars>>

-----------------------------------------------------------------------------
(* The end of one operation of PrepareRuntime or of Cleanup.               *)

\* A closure of the cleanup list has run.
ClosureDone(p, error) ==
  /\ errs' = [errs EXCEPT ![p] = @ \/ error]
  /\ Next1(p)
  /\ Goto(p, "clean")
  /\ UNCHANGED <<resultVars, cleaned, calls>>

TrustDone(p, error) ==
  IF job[p] = "drop" THEN ClosureDone(p, error)
  ELSE /\ IF error THEN Diagnose(p, "preparation_failed") ELSE Perform(p)
       /\ UNCHANGED cleanVars

-----------------------------------------------------------------------------
(* withClaudeConfigLock.                                                   *)

\* Faulty variant: at the deadline a lock file is taken for a stale one.
AcquireOrSteal(p) ==
  /\ pc[p] = "lock"
  /\ lock' = p
  /\ Goto(p, "read")
  /\ Works
  /\ UNCHANGED <<config, temps, litter, auth, present, req, k, job, localVars, resultVars,
                 cleanVars>>

Acquire(p) ==
  /\ pc[p] = "lock"
  /\ lock = Free
  /\ lock' = p
  /\ Goto(p, "read")
  /\ Works
  /\ UNCHANGED <<config, temps, litter, auth, present, req, k, job, localVars, resultVars,
                 cleanVars>>

\* Faulty variant: no deadline.
WaitForEver(p) ==
  /\ pc[p] = "lock"
  /\ Fault
  /\ TrustDone(p, TRUE)
  /\ UNCHANGED <<config, lock, temps, litter, auth, present, req, job, localVars>>

\* Faulty variant: the removal of the lock file is deferred before the lock is taken.
GiveUpUnlocking(p) ==
  /\ pc[p] = "lock"
  /\ (lock # Free /\ Works) \/ Fault
  /\ lock' = Free
  /\ TrustDone(p, TRUE)
  /\ UNCHANGED <<config, temps, litter, auth, present, req, job, localVars>>

\* The lock file is still there at the deadline, or cannot be made at all.
GiveUp(p) ==
  /\ pc[p] = "lock"
  /\ (lock # Free /\ Works) \/ Fault
  /\ TrustDone(p, TRUE)
  /\ UNCHANGED <<config, lock, temps, litter, auth, present, req, job, localVars>>

\* The deferred removal of the lock file, whoever's it is.
RemoveLock(p) ==
  \/ Works /\ lock' = Free /\ UNCHANGED litter
  \/ LeftBehind(p, "lock", 0) /\ UNCHANGED lock

Unlock(p) ==
  /\ pc[p] = "unlock"
  /\ RemoveLock(p)
  /\ TrustDone(p, failed[p])
  /\ draft' = [draft EXCEPT ![p] = NoDraft]
  /\ news' = [news EXCEPT ![p] = {}]
  /\ failed' = [failed EXCEPT ![p] = FALSE]
  /\ UNCHANGED <<config, temps, auth, present, req, job>>

-----------------------------------------------------------------------------
(* seedClaudeWorkspaceTrustLocked and removeClaudeWorkspaceTrustLocked.    *)

Key(p) == KeyOf(req[p].dir, present)

\* Nothing is written; with or without an error.
LeaveConfig(p, error) ==
  /\ Goto(p, "unlock")
  /\ failed' = [failed EXCEPT ![p] = error]

Rewrite(p, content) ==
  /\ draft' = [draft EXCEPT ![p] = content]
  /\ Goto(p, "write")
  /\ UNCHANGED failed

\* Resolve the path, read and parse the file, decide.
ReadToSeed(p) ==
  /\ pc[p] = "read" /\ job[p] = "seed"
  /\ \/ Fault /\ LeaveConfig(p, TRUE) /\ UNCHANGED draft
     \/ /\ Works
        /\ config.form # "null"
        /\ IF SeedRefused(config, Key(p)) THEN LeaveConfig(p, TRUE) /\ UNCHANGED draft
                                          ELSE Rewrite(p, Seeded(config, Key(p)))
  /\ UNCHANGED <<config, lock, temps, litter, auth, present, req, k, job, news, resultVars,
                 cleanVars>>

\* The document `null` makes the configuration a nil map, and the assignment to it
\* panics; the deferred removal of the lock file runs on the way out.
SeedPanics(p) ==
  /\ pc[p] = "read" /\ job[p] = "seed"
  /\ config.form = "null"
  /\ RemoveLock(p)
  /\ Goto(p, "gone")
  /\ UNCHANGED <<config, temps, auth, present, req, k, job, localVars, resultVars, cleanVars>>

ReadToDrop(p) ==
  /\ pc[p] = "read" /\ job[p] = "drop"
  /\ \/ Fault /\ LeaveConfig(p, TRUE) /\ UNCHANGED draft
     \/ /\ Works
        /\ IF config.form = "object" /\ PreparationOnly(config.projects[Key(p)])
           THEN Rewrite(p, Removed(config, Key(p)))
           ELSE LeaveConfig(p, Unreadable(config)) /\ UNCHANGED draft
  /\ UNCHANGED <<config, lock, temps, litter, auth, present, req, k, job, news, resultVars,
                 cleanVars>>

WriteTemp(p) ==
  /\ pc[p] = "write"
  /\ \/ Fault /\ LeaveConfig(p, TRUE) /\ UNCHANGED temps
     \/ Works /\ Goto(p, "rename") /\ temps' = temps \union {<<p, "config">>} /\ UNCHANGED failed
  /\ UNCHANGED <<config, lock, litter, auth, present, req, k, job, draft, news, resultVars,
                 cleanVars>>

\* The end of a temporary file that was not renamed: the deferred removal, which may
\* fail as well.
DropTemp(p, what) ==
  \/ Fault /\ UNCHANGED litter
  \/ LeftBehind(p, what, 1)

\* Writing, chmod, closing or renaming may fail.
Rename(p) ==
  /\ pc[p] = "rename"
  /\ temps' = temps \ {<<p, "config">>}
  /\ \/ DropTemp(p, "config") /\ LeaveConfig(p, TRUE) /\ UNCHANGED config
     \/ Works /\ LeaveConfig(p, FALSE) /\ config' = draft[p] /\ UNCHANGED litter
  /\ UNCHANGED <<lock, auth, present, req, k, job, draft, news, resultVars, cleanVars>>

-----------------------------------------------------------------------------
(* prepareCodexAuthJSON: writeFilePrivateAtomic.                           *)

\* The directory is made, the temporary file in it.
AuthTemp(p) ==
  /\ pc[p] = "authTemp"
  /\ \/ /\ Fault
        /\ Diagnose(p, "preparation_failed")
        /\ UNCHANGED <<temps, present>>
     \/ /\ Works
        /\ present' = present \union {req[p].dir}
        /\ temps' = temps \union {<<p, "auth">>}
        /\ Goto(p, "authRename")
        /\ UNCHANGED <<k, resultVars>>
  /\ UNCHANGED <<config, lock, litter, auth, req, job, localVars, cleanVars>>

AuthRename(p) ==
  /\ pc[p] = "authRename"
  /\ temps' = temps \ {<<p, "auth">>}
  /\ \/ /\ DropTemp(p, "auth")
        /\ Diagnose(p, "preparation_failed")
        /\ UNCHANGED auth
     \/ /\ Works
        /\ auth' = [auth EXCEPT ![req[p].dir] = "issued"]
        /\ Perform(p)
        /\ UNCHANGED litter
  /\ UNCHANGED <<config, lock, present, req, job, localVars, cleanVars>>

-----------------------------------------------------------------------------
(* RuntimePreparationResult.Cleanup, any number of times.                  *)

CallCleanup(p) ==
  /\ pc[p] = "session"
  /\ calls[p] < MaxCleanups
  /\ calls' = [calls EXCEPT ![p] = @ + 1]
  /\ cleaned' = [cleaned EXCEPT ![p] = "begun"]
  /\ k' = [k EXCEPT ![p] = 1]
  /\ Goto(p, "clean")
  /\ UNCHANGED <<hostVars, req, job, localVars, resultVars, errs>>

RunClosure(p) ==
  /\ pc[p] = "clean" /\ k[p] <= Len(closures[p])
  /\ Goto(p, IF closures[p][k[p]] = "trust" THEN "lock" ELSE "authRead")
  /\ job' = [job EXCEPT ![p] = "drop"]
  /\ UNCHANGED <<hostVars, req, k, localVars, resultVars, cleanVars>>

\* errors.Join: every closure has run, whatever the others returned.
CleanupReturns(p) ==
  /\ pc[p] = "clean" /\ k[p] > Len(closures[p])
  /\ cleaned' = [cleaned EXCEPT ![p] = IF errs[p] THEN "failed" ELSE "ok"]
  /\ errs' = [errs EXCEPT ![p] = FALSE]
  /\ Goto(p, "session")
  /\ UNCHANGED <<hostVars, req, k, job, localVars, resultVars, calls>>

\* removeFileIfContentMatches: read and compare ...
AuthRead(p) ==
  /\ pc[p] = "authRead"
  /\ \/ Fault /\ ClosureDone(p, TRUE)
     \/ /\ Works
        /\ IF auth[req[p].dir] = "issued"
           THEN Goto(p, "authRemove") /\ UNCHANGED <<k, resultVars, cleanVars>>
           ELSE ClosureDone(p, FALSE)
  /\ UNCHANGED <<config, lock, temps, litter, auth, present, req, job, localVars>>

\* ... then remove what is there now.
AuthRemove(p) ==
  /\ pc[p] = "authRemove"
  /\ \/ Fault /\ ClosureDone(p, TRUE) /\ UNCHANGED auth
     \/ /\ Works
        /\ ClosureDone(p, auth[req[p].dir] = "absent")
        /\ auth' = [auth EXCEPT ![req[p].dir] = "absent"]
  /\ UNCHANGED <<config, lock, temps, litter, present, req, job, localVars>>

-----------------------------------------------------------------------------
(* The world outside.                                                      *)

Crash(p) ==
  /\ p \in MayCrash
  /\ pc[p] \notin {"idle", "gone"}
  /\ Goto(p, "gone")
  /\ UNCHANGED <<hostVars, req, k, job, localVars, resultVars, cleanVars>>

For(d) == {p \in Preps : req[p].dir = d}

\* A claude or codex is at work in d: a session between PrepareRuntime and Cleanup,
\* or the user's own, where nothing is prepared.
InUse(d) ==
  /\ d \in present
  /\ For(d) = {} \/ \E p \in For(d) : pc[p] = "session" /\ cleaned[p] = "never"

\* p has read ~/.claude.json and is about to replace it.
Drafting(p) == pc[p] \in {"write", "rename"}

\* claude records something of its own about the project it runs in.
ClaudeWrites(d) ==
  LET key == KeyOf(d, present) IN
  /\ InUse(d)
  /\ config.form \in {"absent", "noProjects", "object"}
  /\ config.projects[key] # {"scalar"} /\ "own" \notin config.projects[key]
  /\ config' = [form |-> "object", projects |-> [config.projects EXCEPT ![key] = @ \union {"own"}]]
  /\ news' = [p \in Preps |-> IF Drafting(p) THEN news[p] \union {key} ELSE news[p]]
  /\ UNCHANGED <<lock, temps, litter, auth, present, faults, req, pc, k, job, draft, failed,
                 resultVars, cleanVars>>

\* codex refreshes its tokens.
CodexRefreshes(d) ==
  /\ InUse(d)
  /\ auth[d] = "issued"
  /\ auth' = [auth EXCEPT ![d] = "refreshed"]
  /\ UNCHANGED <<config, lock, temps, litter, present, faults, req, pc, k, job, localVars,
                 resultVars, cleanVars>>

\* The caller removes a boot directory once its sessions have ended.
RemoveDir(d) ==
  /\ d \in present
  /\ For(d) # {}
  /\ \A p \in For(d) : pc[p] \in {"session", "gone"}
  /\ present' = present \ {d}
  /\ auth' = [auth EXCEPT ![d] = "absent"]
  /\ temps' = temps \ (For(d) \X {"auth"})
  /\ litter' = litter \ (For(d) \X {"auth"})
  /\ UNCHANGED <<config, lock, faults, req, pc, k, job, localVars, resultVars, cleanVars>>

-----------------------------------------------------------------------------
\* What a process does by itself once it has called.
Step(p) ==
  \/ Refuse(p) \/ BeginEffect(p) \/ Return(p)
  \/ Acquire(p) \/ GiveUp(p) \/ Unlock(p)
  \/ ReadToSeed(p) \/ SeedPanics(p) \/ ReadToDrop(p) \/ WriteTemp(p) \/ Rename(p)
  \/ AuthTemp(p) \/ AuthRename(p)
  \/ RunClosure(p) \/ CleanupReturns(p) \/ AuthRead(p) \/ AuthRemove(p)

Outside ==
  \E d \in Dirs : ClaudeWrites(d) \/ CodexRefreshes(d) \/ RemoveDir(d)

Next ==
  \/ \E p \in Preps : Call(p) \/ Step(p) \/ CallCleanup(p) \/ Crash(p)
  \/ Outside

Spec == Init /\ [][Next]_vars

FairSpec == Spec /\ \A p \in Preps : WF_vars(Step(p))

-----------------------------------------------------------------------------
(* Properties.                                                             *)

Inside(p) == pc[p] \in {"read", "write", "rename", "unlock"}

\* withClaudeConfigLock and the deferred removals: whoever reads or rewrites
\* ~/.claude.json owns its lock file, and a lock file or a temporary file belongs to
\* an operation still under way, or to a process that is gone, or could not be removed.
LockDiscipline ==
  /\ \A p \in Preps : Inside(p) => lock = p
  /\ lock # Free => Inside(lock) \/ pc[lock] = "gone" \/ <<lock, "lock">> \in litter
  /\ \A t \in temps : pc[t[1]] \in {"rename", "authRename", "gone"}

\* PrepareRuntime: what its result lists is in force, where the CLI looks for it, as
\* long as no preparation of the same directory is being cleaned up, whatever other
\* preparations do meanwhile; and without diagnostics everything required is listed.
PreparedIsInForce ==
  \A p \in Preps : LET d == req[p].dir IN
    /\ d \in present /\ (\A q \in For(d) : cleaned[q] = "never") =>
         /\ "trust" \in Range(effects[p]) => Ours \subseteq config.projects[KeyOf(d, present)]
         /\ "auth" \in Range(effects[p]) => auth[d] # "absent"
    /\ pc[p] \in {"session", "clean"} /\ diags[p] = <<>> =>
         Range(req[p].required) \subseteq Range(effects[p])

\* p puts its draft in the place of ~/.claude.json.
Replaces(p) == pc[p] = "rename" /\ pc'[p] = "unlock"

\* Seeding and removal: a configuration that cannot be read is left as it is, and no
\* field or entry that is not the preparation's is ever lost, with one exception, for
\* claude takes no lock: a preparation that replaces the file loses what claude itself
\* has written since that preparation read it.
UserDataIsKept ==
  [][ /\ Unreadable(config) => config' = config
      /\ \A key \in Keys :
           /\ config.projects[key] = {"scalar"} => config'.projects[key] = {"scalar"}
           /\ "own" \in config.projects[key] =>
                \/ "own" \in config'.projects[key]
                \/ \E p \in Preps : Replaces(p) /\ key \in news[p]
    ]_config

\* README.md:371: "The cleanup handle removes only the session-owned trust entry;
\* unrelated Claude config and project keys are preserved."
CleanupKeepsUnrelated ==
  [][ \A p \in Preps : job[p] = "drop" /\ Replaces(p) =>
        \A key \in Keys : "own" \in config.projects[key] => "own" \in config'.projects[key]
    ]_vars

\* Cleanup: when it returns no error, nothing the preparation made is left, also when
\* PrepareRuntime itself had failed half-way.  Claimed for directories that are not
\* prepared twice and, when reached through a link, still exist.
CleanupIsComplete ==
  \A p \in Preps : LET d == req[p].dir IN
    /\ cleaned[p] = "ok" /\ pc[p] = "session"
    /\ "cleanup" \in req[p].allow
    /\ For(d) = {p}
    /\ d \in present \/ d \notin Linked
    => /\ "trust" \in Range(effects[p]) =>
            ~PreparationOnly(config.projects[KeyOf(d, present)])
       /\ auth[d] # "issued"

\* Every call of PrepareRuntime and of Cleanup returns, or its process is gone, also
\* when a crashed process has left the lock file behind.
CallsReturn ==
  \A p \in Preps : pc[p] \notin {"idle", "session", "gone"} ~> pc[p] \in {"session", "gone"}
=============================================================================
