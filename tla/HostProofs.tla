----------------------------- MODULE HostProofs -----------------------------
(***************************************************************************)
(* Theorems about what a host does before and around a turn: Preparation,  *)
(* for any number of processes, directories and requests, any failures and *)
(* crashes; Registry, for any tests and whatever they register; and        *)
(* Launch, for any adapters, contexts and options a convention admits.     *)
(***************************************************************************)
EXTENDS Preparation, ArgvLemmas

-----------------------------------------------------------------------------
(* Preparation. *)

InTrust(p) == pc[p] \in {"lock", "read", "write", "rename", "unlock"}

\* What TypeOK needs to be inductive: an effect being prepared is the one at position k.
Control ==
  \A p \in Preps :
    /\ pc[p] \in {"idle", "loop", "authTemp", "authRename"} => job[p] = "seed"
    /\ InTrust(p) /\ job[p] = "seed" =>
         k[p] <= Len(req[p].required) /\ req[p].required[k[p]] = "trust"
    /\ pc[p] \in {"authTemp", "authRename"} =>
         k[p] <= Len(req[p].required) /\ req[p].required[k[p]] = "auth"

PrepInv == TypeOK /\ Control

\* Both operations leave a well-formed configuration.
LEMMA SeededType ==
  ASSUME NEW c \in Configs, NEW key \in Keys, ~SeedRefused(c, key)
  PROVE  Seeded(c, key) \in Configs
  BY DEF SeedRefused, Seeded, Configs, Forms, Entries, Ours

LEMMA RemovedType ==
  ASSUME NEW c \in Configs, NEW key \in Keys
  PROVE  Removed(c, key) \in Configs
  BY DEF Removed, Configs, Forms, Entries, Ours

LEMMA KeyType ==
  ASSUME NEW d \in Dirs, NEW S
  PROVE  KeyOf(d, S) \in Keys
  BY DEF KeyOf, Keys

LEMMA InitCorrect == Init => PrepInv
  <1> SUFFICES ASSUME Init PROVE PrepInv
    OBVIOUS
  <1>1. NoDraft \in Configs
    BY DEF NoDraft, Configs, Forms, Entries, Ours
  <1>2. req \in [Preps -> Request]
    BY PreparationAssumption DEF Init, Range
  <1>3. \A S : <<>> \in Seq(S)
    OBVIOUS
  <1>4. TypeOK
    BY <1>1, <1>2, <1>3, PreparationAssumption DEF Init, TypeOK, Labels
  <1>5. Control
    BY DEF Init, Control, InTrust
  <1> QED BY <1>4, <1>5 DEF PrepInv


\* The kind of the effect at position k.
LEMMA KindType ==
  ASSUME TypeOK, NEW p \in Preps, k[p] <= Len(req[p].required)
  PROVE  Kind(p) \in Kinds
  <1>1. req[p].required \in Seq(Kinds) /\ k[p] \in Nat \ {0}
    BY DEF TypeOK, Request
  <1> QED BY <1>1, ElementOfSeq DEF Kind

\* A step of p alone: to label, to position n, for job j.
MovesTo(p, label, n, j) ==
  /\ pc' = [pc EXCEPT ![p] = label]
  /\ k' = [k EXCEPT ![p] = n]
  /\ job' = [job EXCEPT ![p] = j]
  /\ req' = req

\* Control, of one process.
ControlFor(p, label, n, j) ==
  /\ label \in {"idle", "loop", "authTemp", "authRename"} => j = "seed"
  /\ label \in {"lock", "read", "write", "rename", "unlock"} /\ j = "seed" =>
       n <= Len(req[p].required) /\ req[p].required[n] = "trust"
  /\ label \in {"authTemp", "authRename"} =>
       n <= Len(req[p].required) /\ req[p].required[n] = "auth"

LEMMA ControlKept ==
  ASSUME PrepInv, NEW p \in Preps, NEW label, NEW n, NEW j,
         MovesTo(p, label, n, j), ControlFor(p, label, n, j)
  PROVE  Control'
  <1> SUFFICES ASSUME NEW q \in Preps
               PROVE  /\ pc'[q] \in {"idle", "loop", "authTemp", "authRename"} => job'[q] = "seed"
                      /\ InTrust(q)' /\ job'[q] = "seed" =>
                           k'[q] <= Len(req'[q].required) /\ req'[q].required[k'[q]] = "trust"
                      /\ pc'[q] \in {"authTemp", "authRename"} =>
                           k'[q] <= Len(req'[q].required) /\ req'[q].required[k'[q]] = "auth"
    BY DEF Control
  <1>1. CASE q = p
    <2>1. pc'[q] = label /\ k'[q] = n /\ job'[q] = j /\ req' = req
      BY <1>1 DEF PrepInv, TypeOK, MovesTo
    <2> QED BY <1>1, <2>1 DEF InTrust, ControlFor
  <1>2. CASE q # p
    <2>1. pc'[q] = pc[q] /\ k'[q] = k[q] /\ job'[q] = job[q] /\ req' = req
      BY <1>2 DEF PrepInv, TypeOK, MovesTo
    <2> QED BY <2>1 DEF InTrust, PrepInv, Control
  <1> QED BY <1>1, <1>2

\* The types of what a step may change, by groups.
HostTypes ==
  /\ config' \in Configs
  /\ lock' \in Preps \union {Free}
  /\ temps' \subseteq Preps \X {"config", "auth"}
  /\ litter' \subseteq Preps \X {"lock", "config", "auth"}
  /\ auth' \in [Dirs -> {"absent", "issued", "refreshed"}]
  /\ present' \subseteq Dirs
  /\ faults' \in 0..MaxFaults

LocalTypes ==
  /\ draft' \in [Preps -> Configs]
  /\ news' \in [Preps -> SUBSET Keys]
  /\ failed' \in [Preps -> BOOLEAN]

ResultTypes ==
  /\ effects' \in [Preps -> Seq({"trust", "auth"})]
  /\ diags' \in [Preps -> Seq(Kinds \X Codes)]
  /\ closures' \in [Preps -> Seq({"trust", "auth"})]

CleanTypes ==
  /\ errs' \in [Preps -> BOOLEAN]
  /\ cleaned' \in [Preps -> {"never", "begun", "ok", "failed"}]
  /\ calls' \in [Preps -> 0..MaxCleanups]

LEMMA StepKept ==
  ASSUME PrepInv, NEW p \in Preps, NEW label \in Labels, NEW n \in Nat \ {0},
         NEW j \in {"seed", "drop"}, MovesTo(p, label, n, j), ControlFor(p, label, n, j),
         HostTypes, LocalTypes, ResultTypes, CleanTypes
  PROVE  PrepInv' /\ pc' = [pc EXCEPT ![p] = pc'[p]]
  <1>1. pc' \in [Preps -> Labels] /\ k' \in [Preps -> Nat \ {0}]
    BY DEF PrepInv, TypeOK, MovesTo
  <1>2. job' \in [Preps -> {"seed", "drop"}] /\ req' \in [Preps -> Request]
    BY DEF PrepInv, TypeOK, MovesTo
  <1>3. TypeOK'
    BY <1>1, <1>2 DEF TypeOK, HostTypes, LocalTypes, ResultTypes, CleanTypes
  <1>4. pc' = [pc EXCEPT ![p] = pc'[p]]
    BY DEF PrepInv, TypeOK, MovesTo
  <1> QED BY <1>3, <1>4, ControlKept DEF PrepInv

-----------------------------------------------------------------------------
(* What the endings of an operation do.                                    *)

\* One more of a list.
LEMMA AppendedType ==
  ASSUME NEW S, NEW f \in [Preps -> Seq(S)], NEW p \in Preps, NEW e \in S
  PROVE  [f EXCEPT ![p] = Append(@, e)] \in [Preps -> Seq(S)]
  <1>1. Append(f[p], e) \in Seq(S)
    BY AppendProperties
  <1> QED BY <1>1

LEMMA DiagnoseStep ==
  ASSUME TypeOK, NEW p \in Preps, k[p] <= Len(req[p].required),
         NEW code \in Codes, Diagnose(p, code)
  PROVE  /\ ResultTypes
         /\ pc' = [pc EXCEPT ![p] = "loop"]
         /\ k' = [k EXCEPT ![p] = k[p] + 1]
  <1>1. <<Kind(p), code>> \in Kinds \X Codes
    BY KindType
  <1>2. diags' \in [Preps -> Seq(Kinds \X Codes)]
    <2>1. diags \in [Preps -> Seq(Kinds \X Codes)]
      BY DEF TypeOK
    <2>2. diags' = [diags EXCEPT ![p] = Append(@, <<Kind(p), code>>)]
      BY DEF Diagnose
    <2> HIDE DEF Kinds, Codes
    <2> QED BY <1>1, <2>1, <2>2, AppendedType
  <1> QED BY <1>2 DEF Diagnose, Goto, Next1, TypeOK, ResultTypes

LEMMA PerformStep ==
  ASSUME TypeOK, NEW p \in Preps, Kind(p) \in {"trust", "auth"}, Perform(p)
  PROVE  /\ ResultTypes
         /\ pc' = [pc EXCEPT ![p] = "loop"]
         /\ k' = [k EXCEPT ![p] = k[p] + 1]
  <1>1. effects' \in [Preps -> Seq({"trust", "auth"})]
    <2>1. effects \in [Preps -> Seq({"trust", "auth"})]
      BY DEF TypeOK
    <2>2. effects' = [effects EXCEPT ![p] = Append(@, Kind(p))]
      BY DEF Perform
    <2> QED BY <2>1, <2>2, AppendedType
  <1>2. closures' \in [Preps -> Seq({"trust", "auth"})]
    <2>1. closures \in [Preps -> Seq({"trust", "auth"})]
      BY DEF TypeOK
    <2>2. closures' = closures \/ closures' = [closures EXCEPT ![p] = Append(@, Kind(p))]
      BY DEF Perform
    <2>3. [closures EXCEPT ![p] = Append(@, Kind(p))] \in [Preps -> Seq({"trust", "auth"})]
      BY <2>1, AppendedType
    <2> QED BY <2>1, <2>2, <2>3
  <1> QED BY <1>1, <1>2 DEF Perform, Goto, Next1, TypeOK, ResultTypes

LEMMA ClosureStep ==
  ASSUME TypeOK, NEW p \in Preps, NEW error \in BOOLEAN, ClosureDone(p, error)
  PROVE  /\ ResultTypes /\ CleanTypes
         /\ pc' = [pc EXCEPT ![p] = "clean"]
         /\ k' = [k EXCEPT ![p] = k[p] + 1]
  BY DEF ClosureDone, Goto, Next1, TypeOK, ResultTypes, CleanTypes, resultVars

LEMMA TrustStep ==
  ASSUME PrepInv, NEW p \in Preps, InTrust(p), NEW error \in BOOLEAN, TrustDone(p, error)
  PROVE  /\ ResultTypes /\ CleanTypes
         /\ pc' = [pc EXCEPT ![p] = IF job[p] = "drop" THEN "clean" ELSE "loop"]
         /\ k' = [k EXCEPT ![p] = k[p] + 1]
  <1>1. CASE job[p] = "drop"
    BY <1>1, ClosureStep DEF TrustDone, PrepInv
  <1>2. CASE job[p] # "drop"
    <2>1. k[p] <= Len(req[p].required) /\ Kind(p) = "trust"
      BY <1>2 DEF PrepInv, Control, TypeOK, Kind
    <2>2. CleanTypes
      BY <1>2 DEF TrustDone, cleanVars, CleanTypes, PrepInv, TypeOK
    <2>3. "preparation_failed" \in Codes
      BY DEF Codes
    <2>4. CASE error
      <3>1. Diagnose(p, "preparation_failed")
        BY <1>2, <2>4 DEF TrustDone
      <3> QED BY <1>2, <2>1, <2>2, <2>3, <3>1, DiagnoseStep DEF PrepInv
    <2>5. CASE ~error
      <3>1. Perform(p)
        BY <1>2, <2>5 DEF TrustDone
      <3> QED BY <1>2, <2>1, <2>2, <3>1, PerformStep DEF PrepInv
    <2> QED BY <2>4, <2>5
  <1> QED BY <1>1, <1>2

-----------------------------------------------------------------------------
(* Every step keeps PrepInv.                                               *)

LEMMA StepCorrect ==
  ASSUME PrepInv, NEW p \in Preps, Call(p) \/ Step(p) \/ CallCleanup(p) \/ Crash(p)
  PROVE  PrepInv' /\ pc' = [pc EXCEPT ![p] = pc'[p]]
  <1>t. /\ TypeOK /\ Control /\ k[p] \in Nat \ {0} /\ job[p] \in {"seed", "drop"}
        /\ k = [k EXCEPT ![p] = k[p]] /\ job = [job EXCEPT ![p] = job[p]]
    BY DEF TypeOK, PrepInv
  <1>u. ASSUME UNCHANGED hostVars PROVE HostTypes
    BY <1>t, <1>u DEF TypeOK, hostVars, HostTypes
  <1>v. ASSUME UNCHANGED localVars PROVE LocalTypes
    BY <1>t, <1>v DEF TypeOK, localVars, LocalTypes
  <1>w. ASSUME UNCHANGED resultVars PROVE ResultTypes
    BY <1>t, <1>w DEF TypeOK, resultVars, ResultTypes
  <1>x. ASSUME UNCHANGED cleanVars PROVE CleanTypes
    BY <1>t, <1>x DEF TypeOK, cleanVars, CleanTypes
  <1>y. ASSUME Works \/ Fault PROVE faults' \in 0..MaxFaults
    BY <1>t, <1>y, PreparationAssumption DEF TypeOK, Works, Fault
  <1>z. ASSUME NEW what \in {"lock", "config", "auth"}, NEW n \in {0, 1}, LeftBehind(p, what, n)
        PROVE  faults' \in 0..MaxFaults /\ litter' \subseteq Preps \X {"lock", "config", "auth"}
    <2>1. faults' \in 0..MaxFaults
      BY <1>t, <1>z, PreparationAssumption DEF TypeOK, LeftBehind
    <2>2. litter' \subseteq Preps \X {"lock", "config", "auth"}
      BY <1>t, <1>z DEF TypeOK, LeftBehind
    <2> QED BY <2>1, <2>2
  <1>h. ASSUME RemoveLock(p)
        PROVE  /\ faults' \in 0..MaxFaults /\ litter' \subseteq Preps \X {"lock", "config", "auth"}
               /\ lock' \in Preps \union {Free}
    <2>1. CASE Works /\ lock' = Free /\ UNCHANGED litter
      BY <1>t, <1>y, <2>1 DEF TypeOK
    <2>2. CASE LeftBehind(p, "lock", 0) /\ UNCHANGED lock
      BY <1>t, <1>z, <2>2 DEF TypeOK
    <2> QED BY <1>h, <2>1, <2>2 DEF RemoveLock
  <1>i. ASSUME NEW what \in {"config", "auth"}, DropTemp(p, what)
        PROVE  faults' \in 0..MaxFaults /\ litter' \subseteq Preps \X {"lock", "config", "auth"}
    <2>1. CASE Fault /\ UNCHANGED litter
      BY <1>t, <1>y, <2>1 DEF TypeOK
    <2>2. CASE LeftBehind(p, what, 1)
      BY <1>z, <2>2
    <2> QED BY <1>i, <2>1, <2>2 DEF DropTemp
  <1>1. CASE Call(p)
    <2>1. MovesTo(p, "loop", k[p], job[p])
      BY <1>1, <1>t DEF Call, MovesTo, Goto, Next1
    <2>2. HostTypes
      BY <1>1, <1>u DEF Call
    <2>3. LocalTypes
      BY <1>1, <1>v DEF Call
    <2>4. ResultTypes
      BY <1>1, <1>w DEF Call
    <2>5. CleanTypes
      BY <1>1, <1>x DEF Call
    <2>6. ControlFor(p, "loop", k[p], job[p])
      BY <1>1, <1>t DEF Call, Control, ControlFor, InTrust
    <2>7. "loop" \in Labels
      BY DEF Labels
    <2> QED BY <1>t, <2>1, <2>2, <2>3, <2>4, <2>5, <2>6, <2>7, StepKept
  <1>2. CASE Return(p)
    <2>1. MovesTo(p, "session", k[p], job[p])
      BY <1>2, <1>t DEF Return, MovesTo, Goto, Next1
    <2>2. HostTypes
      BY <1>2, <1>u DEF Return
    <2>3. LocalTypes
      BY <1>2, <1>v DEF Return
    <2>4. ResultTypes
      BY <1>2, <1>w DEF Return
    <2>5. CleanTypes
      BY <1>2, <1>x DEF Return
    <2>6. ControlFor(p, "session", k[p], job[p])
      BY <1>2, <1>t DEF Return, Control, ControlFor, InTrust
    <2>7. "session" \in Labels
      BY DEF Labels
    <2> QED BY <1>t, <2>1, <2>2, <2>3, <2>4, <2>5, <2>6, <2>7, StepKept
  <1>3. CASE Acquire(p)
    <2>1. MovesTo(p, "read", k[p], job[p])
      BY <1>3, <1>t DEF Acquire, MovesTo, Goto, Next1
    <2>2. HostTypes
      BY <1>3, <1>t, <1>y DEF Acquire, TypeOK, HostTypes
    <2>3. LocalTypes
      BY <1>3, <1>v DEF Acquire
    <2>4. ResultTypes
      BY <1>3, <1>w DEF Acquire
    <2>5. CleanTypes
      BY <1>3, <1>x DEF Acquire
    <2>6. ControlFor(p, "read", k[p], job[p])
      BY <1>3, <1>t DEF Acquire, Control, ControlFor, InTrust
    <2>7. "read" \in Labels
      BY DEF Labels
    <2> QED BY <1>t, <2>1, <2>2, <2>3, <2>4, <2>5, <2>6, <2>7, StepKept
  <1>4. CASE SeedPanics(p)
    <2>1. MovesTo(p, "gone", k[p], job[p])
      BY <1>4, <1>t DEF SeedPanics, MovesTo, Goto, Next1
    <2>2. HostTypes
      BY <1>4, <1>t, <1>h DEF SeedPanics, TypeOK, HostTypes
    <2>3. LocalTypes
      BY <1>4, <1>v DEF SeedPanics
    <2>4. ResultTypes
      BY <1>4, <1>w DEF SeedPanics
    <2>5. CleanTypes
      BY <1>4, <1>x DEF SeedPanics
    <2>6. ControlFor(p, "gone", k[p], job[p])
      BY <1>4, <1>t DEF SeedPanics, Control, ControlFor, InTrust
    <2>7. "gone" \in Labels
      BY DEF Labels
    <2> QED BY <1>t, <2>1, <2>2, <2>3, <2>4, <2>5, <2>6, <2>7, StepKept
  <1>5. CASE CallCleanup(p)
    <2>1. MovesTo(p, "clean", 1, job[p])
      BY <1>5, <1>t DEF CallCleanup, MovesTo, Goto, Next1
    <2>2. HostTypes
      BY <1>5, <1>u DEF CallCleanup
    <2>3. LocalTypes
      BY <1>5, <1>v DEF CallCleanup
    <2>4. ResultTypes
      BY <1>5, <1>w DEF CallCleanup
    <2>5. CleanTypes
      BY <1>5, <1>t, PreparationAssumption DEF CallCleanup, TypeOK, CleanTypes
    <2>6. ControlFor(p, "clean", 1, job[p])
      BY <1>5, <1>t DEF CallCleanup, Control, ControlFor, InTrust
    <2>7. "clean" \in Labels
      BY DEF Labels
    <2> QED BY <1>t, <2>1, <2>2, <2>3, <2>4, <2>5, <2>6, <2>7, StepKept
  <1>6. CASE RunClosure(p)
    <2>1. MovesTo(p, (IF closures[p][k[p]] = "trust" THEN "lock" ELSE "authRead"), k[p], "drop")
      BY <1>6, <1>t DEF RunClosure, MovesTo, Goto, Next1
    <2>2. HostTypes
      BY <1>6, <1>u DEF RunClosure
    <2>3. LocalTypes
      BY <1>6, <1>v DEF RunClosure
    <2>4. ResultTypes
      BY <1>6, <1>w DEF RunClosure
    <2>5. CleanTypes
      BY <1>6, <1>x DEF RunClosure
    <2>6. ControlFor(p, (IF closures[p][k[p]] = "trust" THEN "lock" ELSE "authRead"), k[p], "drop")
      BY <1>6, <1>t DEF RunClosure, Control, ControlFor, InTrust
    <2>7. (IF closures[p][k[p]] = "trust" THEN "lock" ELSE "authRead") \in Labels
      BY DEF Labels
    <2> QED BY <1>t, <2>1, <2>2, <2>3, <2>4, <2>5, <2>6, <2>7, StepKept
  <1>7. CASE CleanupReturns(p)
    <2>1. MovesTo(p, "session", k[p], job[p])
      BY <1>7, <1>t DEF CleanupReturns, MovesTo, Goto, Next1
    <2>2. HostTypes
      BY <1>7, <1>u DEF CleanupReturns
    <2>3. LocalTypes
      BY <1>7, <1>v DEF CleanupReturns
    <2>4. ResultTypes
      BY <1>7, <1>w DEF CleanupReturns
    <2>5. CleanTypes
      BY <1>7, <1>t DEF CleanupReturns, TypeOK, CleanTypes
    <2>6. ControlFor(p, "session", k[p], job[p])
      BY <1>7, <1>t DEF CleanupReturns, Control, ControlFor, InTrust
    <2>7. "session" \in Labels
      BY DEF Labels
    <2> QED BY <1>t, <2>1, <2>2, <2>3, <2>4, <2>5, <2>6, <2>7, StepKept
  <1>8. CASE Crash(p)
    <2>1. MovesTo(p, "gone", k[p], job[p])
      BY <1>8, <1>t DEF Crash, MovesTo, Goto, Next1
    <2>2. HostTypes
      BY <1>8, <1>u DEF Crash
    <2>3. LocalTypes
      BY <1>8, <1>v DEF Crash
    <2>4. ResultTypes
      BY <1>8, <1>w DEF Crash
    <2>5. CleanTypes
      BY <1>8, <1>x DEF Crash
    <2>6. ControlFor(p, "gone", k[p], job[p])
      BY <1>8, <1>t DEF Crash, Control, ControlFor, InTrust
    <2>7. "gone" \in Labels
      BY DEF Labels
    <2> QED BY <1>t, <2>1, <2>2, <2>3, <2>4, <2>5, <2>6, <2>7, StepKept
  <1>9. CASE WriteTemp(p)
    <2>1. MovesTo(p, (IF Works /\ pc'[p] = "rename" THEN "rename" ELSE "unlock"), k[p], job[p])
      BY <1>9, <1>t DEF WriteTemp, MovesTo, Goto, Next1, LeaveConfig, TypeOK, Works, Fault
    <2>2. HostTypes
      <3>1. faults' \in 0..MaxFaults
        BY <1>9, <1>y DEF WriteTemp
      <3>2. temps' \subseteq Preps \X {"config", "auth"}
        <4>1. temps' = temps \/ temps' = temps \union {<<p, "config">>}
          BY <1>9 DEF WriteTemp
        <4> QED BY <1>t, <4>1 DEF TypeOK
      <3> QED BY <1>9, <1>t, <3>1, <3>2 DEF WriteTemp, TypeOK, HostTypes
    <2>3. LocalTypes
      BY <1>9, <1>t DEF WriteTemp, LeaveConfig, TypeOK, LocalTypes
    <2>4. ResultTypes
      BY <1>9, <1>w DEF WriteTemp
    <2>5. CleanTypes
      BY <1>9, <1>x DEF WriteTemp
    <2>6. ControlFor(p, (IF Works /\ pc'[p] = "rename" THEN "rename" ELSE "unlock"), k[p], job[p])
      BY <1>9, <1>t DEF WriteTemp, Control, ControlFor, InTrust
    <2>7. (IF Works /\ pc'[p] = "rename" THEN "rename" ELSE "unlock") \in Labels
      BY DEF Labels
    <2> QED BY <1>t, <2>1, <2>2, <2>3, <2>4, <2>5, <2>6, <2>7, StepKept
  <1>10. CASE Rename(p)
    <2>1. MovesTo(p, "unlock", k[p], job[p])
      BY <1>10, <1>t DEF Rename, MovesTo, Goto, Next1, LeaveConfig
    <2>2. HostTypes
      <3>1. faults' \in 0..MaxFaults /\ litter' \subseteq Preps \X {"lock", "config", "auth"}
        BY <1>10, <1>t, <1>i, <1>y DEF Rename, TypeOK
      <3>2. temps' \subseteq Preps \X {"config", "auth"}
        BY <1>10, <1>t DEF Rename, TypeOK, Request
      <3>3. config' \in Configs
        <4>1. config' = config \/ config' = draft[p]
          BY <1>10 DEF Rename
        <4> QED BY <1>t, <4>1 DEF TypeOK
      <3> QED BY <1>10, <1>t, <3>1, <3>2, <3>3 DEF Rename, TypeOK, HostTypes
    <2>3. LocalTypes
      BY <1>10, <1>t DEF Rename, LeaveConfig, TypeOK, LocalTypes
    <2>4. ResultTypes
      BY <1>10, <1>w DEF Rename
    <2>5. CleanTypes
      BY <1>10, <1>x DEF Rename
    <2>6. ControlFor(p, "unlock", k[p], job[p])
      BY <1>10, <1>t DEF Rename, Control, ControlFor, InTrust
    <2>7. "unlock" \in Labels
      BY DEF Labels
    <2> QED BY <1>t, <2>1, <2>2, <2>3, <2>4, <2>5, <2>6, <2>7, StepKept
  <1>11. CASE BeginEffect(p)
    <2>1. k[p] <= Len(req[p].required) /\ pc[p] = "loop"
      BY <1>11 DEF BeginEffect, InLoop
    <2>2. Kind(p) \in {"trust", "auth"}
      BY <1>11, <1>t, <2>1, KindType DEF BeginEffect, Objection, Kinds, Declared
    <2>3. MovesTo(p, (IF Kind(p) = "trust" THEN "lock" ELSE "authTemp"), k[p], job[p])
      BY <1>11, <1>t DEF BeginEffect, MovesTo, Goto, Next1
    <2>4. HostTypes
      BY <1>11, <1>u DEF BeginEffect
    <2>5. LocalTypes
      BY <1>11, <1>v DEF BeginEffect
    <2>6. ResultTypes
      BY <1>11, <1>w DEF BeginEffect
    <2>7. CleanTypes
      BY <1>11, <1>x DEF BeginEffect
    <2>8. ControlFor(p, (IF Kind(p) = "trust" THEN "lock" ELSE "authTemp"), k[p], job[p])
      BY <1>11, <1>t, <2>1, <2>2 DEF BeginEffect, Control, ControlFor, Kind
    <2>9. (IF Kind(p) = "trust" THEN "lock" ELSE "authTemp") \in Labels
      BY DEF Labels
    <2> QED BY <1>t, <2>3, <2>4, <2>5, <2>6, <2>7, <2>8, <2>9, StepKept
  <1>12. CASE Refuse(p)
    <2>1. Objection(req[p], Kind(p)) \in Codes
      BY <1>12 DEF Refuse, Objection, Codes
    <2>2. /\ ResultTypes /\ pc' = [pc EXCEPT ![p] = "loop"]
          /\ k' = [k EXCEPT ![p] = k[p] + 1]
      BY <1>12, <1>t, <2>1, DiagnoseStep DEF Refuse, InLoop
    <2>3. MovesTo(p, "loop", k[p] + 1, job[p])
      BY <1>12, <1>t, <2>2 DEF Refuse, MovesTo, Goto, Next1
    <2>4. HostTypes
      BY <1>12, <1>u DEF Refuse
    <2>5. LocalTypes
      BY <1>12, <1>v DEF Refuse
    <2>6. ResultTypes
      BY <2>2
    <2>7. CleanTypes
      BY <1>12, <1>x DEF Refuse
    <2>8. ControlFor(p, "loop", k[p] + 1, job[p])
      BY <1>12, <1>t DEF Refuse, InLoop, Control, ControlFor
    <2>9. "loop" \in Labels
      BY DEF Labels
    <2> QED BY <1>t, <2>3, <2>4, <2>5, <2>6, <2>7, <2>8, <2>9, StepKept
  <1>13. CASE GiveUp(p)
    <2>1. InTrust(p) /\ TrustDone(p, TRUE) /\ TRUE \in BOOLEAN
      BY <1>13, <1>t DEF GiveUp, InTrust, TypeOK
    <2>2. /\ ResultTypes /\ CleanTypes
          /\ pc' = [pc EXCEPT ![p] = IF job[p] = "drop" THEN "clean" ELSE "loop"]
          /\ k' = [k EXCEPT ![p] = k[p] + 1]
      BY <2>1, TrustStep
    <2>4. MovesTo(p, (IF job[p] = "drop" THEN "clean" ELSE "loop"), k[p] + 1, job[p])
      BY <1>13, <1>t, <2>2 DEF GiveUp, MovesTo, Goto, Next1
    <2>5. HostTypes
      BY <1>13, <1>t, <1>y DEF GiveUp, TypeOK, HostTypes
    <2>6. LocalTypes
      BY <1>13, <1>v DEF GiveUp
    <2>7. ResultTypes
      BY <2>2
    <2>8. CleanTypes
      BY <2>2
    <2>9. ControlFor(p, (IF job[p] = "drop" THEN "clean" ELSE "loop"), k[p] + 1, job[p])
      BY <1>13, <1>t DEF GiveUp, Control, ControlFor, InTrust
    <2>10. (IF job[p] = "drop" THEN "clean" ELSE "loop") \in Labels
      BY DEF Labels
    <2> QED BY <1>t, <2>4, <2>5, <2>6, <2>7, <2>8, <2>9, <2>10, StepKept
  <1>14. CASE Unlock(p)
    <2>1. InTrust(p) /\ TrustDone(p, failed[p]) /\ failed[p] \in BOOLEAN
      BY <1>14, <1>t DEF Unlock, InTrust, TypeOK
    <2>2. /\ ResultTypes /\ CleanTypes
          /\ pc' = [pc EXCEPT ![p] = IF job[p] = "drop" THEN "clean" ELSE "loop"]
          /\ k' = [k EXCEPT ![p] = k[p] + 1]
      BY <2>1, TrustStep
    <2>3. NoDraft \in Configs
      BY DEF NoDraft, Configs, Forms, Entries, Ours
    <2>4. MovesTo(p, (IF job[p] = "drop" THEN "clean" ELSE "loop"), k[p] + 1, job[p])
      BY <1>14, <1>t, <2>2 DEF Unlock, MovesTo, Goto, Next1
    <2>5. HostTypes
      BY <1>14, <1>t, <1>h DEF Unlock, TypeOK, HostTypes
    <2>6. LocalTypes
      <3>1. draft' \in [Preps -> Configs]
        BY <1>14, <1>t, <2>3 DEF Unlock, TypeOK
      <3>2. news' \in [Preps -> SUBSET Keys]
        BY <1>14, <1>t DEF Unlock, TypeOK
      <3>3. failed' \in [Preps -> BOOLEAN]
        BY <1>14, <1>t DEF Unlock, TypeOK
      <3> QED BY <3>1, <3>2, <3>3 DEF LocalTypes
    <2>7. ResultTypes
      BY <2>2
    <2>8. CleanTypes
      BY <2>2
    <2>9. ControlFor(p, (IF job[p] = "drop" THEN "clean" ELSE "loop"), k[p] + 1, job[p])
      BY <1>14, <1>t DEF Unlock, Control, ControlFor, InTrust
    <2>10. (IF job[p] = "drop" THEN "clean" ELSE "loop") \in Labels
      BY DEF Labels
    <2> QED BY <1>t, <2>4, <2>5, <2>6, <2>7, <2>8, <2>9, <2>10, StepKept
  <1>15. CASE ReadToSeed(p)
    <2>1. Key(p) \in Keys
      BY <1>t, KeyType DEF Key, TypeOK, Request
    <2>2. ~SeedRefused(config, Key(p)) => Seeded(config, Key(p)) \in Configs
      BY <1>t, <2>1, SeededType DEF TypeOK
    <2>3. MovesTo(p, (IF pc'[p] = "write" THEN "write" ELSE "unlock"), k[p], job[p])
      BY <1>15, <1>t DEF ReadToSeed, MovesTo, Goto, Next1, LeaveConfig, Rewrite, TypeOK
    <2>4. HostTypes
      BY <1>15, <1>t, <1>y DEF ReadToSeed, TypeOK, HostTypes
    <2>5. LocalTypes
      <3>1. draft' \in [Preps -> Configs]
        BY <1>15, <1>t, <2>2 DEF ReadToSeed, Rewrite, TypeOK
      <3>2. failed' \in [Preps -> BOOLEAN]
        BY <1>15, <1>t DEF ReadToSeed, LeaveConfig, Rewrite, TypeOK
      <3>3. news' \in [Preps -> SUBSET Keys]
        BY <1>15, <1>t DEF ReadToSeed, TypeOK
      <3> QED BY <3>1, <3>2, <3>3 DEF LocalTypes
    <2>6. ResultTypes
      BY <1>15, <1>w DEF ReadToSeed
    <2>7. CleanTypes
      BY <1>15, <1>x DEF ReadToSeed
    <2>8. ControlFor(p, (IF pc'[p] = "write" THEN "write" ELSE "unlock"), k[p], job[p])
      BY <1>15, <1>t DEF ReadToSeed, Control, ControlFor, InTrust
    <2>9. (IF pc'[p] = "write" THEN "write" ELSE "unlock") \in Labels
      BY DEF Labels
    <2> QED BY <1>t, <2>3, <2>4, <2>5, <2>6, <2>7, <2>8, <2>9, StepKept
  <1>16. CASE ReadToDrop(p)
    <2>1. Removed(config, Key(p)) \in Configs /\ Unreadable(config) \in BOOLEAN
      BY <1>t, KeyType, RemovedType DEF Key, TypeOK, Request, Unreadable
    <2>2. MovesTo(p, (IF pc'[p] = "write" THEN "write" ELSE "unlock"), k[p], job[p])
      BY <1>16, <1>t DEF ReadToDrop, MovesTo, Goto, Next1, LeaveConfig, Rewrite, TypeOK
    <2>3. HostTypes
      BY <1>16, <1>t, <1>y DEF ReadToDrop, TypeOK, HostTypes
    <2>4. LocalTypes
      <3>1. draft' \in [Preps -> Configs]
        BY <1>16, <1>t, <2>1 DEF ReadToDrop, Rewrite, TypeOK
      <3>2. failed' \in [Preps -> BOOLEAN]
        BY <1>16, <1>t, <2>1 DEF ReadToDrop, LeaveConfig, Rewrite, TypeOK
      <3>3. news' \in [Preps -> SUBSET Keys]
        BY <1>16, <1>t DEF ReadToDrop, TypeOK
      <3> QED BY <3>1, <3>2, <3>3 DEF LocalTypes
    <2>5. ResultTypes
      BY <1>16, <1>w DEF ReadToDrop
    <2>6. CleanTypes
      BY <1>16, <1>x DEF ReadToDrop
    <2>7. ControlFor(p, (IF pc'[p] = "write" THEN "write" ELSE "unlock"), k[p], job[p])
      BY <1>16, <1>t DEF ReadToDrop, Control, ControlFor, InTrust
    <2>8. (IF pc'[p] = "write" THEN "write" ELSE "unlock") \in Labels
      BY DEF Labels
    <2> QED BY <1>t, <2>2, <2>3, <2>4, <2>5, <2>6, <2>7, <2>8, StepKept
  <1>17. CASE AuthTemp(p)
    <2>1. k[p] <= Len(req[p].required) /\ Kind(p) = "auth" /\ job[p] = "seed"
      BY <1>17, <1>t DEF AuthTemp, Control, Kind
    <2>2. "preparation_failed" \in Codes
      BY DEF Codes
    <2>3. /\ ResultTypes
          /\ \/ /\ pc' = [pc EXCEPT ![p] = "loop"]
                /\ k' = [k EXCEPT ![p] = k[p] + 1]
             \/ pc' = [pc EXCEPT ![p] = "authRename"] /\ k' = k
      <3>1. CASE Diagnose(p, "preparation_failed")
        BY <1>t, <2>1, <2>2, <3>1, DiagnoseStep
      <3>2. CASE Goto(p, "authRename") /\ UNCHANGED <<k, resultVars>>
        BY <1>w, <3>2 DEF Goto
      <3> QED BY <1>17, <3>1, <3>2 DEF AuthTemp
    <2>4. MovesTo(p, (IF pc'[p] = "loop" THEN "loop" ELSE "authRename"), (IF pc'[p] = "loop" THEN k[p] + 1 ELSE k[p]), job[p])
      BY <1>17, <1>t, <2>3 DEF AuthTemp, MovesTo, Goto, Next1, TypeOK
    <2>5. HostTypes
      <3>1. faults' \in 0..MaxFaults
        BY <1>17, <1>y DEF AuthTemp
      <3>2. temps' \subseteq Preps \X {"config", "auth"}
        <4>1. temps' = temps \/ temps' = temps \union {<<p, "auth">>}
          BY <1>17 DEF AuthTemp
        <4> QED BY <1>t, <4>1 DEF TypeOK
      <3>3. present' \subseteq Dirs
        BY <1>17, <1>t DEF AuthTemp, TypeOK, Request
      <3> QED BY <1>17, <1>t, <3>1, <3>2, <3>3 DEF AuthTemp, TypeOK, HostTypes
    <2>6. LocalTypes
      BY <1>17, <1>v DEF AuthTemp
    <2>7. ResultTypes
      BY <2>3
    <2>8. CleanTypes
      BY <1>17, <1>x DEF AuthTemp
    <2>9. ControlFor(p, (IF pc'[p] = "loop" THEN "loop" ELSE "authRename"), (IF pc'[p] = "loop" THEN k[p] + 1 ELSE k[p]), job[p])
      BY <1>17, <1>t, <2>1 DEF ControlFor, Kind
    <2>10. (IF pc'[p] = "loop" THEN "loop" ELSE "authRename") \in Labels
      BY DEF Labels
    <2> QED BY <1>t, <2>4, <2>5, <2>6, <2>7, <2>8, <2>9, <2>10, StepKept
  <1>18. CASE AuthRename(p)
    <2>1. k[p] <= Len(req[p].required) /\ Kind(p) = "auth" /\ job[p] = "seed"
      BY <1>18, <1>t DEF AuthRename, Control, Kind
    <2>2. "preparation_failed" \in Codes
      BY DEF Codes
    <2>3. /\ ResultTypes
          /\ \/ /\ pc' = [pc EXCEPT ![p] = "loop"]
                /\ k' = [k EXCEPT ![p] = k[p] + 1]
      <3>1. CASE Diagnose(p, "preparation_failed")
        BY <1>t, <2>1, <2>2, <3>1, DiagnoseStep
      <3>2. CASE Perform(p)
        BY <1>t, <2>1, <3>2, PerformStep
      <3> QED BY <1>18, <3>1, <3>2 DEF AuthRename
    <2>4. MovesTo(p, "loop", k[p] + 1, job[p])
      BY <1>18, <1>t, <2>3 DEF AuthRename, MovesTo, Goto, Next1
    <2>5. HostTypes
      <3>1. faults' \in 0..MaxFaults /\ litter' \subseteq Preps \X {"lock", "config", "auth"}
        BY <1>18, <1>t, <1>i, <1>y DEF AuthRename, TypeOK
      <3>2. temps' \subseteq Preps \X {"config", "auth"}
        BY <1>18, <1>t DEF AuthRename, TypeOK, Request
      <3>3. auth' \in [Dirs -> {"absent", "issued", "refreshed"}]
        BY <1>18, <1>t DEF AuthRename, TypeOK, Request
      <3> QED BY <1>18, <1>t, <3>1, <3>2, <3>3 DEF AuthRename, TypeOK, HostTypes
    <2>6. LocalTypes
      BY <1>18, <1>v DEF AuthRename
    <2>7. ResultTypes
      BY <2>3
    <2>8. CleanTypes
      BY <1>18, <1>x DEF AuthRename
    <2>9. ControlFor(p, "loop", k[p] + 1, job[p])
      BY <1>18, <1>t, <2>1 DEF ControlFor, Kind
    <2>10. "loop" \in Labels
      BY DEF Labels
    <2> QED BY <1>t, <2>4, <2>5, <2>6, <2>7, <2>8, <2>9, <2>10, StepKept
  <1>19. CASE AuthRead(p)
    <2>1. /\ ResultTypes /\ CleanTypes
          /\ \/ /\ pc' = [pc EXCEPT ![p] = "clean"]
                /\ k' = [k EXCEPT ![p] = k[p] + 1]
             \/ pc' = [pc EXCEPT ![p] = "authRemove"] /\ k' = k
      <3>1. ASSUME NEW error \in BOOLEAN, ClosureDone(p, error)
            PROVE  /\ ResultTypes /\ CleanTypes
                   /\ pc' = [pc EXCEPT ![p] = "clean"]
                   /\ k' = [k EXCEPT ![p] = k[p] + 1]
        BY <1>t, <3>1, ClosureStep
      <3>2. CASE Goto(p, "authRemove") /\ UNCHANGED <<k, resultVars, cleanVars>>
        BY <1>w, <1>x, <3>2 DEF Goto
      <3> QED BY <1>19, <3>1, <3>2 DEF AuthRead
    <2>2. MovesTo(p, (IF pc'[p] = "clean" THEN "clean" ELSE "authRemove"), (IF pc'[p] = "clean" THEN k[p] + 1 ELSE k[p]), job[p])
      BY <1>19, <1>t, <2>1 DEF AuthRead, MovesTo, Goto, Next1, TypeOK
    <2>3. HostTypes
      BY <1>19, <1>t, <1>y DEF AuthRead, TypeOK, HostTypes
    <2>4. LocalTypes
      BY <1>19, <1>v DEF AuthRead
    <2>5. ResultTypes
      BY <2>1
    <2>6. CleanTypes
      BY <2>1
    <2>7. ControlFor(p, (IF pc'[p] = "clean" THEN "clean" ELSE "authRemove"), (IF pc'[p] = "clean" THEN k[p] + 1 ELSE k[p]), job[p])
      BY <1>19, <1>t DEF AuthRead, Control, ControlFor, InTrust
    <2>8. (IF pc'[p] = "clean" THEN "clean" ELSE "authRemove") \in Labels
      BY DEF Labels
    <2> QED BY <1>t, <2>2, <2>3, <2>4, <2>5, <2>6, <2>7, <2>8, StepKept
  <1>20. CASE AuthRemove(p)
    <2>1. /\ ResultTypes /\ CleanTypes
          /\ pc' = [pc EXCEPT ![p] = "clean"]
          /\ k' = [k EXCEPT ![p] = k[p] + 1]
      BY <1>20, <1>t, ClosureStep DEF AuthRemove
    <2>2. MovesTo(p, "clean", k[p] + 1, job[p])
      BY <1>20, <1>t, <2>1 DEF AuthRemove, MovesTo, Goto, Next1
    <2>3. HostTypes
      <3>1. faults' \in 0..MaxFaults
        BY <1>20, <1>y DEF AuthRemove
      <3>2. auth' \in [Dirs -> {"absent", "issued", "refreshed"}]
        BY <1>20, <1>t DEF AuthRemove, TypeOK, Request
      <3> QED BY <1>20, <1>t, <3>1, <3>2 DEF AuthRemove, TypeOK, HostTypes
    <2>4. LocalTypes
      BY <1>20, <1>v DEF AuthRemove
    <2>5. ResultTypes
      BY <2>1
    <2>6. CleanTypes
      BY <2>1
    <2>7. ControlFor(p, "clean", k[p] + 1, job[p])
      BY <1>20, <1>t DEF AuthRemove, Control, ControlFor, InTrust
    <2>8. "clean" \in Labels
      BY DEF Labels
    <2> QED BY <1>t, <2>2, <2>3, <2>4, <2>5, <2>6, <2>7, <2>8, StepKept
  <1> QED BY <1>1, <1>2, <1>3, <1>4, <1>5, <1>6, <1>7, <1>8, <1>9, <1>10, <1>11, <1>12, <1>13, <1>14, <1>15, <1>16, <1>17, <1>18, <1>19, <1>20 DEF Step

LEMMA OutsideCorrect ==
  ASSUME PrepInv, Outside
  PROVE  PrepInv'
  <1>1. PICK d \in Dirs : ClaudeWrites(d) \/ CodexRefreshes(d) \/ RemoveDir(d)
    BY DEF Outside
  <1>2. CASE ClaudeWrites(d)
    <2> DEFINE key == KeyOf(d, present)
    <2>1. key \in Keys
      BY KeyType
    <2>2. config.projects[key] \union {"own"} \in Entries
      BY <1>2, <2>1 DEF ClaudeWrites, PrepInv, TypeOK, Configs, Entries
    <2>3. config' = [form |-> "object",
                     projects |-> [config.projects EXCEPT ![key] = @ \union {"own"}]]
      BY <1>2 DEF ClaudeWrites
    <2>4. config' \in Configs
      BY <2>1, <2>2, <2>3 DEF PrepInv, TypeOK, Configs, Forms
    <2>5. news' \in [Preps -> SUBSET Keys]
      <3>1. news' = [p \in Preps |-> IF Drafting(p) THEN news[p] \union {key} ELSE news[p]]
        BY <1>2 DEF ClaudeWrites
      <3> HIDE DEF key
      <3> QED BY <2>1, <3>1 DEF PrepInv, TypeOK
    <2> QED BY <1>2, <2>4, <2>5
            DEF ClaudeWrites, PrepInv, TypeOK, Control, InTrust, resultVars, cleanVars
  <1>3. CASE CodexRefreshes(d)
    BY <1>3 DEF CodexRefreshes, PrepInv, TypeOK, Control, InTrust, localVars, resultVars, cleanVars
  <1>4. CASE RemoveDir(d)
    BY <1>4 DEF RemoveDir, PrepInv, TypeOK, Control, InTrust, localVars, resultVars, cleanVars
  <1> QED BY <1>1, <1>2, <1>3, <1>4

LEMMA StutterCorrect ==
  ASSUME PrepInv, UNCHANGED vars
  PROVE  PrepInv'
  BY DEF PrepInv, TypeOK, Control, InTrust, vars, hostVars, localVars, resultVars, cleanVars

LEMMA NextCorrect ==
  ASSUME PrepInv, [Next]_vars
  PROVE  PrepInv'
  BY StepCorrect, OutsideCorrect, StutterCorrect DEF Next

\* PrepareRuntime and Cleanup keep every variable's type, whatever fails or crashes.
THEOREM PreparationTypes == Spec => []TypeOK
  <1>1. Init => PrepInv
    BY InitCorrect
  <1>2. PrepInv /\ [Next]_vars => PrepInv'
    BY NextCorrect
  <1>3. PrepInv => TypeOK
    BY DEF PrepInv
  <1> QED BY <1>1, <1>2, <1>3, PTL DEF Spec

-----------------------------------------------------------------------------
(* The lock file.                                                          *)

TempsInv ==
  \A p \in Preps :
    /\ <<p, "config">> \in temps => pc[p] \in {"rename", "gone"}
    /\ <<p, "auth">> \in temps => pc[p] \in {"authRename", "gone"}

LockInv ==
  /\ \A p \in Preps : Inside(p) => lock = p
  /\ lock # Free => Inside(lock) \/ pc[lock] = "gone" \/ <<lock, "lock">> \in litter
  /\ TempsInv

LEMMA LockInvSuffices ==
  ASSUME TypeOK, LockInv
  PROVE  LockDiscipline
  <1>1. ASSUME NEW t \in temps PROVE pc[t[1]] \in {"rename", "authRename", "gone"}
    <2>1. PICK p \in Preps, what \in {"config", "auth"} : t = <<p, what>>
      BY <1>1 DEF TypeOK
    <2> QED BY <1>1, <2>1 DEF LockInv, TempsInv
  <1> QED BY <1>1 DEF LockInv, LockDiscipline

\* What a step of p may do to the lock file: leave it, make it, remove it or fail to; ...
LockMove(p) ==
  /\ \A q \in Preps : <<q, "lock">> \in litter => <<q, "lock">> \in litter'
  /\ \/ lock' = lock /\ (Inside(p)' = Inside(p) \/ pc'[p] = "gone") /\ pc[p] # "gone"
     \/ lock = Free /\ lock' = p /\ Inside(p)'
     \/ lock = p /\ lock' = Free /\ ~Inside(p)'
     \/ lock = p /\ lock' = p /\ ~Inside(p)' /\ <<p, "lock">> \in litter'

\* ... and to the temporary files.
TempsMove(p) ==
  /\ \A q \in Preps \ {p}, what \in {"config", "auth"} :
       <<q, what>> \in temps' => <<q, what>> \in temps
  /\ <<p, "config">> \in temps' => pc'[p] \in {"rename", "gone"}
  /\ <<p, "auth">> \in temps' => pc'[p] \in {"authRename", "gone"}

LEMMA LockKept ==
  ASSUME PrepInv, LockInv, NEW p \in Preps, pc' = [pc EXCEPT ![p] = pc'[p]],
         LockMove(p), TempsMove(p)
  PROVE  LockInv'
  <1>1. \A q \in Preps \ {p} : pc'[q] = pc[q]
    BY DEF PrepInv, TypeOK
  <1>2. TempsInv'
    BY <1>1 DEF TempsInv, TempsMove, LockInv
  <1>3. lock \in Preps \union {Free} /\ Free \notin Preps
    BY PreparationAssumption DEF PrepInv, TypeOK
  <1>4. CASE lock' = lock /\ (Inside(p)' = Inside(p) \/ pc'[p] = "gone") /\ pc[p] # "gone"
    BY <1>1, <1>2, <1>3, <1>4 DEF LockInv, LockMove, Inside
  <1>5. CASE lock = Free /\ lock' = p /\ Inside(p)'
    BY <1>1, <1>2, <1>3, <1>5 DEF LockInv, LockMove, Inside
  <1>6. CASE lock = p /\ lock' = Free /\ ~Inside(p)'
    BY <1>1, <1>2, <1>3, <1>6 DEF LockInv, LockMove, Inside
  <1>7. CASE lock = p /\ lock' = p /\ ~Inside(p)' /\ <<p, "lock">> \in litter'
    BY <1>1, <1>2, <1>3, <1>7 DEF LockInv, LockMove, Inside
  <1> QED BY <1>4, <1>5, <1>6, <1>7 DEF LockMove

LEMMA StepLock ==
  ASSUME PrepInv, LockInv, NEW p \in Preps, Call(p) \/ Step(p) \/ CallCleanup(p) \/ Crash(p)
  PROVE  LockInv'
  <1>s. pc' = [pc EXCEPT ![p] = pc'[p]]
    BY StepCorrect
  <1>t. /\ pc \in [Preps -> Labels] /\ (Inside(p) => lock = p)
        /\ <<p, "config">> \in temps => pc[p] \in {"rename", "gone"}
        /\ <<p, "auth">> \in temps => pc[p] \in {"authRename", "gone"}
    BY DEF PrepInv, TypeOK, LockInv, TempsInv
  <1>1. CASE Call(p)
    <2>1. LockMove(p)
      BY <1>1, <1>t DEF Call, LockMove, Inside, Goto, hostVars
    <2>2. TempsMove(p)
      BY <1>1, <1>t DEF Call, TempsMove, Goto, hostVars
    <2> QED BY <1>s, <2>1, <2>2, LockKept
  <1>2. CASE Refuse(p)
    <2>1. LockMove(p)
      BY <1>2, <1>t DEF Refuse, LockMove, Inside, Goto, hostVars, Diagnose, InLoop
    <2>2. TempsMove(p)
      BY <1>2, <1>t DEF Refuse, TempsMove, Goto, hostVars, Diagnose, InLoop
    <2> QED BY <1>s, <2>1, <2>2, LockKept
  <1>3. CASE BeginEffect(p)
    <2>1. LockMove(p)
      BY <1>3, <1>t DEF BeginEffect, LockMove, Inside, Goto, hostVars, InLoop
    <2>2. TempsMove(p)
      BY <1>3, <1>t DEF BeginEffect, TempsMove, Goto, hostVars, InLoop
    <2> QED BY <1>s, <2>1, <2>2, LockKept
  <1>4. CASE Return(p)
    <2>1. LockMove(p)
      BY <1>4, <1>t DEF Return, LockMove, Inside, Goto, hostVars
    <2>2. TempsMove(p)
      BY <1>4, <1>t DEF Return, TempsMove, Goto, hostVars
    <2> QED BY <1>s, <2>1, <2>2, LockKept
  <1>5. CASE Acquire(p)
    <2>1. LockMove(p)
      BY <1>5, <1>t DEF Acquire, LockMove, Inside, Goto, hostVars
    <2>2. TempsMove(p)
      BY <1>5, <1>t DEF Acquire, TempsMove, Goto, hostVars
    <2> QED BY <1>s, <2>1, <2>2, LockKept
  <1>6. CASE GiveUp(p)
    <2>1. LockMove(p)
      BY <1>6, <1>t DEF GiveUp, LockMove, Inside, Goto, hostVars, TrustDone, ClosureDone, Diagnose, Perform
    <2>2. TempsMove(p)
      BY <1>6, <1>t DEF GiveUp, TempsMove, Goto, hostVars, TrustDone, ClosureDone, Diagnose, Perform
    <2> QED BY <1>s, <2>1, <2>2, LockKept
  <1>7. CASE Unlock(p)
    <2>1. LockMove(p)
      <3>1. lock = p /\ ~Inside(p)'
        BY <1>7, <1>t DEF Unlock, Inside, Goto, TrustDone, ClosureDone, Diagnose, Perform
      <3>2. \/ lock' = Free /\ litter' = litter
            \/ lock' = lock /\ litter' = litter \union {<<p, "lock">>}
        BY <1>7 DEF Unlock, RemoveLock, LeftBehind
      <3> QED BY <3>1, <3>2 DEF LockMove
    <2>2. TempsMove(p)
      BY <1>7, <1>t DEF Unlock, TempsMove, Goto, hostVars, TrustDone, ClosureDone, Diagnose, Perform
    <2> QED BY <1>s, <2>1, <2>2, LockKept
  <1>8. CASE ReadToSeed(p)
    <2>1. LockMove(p)
      BY <1>8, <1>t DEF ReadToSeed, LockMove, Inside, Goto, hostVars, LeaveConfig, Rewrite
    <2>2. TempsMove(p)
      BY <1>8, <1>t DEF ReadToSeed, TempsMove, Goto, hostVars, LeaveConfig, Rewrite
    <2> QED BY <1>s, <2>1, <2>2, LockKept
  <1>9. CASE SeedPanics(p)
    <2>1. LockMove(p)
      <3>1. lock = p /\ ~Inside(p)'
        BY <1>9, <1>t DEF SeedPanics, Inside, Goto
      <3>2. \/ lock' = Free /\ litter' = litter
            \/ lock' = lock /\ litter' = litter \union {<<p, "lock">>}
        BY <1>9 DEF SeedPanics, RemoveLock, LeftBehind
      <3> QED BY <3>1, <3>2 DEF LockMove
    <2>2. TempsMove(p)
      BY <1>9, <1>t DEF SeedPanics, TempsMove, Goto, hostVars
    <2> QED BY <1>s, <2>1, <2>2, LockKept
  <1>10. CASE ReadToDrop(p)
    <2>1. LockMove(p)
      BY <1>10, <1>t DEF ReadToDrop, LockMove, Inside, Goto, hostVars, LeaveConfig, Rewrite
    <2>2. TempsMove(p)
      BY <1>10, <1>t DEF ReadToDrop, TempsMove, Goto, hostVars, LeaveConfig, Rewrite
    <2> QED BY <1>s, <2>1, <2>2, LockKept
  <1>11. CASE WriteTemp(p)
    <2>1. LockMove(p)
      BY <1>11, <1>t DEF WriteTemp, LockMove, Inside, Goto, hostVars, LeaveConfig
    <2>2. TempsMove(p)
      BY <1>11, <1>t DEF WriteTemp, TempsMove, Goto, hostVars, LeaveConfig
    <2> QED BY <1>s, <2>1, <2>2, LockKept
  <1>12. CASE Rename(p)
    <2>1. LockMove(p)
      BY <1>12, <1>t DEF Rename, LockMove, Inside, Goto, hostVars, LeaveConfig, DropTemp, LeftBehind
    <2>2. TempsMove(p)
      BY <1>12, <1>t DEF Rename, TempsMove, Goto, hostVars, LeaveConfig
    <2> QED BY <1>s, <2>1, <2>2, LockKept
  <1>13. CASE AuthTemp(p)
    <2>1. LockMove(p)
      BY <1>13, <1>t DEF AuthTemp, LockMove, Inside, Goto, hostVars, Diagnose
    <2>2. TempsMove(p)
      BY <1>13, <1>t DEF AuthTemp, TempsMove, Goto, hostVars, Diagnose
    <2> QED BY <1>s, <2>1, <2>2, LockKept
  <1>14. CASE AuthRename(p)
    <2>1. LockMove(p)
      BY <1>14, <1>t DEF AuthRename, LockMove, Inside, Goto, hostVars, Diagnose, Perform, DropTemp,
           LeftBehind
    <2>2. TempsMove(p)
      BY <1>14, <1>t DEF AuthRename, TempsMove, Goto, hostVars, Diagnose, Perform
    <2> QED BY <1>s, <2>1, <2>2, LockKept
  <1>15. CASE CallCleanup(p)
    <2>1. LockMove(p)
      BY <1>15, <1>t DEF CallCleanup, LockMove, Inside, Goto, hostVars
    <2>2. TempsMove(p)
      BY <1>15, <1>t DEF CallCleanup, TempsMove, Goto, hostVars
    <2> QED BY <1>s, <2>1, <2>2, LockKept
  <1>16. CASE RunClosure(p)
    <2>1. LockMove(p)
      BY <1>16, <1>t DEF RunClosure, LockMove, Inside, Goto, hostVars
    <2>2. TempsMove(p)
      BY <1>16, <1>t DEF RunClosure, TempsMove, Goto, hostVars
    <2> QED BY <1>s, <2>1, <2>2, LockKept
  <1>17. CASE CleanupReturns(p)
    <2>1. LockMove(p)
      BY <1>17, <1>t DEF CleanupReturns, LockMove, Inside, Goto, hostVars
    <2>2. TempsMove(p)
      BY <1>17, <1>t DEF CleanupReturns, TempsMove, Goto, hostVars
    <2> QED BY <1>s, <2>1, <2>2, LockKept
  <1>18. CASE AuthRead(p)
    <2>1. LockMove(p)
      BY <1>18, <1>t DEF AuthRead, LockMove, Inside, Goto, hostVars, ClosureDone
    <2>2. TempsMove(p)
      BY <1>18, <1>t DEF AuthRead, TempsMove, Goto, hostVars, ClosureDone
    <2> QED BY <1>s, <2>1, <2>2, LockKept
  <1>19. CASE AuthRemove(p)
    <2>1. LockMove(p)
      BY <1>19, <1>t DEF AuthRemove, LockMove, Inside, Goto, hostVars, ClosureDone
    <2>2. TempsMove(p)
      BY <1>19, <1>t DEF AuthRemove, TempsMove, Goto, hostVars, ClosureDone
    <2> QED BY <1>s, <2>1, <2>2, LockKept
  <1>20. CASE Crash(p)
    <2>1. LockMove(p)
      BY <1>20, <1>t DEF Crash, LockMove, Inside, Goto, hostVars
    <2>2. TempsMove(p)
      BY <1>20, <1>t DEF Crash, TempsMove, Goto, hostVars
    <2> QED BY <1>s, <2>1, <2>2, LockKept
  <1> QED BY <1>1, <1>2, <1>3, <1>4, <1>5, <1>6, <1>7, <1>8, <1>9, <1>10, <1>11, <1>12, <1>13, <1>14, <1>15, <1>16, <1>17, <1>18, <1>19, <1>20 DEF Step

LEMMA OtherLock ==
  ASSUME PrepInv, LockInv, Outside \/ UNCHANGED vars
  PROVE  LockInv'
  BY DEF Outside, ClaudeWrites, CodexRefreshes, RemoveDir, LockInv, TempsInv, Inside,
         vars, hostVars

LEMMA NextLock ==
  ASSUME PrepInv, LockInv, [Next]_vars
  PROVE  LockInv'
  BY StepLock, OtherLock DEF Next

\* withClaudeConfigLock: whatever fails, whoever gives up or crashes, no two processes
\* are ever inside, and only a crash or a removal that fails itself leaves a lock file
\* or a temporary file behind.
THEOREM LockIsHeld == Spec => []LockDiscipline
  <1>1. Init => PrepInv /\ LockInv
    BY InitCorrect DEF Init, LockInv, TempsInv, Inside
  <1>2. PrepInv /\ LockInv /\ [Next]_vars => PrepInv' /\ LockInv'
    BY NextCorrect, NextLock
  <1>3. PrepInv /\ LockInv => LockDiscipline
    BY LockInvSuffices DEF PrepInv
  <1> QED BY <1>1, <1>2, <1>3, PTL DEF Spec

-----------------------------------------------------------------------------
(* What belongs to the user.                                               *)

\* c, but for fields of claude's own of the keys `since`, is all kept in new.
Keeps(c, new, since) ==
  \A key \in Keys :
    /\ c.projects[key] = {"scalar"} => new.projects[key] = {"scalar"}
    /\ "own" \in c.projects[key] => "own" \in new.projects[key] \/ key \in since

\* What a process is about to put in the place of ~/.claude.json keeps all of it but
\* what claude has written since: its lock keeps the other preparations away.
DraftKeeps(p) == Drafting(p) => ~Unreadable(config) /\ Keeps(config, draft[p], news[p])

DraftInv == \A p \in Preps : DraftKeeps(p)

\* What UserDataIsKept says of a step.
StepIsKind ==
  /\ Unreadable(config) => config' = config
  /\ \A key \in Keys :
       /\ config.projects[key] = {"scalar"} => config'.projects[key] = {"scalar"}
       /\ "own" \in config.projects[key] =>
            \/ "own" \in config'.projects[key]
            \/ \E p \in Preps : Replaces(p) /\ key \in news[p]

LEMMA SeededKeeps ==
  ASSUME NEW c \in Configs, NEW key \in Keys, ~SeedRefused(c, key), NEW since
  PROVE  ~Unreadable(c) /\ Keeps(c, Seeded(c, key), since)
  <1>1. ~Unreadable(c) /\ c.projects[key] # {"scalar"}
    BY DEF SeedRefused
  <1>2. \A other \in Keys :
          Seeded(c, key).projects[other] =
            IF other = key THEN c.projects[key] \union Ours ELSE c.projects[other]
    BY DEF Seeded, Configs
  <1> QED BY <1>1, <1>2 DEF Keeps

LEMMA RemovedKeeps ==
  ASSUME NEW c \in Configs, NEW key \in Keys, c.form = "object",
         PreparationOnly(c.projects[key]), NEW since
  PROVE  ~Unreadable(c) /\ Keeps(c, Removed(c, key), since)
  <1>1. ~Unreadable(c)
    BY DEF Unreadable
  <1>2. c.projects[key] # {"scalar"} /\ "own" \notin c.projects[key]
    BY DEF PreparationOnly, Ours
  <1>3. \A other \in Keys :
          Removed(c, key).projects[other] = IF other = key THEN {} ELSE c.projects[other]
    BY DEF Removed, Configs
  <1> QED BY <1>1, <1>2, <1>3 DEF Keeps

\* A step that touches neither the file nor a draft about to be written.
LEMMA DraftKept ==
  ASSUME PrepInv, DraftInv, NEW p \in Preps, pc' = [pc EXCEPT ![p] = pc'[p]],
         config' = config,
         \A q \in Preps \ {p} : draft'[q] = draft[q] /\ news'[q] = news[q],
         Drafting(p)' => Drafting(p) /\ draft'[p] = draft[p] /\ news'[p] = news[p]
  PROVE  DraftInv' /\ StepIsKind
  <1>1. \A q \in Preps \ {p} : pc'[q] = pc[q]
    BY DEF PrepInv, TypeOK
  <1>2. \A q \in Preps : Drafting(q)' => /\ Drafting(q) /\ draft'[q] = draft[q]
                                         /\ news'[q] = news[q]
    BY <1>1 DEF Drafting
  <1>3. DraftInv'
    BY <1>2 DEF DraftInv, DraftKeeps, Keeps, Unreadable
  <1>4. StepIsKind
    BY DEF StepIsKind
  <1> QED BY <1>3, <1>4

LEMMA StepKeeps ==
  ASSUME PrepInv, LockInv, DraftInv, NEW p \in Preps,
         Call(p) \/ Step(p) \/ CallCleanup(p) \/ Crash(p)
  PROVE  DraftInv' /\ StepIsKind
  <1>s. pc' = [pc EXCEPT ![p] = pc'[p]]
    BY StepCorrect
  <1>t. /\ pc \in [Preps -> Labels] /\ draft \in [Preps -> Configs] /\ config \in Configs
        /\ DOMAIN news = Preps /\ Key(p) \in Keys
    BY KeyType DEF PrepInv, TypeOK, Key, Request
  <1>v. \A q \in Preps \ {p} : pc'[q] = pc[q]
    BY <1>s, <1>t
  <1>1. CASE Call(p)
    <2>1. config' = config /\ \A q \in Preps \ {p} : draft'[q] = draft[q] /\ news'[q] = news[q]
      BY <1>1, <1>t DEF Call, hostVars, localVars
    <2>2. Drafting(p)' => Drafting(p) /\ draft'[p] = draft[p] /\ news'[p] = news[p]
      BY <1>1, <1>t DEF Call, Goto, Drafting, localVars
    <2> QED BY <1>s, <2>1, <2>2, DraftKept
  <1>2. CASE Refuse(p)
    <2>1. config' = config /\ \A q \in Preps \ {p} : draft'[q] = draft[q] /\ news'[q] = news[q]
      BY <1>2, <1>t DEF Refuse, hostVars, localVars
    <2>2. Drafting(p)' => Drafting(p) /\ draft'[p] = draft[p] /\ news'[p] = news[p]
      BY <1>2, <1>t DEF Refuse, Goto, Diagnose, InLoop, Drafting, localVars
    <2> QED BY <1>s, <2>1, <2>2, DraftKept
  <1>3. CASE BeginEffect(p)
    <2>1. config' = config /\ \A q \in Preps \ {p} : draft'[q] = draft[q] /\ news'[q] = news[q]
      BY <1>3, <1>t DEF BeginEffect, hostVars, localVars
    <2>2. Drafting(p)' => Drafting(p) /\ draft'[p] = draft[p] /\ news'[p] = news[p]
      BY <1>3, <1>t DEF BeginEffect, Goto, InLoop, Drafting, localVars
    <2> QED BY <1>s, <2>1, <2>2, DraftKept
  <1>4. CASE Return(p)
    <2>1. config' = config /\ \A q \in Preps \ {p} : draft'[q] = draft[q] /\ news'[q] = news[q]
      BY <1>4, <1>t DEF Return, hostVars, localVars
    <2>2. Drafting(p)' => Drafting(p) /\ draft'[p] = draft[p] /\ news'[p] = news[p]
      BY <1>4, <1>t DEF Return, Goto, Drafting, localVars
    <2> QED BY <1>s, <2>1, <2>2, DraftKept
  <1>5. CASE Acquire(p)
    <2>1. config' = config /\ \A q \in Preps \ {p} : draft'[q] = draft[q] /\ news'[q] = news[q]
      BY <1>5, <1>t DEF Acquire, hostVars, localVars
    <2>2. Drafting(p)' => Drafting(p) /\ draft'[p] = draft[p] /\ news'[p] = news[p]
      BY <1>5, <1>t DEF Acquire, Goto, Drafting, localVars
    <2> QED BY <1>s, <2>1, <2>2, DraftKept
  <1>6. CASE GiveUp(p)
    <2>1. config' = config /\ \A q \in Preps \ {p} : draft'[q] = draft[q] /\ news'[q] = news[q]
      BY <1>6, <1>t DEF GiveUp, hostVars, localVars
    <2>2. Drafting(p)' => Drafting(p) /\ draft'[p] = draft[p] /\ news'[p] = news[p]
      BY <1>6, <1>t DEF GiveUp, Goto, TrustDone, ClosureDone, Diagnose, Perform, Drafting, localVars
    <2> QED BY <1>s, <2>1, <2>2, DraftKept
  <1>7. CASE Unlock(p)
    <2>1. config' = config /\ \A q \in Preps \ {p} : draft'[q] = draft[q] /\ news'[q] = news[q]
      BY <1>7, <1>t DEF Unlock, hostVars, localVars
    <2>2. Drafting(p)' => Drafting(p) /\ draft'[p] = draft[p] /\ news'[p] = news[p]
      BY <1>7, <1>t DEF Unlock, Goto, TrustDone, ClosureDone, Diagnose, Perform, Drafting, localVars
    <2> QED BY <1>s, <2>1, <2>2, DraftKept
  <1>8. CASE SeedPanics(p)
    <2>1. config' = config /\ \A q \in Preps \ {p} : draft'[q] = draft[q] /\ news'[q] = news[q]
      BY <1>8, <1>t DEF SeedPanics, hostVars, localVars
    <2>2. Drafting(p)' => Drafting(p) /\ draft'[p] = draft[p] /\ news'[p] = news[p]
      BY <1>8, <1>t DEF SeedPanics, Goto, Drafting, localVars
    <2> QED BY <1>s, <2>1, <2>2, DraftKept
  <1>9. CASE WriteTemp(p)
    <2>1. config' = config /\ \A q \in Preps \ {p} : draft'[q] = draft[q] /\ news'[q] = news[q]
      BY <1>9, <1>t DEF WriteTemp, hostVars, localVars
    <2>2. Drafting(p)' => Drafting(p) /\ draft'[p] = draft[p] /\ news'[p] = news[p]
      BY <1>9, <1>t DEF WriteTemp, Goto, LeaveConfig, Drafting, localVars
    <2> QED BY <1>s, <2>1, <2>2, DraftKept
  <1>10. CASE AuthTemp(p)
    <2>1. config' = config /\ \A q \in Preps \ {p} : draft'[q] = draft[q] /\ news'[q] = news[q]
      BY <1>10, <1>t DEF AuthTemp, hostVars, localVars
    <2>2. Drafting(p)' => Drafting(p) /\ draft'[p] = draft[p] /\ news'[p] = news[p]
      BY <1>10, <1>t DEF AuthTemp, Goto, Diagnose, Drafting, localVars
    <2> QED BY <1>s, <2>1, <2>2, DraftKept
  <1>11. CASE AuthRename(p)
    <2>1. config' = config /\ \A q \in Preps \ {p} : draft'[q] = draft[q] /\ news'[q] = news[q]
      BY <1>11, <1>t DEF AuthRename, hostVars, localVars
    <2>2. Drafting(p)' => Drafting(p) /\ draft'[p] = draft[p] /\ news'[p] = news[p]
      BY <1>11, <1>t DEF AuthRename, Goto, Diagnose, Perform, Drafting, localVars
    <2> QED BY <1>s, <2>1, <2>2, DraftKept
  <1>12. CASE CallCleanup(p)
    <2>1. config' = config /\ \A q \in Preps \ {p} : draft'[q] = draft[q] /\ news'[q] = news[q]
      BY <1>12, <1>t DEF CallCleanup, hostVars, localVars
    <2>2. Drafting(p)' => Drafting(p) /\ draft'[p] = draft[p] /\ news'[p] = news[p]
      BY <1>12, <1>t DEF CallCleanup, Goto, Drafting, localVars
    <2> QED BY <1>s, <2>1, <2>2, DraftKept
  <1>13. CASE RunClosure(p)
    <2>1. config' = config /\ \A q \in Preps \ {p} : draft'[q] = draft[q] /\ news'[q] = news[q]
      BY <1>13, <1>t DEF RunClosure, hostVars, localVars
    <2>2. Drafting(p)' => Drafting(p) /\ draft'[p] = draft[p] /\ news'[p] = news[p]
      BY <1>13, <1>t DEF RunClosure, Goto, Drafting, localVars
    <2> QED BY <1>s, <2>1, <2>2, DraftKept
  <1>14. CASE CleanupReturns(p)
    <2>1. config' = config /\ \A q \in Preps \ {p} : draft'[q] = draft[q] /\ news'[q] = news[q]
      BY <1>14, <1>t DEF CleanupReturns, hostVars, localVars
    <2>2. Drafting(p)' => Drafting(p) /\ draft'[p] = draft[p] /\ news'[p] = news[p]
      BY <1>14, <1>t DEF CleanupReturns, Goto, Drafting, localVars
    <2> QED BY <1>s, <2>1, <2>2, DraftKept
  <1>15. CASE AuthRead(p)
    <2>1. config' = config /\ \A q \in Preps \ {p} : draft'[q] = draft[q] /\ news'[q] = news[q]
      BY <1>15, <1>t DEF AuthRead, hostVars, localVars
    <2>2. Drafting(p)' => Drafting(p) /\ draft'[p] = draft[p] /\ news'[p] = news[p]
      BY <1>15, <1>t DEF AuthRead, Goto, ClosureDone, Drafting, localVars
    <2> QED BY <1>s, <2>1, <2>2, DraftKept
  <1>16. CASE AuthRemove(p)
    <2>1. config' = config /\ \A q \in Preps \ {p} : draft'[q] = draft[q] /\ news'[q] = news[q]
      BY <1>16, <1>t DEF AuthRemove, hostVars, localVars
    <2>2. Drafting(p)' => Drafting(p) /\ draft'[p] = draft[p] /\ news'[p] = news[p]
      BY <1>16, <1>t DEF AuthRemove, Goto, ClosureDone, Drafting, localVars
    <2> QED BY <1>s, <2>1, <2>2, DraftKept
  <1>17. CASE Crash(p)
    <2>1. config' = config /\ \A q \in Preps \ {p} : draft'[q] = draft[q] /\ news'[q] = news[q]
      BY <1>17, <1>t DEF Crash, hostVars, localVars
    <2>2. Drafting(p)' => Drafting(p) /\ draft'[p] = draft[p] /\ news'[p] = news[p]
      BY <1>17, <1>t DEF Crash, Goto, Drafting, localVars
    <2> QED BY <1>s, <2>1, <2>2, DraftKept
  <1>18. CASE ReadToSeed(p)
    <2>1. /\ config' = config /\ news' = news
          /\ \A q \in Preps \ {p} : draft'[q] = draft[q]
      BY <1>18, <1>t DEF ReadToSeed, Rewrite
    <2>2. Drafting(p)' =>
            ~SeedRefused(config, Key(p)) /\ draft'[p] = Seeded(config, Key(p))
      BY <1>18, <1>t DEF ReadToSeed, LeaveConfig, Rewrite, Goto, Drafting
    <2>3. DraftKeeps(p)'
      <3> SUFFICES ASSUME Drafting(p)'
                   PROVE  ~Unreadable(config') /\ Keeps(config', draft'[p], news'[p])
        BY DEF DraftKeeps
      <3>1. ~Unreadable(config) /\ Keeps(config, Seeded(config, Key(p)), news[p])
        BY <1>t, <2>2, SeededKeeps
      <3> QED BY <2>1, <2>2, <3>1 DEF Unreadable, Keeps
    <2> QED BY <1>v, <2>1, <2>3 DEF DraftInv, DraftKeeps, Drafting, Keeps, Unreadable, StepIsKind
  <1>19. CASE ReadToDrop(p)
    <2>1. /\ config' = config /\ news' = news
          /\ \A q \in Preps \ {p} : draft'[q] = draft[q]
      BY <1>19, <1>t DEF ReadToDrop, Rewrite
    <2>2. Drafting(p)' =>
            /\ config.form = "object" /\ PreparationOnly(config.projects[Key(p)])
            /\ draft'[p] = Removed(config, Key(p))
      BY <1>19, <1>t DEF ReadToDrop, LeaveConfig, Rewrite, Goto, Drafting
    <2>3. DraftKeeps(p)'
      <3> SUFFICES ASSUME Drafting(p)'
                   PROVE  ~Unreadable(config') /\ Keeps(config', draft'[p], news'[p])
        BY DEF DraftKeeps
      <3>1. ~Unreadable(config) /\ Keeps(config, Removed(config, Key(p)), news[p])
        BY <1>t, <2>2, RemovedKeeps
      <3> QED BY <2>1, <2>2, <3>1 DEF Unreadable, Keeps
    <2> QED BY <1>v, <2>1, <2>3 DEF DraftInv, DraftKeeps, Drafting, Keeps, Unreadable, StepIsKind
  <1>20. CASE Rename(p)
    <2>1. config' = config \/ config' = draft[p]
      BY <1>20 DEF Rename
    <2>2. pc[p] = "rename" /\ pc'[p] = "unlock"
      BY <1>20, <1>t DEF Rename, LeaveConfig, Goto
    <2>3. StepIsKind
      <3>1. Replaces(p) /\ ~Unreadable(config) /\ Keeps(config, draft[p], news[p])
        BY <2>2 DEF Replaces, DraftInv, DraftKeeps, Drafting
      <3> QED BY <2>1, <3>1 DEF StepIsKind, Keeps
    <2>4. \A q \in Preps : ~Drafting(q)'
      BY <1>v, <2>2 DEF LockInv, Inside, Drafting
    <2> QED BY <2>3, <2>4 DEF DraftInv, DraftKeeps
  <1> QED BY <1>1, <1>2, <1>3, <1>4, <1>5, <1>6, <1>7, <1>8, <1>9, <1>10, <1>11, <1>12, <1>13, <1>14, <1>15, <1>16, <1>17, <1>18, <1>19, <1>20 DEF Step

\* claude adds a field to what the drafts under way keep, and to their news.
LEMMA ClaudeKeeps ==
  ASSUME PrepInv, DraftInv, NEW d \in Dirs, ClaudeWrites(d)
  PROVE  DraftInv' /\ StepIsKind
  <1> DEFINE key == KeyOf(d, present)
  <1>1. /\ config.form \in {"absent", "noProjects", "object"}
        /\ config.projects[key] # {"scalar"} /\ key \in Keys
        /\ config' = [form |-> "object",
                      projects |-> [config.projects EXCEPT ![key] = @ \union {"own"}]]
        /\ pc' = pc /\ draft' = draft
        /\ news' = [p \in Preps |-> IF Drafting(p) THEN news[p] \union {key} ELSE news[p]]
    BY KeyType DEF ClaudeWrites
  <1> HIDE DEF key
  <1>2. \A other \in Keys :
          config'.projects[other] =
            IF other = key THEN config.projects[key] \union {"own"} ELSE config.projects[other]
    <2>1. config.projects \in [Keys -> Entries]
      BY DEF PrepInv, TypeOK, Configs
    <2>2. config'.projects = [config.projects EXCEPT ![key] = @ \union {"own"}]
      BY <1>1
    <2> QED BY <1>1, <2>1, <2>2
  <1>3. ~Unreadable(config) /\ ~Unreadable(config)'
    BY <1>1 DEF Unreadable
  <1>4. StepIsKind
    BY <1>1, <1>2, <1>3 DEF StepIsKind
  <1>5. ASSUME NEW p \in Preps, Drafting(p)
        PROVE  Keeps(config', draft[p], news'[p])
    <2>1. Keeps(config, draft[p], news[p])
      BY <1>5 DEF DraftInv, DraftKeeps
    <2>2. news'[p] = news[p] \union {key}
      BY <1>1, <1>5
    <2> SUFFICES ASSUME NEW other \in Keys
                 PROVE  /\ config'.projects[other] = {"scalar"} =>
                             draft[p].projects[other] = {"scalar"}
                        /\ "own" \in config'.projects[other] =>
                             "own" \in draft[p].projects[other] \/ other \in news'[p]
      BY DEF Keeps
    <2>3. CASE other = key
      <3>1. config'.projects[other] # {"scalar"}
        BY <1>1, <1>2, <2>3
      <3> QED BY <2>2, <2>3, <3>1
    <2>4. CASE other # key
      BY <1>2, <2>1, <2>2, <2>4 DEF Keeps
    <2> QED BY <2>3, <2>4
  <1>6. DraftInv'
    BY <1>1, <1>3, <1>5 DEF DraftInv, DraftKeeps, Drafting
  <1> QED BY <1>4, <1>6

LEMMA OtherKeeps ==
  ASSUME PrepInv, DraftInv, Outside \/ UNCHANGED vars
  PROVE  DraftInv' /\ StepIsKind
  <1>1. ASSUME UNCHANGED <<config, pc, draft, news>>
        PROVE  DraftInv' /\ StepIsKind
    BY <1>1 DEF DraftInv, DraftKeeps, Drafting, Keeps, Unreadable, StepIsKind
  <1>2. ASSUME NEW d \in Dirs, CodexRefreshes(d) \/ RemoveDir(d)
        PROVE  UNCHANGED <<config, pc, draft, news>>
    BY <1>2 DEF CodexRefreshes, RemoveDir, localVars
  <1>3. UNCHANGED vars => UNCHANGED <<config, pc, draft, news>>
    BY DEF vars, hostVars, localVars
  <1> QED BY <1>1, <1>2, <1>3, ClaudeKeeps DEF Outside

LEMMA NextKeeps ==
  ASSUME PrepInv, LockInv, DraftInv, [Next]_vars
  PROVE  DraftInv' /\ StepIsKind
  BY StepKeeps, OtherKeeps DEF Next

\* Seeding and removal: however the processes interleave, fail and crash, ~/.claude.json
\* is not rewritten when it cannot be read, and never loses what is not a preparation's,
\* but for what claude, which takes no lock, writes while a preparation that goes on to
\* replace the file holds its draft.
THEOREM UserDataKept == Spec => UserDataIsKept
  <1>1. Init => PrepInv /\ LockInv /\ DraftInv
    BY InitCorrect DEF Init, LockInv, TempsInv, Inside, DraftInv, DraftKeeps, Drafting
  <1>2. PrepInv /\ LockInv /\ DraftInv /\ [Next]_vars => PrepInv' /\ LockInv' /\ DraftInv'
    BY NextCorrect, NextLock, NextKeeps
  <1>3. PrepInv /\ LockInv /\ DraftInv /\ [Next]_vars => [StepIsKind]_config
    BY NextKeeps
  <1>4. Spec => [][StepIsKind]_config
    BY <1>1, <1>2, <1>3, PTL DEF Spec
  <1> QED BY <1>4 DEF UserDataIsKept, StepIsKind

-----------------------------------------------------------------------------
(* What one step of a process may do to the two files and to its result,   *)
(* whatever the action: the rest of the proofs needs to know no more.      *)

\* PrepareRuntime has not returned.
Preparing(p) ==
  \/ pc[p] \in {"idle", "loop", "authTemp", "authRename"}
  \/ InTrust(p) /\ job[p] = "seed"

\* Cleanup has been called and has not returned.
CleaningUp(p) ==
  \/ pc[p] \in {"clean", "authRead", "authRemove"}
  \/ InTrust(p) /\ job[p] = "drop"

StepOf(p) == Call(p) \/ Step(p) \/ CallCleanup(p) \/ Crash(p)

\* Nothing of another process changes.
LeavesOthers(p) ==
  /\ req' = req
  /\ \A q \in Preps \ {p} :
       /\ pc'[q] = pc[q] /\ k'[q] = k[q] /\ job'[q] = job[q]
       /\ draft'[q] = draft[q] /\ failed'[q] = failed[q]
       /\ effects'[q] = effects[q] /\ diags'[q] = diags[q] /\ closures'[q] = closures[q]
       /\ errs'[q] = errs[q] /\ cleaned'[q] = cleaned[q]

\* ~/.claude.json is left alone, or becomes the draft.
ConfigMove(p) == config' = config \/ (pc[p] = "rename" /\ config' = draft[p])

\* A draft is kept, or made from the file.
DraftMove(p) ==
  Drafting(p)' =>
    /\ job'[p] = job[p] /\ config' = config
    /\ \/ Drafting(p) /\ draft'[p] = draft[p]
       \/ /\ pc[p] = "read" /\ job[p] = "seed" /\ ~SeedRefused(config, Key(p))
          /\ draft'[p] = Seeded(config, Key(p))
       \/ /\ pc[p] = "read" /\ job[p] = "drop"
          /\ config.form = "object" /\ PreparationOnly(config.projects[Key(p)])
          /\ draft'[p] = Removed(config, Key(p))

\* Without an error the draft is in place, or there was nothing to remove.
UnlockMove(p) ==
  pc'[p] = "unlock" /\ ~failed'[p] =>
    /\ job'[p] = job[p]
    /\ \/ pc[p] = "rename" /\ config' = draft[p]
       \/ /\ pc[p] = "read" /\ job[p] = "drop" /\ config' = config
          /\ ~(config.form = "object" /\ PreparationOnly(config.projects[Key(p)]))

\* An effect is listed when it has been performed.
EffectMove(p) ==
  \/ UNCHANGED <<effects, closures>>
  \/ Perform(p) /\ pc[p] = "unlock" /\ job[p] = "seed" /\ ~failed[p] /\ UNCHANGED <<config, auth>>
  \/ Perform(p) /\ pc[p] = "authRename" /\ auth' = [auth EXCEPT ![req[p].dir] = "issued"]
                /\ UNCHANGED config

AuthMove(p) ==
  \/ auth' = auth
  \/ Perform(p) /\ pc[p] = "authRename" /\ auth' = [auth EXCEPT ![req[p].dir] = "issued"]
  \/ pc[p] = "authRemove" /\ auth' = [auth EXCEPT ![req[p].dir] = "absent"]

\* The phases: preparing, then sessions between cleanups.
PhaseMove(p) ==
  /\ present' = present \/ (pc[p] = "authTemp" /\ present' = present \union {req[p].dir})
  /\ Preparing(p)' => Preparing(p)
  /\ CleaningUp(p)' => CleaningUp(p) \/ cleaned'[p] = "begun"
  /\ CleaningUp(p)' \/ pc'[p] = "session" =>
       \/ CleaningUp(p) \/ pc[p] = "session"
       \/ pc[p] = "loop" /\ k[p] > Len(req[p].required) /\ UNCHANGED resultVars
  /\ cleaned'[p] = cleaned[p] \/ cleaned'[p] # "never"

\* The part of TypeOK these proofs use.
LEMMA StepTypes ==
  ASSUME PrepInv, NEW p \in Preps
  PROVE  /\ pc \in [Preps -> Labels] /\ k \in [Preps -> Nat \ {0}]
         /\ job \in [Preps -> {"seed", "drop"}]
         /\ draft \in [Preps -> Configs] /\ failed \in [Preps -> BOOLEAN]
         /\ effects \in [Preps -> Seq({"trust", "auth"})]
         /\ diags \in [Preps -> Seq(Kinds \X Codes)]
         /\ closures \in [Preps -> Seq({"trust", "auth"})]
         /\ errs \in [Preps -> BOOLEAN]
         /\ cleaned \in [Preps -> {"never", "begun", "ok", "failed"}]
         /\ config \in Configs /\ auth \in [Dirs -> {"absent", "issued", "refreshed"}]
         /\ req[p].dir \in Dirs /\ req[p].required \in Seq(Kinds) /\ Key(p) \in Keys
  BY KeyType DEF PrepInv, TypeOK, Key, Request

LEMMA OthersAreLeft ==
  ASSUME PrepInv, NEW p \in Preps, StepOf(p)
  PROVE  LeavesOthers(p)
  <1>t. /\ pc \in [Preps -> Labels] /\ k \in [Preps -> Nat \ {0}]
        /\ job \in [Preps -> {"seed", "drop"}]
        /\ draft \in [Preps -> Configs] /\ failed \in [Preps -> BOOLEAN]
        /\ errs \in [Preps -> BOOLEAN]
        /\ cleaned \in [Preps -> {"never", "begun", "ok", "failed"}]
    BY StepTypes
  <1>r. DOMAIN effects = Preps /\ DOMAIN diags = Preps /\ DOMAIN closures = Preps
    BY StepTypes
  <1>1. CASE Call(p) \/ Refuse(p) \/ BeginEffect(p) \/ Return(p) \/ Crash(p)
    BY <1>1, <1>t, <1>r DEF Call, Refuse, BeginEffect, Return, Crash, LeavesOthers, Goto,
         Next1, Diagnose, hostVars, localVars, resultVars, cleanVars
  <1>2. CASE Acquire(p) \/ SeedPanics(p) \/ WriteTemp(p) \/ Rename(p)
    BY <1>2, <1>t, <1>r DEF Acquire, SeedPanics, WriteTemp, Rename, LeavesOthers, Goto,
         LeaveConfig, hostVars, localVars, resultVars, cleanVars
  <1>3. CASE GiveUp(p) \/ Unlock(p)
    BY <1>3, <1>t, <1>r DEF GiveUp, Unlock, TrustDone, ClosureDone, Diagnose, Perform,
         LeavesOthers, Goto, Next1, hostVars, localVars, resultVars, cleanVars
  <1>4. CASE ReadToSeed(p) \/ ReadToDrop(p)
    BY <1>4, <1>t, <1>r DEF ReadToSeed, ReadToDrop, LeaveConfig, Rewrite, LeavesOthers, Goto,
         hostVars, localVars, resultVars, cleanVars
  <1>5. CASE AuthTemp(p) \/ AuthRename(p)
    BY <1>5, <1>t, <1>r DEF AuthTemp, AuthRename, Diagnose, Perform,
         LeavesOthers, Goto, Next1, hostVars, localVars, resultVars, cleanVars
  <1>6. CASE CallCleanup(p) \/ RunClosure(p) \/ CleanupReturns(p) \/ AuthRead(p) \/ AuthRemove(p)
    BY <1>6, <1>t, <1>r DEF CallCleanup, RunClosure, CleanupReturns, AuthRead, AuthRemove,
         ClosureDone, LeavesOthers, Goto, Next1, hostVars, localVars, resultVars, cleanVars
  <1> QED BY <1>1, <1>2, <1>3, <1>4, <1>5, <1>6 DEF StepOf, Step

LEMMA StepMoves ==
  ASSUME PrepInv, NEW p \in Preps, StepOf(p)
  PROVE  ConfigMove(p) /\ DraftMove(p) /\ UnlockMove(p) /\ EffectMove(p) /\ AuthMove(p)
  <1>t. /\ pc \in [Preps -> Labels] /\ job \in [Preps -> {"seed", "drop"}]
        /\ draft \in [Preps -> Configs] /\ failed \in [Preps -> BOOLEAN]
    BY StepTypes
  <1>1. CASE \/ Call(p) \/ Refuse(p) \/ BeginEffect(p) \/ Return(p) \/ Crash(p) \/ CallCleanup(p)
             \/ RunClosure(p) \/ CleanupReturns(p)
    <2>1. UNCHANGED <<config, auth, effects, closures>>
      BY <1>1 DEF Call, Refuse, BeginEffect, Return, Crash, CallCleanup, RunClosure, CleanupReturns,
           Diagnose, hostVars, localVars, resultVars
    <2>2. pc'[p] \notin {"write", "rename", "unlock"}
      BY <1>1, <1>t DEF Call, Refuse, BeginEffect, Return, Crash, CallCleanup, RunClosure,
           CleanupReturns, Diagnose, Goto
    <2> QED BY <2>1, <2>2 DEF ConfigMove, DraftMove, UnlockMove, EffectMove, AuthMove, Drafting
  <1>2. CASE Acquire(p) \/ SeedPanics(p) \/ AuthTemp(p) \/ AuthRead(p)
    <2>1. UNCHANGED <<config, auth, effects, closures>>
      BY <1>2 DEF Acquire, SeedPanics, AuthTemp, AuthRead, Diagnose, ClosureDone, resultVars
    <2>2. pc'[p] \notin {"write", "rename", "unlock"}
      BY <1>2, <1>t DEF Acquire, SeedPanics, AuthTemp, AuthRead, Diagnose, ClosureDone, Goto
    <2> QED BY <2>1, <2>2 DEF ConfigMove, DraftMove, UnlockMove, EffectMove, AuthMove, Drafting
  <1>3. CASE GiveUp(p)
    <2>1. UNCHANGED <<config, auth, effects, closures>>
      BY <1>3 DEF GiveUp, TrustDone, Diagnose, ClosureDone, resultVars
    <2>2. pc'[p] \notin {"write", "rename", "unlock"}
      BY <1>3, <1>t DEF GiveUp, TrustDone, Diagnose, ClosureDone, Goto
    <2> QED BY <2>1, <2>2 DEF ConfigMove, DraftMove, UnlockMove, EffectMove, AuthMove, Drafting
  <1>4. CASE Unlock(p)
    <2>1. UNCHANGED <<config, auth>> /\ pc[p] = "unlock"
      BY <1>4 DEF Unlock
    <2>2. pc'[p] \notin {"write", "rename", "unlock"}
      BY <1>4, <1>t DEF Unlock, TrustDone, Diagnose, Perform, ClosureDone, Goto
    <2>3. \/ UNCHANGED <<effects, closures>>
          \/ Perform(p) /\ job[p] = "seed" /\ ~failed[p]
      BY <1>4, <1>t DEF Unlock, TrustDone, Diagnose, ClosureDone, resultVars
    <2> QED BY <2>1, <2>2, <2>3
            DEF ConfigMove, DraftMove, UnlockMove, EffectMove, AuthMove, Drafting
  <1>5. CASE ReadToSeed(p)
    <2>1. UNCHANGED <<config, auth, effects, closures>>
      BY <1>5 DEF ReadToSeed, resultVars
    <2> QED BY <1>5, <1>t, <2>1 DEF ReadToSeed, LeaveConfig, Rewrite, Goto,
              ConfigMove, DraftMove, UnlockMove, EffectMove, AuthMove, Drafting
  <1>6. CASE ReadToDrop(p)
    <2>1. UNCHANGED <<config, auth, effects, closures>>
      BY <1>6 DEF ReadToDrop, resultVars
    <2> QED BY <1>6, <1>t, <2>1 DEF ReadToDrop, LeaveConfig, Rewrite, Goto,
              ConfigMove, DraftMove, UnlockMove, EffectMove, AuthMove, Drafting
  <1>7. CASE WriteTemp(p)
    <2>1. UNCHANGED <<config, auth, effects, closures, job, draft>>
      BY <1>7 DEF WriteTemp, resultVars
    <2> QED BY <1>7, <1>t, <2>1 DEF WriteTemp, LeaveConfig, Goto,
              ConfigMove, DraftMove, UnlockMove, EffectMove, AuthMove, Drafting
  <1>8. CASE Rename(p)
    <2>1. UNCHANGED <<auth, effects, closures, job, draft>>
      BY <1>8 DEF Rename, resultVars
    <2> QED BY <1>8, <1>t, <2>1 DEF Rename, LeaveConfig, Goto,
              ConfigMove, DraftMove, UnlockMove, EffectMove, AuthMove, Drafting
  <1>9. CASE AuthRename(p)
    <2>1. UNCHANGED config /\ pc[p] = "authRename"
      BY <1>9 DEF AuthRename
    <2>2. pc'[p] \notin {"write", "rename", "unlock"}
      BY <1>9, <1>t DEF AuthRename, Diagnose, Perform, Goto
    <2>3. \/ UNCHANGED <<auth, effects, closures>>
          \/ Perform(p) /\ auth' = [auth EXCEPT ![req[p].dir] = "issued"]
      BY <1>9 DEF AuthRename, Diagnose
    <2> QED BY <2>1, <2>2, <2>3
            DEF ConfigMove, DraftMove, UnlockMove, EffectMove, AuthMove, Drafting
  <1>10. CASE AuthRemove(p)
    <2>1. UNCHANGED <<config, effects, closures>> /\ pc[p] = "authRemove"
      BY <1>10 DEF AuthRemove, ClosureDone, resultVars
    <2>2. pc'[p] \notin {"write", "rename", "unlock"}
      BY <1>10, <1>t DEF AuthRemove, ClosureDone, Goto
    <2>3. auth' = auth \/ auth' = [auth EXCEPT ![req[p].dir] = "absent"]
      BY <1>10 DEF AuthRemove
    <2> QED BY <2>1, <2>2, <2>3
            DEF ConfigMove, DraftMove, UnlockMove, EffectMove, AuthMove, Drafting
  <1> QED BY <1>1, <1>2, <1>3, <1>4, <1>5, <1>6, <1>7, <1>8, <1>9, <1>10 DEF StepOf, Step

LEMMA StepPhase ==
  ASSUME PrepInv, NEW p \in Preps, StepOf(p)
  PROVE  PhaseMove(p)
  <1>t. /\ pc \in [Preps -> Labels] /\ job \in [Preps -> {"seed", "drop"}]
        /\ cleaned \in [Preps -> {"never", "begun", "ok", "failed"}]
        /\ (pc[p] \in {"idle", "loop", "authTemp", "authRename"} => job[p] = "seed")
    BY StepTypes DEF PrepInv, Control
  <1>1. CASE Call(p) \/ Refuse(p) \/ BeginEffect(p) \/ Return(p) \/ Crash(p)
    BY <1>1, <1>t DEF Call, Refuse, BeginEffect, Return, Crash, InLoop, PhaseMove, Preparing,
         CleaningUp, InTrust, Goto, Diagnose, hostVars, localVars, resultVars, cleanVars
  <1>2. CASE Acquire(p) \/ SeedPanics(p) \/ WriteTemp(p) \/ Rename(p)
    BY <1>2, <1>t DEF Acquire, SeedPanics, WriteTemp, Rename, PhaseMove, Preparing,
         CleaningUp, InTrust, Goto, LeaveConfig, hostVars, localVars, resultVars, cleanVars
  <1>3. CASE GiveUp(p) \/ Unlock(p)
    BY <1>3, <1>t DEF GiveUp, Unlock, TrustDone, ClosureDone, Diagnose, Perform, PhaseMove,
         Preparing, CleaningUp, InTrust, Goto, hostVars, localVars, resultVars, cleanVars
  <1>4. CASE ReadToSeed(p) \/ ReadToDrop(p)
    BY <1>4, <1>t DEF ReadToSeed, ReadToDrop, LeaveConfig, Rewrite, PhaseMove, Preparing,
         CleaningUp, InTrust, Goto, hostVars, localVars, resultVars, cleanVars
  <1>5. CASE AuthTemp(p) \/ AuthRename(p)
    BY <1>5, <1>t DEF AuthTemp, AuthRename, Diagnose, Perform, PhaseMove, Preparing,
         CleaningUp, InTrust, Goto, hostVars, localVars, resultVars, cleanVars
  <1>6. CASE CallCleanup(p) \/ RunClosure(p) \/ CleanupReturns(p) \/ AuthRead(p) \/ AuthRemove(p)
    BY <1>6, <1>t DEF CallCleanup, RunClosure, CleanupReturns, AuthRead, AuthRemove,
         ClosureDone, PhaseMove, Preparing, CleaningUp, InTrust, Goto, hostVars, localVars, resultVars, cleanVars
  <1> QED BY <1>1, <1>2, <1>3, <1>4, <1>5, <1>6 DEF StepOf, Step

\* What the world outside may do: record more in the file, refresh a token, remove a
\* directory nobody is at work in.
OutsideMove ==
  /\ UNCHANGED <<req, pc, k, job, draft, failed, resultVars, cleanVars>>
  /\ present' \subseteq present
  /\ \A p \in Preps : pc[p] \notin {"session", "gone"} /\ req[p].dir \in present =>
       req[p].dir \in present'
  /\ config'.form \in {config.form, "object"}
  /\ \A key \in Keys : \/ config'.projects[key] = config.projects[key]
                       \/ config'.projects[key] = config.projects[key] \union {"own"}
  /\ \A d \in Dirs : \/ auth'[d] = auth[d]
                     \/ auth'[d] = "refreshed"
                     \/ d \notin present' /\ auth'[d] = "absent"

LEMMA OutsideMoves ==
  ASSUME PrepInv, Outside
  PROVE  OutsideMove
  <1>t. /\ config \in Configs /\ auth \in [Dirs -> {"absent", "issued", "refreshed"}]
        /\ \A p \in Preps : req[p].dir \in Dirs
    BY DEF PrepInv, TypeOK, Request
  <1>1. PICK d \in Dirs : ClaudeWrites(d) \/ CodexRefreshes(d) \/ RemoveDir(d)
    BY DEF Outside
  <1>2. CASE ClaudeWrites(d)
    <2> DEFINE key == KeyOf(d, present)
    <2>1. /\ config.projects \in [Keys -> Entries]
          /\ config' = [form |-> "object",
                        projects |-> [config.projects EXCEPT ![key] = @ \union {"own"}]]
      BY <1>2, <1>t DEF ClaudeWrites, Configs
    <2> HIDE DEF key
    <2>2. \A other \in Keys : \/ config'.projects[other] = config.projects[other]
                              \/ config'.projects[other] = config.projects[other] \union {"own"}
      BY <2>1
    <2>3. config'.form = "object"
      BY <2>1
    <2> QED BY <1>2, <2>2, <2>3 DEF ClaudeWrites, OutsideMove
  <1>3. CASE CodexRefreshes(d)
    BY <1>3, <1>t DEF CodexRefreshes, localVars, OutsideMove
  <1>4. CASE RemoveDir(d)
    <2>1. \A p \in Preps : pc[p] \notin {"session", "gone"} => req[p].dir # d
      BY <1>4 DEF RemoveDir, For
    <2> QED BY <1>4, <1>t, <2>1 DEF RemoveDir, localVars, OutsideMove
  <1> QED BY <1>1, <1>2, <1>3, <1>4

LEMMA SeededAt ==
  ASSUME NEW c \in Configs, NEW key \in Keys
  PROVE  /\ Seeded(c, key).form = "object"
         /\ \A other \in Keys : Seeded(c, key).projects[other] =
              IF other = key THEN c.projects[key] \union Ours ELSE c.projects[other]
  BY DEF Seeded, Configs

LEMMA RemovedAt ==
  ASSUME NEW c \in Configs, NEW key \in Keys
  PROVE  /\ Removed(c, key).form = c.form
         /\ \A other \in Keys : Removed(c, key).projects[other] =
              IF other = key THEN {} ELSE c.projects[other]
  BY DEF Removed, Configs

LEMMA RangeAppend ==
  ASSUME NEW S, NEW s \in Seq(S), NEW e \in S
  PROVE  Range(Append(s, e)) = Range(s) \union {e}
  <1>1. /\ Append(s, e) \in Seq(S) /\ Len(Append(s, e)) = Len(s) + 1
        /\ \A i \in 1..Len(s) : Append(s, e)[i] = s[i]
        /\ Append(s, e)[Len(s) + 1] = e
    BY AppendProperties
  <1>2. DOMAIN s = 1..Len(s) /\ DOMAIN Append(s, e) = 1..(Len(s) + 1) /\ Len(s) \in Nat
    BY <1>1, LenProperties
  <1> DEFINE t == Append(s, e)
          n == Len(s)
  <1>3. /\ n \in Nat /\ DOMAIN s = 1..n /\ DOMAIN t = 1..(n + 1) /\ t[n + 1] = e
        /\ \A i \in 1..n : t[i] = s[i]
    BY <1>1, <1>2
  <1> HIDE DEF t, n
  <1>4. Range(t) = Range(s) \union {e}
    BY <1>3 DEF Range
  <1> QED BY <1>4 DEF t

\* What an effect that has been performed adds to the result.
LEMMA Performed ==
  ASSUME PrepInv, NEW p \in Preps, Kind(p) \in {"trust", "auth"}, Perform(p)
  PROVE  /\ effects'[p] = Append(effects[p], Kind(p))
         /\ Range(effects'[p]) = Range(effects[p]) \union {Kind(p)}
         /\ pc'[p] = "loop" /\ k'[p] = k[p] + 1 /\ diags' = diags
  <1>1. effects \in [Preps -> Seq({"trust", "auth"})] /\ pc \in [Preps -> Labels]
        /\ k \in [Preps -> Nat \ {0}]
    BY StepTypes
  <1>2. effects'[p] = Append(effects[p], Kind(p))
    BY <1>1 DEF Perform
  <1>3. Range(Append(effects[p], Kind(p))) = Range(effects[p]) \union {Kind(p)}
    <2> DEFINE e == Kind(p)
    <2>1. effects[p] \in Seq({"trust", "auth"}) /\ e \in {"trust", "auth"}
      BY <1>1
    <2> HIDE DEF e
    <2>2. Range(Append(effects[p], e)) = Range(effects[p]) \union {e}
      BY <2>1, RangeAppend
    <2> QED BY <2>2 DEF e
  <1>4. pc'[p] = "loop" /\ k'[p] = k[p] + 1 /\ diags' = diags
    BY <1>1 DEF Perform, Goto, Next1
  <1> QED BY <1>2, <1>3, <1>4

\* The kind an effect under way has.
LEMMA UnderWay ==
  ASSUME PrepInv, NEW p \in Preps
  PROVE  /\ pc[p] = "unlock" /\ job[p] = "seed" => Kind(p) = "trust"
         /\ pc[p] = "authRename" => Kind(p) = "auth"
  BY DEF PrepInv, Control, InTrust, Kind

-----------------------------------------------------------------------------
(* What is prepared is in force.                                           *)

\* A directory being prepared is there, and a cleanup has been called.
PlaceInv ==
  \A p \in Preps :
    /\ Preparing(p) => req[p].dir \in present
    /\ CleaningUp(p) => cleaned[p] # "never"

LEMMA StepPlace ==
  ASSUME PrepInv, PlaceInv, NEW p \in Preps, StepOf(p)
  PROVE  PlaceInv' /\ present' = present
  <1>1. LeavesOthers(p) /\ PhaseMove(p)
    BY OthersAreLeft, StepPhase
  <1>2. pc[p] = "authTemp" => Preparing(p)
    BY DEF Preparing
  <1>3. present' = present
    BY <1>1, <1>2 DEF PhaseMove, PlaceInv
  <1>4. \A q \in Preps \ {p} : (Preparing(q)' => Preparing(q)) /\ (CleaningUp(q)' => CleaningUp(q))
    BY <1>1 DEF LeavesOthers, Preparing, CleaningUp, InTrust
  <1> QED BY <1>1, <1>3, <1>4 DEF PhaseMove, LeavesOthers, PlaceInv

LEMMA OutsidePlace ==
  ASSUME PrepInv, PlaceInv, OutsideMove
  PROVE  PlaceInv'
  <1>1. \A p \in Preps : /\ Preparing(p)' => Preparing(p)
                         /\ CleaningUp(p)' => CleaningUp(p)
                         /\ Preparing(p) => pc[p] \notin {"session", "gone"}
    BY DEF OutsideMove, Preparing, CleaningUp, InTrust
  <1> QED BY <1>1 DEF OutsideMove, PlaceInv, cleanVars

\* The draft of a seed has the entry; once renamed it is in the file.
SeedInv ==
  \A p \in Preps : job[p] = "seed" =>
    /\ Drafting(p) => Ours \subseteq draft[p].projects[Key(p)]
    /\ pc[p] = "unlock" /\ ~failed[p] => Ours \subseteq config.projects[Key(p)]

\* While nobody is inside, nobody renames.
LEMMA OneInside ==
  ASSUME LockInv, NEW p \in Preps, NEW q \in Preps, Inside(p), Inside(q)
  PROVE  p = q
  BY DEF LockInv

LEMMA StepSeed ==
  ASSUME PrepInv, LockInv, PlaceInv, SeedInv, NEW p \in Preps, StepOf(p)
  PROVE  SeedInv'
  <1>1. LeavesOthers(p) /\ ConfigMove(p) /\ DraftMove(p) /\ UnlockMove(p) /\ present' = present
    BY OthersAreLeft, StepMoves, StepPlace
  <1>2. SUFFICES ASSUME NEW q \in Preps, job'[q] = "seed"
                 PROVE  /\ Drafting(q)' => Ours \subseteq draft'[q].projects[Key(q)']
                        /\ pc'[q] = "unlock" /\ ~failed'[q] =>
                             Ours \subseteq config'.projects[Key(q)']
    BY DEF SeedInv
  <1>3. Key(q)' = Key(q) /\ Key(q) \in Keys /\ config \in Configs
    BY <1>1, StepTypes DEF Key, LeavesOthers
  <1>4. CASE q = p
    <2>1. Ours \subseteq Seeded(config, Key(p)).projects[Key(p)]
      BY <1>3, <1>4, SeededAt
    <2>2. Drafting(p)' => Ours \subseteq draft'[p].projects[Key(p)]
      BY <1>1, <1>2, <1>4, <2>1 DEF DraftMove, SeedInv
    <2>3. pc'[p] = "unlock" /\ ~failed'[p] => Ours \subseteq config'.projects[Key(p)]
      BY <1>1, <1>2, <1>4 DEF UnlockMove, SeedInv, Drafting
    <2> QED BY <1>3, <1>4, <2>2, <2>3
  <1>5. CASE q # p
    <2>1. /\ pc'[q] = pc[q] /\ job[q] = "seed" /\ draft'[q] = draft[q] /\ failed'[q] = failed[q]
      BY <1>1, <1>2, <1>5 DEF LeavesOthers
    <2>2. pc[q] = "unlock" => config' = config
      BY <1>1, <1>5, OneInside DEF ConfigMove, Inside
    <2> QED BY <1>3, <2>1, <2>2 DEF SeedInv, Drafting
  <1> QED BY <1>4, <1>5

\* Nobody cleans up in the directory of p's request.
Standing(p) == req[p].dir \in present /\ \A q \in For(req[p].dir) : cleaned[q] = "never"

\* Trust is in the file, and in every draft about to replace it.
TrustInv ==
  \A p \in Preps : Standing(p) /\ "trust" \in Range(effects[p]) =>
    /\ Ours \subseteq config.projects[Key(p)]
    /\ \A q \in Preps : Drafting(q) => Ours \subseteq draft[q].projects[Key(p)]

AuthInv ==
  \A p \in Preps : Standing(p) /\ "auth" \in Range(effects[p]) => auth[req[p].dir] # "absent"

LEMMA StepStanding ==
  ASSUME PrepInv, PlaceInv, NEW p \in Preps, StepOf(p), NEW q \in Preps
  PROVE  /\ Standing(q)' => Standing(q)
         /\ Key(q)' = Key(q) /\ For(req[q].dir)' = For(req[q].dir)
  <1>1. LeavesOthers(p) /\ PhaseMove(p) /\ present' = present
    BY OthersAreLeft, StepPhase, StepPlace
  <1>2. \A r \in Preps : cleaned'[r] = "never" => cleaned[r] = "never"
    BY <1>1 DEF LeavesOthers, PhaseMove
  <1>3. For(req[q].dir)' = For(req[q].dir) /\ For(req[q].dir) \subseteq Preps /\ Key(q)' = Key(q)
    BY <1>1 DEF For, Key, LeavesOthers
  <1>4. req'[q].dir = req[q].dir
    BY <1>1 DEF LeavesOthers
  <1> QED BY <1>1, <1>2, <1>3, <1>4 DEF Standing

\* An effect newly listed.
LEMMA NewEffect ==
  ASSUME PrepInv, NEW p \in Preps, StepOf(p), NEW q \in Preps
  PROVE  /\ "trust" \in Range(effects'[q]) =>
              \/ "trust" \in Range(effects[q])
              \/ q = p /\ pc[p] = "unlock" /\ job[p] = "seed" /\ ~failed[p] /\ config' = config
                 /\ pc'[p] = "loop"
         /\ "auth" \in Range(effects'[q]) =>
              \/ "auth" \in Range(effects[q])
              \/ q = p /\ auth' = [auth EXCEPT ![req[p].dir] = "issued"]
         /\ Range(effects[q]) \subseteq Range(effects'[q])
  <1>1. LeavesOthers(p) /\ EffectMove(p)
    BY OthersAreLeft, StepMoves
  <1>2. CASE q # p
    BY <1>1, <1>2 DEF LeavesOthers
  <1>3. CASE q = p /\ effects' = effects
    BY <1>3
  <1>4. CASE q = p /\ effects' # effects
    <2>1. /\ Perform(p)
          /\ \/ pc[p] = "unlock" /\ job[p] = "seed" /\ ~failed[p] /\ config' = config
             \/ pc[p] = "authRename" /\ auth' = [auth EXCEPT ![req[p].dir] = "issued"]
      BY <1>1, <1>4 DEF EffectMove
    <2>2. /\ Range(effects'[p]) = Range(effects[p]) \union {Kind(p)}
          /\ pc'[p] = "loop"
      BY <2>1, UnderWay, Performed
    <2> QED BY <1>4, <2>1, <2>2, UnderWay
  <1> QED BY <1>2, <1>3, <1>4

LEMMA StepTrust ==
  ASSUME PrepInv, LockInv, PlaceInv, SeedInv, TrustInv, NEW p \in Preps, StepOf(p)
  PROVE  TrustInv'
  <1>1. LeavesOthers(p) /\ ConfigMove(p) /\ DraftMove(p)
    BY OthersAreLeft, StepMoves
  <1>2. SUFFICES ASSUME NEW r \in Preps, Standing(r)', "trust" \in Range(effects'[r])
                 PROVE  /\ Ours \subseteq config'.projects[Key(r)']
                        /\ \A q \in Preps : Drafting(q)' => Ours \subseteq draft'[q].projects[Key(r)']
    BY DEF TrustInv
  <1>3. Standing(r) /\ Key(r)' = Key(r) /\ Key(r) \in Keys /\ config \in Configs /\ Key(p) \in Keys
    BY <1>2, StepStanding, StepTypes
  <1>4. CASE "trust" \in Range(effects[r])
    <2>1. /\ Ours \subseteq config.projects[Key(r)]
          /\ \A q \in Preps : Drafting(q) => Ours \subseteq draft[q].projects[Key(r)]
      BY <1>3, <1>4 DEF TrustInv
    <2>2. Ours \subseteq config'.projects[Key(r)]
      BY <1>1, <2>1 DEF ConfigMove, Drafting
    <2>3. ASSUME NEW q \in Preps, Drafting(q)' PROVE Ours \subseteq draft'[q].projects[Key(r)]
      <3>1. CASE q # p
        BY <1>1, <2>1, <2>3, <3>1 DEF LeavesOthers, Drafting
      <3>2. CASE q = p /\ Drafting(p) /\ draft'[p] = draft[p]
        BY <2>1, <3>2
      <3>3. CASE q = p /\ draft'[p] = Seeded(config, Key(p))
        <4> DEFINE made == Seeded(config, Key(p)).projects
        <4>1. \/ made[Key(r)] = config.projects[Key(r)] \union Ours
              \/ made[Key(r)] = config.projects[Key(r)]
          BY <1>3, SeededAt, ZenonT(30)
        <4>2. Ours \subseteq made[Key(r)]
          BY <2>1, <4>1
        <4> QED BY <3>3, <4>2
      <3>4. CASE q = p /\ pc[p] = "read" /\ job[p] = "drop" /\ draft'[p] = Removed(config, Key(p))
        <4>1. cleaned[p] # "never"
          BY <3>4 DEF PlaceInv, CleaningUp, InTrust
        <4>2. req[p].dir # req[r].dir
          BY <1>3, <4>1 DEF Standing, For
        <4>3. Key(p) # Key(r)
          BY <4>2 DEF Key, KeyOf
        <4> QED BY <1>3, <2>1, <3>4, <4>3, RemovedAt
      <3> QED BY <1>1, <2>3, <3>1, <3>2, <3>3, <3>4 DEF DraftMove
    <2> QED BY <1>3, <2>2, <2>3
  <1>5. CASE "trust" \notin Range(effects[r])
    <2>1. r = p /\ pc[p] = "unlock" /\ job[p] = "seed" /\ ~failed[p] /\ config' = config
          /\ pc'[p] = "loop"
      BY <1>2, <1>5, NewEffect
    <2>2. Ours \subseteq config'.projects[Key(r)]
      BY <2>1 DEF SeedInv
    <2>3. \A q \in Preps : ~Drafting(q)'
      BY <1>1, <2>1, OneInside DEF LeavesOthers, Drafting, Inside
    <2> QED BY <1>3, <2>2, <2>3
  <1> QED BY <1>4, <1>5

LEMMA StepAuth ==
  ASSUME PrepInv, PlaceInv, AuthInv, NEW p \in Preps, StepOf(p)
  PROVE  AuthInv'
  <1>1. AuthMove(p) /\ req' = req
    BY StepMoves, OthersAreLeft DEF LeavesOthers
  <1>2. SUFFICES ASSUME NEW r \in Preps, Standing(r)', "auth" \in Range(effects'[r])
                 PROVE  auth'[req'[r].dir] # "absent"
    BY DEF AuthInv
  <1>3. Standing(r) /\ req[r].dir \in Dirs /\ req[p].dir \in Dirs
        /\ auth \in [Dirs -> {"absent", "issued", "refreshed"}]
    BY <1>2, StepStanding, StepTypes
  <1>4. CASE "auth" \in Range(effects[r])
    <2>1. auth[req[r].dir] # "absent"
      BY <1>3, <1>4 DEF AuthInv
    <2>2. pc[p] = "authRemove" => req[p].dir # req[r].dir
      BY <1>3 DEF PlaceInv, CleaningUp, Standing, For
    <2> QED BY <1>1, <1>3, <2>1, <2>2 DEF AuthMove
  <1>5. CASE "auth" \notin Range(effects[r])
    BY <1>1, <1>2, <1>3, <1>5, NewEffect
  <1> QED BY <1>4, <1>5

\* What is required and not yet complained of has been performed.
ListInv ==
  \A p \in Preps : diags[p] = <<>> =>
    /\ Preparing(p) =>
         \A i \in 1..Len(req[p].required) :
           i < k[p] => req[p].required[i] \in Range(effects[p])
    /\ CleaningUp(p) \/ pc[p] = "session" =>
         Range(req[p].required) \subseteq Range(effects[p])

\* An effect under way is passed over with a diagnostic, or performed.
ListMove(p) ==
  diags'[p] = <<>> =>
    /\ diags[p] = <<>>
    /\ \/ Perform(p) /\ Kind(p) \in {"trust", "auth"}
       \/ UNCHANGED effects /\ (Preparing(p)' => k'[p] = k[p])

LEMMA Diagnosed ==
  ASSUME PrepInv, NEW p \in Preps, NEW code, Diagnose(p, code)
  PROVE  diags'[p] # <<>>
  <1>1. diags \in [Preps -> Seq(Kinds \X Codes)]
    BY StepTypes
  <1> DEFINE e == <<Kind(p), code>>
          old == diags[p]
  <1>2. diags'[p] = Append(old, e)
    BY <1>1 DEF Diagnose
  <1>3. \E S : old \in Seq(S)
    BY <1>1
  <1> HIDE DEF e, old
  <1>4. Append(old, e) # <<>>
    <2>1. PICK S : old \in Seq(S)
      BY <1>3
    <2>2. old \in Seq(S \union {e}) /\ e \in S \union {e}
      BY <2>1
    <2> QED BY <2>2, AppendProperties
  <1> QED BY <1>2, <1>4

LEMMA StepLists ==
  ASSUME PrepInv, NEW p \in Preps, StepOf(p)
  PROVE  ListMove(p)
  <1>t. /\ pc \in [Preps -> Labels] /\ job \in [Preps -> {"seed", "drop"}]
        /\ k \in [Preps -> Nat \ {0}]
        /\ (pc[p] \in {"idle", "loop", "authTemp", "authRename"} => job[p] = "seed")
    BY StepTypes DEF PrepInv, Control
  <1>1. CASE Refuse(p)
    BY <1>1, Diagnosed DEF Refuse, ListMove
  <1>2. CASE \/ Call(p) \/ BeginEffect(p) \/ Return(p) \/ Crash(p) \/ Acquire(p) \/ SeedPanics(p)
             \/ ReadToSeed(p) \/ ReadToDrop(p) \/ WriteTemp(p) \/ Rename(p) \/ RunClosure(p)
             \/ CleanupReturns(p)
    <2>1. UNCHANGED <<diags, effects, k>>
      BY <1>2 DEF Call, BeginEffect, Return, Crash, Acquire, SeedPanics, ReadToSeed,
           ReadToDrop, WriteTemp, Rename, RunClosure, CleanupReturns, resultVars
    <2> QED BY <2>1 DEF ListMove
  <1>3. CASE CallCleanup(p) \/ AuthRead(p) \/ AuthRemove(p)
    <2>1. UNCHANGED <<diags, effects>>
      BY <1>3 DEF CallCleanup, AuthRead, AuthRemove, ClosureDone, resultVars
    <2>2. ~Preparing(p)'
      BY <1>3, <1>t DEF CallCleanup, AuthRead, AuthRemove, ClosureDone, Preparing, InTrust, Goto
    <2> QED BY <2>1, <2>2 DEF ListMove
  <1>4. CASE GiveUp(p) \/ Unlock(p)
    <2>1. PICK error \in BOOLEAN : TrustDone(p, error)
      <3>1. failed[p] \in BOOLEAN
        BY StepTypes
      <3>2. GiveUp(p) => TrustDone(p, TRUE)
        BY DEF GiveUp
      <3>3. Unlock(p) => TrustDone(p, failed[p])
        BY DEF Unlock
      <3> QED BY <1>4, <3>1, <3>2, <3>3
    <2>2. InTrust(p) /\ job' = job
      BY <1>4 DEF GiveUp, Unlock, InTrust
    <2>3. CASE job[p] = "drop"
      <3>1. UNCHANGED <<diags, effects>> /\ ~Preparing(p)'
        BY <1>t, <2>1, <2>2, <2>3 DEF TrustDone, ClosureDone, resultVars, Goto, Preparing, InTrust
      <3> QED BY <3>1 DEF ListMove
    <2>4. CASE job[p] # "drop" /\ error
      BY <2>1, <2>4, Diagnosed DEF TrustDone, ListMove
    <2>5. CASE job[p] # "drop" /\ ~error
      <3>1. Perform(p) /\ diags' = diags
        BY <2>1, <2>5 DEF TrustDone, Perform
      <3>2. Kind(p) = "trust"
        BY <1>t, <2>2, <2>5 DEF PrepInv, Control, Kind
      <3> QED BY <3>1, <3>2 DEF ListMove
    <2> QED BY <2>3, <2>4, <2>5
  <1>5. CASE AuthTemp(p)
    <2>1. Diagnose(p, "preparation_failed") \/ UNCHANGED <<k, resultVars>>
      BY <1>5 DEF AuthTemp
    <2> QED BY <2>1, Diagnosed DEF ListMove, resultVars
  <1>6. CASE AuthRename(p)
    <2>1. Diagnose(p, "preparation_failed") \/ (Perform(p) /\ pc[p] = "authRename")
      BY <1>6 DEF AuthRename
    <2> QED BY <2>1, Diagnosed, UnderWay DEF ListMove, Perform
  <1> QED BY <1>1, <1>2, <1>3, <1>4, <1>5, <1>6 DEF StepOf, Step

LEMMA StepList ==
  ASSUME PrepInv, ListInv, NEW p \in Preps, StepOf(p)
  PROVE  ListInv'
  <1>1. LeavesOthers(p) /\ PhaseMove(p) /\ ListMove(p)
    BY OthersAreLeft, StepPhase, StepLists
  <1>2. SUFFICES ASSUME NEW q \in Preps, diags'[q] = <<>>
                 PROVE  /\ Preparing(q)' =>
                             \A i \in 1..Len(req[q].required) :
                               i < k'[q] => req[q].required[i] \in Range(effects'[q])
                        /\ CleaningUp(q)' \/ pc'[q] = "session" =>
                             Range(req[q].required) \subseteq Range(effects'[q])
    BY <1>1 DEF ListInv, LeavesOthers
  <1>3. CASE q # p
    BY <1>1, <1>2, <1>3 DEF LeavesOthers, ListInv, Preparing, CleaningUp, InTrust
  <1>4. CASE q = p
    <2>t. req[p].required \in Seq(Kinds) /\ k[p] \in Nat \ {0}
      BY StepTypes
    <2>1. diags[p] = <<>> /\ Range(effects[p]) \subseteq Range(effects'[p])
      BY <1>1, <1>2, <1>4, NewEffect DEF ListMove
    <2>2. ASSUME Preparing(p)', NEW i \in 1..Len(req[p].required), i < k'[p]
          PROVE  req[p].required[i] \in Range(effects'[p])
      <3>1. Preparing(p)
        BY <1>1, <2>2 DEF PhaseMove
      <3>2. CASE i < k[p]
        BY <2>1, <3>1, <3>2 DEF ListInv
      <3>3. CASE ~(i < k[p])
        <4>1. Perform(p) /\ Kind(p) \in {"trust", "auth"}
          BY <1>1, <1>2, <1>4, <2>2, <3>3 DEF ListMove
        <4>2. k'[p] = k[p] + 1 /\ Kind(p) \in Range(effects'[p])
          BY <4>1, Performed
        <4>3. i = k[p]
          BY <2>t, <2>2, <3>3, <4>2, LenProperties
        <4> QED BY <4>2, <4>3 DEF Kind
      <3> QED BY <3>2, <3>3
    <2>3. ASSUME CleaningUp(p)' \/ pc'[p] = "session"
          PROVE  Range(req[p].required) \subseteq Range(effects'[p])
      <3>1. CASE CleaningUp(p) \/ pc[p] = "session"
        BY <2>1, <3>1 DEF ListInv
      <3>2. CASE pc[p] = "loop" /\ k[p] > Len(req[p].required)
        <4>1. \A i \in 1..Len(req[p].required) : req[p].required[i] \in Range(effects[p])
          <5>1. Preparing(p)
            BY <3>2 DEF Preparing
          <5>2. \A i \in 1..Len(req[p].required) : i < k[p]
            BY <2>t, <3>2, LenProperties
          <5> QED BY <2>1, <5>1, <5>2 DEF ListInv
        <4>2. DOMAIN req[p].required = 1..Len(req[p].required)
          BY <2>t, LenProperties
        <4> QED BY <2>1, <4>1, <4>2 DEF Range
      <3> QED BY <1>1, <2>3, <3>1, <3>2 DEF PhaseMove
    <2> QED BY <1>4, <2>2, <2>3
  <1> QED BY <1>3, <1>4

ForceInv == LockInv /\ PlaceInv /\ SeedInv /\ TrustInv /\ AuthInv /\ ListInv

LEMMA OutsideForce ==
  ASSUME PrepInv, ForceInv, OutsideMove
  PROVE  PlaceInv' /\ SeedInv' /\ TrustInv' /\ AuthInv' /\ ListInv'
  <1>1. UNCHANGED <<req, pc, k, job, draft, failed, effects, diags, closures, errs, cleaned>>
    BY DEF OutsideMove, resultVars, cleanVars
  <1>2. \A p \in Preps : req[p].dir \in present' => Key(p)' = Key(p)
    BY <1>1 DEF OutsideMove, Key, KeyOf
  <1>3. \A key \in Keys : config.projects[key] \subseteq config'.projects[key]
    BY DEF OutsideMove
  <1>4. \A p \in Preps : Key(p) \in Keys /\ req[p].dir \in Dirs
    BY StepTypes
  <1>5. PlaceInv'
    BY OutsidePlace DEF ForceInv
  <1>6. SeedInv'
    <2>1. \A p \in Preps : InTrust(p) /\ job[p] = "seed" => req[p].dir \in present'
      BY <1>1, <1>5 DEF PlaceInv, Preparing, InTrust
    <2>2. \A p \in Preps : InTrust(p) /\ job[p] = "seed" => Key(p)' = Key(p)
      BY <1>2, <2>1
    <2>3. \A p \in Preps : Drafting(p) \/ pc[p] = "unlock" => InTrust(p)
      BY DEF Drafting, InTrust
    <2> QED BY <1>1, <1>3, <1>4, <2>2, <2>3 DEF SeedInv, ForceInv, Drafting
  <1>7. \A p \in Preps : Standing(p)' => Standing(p) /\ Key(p)' = Key(p) /\ req[p].dir \in present'
    BY <1>1, <1>2 DEF Standing, For, OutsideMove
  <1>8. TrustInv'
    BY <1>1, <1>3, <1>4, <1>7 DEF TrustInv, ForceInv, Drafting
  <1>9. AuthInv'
    BY <1>1, <1>4, <1>7 DEF AuthInv, ForceInv, OutsideMove
  <1>10. ListInv'
    BY <1>1 DEF ListInv, ForceInv, Preparing, CleaningUp, InTrust
  <1> QED BY <1>5, <1>6, <1>8, <1>9, <1>10

LEMMA NextForce ==
  ASSUME PrepInv, ForceInv, [Next]_vars
  PROVE  ForceInv'
  <1>1. LockInv'
    BY NextLock DEF ForceInv
  <1>2. CASE UNCHANGED vars
    <2>1. OutsideMove
      BY <1>2 DEF vars, hostVars, localVars, OutsideMove
    <2> QED BY <1>1, <2>1, OutsideForce DEF ForceInv
  <1>3. CASE Outside
    BY <1>1, <1>3, OutsideMoves, OutsideForce DEF ForceInv
  <1>4. CASE \E p \in Preps : StepOf(p)
    BY <1>1, <1>4, StepPlace, StepSeed, StepTrust, StepAuth, StepList DEF ForceInv
  <1> QED BY <1>2, <1>3, <1>4 DEF Next, StepOf

LEMMA InitForce == Init => ForceInv
  <1> SUFFICES ASSUME Init PROVE ForceInv
    OBVIOUS
  <1>1. PrepInv
    BY InitCorrect
  <1>2. LockInv
    BY DEF Init, LockInv, TempsInv, Inside
  <1>3. \A p \in Preps : /\ pc[p] = "idle" /\ k[p] = 1 /\ effects[p] = <<>>
                         /\ req[p].dir \in present
    BY <1>1, StepTypes DEF Init
  <1>4. PlaceInv /\ SeedInv
    BY <1>3 DEF PlaceInv, SeedInv, Preparing, CleaningUp, InTrust, Drafting
  <1>5. \A p \in Preps : Range(effects[p]) = {}
    BY <1>3 DEF Range
  <1>6. TrustInv /\ AuthInv
    BY <1>5 DEF TrustInv, AuthInv
  <1>7. ListInv
    BY <1>3 DEF ListInv, CleaningUp, InTrust
  <1> QED BY <1>2, <1>4, <1>6, <1>7 DEF ForceInv

\* PrepareRuntime: whatever other preparations, cleanups and CLIs do at the same time, and
\* whatever fails or crashes, what a result lists is in force until a preparation of the
\* same directory is cleaned up, and a result without diagnostics lists all that was required.
THEOREM ResultIsInForce == Spec => []PreparedIsInForce
  <1>1. Init => PrepInv /\ ForceInv
    BY InitCorrect, InitForce
  <1>2. PrepInv /\ ForceInv /\ [Next]_vars => PrepInv' /\ ForceInv'
    BY NextCorrect, NextForce
  <1>3. PrepInv /\ ForceInv => PreparedIsInForce
    BY DEF ForceInv, TrustInv, AuthInv, ListInv, PreparedIsInForce, Standing, Key, CleaningUp
  <1> QED BY <1>1, <1>2, <1>3, PTL DEF Spec

-----------------------------------------------------------------------------
(* What a cleanup has undone stays undone.                                 *)

\* Once a seed has been written the file is an object, and stays one.
FormInv ==
  \A p \in Preps :
    /\ Drafting(p) => draft[p].form = "object"
    /\ pc[p] = "unlock" /\ job[p] = "seed" /\ ~failed[p] => config.form = "object"
    /\ "trust" \in Range(effects[p]) => config.form = "object"

LEMMA StepForm ==
  ASSUME PrepInv, FormInv, NEW p \in Preps, StepOf(p)
  PROVE  FormInv'
  <1>1. LeavesOthers(p) /\ ConfigMove(p) /\ DraftMove(p) /\ UnlockMove(p)
    BY OthersAreLeft, StepMoves
  <1>2. config.form = "object" => config'.form = "object"
    BY <1>1 DEF ConfigMove, FormInv, Drafting
  <1>3. /\ Seeded(config, Key(p)).form = "object"
        /\ Removed(config, Key(p)).form = config.form
    BY StepTypes, SeededAt, RemovedAt
  <1>4. Drafting(p)' => draft'[p].form = "object"
    BY <1>1, <1>3 DEF DraftMove, FormInv
  <1>5. pc'[p] = "unlock" /\ job'[p] = "seed" /\ ~failed'[p] => config'.form = "object"
    BY <1>1 DEF UnlockMove, FormInv, Drafting
  <1>6. \A q \in Preps : "trust" \in Range(effects'[q]) => config'.form = "object"
    BY <1>2, NewEffect DEF FormInv
  <1>7. \A q \in Preps \ {p} :
          /\ Drafting(q)' => draft'[q].form = "object"
          /\ pc'[q] = "unlock" /\ job'[q] = "seed" /\ ~failed'[q] => config'.form = "object"
    BY <1>1, <1>2 DEF LeavesOthers, FormInv, Drafting
  <1> QED BY <1>4, <1>5, <1>6, <1>7 DEF FormInv

\* The cleanup list is that of the effects, if it was allowed; its closures run in order;
\* and an auth.json is there because somebody's result lists it.
ListedInv ==
  \A p \in Preps :
    /\ closures[p] = IF "cleanup" \in req[p].allow THEN effects[p] ELSE <<>>
    /\ InTrust(p) /\ job[p] = "drop" => k[p] <= Len(closures[p]) /\ closures[p][k[p]] = "trust"
    /\ pc[p] \in {"authRead", "authRemove"} =>
         k[p] <= Len(closures[p]) /\ closures[p][k[p]] = "auth"
    /\ Preparing(p) => cleaned[p] = "never"

IssuedInv ==
  \A d \in Dirs : auth[d] = "issued" => \E p \in For(d) : "auth" \in Range(effects[p])

\* The steps of Cleanup.
ClosureMove(p) ==
  /\ InTrust(p)' /\ job'[p] = "drop" =>
       \/ InTrust(p) /\ job[p] = "drop" /\ UNCHANGED <<closures, k>>
       \/ k[p] <= Len(closures[p]) /\ closures[p][k[p]] = "trust" /\ UNCHANGED <<closures, k>>
  /\ pc'[p] \in {"authRead", "authRemove"} =>
       \/ pc[p] = "authRead" /\ UNCHANGED <<closures, k>>
       \/ k[p] <= Len(closures[p]) /\ closures[p][k[p]] # "trust" /\ UNCHANGED <<closures, k>>
  /\ Preparing(p) => UNCHANGED cleaned

\* A closure that ran without an error has left nothing to undo.
UndoMove(p) ==
  /\ CleaningUp(p)' /\ ~errs'[p] =>
       /\ UNCHANGED closures
       /\ \/ CleaningUp(p) /\ ~errs[p] /\ k'[p] = k[p]
          \/ k'[p] = 1
          \/ /\ CleaningUp(p) /\ ~errs[p] /\ k'[p] = k[p] + 1
             /\ \/ pc[p] = "unlock" /\ job[p] = "drop" /\ ~failed[p] /\ UNCHANGED config
                \/ pc[p] \in {"authRead", "authRemove"} /\ auth'[req[p].dir] # "issued"
  /\ pc'[p] = "session" /\ cleaned'[p] = "ok" =>
       \/ Preparing(p)
       \/ pc[p] = "clean" /\ ~errs[p] /\ k[p] > Len(closures[p])
          /\ UNCHANGED <<config, auth, closures>>

LEMMA StepClosures ==
  ASSUME PrepInv, NEW p \in Preps, StepOf(p)
  PROVE  ClosureMove(p) /\ UndoMove(p)
  <1>t. /\ pc \in [Preps -> Labels] /\ job \in [Preps -> {"seed", "drop"}]
        /\ k \in [Preps -> Nat \ {0}] /\ errs \in [Preps -> BOOLEAN]
        /\ cleaned \in [Preps -> {"never", "begun", "ok", "failed"}]
        /\ auth \in [Dirs -> {"absent", "issued", "refreshed"}] /\ req[p].dir \in Dirs
        /\ (pc[p] \in {"idle", "loop", "authTemp", "authRename"} => job[p] = "seed")
    BY StepTypes DEF PrepInv, Control
  <1>1. CASE Call(p) \/ Refuse(p) \/ BeginEffect(p) \/ Return(p) \/ Crash(p)
    BY <1>1, <1>t DEF Call, Refuse, BeginEffect, Return, Crash, InLoop, ClosureMove, UndoMove,
         Preparing, CleaningUp, InTrust, Goto, Diagnose, resultVars, cleanVars
  <1>2. CASE Acquire(p) \/ SeedPanics(p) \/ WriteTemp(p) \/ Rename(p)
    BY <1>2, <1>t DEF Acquire, SeedPanics, WriteTemp, Rename, ClosureMove, UndoMove, Preparing,
         CleaningUp, InTrust, Goto, LeaveConfig, resultVars, cleanVars
  <1>3. CASE GiveUp(p)
    BY <1>3, <1>t DEF GiveUp, TrustDone, ClosureDone, Diagnose, ClosureMove, UndoMove,
         Preparing, CleaningUp, InTrust, Goto, Next1, resultVars, cleanVars
  <1>4. CASE Unlock(p)
    <2>1. CASE job[p] = "drop"
      BY <1>4, <1>t, <2>1 DEF Unlock, TrustDone, ClosureDone, ClosureMove, UndoMove,
           Preparing, CleaningUp, InTrust, Goto, Next1, resultVars
    <2>2. CASE job[p] # "drop"
      <3>1. pc'[p] = "loop" /\ job' = job /\ UNCHANGED cleaned
        BY <1>4, <1>t, <2>2 DEF Unlock, TrustDone, Diagnose, Perform, Goto, cleanVars
      <3> QED BY <1>t, <2>2, <3>1 DEF ClosureMove, UndoMove, CleaningUp, InTrust
    <2> QED BY <2>1, <2>2
  <1>5. CASE ReadToSeed(p) \/ ReadToDrop(p)
    BY <1>5, <1>t DEF ReadToSeed, ReadToDrop, LeaveConfig, Rewrite, ClosureMove, UndoMove,
         Preparing, CleaningUp, InTrust, Goto, resultVars, cleanVars
  <1>6. CASE AuthTemp(p) \/ AuthRename(p)
    <2>1. pc'[p] \in {"loop", "authRename"} /\ job' = job /\ UNCHANGED cleaned /\ job[p] = "seed"
      BY <1>6, <1>t DEF AuthTemp, AuthRename, Diagnose, Perform, Goto, cleanVars
    <2> QED BY <2>1 DEF ClosureMove, UndoMove, CleaningUp, InTrust
  <1>7. CASE CallCleanup(p) \/ RunClosure(p) \/ CleanupReturns(p)
    BY <1>7, <1>t DEF CallCleanup, RunClosure, CleanupReturns, ClosureMove, UndoMove, Preparing,
         CleaningUp, InTrust, Goto, hostVars, localVars, resultVars, cleanVars
  <1>8. CASE AuthRead(p) \/ AuthRemove(p)
    BY <1>8, <1>t, ZenonT(30) DEF AuthRead, AuthRemove, ClosureDone, ClosureMove, UndoMove, Preparing,
         CleaningUp, InTrust, Goto, Next1, resultVars, cleanVars
  <1> QED BY <1>1, <1>2, <1>3, <1>4, <1>5, <1>6, <1>7, <1>8 DEF StepOf, Step

LEMMA StepListed ==
  ASSUME PrepInv, ListedInv, NEW p \in Preps, StepOf(p)
  PROVE  ListedInv'
  <1>1. LeavesOthers(p) /\ EffectMove(p) /\ ClosureMove(p) /\ PhaseMove(p)
    BY OthersAreLeft, StepMoves, StepClosures, StepPhase
  <1>t. closures \in [Preps -> Seq({"trust", "auth"})] /\ k[p] \in Nat \ {0}
    BY StepTypes
  <1>2. \A q \in Preps \ {p} :
          /\ closures'[q] = IF "cleanup" \in req'[q].allow THEN effects'[q] ELSE <<>>
          /\ InTrust(q)' /\ job'[q] = "drop" =>
               k'[q] <= Len(closures'[q]) /\ closures'[q][k'[q]] = "trust"
          /\ pc'[q] \in {"authRead", "authRemove"} =>
               k'[q] <= Len(closures'[q]) /\ closures'[q][k'[q]] = "auth"
          /\ Preparing(q)' => cleaned'[q] = "never"
    BY <1>1 DEF LeavesOthers, ListedInv, InTrust, Preparing
  <1>3. closures'[p] = IF "cleanup" \in req'[p].allow THEN effects'[p] ELSE <<>>
    <2>1. closures[p] = IF "cleanup" \in req[p].allow THEN effects[p] ELSE <<>>
      BY DEF ListedInv
    <2>2. CASE UNCHANGED <<effects, closures>>
      BY <1>1, <2>1, <2>2 DEF LeavesOthers
    <2>3. CASE Perform(p)
      <3>1. effects \in [Preps -> Seq({"trust", "auth"})]
        BY StepTypes
      <3>2. /\ effects'[p] = Append(effects[p], Kind(p))
            /\ closures'[p] = IF "cleanup" \in req[p].allow THEN Append(closures[p], Kind(p))
                                                            ELSE closures[p]
        BY <1>t, <2>3, <3>1 DEF Perform
      <3> QED BY <1>1, <2>1, <3>2 DEF LeavesOthers
    <2> QED BY <1>1, <2>2, <2>3 DEF EffectMove
  <1>4. InTrust(p)' /\ job'[p] = "drop" =>
          k'[p] <= Len(closures'[p]) /\ closures'[p][k'[p]] = "trust"
    BY <1>1 DEF ClosureMove, ListedInv
  <1>5. pc'[p] \in {"authRead", "authRemove"} =>
          k'[p] <= Len(closures'[p]) /\ closures'[p][k'[p]] = "auth"
    <2>1. k[p] <= Len(closures[p]) => closures[p][k[p]] \in {"trust", "auth"}
      BY <1>t, ElementOfSeq, LenProperties
    <2> QED BY <1>1, <2>1 DEF ClosureMove, ListedInv
  <1>6. Preparing(p)' => cleaned'[p] = "never"
    BY <1>1 DEF ClosureMove, PhaseMove, ListedInv
  <1> QED BY <1>2, <1>3, <1>4, <1>5, <1>6 DEF ListedInv

LEMMA StepIssued ==
  ASSUME PrepInv, IssuedInv, NEW p \in Preps, StepOf(p)
  PROVE  IssuedInv'
  <1>1. LeavesOthers(p) /\ AuthMove(p)
    BY OthersAreLeft, StepMoves
  <1>2. SUFFICES ASSUME NEW d \in Dirs, auth'[d] = "issued"
                 PROVE  \E q \in For(d) : "auth" \in Range(effects'[q])
    BY <1>1 DEF IssuedInv, For, LeavesOthers
  <1>t. auth \in [Dirs -> {"absent", "issued", "refreshed"}] /\ req[p].dir \in Dirs
    BY StepTypes
  <1>3. CASE auth[d] = "issued"
    <2>1. PICK q \in For(d) : "auth" \in Range(effects[q])
      BY <1>3 DEF IssuedInv
    <2> QED BY <2>1, NewEffect DEF For
  <1>4. CASE auth[d] # "issued"
    <2>1. Perform(p) /\ pc[p] = "authRename" /\ d = req[p].dir
      BY <1>1, <1>2, <1>4, <1>t DEF AuthMove
    <2>2. "auth" \in Range(effects'[p]) /\ p \in For(d)
      BY <2>1, UnderWay, Performed DEF For
    <2> QED BY <2>2
  <1> QED BY <1>3, <1>4

\* The directory is prepared once, and its entry's key can still be told.
Alone(p) == For(req[p].dir) = {p} /\ (req[p].dir \in present \/ req[p].dir \notin Linked)

\* Nothing of an effect of p's is left, nor in a draft somebody else is about to rename.
Undone(p, kind) ==
  IF kind = "auth" THEN auth[req[p].dir] # "issued"
  ELSE /\ ~PreparationOnly(config.projects[Key(p)])
       /\ \A q \in Preps \ {p} : Drafting(q) => ~PreparationOnly(draft[q].projects[Key(p)])

DropInv ==
  \A p \in Preps : Alone(p) /\ job[p] = "drop" =>
    /\ Drafting(p) => draft[p].projects[Key(p)] = {}
    /\ pc[p] = "unlock" /\ ~failed[p] => ~PreparationOnly(config.projects[Key(p)])

\* Cleanup has got past a closure of that kind, so far without an error.
GotPast(p, kind) ==
  \/ /\ CleaningUp(p) /\ ~errs[p]
     /\ \E i \in 1..Len(closures[p]) : i < k[p] /\ closures[p][i] = kind
  \/ /\ pc[p] = "session" /\ cleaned[p] = "ok"
     /\ \E i \in 1..Len(closures[p]) : closures[p][i] = kind

UndoneInv ==
  \A p \in Preps, kind \in {"trust", "auth"} : Alone(p) /\ GotPast(p, kind) => Undone(p, kind)

CleanInv == LockInv /\ PlaceInv /\ FormInv /\ ListedInv /\ IssuedInv /\ DropInv /\ UndoneInv

LEMMA StepAlone ==
  ASSUME PrepInv, PlaceInv, NEW p \in Preps, StepOf(p), NEW q \in Preps
  PROVE  /\ Alone(q)' = Alone(q) /\ Key(q)' = Key(q) /\ req' = req
         /\ p # q /\ Alone(q) => Key(p) # Key(q)
  <1>1. LeavesOthers(p) /\ present' = present
    BY OthersAreLeft, StepPlace
  <1>2. p # q /\ Alone(q) => req[p].dir # req[q].dir
    BY DEF Alone, For
  <1> QED BY <1>1, <1>2 DEF LeavesOthers, Alone, For, Key, KeyOf

\* A cleanup's draft has lost the entry, and a cleanup that has nothing to report has
\* left none in the file: had there been one, the file would have been an object.
LEMMA StepDrop ==
  ASSUME PrepInv, CleanInv, NEW p \in Preps, StepOf(p)
  PROVE  DropInv'
  <1>1. LeavesOthers(p) /\ ConfigMove(p) /\ DraftMove(p) /\ UnlockMove(p)
    BY OthersAreLeft, StepMoves
  <1>2. SUFFICES ASSUME NEW q \in Preps, Alone(q), job'[q] = "drop"
                 PROVE  /\ Drafting(q)' => draft'[q].projects[Key(q)] = {}
                        /\ pc'[q] = "unlock" /\ ~failed'[q] =>
                             ~PreparationOnly(config'.projects[Key(q)])
    BY StepAlone DEF DropInv, CleanInv
  <1>t. Key(q) \in Keys /\ config \in Configs
    BY StepTypes
  <1>3. CASE q = p
    <2>1. Removed(config, Key(p)).projects[Key(p)] = {}
      BY <1>3, <1>t, RemovedAt
    <2>2. Drafting(p)' => draft'[p].projects[Key(p)] = {}
      BY <1>1, <1>2, <1>3, <2>1 DEF DraftMove, DropInv, CleanInv
    <2>3. pc[p] = "read" /\ job[p] = "drop" => config.form = "object"
      <3>1. SUFFICES ASSUME pc[p] = "read", job[p] = "drop" PROVE config.form = "object"
        OBVIOUS
      <3>2. k[p] <= Len(closures[p]) /\ closures[p][k[p]] = "trust" /\ k[p] \in Nat \ {0}
        BY <3>1, StepTypes DEF CleanInv, ListedInv, InTrust
      <3>3. closures[p] = effects[p]
        <4>1. closures[p] # <<>>
          BY <3>2
        <4> QED BY <4>1 DEF CleanInv, ListedInv
      <3>4. effects[p] \in Seq({"trust", "auth"})
        BY StepTypes
      <3>5. DOMAIN effects[p] = 1..Len(effects[p]) /\ Len(effects[p]) \in Nat
        BY <3>4, LenProperties
      <3>6. "trust" \in Range(effects[p])
        BY <3>2, <3>3, <3>5 DEF Range
      <3> QED BY <3>6 DEF CleanInv, FormInv
    <2>4. pc'[p] = "unlock" /\ ~failed'[p] => ~PreparationOnly(config'.projects[Key(p)])
      BY <1>1, <1>2, <1>3, <2>3
         DEF UnlockMove, DropInv, CleanInv, Drafting, PreparationOnly, Ours
    <2> QED BY <1>3, <2>2, <2>4
  <1>4. CASE q # p
    <2>1. pc'[q] = pc[q] /\ job[q] = "drop" /\ draft'[q] = draft[q] /\ failed'[q] = failed[q]
      BY <1>1, <1>2, <1>4 DEF LeavesOthers
    <2>2. pc[q] = "unlock" => config' = config
      BY <1>1, <1>4, OneInside DEF ConfigMove, Inside, CleanInv
    <2> QED BY <1>2, <2>1, <2>2 DEF CleanInv, DropInv, Drafting
  <1> QED BY <1>3, <1>4

\* No step brings back what q has undone.
LEMMA StaysUndone ==
  ASSUME PrepInv, CleanInv, NEW p \in Preps, StepOf(p), NEW q \in Preps,
         Alone(q), ~Preparing(q), NEW kind, Undone(q, kind)
  PROVE  Undone(q, kind)'
  <1>1. LeavesOthers(p) /\ ConfigMove(p) /\ DraftMove(p) /\ AuthMove(p)
    BY OthersAreLeft, StepMoves
  <1>2. Key(q)' = Key(q) /\ (p # q => Key(p) # Key(q)) /\ req' = req
    BY StepAlone DEF CleanInv
  <1>t. /\ Key(q) \in Keys /\ Key(p) \in Keys /\ config \in Configs
        /\ auth \in [Dirs -> {"absent", "issued", "refreshed"}]
        /\ req[p].dir \in Dirs /\ req[q].dir \in Dirs /\ job[p] \in {"seed", "drop"}
    BY StepTypes
  <1>3. CASE kind = "auth"
    <2>1. pc[p] = "authRename" => req[p].dir # req[q].dir
      BY DEF Alone, For, Preparing
    <2> QED BY <1>1, <1>2, <1>3, <1>t, <2>1 DEF AuthMove, Undone
  <1>4. CASE kind # "auth"
    <2>1. /\ ~PreparationOnly(config.projects[Key(q)])
          /\ \A r \in Preps \ {q} : Drafting(r) => ~PreparationOnly(draft[r].projects[Key(q)])
      BY <1>4 DEF Undone
    <2>2. ~PreparationOnly(config'.projects[Key(q)])
      <3>1. CASE p = q /\ pc[p] = "rename"
        <4>1. job[p] = "drop"
          BY <1>t, <3>1 DEF Preparing, InTrust
        <4>2. draft[p].projects[Key(q)] = {}
          BY <3>1, <4>1 DEF CleanInv, DropInv, Drafting
        <4> QED BY <1>1, <2>1, <4>2 DEF ConfigMove, PreparationOnly, Ours
      <3>2. CASE p # q \/ pc[p] # "rename"
        BY <1>1, <2>1, <3>2 DEF ConfigMove, Drafting
      <3> QED BY <3>1, <3>2
    <2>3. ASSUME NEW r \in Preps \ {q}, Drafting(r)'
          PROVE  ~PreparationOnly(draft'[r].projects[Key(q)])
      <3>1. CASE r # p
        BY <1>1, <2>1, <2>3, <3>1 DEF LeavesOthers, Drafting
      <3>2. CASE r = p
        <4> DEFINE seeded == Seeded(config, Key(p)).projects[Key(q)]
                  removed == Removed(config, Key(p)).projects[Key(q)]
        <4>1. p # q /\ Key(p) # Key(q)
          BY <1>2, <2>3, <3>2
        <4>2. seeded = config.projects[Key(q)]
          BY <1>t, <4>1, SeededAt
        <4>3. removed = config.projects[Key(q)]
          BY <1>t, <4>1, RemovedAt
        <4>4. \/ Drafting(p) /\ draft'[p] = draft[p]
              \/ draft'[p].projects[Key(q)] = seeded
              \/ draft'[p].projects[Key(q)] = removed
          BY <1>1, <2>3, <3>2 DEF DraftMove
        <4> HIDE DEF seeded, removed
        <4> QED BY <2>1, <3>2, <4>1, <4>2, <4>3, <4>4
      <3> QED BY <3>1, <3>2
    <2> QED BY <1>2, <1>4, <2>2, <2>3 DEF Undone
  <1> QED BY <1>3, <1>4

LEMMA StepUndone ==
  ASSUME PrepInv, CleanInv, NEW p \in Preps, StepOf(p)
  PROVE  UndoneInv'
  <1>1. LeavesOthers(p) /\ UndoMove(p)
    BY OthersAreLeft, StepClosures
  <1>2. SUFFICES ASSUME NEW q \in Preps, NEW kind \in {"trust", "auth"}, Alone(q),
                        GotPast(q, kind)'
                 PROVE  Undone(q, kind)'
    BY StepAlone DEF UndoneInv, CleanInv
  <1>t. k[q] \in Nat \ {0} /\ Len(closures[q]) \in Nat
    BY StepTypes, LenProperties
  <1>3. GotPast(q, kind) => Undone(q, kind)'
    <2>1. GotPast(q, kind) => ~Preparing(q)
      BY DEF GotPast, CleaningUp, Preparing, InTrust, PrepInv, Control
    <2>2. GotPast(q, kind) => Undone(q, kind)
      BY <1>2 DEF UndoneInv, CleanInv
    <2> QED BY <1>2, <2>1, <2>2, StaysUndone
  <1>4. CASE q # p
    <2>1. /\ pc'[q] = pc[q] /\ job'[q] = job[q] /\ k'[q] = k[q] /\ closures'[q] = closures[q]
          /\ errs'[q] = errs[q] /\ cleaned'[q] = cleaned[q]
      BY <1>1, <1>4 DEF LeavesOthers
    <2>2. GotPast(q, kind)
      BY <1>2, <2>1 DEF GotPast, CleaningUp, InTrust
    <2> QED BY <1>3, <2>2
  <1>5. CASE q = p /\ CleaningUp(p)' /\ ~errs'[p]
    <2>1. closures' = closures
      BY <1>1, <1>5 DEF UndoMove
    <2>2. pc'[p] # "session"
      BY <1>5 DEF CleaningUp, InTrust
    <2>3. PICK i \in 1..Len(closures[p]) : i < k'[p] /\ closures[p][i] = kind
      BY <1>2, <1>5, <2>1, <2>2 DEF GotPast
    <2>4. CASE CleaningUp(p) /\ ~errs[p] /\ i < k[p]
      BY <1>3, <1>5, <2>3, <2>4 DEF GotPast
    <2>5. CASE k'[p] = 1
      BY <1>5, <1>t, <2>3, <2>5
    <2>6. CASE CleaningUp(p) /\ ~errs[p] /\ k'[p] = k[p] + 1 /\ ~(i < k[p])
      <3>1. closures[p][k[p]] = kind /\ k'[p] # 1 /\ k'[p] # k[p]
        BY <1>5, <1>t, <2>3, <2>6
      <3>2. CASE pc[p] = "unlock" /\ job[p] = "drop" /\ ~failed[p] /\ UNCHANGED config
        <4>1. ~PreparationOnly(config.projects[Key(p)])
          BY <1>2, <1>5, <3>2 DEF CleanInv, DropInv
        <4>2. \A r \in Preps \ {p} : ~Drafting(r)'
          BY <1>1, <3>2, OneInside DEF LeavesOthers, Drafting, Inside, CleanInv
        <4>3. kind = "trust"
          BY <3>1, <3>2 DEF CleanInv, ListedInv, InTrust
        <4>4. Key(p)' = Key(p)
          BY StepAlone DEF CleanInv
        <4> QED BY <1>5, <3>2, <4>1, <4>2, <4>3, <4>4 DEF Undone
      <3>3. CASE pc[p] \in {"authRead", "authRemove"} /\ auth'[req[p].dir] # "issued"
        <4>1. kind = "auth"
          BY <3>1, <3>3 DEF CleanInv, ListedInv
        <4> QED BY <1>1, <1>5, <3>3, <4>1 DEF Undone, LeavesOthers
      <3> QED BY <1>1, <1>5, <3>1, <3>2, <3>3 DEF UndoMove
    <2>7. i < k[p] \/ ~(i < k[p])
      OBVIOUS
    <2>8. \/ CleaningUp(p) /\ ~errs[p] /\ k'[p] = k[p]
          \/ k'[p] = 1
          \/ CleaningUp(p) /\ ~errs[p] /\ k'[p] = k[p] + 1
      BY <1>1, <1>5 DEF UndoMove
    <2> QED BY <2>3, <2>4, <2>5, <2>6, <2>7, <2>8
  <1>6. CASE q = p /\ pc'[p] = "session" /\ cleaned'[p] = "ok"
    <2>1. ~Preparing(p)
      BY <1>6, StepClosures DEF CleanInv, ListedInv, ClosureMove
    <2>2. pc[p] = "clean" /\ ~errs[p] /\ k[p] > Len(closures[p]) /\ UNCHANGED closures
      BY <1>1, <1>6, <2>1 DEF UndoMove
    <2>3. PICK i \in 1..Len(closures[p]) : closures[p][i] = kind
      BY <1>2, <1>6, <2>2 DEF GotPast, CleaningUp, InTrust
    <2>4. i < k[p]
      BY <1>6, <1>t, <2>2
    <2> QED BY <1>3, <1>6, <2>2, <2>3, <2>4 DEF GotPast, CleaningUp
  <1> QED BY <1>2, <1>4, <1>5, <1>6 DEF GotPast

LEMMA OutsideClean ==
  ASSUME PrepInv, CleanInv, OutsideMove
  PROVE  PlaceInv' /\ FormInv' /\ ListedInv' /\ IssuedInv' /\ DropInv' /\ UndoneInv'
  <1>1. UNCHANGED <<req, pc, k, job, draft, failed, effects, diags, closures, errs, cleaned>>
    BY DEF OutsideMove, resultVars, cleanVars
  <1>2. \A p \in Preps : Key(p) \in Keys /\ req[p].dir \in Dirs
    BY StepTypes
  <1>3. PlaceInv'
    BY OutsidePlace DEF CleanInv
  <1>4. FormInv'
    BY <1>1 DEF CleanInv, FormInv, Drafting, OutsideMove
  <1>5. ListedInv'
    BY <1>1 DEF CleanInv, ListedInv, InTrust, Preparing
  <1>6. IssuedInv'
    <2>1. \A d \in Dirs : auth'[d] = "issued" => auth[d] = "issued"
      BY DEF OutsideMove
    <2> QED BY <1>1, <2>1 DEF CleanInv, IssuedInv, For
  <1>7. \A p \in Preps : Alone(p)' => Alone(p) /\ Key(p)' = Key(p)
    BY <1>1 DEF OutsideMove, Alone, For, Key, KeyOf
  <1>8. \A key \in Keys :
          ~PreparationOnly(config.projects[key]) => ~PreparationOnly(config'.projects[key])
    BY DEF OutsideMove, PreparationOnly, Ours
  <1>9. DropInv'
    BY <1>1, <1>2, <1>7, <1>8 DEF CleanInv, DropInv, Drafting
  <1>10. ASSUME NEW p \in Preps, Alone(p)', NEW kind, Undone(p, kind)
         PROVE  Undone(p, kind)'
    <2>1. auth[req[p].dir] # "issued" => auth'[req[p].dir] # "issued"
      BY <1>2 DEF OutsideMove
    <2>2. CASE kind = "auth"
      BY <1>1, <1>10, <2>1, <2>2 DEF Undone
    <2>3. CASE kind # "auth"
      BY <1>1, <1>2, <1>7, <1>8, <1>10, <2>3 DEF Undone, Drafting
    <2> QED BY <2>2, <2>3
  <1>11. UndoneInv'
    <2>1. \A p \in Preps, kind \in {"trust", "auth"} : GotPast(p, kind)' => GotPast(p, kind)
      BY <1>1 DEF GotPast, CleaningUp, InTrust
    <2> QED BY <1>7, <1>10, <2>1 DEF CleanInv, UndoneInv
  <1> QED BY <1>3, <1>4, <1>5, <1>6, <1>9, <1>11

LEMMA NextClean ==
  ASSUME PrepInv, CleanInv, [Next]_vars
  PROVE  CleanInv'
  <1>1. LockInv'
    BY NextLock DEF CleanInv
  <1>2. CASE UNCHANGED vars
    <2>1. OutsideMove
      BY <1>2 DEF vars, hostVars, localVars, OutsideMove
    <2> QED BY <1>1, <2>1, OutsideClean DEF CleanInv
  <1>3. CASE Outside
    BY <1>1, <1>3, OutsideMoves, OutsideClean DEF CleanInv
  <1>4. CASE \E p \in Preps : StepOf(p)
    <2>1. PICK p \in Preps : StepOf(p)
      BY <1>4
    <2>2. PlaceInv' /\ FormInv' /\ ListedInv' /\ IssuedInv'
      BY <2>1, StepPlace, StepForm, StepListed, StepIssued DEF CleanInv
    <2>3. DropInv' /\ UndoneInv'
      BY <2>1, StepDrop, StepUndone
    <2> QED BY <1>1, <2>2, <2>3 DEF CleanInv
  <1> QED BY <1>2, <1>3, <1>4 DEF Next, StepOf

LEMMA InitClean == Init => CleanInv
  <1> SUFFICES ASSUME Init PROVE CleanInv
    OBVIOUS
  <1>1. LockInv /\ PlaceInv
    BY InitForce DEF ForceInv
  <1>2. \A p \in Preps : /\ pc[p] = "idle" /\ effects[p] = <<>> /\ closures[p] = <<>>
                         /\ cleaned[p] = "never" /\ job[p] = "seed"
    BY DEF Init
  <1>3. \A p \in Preps : Range(effects[p]) = {}
    BY <1>2 DEF Range
  <1>4. FormInv /\ ListedInv
    BY <1>2, <1>3 DEF FormInv, ListedInv, Drafting, InTrust
  <1>5. IssuedInv
    BY DEF Init, IssuedInv
  <1>6. DropInv /\ UndoneInv
    BY <1>2 DEF DropInv, UndoneInv, GotPast, CleaningUp, InTrust
  <1> QED BY <1>1, <1>4, <1>5, <1>6 DEF CleanInv

LEMMA CleanInvSuffices ==
  ASSUME PrepInv, CleanInv
  PROVE  CleanupIsComplete
  <1> SUFFICES ASSUME NEW p \in Preps, cleaned[p] = "ok", pc[p] = "session",
                      "cleanup" \in req[p].allow, Alone(p)
               PROVE  /\ "trust" \in Range(effects[p]) =>
                           ~PreparationOnly(config.projects[Key(p)])
                      /\ auth[req[p].dir] # "issued"
    BY DEF CleanupIsComplete, Alone, Key
  <1>1. closures[p] = effects[p]
    BY DEF CleanInv, ListedInv
  <1>2. effects[p] \in Seq({"trust", "auth"}) /\ req[p].dir \in Dirs
    BY StepTypes
  <1>3. DOMAIN effects[p] = 1..Len(effects[p])
    BY <1>2, LenProperties
  <1>4. \A kind \in {"trust", "auth"} : kind \in Range(effects[p]) => Undone(p, kind)
    <2>1. \A kind \in Range(effects[p]) : GotPast(p, kind)
      BY <1>1, <1>3 DEF Range, GotPast
    <2> QED BY <2>1 DEF CleanInv, UndoneInv
  <1>5. "trust" \in Range(effects[p]) => ~PreparationOnly(config.projects[Key(p)])
    BY <1>4 DEF Undone
  <1>6. "auth" \in Range(effects[p]) => auth[req[p].dir] # "issued"
    BY <1>4 DEF Undone
  <1>7. auth[req[p].dir] = "issued" => "auth" \in Range(effects[p])
    BY <1>2 DEF CleanInv, IssuedInv, Alone
  <1> QED BY <1>5, <1>6, <1>7

\* RuntimePreparationResult.Cleanup: whatever happens in the other directories, and however
\* often it is called, when it returns no error nothing the preparation made is left, also
\* when PrepareRuntime itself had failed half-way.
THEOREM CleanupUndoes == Spec => []CleanupIsComplete
  <1>1. Init => PrepInv /\ CleanInv
    BY InitCorrect, InitClean
  <1>2. PrepInv /\ CleanInv /\ [Next]_vars => PrepInv' /\ CleanInv'
    BY NextCorrect, NextClean
  <1>3. PrepInv /\ CleanInv => CleanupIsComplete
    BY CleanInvSuffices
  <1> QED BY <1>1, <1>2, <1>3, PTL DEF Spec

-----------------------------------------------------------------------------
(* Registry: the inductive invariant. *)

\* What a descriptor can be.
Described == ToSet(Builtin) \union Offered

\* The types of the registry's state.
RegTypeOK ==
  /\ entries \in Seq(Described) /\ booted \in 0..Len(Builtin) /\ panicked = FALSE
  /\ held \in [Tests -> Seq(Offered)] /\ testing \in [Tests -> {"running", "ending"}]
  /\ \A t \in Tests : Len(held[t]) <= MaxHeld

\* A list with an index of its names: each leads to the place of the one
\* descriptor that has it, and no other name is known.
IndexOf(es, ix) ==
  /\ DOMAIN ix = UNION { NamesOf(es[q]) : q \in DOMAIN es }
  /\ \A q \in DOMAIN es : \A n \in NamesOf(es[q]) : ix[n] = q

\* The registry's own list and index.
Indexed == IndexOf(entries, byName)

\* The first b descriptors are the built-ins.
Leads(es, b) == b <= Len(es) /\ \A i \in 1..b : es[i] = Builtin[i]

\* Every descriptor whose removal is still to come stands behind the built-ins,
\* and is to be removed once.
Owned ==
  /\ \A t \in Tests : \A q \in DOMAIN held[t] :
       \E j \in (booted+1)..Len(entries) : entries[j] = held[t][q]
  /\ \A t, u \in Tests : \A q \in DOMAIN held[t], l \in DOMAIN held[u] :
       held[t][q] = held[u][l] => t = u /\ q = l

Counted ==
  /\ Len(entries) = booted + Cardinality(Pending)
  /\ booted # Len(Builtin) => \A t \in Tests : held[t] = <<>>

\* The inductive invariant of the registry.
RegInv == RegTypeOK /\ Indexed /\ Leads(entries, booted) /\ Owned /\ Counted

-----------------------------------------------------------------------------
(* Lists and their index. *)

\* A descriptor has at least one name.
LEMMA NamesNotEmpty ==
  ASSUME NEW d
  PROVE  Normalize(d.id) \in NamesOf(d)
  BY DEF NamesOf

\* No two places share a name.
LEMMA IndexedOnce ==
  ASSUME NEW es, NEW ix, IndexOf(es, ix), NEW j \in DOMAIN es, NEW q \in DOMAIN es,
         NEW n, n \in NamesOf(es[j]), n \in NamesOf(es[q])
  PROVE  j = q
  BY DEF IndexOf

\* What a list without one of its elements has.
LEMMA RemoveAtFacts ==
  ASSUME NEW S, NEW s \in Seq(S), NEW i \in 1..Len(s)
  PROVE  /\ RemoveAt(s, i) \in Seq(S) /\ Len(RemoveAt(s, i)) = Len(s) - 1
         /\ DOMAIN RemoveAt(s, i) = 1..(Len(s) - 1)
         /\ \A q \in 1..(Len(s) - 1) : RemoveAt(s, i)[q] = IF q < i THEN s[q] ELSE s[q+1]
<1> DEFINE a == SubSeq(s, 1, i-1)
           b == SubSeq(s, i+1, Len(s))
<1>1. Len(s) \in Nat /\ s \in [1..Len(s) -> S] /\ DOMAIN s = 1..Len(s)
  BY LenProperties
<1>2. a \in Seq(S) /\ Len(a) = i - 1 /\ \A q \in 1..(i-1) : a[q] = s[q]
  BY <1>1, SubSeqProperties
<1>3. b \in Seq(S) /\ Len(b) = Len(s) - i /\ \A q \in 1..(Len(s) - i) : b[q] = s[i+q]
  <2>1. CASE i = Len(s)
    <3>1. b = <<>>
      BY <2>1, <1>1 
    <3> QED BY <3>1, <2>1, <1>1
  <2>2. CASE i < Len(s)
    <3>1. i+1 \in 1..Len(s) /\ Len(s) \in (i+1)..Len(s)
      BY <2>2, <1>1
    <3>2. b \in Seq(S) /\ Len(b) = Len(s) - (i+1) + 1 /\ \A q \in 1..(Len(s) - i) : b[q] = s[(i+1)+q-1]
      BY <3>1, <1>1, SubSeqProperties
    <3> HIDE DEF b
    <3> QED BY <3>2, <1>1
  <2>3. i = Len(s) \/ i < Len(s)
    <3>1. \A m \in Nat : \A x \in 1..m : x = m \/ x < m
      OBVIOUS
    <3> QED BY <3>1, <1>1
  <2> HIDE DEF a, b
  <2> QED BY <2>1, <2>2, <2>3
<1> HIDE DEF a, b
<1>4. /\ a \o b \in Seq(S) /\ Len(a \o b) = Len(a) + Len(b)
      /\ \A q \in 1..(Len(a) + Len(b)) : (a \o b)[q] = IF q <= Len(a) THEN a[q] ELSE b[q - Len(a)]
  BY <1>2, <1>3, ConcatProperties
<1>5. RemoveAt(s, i) = a \o b
  BY DEF RemoveAt, a, b
<1> DEFINE r == RemoveAt(s, i)
<1>6. r \in Seq(S) /\ Len(r) = Len(s) - 1
  <2>1. Len(a) + Len(b) = Len(s) - 1
    BY <1>1, <1>2, <1>3
  <2> HIDE DEF r
  <2>2. r = a \o b
    BY <1>5 DEF r
  <2> QED BY <2>1, <2>2, <1>4
<1>7. ASSUME NEW q \in 1..(Len(s) - 1)
      PROVE  r[q] = IF q < i THEN s[q] ELSE s[q+1]
  <2>1. CASE q < i
    <3>1. q \in 1..(i-1) /\ q \in 1..(Len(a) + Len(b)) /\ q <= Len(a)
      BY <2>1, <1>1, <1>2, <1>3
    <3> QED BY <3>1, <2>1, <1>2, <1>4, <1>5
  <2>2. CASE q >= i
    <3>1. q \in 1..(Len(a) + Len(b)) /\ ~(q <= Len(a)) /\ q - Len(a) \in 1..(Len(s) - i)
          /\ i + (q - Len(a)) = q + 1 /\ ~(q < i)
      BY <2>2, <1>1, <1>2, <1>3
    <3>2. r[q] = b[q - Len(a)] /\ b[q - Len(a)] = s[i + (q - Len(a))]
      BY <3>1, <1>3, <1>4, <1>5
    <3> QED BY <3>1, <3>2
  <2> QED BY <2>1, <2>2
<1> HIDE DEF r
<1>8. DOMAIN r = 1..(Len(s) - 1)
  BY <1>6, LenProperties
<1> QED BY <1>6, <1>7, <1>8 DEF r

\* The list of all but the last.
LEMMA FrontIs ==
  ASSUME NEW S, NEW s \in Seq(S), s # <<>>
  PROVE  /\ Front(s) \in Seq(S) /\ Len(Front(s)) = Len(s) - 1
         /\ \A q \in 1..(Len(s) - 1) : Front(s)[q] = s[q]
<1> DEFINE f == SubSeq(s, 1, Len(s) - 1)
<1>1. Len(s) \in Nat /\ Len(s) # 0
  BY LenProperties, EmptySeq
<1>2. f \in Seq(S) /\ Len(f) = Len(s) - 1 /\ \A q \in 1..(Len(s) - 1) : f[q] = s[q]
  <2>1. \A q \in 1..(Len(s) - 1) : s[q] \in S
    BY <1>1, LenProperties
  <2> DEFINE m == Len(s) - 1
  <2>2. m \in Nat /\ m - 1 + 1 = m
    BY <1>1
  <2> HIDE DEF m
  <2>3. /\ SubSeq(s, 1, m) \in Seq(S) /\ Len(SubSeq(s, 1, m)) = IF 1 <= m THEN m - 1 + 1 ELSE 0
        /\ \A q \in 1..(m - 1 + 1) : SubSeq(s, 1, m)[q] = s[1+q-1]
    <3>1. 1 \in Int /\ m \in Int /\ \A q \in 1..m : s[q] \in S
      BY <2>1, <2>2 DEF m
    <3> QED BY ONLY <3>1, SubSeqProperties
  <2>4. \A q \in 1..m : q \in 1..(m - 1 + 1) /\ 1+q-1 = q
    BY <2>2
  <2>5. /\ SubSeq(s, 1, m) \in Seq(S) /\ Len(SubSeq(s, 1, m)) = m
        /\ \A q \in 1..m : SubSeq(s, 1, m)[q] = s[q]
    BY <2>2, <2>3, <2>4
  <2> QED BY <2>5 DEF m
<1> HIDE DEF f
<1>3. Front(s) = f
  BY DEF Front, f
<1> QED BY <1>2, <1>3

\* A descriptor no name of which is known gets the next place.
LEMMA IndexGrows ==
  ASSUME NEW S, NEW es \in Seq(S), NEW ix, IndexOf(es, ix), NEW d,
         NamesOf(d) \intersect DOMAIN ix = {}, NEW es2, es2 = Append(es, d),
         NEW ix2, DOMAIN ix2 = NamesOf(d) \union DOMAIN ix,
         \A n \in DOMAIN ix2 : ix2[n] = IF n \in NamesOf(d) THEN Len(es) + 1 ELSE ix[n]
  PROVE  IndexOf(es2, ix2)
<1>1. Len(es) \in Nat /\ DOMAIN es = 1..Len(es)
  BY LenProperties
<1>2. /\ DOMAIN es2 = 1..(Len(es)+1) /\ es2[Len(es)+1] = d
      /\ \A q \in 1..Len(es) : es2[q] = es[q]
  <2>1. es \in Seq(S \union {d}) /\ d \in S \union {d}
    BY SeqDef, <1>1, LenProperties
  <2> QED BY <2>1, <1>1, AppendProperties, LenProperties
<1>3. ASSUME NEW q \in DOMAIN es2, NEW n \in NamesOf(es2[q])
      PROVE  n \in DOMAIN ix2 /\ ix2[n] = q
  <2>1. CASE q \in 1..Len(es)
    <3>1. n \in NamesOf(es[q]) /\ q \in DOMAIN es
      BY <2>1, <1>1, <1>2
    <3>2. n \in DOMAIN ix /\ ix[n] = q
      BY <3>1 DEF IndexOf
    <3> QED BY <3>2
  <2>2. CASE q = Len(es) + 1
    <3>1. n \in NamesOf(d)
      BY <2>2, <1>2
    <3> QED BY <3>1, <2>2
  <2> QED BY <2>1, <2>2, <1>1, <1>2
<1>4. ASSUME NEW n \in DOMAIN ix2
      PROVE  \E q \in DOMAIN es2 : n \in NamesOf(es2[q])
  <2>1. CASE n \in NamesOf(d)
    <3>1. Len(es) + 1 \in DOMAIN es2 /\ n \in NamesOf(es2[Len(es)+1])
      BY <2>1, <1>1, <1>2
    <3> QED BY <3>1
  <2>2. CASE n \in DOMAIN ix
    <3>1. PICK q \in DOMAIN es : n \in NamesOf(es[q])
      BY <2>2 DEF IndexOf
    <3>2. q \in DOMAIN es2 /\ es2[q] = es[q]
      BY <1>1, <1>2
    <3> QED BY <3>1, <3>2
  <2> QED BY <2>1, <2>2
<1> QED BY <1>3, <1>4 DEF IndexOf

\* The index built from a list whose names are apart is its index.
Rebuilt(left) ==
  [n \in UNION { NamesOf(left[q]) : q \in DOMAIN left } |->
     CHOOSE q \in DOMAIN left : /\ n \in NamesOf(left[q])
                                /\ \A j \in q+1..Len(left) : n \notin NamesOf(left[j])]

\* RemoveByID's rebuilding gives the index of what is left.
LEMMA RebuiltIsIndex ==
  ASSUME NEW S, NEW left \in Seq(S),
         \A j, q \in DOMAIN left : \A n : n \in NamesOf(left[j]) /\ n \in NamesOf(left[q]) => j = q
  PROVE  IndexOf(left, Rebuilt(left))
<1>1. Len(left) \in Nat /\ DOMAIN left = 1..Len(left)
  BY LenProperties
<1>2. ASSUME NEW q \in DOMAIN left, NEW n \in NamesOf(left[q])
      PROVE  Rebuilt(left)[n] = q
  <2> DEFINE P(x) == /\ n \in NamesOf(left[x])
                     /\ \A j \in x+1..Len(left) : n \notin NamesOf(left[j])
  <2>1. P(q)
    <3> SUFFICES ASSUME NEW j \in q+1..Len(left) PROVE n \notin NamesOf(left[j])
      OBVIOUS
    <3>1. j \in DOMAIN left /\ j # q
      BY <1>1
    <3> QED BY <3>1
  <2>2. \A x \in DOMAIN left : P(x) => x = q
    OBVIOUS
  <2> HIDE DEF P
  <2>3. (CHOOSE x \in DOMAIN left : P(x)) = q
    BY <2>1, <2>2
  <2>4. n \in UNION { NamesOf(left[x]) : x \in DOMAIN left }
    OBVIOUS
  <2> QED BY <2>3, <2>4 DEF Rebuilt, P
<1>3. DOMAIN Rebuilt(left) = UNION { NamesOf(left[q]) : q \in DOMAIN left }
  BY DEF Rebuilt
<1> QED BY <1>2, <1>3 DEF IndexOf

\* The removal takes the one descriptor with that id out and indexes the rest again.
LEMMA RemovesIt ==
  ASSUME RegTypeOK, Indexed, NEW j \in DOMAIN entries, RemoveByID(entries[j].id)
  PROVE  /\ entries' = RemoveAt(entries, j) /\ byName' = Rebuilt(entries')
<1> DEFINE id == entries[j].id
           First1(q) == entries[q].id = id /\ \A l \in 1..q-1 : entries[l].id # id
<1>1. \A q \in DOMAIN entries : entries[q].id = id => q = j
  BY NamesNotEmpty, IndexedOnce DEF Indexed
<1>2. Len(entries) \in Nat /\ DOMAIN entries = 1..Len(entries)
  BY LenProperties DEF RegTypeOK
<1>3. First1(j)
  <2> SUFFICES ASSUME NEW l \in 1..j-1 PROVE entries[l].id # id
    OBVIOUS
  <2>1. l \in DOMAIN entries /\ l # j
    BY <1>2
  <2> QED BY <2>1, <1>1
<1>4. \A q \in DOMAIN entries : First1(q) => q = j
  BY <1>1
<1>5. (CHOOSE q \in DOMAIN entries : First1(q)) = j
  <2> HIDE DEF First1
  <2> QED BY <1>3, <1>4
<1>6. \E q \in DOMAIN entries : entries[q].id = id
  OBVIOUS
<1> HIDE DEF First1
<1>7. /\ entries' = RemoveAt(entries, CHOOSE q \in DOMAIN entries : First1(q))
      /\ byName' = Rebuilt(RemoveAt(entries, CHOOSE q \in DOMAIN entries : First1(q)))
  BY <1>6 DEF RemoveByID, Rebuilt, First1
<1> QED BY <1>5, <1>7

-----------------------------------------------------------------------------
\* The table has rows of a provider where the lists have them, and pins no other modes.
LEMMA TableIs ==
  /\ \A r : HasLayout(r) <=> \E x \in ToSet(Rows) : x[1] = r
  /\ \A r : \A m \in ModesNamed(r) : m # "" /\ \E x \in ToSet(Rows) : x[1] = r /\ m = x[2]
<1>1. DOMAIN Table = DOMAIN Rows /\ \A i \in DOMAIN Rows : Table[i] = Row(Rows[i])
  BY DEF Table
<1>2. \A x : Row(x).provider = x[1] /\ Row(x).mode = x[2]
  BY DEF Row
<1>3. \A i \in DOMAIN Table : Table[i].provider = Rows[i][1] /\ Table[i].mode = Rows[i][2]
  BY <1>1, <1>2
<1>4. \A r : HasLayout(r) <=> \E x \in ToSet(Rows) : x[1] = r
  BY <1>1, <1>3 DEF HasLayout, ToSet
<1>5. \A r : \A m \in ModesNamed(r) : m # "" /\ \E x \in ToSet(Rows) : x[1] = r /\ m = x[2]
  <2> SUFFICES ASSUME NEW r, NEW m \in ModesNamed(r)
               PROVE  m # "" /\ \E x \in ToSet(Rows) : x[1] = r /\ m = x[2]
    OBVIOUS
  <2>1. m # "" /\ \E i \in DOMAIN Table : Table[i].provider = r /\ m = Table[i].mode
    BY DEF ModesNamed
  <2>2. PICK i \in DOMAIN Rows : Rows[i][1] = r /\ m = Rows[i][2]
    BY <2>1, <1>1, <1>3
  <2>3. Rows[i] \in ToSet(Rows)
    BY DEF ToSet
  <2> QED BY <2>1, <2>2, <2>3
<1> QED BY <1>4, <1>5

\* The table has rows for each runtime that is launched.
LEMMA LayoutOf ==
  /\ \A r : HasLayout(r) <=> r \in {"claude", "codex", "opencode", "antigravity"}
  /\ ModesNamed("claude") \subseteq {PerTurn} /\ ModesNamed("codex") \subseteq {PerTurn}
  /\ ModesNamed("opencode") \subseteq {PerTurn, HTTPSSE} /\ ModesNamed("antigravity") \subseteq {PerTurn}
  /\ \A r : ~HasLayout(r) => ModesNamed(r) = {}
<1>1. \A x \in ToSet(Rows) :
         \/ x[1] = "claude" /\ x[2] \in {"", PerTurn}
         \/ x[1] = "codex" /\ x[2] \in {"", PerTurn}
         \/ x[1] = "opencode" /\ x[2] \in {"", PerTurn, HTTPSSE}
         \/ x[1] = "antigravity" /\ x[2] \in {"", PerTurn}
  BY RowsRange, ClaudeRowsAre, CodexRowsAre, OpencodeRowsAre, AntigravityRowsAre
<1>2. \A r \in {"claude", "codex", "opencode", "antigravity"} : \E x \in ToSet(Rows) : x[1] = r
  BY RowsRange, ClaudeRowsAre, CodexRowsAre, OpencodeRowsAre, AntigravityRowsAre
<1>3. \A r : HasLayout(r) <=> r \in {"claude", "codex", "opencode", "antigravity"}
  BY <1>1, <1>2, TableIs
<1>4. \A r : \A m \in ModesNamed(r) : m # "" /\ \E x \in ToSet(Rows) : x[1] = r /\ m = x[2]
  BY TableIs
<1>5. ModesNamed("claude") \subseteq {PerTurn}
  <2> SUFFICES ASSUME NEW m \in ModesNamed("claude") PROVE m \in {PerTurn}
    OBVIOUS
  <2>1. PICK x \in ToSet(Rows) : x[1] = "claude" /\ m = x[2] /\ m # ""
    BY <1>4
  <2> QED BY <2>1, <1>1
<1>6. ModesNamed("codex") \subseteq {PerTurn}
  <2> SUFFICES ASSUME NEW m \in ModesNamed("codex") PROVE m \in {PerTurn}
    OBVIOUS
  <2>1. PICK x \in ToSet(Rows) : x[1] = "codex" /\ m = x[2] /\ m # ""
    BY <1>4
  <2> QED BY <2>1, <1>1
<1>7. ModesNamed("opencode") \subseteq {PerTurn, HTTPSSE}
  <2> SUFFICES ASSUME NEW m \in ModesNamed("opencode") PROVE m \in {PerTurn, HTTPSSE}
    OBVIOUS
  <2>1. PICK x \in ToSet(Rows) : x[1] = "opencode" /\ m = x[2] /\ m # ""
    BY <1>4
  <2> QED BY <2>1, <1>1
<1>8. ModesNamed("antigravity") \subseteq {PerTurn}
  <2> SUFFICES ASSUME NEW m \in ModesNamed("antigravity") PROVE m \in {PerTurn}
    OBVIOUS
  <2>1. PICK x \in ToSet(Rows) : x[1] = "antigravity" /\ m = x[2] /\ m # ""
    BY <1>4
  <2> QED BY <2>1, <1>1
<1>9. \A r : ~HasLayout(r) => ModesNamed(r) = {}
  BY <1>4, TableIs
<1> QED BY <1>3, <1>5, <1>6, <1>7, <1>8, <1>9

-----------------------------------------------------------------------------
(* The built-in descriptors. *)

\* One more element.
LEMMA OneMore ==
  \A S, x : IsFiniteSet(S) /\ x \notin S =>
              IsFiniteSet(S \union {x}) /\ Cardinality(S \union {x}) = Cardinality(S) + 1
  BY FS_AddElement

\* Sets of one to four elements.
LEMMA SizeOfOne == \A a : IsFiniteSet({a}) /\ Cardinality({a}) = 1
  BY FS_Singleton

LEMMA SizeOfTwo == \A a, b : a # b => IsFiniteSet({a, b}) /\ Cardinality({a, b}) = 2
<1> SUFFICES ASSUME NEW a, NEW b, a # b
             PROVE  IsFiniteSet({a, b}) /\ Cardinality({a, b}) = 2
  OBVIOUS
<1>1. {a, b} = {a} \union {b} /\ b \notin {a}
  OBVIOUS
<1>2. IsFiniteSet({a} \union {b}) /\ Cardinality({a} \union {b}) = 1 + 1
  BY <1>1, SizeOfOne, OneMore, ZenonT(30)
<1> QED BY <1>1, <1>2

LEMMA SizeOfThree ==
  \A a, b, c : a # b /\ a # c /\ b # c => IsFiniteSet({a, b, c}) /\ Cardinality({a, b, c}) = 3
<1> SUFFICES ASSUME NEW a, NEW b, NEW c, a # b, a # c, b # c
             PROVE  IsFiniteSet({a, b, c}) /\ Cardinality({a, b, c}) = 3
  OBVIOUS
<1> DEFINE S == {a, b}
<1>1. {a, b, c} = S \union {c} /\ c \notin S
  OBVIOUS
<1>2. IsFiniteSet(S) /\ Cardinality(S) = 2
  BY SizeOfTwo
<1> HIDE DEF S
<1>3. IsFiniteSet(S \union {c}) /\ Cardinality(S \union {c}) = 2 + 1
  BY <1>1, <1>2, OneMore
<1> QED BY <1>1, <1>3

LEMMA SizeOfFour ==
  \A a, b, c, d : a # b /\ a # c /\ a # d /\ b # c /\ b # d /\ c # d => Cardinality({a, b, c, d}) = 4
<1> SUFFICES ASSUME NEW a, NEW b, NEW c, NEW d, a # b, a # c, a # d, b # c, b # d, c # d
             PROVE  Cardinality({a, b, c, d}) = 4
  OBVIOUS
<1> DEFINE S == {a, b, c}
<1>1. {a, b, c, d} = S \union {d} /\ d \notin S
  OBVIOUS
<1>2. IsFiniteSet(S) /\ Cardinality(S) = 3
  BY SizeOfThree
<1> HIDE DEF S
<1>3. Cardinality(S \union {d}) = 3 + 1
  BY <1>1, <1>2, OneMore
<1> QED BY <1>1, <1>3

\* The facts about a projection hold when what was measured is about native modes.
LEMMA FactsAre ==
  ASSUME NEW d, NEW v, v # "", NEW u, NEW e, NEW x,
         DOMAIN x \subseteq NativeModes(d), \A m \in DOMAIN x : x[m] \in Mechanism \union {"absent"}
  PROVE  FactsHold(d, Facts(v, u, e, x))
<1> DEFINE f == Facts(v, u, e, x)
<1>1. f.tested = v /\ f.exclusive = x
  BY DEF Facts
<1>2. DOMAIN f.features = Feature /\ \A y \in Feature : f.features[y] \in Support
  BY DEF Facts, Support
<1> QED BY <1>1, <1>2 DEF FactsHold

\* A list of capabilities, none twice.
Capable(c) == ToSet(c) \subseteq Capability /\ IsInjective(c)

\* The lists of capabilities the built-ins declare.
LEMMA CapableAre ==
  /\ Capable(<<"resume", "typed-events", "session-lost-classifier">>)
  /\ Capable(<<"resume">>) /\ Capable(<<"typed-events">>)
  /\ Capable(<<"resume", "typed-events", "approvals">>)
  /\ Capable(<<"resume", "typed-events">>) /\ Capable(<<"typed-events", "approvals">>)
  /\ Capable(<<"resume", "resume-keeps-id", "typed-events", "auth-classifier",
                       "session-lost-classifier">>)
<1>1. Capable(<<"resume", "typed-events", "session-lost-classifier">>)
  BY DEF Capable, ToSet, IsInjective, Capability
<1>2. Capable(<<"resume">>)
  BY DEF Capable, ToSet, IsInjective, Capability
<1>3. Capable(<<"typed-events">>)
  BY DEF Capable, ToSet, IsInjective, Capability
<1>4. Capable(<<"resume", "typed-events", "approvals">>)
  BY DEF Capable, ToSet, IsInjective, Capability
<1>5. Capable(<<"resume", "typed-events">>)
  BY DEF Capable, ToSet, IsInjective, Capability
<1>6. Capable(<<"typed-events", "approvals">>)
  BY DEF Capable, ToSet, IsInjective, Capability
<1>7. Capable(<<"resume", "resume-keeps-id", "typed-events", "auth-classifier",
                       "session-lost-classifier">>)
  BY DEF Capable, ToSet, IsInjective, Capability
<1> QED BY <1>1, <1>2, <1>3, <1>4, <1>5, <1>6, <1>7

\* A mode with its capabilities.
LEMMA InIs == \A m, c : In(m, c).mode = m /\ In(m, c).caps = c
  BY DEF In

\* Its names are spelled the way they read.
SpelledAs(d) == Normalize(d.id) = d.id /\ \A i \in DOMAIN d.aliases : Normalize(d.aliases[i]) # ""

\* Claude is valid and agrees with the layout table.
LEMMA ClaudeSound ==
  ASSUME SpelledAs(Claude)
  PROVE  Shaped(Claude) /\ MatchesLayout(Claude)
<1>1. /\ Claude.id = "claude" /\ Claude.binary = "claude" /\ Claude.override = "CLAUDE_CLI_PATH"
      /\ Claude.modes # <<>> /\ DOMAIN Claude.modes = 1..4 /\ Len(Claude.modes) = 4
  BY DEF Claude, Descriptor, In
<1>2. /\ Claude.modes[1] = In(Streaming, <<"resume", "typed-events", "session-lost-classifier">>)
      /\ Claude.modes[2] = In(PerTurn, <<"resume", "typed-events", "session-lost-classifier">>)
      /\ Claude.modes[3] = In(PTYMode, <<"resume">>)
      /\ Claude.modes[4] = In("acp-stdio", <<"typed-events">>)
  BY DEF Claude, Descriptor
<1>3. \A i \in 1..4 : i = 1 \/ i = 2 \/ i = 3 \/ i = 4
  OBVIOUS
<1>4. ModesOf(Claude) = {Streaming, PerTurn, PTYMode, "acp-stdio"}
  <2> DEFINE ms == Claude.modes
  <2>1. DOMAIN ms = 1..4 /\ ms[1].mode = Streaming /\ ms[2].mode = PerTurn /\ ms[3].mode = PTYMode /\ ms[4].mode = "acp-stdio"
    BY <1>1, <1>2, InIs
  <2> HIDE DEF ms
  <2>2. { ms[i].mode : i \in DOMAIN ms } = {Streaming, PerTurn, PTYMode, "acp-stdio"}
    BY <2>1, <1>3
  <2> QED BY <2>2 DEF ModesOf, ms
<1>5. Cardinality(ModesOf(Claude)) = 4
  <2> DEFINE a == Streaming
             b == PerTurn
             c == PTYMode
             d == "acp-stdio"
  <2>1. a # b /\ a # c /\ a # d /\ b # c /\ b # d /\ c # d
    BY DEF ACP, Mode, Streaming, PerTurn, JSONRPC, HTTPSSE, PTYMode
  <2>2. ModesOf(Claude) = {a, b, c, d}
    BY <1>4
  <2> HIDE DEF a, b, c, d
  <2>3. Cardinality({a, b, c, d}) = 4
    BY <2>1, SizeOfFour
  <2> QED BY <2>2, <2>3
<1>6. \A i \in DOMAIN Claude.modes : Capable(Claude.modes[i].caps)
  BY <1>1, <1>2, <1>3, InIs, CapableAre
<1>7. NativeModes(Claude) = {Streaming, PerTurn, PTYMode}
  BY <1>4 DEF NativeModes, ACP, Mode, Streaming, PerTurn, JSONRPC, HTTPSSE, PTYMode
<1>8. Shaped(Claude)
  <2>1. Claude.default = Streaming
    BY DEF Claude, Descriptor, In
  <2>2. ModesOf(Claude) \subseteq Mode /\ Claude.default \in ModesOf(Claude) /\ (NativeModes(Claude) # {} => Claude.default \notin ACP)
    BY <2>1, <1>4, <1>7 DEF ACP, Mode, Streaming, PerTurn, JSONRPC, HTTPSSE, PTYMode
  <2> QED BY <1>1, <1>5, <1>6, <2>2 DEF Shaped, SpelledAs, Capable
<1>9. Claude.projection # {} /\ \A f \in Claude.projection : FactsHold(Claude, f)
  <2> DEFINE x == [m \in {Streaming, PerTurn, PTYMode} |-> "flag"]
  <2>1. DOMAIN x = NativeModes(Claude) /\ \A m \in DOMAIN x : x[m] = "flag"
    BY <1>7
  <2>2. Claude.projection = {Facts("2.1.285", {}, Effects, x)}
    BY DEF Claude, Descriptor
  <2> HIDE DEF x
  <2>3. FactsHold(Claude, Facts("2.1.285", {}, Effects, x))
    BY <2>1, FactsAre DEF Mechanism
  <2> QED BY <2>2, <2>3
<1>10. MatchesLayout(Claude)
  BY <1>1, <1>7, <1>9, LayoutOf DEF MatchesLayout, Runtime
<1> QED BY <1>8, <1>10

\* Codex is valid and agrees with the layout table.
LEMMA CodexSound ==
  ASSUME SpelledAs(Codex)
  PROVE  Shaped(Codex) /\ MatchesLayout(Codex)
<1>1. /\ Codex.id = "codex" /\ Codex.binary = "codex" /\ Codex.override = "CODEX_CLI_PATH"
      /\ Codex.modes # <<>> /\ DOMAIN Codex.modes = 1..3 /\ Len(Codex.modes) = 3
  BY DEF Codex, Descriptor, In
<1>2. /\ Codex.modes[1] = In(JSONRPC, <<"resume", "typed-events", "approvals">>)
      /\ Codex.modes[2] = In(PerTurn, <<"resume", "typed-events", "session-lost-classifier">>)
      /\ Codex.modes[3] = In("acp-stdio", <<"typed-events">>)
  BY DEF Codex, Descriptor
<1>3. \A i \in 1..3 : i = 1 \/ i = 2 \/ i = 3
  OBVIOUS
<1>4. ModesOf(Codex) = {JSONRPC, PerTurn, "acp-stdio"}
  <2> DEFINE ms == Codex.modes
  <2>1. DOMAIN ms = 1..3 /\ ms[1].mode = JSONRPC /\ ms[2].mode = PerTurn /\ ms[3].mode = "acp-stdio"
    BY <1>1, <1>2, InIs
  <2> HIDE DEF ms
  <2>2. { ms[i].mode : i \in DOMAIN ms } = {JSONRPC, PerTurn, "acp-stdio"}
    BY <2>1, <1>3
  <2> QED BY <2>2 DEF ModesOf, ms
<1>5. Cardinality(ModesOf(Codex)) = 3
  <2> DEFINE a == JSONRPC
             b == PerTurn
             c == "acp-stdio"
  <2>1. a # b /\ a # c /\ b # c
    BY DEF ACP, Mode, Streaming, PerTurn, JSONRPC, HTTPSSE, PTYMode
  <2>2. ModesOf(Codex) = {a, b, c}
    BY <1>4
  <2> HIDE DEF a, b, c
  <2>3. Cardinality({a, b, c}) = 3
    BY <2>1, SizeOfThree
  <2> QED BY <2>2, <2>3
<1>6. \A i \in DOMAIN Codex.modes : Capable(Codex.modes[i].caps)
  BY <1>1, <1>2, <1>3, InIs, CapableAre
<1>7. NativeModes(Codex) = {JSONRPC, PerTurn}
  BY <1>4 DEF NativeModes, ACP, Mode, Streaming, PerTurn, JSONRPC, HTTPSSE, PTYMode
<1>8. Shaped(Codex)
  <2>1. Codex.default = JSONRPC
    BY DEF Codex, Descriptor, In
  <2>2. ModesOf(Codex) \subseteq Mode /\ Codex.default \in ModesOf(Codex) /\ (NativeModes(Codex) # {} => Codex.default \notin ACP)
    BY <2>1, <1>4, <1>7 DEF ACP, Mode, Streaming, PerTurn, JSONRPC, HTTPSSE, PTYMode
  <2> QED BY <1>1, <1>5, <1>6, <2>2 DEF Shaped, SpelledAs, Capable
<1>9. Codex.projection # {} /\ \A f \in Codex.projection : FactsHold(Codex, f)
  <2> DEFINE x == [m \in {JSONRPC, PerTurn} |-> "projected-layout"]
  <2>1. DOMAIN x = NativeModes(Codex) /\ \A m \in DOMAIN x : x[m] = "projected-layout"
    BY <1>7
  <2>2. Codex.projection = {Facts("0.154.0", {"commands", "trust"}, Effects, x)}
    BY DEF Codex, Descriptor
  <2> HIDE DEF x
  <2>3. FactsHold(Codex, Facts("0.154.0", {"commands", "trust"}, Effects, x))
    BY <2>1, FactsAre DEF Mechanism
  <2> QED BY <2>2, <2>3
<1>10. MatchesLayout(Codex)
  BY <1>1, <1>7, <1>9, LayoutOf DEF MatchesLayout, Runtime
<1> QED BY <1>8, <1>10

\* OpenCode is valid and agrees with the layout table.
LEMMA OpenCodeSound ==
  ASSUME SpelledAs(OpenCode)
  PROVE  Shaped(OpenCode) /\ MatchesLayout(OpenCode)
<1>1. /\ OpenCode.id = "opencode" /\ OpenCode.binary = "opencode" /\ OpenCode.override = "OPENCODE_CLI_PATH"
      /\ OpenCode.modes # <<>> /\ DOMAIN OpenCode.modes = 1..3 /\ Len(OpenCode.modes) = 3
  BY DEF OpenCode, Descriptor, In
<1>2. /\ OpenCode.modes[1] = In(PerTurn, <<"resume", "typed-events", "session-lost-classifier">>)
      /\ OpenCode.modes[2] = In(HTTPSSE, <<"typed-events">>)
      /\ OpenCode.modes[3] = In("acp-stdio", <<"resume", "typed-events">>)
  BY DEF OpenCode, Descriptor
<1>3. \A i \in 1..3 : i = 1 \/ i = 2 \/ i = 3
  OBVIOUS
<1>4. ModesOf(OpenCode) = {PerTurn, HTTPSSE, "acp-stdio"}
  <2> DEFINE ms == OpenCode.modes
  <2>1. DOMAIN ms = 1..3 /\ ms[1].mode = PerTurn /\ ms[2].mode = HTTPSSE /\ ms[3].mode = "acp-stdio"
    BY <1>1, <1>2, InIs
  <2> HIDE DEF ms
  <2>2. { ms[i].mode : i \in DOMAIN ms } = {PerTurn, HTTPSSE, "acp-stdio"}
    BY <2>1, <1>3
  <2> QED BY <2>2 DEF ModesOf, ms
<1>5. Cardinality(ModesOf(OpenCode)) = 3
  <2> DEFINE a == PerTurn
             b == HTTPSSE
             c == "acp-stdio"
  <2>1. a # b /\ a # c /\ b # c
    BY DEF ACP, Mode, Streaming, PerTurn, JSONRPC, HTTPSSE, PTYMode
  <2>2. ModesOf(OpenCode) = {a, b, c}
    BY <1>4
  <2> HIDE DEF a, b, c
  <2>3. Cardinality({a, b, c}) = 3
    BY <2>1, SizeOfThree
  <2> QED BY <2>2, <2>3
<1>6. \A i \in DOMAIN OpenCode.modes : Capable(OpenCode.modes[i].caps)
  BY <1>1, <1>2, <1>3, InIs, CapableAre
<1>7. NativeModes(OpenCode) = {PerTurn, HTTPSSE}
  BY <1>4 DEF NativeModes, ACP, Mode, Streaming, PerTurn, JSONRPC, HTTPSSE, PTYMode
<1>8. Shaped(OpenCode)
  <2>1. OpenCode.default = PerTurn
    BY DEF OpenCode, Descriptor, In
  <2>2. ModesOf(OpenCode) \subseteq Mode /\ OpenCode.default \in ModesOf(OpenCode) /\ (NativeModes(OpenCode) # {} => OpenCode.default \notin ACP)
    BY <2>1, <1>4, <1>7 DEF ACP, Mode, Streaming, PerTurn, JSONRPC, HTTPSSE, PTYMode
  <2> QED BY <1>1, <1>5, <1>6, <2>2 DEF Shaped, SpelledAs, Capable
<1>9. OpenCode.projection # {} /\ \A f \in OpenCode.projection : FactsHold(OpenCode, f)
  <2> DEFINE x == [m \in {PerTurn, HTTPSSE} |-> "absent"]
  <2>1. DOMAIN x = NativeModes(OpenCode) /\ \A m \in DOMAIN x : x[m] = "absent"
    BY <1>7
  <2>2. OpenCode.projection = {Facts("1.18.30", {"hooks", "trust"}, Effects, x)}
    BY DEF OpenCode, Descriptor
  <2> HIDE DEF x
  <2>3. FactsHold(OpenCode, Facts("1.18.30", {"hooks", "trust"}, Effects, x))
    BY <2>1, FactsAre DEF Mechanism
  <2> QED BY <2>2, <2>3
<1>10. MatchesLayout(OpenCode)
  BY <1>1, <1>7, <1>9, LayoutOf DEF MatchesLayout, Runtime
<1> QED BY <1>8, <1>10

\* Copilot is valid and agrees with the layout table.
LEMMA CopilotSound ==
  ASSUME SpelledAs(Copilot)
  PROVE  Shaped(Copilot) /\ MatchesLayout(Copilot)
<1>0. Copilot.modes = [i \in 1..2 |-> In(<<"acp-stdio", "acp-tcp">>[i], <<"typed-events", "approvals">>)]
  BY DEF Copilot, Descriptor
<1>2. /\ Copilot.modes[1] = In("acp-stdio", <<"typed-events", "approvals">>)
      /\ Copilot.modes[2] = In("acp-tcp", <<"typed-events", "approvals">>)
      /\ Copilot.modes # <<>> /\ DOMAIN Copilot.modes = 1..2 /\ Len(Copilot.modes) = 2
  BY <1>0
<1>1. /\ Copilot.id = "copilot" /\ Copilot.binary = "copilot" /\ Copilot.override = "COPILOT_CLI_PATH"
      /\ Copilot.default = Copilot.modes[1].mode
      /\ Copilot.modes # <<>> /\ DOMAIN Copilot.modes = 1..2 /\ Len(Copilot.modes) = 2
  <2> DEFINE ms == Copilot.modes
  <2>1. Copilot = Descriptor("copilot", <<"copilot-cli">>, "copilot", "COPILOT_CLI_PATH", ms, {}, "")
    BY <1>0 DEF Copilot
  <2>2. ms # <<>> /\ DOMAIN ms = 1..2 /\ Len(ms) = 2
    BY <1>2
  <2> HIDE DEF ms
  <2>3. /\ Copilot.id = "copilot" /\ Copilot.binary = "copilot" /\ Copilot.override = "COPILOT_CLI_PATH"
        /\ Copilot.default = ms[1].mode
    BY <2>1, <2>2 DEF Descriptor
  <2> QED BY <2>2, <2>3 DEF ms
<1>3. \A i \in 1..2 : i = 1 \/ i = 2
  OBVIOUS
<1>4. ModesOf(Copilot) = {"acp-stdio", "acp-tcp"}
  <2> DEFINE ms == Copilot.modes
  <2>1. DOMAIN ms = 1..2 /\ ms[1].mode = "acp-stdio" /\ ms[2].mode = "acp-tcp"
    BY <1>1, <1>2, InIs
  <2> HIDE DEF ms
  <2>2. { ms[i].mode : i \in DOMAIN ms } = {"acp-stdio", "acp-tcp"}
    BY <2>1, <1>3
  <2> QED BY <2>2 DEF ModesOf, ms
<1>5. Cardinality(ModesOf(Copilot)) = 2
  <2> DEFINE a == "acp-stdio"
             b == "acp-tcp"
  <2>1. a # b
    BY DEF ACP, Mode, Streaming, PerTurn, JSONRPC, HTTPSSE, PTYMode
  <2>2. ModesOf(Copilot) = {a, b}
    BY <1>4
  <2> HIDE DEF a, b
  <2>3. Cardinality({a, b}) = 2
    BY <2>1, SizeOfTwo
  <2> QED BY <2>2, <2>3
<1>6. \A i \in DOMAIN Copilot.modes : Capable(Copilot.modes[i].caps)
  BY <1>1, <1>2, <1>3, InIs, CapableAre
<1>7. NativeModes(Copilot) = {}
  BY <1>4 DEF NativeModes, ACP, Mode, Streaming, PerTurn, JSONRPC, HTTPSSE, PTYMode
<1>8. Shaped(Copilot)
  <2>1. Copilot.default = "acp-stdio"
    BY <1>1, <1>2, InIs
  <2>2. ModesOf(Copilot) \subseteq Mode /\ Copilot.default \in ModesOf(Copilot) /\ (NativeModes(Copilot) # {} => Copilot.default \notin ACP)
    BY <2>1, <1>4, <1>7 DEF ACP, Mode, Streaming, PerTurn, JSONRPC, HTTPSSE, PTYMode
  <2> QED BY <1>1, <1>5, <1>6, <2>2 DEF Shaped, SpelledAs, Capable
<1>9. Copilot.projection = {}
  BY DEF Copilot, Descriptor
<1>10. MatchesLayout(Copilot)
  BY <1>1, <1>7, <1>9, LayoutOf DEF MatchesLayout, Runtime
<1> QED BY <1>8, <1>10

\* Pi is valid and agrees with the layout table.
LEMMA PiSound ==
  ASSUME SpelledAs(Pi)
  PROVE  Shaped(Pi) /\ MatchesLayout(Pi)
<1>1. /\ Pi.id = "pi" /\ Pi.binary = "pi-acp" /\ Pi.override = "PIACP_CLI_PATH"
      /\ Pi.modes # <<>> /\ DOMAIN Pi.modes = 1..1 /\ Len(Pi.modes) = 1
  <2> DEFINE ms == <<In("acp-stdio", <<"resume", "typed-events">>)>>
             none == {}
  <2>1. Pi = Descriptor("pi", <<"pi-acp">>, "pi-acp", "PIACP_CLI_PATH", ms, none, "")
    BY DEF Pi
  <2>2. ms # <<>> /\ DOMAIN ms = 1..1 /\ Len(ms) = 1
    OBVIOUS
  <2> HIDE DEF ms, none
  <2> QED BY <2>1, <2>2 DEF Descriptor
<1>2. Pi.modes[1] = In("acp-stdio", <<"resume", "typed-events">>)
  BY DEF Pi, Descriptor
<1>3. \A i \in 1..1 : i = 1
  OBVIOUS
<1>4. ModesOf(Pi) = {"acp-stdio"}
  <2> DEFINE ms == Pi.modes
  <2>1. DOMAIN ms = 1..1 /\ ms[1].mode = "acp-stdio"
    BY <1>1, <1>2, InIs
  <2> HIDE DEF ms
  <2>2. { ms[i].mode : i \in DOMAIN ms } = {"acp-stdio"}
    BY <2>1, <1>3
  <2> QED BY <2>2 DEF ModesOf, ms
<1>5. Cardinality(ModesOf(Pi)) = 1
  <2> DEFINE a == "acp-stdio"
  <2>2. ModesOf(Pi) = {a}
    BY <1>4
  <2> HIDE DEF a
  <2>3. Cardinality({a}) = 1
    BY SizeOfOne
  <2> QED BY <2>2, <2>3
<1>6. \A i \in DOMAIN Pi.modes : Capable(Pi.modes[i].caps)
  BY <1>1, <1>2, <1>3, InIs, CapableAre
<1>7. NativeModes(Pi) = {}
  BY <1>4 DEF NativeModes, ACP, Mode, Streaming, PerTurn, JSONRPC, HTTPSSE, PTYMode
<1>8. Shaped(Pi)
  <2>1. Pi.default = "acp-stdio"
    BY DEF Pi, Descriptor, In
  <2>2. ModesOf(Pi) \subseteq Mode /\ Pi.default \in ModesOf(Pi) /\ (NativeModes(Pi) # {} => Pi.default \notin ACP)
    BY <2>1, <1>4, <1>7 DEF ACP, Mode, Streaming, PerTurn, JSONRPC, HTTPSSE, PTYMode
  <2> QED BY <1>1, <1>5, <1>6, <2>2 DEF Shaped, SpelledAs, Capable
<1>9. Pi.projection = {}
  BY DEF Pi, Descriptor
<1>10. MatchesLayout(Pi)
  BY <1>1, <1>7, <1>9, LayoutOf DEF MatchesLayout, Runtime
<1> QED BY <1>8, <1>10

\* Antigravity is valid and agrees with the layout table.
LEMMA AntigravitySound ==
  ASSUME SpelledAs(Antigravity)
  PROVE  Shaped(Antigravity) /\ MatchesLayout(Antigravity)
<1>1. /\ Antigravity.id = "antigravity" /\ Antigravity.binary = "agy" /\ Antigravity.override = "AGY_CLI_PATH"
      /\ Antigravity.modes # <<>> /\ DOMAIN Antigravity.modes = 1..1 /\ Len(Antigravity.modes) = 1
  BY DEF Antigravity, Descriptor, In
<1>2. /\ Antigravity.modes[1] = In(PerTurn, <<"resume", "resume-keeps-id", "typed-events", "auth-classifier",
                       "session-lost-classifier">>)
  BY DEF Antigravity, Descriptor
<1>3. \A i \in 1..1 : i = 1
  OBVIOUS
<1>4. ModesOf(Antigravity) = {PerTurn}
  <2> DEFINE ms == Antigravity.modes
  <2>1. DOMAIN ms = 1..1 /\ ms[1].mode = PerTurn
    BY <1>1, <1>2, InIs
  <2> HIDE DEF ms
  <2>2. { ms[i].mode : i \in DOMAIN ms } = {PerTurn}
    BY <2>1, <1>3
  <2> QED BY <2>2 DEF ModesOf, ms
<1>5. Cardinality(ModesOf(Antigravity)) = 1
  <2> DEFINE a == PerTurn
  <2>2. ModesOf(Antigravity) = {a}
    BY <1>4
  <2> HIDE DEF a
  <2>3. Cardinality({a}) = 1
    BY SizeOfOne
  <2> QED BY <2>2, <2>3
<1>6. \A i \in DOMAIN Antigravity.modes : Capable(Antigravity.modes[i].caps)
  BY <1>1, <1>2, <1>3, InIs, CapableAre
<1>7. NativeModes(Antigravity) = {PerTurn}
  BY <1>4 DEF NativeModes, ACP, Mode, Streaming, PerTurn, JSONRPC, HTTPSSE, PTYMode
<1>8. Shaped(Antigravity)
  <2>1. Antigravity.default = PerTurn
    BY DEF Antigravity, Descriptor, In
  <2>2. ModesOf(Antigravity) \subseteq Mode /\ Antigravity.default \in ModesOf(Antigravity) /\ (NativeModes(Antigravity) # {} => Antigravity.default \notin ACP)
    BY <2>1, <1>4, <1>7 DEF ACP, Mode, Streaming, PerTurn, JSONRPC, HTTPSSE, PTYMode
  <2> QED BY <1>1, <1>5, <1>6, <2>2 DEF Shaped, SpelledAs, Capable
<1>9. Antigravity.projection # {} /\ \A f \in Antigravity.projection : FactsHold(Antigravity, f)
  <2> DEFINE x == <<>>
  <2>1. DOMAIN x = {}
    OBVIOUS
  <2>2. Antigravity.projection = {Facts("1.2.7", {"trust"}, Effects, x)}
    BY DEF Antigravity, Descriptor
  <2> HIDE DEF x
  <2>3. FactsHold(Antigravity, Facts("1.2.7", {"trust"}, Effects, x))
    BY <2>1, FactsAre DEF Mechanism
  <2> QED BY <2>2, <2>3
<1>10. MatchesLayout(Antigravity)
  BY <1>1, <1>7, <1>9, LayoutOf DEF MatchesLayout, Runtime
<1> QED BY <1>8, <1>10

\* The names of each, as they are spelled.
Spellings(d) == {d.id} \union ToSet(d.aliases)

\* The names a built-in is known by.
LEMMA SpellingsAre ==
  /\ Spellings(Claude) = {"claude", "claude-code", "claudecode"} /\ Spellings(Codex) = {"codex"}
  /\ Spellings(OpenCode) = {"opencode", "open-code"} /\ Spellings(Copilot) = {"copilot", "copilot-cli"}
  /\ Spellings(Pi) = {"pi", "pi-acp"} /\ Spellings(Antigravity) = {"antigravity", "agy"}
<1>1. \A a : ToSet(<<a>>) = {a}
  BY DEF ToSet
<1>2. \A a, b : ToSet(<<a, b>>) = {a, b}
  BY DEF ToSet
<1>3. ToSet(<<>>) = {}
  BY DEF ToSet
<1> QED BY <1>1, <1>2, <1>3, AliasesAre DEF Spellings

\* They are already spelled the way they read.
LEMMA BuiltinNamesAre ==
  ASSUME NEW i \in DOMAIN Builtin
  PROVE  SpelledAs(Builtin[i]) /\ NamesOf(Builtin[i]) = Spellings(Builtin[i])
<1>1. Spellings(Builtin[i]) \subseteq BuiltinNames
  BY DEF BuiltinNames, Spellings
<1>2. \A n \in BuiltinNames : Normalize(n) = n
  BY RegistryAssumption DEF Normalize
<1>3. "" \notin Spellings(Builtin[i])
  <2>1. i = 1 \/ i = 2 \/ i = 3 \/ i = 4 \/ i = 5 \/ i = 6
    BY AliasesAre
  <2>2. /\ "" \notin Spellings(Claude) /\ "" \notin Spellings(Codex) /\ "" \notin Spellings(OpenCode)
        /\ "" \notin Spellings(Copilot) /\ "" \notin Spellings(Pi) /\ "" \notin Spellings(Antigravity)
    BY SpellingsAre
  <2> QED BY <2>1, <2>2, AliasesAre
<1>4. ASSUME NEW q \in DOMAIN Builtin[i].aliases PROVE Normalize(Builtin[i].aliases[q]) # ""
  <2>1. Builtin[i].aliases[q] \in Spellings(Builtin[i])
    BY DEF ToSet, Spellings
  <2> QED BY <1>1, <1>2, <1>3, <2>1
<1>5. Normalize(Builtin[i].id) = Builtin[i].id
  BY <1>1, <1>2 DEF Spellings
<1>6. NamesOf(Builtin[i]) = Spellings(Builtin[i])
  BY <1>1, <1>2 DEF NamesOf, Spellings
<1> QED BY <1>4, <1>5, <1>6 DEF SpelledAs

\* What registering the built-ins one after the other needs: each is valid and
\* agrees with the layout table, and no two share a name.
BuiltinsAreSound ==
  /\ \A i \in 1..Len(Builtin) : Shaped(Builtin[i]) /\ MatchesLayout(Builtin[i])
  /\ \A i, j \in 1..Len(Builtin) : NamesOf(Builtin[i]) \intersect NamesOf(Builtin[j]) # {} => i = j

\* All six pass the checks they are registered with, so the package's init
\* never panics, whatever names are written in other letters.
THEOREM BuiltinsSound == BuiltinsAreSound
<1>1. \A i \in 1..6 : i = 1 \/ i = 2 \/ i = 3 \/ i = 4 \/ i = 5 \/ i = 6
  OBVIOUS
<1>2. ASSUME NEW i \in 1..6 PROVE Shaped(Builtin[i]) /\ MatchesLayout(Builtin[i])
  <2>1. SpelledAs(Builtin[i])
    BY AliasesAre, BuiltinNamesAre
  <2> QED BY <1>1, <2>1, AliasesAre, ClaudeSound, CodexSound, OpenCodeSound, CopilotSound, PiSound, AntigravitySound
<1>3. ASSUME NEW i \in 1..6, NEW j \in 1..6, NEW n \in NamesOf(Builtin[i]), n \in NamesOf(Builtin[j])
      PROVE  i = j
  <2>1. \A q \in 1..6 : NamesOf(Builtin[q]) = Spellings(Builtin[q])
    BY AliasesAre, BuiltinNamesAre
  <2>2. n \in Spellings(Builtin[i]) /\ n \in Spellings(Builtin[j])
    BY <1>3, <2>1
  <2>3. /\ Spellings(Builtin[1]) = {"claude", "claude-code", "claudecode"} /\ Spellings(Builtin[2]) = {"codex"}
        /\ Spellings(Builtin[3]) = {"opencode", "open-code"} /\ Spellings(Builtin[4]) = {"copilot", "copilot-cli"}
        /\ Spellings(Builtin[5]) = {"pi", "pi-acp"} /\ Spellings(Builtin[6]) = {"antigravity", "agy"}
    BY SpellingsAre, AliasesAre
  <2> QED BY <1>1, <2>2, <2>3
<1> QED BY <1>2, <1>3, AliasesAre DEF BuiltinsAreSound

-----------------------------------------------------------------------------
(* The steps of the registry. *)

\* A test holds what it registered.
LEMMA HeldFacts ==
  ASSUME RegTypeOK, NEW t \in Tests
  PROVE  /\ held[t] \in Seq(Offered) /\ Len(held[t]) \in Nat /\ DOMAIN held[t] = 1..Len(held[t])
         /\ Len(held[t]) <= MaxHeld
         /\ \A q \in DOMAIN held[t] : <<t, q>> \in Pending
<1>1. held[t] \in Seq(Offered) /\ Len(held[t]) \in Nat /\ DOMAIN held[t] = 1..Len(held[t])
      /\ Len(held[t]) <= MaxHeld
  BY LenProperties DEF RegTypeOK
<1>2. MaxHeld \in Nat
  BY RegistryAssumption
<1>3. ASSUME NEW q \in DOMAIN held[t]
      PROVE  <<t, q>> \in Pending
  <2>1. q \in 1..MaxHeld
    BY <1>1, <1>2
  <2> QED BY <2>1 DEF Pending
<1> QED BY <1>1, <1>3

\* Each entry is a built-in or one a test offered.
LEMMA EntriesFacts ==
  ASSUME RegTypeOK
  PROVE  /\ entries \in Seq(Described) /\ Len(entries) \in Nat /\ DOMAIN entries = 1..Len(entries)
         /\ booted \in Nat
  BY LenProperties DEF RegTypeOK

\* The descriptors whose removal is still to come are finitely many.
LEMMA PendingFinite == IsFiniteSet(Pending)
<1>1. IsFiniteSet(Tests) /\ MaxHeld \in Nat /\ IsFiniteSet(1..MaxHeld)
  BY RegistryAssumption, FS_Interval
<1>2. IsFiniteSet(Tests \X (1..MaxHeld))
  BY <1>1, FS_Product
<1> QED BY <1>2, FS_Subset DEF Pending

\* No test holds any at first.
LEMMA NothingPending ==
  ASSUME \A t \in Tests : held[t] = <<>>
  PROVE  Pending = {} /\ Cardinality(Pending) = 0
  BY FS_EmptySet DEF Pending

\* RegisterForTest adds one.
LEMMA PendingGrows ==
  ASSUME NEW t \in Tests, NEW m \in 1..MaxHeld,
         \A u \in Tests : \A q : q \in DOMAIN held'[u] <=> (q \in DOMAIN held[u] \/ (u = t /\ q = m))
  PROVE  Pending' = Pending \union {<<t, m>>}
<1>1. ASSUME NEW u \in Tests, NEW q \in 1..MaxHeld
      PROVE  <<u, q>> \in Pending' <=> <<u, q>> \in Pending \union {<<t, m>>}
  BY DEF Pending
<1>2. \A x : x \in Pending' \/ x \in Pending \union {<<t, m>>} =>
               \E u \in Tests, q \in 1..MaxHeld : x = <<u, q>>
  BY DEF Pending
<1> QED BY <1>1, <1>2

\* A cleanup takes one away.
LEMMA PendingShrinks ==
  ASSUME NEW t \in Tests, NEW m,
         \A u \in Tests : \A q : q \in DOMAIN held'[u] <=> (q \in DOMAIN held[u] /\ ~(u = t /\ q = m))
  PROVE  Pending' = Pending \ {<<t, m>>}
<1>1. ASSUME NEW u \in Tests, NEW q \in 1..MaxHeld
      PROVE  <<u, q>> \in Pending' <=> <<u, q>> \in Pending \ {<<t, m>>}
  BY DEF Pending
<1>2. \A x : x \in Pending' \/ x \in Pending =>
               \E u \in Tests, q \in 1..MaxHeld : x = <<u, q>>
  BY DEF Pending
<1> QED BY <1>1, <1>2

\* The registry starts in the invariant.
LEMMA RegInitCorrect == RegInit => RegInv
<1> SUFFICES ASSUME RegInit PROVE RegInv
  OBVIOUS
<1> USE DEF RegInit
<1>1. Len(Builtin) = 6
  BY DEF Builtin
<1>2. \A S : <<>> \in Seq(S) /\ Len(<<>>) = 0 /\ DOMAIN <<>> = {}
  BY EmptySeq
<1>3. MaxHeld \in Nat
  BY RegistryAssumption
<1>4. RegTypeOK
  BY <1>1, <1>2, <1>3 DEF RegTypeOK
<1>5. Indexed
  BY <1>2 DEF Indexed, IndexOf
<1>6. Leads(entries, booted)
  BY <1>2 DEF Leads
<1>7. Owned
  BY <1>2 DEF Owned
<1>8. Counted
  BY <1>2, NothingPending DEF Counted
<1> QED BY <1>4, <1>5, <1>6, <1>7, <1>8 DEF RegInv

\* What register does to the list and to the index.
LEMMA AddFacts ==
  ASSUME RegTypeOK, Indexed, NEW d \in Described, ~Collides(d), Add(d)
  PROVE  /\ entries' \in Seq(Described) /\ Indexed' /\ Len(entries') = Len(entries) + 1
         /\ entries'[Len(entries) + 1] = d
         /\ \A q \in DOMAIN entries : entries'[q] = entries[q] /\ entries[q] # d
<1>1. entries \in Seq(Described) /\ entries' = Append(entries, d)
  BY DEF RegTypeOK, Add
<1>2. Indexed'
  <2>1. /\ IndexOf(entries, byName) /\ NamesOf(d) \intersect DOMAIN byName = {}
        /\ DOMAIN byName' = NamesOf(d) \union DOMAIN byName
        /\ \A n \in DOMAIN byName' : byName'[n] = IF n \in NamesOf(d) THEN Len(entries) + 1 ELSE byName[n]
    BY DEF Indexed, Add, Collides
  <2>2. IndexOf(entries', byName')
    BY <2>1, <1>1, IndexGrows
  <2> QED BY <2>2 DEF Indexed
<1>3. /\ entries' \in Seq(Described) /\ Len(entries') = Len(entries) + 1
      /\ entries'[Len(entries) + 1] = d
      /\ \A q \in DOMAIN entries : entries'[q] = entries[q]
  BY <1>1, AppendProperties, LenProperties
<1>4. ASSUME NEW q \in DOMAIN entries
      PROVE  entries[q] # d
  BY NamesNotEmpty DEF Indexed, IndexOf, Collides
<1> QED BY <1>2, <1>3, <1>4

\* Registering a built-in keeps the invariant.
LEMMA RegisterKeeps ==
  ASSUME RegInv, Register
  PROVE  RegInv'
<1> DEFINE d == Builtin[booted + 1]
<1>1. Len(Builtin) = 6 /\ DOMAIN Builtin = 1..6
  BY DEF Builtin
<1>2. booted \in 0..6 /\ booted # 6 /\ booted + 1 \in 1..6
  BY <1>1 DEF RegInv, RegTypeOK, Register, Ready
<1>3. \A t \in Tests : held[t] = <<>>
  BY <1>1, <1>2 DEF RegInv, Counted
<1>4. Len(entries) = booted
  BY <1>2, <1>3, NothingPending DEF RegInv, Counted
<1>5. d \in Described
  BY <1>1, <1>2 DEF Described, ToSet
<1>6. ~Collides(d)
  <2> SUFFICES ASSUME NEW n \in NamesOf(d), n \in DOMAIN byName PROVE FALSE
    BY DEF Collides
  <2>1. PICK q \in DOMAIN entries : n \in NamesOf(entries[q])
    BY DEF RegInv, Indexed, IndexOf
  <2>2. q \in 1..booted /\ entries[q] = Builtin[q]
    BY <1>4, EntriesFacts DEF RegInv, Leads
  <2>3. q \in 1..6 /\ q # booted + 1
    BY <2>2, <1>2
  <2> QED BY <2>1, <2>2, <2>3, <1>1, <1>2, BuiltinsSound DEF BuiltinsAreSound
<1>7. /\ Add(d) /\ booted' = booted + 1 /\ panicked' = panicked /\ held' = held /\ testing' = testing
  BY <1>1, <1>2, <1>6, BuiltinsSound DEF Register, BuiltinsAreSound
<1> HIDE DEF d
<1>8. /\ entries' \in Seq(Described) /\ Indexed' /\ Len(entries') = Len(entries) + 1
      /\ entries'[Len(entries) + 1] = d
      /\ \A q \in DOMAIN entries : entries'[q] = entries[q]
  BY <1>5, <1>6, <1>7, AddFacts DEF RegInv
<1>9. RegTypeOK'
  BY <1>1, <1>2, <1>7, <1>8 DEF RegInv, RegTypeOK
<1>10. Leads(entries, booted)'
  <2> SUFFICES ASSUME NEW i \in 1..(booted + 1) PROVE entries'[i] = Builtin[i]
    BY <1>2, <1>4, <1>7, <1>8 DEF Leads
  <2>1. CASE i \in 1..booted
    <3>1. i \in DOMAIN entries /\ entries[i] = Builtin[i]
      BY <2>1, <1>4, EntriesFacts DEF RegInv, Leads
    <3> QED BY <3>1, <1>8
  <2>2. CASE i = booted + 1
    BY <2>2, <1>4, <1>8 DEF d
  <2> QED BY <2>1, <2>2, <1>2
<1>11. \A t \in Tests : held'[t] = <<>>
  BY <1>3, <1>7
<1>12. Owned'
  BY <1>11, EmptySeq DEF Owned
<1>13. Counted'
  <2>1. Pending' = {}
    <3> SUFFICES ASSUME NEW x \in Pending' PROVE FALSE
      OBVIOUS
    <3>1. x[1] \in Tests /\ x[2] \in DOMAIN held'[x[1]]
      BY DEF Pending
    <3> QED BY <3>1, <1>11
  <2>2. Cardinality(Pending') = 0
    BY <2>1, FS_EmptySet
  <2> QED BY <2>2, <1>2, <1>4, <1>7, <1>8, <1>11 DEF Counted
<1> QED BY <1>8, <1>9, <1>10, <1>12, <1>13 DEF RegInv

\* So does registering for a test.
LEMMA RegisterForTestKeeps ==
  ASSUME RegInv, NEW t \in Tests, NEW d \in Offered, RegisterForTest(t, d)
  PROVE  RegInv'
<1> USE DEF RegInv
<1>1. booted \in 0..Len(Builtin) /\ booted = Len(Builtin) /\ booted \in Nat /\ booted' = booted /\ panicked' = panicked
  BY EntriesFacts DEF RegisterForTest, RegTypeOK, Ready
<1>2. CASE ~(Shaped(d) /\ ~Collides(d))
  <2>1. entries' = entries /\ byName' = byName /\ held' = held
        /\ testing' = [testing EXCEPT ![t] = "ending"]
    BY <1>2 DEF RegisterForTest
  <2>2. RegTypeOK'
    BY <1>1, <2>1 DEF RegTypeOK
  <2>3. Indexed' /\ Leads(entries, booted)' /\ Owned' /\ Counted'
    BY <1>1, <2>1, SMTT(30) DEF Indexed, IndexOf, Leads, Owned, Counted, Pending
  <2> QED BY <2>2, <2>3
<1>3. CASE Shaped(d) /\ ~Collides(d)
  <2> DEFINE n == Len(held[t])
  <2>1. /\ Add(d) /\ held' = [held EXCEPT ![t] = Append(@, d)] /\ testing' = testing /\ n < MaxHeld
    BY <1>3 DEF RegisterForTest
  <2>2. d \in Described
    BY DEF Described
  <2>3. /\ entries' \in Seq(Described) /\ Indexed' /\ Len(entries') = Len(entries) + 1
        /\ entries'[Len(entries) + 1] = d
        /\ \A q \in DOMAIN entries : entries'[q] = entries[q] /\ entries[q] # d
    BY <1>3, <2>1, <2>2, AddFacts
  <2>4. /\ held[t] \in Seq(Offered) /\ n \in Nat /\ DOMAIN held[t] = 1..n /\ MaxHeld \in Nat
    BY HeldFacts, RegistryAssumption
  <2>5. /\ held'[t] = Append(held[t], d) /\ \A u \in Tests \ {t} : held'[u] = held[u]
    BY <2>1 DEF RegTypeOK
  <2>6. /\ held'[t] \in Seq(Offered) /\ Len(held'[t]) = n + 1 /\ DOMAIN held'[t] = 1..(n+1)
        /\ held'[t][n+1] = d /\ \A q \in 1..n : held'[t][q] = held[t][q]
    BY <2>4, <2>5, AppendProperties, LenProperties
  <2> HIDE DEF n
  <2>7. RegTypeOK'
    <3>1. held' \in [Tests -> Seq(Offered)]
      BY <2>1, <2>5, <2>6 DEF RegTypeOK
    <3>2. \A u \in Tests : Len(held'[u]) <= MaxHeld
      BY <2>1, <2>4, <2>5, <2>6 DEF RegTypeOK
    <3> QED BY <3>1, <3>2, <1>1, <2>1, <2>3 DEF RegTypeOK
  <2>8. Leads(entries, booted)'
    <3>1. \A i \in 1..booted : i \in DOMAIN entries
      BY <1>1, EntriesFacts DEF Leads
    <3> QED BY <3>1, <1>1, <2>3, EntriesFacts DEF Leads
  \* What is held is what was held, and d.
  <2>9. ASSUME NEW u \in Tests, NEW q \in DOMAIN held'[u]
        PROVE  \/ u = t /\ q = n + 1 /\ held'[u][q] = d
               \/ q \in DOMAIN held[u] /\ held'[u][q] = held[u][q]
    <3>1. CASE u # t
      BY <3>1, <2>5
    <3>2. CASE u = t /\ q = n + 1
      BY <3>2, <2>6
    <3>3. CASE u = t /\ q \in 1..n
      BY <3>3, <2>4, <2>6
    <3>4. u = t => q \in 1..(n + 1)
      BY <2>6
    <3>5. u = t => q = n + 1 \/ q \in 1..n
      BY <3>4, <2>4
    <3> QED BY <3>1, <3>2, <3>3, <3>5
  <2>10. \A u \in Tests : \A q \in DOMAIN held[u] :
           \E j \in (booted+1)..Len(entries) : j \in DOMAIN entries /\ entries[j] = held[u][q]
    BY <1>1, EntriesFacts DEF Owned
  <2>11. Owned'
    <3>1. ASSUME NEW u \in Tests, NEW q \in DOMAIN held'[u]
          PROVE  \E j \in (booted'+1)..Len(entries') : entries'[j] = held'[u][q]
      <4>1. CASE held'[u][q] = d
        <5>1. Len(entries) + 1 \in (booted'+1)..Len(entries')
          BY <1>1, <2>3, EntriesFacts DEF Leads
        <5> QED BY <5>1, <4>1, <2>3
      <4>2. CASE q \in DOMAIN held[u] /\ held'[u][q] = held[u][q]
        <5>1. PICK j \in (booted+1)..Len(entries) : j \in DOMAIN entries /\ entries[j] = held[u][q]
          BY <4>2, <2>10
        <5>2. j \in (booted'+1)..Len(entries') /\ entries'[j] = entries[j]
          BY <5>1, <1>1, <2>3, EntriesFacts
        <5> QED BY <5>1, <5>2, <4>2
      <4> QED BY <4>1, <4>2, <2>9
    <3>2. ASSUME NEW u \in Tests, NEW v \in Tests, NEW q \in DOMAIN held'[u], NEW l \in DOMAIN held'[v],
                 held'[u][q] = held'[v][l]
          PROVE  u = v /\ q = l
      <4>1. \A w \in Tests : \A m \in DOMAIN held[w] : held[w][m] # d
        BY <2>3, <2>10
      <4> QED BY <4>1, <2>9, <3>2 DEF Owned
    <3> QED BY <3>1, <3>2 DEF Owned
  <2>12. Counted'
    <3>1. Pending' = Pending \union {<<t, n+1>>}
      <4>1. n + 1 \in 1..MaxHeld
        BY <2>1, <2>4
      <4>2. 1..(n+1) = (1..n) \union {n+1}
        BY <2>4
      <4>3. DOMAIN held'[t] = DOMAIN held[t] \union {n+1}
        BY <4>2, <2>4, <2>6
      <4>4. \A u \in Tests : \A q : q \in DOMAIN held'[u] <=> (q \in DOMAIN held[u] \/ (u = t /\ q = n+1))
        BY <4>3, <2>5
      <4> QED BY <4>1, <4>4, PendingGrows
    <3>2. <<t, n+1>> \notin Pending
      BY <2>4 DEF Pending
    <3>3. Cardinality(Pending') = Cardinality(Pending) + 1 /\ Cardinality(Pending) \in Nat
      BY <3>1, <3>2, PendingFinite, FS_AddElement, FS_CardinalityType
    <3> QED BY <3>3, <1>1, <2>3, EntriesFacts DEF Counted
  <2> QED BY <2>3, <2>7, <2>8, <2>11, <2>12
<1> QED BY <1>2, <1>3

\* So does a test's cleanup.
LEMMA CleanupKeeps ==
  ASSUME RegInv, NEW t \in Tests, Cleanup(t)
  PROVE  RegInv'
<1> USE DEF RegInv
<1> DEFINE n == Len(held[t])
<1>1. /\ held[t] # <<>> /\ RemoveByID(held[t][n].id) /\ held' = [held EXCEPT ![t] = Front(@)]
      /\ booted' = booted /\ panicked' = panicked /\ testing' = testing
  BY DEF Cleanup, Last
<1>2. /\ held[t] \in Seq(Offered) /\ n \in Nat /\ DOMAIN held[t] = 1..n /\ n # 0 /\ MaxHeld \in Nat /\ n <= MaxHeld
  BY <1>1, HeldFacts, RegistryAssumption, EmptySeq
<1>3. n \in DOMAIN held[t]
  BY <1>2
<1>4. PICK j \in (booted+1)..Len(entries) : entries[j] = held[t][n]
  BY <1>3 DEF Owned
<1>5. j \in DOMAIN entries /\ j \in 1..Len(entries) /\ j > booted /\ booted \in Nat /\ Len(entries) \in Nat
  BY EntriesFacts
<1>6. entries' = RemoveAt(entries, j) /\ byName' = Rebuilt(entries')
  BY <1>1, <1>4, <1>5, RemovesIt
<1>7. /\ entries' \in Seq(Described) /\ Len(entries') = Len(entries) - 1
      /\ DOMAIN entries' = 1..(Len(entries) - 1)
      /\ \A q \in 1..(Len(entries) - 1) : entries'[q] = IF q < j THEN entries[q] ELSE entries[q+1]
  BY <1>5, <1>6, RemoveAtFacts, EntriesFacts
<1>8. Indexed'
  <2>1. ASSUME NEW q \in DOMAIN entries', NEW l \in DOMAIN entries', NEW x,
               x \in NamesOf(entries'[q]), x \in NamesOf(entries'[l])
        PROVE  q = l
    <3> DEFINE Was(i) == IF i < j THEN i ELSE i + 1
    <3>1. /\ Was(q) \in DOMAIN entries /\ Was(l) \in DOMAIN entries
          /\ entries'[q] = entries[Was(q)] /\ entries'[l] = entries[Was(l)]
          /\ Was(q) = Was(l) => q = l
      BY <1>5, <1>7, EntriesFacts
    <3> HIDE DEF Was
    <3>2. Was(q) = Was(l)
      BY <3>1, <2>1, IndexedOnce DEF Indexed
    <3> QED BY <3>1, <3>2
  <2>2. IndexOf(entries', Rebuilt(entries'))
    BY <2>1, <1>7, RebuiltIsIndex
  <2> QED BY <2>2, <1>6 DEF Indexed
<1>9. Leads(entries, booted)'
  <2>1. booted <= Len(entries')
    BY <1>5, <1>7
  <2>2. ASSUME NEW i \in 1..booted PROVE entries'[i] = Builtin[i]
    <3>1. i < j /\ i \in 1..(Len(entries) - 1) /\ entries[i] = Builtin[i]
      BY <1>5 DEF Leads
    <3> QED BY <3>1, <1>7
  <2> QED BY <2>1, <2>2, <1>1 DEF Leads
<1>10. /\ held'[t] = Front(held[t]) /\ \A u \in Tests \ {t} : held'[u] = held[u]
  BY <1>1 DEF RegTypeOK
<1>11. /\ held'[t] \in Seq(Offered) /\ Len(held'[t]) = n - 1 /\ DOMAIN held'[t] = 1..(n - 1)
       /\ \A q \in 1..(n-1) : held'[t][q] = held[t][q]
  <2> DEFINE f == Front(held[t])
  <2>1. f \in Seq(Offered) /\ Len(f) = n - 1 /\ \A q \in 1..(n-1) : f[q] = held[t][q]
    BY <1>1, <1>2, FrontIs
  <2> HIDE DEF f
  <2>2. DOMAIN f = 1..(n-1)
    BY <2>1, LenProperties
  <2>3. held'[t] = f
    BY <1>10 DEF f
  <2> QED BY <2>1, <2>2, <2>3
<1> HIDE DEF n
<1>12. RegTypeOK'
  <2>1. held' \in [Tests -> Seq(Offered)]
    BY <1>1, <1>10, <1>11 DEF RegTypeOK
  <2>2. \A u \in Tests : Len(held'[u]) <= MaxHeld
    BY <1>2, <1>10, <1>11 DEF RegTypeOK
  <2> QED BY <2>1, <2>2, <1>1, <1>7 DEF RegTypeOK
<1>13. ASSUME NEW u \in Tests, NEW q \in DOMAIN held'[u]
       PROVE  q \in DOMAIN held[u] /\ held'[u][q] = held[u][q] /\ ~(u = t /\ q = n)
  BY <1>2, <1>10, <1>11
<1>14. Owned'
  <2>1. ASSUME NEW u \in Tests, NEW q \in DOMAIN held'[u]
        PROVE  \E m \in (booted'+1)..Len(entries') : entries'[m] = held'[u][q]
    <3>1. q \in DOMAIN held[u] /\ held'[u][q] = held[u][q] /\ ~(u = t /\ q = n)
      BY <1>13
    <3>2. PICK m \in (booted+1)..Len(entries) : entries[m] = held[u][q]
      BY <3>1 DEF Owned
    <3>3. m # j
      BY <3>1, <3>2, <1>3, <1>4 DEF Owned
    <3>4. CASE m < j
      <4>1. m \in (booted'+1)..Len(entries') /\ m \in 1..(Len(entries) - 1)
        BY <3>4, <1>1, <1>5, <1>7
      <4> QED BY <4>1, <3>4, <3>1, <3>2, <1>7
    <3>5. CASE m > j
      <4>1. /\ m - 1 \in (booted'+1)..Len(entries') /\ m - 1 \in 1..(Len(entries) - 1)
            /\ ~(m - 1 < j) /\ (m - 1) + 1 = m
        BY <3>5, <1>1, <1>5, <1>7
      <4>2. entries'[m - 1] = entries[m]
        BY <4>1, <1>7
      <4> QED BY <4>1, <4>2, <3>1, <3>2
    <3> QED BY <3>3, <3>4, <3>5, <1>5
  <2>2. ASSUME NEW u \in Tests, NEW v \in Tests, NEW q \in DOMAIN held'[u], NEW l \in DOMAIN held'[v],
               held'[u][q] = held'[v][l]
        PROVE  u = v /\ q = l
    BY <1>13, <2>2 DEF Owned
  <2> QED BY <2>1, <2>2 DEF Owned
<1>15. Counted'
  <2>1. Pending' = Pending \ {<<t, n>>}
    <3>1. 1..(n-1) = (1..n) \ {n}
      BY <1>2
    <3>2. DOMAIN held'[t] = DOMAIN held[t] \ {n}
      BY <3>1, <1>2, <1>11
    <3>3. \A u \in Tests : \A q : q \in DOMAIN held'[u] <=> (q \in DOMAIN held[u] /\ ~(u = t /\ q = n))
      BY <3>2, <1>10
    <3> QED BY <3>3, PendingShrinks
  <2>2. <<t, n>> \in Pending
    BY <1>3, HeldFacts
  <2>3. Cardinality(Pending') = Cardinality(Pending) - 1 /\ Cardinality(Pending) \in Nat
    BY <2>1, <2>2, PendingFinite, FS_RemoveElement, FS_CardinalityType
  <2>4. booted = Len(Builtin)
    BY <1>1 DEF Counted
  <2> QED BY <2>3, <2>4, <1>1, <1>5, <1>7 DEF Counted
<1> QED BY <1>7, <1>8, <1>9, <1>12, <1>14, <1>15

\* Every step of the registry keeps it.
LEMMA RegStepKeeps ==
  ASSUME RegInv, [RegNext]_regVars
  PROVE  RegInv'
<1>1. CASE UNCHANGED regVars
  <2>1. /\ entries' = entries /\ byName' = byName /\ booted' = booted
        /\ panicked' = panicked /\ held' = held /\ testing' = testing
    BY <1>1 DEF regVars
  <2>2. Pending' = Pending
    BY <2>1 DEF Pending
  <2>3. RegTypeOK' /\ Indexed' /\ Leads(entries, booted)'
    BY <2>1 DEF RegInv, RegTypeOK, Indexed, IndexOf, Leads
  <2>4. Owned' /\ Counted'
    BY <2>1, <2>2 DEF RegInv, Owned, Counted
  <2> QED BY <2>3, <2>4 DEF RegInv
<1>2. CASE Register
  BY <1>2, RegisterKeeps
<1>3. ASSUME NEW t \in Tests, NEW d \in Offered, RegisterForTest(t, d)
      PROVE  RegInv'
  BY <1>3, RegisterForTestKeeps
<1>4. ASSUME NEW t \in Tests, FinishTest(t)
      PROVE  RegInv'
  <2>1. RegTypeOK'
    BY <1>4 DEF FinishTest, RegInv, RegTypeOK
  <2> QED BY <2>1, <1>4, SMTT(30) DEF FinishTest, RegInv, Indexed, IndexOf, Leads, Owned, Counted, Pending
<1>5. ASSUME NEW t \in Tests, Cleanup(t)
      PROVE  RegInv'
  BY <1>5, CleanupKeeps
<1> QED BY <1>1, <1>2, <1>3, <1>4, <1>5 DEF RegNext

\* Nobody loses what it registered, as the invariant has it.
LEMMA RegInvSuffices == RegInv => OwnersKeepTheirs
<1> SUFFICES ASSUME RegInv PROVE OwnersKeepTheirs
  OBVIOUS
<1> USE DEF RegInv
<1>1. ASSUME NEW t \in Tests, NEW q \in DOMAIN held[t], NEW n \in NamesOf(held[t][q])
      PROVE  n \in DOMAIN byName /\ byName[n] \in DOMAIN entries /\ entries[byName[n]] = held[t][q]
  <2>1. PICK j \in (booted+1)..Len(entries) : entries[j] = held[t][q]
    BY DEF Owned
  <2>2. j \in DOMAIN entries
    BY EntriesFacts
  <2> QED BY <2>1, <2>2 DEF Indexed, IndexOf
<1> QED BY <1>1 DEF OwnersKeepTheirs, RegTypeOK, Leads, Counted

\* The registry stays in step with its owners: whatever the other tests
\* register and remove, and in whatever order their cleanups run, a test finds
\* what it registered by every name until its own cleanup, and no built-in is
\* refused, moved or lost.
THEOREM OwnersAreKept == RegSpec => []OwnersKeepTheirs
<1>1. RegInv /\ [RegNext]_regVars => RegInv'
  BY RegStepKeeps
<1>2. RegSpec => []RegInv
  BY <1>1, RegInitCorrect, PTL DEF RegSpec
<1> QED BY <1>2, RegInvSuffices, PTL

-----------------------------------------------------------------------------

\* What the host hands the CLI then.
Handed(l, in, extra) ==
  LET prepared == ResolveTurn(l.conv, Roots, in, extra)
      env == IF l.path = "fields" THEN Over(LegacyEnv(l.adapter, Roots), l.set.env)
             ELSE ApplyEnvDeltas(l.set.env, prepared.env)
  IN  [cwd |-> IF l.path = "fields" THEN SpawnWorkdir(l.adapter, Roots) ELSE prepared.cwd,
       argv |-> IF l.path = "fields" THEN BuildArgs(l.adapter, in, extra) ELSE prepared.argv,
       env |-> Over([n \in { v[1] : v \in Promised(l).env } |-> <<l.set.posture>>], env)]

\* A built-in that is registered is found by its id.
LEMMA LooksUp ==
  ASSUME RegInv, Ready, NEW r \in Runtime
  PROVE  Known(r) /\ Lookup(r) = BuiltinOf(r)
<1>1. PICK i \in 1..6 : BuiltinOf(r) = Builtin[i] /\ Builtin[i].id = r
  BY BuiltinOfIs
<1>2. booted = 6 /\ 6 <= Len(entries) /\ entries[i] = Builtin[i]
  BY AliasesAre DEF RegInv, Leads, Ready
<1>3. i \in DOMAIN entries
  BY <1>2, EntriesFacts DEF RegInv
<1>4. Normalize(r) \in NamesOf(entries[i])
  BY <1>1, <1>2 DEF NamesOf
<1>5. byName[Normalize(r)] = i /\ Normalize(r) \in DOMAIN byName
  BY <1>3, <1>4 DEF RegInv, Indexed, IndexOf
<1> QED BY <1>1, <1>2, <1>5 DEF Known, Lookup

\* What the host reads of the registry is what the built-in says.
LEMMA CarriedIs ==
  ASSUME RegInv, Ready, NEW l, l.conv.runtime \in Runtime
  PROVE  /\ Carried(l) = Promised(l)
         /\ \A in, extra : Bound(l, in, extra) = Handed(l, in, extra)
<1>1. Carried(l) = Promised(l)
  BY LooksUp, Zenon DEF Carried, Promised
<1>2. ASSUME NEW in, NEW extra PROVE Bound(l, in, extra) = Handed(l, in, extra)
  BY <1>1, Zenon DEF Bound, Handed
<1> QED BY <1>1, <1>2

\* Neither OpenCode nor Antigravity can be made exclusive.
LEMMA NeverExclusive ==
  ASSUME NEW m
  PROVE  /\ MCPExclusivity(OpenCode, m) \notin {"flag", "projected-layout"}
         /\ MCPExclusivity(Antigravity, m) \notin {"flag", "projected-layout"}
<1> DEFINE absent == [x \in {PerTurn, HTTPSSE} |-> "absent"]
           f == Facts("1.18.30", {"hooks", "trust"}, Effects, absent)
           g == Facts("1.2.7", {"trust"}, Effects, <<>>)
<1>1. OpenCode.projection = {f} /\ Antigravity.projection = {g}
  BY DEF OpenCode, Antigravity, Descriptor
<1>2. f.exclusive = absent /\ g.exclusive = <<>>
  BY DEF Facts
<1>3. m \in DOMAIN f.exclusive => f.exclusive[m] = "absent"
  BY <1>2
<1>4. m \notin DOMAIN g.exclusive
  BY <1>2
<1> HIDE DEF f, g
<1>5. ASSUME NEW d, NEW h, d.projection = {h}
      PROVE  MCPExclusivity(d, m) = IF m \in DOMAIN h.exclusive THEN h.exclusive[m] ELSE ""
  <2> DEFINE M == { x \in d.projection : m \in DOMAIN x.exclusive }
  <2>1. CASE m \in DOMAIN h.exclusive
    <3>1. M = {h}
      BY <1>5, <2>1
    <3>2. (CHOOSE x \in M : TRUE) = h /\ M # {}
      BY <3>1
    <3> QED BY <2>1, <3>2, Zenon DEF MCPExclusivity
  <2>2. CASE m \notin DOMAIN h.exclusive
    <3>1. M = {}
      BY <1>5, <2>2
    <3> QED BY <2>2, <3>1, Zenon DEF MCPExclusivity
  <2> QED BY <2>1, <2>2
<1>6. MCPExclusivity(OpenCode, m) = "" \/ MCPExclusivity(OpenCode, m) = "absent"
  BY <1>1, <1>3, <1>5, Zenon
<1>7. MCPExclusivity(Antigravity, m) = ""
  BY <1>1, <1>4, <1>5, Zenon
<1>8. "" # "flag" /\ "" # "projected-layout" /\ "absent" # "flag" /\ "absent" # "projected-layout"
  BY Zenon
<1> QED BY <1>6, <1>7, <1>8, Zenon

\* A launch that is made exclusive is one of Claude's or Codex's.
LEMMA ExclusiveRuntimes ==
  ASSUME RegInv, Ready, NEW conv, conv.runtime \in {"claude", "codex", "opencode", "antigravity"},
         MCPExclusiveHolds(conv)
  PROVE  conv.runtime \in {"claude", "codex"}
<1>1. Runtime = {"claude", "codex", "opencode", "copilot", "pi", "antigravity"}
  BY DEF Runtime
<1>2. Known(conv.runtime) /\ Lookup(conv.runtime) = BuiltinOf(conv.runtime)
  BY <1>1, LooksUp
<1>3. MCPExclusivity(Lookup(conv.runtime), conv.mode) \in {"flag", "projected-layout"}
  BY <1>2, Zenon DEF MCPExclusiveHolds
<1>4. conv.runtime # "opencode" /\ conv.runtime # "antigravity"
  BY <1>2, <1>3, NeverExclusive, BuiltinOfIs, Zenon
<1> QED BY <1>4

-----------------------------------------------------------------------------
(* The invariant of a launch. *)

\* The two launches of this package: ProjectLaunch's, and one made from the
\* adapter's own fields.
ProjectionOf(a, ctx, opts, set) ==
  [path |-> "projection", adapter |-> a, ctx |-> ctx, opts |-> opts, set |-> set,
   conv |-> Projected(a, ctx, opts).conv,
   files |-> Projected(a, ctx, opts).files \union SkillFiles(a.runtime, ShapeOf(a), opts.skills)]

FieldedOf(a, ctx, set) ==
  [path |-> "fields", adapter |-> WithFields(a), ctx |-> ctx,
   opts |-> [exclusive |-> FALSE, skills |-> {}, required |-> {}], set |-> set,
   conv |-> Convention(a, a.agent, FieldPaths(WithFields(a))), files |-> LegacyFiles(a, ctx)]

\* What the host can hold of each: every file was rendered without an error.
IsProjection(l) ==
  \E a \in Adapters, ctx \in Contexts, opts \in Options, set \in Settings :
    /\ l = ProjectionOf(a, ctx, opts, set) /\ Renders(a, ctx, opts.skills)
    /\ opts.exclusive => a.runtime \in {"claude", "codex"}

IsFielded(l) ==
  \E a \in Adapters, ctx \in Contexts, set \in Settings :
    l = FieldedOf(a, ctx, set) /\ Renders(a, ctx, {})

\* The ids of conversations.
Ids == {<<>>} \union { SessionID(n) : n \in Nat \ {0} }

\* The ids of the first n turns.
IdsTo(n) == { SessionID(m) : m \in 1..n }

\* The last turn was made of the launch as it is.
TurnMade ==
  /\ launch.conv.runtime \in Runtime /\ Promised(launch).ok /\ PromptIsLast(launch.conv)
  /\ turn.prompt \in Prompts /\ turn.resume \in Ids /\ (ByProtocol(launch) => turn.resume = <<>>)
  /\ turn.bound = Handed(launch, Input(launch, turn.prompt, turn.resume), Promised(launch).args)

\* The inductive invariant of a launch.  A turn was made of the launch the host
\* still holds and by the descriptor its provider is built in with; the ids the
\* host stores and the CLI knows are those of turns already taken.
LaunchInv ==
  /\ RegInv /\ turn.number \in Nat
  /\ stage = "ready" => Ready /\ (IsProjection(launch) \/ IsFielded(launch) \/ launch.path = "foreign")
  /\ stage # "ready" => turn = NoTurn /\ stored = <<>>
  /\ stored \in {<<>>} \union IdsTo(turn.number) /\ DOMAIN sessions \subseteq IdsTo(turn.number)
  /\ stage = "ready" /\ ByProtocol(launch) => stored = <<>>
  /\ Took => stage = "ready" /\ TurnMade

\* A launch starts in the invariant.
LEMMA LaunchInitCorrect == LaunchInit => LaunchInv
<1> SUFFICES ASSUME LaunchInit PROVE LaunchInv
  OBVIOUS
<1>1. RegInv
  BY RegInitCorrect DEF LaunchInit
<1>2. turn.number = 0 /\ turn = NoTurn /\ stage = "idle" /\ stored = <<>> /\ DOMAIN sessions = {}
  BY DEF LaunchInit, NoTurn
<1> QED BY <1>1, <1>2 DEF LaunchInv, Took

\* The registry goes on, and the launch stands.
LEMMA ReadyStays == ASSUME Ready, [RegNext]_regVars PROVE Ready'
<1>1. booted' = booted
  BY DEF RegNext, Register, RegisterForTest, FinishTest, Cleanup, regVars
<1> QED BY <1>1 DEF Ready

\* Registering does not disturb the launch: Lookup of a built-in stays.
LEMMA RegStepKeepsLaunch ==
  ASSUME LaunchInv, [RegNext]_regVars, UNCHANGED launchVars
  PROVE  LaunchInv'
<1>1. /\ stage' = stage /\ launch' = launch /\ stored' = stored /\ sessions' = sessions
      /\ turn' = turn
  BY DEF launchVars
<1>2. RegInv'
  BY RegStepKeeps DEF LaunchInv
<1>3. Ready => Ready'
  BY ReadyStays
<1>4. TurnMade' <=> TurnMade
  BY <1>1, Zenon DEF TurnMade
<1>5. (Took' <=> Took) /\ (ByProtocol(launch)' <=> ByProtocol(launch))
  BY <1>1, Zenon DEF Took, ByProtocol
<1> QED BY <1>1, <1>2, <1>3, <1>4, <1>5, Zenon DEF LaunchInv

\* A launch begins.
LEMMA BeginKeeps ==
  ASSUME LaunchInv, Ready, stage = "idle", UNCHANGED regVars, NEW l, Begin(l),
         IsProjection(l) \/ IsFielded(l) \/ l.path = "foreign"
  PROVE  LaunchInv'
<1>1. stage' = "ready" /\ launch' = l /\ stored' = stored /\ sessions' = sessions /\ turn' = turn
  BY DEF Begin
<1>2. RegInv' /\ Ready'
  BY RegStepKeeps, ReadyStays DEF LaunchInv
<1>3. turn = NoTurn /\ stored = <<>>
  BY DEF LaunchInv
<1>4. ~Took'
  BY <1>1, <1>3 DEF Took
<1> QED BY <1>1, <1>2, <1>3, <1>4, Zenon DEF LaunchInv

\* A refused launch keeps it.
LEMMA RefuseKeeps ==
  ASSUME LaunchInv, stage = "idle", UNCHANGED regVars, RefuseLaunch
  PROVE  LaunchInv'
<1>1. stage' = "refused" /\ launch' = launch /\ stored' = stored /\ sessions' = sessions /\ turn' = turn
  BY DEF RefuseLaunch
<1>2. RegInv'
  BY RegStepKeeps DEF LaunchInv
<1>3. turn = NoTurn /\ stored = <<>>
  BY DEF LaunchInv
<1>4. ~Took'
  BY <1>1, <1>3 DEF Took
<1> QED BY <1>1, <1>2, <1>3, <1>4, Zenon DEF LaunchInv

\* ProjectLaunch keeps it.
LEMMA ProjectionKeeps ==
  ASSUME LaunchInv, NEW a \in Adapters, NEW ctx \in Contexts, NEW opts \in Options, NEW set \in Settings,
         ProviderProjection(a, ctx, opts, set)
  PROVE  LaunchInv'
<1>1. Ready /\ stage = "idle" /\ UNCHANGED regVars
  BY DEF ProviderProjection
<1> DEFINE p == Projected(a, ctx, opts)
           ok == Renders(a, ctx, opts.skills) /\ Accepted(p.conv, opts)
<1>2. CASE ok
  <2>1. Begin(ProjectionOf(a, ctx, opts, set))
    BY <1>2, Zenon DEF ProviderProjection, ProjectionOf
  <2>2. p.conv.runtime = a.runtime
    <3>1. a \in AdapterFields
      BY LaunchAssumption
    <3> QED BY <3>1, ConventionOfProjection
  <2>3. opts.exclusive => a.runtime \in {"claude", "codex"}
    BY <1>1, <1>2, <2>2, ExclusiveRuntimes, LaunchAssumption DEF Accepted, LaunchInv, AdapterFields
  <2>4. IsProjection(ProjectionOf(a, ctx, opts, set))
    BY <1>2, <2>3, Zenon DEF IsProjection
  <2> QED BY <1>1, <2>1, <2>4, BeginKeeps
<1>3. CASE ~ok
  <2>1. RefuseLaunch
    BY <1>3, Zenon DEF ProviderProjection
  <2> QED BY <1>1, <2>1, RefuseKeeps
<1> QED BY <1>2, <1>3

\* A launch from the adapter's fields keeps it.
LEMMA UseKeeps ==
  ASSUME LaunchInv, NEW a \in Adapters, NEW ctx \in Contexts, NEW set \in Settings, UseAdapter(a, ctx, set)
  PROVE  LaunchInv'
<1>1. Ready /\ stage = "idle" /\ UNCHANGED regVars
  BY DEF UseAdapter
<1>2. CASE Renders(a, ctx, {})
  <2>1. Begin(FieldedOf(a, ctx, set))
    BY <1>2, Zenon DEF UseAdapter, FieldedOf
  <2>2. IsFielded(FieldedOf(a, ctx, set))
    BY <1>2, Zenon DEF IsFielded
  <2> QED BY <1>1, <2>1, <2>2, BeginKeeps
<1>3. CASE ~Renders(a, ctx, {})
  <2>1. RefuseLaunch
    BY <1>3, Zenon DEF UseAdapter
  <2> QED BY <1>1, <2>1, RefuseKeeps
<1> QED BY <1>2, <1>3

\* So does one with a convention of another package's.
LEMMA ForeignKeeps ==
  ASSUME LaunchInv, NEW conv, NEW ctx, NEW opts, NEW set, TakeForeign(conv, ctx, opts, set)
  PROVE  LaunchInv'
<1>1. Ready /\ stage = "idle" /\ UNCHANGED regVars
  BY DEF TakeForeign
<1> DEFINE l == [path |-> "foreign", adapter |-> NewAdapter(conv.runtime, ""), ctx |-> ctx, opts |-> opts,
                 set |-> set, conv |-> conv, files |-> {}]
<1>2. CASE MCPExclusiveHolds(conv)
  <2>1. Begin(l)
    BY <1>2, Zenon DEF TakeForeign
  <2>2. l.path = "foreign"
    BY Zenon
  <2> HIDE DEF l
  <2> QED BY <1>1, <2>1, <2>2, BeginKeeps
<1>3. CASE ~MCPExclusiveHolds(conv)
  <2>1. RefuseLaunch
    BY <1>3, Zenon DEF TakeForeign
  <2> QED BY <1>1, <2>1, RefuseKeeps
<1> QED BY <1>2, <1>3

\* One turn.
TurnOf(prompt) ==
  [number |-> turn.number + 1, prompt |-> prompt, resume |-> stored,
   bound |-> Handed(launch, Input(launch, prompt, stored), Promised(launch).args)]

\* A turn that is taken, by its number, its id and how it ends.
LEMMA TurnIs ==
  ASSUME LaunchInv, NEW prompt, Turn(prompt)
  PROVE  /\ stage = "ready" /\ UNCHANGED <<stage, launch, regVars>>
         /\ launch.conv.runtime \in Runtime /\ Promised(launch).ok /\ PromptIsLast(launch.conv)
         /\ CliRuns(TurnOf(prompt), Reading(launch, TurnOf(prompt).bound),
                    ResumeOf(launch.conv.runtime, Reading(launch, TurnOf(prompt).bound)))
<1>1. /\ stage = "ready" /\ UNCHANGED <<stage, launch, regVars>>
      /\ launch.conv.runtime \in Runtime /\ Carried(launch).ok /\ PromptIsLast(launch.conv)
  BY DEF Turn
<1>2. Ready /\ RegInv
  BY <1>1 DEF LaunchInv
<1>3. Carried(launch) = Promised(launch)
      /\ \A in, extra : Bound(launch, in, extra) = Handed(launch, in, extra)
  BY <1>1, <1>2, CarriedIs
<1> DEFINE c == Bound(launch, Input(launch, prompt, stored), Carried(launch).args)
           b == TurnOf(prompt).bound
<1>4. CliRuns([number |-> turn.number + 1, prompt |-> prompt, resume |-> stored, bound |-> c],
              Reading(launch, c), ResumeOf(launch.conv.runtime, Reading(launch, c)))
  BY Zenon DEF Turn
<1>5. c = Handed(launch, Input(launch, prompt, stored), Promised(launch).args)
  BY <1>3
<1>6. c = b
  BY <1>5 DEF TurnOf
<1>7. [number |-> turn.number + 1, prompt |-> prompt, resume |-> stored, bound |-> c] = TurnOf(prompt)
  BY <1>5, Zenon DEF TurnOf
<1> QED BY <1>1, <1>3, <1>4, <1>6, <1>7, Zenon

\* However the turn ends.
LEMMA EndsIn ==
  ASSUME NEW t, NEW reading, NEW asked, CliRuns(t, reading, asked)
  PROVE  \/ \E id \in DOMAIN sessions \union {FreshID}, same \in BOOLEAN : Runs(t, asked, id, same)
         \/ \E lost : Fails(t, lost)
<1>1. CASE GivesUp(reading)
  BY <1>1, Zenon DEF CliRuns
<1>2. CASE ~GivesUp(reading) /\ asked \in DOMAIN sessions
  <2>1. Runs(t, asked, asked, TRUE) \/ Runs(t, asked, FreshID, TRUE)
    BY <1>2, Zenon DEF CliRuns
  <2> QED BY <1>2, <2>1, Zenon
<1>3. CASE ~GivesUp(reading) /\ asked \notin DOMAIN sessions
  <2>1. Runs(t, asked, FreshID, FALSE) \/ Fails(t, IsSessionLost(launch))
    BY <1>3, Zenon DEF CliRuns
  <2> QED BY <2>1, Zenon
<1> QED BY <1>1, <1>2, <1>3

\* A new turn's id joins the earlier ones.
LEMMA IdsGrow ==
  ASSUME NEW n \in Nat
  PROVE  IdsTo(n) \subseteq IdsTo(n + 1) /\ SessionID(n + 1) \in IdsTo(n + 1) /\ IdsTo(n) \subseteq Ids
  BY DEF IdsTo, Ids

\* A turn keeps the invariant.
LEMMA TurnKeeps ==
  ASSUME LaunchInv, NEW prompt \in Prompts, Turn(prompt)
  PROVE  /\ LaunchInv'
         /\ \/ \E id, same : Runs(TurnOf(prompt), ResumeOf(launch.conv.runtime, Reading(launch, TurnOf(prompt).bound)), id, same)
            \/ \E lost : Fails(TurnOf(prompt), lost)
<1> DEFINE t == TurnOf(prompt)
           asked == ResumeOf(launch.conv.runtime, Reading(launch, t.bound))
<1>1. /\ stage = "ready" /\ UNCHANGED <<stage, launch, regVars>>
      /\ launch.conv.runtime \in Runtime /\ Promised(launch).ok /\ PromptIsLast(launch.conv)
      /\ CliRuns(t, Reading(launch, t.bound), asked)
  BY TurnIs
<1>2. stage' = stage /\ launch' = launch /\ UNCHANGED regVars
  BY <1>1
<1>3. RegInv' /\ Ready'
  BY <1>1, <1>2, RegStepKeeps, ReadyStays DEF LaunchInv
<1>4. /\ t.number = turn.number + 1 /\ t.prompt = prompt /\ t.resume = stored
      /\ t.bound = Handed(launch, Input(launch, t.prompt, t.resume), Promised(launch).args)
  BY DEF TurnOf
<1> HIDE DEF t, asked
<1>5. \/ \E id \in DOMAIN sessions \union {FreshID}, same \in BOOLEAN : Runs(t, asked, id, same)
      \/ \E lost : Fails(t, lost)
  BY <1>1, EndsIn, Zenon
<1>6. /\ turn'.number = t.number /\ turn'.prompt = t.prompt /\ turn'.resume = t.resume
      /\ turn'.bound = t.bound
      /\ stored' \in {<<>>, stored} \union DOMAIN sessions \union {FreshID}
      /\ DOMAIN sessions' \subseteq DOMAIN sessions \union {FreshID}
      /\ ByProtocol(launch) => stored' \in {<<>>, stored}
  <2>1. ASSUME NEW id \in DOMAIN sessions \union {FreshID}, NEW same, Runs(t, asked, id, same)
        PROVE  <1>6
    <3>1. \E how, heard : turn' = Ended(t, how, same, heard) /\ sessions' = Over([x \in {id} |-> heard], sessions)
      BY <2>1, Zenon DEF Runs
    <3>2. PICK how, heard : turn' = Ended(t, how, same, heard) /\ sessions' = Over([x \in {id} |-> heard], sessions)
      BY <3>1
    <3>3. /\ turn'.number = t.number /\ turn'.prompt = t.prompt /\ turn'.resume = t.resume
          /\ turn'.bound = t.bound
      BY <3>2 DEF Ended
    <3>4. DOMAIN sessions' = {id} \union DOMAIN sessions
      BY <3>2 DEF Over
    <3>5. stored' \in {<<>>, id} /\ (ByProtocol(launch) => stored' = <<>>)
      BY <2>1, Zenon DEF Runs
    <3> QED BY <2>1, <3>3, <3>4, <3>5
  <2>2. ASSUME NEW lost, Fails(t, lost) PROVE <1>6
    <3>1. stored' \in {<<>>, stored} /\ sessions' = sessions
      BY <2>2 DEF Fails
    <3>2. PICK how : turn' = Ended(t, how, FALSE, FALSE)
      BY <2>2, Zenon DEF Fails
    <3>3. /\ turn'.number = t.number /\ turn'.prompt = t.prompt /\ turn'.resume = t.resume
          /\ turn'.bound = t.bound
      BY <3>2 DEF Ended
    <3> QED BY <3>1, <3>3
  <2> QED BY <1>5, <2>1, <2>2
<1>7. turn.number \in Nat /\ stored \in {<<>>} \union IdsTo(turn.number) /\ DOMAIN sessions \subseteq IdsTo(turn.number)
      /\ (ByProtocol(launch) => stored = <<>>)
  BY <1>1 DEF LaunchInv
<1>8. FreshID = SessionID(turn.number + 1)
  BY DEF FreshID
<1>9. turn'.number \in Nat /\ turn'.number # 0
      /\ stored' \in {<<>>} \union IdsTo(turn'.number) /\ DOMAIN sessions' \subseteq IdsTo(turn'.number)
  <2> DEFINE n == turn.number
             T == IdsTo(n)
             U == IdsTo(n + 1)
  <2>1. T \subseteq U /\ FreshID \in U
    BY <1>7, <1>8, IdsGrow
  <2>2. turn'.number = n + 1 /\ n + 1 \in Nat /\ n + 1 # 0
    BY <1>4, <1>6, <1>7
  <2>3. stored \in {<<>>} \union T /\ DOMAIN sessions \subseteq T
    BY <1>7
  <2> HIDE DEF T, U
  <2>4. stored' \in {<<>>} \union U /\ DOMAIN sessions' \subseteq U
    BY <1>6, <2>1, <2>3
  <2>5. IdsTo(turn'.number) = U
    BY <2>2, Zenon DEF U
  <2> QED BY <2>2, <2>4, <2>5
<1>10. ByProtocol(launch') => stored' = <<>>
  BY <1>2, <1>6, <1>7
<1>11. stored \in Ids
  BY <1>7, IdsGrow DEF Ids
<1>12. turn'.resume = stored /\ turn'.prompt = prompt
       /\ turn'.bound = Handed(launch, Input(launch, turn'.prompt, turn'.resume), Promised(launch).args)
  BY <1>4, <1>6
<1>13. TurnMade'
  BY <1>1, <1>2, <1>7, <1>11, <1>12 DEF TurnMade
<1>14. stage' = "ready" /\ (IsProjection(launch) \/ IsFielded(launch) \/ launch.path = "foreign")
  BY <1>1, <1>2 DEF LaunchInv
<1>15. (IsProjection(launch) \/ IsFielded(launch) \/ launch.path = "foreign")'
  BY <1>2, <1>14, Zenon
<1>16. ByProtocol(launch)' => stored' = <<>>
  BY <1>2, <1>10, Zenon DEF ByProtocol
<1>17. LaunchInv'
  BY <1>3, <1>9, <1>13, <1>14, <1>15, <1>16, Zenon DEF LaunchInv
<1>18. \/ \E id, same : Runs(t, asked, id, same)
       \/ \E lost : Fails(t, lost)
  BY <1>5, Zenon
<1> QED BY <1>17, <1>18 DEF t, asked

\* So does the CLI's losing a conversation.
LEMMA ForgetKeeps ==
  ASSUME LaunchInv, NEW id \in DOMAIN sessions, Forget(id)
  PROVE  LaunchInv'
<1>1. /\ stage' = stage /\ launch' = launch /\ stored' = stored /\ turn' = turn /\ UNCHANGED regVars
      /\ sessions' = [x \in DOMAIN sessions \ {id} |-> sessions[x]] /\ stage = "ready"
  BY DEF Forget
<1>2. DOMAIN sessions' \subseteq DOMAIN sessions
  BY <1>1
<1>3. RegInv' /\ Ready'
  BY <1>1, RegStepKeeps, ReadyStays DEF LaunchInv
<1>4. (TurnMade' <=> TurnMade) /\ (Took' <=> Took) /\ (ByProtocol(launch)' <=> ByProtocol(launch))
  BY <1>1, Zenon DEF TurnMade, Took, ByProtocol
<1>5. DOMAIN sessions' \subseteq IdsTo(turn.number)
  BY <1>2 DEF LaunchInv
<1> QED BY <1>1, <1>3, <1>4, <1>5, Zenon DEF LaunchInv

\* Every step of a launch keeps it.
LEMMA LaunchStepKeeps == LaunchInv /\ [LaunchNext]_allVars => LaunchInv'
<1> SUFFICES ASSUME LaunchInv, [LaunchNext]_allVars PROVE LaunchInv'
  OBVIOUS
<1>1. CASE UNCHANGED allVars
  BY <1>1, RegStepKeepsLaunch DEF allVars
<1>2. CASE RegNext /\ UNCHANGED launchVars
  BY <1>2, RegStepKeepsLaunch
<1>3. ASSUME NEW a \in Adapters, NEW ctx \in Contexts, NEW set \in Settings,
             UseAdapter(a, ctx, set) \/ \E opts \in Options : ProviderProjection(a, ctx, opts, set)
      PROVE  LaunchInv'
  BY <1>3, UseKeeps, ProjectionKeeps
<1>4. ASSUME NEW conv \in Foreign, NEW ctx \in Contexts, NEW opts \in Options, NEW set \in Settings,
             TakeForeign(conv, ctx, opts, set)
      PROVE  LaunchInv'
  BY <1>4, ForeignKeeps
<1>5. ASSUME NEW prompt \in Prompts, Turn(prompt) PROVE LaunchInv'
  BY <1>5, TurnKeeps
<1>6. ASSUME NEW id \in DOMAIN sessions, Forget(id) PROVE LaunchInv'
  BY <1>6, ForgetKeeps
<1> QED BY <1>1, <1>2, <1>3, <1>4, <1>5, <1>6 DEF LaunchNext

\* A launch is one the host's adapters and its answers give, and the last turn
\* was made of it, whatever the registry did meanwhile.
THEOREM LaunchIsSound == LaunchSpec => []LaunchInv
  BY LaunchInitCorrect, LaunchStepKeeps, PTL DEF LaunchSpec

\* A launch looks the registry up and leaves it alone.
LEMMA LaunchSteps == LaunchNext => RegNext \/ UNCHANGED regVars
<1>1. ASSUME NEW a, NEW ctx, NEW set, NEW opts,
             UseAdapter(a, ctx, set) \/ ProviderProjection(a, ctx, opts, set)
      PROVE  UNCHANGED regVars
  BY <1>1 DEF UseAdapter, ProviderProjection
<1>2. ASSUME NEW conv, NEW ctx, NEW opts, NEW set, TakeForeign(conv, ctx, opts, set)
      PROVE  UNCHANGED regVars
  BY <1>2 DEF TakeForeign
<1>3. ASSUME NEW prompt, Turn(prompt) PROVE UNCHANGED regVars
  BY <1>3 DEF Turn
<1>4. ASSUME NEW id, Forget(id) PROVE UNCHANGED regVars
  BY <1>4 DEF Forget
<1> QED BY <1>1, <1>2, <1>3, <1>4 DEF LaunchNext

\* The registry of a launch is the registry.
THEOREM LaunchKeepsRegistry == LaunchSpec => RegSpec
<1>1. LaunchInit => RegInit
  BY DEF LaunchInit
<1>2. [LaunchNext]_allVars => [RegNext]_regVars
  BY LaunchSteps DEF allVars
<1> QED BY <1>1, <1>2, PTL DEF LaunchSpec, RegSpec

\* So the property holds of every run of Launch.
COROLLARY LaunchKeepsOwners == LaunchSpec => []OwnersKeepTheirs
  BY LaunchKeepsRegistry, OwnersAreKept, PTL

-----------------------------------------------------------------------------
(* Where a launch's process starts, and in which environment. *)

\* The variable that names a runtime's configuration directory.
HomeNames(r) ==
  IF r = "codex" THEN {"CODEX_HOME"} ELSE IF r = "opencode" THEN {"OPENCODE_CONFIG_DIR"} ELSE {}

\* Where each runtime's process starts, by the layout.
Where(r) == IF r = "opencode" THEN "project" ELSE "boot"

\* The native configuration's row says so.
LEMMA NativeRow ==
  ASSUME NEW r \in CLIs, NEW s, r = "claude" => (s = Bare \/ s = Plain(s.mode))
  PROVE  Find(r, s, "native-config").env = HomeNames(r) /\ Find(r, s, "native-config").cwd = Where(r)
<1>1. Table[5].env = {} /\ Table[5].cwd = "boot" /\ Table[6].env = {} /\ Table[6].cwd = "boot"
  BY ClaudeTable, Zenon DEF RowIs
<1>2. Table[12].env = {"CODEX_HOME"} /\ Table[12].cwd = "boot"
  BY CodexTable, Zenon DEF RowIs
<1>3. Table[18].env = {"OPENCODE_CONFIG_DIR"} /\ Table[18].cwd = "project"
  BY OpencodeTable, Zenon DEF RowIs
<1>4. Table[27].env = {} /\ Table[27].cwd = "boot"
  BY AntigravityTable, Zenon DEF RowIs
<1>5. CASE r = "claude"
  <2>1. Find(r, s, "native-config") = Table[6] \/ Find(r, s, "native-config") = Table[5]
    BY <1>5, ClaudeRowsOf
  <2> QED BY <1>1, <1>5, <2>1 DEF HomeNames, Where
<1>6. CASE r = "codex"
  <2>1. Find(r, s, "native-config") = Table[12]
    BY <1>6, GeneralRows, Zenon
  <2> QED BY <1>2, <1>6, <2>1 DEF HomeNames, Where
<1>7. CASE r = "opencode"
  <2>1. Find(r, s, "native-config") = Table[18]
    BY <1>7, GeneralRows, Zenon
  <2> QED BY <1>3, <1>7, <2>1 DEF HomeNames, Where
<1>8. CASE r = "antigravity"
  <2>1. Find(r, s, "native-config") = Table[27]
    BY <1>8, GeneralRows, Zenon
  <2> QED BY <1>4, <1>8, <2>1 DEF HomeNames, Where
<1> QED BY <1>5, <1>6, <1>7, <1>8 DEF CLIs

\* A set of at most one element as a list.
LEMMA SequenceOfNone == SetToSeq({}) = <<>>
<1> DEFINE S == {}
           f == SetToSeq(S)
<1>1. Cardinality(S) = 0
  BY FS_EmptySet
<1>2. [i \in 1..0 |-> i] \in [1..0 -> S] /\ IsInjective([i \in 1..0 |-> i])
  BY DEF IsInjective
<1>3. f \in [1..0 -> S]
  BY <1>1, <1>2 DEF SetToSeq
<1> HIDE DEF f
<1>4. f = <<>>
  BY <1>3
<1> QED BY <1>4 DEF f

LEMMA SequenceOfOne == ASSUME NEW d PROVE SetToSeq({d}) = <<d>>
<1> DEFINE S == {d}
           f == SetToSeq(S)
<1>1. Cardinality(S) = 1
  BY FS_Singleton
<1>2. [i \in 1..1 |-> d] \in [1..1 -> S] /\ IsInjective([i \in 1..1 |-> d])
  BY DEF IsInjective
<1>3. f \in [1..1 -> S]
  BY <1>1, <1>2 DEF SetToSeq
<1> HIDE DEF f
<1>4. f = <<d>>
  BY <1>3
<1> QED BY <1>4 DEF f

\* One variable set to a value.
Amendment(n, value) == [name |-> n, value |-> value, op |-> "set", precedence |-> "provider-wins"]

\* The amendments of a convention that names at most one variable.
LEMMA AmendmentsAre ==
  /\ Amendments({}) = <<>>
  /\ \A n : Amendments({n}) = << Amendment(n, "boot") >>
<1>1. Amendments({}) = <<>>
  <2>1. { Amendment(n, "boot") : n \in {} } = {}
    OBVIOUS
  <2>2. Amendments({}) = SetToSeq({ Amendment(n, "boot") : n \in {} })
    BY Zenon DEF Amendments, Amendment
  <2> QED BY <2>1, <2>2, SequenceOfNone
<1>2. ASSUME NEW n PROVE Amendments({n}) = << Amendment(n, "boot") >>
  <2>1. { Amendment(m, "boot") : m \in {n} } = { Amendment(n, "boot") }
    OBVIOUS
  <2>2. Amendments({n}) = SetToSeq({ Amendment(m, "boot") : m \in {n} })
    BY Zenon DEF Amendments, Amendment
  <2> QED BY <2>1, <2>2, SequenceOfOne
<1> QED BY <1>1, <1>2

\* An amendment sets its variable.
LEMMA AmendmentApplied ==
  ASSUME NEW base, NEW n, NEW value
  PROVE  LET env == Apply(base, Amendment(n, value))
         IN  n \in DOMAIN env /\ env[n] = value
<1> DEFINE d == Amendment(n, value)
           one == [name \in {n} |-> value]
<1>1. d.name = n /\ d.value = value /\ d.op = "set" /\ d.precedence = "provider-wins"
  BY DEF Amendment
<1> HIDE DEF d
<1>2. "provider-wins" # "caller-wins" /\ "set" # "unset" /\ "set" # "prepend" /\ "set" # "append"
  OBVIOUS
<1>3. Apply(base, d) = Over([name \in {d.name} |-> d.value], base)
  BY <1>1, <1>2, Zenon DEF Apply
<1>4. Apply(base, d) = Over(one, base)
  BY <1>1, <1>3
<1>5. n \in DOMAIN Over(one, base) /\ Over(one, base)[n] = value
  BY DEF Over
<1> QED BY <1>4, <1>5 DEF d

\* A turn is resolved with the boot directory as the configuration's root.
LEMMA ResolvedAt ==
  ASSUME NEW c, c.cwd \in {"boot", "project"}, NEW in, NEW extra
  PROVE  /\ ResolveTurn(c, Roots, in, extra).argv = Argv(c, LaunchRoots, in, extra)
         /\ ResolveTurn(c, Roots, in, extra).cwd = Roots[c.cwd]
<1> DEFINE cwd == RootValue(LaunchRoots, c.cwd)
           prepared == ResolveTurn(c, Roots, in, extra)
           roots == IF Roots["config"] = <<>> THEN [Roots EXCEPT !["config"] = Roots["boot"]] ELSE Roots
<1>1. roots = LaunchRoots
  BY RootsAre DEF LaunchRoots
<1>2. prepared.argv = Argv(c, roots, in, extra)
      /\ prepared.cwd = IF RootValue(roots, c.cwd) = <<>> /\ c.cwd = "project" THEN roots["boot"] ELSE RootValue(roots, c.cwd)
  BY DEF ResolveTurn
<1>3. RootValue(LaunchRoots, c.cwd) = LaunchRoots[c.cwd]
  <2>1. c.cwd # ""
    BY Zenon
  <2> QED BY <2>1, Zenon DEF RootValue
<1>4. LaunchRoots[c.cwd] = Roots[c.cwd] /\ LaunchRoots[c.cwd] # <<>>
  BY RootsAre
<1> HIDE DEF roots, prepared
<1>5. prepared.cwd = LaunchRoots[c.cwd]
  BY <1>1, <1>2, <1>3, <1>4
<1> QED BY <1>1, <1>2, <1>4, <1>5 DEF prepared

\* A variable leads to the boot directory.
AtBoot(env, n) == n \in DOMAIN env /\ env[n] = Roots["boot"]

\* The amendments of a turn, and what they make of an environment.
LEMMA ResolvedEnv ==
  ASSUME NEW c, NEW n, c.env = Amendments({n}), NEW in, NEW extra, NEW base
  PROVE  AtBoot(ApplyEnvDeltas(base, ResolveTurn(c, Roots, in, extra).env), n)
<1> DEFINE d == Amendment(n, "boot")
           e == Amendment(n, Roots["boot"])
           roots == IF Roots["config"] = <<>> THEN [Roots EXCEPT !["config"] = Roots["boot"]] ELSE Roots
           path(v) == IF v \in DOMAIN roots /\ roots[v] # <<>> THEN roots[v] ELSE <<v>>
           deltas == [i \in DOMAIN c.env |-> [c.env[i] EXCEPT !.value = path(c.env[i].value)]]
           prepared == ResolveTurn(c, Roots, in, extra)
<1>1. c.env = <<d>>
  BY AmendmentsAre
<1>2. prepared.env = deltas
  BY DEF ResolveTurn
<1>3. roots = LaunchRoots
  BY RootsAre DEF LaunchRoots
<1>4. "boot" \in DOMAIN LaunchRoots
  BY RootsAre DEF Paths, Root
<1>5. path("boot") = Roots["boot"]
  BY <1>3, <1>4, RootsAre
<1> HIDE DEF roots, path
<1>6. d.value = "boot" /\ [d EXCEPT !.value = path("boot")] = e
  BY <1>5 DEF Amendment
<1> HIDE DEF d, e
<1>7. c.env[1] = d /\ DOMAIN c.env = {1}
  BY <1>1
<1>8. [c.env[1] EXCEPT !.value = path(c.env[1].value)] = e
  <2> DEFINE t == c.env[1]
  <2>1. t = d
    BY <1>7
  <2> HIDE DEF t
  <2>2. [t EXCEPT !.value = path(t.value)] = e
    BY <1>6, <2>1
  <2> QED BY <2>2 DEF t
<1>9. deltas = [i \in {1} |-> e]
  BY <1>7, <1>8
<1>10. [i \in {1} |-> e] = <<e>>
  OBVIOUS
<1> HIDE DEF deltas, prepared
<1>11. prepared.env = <<e>>
  BY <1>2, <1>9, <1>10
<1> DEFINE none == <<>>
           T == {e}
<1>12. none \in Seq(T) /\ e \in T /\ <<e>> = Append(none, e)
  BY EmptySeq, OneIsAppend
<1>13. ApplyEnvDeltas(base, none) = base
  BY ApplyEnvDeltasEmpty
<1> HIDE DEF none, T
<1>14. ApplyEnvDeltas(base, <<e>>) = Apply(base, e)
  BY <1>12, <1>13, ApplyEnvDeltasAppend
<1>15. Apply(base, e) = ApplyEnvDeltas(base, prepared.env)
  BY <1>11, <1>14
<1>16. n \in DOMAIN Apply(base, e) /\ Apply(base, e)[n] = Roots["boot"]
  <2> DEFINE value == Roots["boot"]
             env == Apply(base, Amendment(n, value))
  <2>1. n \in DOMAIN env /\ env[n] = value
    <3> HIDE DEF value
    <3> QED BY AmendmentApplied
  <2> QED BY <2>1 DEF e
<1>17. n \in DOMAIN ApplyEnvDeltas(base, prepared.env) /\ ApplyEnvDeltas(base, prepared.env)[n] = Roots["boot"]
  BY <1>15, <1>16
<1> QED BY <1>17 DEF prepared, AtBoot

-----------------------------------------------------------------------------
(* A launch of this package's own. *)

\* A launch of this package's own.
OwnLaunch(l) == IsProjection(l) \/ IsFielded(l)

\* The adapter its arguments are made from, by either way.
Outfit(l) == IF l.path = "projection" THEN EquippedFor(l.adapter, l.ctx, l.opts) ELSE l.adapter

\* SpawnWorkdir and the environment of a launch made from fields.
LEMMA LegacyIs ==
  ASSUME NEW b, b.runtime \in CLIs
  PROVE  SpawnWorkdir(b, Roots) = Roots[Where(b.runtime)] /\ LegacyEnv(b, Roots) = [name \in HomeNames(b.runtime) |-> Roots["boot"]]
<1> DEFINE r == b.runtime
           s == LegacyShape(b)
<1>1. r = "claude" => s = Plain(s.mode)
  <2>1. s = Plain(PerTurn) \/ r = "codex"
    BY Zenon DEF LegacyShape
  <2> QED BY <2>1, PlainIsNotBare
<1> HIDE DEF s
<1>2. Find(r, s, "native-config").env = HomeNames(r) /\ Find(r, s, "native-config").cwd = Where(r)
  <2> HIDE DEF r
  <2>1. r \in CLIs
    BY DEF r
  <2> QED BY <1>1, <2>1, NativeRow
<1>3. LegacyEnv(b, Roots) = [name \in HomeNames(r) |-> Roots["boot"]]
  BY <1>2, Zenon DEF LegacyEnv, s
<1>4. SpawnWorkdir(b, Roots) = IF Where(r) = "project" THEN Roots["project"] ELSE Roots["boot"]
  <2>1. Roots["project"] # <<>>
    BY RootsAre
  <2> QED BY <1>2, <2>1 DEF SpawnWorkdir, s
<1>5. Where(r) = "project" \/ Where(r) = "boot"
  BY DEF Where
<1>6. SpawnWorkdir(b, Roots) = Roots[Where(r)]
  BY <1>4, <1>5
<1> QED BY <1>3, <1>6

\* A projection's convention, runtime and shape.
LEMMA ProjectionIs ==
  ASSUME NEW a \in Adapters, NEW ctx \in Contexts, NEW opts \in Options, NEW set \in Settings,
         NEW l, l = ProjectionOf(a, ctx, opts, set)
  PROVE  /\ l.path = "projection" /\ l.adapter = a /\ l.ctx = ctx /\ l.opts = opts /\ l.set = set
         /\ l.conv = Projected(a, ctx, opts).conv
         /\ l.files = Projected(a, ctx, opts).files \union SkillFiles(a.runtime, ShapeOf(a), opts.skills)
         /\ Outfit(l) = EquippedFor(a, ctx, opts)
         /\ l.conv.runtime = a.runtime /\ ShapeIn(l) = ShapeOf(a) /\ l.conv.mode = ShapeOf(a).mode
         /\ l.conv.cwd = Where(a.runtime) /\ l.conv.env = Amendments(HomeNames(a.runtime))
<1>1. /\ l.path = "projection" /\ l.adapter = a /\ l.ctx = ctx /\ l.opts = opts /\ l.set = set
      /\ l.conv = Projected(a, ctx, opts).conv
      /\ l.files = Projected(a, ctx, opts).files \union SkillFiles(a.runtime, ShapeOf(a), opts.skills)
  <2> DEFINE c == Projected(a, ctx, opts).conv
             f == Projected(a, ctx, opts).files \union SkillFiles(a.runtime, ShapeOf(a), opts.skills)
  <2>1. l = [path |-> "projection", adapter |-> a, ctx |-> ctx, opts |-> opts, set |-> set, conv |-> c, files |-> f]
    BY Zenon DEF ProjectionOf
  <2> HIDE DEF c, f
  <2>2. /\ l.path = "projection" /\ l.adapter = a /\ l.ctx = ctx /\ l.opts = opts /\ l.set = set
        /\ l.conv = c /\ l.files = f
    BY <2>1
  <2> QED BY <2>2 DEF c, f
<1>2. Outfit(l) = EquippedFor(a, ctx, opts)
  BY <1>1, Zenon DEF Outfit
<1> DEFINE w == ProjectedAdapter(a, opts)
           g == ProjectedAgent(a, ctx)
           p == ProjectedPaths(a, opts)
<1>3. a \in AdapterFields
  BY LaunchAssumption
<1>4. l.conv = Convention(w, g, p) /\ w.runtime = a.runtime
  BY <1>1, <1>3, ConventionOfProjection
<1>5. ShapeOf(w) = ShapeOf(a)
  <2>1. w.runtime = a.runtime /\ w.bare = a.bare /\ w.mode = a.mode
    BY <1>3 DEF ProjectedAdapter, Exclusively, AdapterFields
  <2> HIDE DEF w
  <2> QED BY <2>1, SameShape
<1> HIDE DEF w, g, p
<1>6. /\ l.conv.runtime = w.runtime /\ l.conv.mode = ShapeOf(w).mode /\ l.conv.variant = ShapeOf(w).variant
      /\ l.conv.cwd = Find(w.runtime, ShapeOf(w), "native-config").cwd
      /\ l.conv.env = Amendments(Find(w.runtime, ShapeOf(w), "native-config").env)
  BY <1>4, ConventionFields
<1>7. a.runtime \in CLIs
  BY <1>3 DEF AdapterFields, CLIs
<1>8. a.runtime = "claude" => (ShapeOf(a) = Bare \/ ShapeOf(a) = Plain(ShapeOf(a).mode))
  BY ShapesAre
<1>9. l.conv.cwd = Where(a.runtime) /\ l.conv.env = Amendments(HomeNames(a.runtime))
  <2> DEFINE r == a.runtime
             s == ShapeOf(a)
  <2>1. r \in CLIs /\ (r = "claude" => (s = Bare \/ s = Plain(s.mode)))
    BY <1>7, <1>8
  <2>2. /\ l.conv.cwd = Find(r, s, "native-config").cwd
        /\ l.conv.env = Amendments(Find(r, s, "native-config").env)
    BY <1>4, <1>5, <1>6
  <2> HIDE DEF r, s
  <2>3. Find(r, s, "native-config").env = HomeNames(r) /\ Find(r, s, "native-config").cwd = Where(r)
    BY <2>1, NativeRow
  <2>4. l.conv.cwd = Where(r) /\ l.conv.env = Amendments(HomeNames(r))
    BY <2>2, <2>3
  <2> QED BY <2>4 DEF r
<1>10. ShapeIn(l) = Shape(ShapeOf(a).mode, ShapeOf(a).variant)
  BY <1>5, <1>6, Zenon DEF ShapeIn
<1>11. Shape(ShapeOf(a).mode, ShapeOf(a).variant) = ShapeOf(a)
  <2>1. \A m, v : Shape(Shape(m, v).mode, Shape(m, v).variant) = Shape(m, v)
    BY ShapeFields
  <2>2. ShapeOf(a) = Bare \/ ShapeOf(a) = Plain(ShapeOf(a).mode)
    BY ShapesAre
  <2> QED BY <2>1, <2>2 DEF Bare, Plain
<1>12. l.conv.runtime = a.runtime /\ ShapeIn(l) = ShapeOf(a) /\ l.conv.mode = ShapeOf(a).mode
  BY <1>4, <1>5, <1>6, <1>10, <1>11
<1> QED BY <1>1, <1>2, <1>9, <1>12

\* The same of a launch made from fields.
LEMMA FieldedIs ==
  ASSUME NEW a \in Adapters, NEW ctx \in Contexts, NEW set \in Settings, NEW l, l = FieldedOf(a, ctx, set)
  PROVE  /\ l.path = "fields" /\ l.adapter = WithFields(a) /\ l.ctx = ctx /\ l.set = set
         /\ l.files = LegacyFiles(a, ctx) /\ Outfit(l) = WithFields(a)
         /\ l.conv.runtime = a.runtime /\ ShapeIn(l) = ShapeOf(a) /\ l.conv.mode = ShapeOf(a).mode
<1> DEFINE w == WithFields(a)
           no == [exclusive |-> FALSE, skills |-> {}, required |-> {}]
<1>1. /\ l.path = "fields" /\ l.adapter = w /\ l.ctx = ctx /\ l.set = set
      /\ l.opts = no /\ l.files = LegacyFiles(a, ctx)
      /\ l.conv = Convention(a, a.agent, FieldPaths(w))
  <2> DEFINE c == Convention(a, a.agent, FieldPaths(w))
             f == LegacyFiles(a, ctx)
  <2>1. l = [path |-> "fields", adapter |-> w, ctx |-> ctx, opts |-> no, set |-> set, conv |-> c, files |-> f]
    BY Zenon DEF FieldedOf
  <2> HIDE DEF c, f, w, no
  <2>2. /\ l.path = "fields" /\ l.adapter = w /\ l.ctx = ctx /\ l.opts = no /\ l.set = set
        /\ l.conv = c /\ l.files = f
    BY <2>1
  <2> QED BY <2>2 DEF c, f
<1>2. no.exclusive = FALSE /\ no.skills = {}
  BY Zenon
<1>3. Outfit(l) = WithFields(a)
  <2>1. l.path # "projection"
    BY <1>1
  <2> QED BY <1>1, <2>1, Zenon DEF Outfit
<1>4. l.conv.runtime = a.runtime /\ l.conv.mode = ShapeOf(a).mode /\ l.conv.variant = ShapeOf(a).variant
  <2> DEFINE g == a.agent
             p == FieldPaths(w)
  <2>1. l.conv = Convention(a, g, p)
    BY <1>1
  <2> HIDE DEF g, p
  <2> QED BY <2>1, ConventionFields
<1>5. ShapeIn(l) = Shape(ShapeOf(a).mode, ShapeOf(a).variant)
  BY <1>4, Zenon DEF ShapeIn
<1>6. Shape(ShapeOf(a).mode, ShapeOf(a).variant) = ShapeOf(a)
  <2>1. \A m, v : Shape(Shape(m, v).mode, Shape(m, v).variant) = Shape(m, v)
    BY ShapeFields
  <2>2. ShapeOf(a) = Bare \/ ShapeOf(a) = Plain(ShapeOf(a).mode)
    BY ShapesAre
  <2> QED BY <2>1, <2>2 DEF Bare, Plain
<1> QED BY <1>1, <1>3, <1>4, <1>5, <1>6

\* It asks for no skills and for no exclusive servers.
LEMMA FieldedAsksNothing ==
  ASSUME NEW a, NEW ctx, NEW set, NEW l, l = FieldedOf(a, ctx, set)
  PROVE  l.opts.skills = {} /\ ~l.opts.exclusive
<1> DEFINE no == [exclusive |-> FALSE, skills |-> {}, required |-> {}]
<1>1. l.opts = no
  <2> DEFINE w == WithFields(a)
             c == Convention(a, a.agent, FieldPaths(w))
             f == LegacyFiles(a, ctx)
  <2>1. l = [path |-> "fields", adapter |-> w, ctx |-> ctx, opts |-> no, set |-> set, conv |-> c, files |-> f]
    BY Zenon DEF FieldedOf
  <2> HIDE DEF c, f, w, no
  <2> QED BY <2>1
<1>2. no.skills = {} /\ ~no.exclusive
  OBVIOUS
<1> HIDE DEF no
<1> QED BY <1>1, <1>2

\* What both kinds of launch have in common.
LEMMA OwnLaunchIs ==
  ASSUME NEW l, OwnLaunch(l)
  PROVE  LET b == Outfit(l)
         IN  /\ Outfitted(b) /\ l.conv.runtime = b.runtime /\ b.runtime \in CLIs
             /\ ShapeIn(l) = ShapeOf(b) /\ l.conv.mode = ShapeOf(b).mode
             /\ l.path # "foreign" /\ l.ctx \in Contexts /\ l.set \in Settings
<1> DEFINE b == Outfit(l)
           Goal == /\ Outfitted(b) /\ l.conv.runtime = b.runtime /\ b.runtime \in CLIs
                   /\ ShapeIn(l) = ShapeOf(b) /\ l.conv.mode = ShapeOf(b).mode
                   /\ l.path # "foreign" /\ l.ctx \in Contexts /\ l.set \in Settings
<1>1. CASE IsProjection(l)
  <2>1. PICK a \in Adapters, ctx \in Contexts, opts \in Options, set \in Settings :
          l = ProjectionOf(a, ctx, opts, set)
    BY <1>1, Zenon DEF IsProjection
  <2>2. /\ b = EquippedFor(a, ctx, opts) /\ l.path = "projection" /\ l.ctx = ctx /\ l.set = set
        /\ l.conv.runtime = a.runtime /\ ShapeIn(l) = ShapeOf(a) /\ l.conv.mode = ShapeOf(a).mode
    BY <2>1, ProjectionIs
  <2>3. Outfitted(b) /\ ShapeOf(b) = ShapeOf(a)
    BY <2>2, EquippedOutfitted
  <2>4. b.runtime = a.runtime
    <3>1. a \in AdapterFields
      BY LaunchAssumption
    <3> QED BY <2>2, <3>1, EquippedIs DEF SameButPaths
  <2>5. b.runtime \in CLIs
    BY <2>3 DEF Outfitted
  <2> HIDE DEF b
  <2>6. Goal
    BY <2>2, <2>3, <2>4, <2>5
  <2> QED BY <2>6 DEF b
<1>2. CASE IsFielded(l)
  <2>1. PICK a \in Adapters, ctx \in Contexts, set \in Settings : l = FieldedOf(a, ctx, set)
    BY <1>2, Zenon DEF IsFielded
  <2>2. /\ b = WithFields(a) /\ l.path = "fields" /\ l.ctx = ctx /\ l.set = set
        /\ l.conv.runtime = a.runtime /\ ShapeIn(l) = ShapeOf(a) /\ l.conv.mode = ShapeOf(a).mode
    BY <2>1, FieldedIs
  <2>3. Outfitted(b) /\ ShapeOf(b) = ShapeOf(a)
    <3> DEFINE any == [skills |-> {}, exclusive |-> FALSE, required |-> {}]
    <3> HIDE DEF any
    <3>1. Outfitted(WithFields(a)) /\ ShapeOf(WithFields(a)) = ShapeOf(a)
      BY EquippedOutfitted
    <3> QED BY <2>2, <3>1
  <2>4. b.runtime = a.runtime
    <3>1. a \in AdapterFields
      BY LaunchAssumption
    <3> QED BY <2>2, <3>1, WithFieldsIs DEF SameButPaths
  <2>5. b.runtime \in CLIs
    BY <2>3 DEF Outfitted
  <2> HIDE DEF b
  <2>6. Goal
    BY <2>2, <2>3, <2>4, <2>5
  <2> QED BY <2>6 DEF b
<1> QED BY <1>1, <1>2 DEF OwnLaunch

\* Over takes the first function where both are defined.
LEMMA OverFirst == \A f, g : \A n \in DOMAIN f : n \in DOMAIN Over(f, g) /\ Over(f, g)[n] = f[n]
  BY DEF Over

LEMMA OverSecond == \A f, g : \A n \in DOMAIN g : n \notin DOMAIN f => n \in DOMAIN Over(f, g) /\ Over(f, g)[n] = g[n]
  BY DEF Over

\* What a launch's environment is made of, the posture's part set aside.
GivenEnv(l, in, extra) ==
  IF l.path = "fields" THEN Over(LegacyEnv(l.adapter, Roots), l.set.env)
  ELSE ApplyEnvDeltas(l.set.env, ResolveTurn(l.conv, Roots, in, extra).env)

\* The variables a posture sets.
PostureEnv(l) == [n \in { v[1] : v \in Promised(l).env } |-> <<l.set.posture>>]

\* What the host hands the CLI, field by field.
LEMMA HandedFields ==
  ASSUME NEW l, NEW in, NEW extra
  PROVE  LET h == Handed(l, in, extra)
             prepared == ResolveTurn(l.conv, Roots, in, extra)
         IN  /\ h.cwd = IF l.path = "fields" THEN SpawnWorkdir(l.adapter, Roots) ELSE prepared.cwd
             /\ h.argv = IF l.path = "fields" THEN BuildArgs(l.adapter, in, extra) ELSE prepared.argv
             /\ h.env = Over(PostureEnv(l), GivenEnv(l, in, extra))
<1> DEFINE prepared == ResolveTurn(l.conv, Roots, in, extra)
           x == IF l.path = "fields" THEN SpawnWorkdir(l.adapter, Roots) ELSE prepared.cwd
           y == IF l.path = "fields" THEN BuildArgs(l.adapter, in, extra) ELSE prepared.argv
           z == Over(PostureEnv(l), GivenEnv(l, in, extra))
           h == Handed(l, in, extra)
<1>1. h = [cwd |-> x, argv |-> y, env |-> z]
  BY Zenon DEF Handed, PostureEnv, GivenEnv
<1> HIDE DEF x, y, z, h
<1>2. h.cwd = x /\ h.argv = y /\ h.env = z
  BY <1>1
<1> QED BY <1>2 DEF x, y, z, h

\* A turn's text may be anything; a session id is no flag.
Asks(in) == in \in Inputs /\ (in.resume = <<>> \/ in.resume[1] \notin Dashed)

\* The posture sets no variable that names a configuration directory.
SparesHomes(l) == \A v \in Promised(l).env : v[1] = "OPENCODE_PERMISSION"

\* The directories a launch's process is told of are the launch's own.
AtHome(l, h) ==
  /\ h.cwd = Roots[Where(l.conv.runtime)]
  /\ \A n \in HomeNames(l.conv.runtime) : AtBoot(h.env, n)

\* A turn's command line is BuildArgs', and its process finds the boot directory.
HandedWell(l, in, extra) ==
  Handed(l, in, extra).argv = BuildArgs(Outfit(l), in, extra) /\ AtHome(l, Handed(l, in, extra))

\* A runtime has at most one home variable, and no posture sets it.
LEMMA OneHome ==
  ASSUME NEW r, NEW n \in HomeNames(r)
  PROVE  HomeNames(r) = {n} /\ n # "OPENCODE_PERMISSION"
<1>1. HomeNames(r) = {"CODEX_HOME"} \/ HomeNames(r) = {"OPENCODE_CONFIG_DIR"} \/ HomeNames(r) = {}
  BY DEF HomeNames
<1>2. "CODEX_HOME" # "OPENCODE_PERMISSION" /\ "OPENCODE_CONFIG_DIR" # "OPENCODE_PERMISSION"
  OBVIOUS
<1> QED BY <1>1, <1>2

\* The host's own environment does not win over it.
LEMMA HomeIsGiven ==
  ASSUME NEW l, SparesHomes(l), NEW in, NEW extra, NEW r,
         NEW n \in HomeNames(r), AtBoot(GivenEnv(l, in, extra), n)
  PROVE  AtBoot(Handed(l, in, extra).env, n)
<1> DEFINE P == PostureEnv(l)
           G == GivenEnv(l, in, extra)
           h == Handed(l, in, extra)
<1>1. h.env = Over(P, G)
  BY HandedFields
<1>2. n \notin DOMAIN P
  BY OneHome DEF PostureEnv, SparesHomes
<1> HIDE DEF P, G, h
<1>3. n \in DOMAIN G /\ G[n] = Roots["boot"]
  BY DEF G, AtBoot
<1>4. n \in DOMAIN Over(P, G) /\ Over(P, G)[n] = G[n]
  BY <1>2, <1>3, OverSecond
<1>5. AtBoot(h.env, n)
  BY <1>1, <1>3, <1>4 DEF AtBoot
<1> QED BY <1>5 DEF h

\* A projection's turn is handed so.
LEMMA ProjectionHanded ==
  ASSUME NEW a \in Adapters, NEW ctx \in Contexts, NEW opts \in Options, NEW set \in Settings,
         NEW l, l = ProjectionOf(a, ctx, opts, set), SparesHomes(l),
         NEW in, Asks(in),
         NEW extra \in Seq(Args), NEW X, Inserted(l.conv.runtime, extra, X)
  PROVE  HandedWell(l, in, extra)
<1> DEFINE b == Outfit(l)
           h == Handed(l, in, extra)
           c == l.conv
           prepared == ResolveTurn(c, Roots, in, extra)
<1>1. /\ l.path = "projection" /\ l.set = set /\ c = Projected(a, ctx, opts).conv
      /\ b = EquippedFor(a, ctx, opts) /\ c.runtime = a.runtime
      /\ c.cwd = Where(a.runtime) /\ c.env = Amendments(HomeNames(a.runtime))
  BY ProjectionIs
<1>2. l.path # "fields"
  BY <1>1
<1>3. h.cwd = prepared.cwd /\ h.argv = prepared.argv
  BY <1>2, HandedFields, Zenon
<1>4. c.cwd \in {"boot", "project"}
  BY <1>1 DEF Where
<1>5. prepared.argv = Argv(c, LaunchRoots, in, extra) /\ prepared.cwd = Roots[c.cwd]
  BY <1>4, ResolvedAt
<1>6. Argv(Projected(a, ctx, opts).conv, LaunchRoots, in, extra) = BuildArgs(EquippedFor(a, ctx, opts), in, extra)
  BY <1>1, ProjectionArgv DEF Asks
<1>7. ASSUME NEW n \in HomeNames(c.runtime)
      PROVE  AtBoot(h.env, n)
  <2> DEFINE e == ApplyEnvDeltas(set.env, prepared.env)
  <2>1. GivenEnv(l, in, extra) = e
    BY <1>1, <1>2, Zenon DEF GivenEnv
  <2>2. HomeNames(a.runtime) = {n}
    BY <1>1, OneHome
  <2>3. c.env = Amendments({n})
    BY <1>1, <2>2
  <2>4. AtBoot(e, n)
    <3> DEFINE base == set.env
    <3> HIDE DEF c, base
    <3>1. AtBoot(ApplyEnvDeltas(base, ResolveTurn(c, Roots, in, extra).env), n)
      BY <2>3, ResolvedEnv
    <3> QED BY <3>1 DEF base
  <2> HIDE DEF e
  <2> QED BY <2>1, <2>4, HomeIsGiven
<1> HIDE DEF prepared, b, h
<1>8. h.argv = BuildArgs(b, in, extra) /\ h.cwd = Roots[Where(c.runtime)]
  BY <1>1, <1>3, <1>5, <1>6
<1> QED BY <1>7, <1>8 DEF AtHome, HandedWell, b, h

\* So is a turn of a launch made from fields.
LEMMA FieldedHanded ==
  ASSUME NEW a \in Adapters, NEW ctx \in Contexts, NEW set \in Settings,
         NEW l, l = FieldedOf(a, ctx, set), SparesHomes(l),
         NEW in, NEW extra
  PROVE  HandedWell(l, in, extra)
<1> DEFINE b == Outfit(l)
           h == Handed(l, in, extra)
           r == l.conv.runtime
<1>1. l.path = "fields" /\ l.set = set /\ l.adapter = b /\ b = WithFields(a) /\ r = a.runtime
  BY FieldedIs
<1>2. h.cwd = SpawnWorkdir(b, Roots) /\ h.argv = BuildArgs(b, in, extra)
  BY <1>1, HandedFields, Zenon
<1>3. b.runtime = r /\ b.runtime \in CLIs
  <2>1. a \in AdapterFields
    BY LaunchAssumption
  <2>2. WithFields(a).runtime = a.runtime
    BY <2>1, WithFieldsIs DEF SameButPaths
  <2> QED BY <1>1, <2>1, <2>2 DEF AdapterFields, CLIs
<1>4. SpawnWorkdir(b, Roots) = Roots[Where(b.runtime)] /\ LegacyEnv(b, Roots) = [name \in HomeNames(b.runtime) |-> Roots["boot"]]
  <2> HIDE DEF b
  <2> QED BY <1>3, LegacyIs
<1>5. ASSUME NEW n \in HomeNames(r)
      PROVE  AtBoot(h.env, n)
  <2> DEFINE f == LegacyEnv(b, Roots)
             e == Over(f, l.set.env)
  <2>1. GivenEnv(l, in, extra) = e
    BY <1>1, Zenon DEF GivenEnv
  <2>2. n \in DOMAIN f /\ f[n] = Roots["boot"]
    BY <1>3, <1>4
  <2> HIDE DEF f
  <2>3. AtBoot(e, n)
    BY <2>2, OverFirst DEF AtBoot
  <2> HIDE DEF e
  <2> QED BY <2>1, <2>3, HomeIsGiven
<1> HIDE DEF b, h
<1>6. h.cwd = Roots[Where(r)]
  BY <1>2, <1>3, <1>4
<1> QED BY <1>2, <1>5, <1>6 DEF AtHome, HandedWell, b, h

\* What a launch of either way hands the CLI.
LEMMA HandedIs ==
  ASSUME NEW l, OwnLaunch(l), SparesHomes(l),
         NEW in, Asks(in),
         NEW extra \in Seq(Args), NEW X, Inserted(l.conv.runtime, extra, X)
  PROVE  HandedWell(l, in, extra)
<1>1. CASE IsProjection(l)
  <2>1. PICK a \in Adapters, ctx \in Contexts, opts \in Options, set \in Settings :
          l = ProjectionOf(a, ctx, opts, set)
    BY <1>1, Zenon DEF IsProjection
  <2> QED BY <2>1, ProjectionHanded
<1>2. CASE IsFielded(l)
  <2>1. PICK a \in Adapters, ctx \in Contexts, set \in Settings : l = FieldedOf(a, ctx, set)
    BY <1>2, Zenon DEF IsFielded
  <2> QED BY <2>1, FieldedHanded
<1> QED BY <1>1, <1>2 DEF OwnLaunch

-----------------------------------------------------------------------------
(* What a turn is made of. *)

\* Session ids are not empty and are no flags.
LEMMA SessionIDIs ==
  ASSUME NEW n \in Nat
  PROVE  /\ SessionID(n) \in Args /\ Len(SessionID(n)) = n
         /\ n # 0 => SessionID(n) # <<>> /\ SessionID(n)[1] = "session"
<1> DEFINE s == SessionID(n)
<1>1. s = [i \in 1..n |-> "session"]
  BY DEF SessionID
<1>2. "session" \in Parts
  BY LiteralsAre
<1>3. s \in [1..n -> Parts]
  BY <1>1, <1>2
<1>4. s \in Args /\ Len(s) = n
  BY <1>3 DEF Args
<1>5. n # 0 => s[1] = "session"
  BY <1>1
<1>6. n # 0 => s # <<>>
  BY <1>4
<1> HIDE DEF s
<1> QED BY <1>4, <1>5, <1>6 DEF s

\* An id is asked for as it was given.
LEMMA IdIsAsked ==
  ASSUME NEW id \in Ids
  PROVE  id \in Args /\ (id = <<>> \/ id[1] \notin Dashed)
<1>1. <<>> \in Args
  BY NoText
<1>2. CASE id = <<>>
  BY <1>1, <1>2
<1>3. CASE id # <<>>
  <2>1. PICK n \in Nat \ {0} : id = SessionID(n)
    BY <1>3 DEF Ids
  <2>2. id \in Args /\ id[1] = "session"
    BY <2>1, SessionIDIs
  <2> QED BY <2>2, NotFlags
<1> QED BY <1>2, <1>3

\* What a turn asks of a launch.
LEMMA InputIs ==
  ASSUME NEW l, l.ctx \in Contexts, NEW prompt, NEW id
  PROVE  /\ Input(l, prompt, id).prompt = prompt /\ Input(l, prompt, id).system = l.ctx.system
         /\ Input(l, prompt, id).resume = id
         /\ l.ctx \in ContextFields /\ l.ctx.system \in Args
         /\ prompt \in Prompts /\ id \in Ids => Asks(Input(l, prompt, id))
<1>1. l.ctx \in ContextFields
  BY LaunchAssumption
<1>2. l.ctx.system \in Args
  <2>1. l.ctx.system \in Texts
    BY <1>1 DEF ContextFields
  <2> QED BY <2>1, TextsAreArgs
<1> DEFINE in == Input(l, prompt, id)
           system == l.ctx.system
<1>3. in = [prompt |-> prompt, system |-> system, resume |-> id]
  BY DEF Input
<1> HIDE DEF in, system
<1>4. in.prompt = prompt /\ in.system = system /\ in.resume = id
  BY <1>3
<1>5. ASSUME prompt \in Prompts, id \in Ids PROVE Asks(in)
  <2>1. prompt \in Args
    <3>1. prompt \in Texts
      BY <1>5, LaunchAssumption
    <3> QED BY <3>1, TextsAreArgs
  <2>2. id \in Args /\ (id = <<>> \/ id[1] \notin Dashed)
    BY <1>5, IdIsAsked
  <2>3. in \in Inputs
    BY <1>2, <1>3, <2>1, <2>2 DEF Inputs, system
  <2> QED BY <1>4, <2>2, <2>3 DEF Asks
<1> QED BY <1>1, <1>2, <1>4, <1>5 DEF in, system

\* The posture's part of a launch, whatever it says, stands where options do.
LEMMA PostureIs ==
  ASSUME NEW l, l.conv.runtime \in CLIs, l.set \in Settings, Promised(l).ok
  PROVE  \E X : /\ Postured(l.conv.runtime, Promised(l), X)
                /\ Inserted(l.conv.runtime, Promised(l).args, X)
                /\ Promised(l).args \in Seq(Args) /\ SparesHomes(l)
<1> DEFINE r == l.conv.runtime
<1>1. l.set.posture \in STRING
  BY LaunchAssumption
<1>2. PICK X : Postured(r, Promised(l), X)
  BY <1>1, PostureSays
<1>3. Inserted(r, Promised(l).args, X) /\ SparesHomes(l)
  BY <1>2 DEF Postured, Inserted, SparesHomes
<1> DEFINE none == <<>>
<1>4. Open(r, none)
  BY DEF Open, Contains
<1> HIDE DEF none
<1>5. Promised(l).args \in Seq(Args)
  BY <1>3, <1>4 DEF Inserted, Adds
<1> QED BY <1>2, <1>3, <1>5

\* What the last turn was given.
TurnInput == Input(launch, turn.prompt, turn.resume)

\* What is known of a turn that a launch of ours took.
LEMMA TookIs ==
  ASSUME LaunchInv, Took, launch.path # "foreign"
  PROVE  /\ OwnLaunch(launch) /\ Asks(TurnInput) /\ turn.prompt \in Prompts /\ turn.resume \in Ids
         /\ ByProtocol(launch) => turn.resume = <<>>
         /\ launch.conv.runtime \in CLIs /\ launch.conv.runtime \in Runtime /\ Promised(launch).ok
         /\ Carried(launch) = Promised(launch)
         /\ \A in, extra : Bound(launch, in, extra) = Handed(launch, in, extra)
         /\ turn.bound = Handed(launch, TurnInput, Promised(launch).args)
         /\ HandedWell(launch, TurnInput, Promised(launch).args)
         /\ Promised(launch).args \in Seq(Args)
         /\ \E X : Postured(launch.conv.runtime, Promised(launch), X)
<1>1. stage = "ready" /\ TurnMade /\ RegInv /\ Ready /\ OwnLaunch(launch)
  BY DEF LaunchInv, OwnLaunch
<1>2. /\ launch.conv.runtime \in Runtime /\ Promised(launch).ok /\ turn.prompt \in Prompts /\ turn.resume \in Ids
      /\ (ByProtocol(launch) => turn.resume = <<>>)
      /\ turn.bound = Handed(launch, TurnInput, Promised(launch).args)
  BY <1>1, Zenon DEF TurnMade, TurnInput
<1>3. launch.conv.runtime \in CLIs /\ launch.ctx \in Contexts /\ launch.set \in Settings
  BY <1>1, OwnLaunchIs
<1>4. Asks(TurnInput)
  BY <1>2, <1>3, InputIs DEF TurnInput
<1>5. Carried(launch) = Promised(launch) /\ \A in, extra : Bound(launch, in, extra) = Handed(launch, in, extra)
  BY <1>1, <1>2, CarriedIs
<1>6. PICK X : /\ Postured(launch.conv.runtime, Promised(launch), X)
               /\ Inserted(launch.conv.runtime, Promised(launch).args, X)
               /\ Promised(launch).args \in Seq(Args) /\ SparesHomes(launch)
  BY <1>2, <1>3, PostureIs
<1>7. HandedWell(launch, TurnInput, Promised(launch).args)
  BY <1>1, <1>4, <1>6, HandedIs
<1> QED BY <1>1, <1>2, <1>3, <1>4, <1>5, <1>6, <1>7

-----------------------------------------------------------------------------
(* What is planted. *)

\* A file of the layout.
LEMMA FileIs ==
  ASSUME NEW r, NEW s, NEW c
  PROVE  /\ File(r, s, c).concern = c /\ File(r, s, c).rel = Find(r, s, c).rel /\ File(r, s, c).agent = Nothing
         /\ File(r, s, c).servers = Nothing /\ ~File(r, s, c).system
<1> DEFINE rel == Find(r, s, c).rel
           f == File(r, s, c)
<1>1. f = [concern |-> c, rel |-> rel, agent |-> Nothing, servers |-> Nothing, system |-> FALSE]
  BY Zenon DEF File, Nothing
<1> HIDE DEF f, rel
<1>2. f.concern = c /\ f.rel = rel /\ f.agent = Nothing /\ f.servers = Nothing /\ ~f.system
  BY <1>1
<1> QED BY <1>2 DEF f, rel

\* The files that have servers.
LEMMA ServingIs ==
  ASSUME NEW r, NEW s, NEW c, NEW v
  PROVE  /\ Serving(r, s, c, v).concern = c /\ Serving(r, s, c, v).rel = Find(r, s, c).rel
         /\ Serving(r, s, c, v).agent = Nothing /\ Serving(r, s, c, v).servers = v
<1> DEFINE rel == Find(r, s, c).rel
           f == Serving(r, s, c, v)
<1>1. f = [[concern |-> c, rel |-> rel, agent |-> Nothing, servers |-> Nothing, system |-> FALSE] EXCEPT !.servers = v]
  BY Zenon DEF Serving, File, Nothing
<1> HIDE DEF f, rel
<1>2. f.concern = c /\ f.rel = rel /\ f.agent = Nothing /\ f.servers = v
  BY <1>1
<1> QED BY <1>2 DEF f, rel

\* The instructions' file.
LEMMA InstructionsAre ==
  ASSUME NEW r, NEW s, NEW ctx
  PROVE  /\ Instructions(r, s, ctx).concern = "instructions" /\ Instructions(r, s, ctx).agent = Nothing
         /\ Instructions(r, s, ctx).rel = Find(r, s, "instructions").rel
         /\ Instructions(r, s, ctx).servers = Nothing /\ (Instructions(r, s, ctx).system <=> ctx.system # <<>>)
<1> DEFINE c == "instructions"
           rel == Find(r, s, c).rel
           has == (ctx.system # <<>>)
           f == Instructions(r, s, ctx)
<1>1. f = [[concern |-> c, rel |-> rel, agent |-> Nothing, servers |-> Nothing, system |-> FALSE] EXCEPT !.system = has]
  BY Zenon DEF Instructions, File, Nothing
<1> HIDE DEF f, rel, has, c
<1>2. f.concern = c /\ f.rel = rel /\ f.agent = Nothing /\ f.servers = Nothing /\ f.system = has
  BY <1>1
<1> QED BY <1>2 DEF f, rel, has, c

\* OpenCode's agent file.
LEMMA AgentFileIs ==
  ASSUME NEW r, NEW s, NEW ctx, NEW agent
  PROVE  LET f == [Instructions(r, s, ctx) EXCEPT !.agent = agent]
         IN  f.concern = "instructions" /\ f.servers = Nothing /\ f.agent = agent /\ f.rel = Find(r, s, "instructions").rel
<1> DEFINE c == "instructions"
           rel == Find(r, s, c).rel
           has == (ctx.system # <<>>)
           f == [Instructions(r, s, ctx) EXCEPT !.agent = agent]
<1>1. f = [[[concern |-> c, rel |-> rel, agent |-> Nothing, servers |-> Nothing, system |-> FALSE]
              EXCEPT !.system = has] EXCEPT !.agent = agent]
  BY Zenon DEF Instructions, File, Nothing
<1> HIDE DEF f, rel, has, c
<1>2. f.concern = c /\ f.servers = Nothing /\ f.agent = agent /\ f.rel = rel
  BY <1>1
<1> QED BY <1>2 DEF f, c, rel

\* Both ways plant the same file.
LEMMA SameFile ==
  ASSUME NEW r, NEW s, NEW w, NEW c, Find(r, s, c).rel = Find(r, w, c).rel
  PROVE  File(r, s, c) = File(r, w, c) /\ \A v : Serving(r, s, c, v) = Serving(r, w, c, v)
<1>1. File(r, s, c) = File(r, w, c)
  BY Zenon DEF File
<1> QED BY <1>1, Zenon DEF Serving

\* The same instructions.
LEMMA SameInstructions ==
  ASSUME NEW r, NEW s, NEW w, NEW ctx, Find(r, s, "instructions").rel = Find(r, w, "instructions").rel
  PROVE  Instructions(r, s, ctx) = Instructions(r, w, ctx)
<1>1. File(r, s, "instructions") = File(r, w, "instructions")
  BY SameFile
<1> QED BY <1>1, Zenon DEF Instructions

\* Claude's and OpenCode's files are the same for every shape.
LEMMA SameClaudeFiles ==
  ASSUME NEW s, s = Bare \/ s = Plain(s.mode), NEW w, w = Bare \/ w = Plain(w.mode), NEW ctx
  PROVE  ClaudeFiles(s, ctx) = ClaudeFiles(w, ctx)
<1>1. Table[1].rel = "CLAUDE.md" /\ Table[2].rel = "CLAUDE.md"
  BY ClaudeTable, Zenon DEF RowIs
<1>2. Table[5].rel = ".claude/settings.json" /\ Table[6].rel = ".claude/settings.json"
  BY ClaudeTable, Zenon DEF RowIs
<1>3. Find("claude", s, "instructions").rel = Find("claude", w, "instructions").rel
  <2>1. Find("claude", s, "instructions") = Table[1] \/ Find("claude", s, "instructions") = Table[2]
    BY ClaudeRowsOf
  <2>2. Find("claude", w, "instructions") = Table[1] \/ Find("claude", w, "instructions") = Table[2]
    BY ClaudeRowsOf
  <2> QED BY <1>1, <2>1, <2>2
<1>4. Find("claude", s, "native-config").rel = Find("claude", w, "native-config").rel
  <2>1. Find("claude", s, "native-config") = Table[5] \/ Find("claude", s, "native-config") = Table[6]
    BY ClaudeRowsOf
  <2>2. Find("claude", w, "native-config") = Table[5] \/ Find("claude", w, "native-config") = Table[6]
    BY ClaudeRowsOf
  <2> QED BY <1>2, <2>1, <2>2
<1>5. Find("claude", s, "boot").rel = Find("claude", w, "boot").rel
  BY GeneralRows, Zenon
<1>6. Find("claude", s, "mcp").rel = Find("claude", w, "mcp").rel
  BY GeneralRows, Zenon
<1>7. Instructions("claude", s, ctx) = Instructions("claude", w, ctx)
  BY <1>3, SameInstructions
<1>8. /\ File("claude", s, "boot") = File("claude", w, "boot")
      /\ File("claude", s, "native-config") = File("claude", w, "native-config")
      /\ Serving("claude", s, "mcp", MCPJSON(ctx)) = Serving("claude", w, "mcp", MCPJSON(ctx))
  BY <1>4, <1>5, <1>6, SameFile
<1> QED BY <1>7, <1>8, Zenon DEF ClaudeFiles

\* The same files for OpenCode.
LEMMA SameOpencodeFiles ==
  ASSUME NEW s, NEW w, NEW ctx, NEW agent
  PROVE  OpencodeFiles(s, ctx, agent) = OpencodeFiles(w, ctx, agent)
<1> DEFINE r == "opencode"
<1>1. Find(r, s, "instructions").rel = Find(r, w, "instructions").rel
  BY GeneralRows, ZenonT(30)
<1>2. Find(r, s, "boot").rel = Find(r, w, "boot").rel
  BY GeneralRows, Zenon
<1>3. Find(r, s, "native-config").rel = Find(r, w, "native-config").rel
  BY GeneralRows, ZenonT(30)
<1>4. Find(r, s, "mcp").rel = Find(r, w, "mcp").rel
  BY GeneralRows, Zenon
<1>5. Instructions(r, s, ctx) = Instructions(r, w, ctx)
  BY <1>1, SameInstructions
<1>6. /\ File(r, s, "boot") = File(r, w, "boot")
      /\ Serving(r, s, "native-config", OpencodeJSON(ctx)) = Serving(r, w, "native-config", OpencodeJSON(ctx))
      /\ Serving(r, s, "mcp", MCPJSON(ctx)) = Serving(r, w, "mcp", MCPJSON(ctx))
  BY <1>2, <1>3, <1>4, SameFile
<1> QED BY <1>5, <1>6, Zenon DEF OpencodeFiles

\* What is planted beside the skills is none of them.
LEMMA NoSkills ==
  ASSUME NEW s, NEW ctx, NEW agent
  PROVE  /\ \A f \in ClaudeFiles(s, ctx) : f.concern # "skill"
         /\ \A f \in CodexFiles(s, ctx) : f.concern # "skill"
         /\ \A f \in OpencodeFiles(s, ctx, agent) : f.concern # "skill"
         /\ \A f \in AntigravityFiles(s, ctx) : f.concern # "skill"
<1> DEFINE Ok(f) == f.concern # "skill"
<1>1. \A r, c : c # "skill" => Ok(File(r, s, c))
  <2>1. ASSUME NEW r, NEW c PROVE File(r, s, c).concern = c
    BY FileIs
  <2> QED BY <2>1
<1>2. \A r, c, v : c # "skill" => Ok(Serving(r, s, c, v))
  <2>1. ASSUME NEW r, NEW c, NEW v PROVE Serving(r, s, c, v).concern = c
    BY ServingIs
  <2> QED BY <2>1
<1>3. \A r : Ok(Instructions(r, s, ctx)) /\ Ok([Instructions(r, s, ctx) EXCEPT !.agent = agent])
  <2>1. ASSUME NEW r PROVE Ok(Instructions(r, s, ctx)) /\ Ok([Instructions(r, s, ctx) EXCEPT !.agent = agent])
    <3>1. Instructions(r, s, ctx).concern = "instructions"
          /\ [Instructions(r, s, ctx) EXCEPT !.agent = agent].concern = "instructions"
      BY InstructionsAre, AgentFileIs
    <3> QED BY <3>1
  <2> QED BY <2>1
<1>4. "boot" # "skill" /\ "native-config" # "skill" /\ "mcp" # "skill" /\ "auth" # "skill"
  OBVIOUS
<1> HIDE DEF Ok
<1>5. \A f \in ClaudeFiles(s, ctx) : Ok(f)
  BY <1>1, <1>2, <1>3, <1>4, Zenon DEF ClaudeFiles
<1>6. \A f \in CodexFiles(s, ctx) : Ok(f)
  BY <1>1, <1>2, <1>3, <1>4, Zenon DEF CodexFiles
<1>7. \A f \in OpencodeFiles(s, ctx, agent) : Ok(f)
  BY <1>1, <1>2, <1>3, <1>4, Zenon DEF OpencodeFiles
<1>8. \A f \in AntigravityFiles(s, ctx) : Ok(f)
  BY <1>1, <1>2, <1>3, <1>4, Zenon DEF AntigravityFiles
<1> QED BY <1>5, <1>6, <1>7, <1>8 DEF Ok

\* Skill files have no servers and no system prompt.
LEMMA SkillsAre ==
  ASSUME NEW r, NEW s, NEW skills
  PROVE  \A f \in SkillFiles(r, s, skills) :
           f.concern = "skill" /\ f.rel = Find(r, s, "skills").rel /\ f.servers = Nothing
<1> DEFINE c == "skills"
           skl == "skill"
<1>1. ASSUME NEW f \in SkillFiles(r, s, skills)
      PROVE  f.concern = skl /\ f.rel = Find(r, s, c).rel /\ f.servers = Nothing
  <2>1. PICK x \in skills : f = [File(r, s, c) EXCEPT !.concern = skl, !.agent = <<x.name>>]
    BY <1>1 DEF SkillFiles
  <2> DEFINE none == <<>>
             no == FALSE
             rel == Find(r, s, c).rel
             name == <<x.name>>
  <2>2. f = [[concern |-> c, rel |-> rel, agent |-> none, servers |-> none, system |-> no]
               EXCEPT !.concern = skl, !.agent = name]
    BY <2>1, Zenon DEF File
  <2> HIDE DEF none, no, rel, name, skl
  <2>3. f.concern = skl /\ f.rel = rel /\ f.servers = none
    BY <2>2
  <2> QED BY <2>3 DEF rel, skl, none, Nothing
<1> QED BY <1>1

-----------------------------------------------------------------------------
(* Two ways to one turn. *)

\* The adapter a turn is made from is of the launch's runtime and shape.
LEMMA OutfitIs ==
  ASSUME NEW a \in Adapters, NEW ctx \in Contexts, NEW opts \in Options
  PROVE  LET b == EquippedFor(a, ctx, opts)
         IN  /\ b.runtime = a.runtime /\ b.runtime \in CLIs /\ ShapeOf(b) = ShapeOf(a)
             /\ (b.runtime = "opencode" => LegacyAgent(b) = AgentName(a, ctx))
<1> DEFINE b == EquippedFor(a, ctx, opts)
<1>1. a \in AdapterFields
  BY LaunchAssumption
<1>2. SameButPaths(a, b) /\ b.agent = IF a.runtime = "opencode" THEN AgentName(a, ctx) ELSE a.agent
  BY <1>1, EquippedIs
<1>3. Outfitted(b) /\ ShapeOf(b) = ShapeOf(a)
  BY EquippedOutfitted
<1> HIDE DEF b
<1>4. b.runtime = a.runtime /\ b.runtime \in CLIs
  BY <1>2, <1>3 DEF SameButPaths, Outfitted
<1>5. AgentName(a, ctx) # Nothing
  <2>1. <<"default">> # Nothing
    BY DEF Nothing
  <2>2. AgentName(a, ctx) = IF ctx.agent # Nothing THEN ctx.agent ELSE IF a.agent # Nothing THEN a.agent ELSE <<"default">>
    BY Zenon DEF AgentName, Nothing
  <2> QED BY <2>1, <2>2
<1>6. b.runtime = "opencode" => LegacyAgent(b) = AgentName(a, ctx)
  <2>1. LegacyAgent(b) = IF b.agent = Nothing THEN <<"default">> ELSE b.agent
    BY Zenon DEF LegacyAgent, Nothing
  <2> QED BY <1>2, <1>4, <1>5, <2>1
<1> QED BY <1>3, <1>4, <1>6 DEF b

\* A projection's files, in both their parts.
LEMMA ProjectedFilesAre ==
  ASSUME NEW a, NEW ctx, NEW opts
  PROVE  /\ a.runtime = "claude" => Projected(a, ctx, opts).files = ClaudeFiles(ClaudeShape(a), ctx)
         /\ a.runtime = "codex" => Projected(a, ctx, opts).files = CodexFiles(CodexShape(a), ctx)
         /\ a.runtime = "opencode" =>
              Projected(a, ctx, opts).files = OpencodeFiles(OpencodeShape(a), ctx, AgentName(a, ctx))
         /\ a.runtime = "antigravity" => Projected(a, ctx, opts).files = AntigravityFiles(Plain(PerTurn), ctx)
<1>1. \A x, y : [conv |-> x, files |-> y].files = y
  OBVIOUS
<1>2. /\ ClaudeProjection(a, ctx, opts).files = ClaudeFiles(ClaudeShape(a), ctx)
      /\ CodexProjection(a, ctx).files = CodexFiles(CodexShape(a), ctx)
      /\ OpencodeProjection(a, ctx).files = OpencodeFiles(OpencodeShape(a), ctx, AgentName(a, ctx))
      /\ AntigravityProjection(a, ctx).files = AntigravityFiles(Plain(PerTurn), ctx)
  BY <1>1, Zenon DEF ClaudeProjection, CodexProjection, OpencodeProjection, AntigravityProjection
<1>3. "codex" # "claude" /\ "opencode" # "claude" /\ "opencode" # "codex" /\ "antigravity" # "claude"
      /\ "antigravity" # "codex" /\ "antigravity" # "opencode"
  OBVIOUS
<1>4. a.runtime = "claude" => Projected(a, ctx, opts) = ClaudeProjection(a, ctx, opts)
  BY <1>3, Zenon DEF Projected
<1>5. a.runtime = "codex" => Projected(a, ctx, opts) = CodexProjection(a, ctx)
  BY <1>3, Zenon DEF Projected
<1>6. a.runtime = "opencode" => Projected(a, ctx, opts) = OpencodeProjection(a, ctx)
  BY <1>3, Zenon DEF Projected
<1>7. a.runtime = "antigravity" => Projected(a, ctx, opts) = AntigravityProjection(a, ctx)
  BY <1>3, Zenon DEF Projected
<1> QED BY <1>2, <1>4, <1>5, <1>6, <1>7

\* BootDirSpec plants what the projection plants.
LEMMA SamePlanted ==
  ASSUME NEW a \in Adapters, NEW ctx \in Contexts, NEW opts \in Options
  PROVE  LegacyFiles(EquippedFor(a, ctx, opts), ctx) = Projected(a, ctx, opts).files
<1> DEFINE b == EquippedFor(a, ctx, opts)
           P == Projected(a, ctx, opts).files
<1>1. b.runtime = a.runtime /\ b.runtime \in CLIs /\ ShapeOf(b) = ShapeOf(a)
      /\ (b.runtime = "opencode" => LegacyAgent(b) = AgentName(a, ctx))
  BY OutfitIs
<1> HIDE DEF b
<1>2. "codex" # "claude" /\ "opencode" # "claude" /\ "opencode" # "codex" /\ "antigravity" # "claude"
      /\ "antigravity" # "codex" /\ "antigravity" # "opencode"
  OBVIOUS
<1>3. b.runtime # "codex" => LegacyShape(b) = Plain(PerTurn)
  BY Zenon DEF LegacyShape
<1>4. b.runtime = "codex" => LegacyShape(b) = ShapeOf(b)
  BY Zenon DEF LegacyShape
<1>5. CASE b.runtime = "claude"
  <2> DEFINE s == ClaudeShape(a)
             w == Plain(PerTurn)
  <2>1. LegacyFiles(b, ctx) = ClaudeFiles(w, ctx)
    BY <1>2, <1>3, <1>5, Zenon DEF LegacyFiles
  <2>2. P = ClaudeFiles(s, ctx)
    BY <1>1, <1>5, ProjectedFilesAre
  <2>3. s = ShapeOf(a)
    BY <1>1, <1>5, Zenon DEF ShapeOf
  <2>4. (s = Bare \/ s = Plain(s.mode)) /\ w = Plain(w.mode)
    BY <2>3, ShapesAre, PlainIsNotBare
  <2> HIDE DEF s, w, P
  <2>5. ClaudeFiles(s, ctx) = ClaudeFiles(w, ctx)
    BY <2>4, SameClaudeFiles
  <2> QED BY <2>1, <2>2, <2>5 DEF b, P
<1>6. CASE b.runtime = "codex"
  <2>1. LegacyFiles(b, ctx) = CodexFiles(ShapeOf(b), ctx)
    BY <1>2, <1>4, <1>6, Zenon DEF LegacyFiles
  <2>2. P = CodexFiles(CodexShape(a), ctx)
    BY <1>1, <1>6, ProjectedFilesAre
  <2>3. CodexShape(a) = ShapeOf(a)
    BY <1>1, <1>2, <1>6, Zenon DEF ShapeOf
  <2> QED BY <1>1, <2>1, <2>2, <2>3 DEF b
<1>7. CASE b.runtime = "opencode"
  <2> DEFINE agent == AgentName(a, ctx)
  <2>1. LegacyFiles(b, ctx) = OpencodeFiles(Plain(PerTurn), ctx, agent)
    BY <1>1, <1>2, <1>3, <1>7, Zenon DEF LegacyFiles
  <2>2. P = OpencodeFiles(OpencodeShape(a), ctx, agent)
    BY <1>1, <1>7, ProjectedFilesAre
  <2> HIDE DEF agent, P
  <2> QED BY <2>1, <2>2, SameOpencodeFiles DEF b, P
<1>8. CASE b.runtime = "antigravity"
  <2>1. LegacyFiles(b, ctx) = AntigravityFiles(Plain(PerTurn), ctx)
    BY <1>2, <1>3, <1>8, Zenon DEF LegacyFiles
  <2>2. P = AntigravityFiles(Plain(PerTurn), ctx)
    BY <1>1, <1>8, ProjectedFilesAre
  <2> QED BY <2>1, <2>2 DEF b
<1> QED BY <1>1, <1>5, <1>6, <1>7, <1>8 DEF CLIs

\* None of the projected ones is a skill.
LEMMA ProjectedIsNoSkill ==
  ASSUME NEW a, a.runtime \in CLIs, NEW ctx, NEW opts
  PROVE  \A f \in Projected(a, ctx, opts).files : f.concern # "skill"
<1>1. CASE a.runtime = "claude"
  BY <1>1, ProjectedFilesAre, NoSkills
<1>2. CASE a.runtime = "codex"
  BY <1>2, ProjectedFilesAre, NoSkills
<1>3. CASE a.runtime = "opencode"
  <2> DEFINE s == OpencodeShape(a)
             agent == AgentName(a, ctx)
             P == Projected(a, ctx, opts).files
  <2>1. P = OpencodeFiles(s, ctx, agent)
    BY <1>3, ProjectedFilesAre
  <2> HIDE DEF s, agent, P
  <2>2. \A f \in P : f.concern # "skill"
    BY <2>1, NoSkills
  <2> QED BY <2>2 DEF P
<1>4. CASE a.runtime = "antigravity"
  <2> DEFINE s == Plain(PerTurn)
             P == Projected(a, ctx, opts).files
  <2>1. P = AntigravityFiles(s, ctx)
    BY <1>4, ProjectedFilesAre
  <2> HIDE DEF s, P
  <2>2. \A f \in P : f.concern # "skill"
    BY <2>1, NoSkills
  <2> QED BY <2>2 DEF P
<1> QED BY <1>1, <1>2, <1>3, <1>4 DEF CLIs

\* Where a launch could go both ways, the invariant makes them agree.
LEMMA TwoPathsAgreeCorrect == LaunchInv => TwoPathsAgree
<1> SUFFICES ASSUME LaunchInv, Took, launch.path = "projection" PROVE TwoPathsAgree
  BY Zenon DEF TwoPathsAgree
<1> DEFINE b == EquippedFor(launch.adapter, launch.ctx, launch.opts)
           r == launch.conv.runtime
           in == TurnInput
           args == Promised(launch).args
<1>1. launch.path # "foreign" /\ launch.path # "fields"
  OBVIOUS
<1>2. /\ OwnLaunch(launch) /\ turn.bound = Handed(launch, in, args) /\ HandedWell(launch, in, args)
      /\ Carried(launch) = Promised(launch)
  BY <1>1, TookIs
<1>3. Outfit(launch) = b
  BY Zenon DEF Outfit
<1>4. turn.bound.argv = BuildArgs(b, in, args) /\ AtHome(launch, turn.bound)
  <2> HIDE DEF b, in, args
  <2> QED BY <1>2, <1>3, Zenon DEF HandedWell
<1>5. Outfitted(b) /\ r = b.runtime /\ b.runtime \in CLIs
  BY <1>2, <1>3, OwnLaunchIs
<1>6. SpawnWorkdir(b, Roots) = Roots[Where(r)] /\ LegacyEnv(b, Roots) = [name \in HomeNames(r) |-> Roots["boot"]]
  <2> HIDE DEF b
  <2> QED BY <1>5, LegacyIs
<1>7. turn.bound.cwd = SpawnWorkdir(b, Roots)
  BY <1>4, <1>6 DEF AtHome
<1>8. \A name \in DOMAIN LegacyEnv(b, Roots) : turn.bound.env[name] = LegacyEnv(b, Roots)[name]
  BY <1>4, <1>6 DEF AtHome, AtBoot
<1>9. LegacyFiles(b, launch.ctx) = { f \in launch.files : f.concern # "skill" }
  <2>1. IsProjection(launch)
    <3>1. ASSUME IsFielded(launch) PROVE FALSE
      <4>1. PICK a \in Adapters, ctx \in Contexts, set \in Settings : launch = FieldedOf(a, ctx, set)
        BY <3>1, Zenon DEF IsFielded
      <4> QED BY <1>1, <4>1, FieldedIs
    <3> QED BY <1>2, <3>1 DEF OwnLaunch
  <2>2. PICK a \in Adapters, ctx \in Contexts, opts \in Options, set \in Settings :
          launch = ProjectionOf(a, ctx, opts, set)
    BY <2>1, Zenon DEF IsProjection
  <2> DEFINE P == Projected(a, ctx, opts).files
             S == SkillFiles(a.runtime, ShapeOf(a), opts.skills)
  <2>3. /\ launch.adapter = a /\ launch.ctx = ctx /\ launch.opts = opts /\ launch.files = P \union S
        /\ r = a.runtime
    BY <2>2, ProjectionIs
  <2>4. LegacyFiles(b, ctx) = P
    BY <2>3, SamePlanted
  <2>5. \A f \in S : f.concern = "skill"
    BY SkillsAre
  <2>6. \A f \in P : f.concern # "skill"
    BY <1>5, <2>3, ProjectedIsNoSkill
  <2> HIDE DEF P, S, b
  <2> QED BY <2>3, <2>4, <2>5, <2>6
<1> HIDE DEF in, args
<1>10. args = Carried(launch).args /\ in = Input(launch, turn.prompt, turn.resume)
  BY <1>2 DEF args, in, TurnInput
<1> QED BY <1>4, <1>7, <1>8, <1>9, <1>10, Zenon DEF TwoPathsAgree, EquippedFor

\* BuildArgs and BootDirSpec on one side and the projection on the other give
\* every turn of every launch the same command line, directory, environment and
\* files.
THEOREM TwoPathsAreOne == LaunchSpec => []TwoPathsAgree
<1>1. LaunchSpec => []LaunchInv
  BY LaunchIsSound
<1> QED BY <1>1, TwoPathsAgreeCorrect, PTL

\* What the CLI reads of a launch of ours.
LEMMA HandedReads ==
  ASSUME NEW l, OwnLaunch(l), SparesHomes(l), NEW in, Asks(in), NEW extra \in Seq(Args),
         NEW X, Inserted(l.conv.runtime, extra, X)
  PROVE  LET b == Outfit(l)
         IN  Reads(b.runtime, Handed(l, in, extra).argv, Said(b, in, X), Spoken(b, in), Told(b, in))
<1> DEFINE b == Outfit(l)
           argv == BuildArgs(b, in, extra)
<1>1. HandedWell(l, in, extra)
  BY HandedIs
<1>2. Outfitted(b) /\ l.conv.runtime = b.runtime
  BY OwnLaunchIs
<1>3. Handed(l, in, extra).argv = argv
  <2> HIDE DEF b
  <2> QED BY <1>1, Zenon DEF HandedWell, b
<1>4. in \in Inputs /\ (in.resume = <<>> \/ in.resume[1] \notin Dashed)
  BY DEF Asks
<1> HIDE DEF b
<1>5. Inserted(b.runtime, extra, X)
  BY <1>2
<1>6. Reads(b.runtime, argv, Said(b, in, X), Spoken(b, in), Told(b, in))
  BY <1>2, <1>4, <1>5, BuildReads
<1> QED BY <1>3, <1>6 DEF b

\* The posture alone is read as its options.
LEMMA PostureReads ==
  ASSUME NEW r, NEW args, NEW X, Inserted(r, args, X)
  PROVE  Read(r, args).options = X
<1> DEFINE none == <<>>
<1>1. Calm(r, none, Read(r, none)) /\ Read(r, none).options = {}
  BY StartCalm
<1>2. Open(r, none)
  BY DEF Open, Contains
<1>3. none \in Seq(Args)
  BY NoText
<1> HIDE DEF none
<1>4. args \in Seq(Args) /\ Read(r, none \o args).options = Read(r, none).options \union X
  BY <1>1, <1>2, <1>3 DEF Inserted, Adds
<1>5. none \o args = args
  BY <1>4, ConcatEmptySeq DEF none
<1> QED BY <1>1, <1>4, <1>5

\* The harmless turn is one a host could take.
LEMMA HarmlessIs ==
  ASSUME turn.resume \in Ids
  PROVE  Asks(Harmless) /\ Harmless.resume = turn.resume
<1> DEFINE hello == <<"hello">>
           none == <<>>
           id == turn.resume
           in == Harmless
<1>1. hello \in Args /\ none \in Args
  BY LiteralsAre, OneText, NoText
<1>2. id \in Args /\ (id = <<>> \/ id[1] \notin Dashed)
  BY IdIsAsked
<1>3. in = [prompt |-> hello, system |-> none, resume |-> id]
  BY Zenon DEF Harmless
<1> HIDE DEF hello, none, id, in
<1>4. in \in Inputs /\ in.resume = id
  BY <1>1, <1>2, <1>3 DEF Inputs
<1>5. Asks(in)
  BY <1>2, <1>4 DEF Asks
<1> QED BY <1>4, <1>5 DEF in, id

\* The texts' options carry the texts' flags.
LEMMA TextsAreTextual ==
  ASSUME NEW b, NEW e
  PROVE  Under(TextSaid(b, e), Textual)
<1> DEFINE v == PrefixSystem(e.prompt, e.system)
           P == {<<"-p=", v>>}
           S == SystemOption(e)
           Z == TextSaid(b, e)
<1>1. Z = S \/ Z = P \/ Z = {}
  <2>1. Z = (CASE b.runtime = "claude" -> IF ShapeOf(b) = Plain(PerTurn) THEN S ELSE {}
               [] b.runtime = "antigravity" -> P [] OTHER -> {})
    BY Zenon DEF TextSaid
  <2> HIDE DEF Z, S, P
  <2> QED BY <2>1
<1>2. S = OptionOf("--system-prompt=", e.system) \/ S = {}
  BY DEF SystemOption
<1> HIDE DEF v, S, Z
<1>3. Under(P, {"-p="}) /\ Under(OptionOf("--system-prompt=", e.system), {"--system-prompt="})
  BY OneValue, OptionValue
<1> HIDE DEF P
<1>4. Under(P, Textual) /\ Under(OptionOf("--system-prompt=", e.system), Textual)
  BY <1>3 DEF Under, Textual
<1>5. \A E : E = {} => Under(E, Textual)
  BY DEF Under
<1>6. Under(Z, Textual)
  BY <1>1, <1>2, <1>4, <1>5
<1> QED BY <1>6 DEF Z

\* The turn's texts and the posture are all that distinguishes two turns of
\* one session.
LEMMA SaidApart ==
  ASSUME NEW b, b.runtime \in CLIs, NEW in, NEW other, other.resume = in.resume,
         NEW X, Under(X, PostureFlags), NEW none, Kept(none) = {}
  PROVE  Kept(Said(b, in, X)) = Kept(Said(b, other, none)) \union X
<1> DEFINE B == Base(b, in.resume)
           T == TextSaid(b, in)
           U == TextSaid(b, other)
<1>1. Said(b, in, X) = B \union X \union T
  BY SaidIs
<1>2. Said(b, other, none) = B \union none \union U
  <2>1. Said(b, other, none) = Base(b, other.resume) \union none \union U
    BY SaidIs
  <2> QED BY <2>1
<1>4. Under(T, Textual) /\ Under(U, Textual)
  BY TextsAreTextual
<1> HIDE DEF B, T, U
<1>5. Kept(T) = {} /\ Kept(U) = {} /\ Kept(none) = {}
  BY <1>4 DEF Kept, Under
<1>6. Kept(X) = X
  BY DEF Kept, Under, PostureFlags, Textual, SkipFlag
<1>7. \A D, E, F : Kept(D \union E \union F) = Kept(D) \union Kept(E) \union Kept(F)
  BY DEF Kept
<1>8. Kept(Said(b, in, X)) = Kept(B) \union X
  <2>1. Kept(Said(b, in, X)) = Kept(B) \union Kept(X) \union Kept(T)
    BY <1>1, <1>7
  <2> QED BY <1>5, <1>6, <2>1
<1>9. Kept(Said(b, other, none)) = Kept(B)
  <2>1. Kept(Said(b, other, none)) = Kept(B) \union Kept(none) \union Kept(U)
    BY <1>2, <1>7
  <2> QED BY <1>5, <2>1
<1> QED BY <1>8, <1>9

\* Settled is the options that carry no text.
LEMMA SettledIs == \A reading : Settled(reading) = Kept(reading.options)
  BY DEF Settled, Kept, Textual

\* The texts of a turn, and those it should have.
GivenTexts(l, in) ==
  IF l.conv.mode # PerTurn THEN {}
  ELSE IF l.conv.runtime \in {"opencode", "antigravity"} THEN {PrefixSystem(in.prompt, in.system)} ELSE {in.prompt}

\* The text the CLI reads is the turn's.
LEMMA TextIs ==
  ASSUME NEW l, OwnLaunch(l), NEW in, NEW X, Under(X, PostureFlags), NEW reading,
         reading.options = Said(Outfit(l), in, X), reading.text = Told(Outfit(l), in)
  PROVE  TextOf(l.conv.runtime, reading) = GivenTexts(l, in)
<1> DEFINE b == Outfit(l)
           s == ShapeOf(b)
           v == PrefixSystem(in.prompt, in.system)
           G == GivenTexts(l, in)
<1>1. l.conv.runtime = b.runtime /\ b.runtime \in CLIs /\ l.conv.mode = s.mode
  BY OwnLaunchIs
<1>2. "codex" # "claude" /\ "opencode" # "claude" /\ "opencode" # "codex" /\ "antigravity" # "claude"
      /\ "antigravity" # "codex" /\ "antigravity" # "opencode"
  OBVIOUS
<1> HIDE DEF b, s, v, G
<1>3. \A x : ToSet(<<x>>) = {x}
  BY DEF ToSet
<1>4. ToSet(<<>>) = {}
  BY DEF ToSet
<1>5. CASE b.runtime \in {"claude", "codex"}
  <2>1. b.runtime # "opencode" /\ b.runtime # "antigravity"
    BY <1>2, <1>5
  <2>2. TextOf(l.conv.runtime, reading) = ToSet(reading.text)
    BY <1>1, <2>1, Zenon DEF TextOf
  <2>3. CASE s.mode = PerTurn
    <3>1. reading.text = <<in.prompt>>
      BY <1>5, <2>3, Zenon DEF Told, b, s
    <3>2. b.runtime \notin {"opencode", "antigravity"}
      BY <2>1
    <3>3. G = {in.prompt}
      BY <1>1, <2>3, <3>2, Zenon DEF GivenTexts, G
    <3> QED BY <1>3, <2>2, <3>1, <3>3 DEF G
  <2>4. CASE s.mode # PerTurn
    <3>1. reading.text = <<>>
      BY <1>5, <2>4, Zenon DEF Told, b, s
    <3>2. G = {}
      BY <1>1, <2>4, Zenon DEF GivenTexts, G
    <3> QED BY <1>4, <2>2, <3>1, <3>2 DEF G
  <2> QED BY <2>3, <2>4
<1>6. CASE b.runtime = "opencode"
  <2>1. b.runtime # "antigravity" /\ b.runtime \notin {"claude", "codex"} /\ b.runtime \in {"opencode", "antigravity"}
    BY <1>2, <1>6
  <2>2. TextOf(l.conv.runtime, reading) = ToSet(reading.text)
    BY <1>1, <2>1, Zenon DEF TextOf
  <2>3. CASE s.mode = PerTurn
    <3>1. reading.text = <<v>>
      BY <1>6, <2>1, <2>3, Zenon DEF Told, b, s, v
    <3>2. G = {v}
      BY <1>1, <2>1, <2>3, Zenon DEF GivenTexts, G, v
    <3> QED BY <1>3, <2>2, <3>1, <3>2 DEF G
  <2>4. CASE s.mode # PerTurn
    <3>1. reading.text = <<>>
      BY <1>6, <2>1, <2>4, Zenon DEF Told, b, s
    <3>2. G = {}
      BY <1>1, <2>4, Zenon DEF GivenTexts, G
    <3> QED BY <1>4, <2>2, <3>1, <3>2 DEF G
  <2> QED BY <2>3, <2>4
<1>7. CASE b.runtime = "antigravity"
  <2>1. b.runtime \in {"opencode", "antigravity"} /\ b.runtime # "claude" /\ b.runtime # "codex" /\ b.runtime # "opencode"
    BY <1>2, <1>7
  <2>2. s = Plain(PerTurn) /\ s.mode = PerTurn
    BY <1>7, ShapesAre, PlainIsNotBare DEF s
  <2>3. G = {v}
    BY <1>1, <2>1, <2>2, Zenon DEF GivenTexts, G, v
  <2> DEFINE B == Base(b, in.resume)
             T == {<<"-p=", v>>}
             f == "-p="
  <2>4. B = AntigravityBase(b, in.resume) /\ TextSaid(b, in) = T
    BY <2>1, <1>7, Zenon DEF Base, TextSaid, v
  <2>5. reading.options = B \union X \union T
    BY <1>1, <2>4, SaidIs DEF b
  <2>6. ValuesIn(B, f) = {}
    BY <2>4, AntigravityBaseSays
  <2>7. ValuesIn(T, f) = {v}
    BY OneValue
  <2>8. ValuesIn(X, f) = {}
    BY DEF Under, ValuesIn, PostureFlags, SkipFlag
  <2>9. ValuesOf(reading, f) = ValuesIn(reading.options, f)
    BY Zenon DEF ValuesOf, ValuesIn
  <2> HIDE DEF f, B, T
  <2>10. \A D, E, F : ValuesIn(D \union E \union F, f) = ValuesIn(D, f) \union ValuesIn(E, f) \union ValuesIn(F, f)
    BY DEF ValuesIn
  <2>11. ValuesOf(reading, f) = {v}
    BY <2>5, <2>6, <2>7, <2>8, <2>9, <2>10
  <2>12. TextOf(l.conv.runtime, reading) = UNION { {x} : x \in ValuesOf(reading, f) }
    BY <1>1, <1>7, Zenon DEF TextOf, f
  <2>13. UNION { {x} : x \in {v} } = {v}
    OBVIOUS
  <2> QED BY <2>3, <2>11, <2>12, <2>13 DEF G
<1> QED BY <1>1, <1>5, <1>6, <1>7 DEF CLIs

\* A turn of a launch of ours is read as it is meant.
LEMMA TurnIsReadCorrect == LaunchInv /\ launch.path # "foreign" => TurnIsReadAsMeant
<1> SUFFICES ASSUME LaunchInv, launch.path # "foreign", Took PROVE TurnIsReadAsMeant
  BY Zenon DEF TurnIsReadAsMeant
<1> DEFINE r == launch.conv.runtime
           b == Outfit(launch)
           in == TurnInput
           other == Harmless
           args == Promised(launch).args
           none == <<>>
           read == Reading(launch, turn.bound)
           plain == Reading(launch, Bound(launch, Harmless, none))
<1>1. /\ OwnLaunch(launch) /\ Asks(in) /\ turn.resume \in Ids
      /\ r \in CLIs /\ r \in Runtime /\ Promised(launch).ok /\ Carried(launch) = Promised(launch)
      /\ Bound(launch, other, none) = Handed(launch, other, none)
      /\ turn.bound = Handed(launch, in, args)
      /\ args \in Seq(Args)
  BY TookIs
<1>2. launch.set \in Settings /\ launch.ctx \in Contexts /\ b.runtime = r /\ launch.conv.mode = ShapeOf(b).mode
  BY <1>1, OwnLaunchIs
<1>3. PICK X : Postured(r, Promised(launch), X) /\ Inserted(r, args, X) /\ SparesHomes(launch)
  BY <1>1, <1>2, PostureIs
<1>4. Under(X, PostureFlags)
  BY <1>3 DEF Postured, Under
<1>5. in.prompt = turn.prompt /\ in.system = launch.ctx.system /\ in.resume = turn.resume
  BY <1>2, InputIs DEF TurnInput
<1>6. Asks(other) /\ other.resume = turn.resume
  BY <1>1, HarmlessIs
<1>7. Reads(b.runtime, turn.bound.argv, Said(b, in, X), Spoken(b, in), Told(b, in))
  BY <1>1, <1>3, HandedReads
<1> DEFINE Z == {}
<1>8. Inserted(r, none, Z) /\ none \in Seq(Args) /\ Z = {}
  BY AddsNothing, NoText DEF Inserted
<1> HIDE DEF none, Z
<1>9. Reads(b.runtime, Handed(launch, other, none).argv, Said(b, other, Z), Spoken(b, other), Told(b, other))
  BY <1>1, <1>3, <1>6, <1>8, HandedReads
<1>10. /\ read = Read(r, turn.bound.argv) /\ plain = Read(r, Handed(launch, other, none).argv)
  BY <1>1, Zenon DEF Reading
<1> HIDE DEF read, plain, in, other, b, args
<1>11. read.options = Said(b, in, X) /\ read.words = Spoken(b, in) /\ read.text = Told(b, in)
       /\ read.wants = "" /\ read.bad = FALSE
  BY <1>2, <1>7, <1>10 DEF Reads
<1>12. plain.options = Said(b, other, Z) /\ plain.words = Spoken(b, other)
  BY <1>2, <1>9, <1>10 DEF Reads
<1>13. Read(r, Carried(launch).args).options = X
  BY <1>1, <1>3, PostureReads DEF args
<1>14. ~GivesUp(read)
  BY <1>11, Zenon DEF GivesUp
<1>15. Settled(read) = Settled(plain) \union Settled(Read(r, Carried(launch).args))
  <2>1. Kept(Said(b, in, X)) = Kept(Said(b, other, Z)) \union X
    <3>1. b.runtime \in CLIs /\ other.resume = in.resume
      BY <1>1, <1>2, <1>5, <1>6
    <3>2. Kept(Z) = {}
      BY <1>8 DEF Kept
    <3> QED BY <1>4, <3>1, <3>2, SaidApart
  <2>2. Kept(X) = X
    BY <1>4 DEF Kept, Under, PostureFlags, Textual, SkipFlag
  <2>3. Settled(read) = Kept(Said(b, in, X)) /\ Settled(plain) = Kept(Said(b, other, Z))
        /\ Settled(Read(r, Carried(launch).args)) = Kept(X)
    BY <1>11, <1>12, <1>13, SettledIs
  <2> QED BY <2>1, <2>2, <2>3
<1>16. Spoken(b, in) = Spoken(b, other)
  <2>1. in.resume = other.resume
    BY <1>5, <1>6
  <2> QED BY <2>1, Zenon DEF Spoken
<1>17. TextOf(r, read) = GivenTexts(launch, in)
  BY <1>1, <1>4, <1>11, TextIs DEF b
<1> DEFINE given == IF launch.conv.mode # PerTurn THEN {}
                    ELSE IF r \in {"opencode", "antigravity"}
                    THEN {PrefixSystem(turn.prompt, launch.ctx.system)} ELSE {turn.prompt}
<1>18. GivenTexts(launch, in) = given
  BY <1>5, Zenon DEF GivenTexts
<1> HIDE DEF given, r
<1>19. /\ ~GivesUp(read)
       /\ Settled(read) = Settled(plain) \union Settled(Read(r, Carried(launch).args))
       /\ read.words = plain.words
       /\ TextOf(r, read) = given
  BY <1>11, <1>12, <1>14, <1>15, <1>16, <1>17, <1>18
<1> QED BY <1>19, Zenon DEF TurnIsReadAsMeant, r, read, plain, given, none

\* Whatever the prompt and the system prompt are, and whatever posture the
\* launch has: a launch of ours is read as a harmless turn is, and its text is
\* the text that was given.
THEOREM TurnsAreReadAsMeant == LaunchSpec => [](launch.path # "foreign" => TurnIsReadAsMeant)
<1>1. LaunchInv => (launch.path # "foreign" => TurnIsReadAsMeant)
  BY TurnIsReadCorrect
<1> QED BY <1>1, LaunchIsSound, PTL

\* The flags other than those say what the adapter's own arguments say.
LEMMA ValuesAreBase ==
  ASSUME NEW b, b.runtime \in CLIs, NEW in, NEW X, Under(X, PostureFlags),
         NEW reading, reading.options = Said(b, in, X), NEW f, f \notin PostureFlags, f \notin Textual
  PROVE  ValuesOf(reading, f) = ValuesIn(Base(b, in.resume), f)
<1> DEFINE B == Base(b, in.resume)
           T == TextSaid(b, in)
<1>1. reading.options = B \union X \union T
  BY SaidIs
<1>2. Under(T, Textual)
  BY TextsAreTextual
<1>3. ValuesOf(reading, f) = ValuesIn(reading.options, f)
  BY Zenon DEF ValuesOf, ValuesIn
<1> HIDE DEF B, T
<1>4. ValuesIn(X, f) = {} /\ ValuesIn(T, f) = {}
  BY <1>2 DEF Under, ValuesIn
<1>5. \A D, E, F : ValuesIn(D \union E \union F, f) = ValuesIn(D, f) \union ValuesIn(E, f) \union ValuesIn(F, f)
  BY DEF ValuesIn
<1>6. ValuesIn(reading.options, f) = ValuesIn(B, f) \union ValuesIn(X, f) \union ValuesIn(T, f)
  BY <1>1, <1>5
<1> QED BY <1>3, <1>4, <1>6 DEF B

\* The session the CLI resumes is the one that was asked for.
LEMMA ResumeIs ==
  ASSUME NEW l, OwnLaunch(l), NEW in, NEW X, Under(X, PostureFlags), NEW reading,
         reading.options = Said(Outfit(l), in, X), reading.words = Spoken(Outfit(l), in),
         ByProtocol(l) => in.resume = <<>>
  PROVE  ResumeOf(l.conv.runtime, reading) = in.resume
<1> DEFINE b == Outfit(l)
           s == ShapeOf(b)
           id == in.resume
           flags == {"--resume", "--session", "--conversation"}
           ids == UNION { ValuesOf(reading, f) : f \in flags }
           R == ResumeOf(l.conv.runtime, reading)
<1>1. l.conv.runtime = b.runtime /\ b.runtime \in CLIs /\ l.conv.mode = s.mode
  BY OwnLaunchIs
<1>2. "codex" # "claude" /\ "opencode" # "claude" /\ "opencode" # "codex" /\ "antigravity" # "claude"
      /\ "antigravity" # "codex" /\ "antigravity" # "opencode"
  OBVIOUS
<1>3. b.runtime # "codex" => R = (IF ids = {} THEN <<>> ELSE CHOOSE x \in ids : TRUE)
  BY <1>1, Zenon DEF ResumeOf
<1>4. b.runtime = "codex" => R = (IF Contains(reading.words, <<"resume">>) THEN Last(reading.words) ELSE <<>>)
  BY <1>1, Zenon DEF ResumeOf
<1>5. l.conv.mode \in {JSONRPC, HTTPSSE} => id = <<>>
  BY DEF ByProtocol
<1> DEFINE B == Base(b, id)
<1>6. \A f \in flags : f \notin PostureFlags /\ f \notin Textual
  BY DEF PostureFlags, Textual, SkipFlag
<1> HIDE DEF b, s, R
<1>10. \A f \in flags : ValuesOf(reading, f) = ValuesIn(B, f)
  <2> SUFFICES ASSUME NEW f \in flags PROVE ValuesOf(reading, f) = ValuesIn(B, f)
    OBVIOUS
  <2>1. f \notin PostureFlags /\ f \notin Textual
    BY <1>6
  <2>2. reading.options = Said(b, in, X)
    BY DEF b
  <2> QED BY <1>1, <2>1, <2>2, ValuesAreBase
<1> HIDE DEF B
<1>11. ids = ValuesIn(B, "--resume") \union ValuesIn(B, "--session") \union ValuesIn(B, "--conversation")
  <2> DEFINE f == "--resume"
             g == "--session"
             h == "--conversation"
  <2>1. f \in flags /\ g \in flags /\ h \in flags
    OBVIOUS
  <2>2. ids = ValuesOf(reading, f) \union ValuesOf(reading, g) \union ValuesOf(reading, h)
    OBVIOUS
  <2> HIDE DEF f, g, h, ids, flags
  <2>3. ids = ValuesIn(B, f) \union ValuesIn(B, g) \union ValuesIn(B, h)
    BY <1>10, <2>1, <2>2
  <2> QED BY <2>3 DEF f, g, h
<1> HIDE DEF ids
<1>12. ASSUME b.runtime # "codex", ids = Present(id) PROVE R = id
  <2>1. CASE id = <<>>
    <3>1. ids = {}
      BY <1>12, <2>1 DEF Present
    <3> QED BY <1>3, <1>12, <2>1, <3>1
  <2>2. CASE id # <<>>
    <3>1. ids = {id}
      BY <1>12, <2>2 DEF Present
    <3>2. ids # {} /\ (CHOOSE x \in ids : TRUE) = id
      BY <3>1
    <3> QED BY <1>3, <1>12, <3>2
  <2> QED BY <2>1, <2>2
<1>13. CASE b.runtime = "claude"
  <2>1. B = ClaudeBase(b, s, id)
    BY <1>13, Zenon DEF Base, B, s
  <2>2. ValuesIn(B, "--resume") = Present(id) /\ ValuesIn(B, "--session") = {} /\ ValuesIn(B, "--conversation") = {}
    BY <2>1, ClaudeBaseSays
  <2>3. ids = Present(id)
    BY <1>11, <2>2
  <2> QED BY <1>2, <1>12, <1>13, <2>3 DEF R
<1>14. CASE b.runtime = "antigravity"
  <2>1. B = AntigravityBase(b, id)
    BY <1>2, <1>14, Zenon DEF Base, B
  <2>2. ValuesIn(B, "--resume") = {} /\ ValuesIn(B, "--session") = {} /\ ValuesIn(B, "--conversation") = Present(id)
    BY <2>1, AntigravityBaseSays
  <2>3. ids = Present(id)
    BY <1>11, <2>2
  <2> QED BY <1>2, <1>12, <1>14, <2>3 DEF R
<1>15. CASE b.runtime = "opencode"
  <2>1. B = OpencodeBase(b, s, id)
    BY <1>2, <1>15, Zenon DEF Base, B, s
  <2>2. ValuesIn(B, "--resume") = {} /\ ValuesIn(B, "--conversation") = {}
        /\ (s.mode = HTTPSSE => ValuesIn(B, "--session") = {})
        /\ (s.mode # HTTPSSE => ValuesIn(B, "--session") = Present(id))
    BY <2>1, OpencodeBaseSays
  <2>3. s.mode = HTTPSSE => Present(id) = {}
    BY <1>1, <1>5 DEF Present
  <2>4. ids = Present(id)
    BY <1>11, <2>2, <2>3
  <2> QED BY <1>2, <1>12, <1>15, <2>4 DEF R
<1>16. CASE b.runtime = "codex"
  <2>1. reading.words = (IF s.mode = JSONRPC THEN << <<"app-server">> >> ELSE ResumeWords("exec", id))
    BY <1>16, Zenon DEF Spoken, b, s
  <2> DEFINE e == <<"exec">>
             a == <<"app-server">>
             w == <<"resume">>
  <2>2. e # w /\ a # w
    OBVIOUS
  <2> HIDE DEF e, a, w
  <2>3. \A x : x # w => ~Contains(<<x>>, w)
    BY DEF Contains
  <2>4. CASE s.mode = JSONRPC
    <3>1. reading.words = <<a>> /\ id = <<>>
      BY <1>1, <1>5, <2>1, <2>4 DEF a
    <3> QED BY <1>4, <1>16, <2>2, <2>3, <3>1 DEF R, w
  <2>5. CASE s.mode # JSONRPC /\ id = <<>>
    <3>1. reading.words = <<e>>
      BY <2>1, <2>5, Zenon DEF e, ResumeWords
    <3> QED BY <1>4, <1>16, <2>2, <2>3, <2>5, <3>1 DEF R, w
  <2>6. CASE s.mode # JSONRPC /\ id # <<>>
    <3>1. reading.words = <<e, w, id>>
      BY <2>1, <2>6, Zenon DEF e, w, ResumeWords
    <3> HIDE DEF id
    <3>2. Contains(<<e, w, id>>, w)
      <4>1. <<e, w, id>>[2] = w /\ 2 \in 1..Len(<<e, w, id>>)
        OBVIOUS
      <4> QED BY <4>1 DEF Contains
    <3>3. Last(<<e, w, id>>) = id
      BY DEF Last
    <3> QED BY <1>4, <1>16, <3>1, <3>2, <3>3 DEF R, w, id
  <2> QED BY <2>4, <2>5, <2>6
<1> QED BY <1>1, <1>13, <1>14, <1>15, <1>16 DEF CLIs, R

-----------------------------------------------------------------------------
(* Where the planted files are. *)

\* A file of the boot directory.
At(rel) == Roots["boot"] \o <<rel>>

\* Where each CLI reads its servers, and which are planted there.
ServersRel(r) ==
  CASE r = "claude" -> ".mcp.json" [] r = "codex" -> "config.toml" [] r = "opencode" -> "opencode.json"
    [] OTHER -> ".agents/plugins/tether/mcp_config.json"

ServersIn(r, ctx) ==
  CASE r = "claude" -> MCPJSON(ctx) [] r = "codex" -> CodexTables(ctx) [] r = "opencode" -> OpencodeJSON(ctx)
    [] OTHER -> AntigravityMCPConfig(ctx)

\* Where each CLI reads the agent's instructions.
NotesRel(r) == IF r = "claude" THEN "CLAUDE.md" ELSE "AGENTS.md"

\* What a planted file is, where one is looked for.
ServesAt(f, rel, servers) == PathOf(f) = At(rel) /\ f.servers = servers

NotesAt(f, rel, ctx) == PathOf(f) = At(rel) /\ (f.system <=> ctx.system # <<>>)

SilentAt(f, rel, servers) == f.servers = Nothing \/ f.servers = servers \/ PathOf(f) # At(rel)

\* One of the files has the servers, no other file there has others, and the
\* agent's instructions are where the CLI looks.
Plants(files, r, ctx) ==
  /\ \E f \in files : ServesAt(f, ServersRel(r), ServersIn(r, ctx))
  /\ r \in {"claude", "codex"} => \A f \in files : SilentAt(f, ServersRel(r), ServersIn(r, ctx))
  /\ r # "opencode" => \E f \in files : NotesAt(f, NotesRel(r), ctx)

\* Different names are different places.
LEMMA AtApart == \A x, y : At(x) = At(y) => x = y
<1> SUFFICES ASSUME NEW x, NEW y, At(x) = At(y) PROVE x = y
  OBVIOUS
<1> DEFINE boot == "/boot"
<1>1. Roots["boot"] = <<boot>>
  BY RootsAre
<1> HIDE DEF boot
<1>2. \A z : <<boot>> \o <<z>> = <<boot, z>>
  <2> SUFFICES ASSUME NEW z PROVE <<boot>> \o <<z>> = <<boot, z>>
    OBVIOUS
  <2> DEFINE S == {boot, z}
  <2>1. boot \in S /\ z \in S
    OBVIOUS
  <2> HIDE DEF S
  <2> QED BY <2>1, PairIsConcat
<1>3. <<boot, x>> = <<boot, y>>
  BY <1>1, <1>2 DEF At
<1> QED BY <1>3

\* Where a row's file is.
LEMMA PathIs ==
  ASSUME NEW f, f.agent = Nothing
  PROVE  PathOf(f) = At(f.rel)
<1> DEFINE p == At(f.rel)
           boot == "/boot"
           rel == f.rel
           S == {boot, rel}
<1>1. p = <<boot>> \o <<rel>>
  BY RootsAre DEF At
<1>2. <<boot>> \o <<rel>> \in Seq(S)
  <2>1. boot \in S /\ rel \in S
    OBVIOUS
  <2> HIDE DEF S, boot, rel
  <2>2. <<boot>> \in Seq(S) /\ <<rel>> \in Seq(S)
    BY <2>1, OneIn
  <2> QED BY <2>2, ConcatProperties
<1>3. PathOf(f) = p \o f.agent
  BY DEF PathOf, At
<1> HIDE DEF p, S, boot, rel
<1>4. p \o <<>> = p
  BY <1>1, <1>2, ConcatEmptySeq
<1> QED BY <1>3, <1>4 DEF p, rel, Nothing

\* A file that has the servers.
LEMMA ServingAt ==
  ASSUME NEW r, NEW s, NEW c, NEW servers, NEW rel, Find(r, s, c).rel = rel
  PROVE  ServesAt(Serving(r, s, c, servers), rel, servers)
<1> DEFINE f == Serving(r, s, c, servers)
<1>1. f.agent = Nothing /\ f.rel = rel /\ f.servers = servers
  BY ServingIs
<1> HIDE DEF f
<1>2. ServesAt(f, rel, servers)
  BY <1>1, PathIs DEF ServesAt
<1> QED BY <1>2 DEF f

\* A file that has the instructions.
LEMMA InstructionsAt ==
  ASSUME NEW r, NEW s, NEW ctx, NEW rel, Find(r, s, "instructions").rel = rel
  PROVE  NotesAt(Instructions(r, s, ctx), rel, ctx)
<1> DEFINE f == Instructions(r, s, ctx)
<1>1. f.agent = Nothing /\ f.rel = rel /\ (f.system <=> ctx.system # <<>>)
  BY InstructionsAre
<1> HIDE DEF f
<1>2. NotesAt(f, rel, ctx)
  BY <1>1, PathIs DEF NotesAt
<1> QED BY <1>2 DEF f

\* Claude's files are where Claude looks, in every shape.
LEMMA ClaudePlants ==
  ASSUME NEW s, s = Bare \/ s = Plain(s.mode), NEW ctx
  PROVE  Plants(ClaudeFiles(s, ctx), "claude", ctx)
<1> DEFINE r == "claude"
           I == Instructions(r, s, ctx)
           B == File(r, s, "boot")
           N == File(r, s, "native-config")
           V == MCPJSON(ctx)
           M == Serving(r, s, "mcp", V)
           F == ClaudeFiles(s, ctx)
<1>1. F = {I, B, N, M}
  BY DEF ClaudeFiles
<1>2. ServersRel(r) = ".mcp.json" /\ ServersIn(r, ctx) = V /\ NotesRel(r) = "CLAUDE.md"
  BY Zenon DEF ServersRel, ServersIn, NotesRel
<1>3. Find(r, s, "mcp").rel = ".mcp.json" /\ Find(r, s, "instructions").rel = "CLAUDE.md"
  <2>1. Find(r, s, "mcp") = Table[4] /\ (Find(r, s, "instructions") = Table[2] \/ Find(r, s, "instructions") = Table[1])
    BY GeneralRows, ClaudeRowsOf
  <2>2. Table[4].rel = ".mcp.json" /\ Table[1].rel = "CLAUDE.md" /\ Table[2].rel = "CLAUDE.md"
    BY ClaudeTable DEF RowIs
  <2> QED BY <2>1, <2>2
<1>4. ServesAt(M, ".mcp.json", V)
  BY <1>3, ServingAt
<1>5. NotesAt(I, "CLAUDE.md", ctx)
  BY <1>3, InstructionsAt
<1>6. I.servers = Nothing /\ B.servers = Nothing /\ N.servers = Nothing /\ M.servers = V
  BY InstructionsAre, FileIs, ServingIs
<1> HIDE DEF r, I, B, N, M, V, F
<1>7. \A f \in F : SilentAt(f, ".mcp.json", V)
  BY <1>1, <1>6 DEF SilentAt
<1>8. M \in F /\ I \in F
  BY <1>1
<1>9. Plants(F, r, ctx)
  BY <1>2, <1>4, <1>5, <1>7, <1>8 DEF Plants
<1> QED BY <1>9 DEF F, r

\* Codex's files are.
LEMMA CodexPlants ==
  ASSUME NEW s, NEW ctx
  PROVE  Plants(CodexFiles(s, ctx), "codex", ctx)
<1> DEFINE r == "codex"
           I == Instructions(r, s, ctx)
           B == File(r, s, "boot")
           A == File(r, s, "auth")
           V == CodexTables(ctx)
           W == MCPJSON(ctx)
           N == Serving(r, s, "native-config", V)
           M == Serving(r, s, "mcp", W)
           F == CodexFiles(s, ctx)
<1>1. F = {I, B, A, N, M}
  BY DEF CodexFiles
<1>2. ServersRel(r) = "config.toml" /\ ServersIn(r, ctx) = V /\ NotesRel(r) = "AGENTS.md"
  <2>1. "codex" # "claude"
    OBVIOUS
  <2> QED BY <2>1, Zenon DEF ServersRel, ServersIn, NotesRel
<1>3. Find(r, s, "native-config").rel = "config.toml" /\ Find(r, s, "instructions").rel = "AGENTS.md"
      /\ Find(r, s, "mcp").rel = ".mcp.json"
  <2>1. Find(r, s, "native-config") = Table[12] /\ Find(r, s, "instructions") = Table[10] /\ Find(r, s, "mcp") = Table[14]
    BY GeneralRows
  <2>2. Table[12].rel = "config.toml" /\ Table[10].rel = "AGENTS.md" /\ Table[14].rel = ".mcp.json"
    BY CodexTable DEF RowIs
  <2> QED BY <2>1, <2>2
<1>4. ServesAt(N, "config.toml", V) /\ ServesAt(M, ".mcp.json", W)
  BY <1>3, ServingAt
<1>5. NotesAt(I, "AGENTS.md", ctx)
  BY <1>3, InstructionsAt
<1>6. I.servers = Nothing /\ B.servers = Nothing /\ A.servers = Nothing /\ N.servers = V
  BY InstructionsAre, FileIs, ServingIs
<1>7. PathOf(M) # At("config.toml")
  BY <1>4, AtApart DEF ServesAt
<1> HIDE DEF r, I, B, A, N, M, V, F
<1>8. \A f \in F : SilentAt(f, "config.toml", V)
  BY <1>1, <1>6, <1>7 DEF SilentAt
<1>9. N \in F /\ I \in F
  BY <1>1
<1>10. Plants(F, r, ctx)
  BY <1>2, <1>4, <1>5, <1>8, <1>9 DEF Plants
<1> QED BY <1>10 DEF F, r

\* OpenCode's are.
LEMMA OpencodePlants ==
  ASSUME NEW s, NEW ctx, NEW agent
  PROVE  Plants(OpencodeFiles(s, ctx, agent), "opencode", ctx)
<1> DEFINE r == "opencode"
           I == [Instructions(r, s, ctx) EXCEPT !.agent = agent]
           B == File(r, s, "boot")
           V == OpencodeJSON(ctx)
           N == Serving(r, s, "native-config", V)
           M == Serving(r, s, "mcp", MCPJSON(ctx))
           F == OpencodeFiles(s, ctx, agent)
<1>1. F = {I, B, N, M}
  BY Zenon DEF OpencodeFiles
<1>2. "opencode" # "claude" /\ "opencode" # "codex" /\ "opencode" \notin {"claude", "codex"}
  OBVIOUS
<1>3. ServersRel(r) = "opencode.json" /\ ServersIn(r, ctx) = V
  BY <1>2, Zenon DEF ServersRel, ServersIn
<1>4. Find(r, s, "native-config").rel = "opencode.json"
  <2>1. Find(r, s, "native-config") = Table[18]
    BY GeneralRows
  <2>2. Table[18].rel = "opencode.json"
    BY OpencodeTable DEF RowIs
  <2> QED BY <2>1, <2>2
<1>5. ServesAt(N, "opencode.json", V)
  BY <1>4, ServingAt
<1>6. r = "opencode"
  OBVIOUS
<1> HIDE DEF r, I, B, N, M, V, F
<1>7. N \in F
  BY <1>1
<1>8. Plants(F, r, ctx)
  BY <1>2, <1>3, <1>5, <1>6, <1>7 DEF Plants
<1> QED BY <1>8 DEF F, r

\* Antigravity's are.
LEMMA AntigravityPlants ==
  ASSUME NEW s, NEW ctx
  PROVE  Plants(AntigravityFiles(s, ctx), "antigravity", ctx)
<1> DEFINE r == "antigravity"
           rel == ".agents/plugins/tether/mcp_config.json"
           I == Instructions(r, s, ctx)
           B == File(r, s, "boot")
           N == File(r, s, "native-config")
           V == AntigravityMCPConfig(ctx)
           M == Serving(r, s, "mcp", V)
           F == AntigravityFiles(s, ctx)
<1>1. F = {I, B, N, M}
  BY DEF AntigravityFiles
<1>2. "antigravity" # "claude" /\ "antigravity" # "codex" /\ "antigravity" # "opencode"
      /\ "antigravity" \notin {"claude", "codex"}
  OBVIOUS
<1>3. ServersRel(r) = rel /\ ServersIn(r, ctx) = V /\ NotesRel(r) = "AGENTS.md"
  BY <1>2, Zenon DEF ServersRel, ServersIn, NotesRel
<1>4. Find(r, s, "mcp").rel = rel /\ Find(r, s, "instructions").rel = "AGENTS.md"
  <2>1. Find(r, s, "mcp") = Table[28] /\ Find(r, s, "instructions") = Table[25]
    BY GeneralRows
  <2>2. Table[28].rel = rel /\ Table[25].rel = "AGENTS.md"
    BY AntigravityTable DEF RowIs
  <2> QED BY <2>1, <2>2
<1> HIDE DEF rel
<1>5. ServesAt(M, rel, V)
  BY <1>4, ServingAt
<1>6. NotesAt(I, "AGENTS.md", ctx)
  BY <1>4, InstructionsAt
<1>7. r = "antigravity"
  OBVIOUS
<1> HIDE DEF r, I, B, N, M, V, F
<1>8. M \in F /\ I \in F
  BY <1>1
<1>9. Plants(F, r, ctx)
  BY <1>2, <1>3, <1>5, <1>6, <1>7, <1>8 DEF Plants
<1> QED BY <1>9 DEF F, r

\* The files of a launch made from fields are.
LEMMA LegacyPlants ==
  ASSUME NEW b, b.runtime \in CLIs, NEW ctx
  PROVE  Plants(LegacyFiles(b, ctx), b.runtime, ctx)
<1> DEFINE s == LegacyShape(b)
           g == LegacyAgent(b)
           F == LegacyFiles(b, ctx)
<1>1. "codex" # "claude" /\ "opencode" # "claude" /\ "opencode" # "codex" /\ "antigravity" # "claude"
      /\ "antigravity" # "codex" /\ "antigravity" # "opencode"
  OBVIOUS
<1>2. CASE b.runtime = "claude"
  <2>1. F = ClaudeFiles(s, ctx)
    BY <1>2, Zenon DEF LegacyFiles
  <2>2. s = Plain(PerTurn)
    BY <1>1, <1>2, Zenon DEF LegacyShape
  <2>3. s = Plain(s.mode)
    BY <2>2, PlainIsNotBare
  <2> HIDE DEF s, F
  <2>4. Plants(F, "claude", ctx)
    BY <2>1, <2>3, ClaudePlants
  <2> QED BY <1>2, <2>4 DEF F
<1>3. CASE b.runtime = "codex"
  <2>1. F = CodexFiles(s, ctx)
    BY <1>1, <1>3, Zenon DEF LegacyFiles
  <2> HIDE DEF s, F
  <2>2. Plants(F, "codex", ctx)
    BY <2>1, CodexPlants
  <2> QED BY <1>3, <2>2 DEF F
<1>4. CASE b.runtime = "opencode"
  <2>1. F = OpencodeFiles(s, ctx, g)
    BY <1>1, <1>4, Zenon DEF LegacyFiles
  <2> HIDE DEF s, g, F
  <2>2. Plants(F, "opencode", ctx)
    BY <2>1, OpencodePlants
  <2> QED BY <1>4, <2>2 DEF F
<1>5. CASE b.runtime = "antigravity"
  <2>1. F = AntigravityFiles(s, ctx)
    BY <1>1, <1>5, Zenon DEF LegacyFiles
  <2> HIDE DEF s, F
  <2>2. Plants(F, "antigravity", ctx)
    BY <2>1, AntigravityPlants
  <2> QED BY <1>5, <2>2 DEF F
<1> QED BY <1>2, <1>3, <1>4, <1>5 DEF CLIs

\* Skill files do not stand in their way.
LEMMA PlantsWithSkills ==
  ASSUME NEW F, NEW r, NEW ctx, Plants(F, r, ctx), NEW S, \A f \in S : f.servers = Nothing
  PROVE  Plants(F \union S, r, ctx)
<1>1. \A f \in S : SilentAt(f, ServersRel(r), ServersIn(r, ctx))
  BY DEF SilentAt
<1> QED BY <1>1 DEF Plants

\* What a launch of ours planted.
LEMMA OwnLaunchPlants ==
  ASSUME NEW l, OwnLaunch(l)
  PROVE  Plants(l.files, l.conv.runtime, l.ctx) /\ MCPServersAreValid(l.ctx.servers)
<1>1. CASE IsProjection(l)
  <2>1. PICK a \in Adapters, ctx \in Contexts, opts \in Options, set \in Settings :
          l = ProjectionOf(a, ctx, opts, set) /\ Renders(a, ctx, opts.skills)
    BY <1>1, Zenon DEF IsProjection
  <2> DEFINE b == EquippedFor(a, ctx, opts)
             P == Projected(a, ctx, opts).files
             S == SkillFiles(a.runtime, ShapeOf(a), opts.skills)
  <2>2. l.ctx = ctx /\ l.files = P \union S /\ l.conv.runtime = a.runtime
    BY <2>1, ProjectionIs
  <2>3. P = LegacyFiles(b, ctx)
    BY SamePlanted
  <2>4. b.runtime = a.runtime /\ b.runtime \in CLIs
    BY OutfitIs
  <2>5. MCPServersAreValid(ctx.servers)
    BY <2>1, Zenon DEF Renders
  <2>6. \A f \in S : f.servers = Nothing
    BY SkillsAre
  <2> HIDE DEF b, P, S
  <2>7. Plants(LegacyFiles(b, ctx), b.runtime, ctx)
    BY <2>4, LegacyPlants
  <2>8. Plants(P \union S, b.runtime, ctx)
    BY <2>3, <2>6, <2>7, PlantsWithSkills
  <2> QED BY <2>2, <2>4, <2>5, <2>8
<1>2. CASE IsFielded(l)
  <2>1. PICK a \in Adapters, ctx \in Contexts, set \in Settings : l = FieldedOf(a, ctx, set) /\ Renders(a, ctx, {})
    BY <1>2, Zenon DEF IsFielded
  <2>2. l.ctx = ctx /\ l.files = LegacyFiles(a, ctx) /\ l.conv.runtime = a.runtime
    BY <2>1, FieldedIs
  <2>3. a.runtime \in CLIs
    BY LaunchAssumption DEF AdapterFields, CLIs
  <2>4. Plants(LegacyFiles(a, ctx), a.runtime, ctx)
    BY <2>3, LegacyPlants
  <2>5. MCPServersAreValid(ctx.servers)
    BY <2>1, Zenon DEF Renders
  <2> QED BY <2>2, <2>4, <2>5
<1> QED BY <1>1, <1>2 DEF OwnLaunch

-----------------------------------------------------------------------------
(* Where a CLI looks. *)

\* What the CLI finds of a turn, in its three parts.
LEMMA Finding ==
  ASSUME NEW l, NEW h
  PROVE  /\ Finds(l, h).instructions = InstructionPlaces(l.conv.runtime, ShapeIn(l), Reading(l, h), h.cwd, h.env)
         /\ Finds(l, h).servers = ServerPlaces(l.conv.runtime, ShapeIn(l), Reading(l, h), h.cwd, h.env)
         /\ Finds(l, h).skills = SkillPlaces(l.conv.runtime, ShapeIn(l), Reading(l, h), h.cwd, h.env)
<1> DEFINE i == InstructionPlaces(l.conv.runtime, ShapeIn(l), Reading(l, h), h.cwd, h.env)
           v == ServerPlaces(l.conv.runtime, ShapeIn(l), Reading(l, h), h.cwd, h.env)
           skl == SkillPlaces(l.conv.runtime, ShapeIn(l), Reading(l, h), h.cwd, h.env)
           f == Finds(l, h)
<1>1. f = [instructions |-> i, servers |-> v, skills |-> skl]
  BY Zenon DEF Finds
<1> HIDE DEF i, v, skl, f
<1>2. f.instructions = i /\ f.servers = v /\ f.skills = skl
  BY <1>1
<1> QED BY <1>2 DEF i, v, skl, f

\* The home a CLI is given is the boot directory.
LEMMA HomeIsBoot ==
  ASSUME NEW l, NEW h, AtHome(l, h)
  PROVE  /\ l.conv.runtime = "codex" =>
              /\ EnvOf(h.env, "CODEX_HOME") = Roots["boot"] /\ h.env["CODEX_HOME"] = Roots["boot"]
              /\ Roots["boot"] # Nothing
         /\ l.conv.runtime = "opencode" => EnvOf(h.env, "OPENCODE_CONFIG_DIR") = Roots["boot"]
         /\ l.conv.runtime # "opencode" => h.cwd = Roots["boot"]
<1>1. "opencode" # "codex"
  OBVIOUS
<1>2. \A n \in HomeNames(l.conv.runtime) : n \in DOMAIN h.env /\ h.env[n] = Roots["boot"]
  BY DEF AtHome, AtBoot
<1>3. l.conv.runtime = "codex" => "CODEX_HOME" \in HomeNames(l.conv.runtime)
  BY DEF HomeNames
<1>4. l.conv.runtime = "opencode" => "OPENCODE_CONFIG_DIR" \in HomeNames(l.conv.runtime)
  BY <1>1 DEF HomeNames
<1>5. \A n : n \in DOMAIN h.env => EnvOf(h.env, n) = h.env[n]
  BY Zenon DEF EnvOf
<1>6. Roots["boot"] # Nothing
  BY RootsAre DEF Nothing
<1>7. l.conv.runtime # "opencode" => h.cwd = Roots["boot"]
  BY DEF AtHome, Where
<1> QED BY <1>2, <1>3, <1>4, <1>5, <1>6, <1>7

\* The instructions' place is one the CLI reads: the working directory, the
\* file Claude's bare arguments name, or the agent OpenCode's do.
NotesPlace(b) ==
  IF b.runtime = "opencode" THEN At("agents/{agent}.md") \o b.agent ELSE At(NotesRel(b.runtime))

LEMMA NotesAreRead ==
  ASSUME NEW l, OwnLaunch(l), l.conv.mode # HTTPSSE, NEW in, NEW X, Under(X, PostureFlags),
         NEW h, AtHome(l, h), Reading(l, h).options = Said(Outfit(l), in, X)
  PROVE  NotesPlace(Outfit(l)) \in Finds(l, h).instructions
<1> DEFINE b == Outfit(l)
           r == l.conv.runtime
           s == ShapeIn(l)
           read == Reading(l, h)
           places == Finds(l, h).instructions
<1>1. /\ r = b.runtime /\ b.runtime \in CLIs /\ s = ShapeOf(b) /\ l.conv.mode = s.mode
  BY OwnLaunchIs
<1>2. "codex" # "claude" /\ "opencode" # "claude" /\ "opencode" # "codex" /\ "antigravity" # "claude"
      /\ "antigravity" # "codex" /\ "antigravity" # "opencode"
  OBVIOUS
<1>3. places = InstructionPlaces(r, s, read, h.cwd, h.env)
  BY Finding
<1>4. /\ r = "opencode" => EnvOf(h.env, "OPENCODE_CONFIG_DIR") = Roots["boot"]
      /\ r # "opencode" => h.cwd = Roots["boot"]
  BY HomeIsBoot
<1>5. s.mode # HTTPSSE /\ read.options = Said(b, in, X)
  BY <1>1
<1>6. NotesPlace(b) = IF r = "opencode" THEN At("agents/{agent}.md") \o b.agent ELSE At(NotesRel(r))
  BY <1>1, Zenon DEF NotesPlace
<1> HIDE DEF b, s, read, places, r
<1>7. CASE r = "claude"
  <2>1. NotesPlace(b) = At("CLAUDE.md")
    BY <1>2, <1>6, <1>7, Zenon DEF NotesRel
  <2> DEFINE V == ValuesOf(read, "--append-system-prompt-file")
             W == IF s = Bare THEN {} ELSE {h.cwd \o <<"CLAUDE.md">>}
  <2>2. places = V \union W
    BY <1>3, <1>7, Zenon DEF InstructionPlaces
  <2>3. CASE s = Bare
    <3> DEFINE f == "--append-system-prompt-file"
    <3>1. f \notin PostureFlags /\ f \notin Textual
      BY DEF PostureFlags, Textual, SkipFlag
    <3>2. ValuesOf(read, f) = ValuesIn(Base(b, in.resume), f)
      <4> HIDE DEF f
      <4> QED BY <1>1, <1>5, <3>1, ValuesAreBase
    <3>3. Base(b, in.resume) = ClaudeBase(b, s, in.resume)
      BY <1>1, <1>7, Zenon DEF Base
    <3>4. ValuesIn(ClaudeBase(b, s, in.resume), f) = {Roots["boot"] \o <<"CLAUDE.md">>}
      BY <2>3, ClaudeBaseSays
    <3>5. V = {At("CLAUDE.md")}
      BY <3>2, <3>3, <3>4 DEF At
    <3> HIDE DEF V, W
    <3> QED BY <2>1, <2>2, <3>5 DEF b, places
  <2>4. CASE s # Bare
    <3>1. W = {h.cwd \o <<"CLAUDE.md">>}
      BY <2>4, Zenon
    <3>2. W = {At("CLAUDE.md")}
      BY <1>2, <1>4, <1>7, <3>1 DEF At
    <3> HIDE DEF V, W
    <3> QED BY <2>1, <2>2, <3>2 DEF b, places
  <2> QED BY <2>3, <2>4
<1>8. CASE r = "codex"
  <2>1. NotesPlace(b) = At("AGENTS.md")
    BY <1>2, <1>6, <1>8, Zenon DEF NotesRel
  <2>2. places = {h.cwd \o <<"AGENTS.md">>, EnvOf(h.env, "CODEX_HOME") \o <<"AGENTS.md">>}
    BY <1>2, <1>3, <1>8, Zenon DEF InstructionPlaces
  <2>3. At("AGENTS.md") \in places
    BY <1>2, <1>4, <1>8, <2>2 DEF At
  <2> QED BY <2>1, <2>3 DEF b, places
<1>9. CASE r = "opencode"
  <2> DEFINE V == ValuesOf(read, "--agent")
             agents == EnvOf(h.env, "OPENCODE_CONFIG_DIR") \o <<"agents/{agent}.md">>
  <2>1. places = { agents \o name : name \in V }
    BY <1>2, <1>3, <1>9, Zenon DEF InstructionPlaces
  <2>2. V = {b.agent}
    <3> DEFINE f == "--agent"
    <3>1. f \notin PostureFlags /\ f \notin Textual
      BY DEF PostureFlags, Textual, SkipFlag
    <3>2. ValuesOf(read, f) = ValuesIn(Base(b, in.resume), f)
      <4> HIDE DEF f
      <4> QED BY <1>1, <1>5, <3>1, ValuesAreBase
    <3>3. Base(b, in.resume) = OpencodeBase(b, s, in.resume)
      BY <1>1, <1>2, <1>9, Zenon DEF Base
    <3>4. ValuesIn(OpencodeBase(b, s, in.resume), f) = {b.agent}
      BY <1>5, OpencodeBaseSays
    <3> QED BY <3>2, <3>3, <3>4
  <2>3. agents = At("agents/{agent}.md")
    <3> DEFINE rel == "agents/{agent}.md"
    <3>1. EnvOf(h.env, "OPENCODE_CONFIG_DIR") = Roots["boot"]
      BY <1>4, <1>9
    <3> HIDE DEF rel
    <3>2. EnvOf(h.env, "OPENCODE_CONFIG_DIR") \o <<rel>> = At(rel)
      BY <3>1, Zenon DEF At
    <3> QED BY <3>2, Zenon DEF rel
  <2>4. NotesPlace(b) = At("agents/{agent}.md") \o b.agent
    BY <1>6, <1>9, Zenon
  <2> HIDE DEF V, agents
  <2>5. agents \o b.agent \in places
    BY <2>1, <2>2
  <2>6. NotesPlace(b) \in places
    BY <2>3, <2>4, <2>5, Zenon
  <2> QED BY <2>6 DEF b, places
<1>10. CASE r = "antigravity"
  <2>1. NotesPlace(b) = At("AGENTS.md")
    BY <1>2, <1>6, <1>10, Zenon DEF NotesRel
  <2>2. places = {h.cwd \o <<"AGENTS.md">>}
    BY <1>2, <1>3, <1>10, Zenon DEF InstructionPlaces
  <2>3. At("AGENTS.md") \in places
    BY <1>2, <1>4, <1>10, <2>2 DEF At
  <2> QED BY <2>1, <2>3 DEF b, places
<1> QED BY <1>1, <1>7, <1>8, <1>9, <1>10 DEF CLIs

\* What an argument starts with.
LEMMA StartsWith ==
  ASSUME NEW S, NEW x \in Seq(S), NEW y \in Seq(S)
  PROVE  IsPrefix(x, x \o y)
<1> DEFINE z == x \o y
           n == Len(x)
<1>1. /\ z \in Seq(S) /\ Len(z) = n + Len(y) /\ n \in Nat /\ Len(y) \in Nat
      /\ \A i \in 1..n : z[i] = x[i]
  BY ConcatProperties, LenProperties
<1> HIDE DEF z
<1>2. SubSeq(x, 1, n) = SubSeq(z, 1, n)
  <2>1. /\ SubSeq(x, 1, n) = [i \in 1..n |-> x[i]]
        /\ SubSeq(z, 1, n) = [i \in 1..n |-> z[i]]
    BY <1>1
  <2> QED BY <1>1, <2>1
<1>3. n <= Len(z)
  BY <1>1
<1>4. IsPrefix(x, z)
  BY <1>2, <1>3 DEF IsPrefix
<1> QED BY <1>4 DEF z

LEMMA PrefixStarts ==
  ASSUME NEW text \in Args, NEW system \in Args, system # <<>>
  PROVE  IsPrefix(<<"System:">> \o system, PrefixSystem(text, system))
<1> DEFINE head == <<"System:">>
           line == <<"blank-line">>
           x == head \o system
           y == line \o text
<1>1. head \in Args /\ line \in Args
  BY LiteralsAre, OneText
<1>2. PrefixSystem(text, system) = ((head \o system) \o line) \o text
  BY Zenon DEF PrefixSystem
<1> HIDE DEF head, line
<1>3. x \in Args /\ y \in Args
  BY <1>1, ArgsConcat
<1>4. (x \o line) \o text = x \o y
  <2>1. x \in Seq(Parts) /\ line \in Seq(Parts) /\ text \in Seq(Parts)
    BY <1>1, <1>3 DEF Args
  <2> HIDE DEF x, y
  <2>2. (x \o line) \o text = x \o (line \o text)
    BY <2>1, ConcatAssociative, SMTT(30)
  <2> QED BY <2>2, Zenon DEF y
<1>5. PrefixSystem(text, system) = x \o y
  BY <1>2, <1>4
<1> HIDE DEF x, y
<1>6. IsPrefix(x, x \o y)
  BY <1>3, StartsWith DEF Args
<1> QED BY <1>5, <1>6 DEF x, head

\* A launch of ours tells the CLI the system prompt on every turn.
LEMMA HeardAlways ==
  ASSUME NEW l, OwnLaunch(l), NEW in, Asks(in), in.system = l.ctx.system, NEW X, Under(X, PostureFlags),
         NEW h, AtHome(l, h), Reading(l, h).options = Said(Outfit(l), in, X), Reading(l, h).text = Told(Outfit(l), in)
  PROVE  Heard(l, h)
<1> DEFINE b == Outfit(l)
           r == l.conv.runtime
           s == ShapeIn(l)
           read == Reading(l, h)
           sys == l.ctx.system
           places == Finds(l, h).instructions
<1>1. /\ r = b.runtime /\ b.runtime \in CLIs /\ s = ShapeOf(b) /\ l.conv.mode = s.mode
  BY OwnLaunchIs
<1>2. l.conv.mode # HTTPSSE => NotesPlace(b) \in places
  BY NotesAreRead
<1>3. r # "opencode" => NotesPlace(b) = At(NotesRel(r))
  BY <1>1, Zenon DEF NotesPlace
<1>4. /\ sys = <<>> => Heard(l, h)
      /\ l.conv.mode = HTTPSSE => Heard(l, h)
      /\ \A text \in TextOf(r, read) : IsPrefix(<<"System:">> \o sys, text) => Heard(l, h)
      /\ \A f \in l.files : PathOf(f) \in places /\ f.system => Heard(l, h)
  <2>1. sys = <<>> => Heard(l, h)
    BY Zenon DEF Heard
  <2>2. l.conv.mode = HTTPSSE => Heard(l, h)
    BY Zenon DEF Heard
  <2>3. ASSUME NEW text \in TextOf(r, read), IsPrefix(<<"System:">> \o sys, text) PROVE Heard(l, h)
    BY <2>3, Zenon DEF Heard
  <2>4. ASSUME NEW f \in l.files, PathOf(f) \in places, f.system PROVE Heard(l, h)
    <3>1. f \in Among(l, places)
      BY <2>4, Zenon DEF Among
    <3> QED BY <2>4, <3>1, Zenon DEF Heard
  <2> QED BY <2>1, <2>2, <2>3, <2>4
<1>5. TextOf(r, read) = GivenTexts(l, in)
  BY TextIs
<1>6. in.prompt \in Args /\ in.system \in Args
  BY DEF Asks, Inputs
<1>7. Plants(l.files, r, l.ctx)
  BY OwnLaunchPlants
<1> HIDE DEF b, s, read, places, r
<1>8. ASSUME sys # <<>>, r = "opencode", l.conv.mode = PerTurn PROVE Heard(l, h)
  <2> DEFINE v == PrefixSystem(in.prompt, in.system)
  <2>1. TextOf(r, read) = {v}
    BY <1>5, <1>8, Zenon DEF GivenTexts, r
  <2>2. IsPrefix(<<"System:">> \o in.system, v)
    BY <1>6, <1>8, PrefixStarts
  <2> HIDE DEF v
  <2>3. v \in TextOf(r, read)
    BY <2>1
  <2> QED BY <1>4, <2>2, <2>3
<1>9. ASSUME r # "opencode", l.conv.mode # HTTPSSE PROVE Heard(l, h)
  <2>1. PICK f \in l.files : NotesAt(f, NotesRel(r), l.ctx)
    BY <1>7, <1>9 DEF Plants
  <2>2. PathOf(f) \in places /\ (sys # <<>> => f.system)
    BY <1>2, <1>3, <1>9, <2>1 DEF NotesAt, sys
  <2> QED BY <1>4, <2>2
<1>10. CASE r = "opencode"
  <2>1. s = Plain(HTTPSSE) \/ s = Plain(PerTurn)
    BY <1>1, <1>10, ShapesAre
  <2>2. s.mode = HTTPSSE \/ s.mode = PerTurn
    BY <2>1, PlainIsNotBare, Zenon
  <2>3. l.conv.mode = HTTPSSE \/ l.conv.mode = PerTurn
    BY <1>1, <2>2, Zenon
  <2> QED BY <1>4, <1>8, <1>10, <2>3
<1> QED BY <1>4, <1>9, <1>10

-----------------------------------------------------------------------------
(* How a conversation goes on. *)

\* What the last turn was told and how it was taken to end.
Faithful == launch.path # "foreign" => ResumeIsHonest /\ SystemPromptIsHeard

\* Nothing is promised before the first turn.
LEMMA NoTurnIsFaithful == ~Took => Faithful
  BY Zenon DEF Faithful, ResumeIsHonest, SystemPromptIsHeard

\* How a turn that the CLI accepts ends.
LEMMA RunsEnds ==
  ASSUME NEW t, NEW asked, NEW id, NEW same, Runs(t, asked, id, same), Heard(launch, t.bound)
  PROVE  /\ turn'.resume = t.resume /\ turn'.same = same /\ turn'.heard
         /\ \/ turn'.ended = "answered"
               /\ ~(asked # <<>> /\ ResumeKeepsSessionID(launch.conv.runtime) /\ id # asked)
            \/ turn'.ended = "lost"
               /\ asked # <<>> /\ ResumeKeepsSessionID(launch.conv.runtime) /\ id # asked
<1> DEFINE lost == asked # <<>> /\ ResumeKeepsSessionID(launch.conv.runtime) /\ id # asked
           heard == Heard(launch, t.bound) \/ (same /\ sessions[asked])
           how == IF lost THEN "lost" ELSE "answered"
<1>1. turn' = Ended(t, how, same, heard)
  BY Zenon DEF Runs
<1>2. heard
  BY Zenon
<1>3. (lost /\ how = "lost") \/ (~lost /\ how = "answered")
  BY Zenon
<1> HIDE DEF lost, heard, how
<1>4. turn'.resume = t.resume /\ turn'.same = same /\ turn'.heard = heard /\ turn'.ended = how
  BY <1>1 DEF Ended
<1>5. turn'.heard
  BY <1>2, <1>4
<1>6. (lost /\ turn'.ended = "lost") \/ (~lost /\ turn'.ended = "answered")
  BY <1>3, <1>4
<1> QED BY <1>4, <1>5, <1>6 DEF lost

\* How one it refuses ends.
LEMMA FailsEnds ==
  ASSUME NEW t, NEW lost, Fails(t, lost)
  PROVE  turn'.ended # "answered" /\ ~turn'.same
<1> DEFINE how == IF lost THEN "lost" ELSE "failed"
           no == FALSE
<1>1. turn' = Ended(t, how, no, no)
  BY Zenon DEF Fails
<1>2. how = "lost" \/ how = "failed"
  BY Zenon
<1>3. ~no
  OBVIOUS
<1> HIDE DEF how, no
<1>4. turn'.ended = how /\ turn'.same = no
  BY <1>1 DEF Ended
<1> QED BY <1>2, <1>3, <1>4

\* However the turn goes: an answer continued what it resumed, unless the CLI
\* began another conversation and the host saw it.
LEMMA EndsFaithfully ==
  ASSUME NEW t, NEW reading, CliRuns(t, reading, t.resume), Heard(launch, t.bound), FreshID # t.resume
  PROVE  /\ turn'.ended = "answered" /\ turn'.resume # <<>> => turn'.same
         /\ turn'.ended = "lost" => ~turn'.same
         /\ turn'.ended = "answered" => turn'.heard
<1> DEFINE asked == t.resume
           refuses == RefusesUnknown(launch.conv.runtime)
           keeps == ResumeKeepsSessionID(launch.conv.runtime)
           Goal == /\ turn'.ended = "answered" /\ turn'.resume # <<>> => turn'.same
                   /\ turn'.ended = "lost" => ~turn'.same
                   /\ turn'.ended = "answered" => turn'.heard
<1>1. keeps <=> ~refuses
  BY DEF RefusesUnknown, ResumeKeepsSessionID
<1>2. ASSUME NEW lost, Fails(t, lost) PROVE Goal
  BY <1>2, FailsEnds
<1>3. ASSUME Runs(t, asked, asked, TRUE) PROVE Goal
  <2> DEFINE yes == TRUE
  <2>1. yes /\ Runs(t, asked, asked, yes)
    BY <1>3
  <2> HIDE DEF yes, asked
  <2>2. turn'.same = yes /\ turn'.heard /\ turn'.ended = "answered"
    BY <2>1, RunsEnds
  <2>3. turn'.same /\ turn'.ended # "lost"
    BY <2>1, <2>2
  <2> QED BY <2>2, <2>3
<1>4. ASSUME refuses, Runs(t, asked, FreshID, TRUE) PROVE Goal
  <2> DEFINE yes == TRUE
             id == FreshID
  <2>1. yes /\ Runs(t, asked, id, yes)
    BY <1>4
  <2> HIDE DEF yes, asked, id, keeps, refuses
  <2>2. turn'.same = yes /\ turn'.heard /\ turn'.ended = "answered"
    BY <1>1, <1>4, <2>1, RunsEnds DEF keeps
  <2>3. turn'.same /\ turn'.ended # "lost"
    BY <2>1, <2>2
  <2> QED BY <2>2, <2>3
<1>5. ASSUME asked = <<>> \/ ~refuses, Runs(t, asked, FreshID, FALSE) PROVE Goal
  <2> DEFINE no == FALSE
             id == FreshID
  <2>1. ~no /\ Runs(t, asked, id, no) /\ id # asked
    BY <1>5
  <2> HIDE DEF no, asked, id, keeps, refuses
  <2>2. /\ turn'.same = no /\ turn'.heard /\ turn'.resume = t.resume
        /\ turn'.ended = "answered" => asked = <<>> \/ ~keeps
    BY <2>1, RunsEnds DEF keeps
  <2>3. ~turn'.same
    BY <2>1, <2>2
  <2>4. turn'.ended = "answered" => turn'.resume = <<>>
    BY <1>1, <1>5, <2>2 DEF asked
  <2> QED BY <2>2, <2>3, <2>4
<1>6. CASE GivesUp(reading)
  <2>1. \E lost : Fails(t, lost)
    BY <1>6, Zenon DEF CliRuns
  <2> QED BY <1>2, <2>1
<1>7. CASE ~GivesUp(reading) /\ asked \in DOMAIN sessions
  <2>1. Runs(t, asked, asked, TRUE) \/ (refuses /\ Runs(t, asked, FreshID, TRUE))
    BY <1>7, Zenon DEF CliRuns
  <2> HIDE DEF Goal, asked, refuses
  <2> QED BY <1>3, <1>4, <2>1 DEF Goal
<1>8. CASE ~GivesUp(reading) /\ asked \notin DOMAIN sessions
  <2>1. ((asked = <<>> \/ ~refuses) /\ Runs(t, asked, FreshID, FALSE)) \/ Fails(t, IsSessionLost(launch))
    BY <1>8, Zenon DEF CliRuns
  <2> HIDE DEF Goal, asked, refuses
  <2> QED BY <1>2, <1>5, <2>1 DEF Goal
<1> QED BY <1>6, <1>7, <1>8

\* A new conversation has a new id.
LEMMA FreshIsNew ==
  ASSUME turn.number \in Nat, NEW id \in {<<>>} \union IdsTo(turn.number)
  PROVE  FreshID # id
<1> DEFINE n == turn.number
<1>1. FreshID = SessionID(n + 1) /\ n + 1 \in Nat /\ n + 1 # 0
  BY DEF FreshID
<1>2. Len(SessionID(n + 1)) = n + 1 /\ SessionID(n + 1) # <<>>
  BY <1>1, SessionIDIs
<1>3. ASSUME NEW m \in 1..n, id = SessionID(m) PROVE FreshID # id
  <2>1. Len(SessionID(m)) = m /\ m # n + 1
    BY <1>3, SessionIDIs
  <2> QED BY <1>1, <1>2, <1>3, <2>1
<1> QED BY <1>1, <1>2, <1>3 DEF IdsTo

\* A turn is faithful.
LEMMA TurnIsFaithful ==
  ASSUME LaunchInv, NEW prompt \in Prompts, Turn(prompt)
  PROVE  Faithful'
<1> DEFINE t == TurnOf(prompt)
           r == launch.conv.runtime
           read == Reading(launch, t.bound)
           asked == ResumeOf(r, read)
           in == Input(launch, prompt, stored)
           args == Promised(launch).args
<1>1. /\ stage = "ready" /\ UNCHANGED <<stage, launch, regVars>>
      /\ r \in Runtime /\ Promised(launch).ok /\ CliRuns(t, read, asked)
  BY TurnIs
<1>2. launch' = launch
  BY <1>1
<1> SUFFICES ASSUME launch.path # "foreign" PROVE Faithful'
  BY <1>2, Zenon DEF Faithful
<1>3. OwnLaunch(launch) /\ turn.number \in Nat /\ stored \in {<<>>} \union IdsTo(turn.number)
      /\ (ByProtocol(launch) => stored = <<>>)
  BY <1>1 DEF LaunchInv, OwnLaunch
<1>4. stored \in Ids
  BY <1>3, IdsGrow DEF Ids
<1>5. launch.ctx \in Contexts /\ launch.set \in Settings /\ r = Outfit(launch).runtime /\ r \in CLIs
  BY <1>3, OwnLaunchIs
<1>6. Asks(in) /\ in.system = launch.ctx.system /\ in.resume = stored
  BY <1>4, <1>5, InputIs
<1>7. PICK X : /\ Postured(r, Promised(launch), X) /\ Inserted(r, args, X) /\ args \in Seq(Args)
               /\ SparesHomes(launch)
  BY <1>1, <1>5, PostureIs
<1>8. Under(X, PostureFlags)
  BY <1>7 DEF Postured, Under
<1>9. t.resume = stored /\ t.bound = Handed(launch, in, args)
  BY DEF TurnOf
<1>10. AtHome(launch, t.bound)
  <2>1. HandedWell(launch, in, args)
    BY <1>3, <1>6, <1>7, HandedIs
  <2> HIDE DEF in, args, t
  <2> QED BY <1>9, <2>1, Zenon DEF HandedWell
<1>11. Reads(Outfit(launch).runtime, t.bound.argv, Said(Outfit(launch), in, X), Spoken(Outfit(launch), in), Told(Outfit(launch), in))
  BY <1>3, <1>6, <1>7, <1>9, HandedReads
<1>12. read = Read(Outfit(launch).runtime, t.bound.argv)
  BY <1>5, Zenon DEF Reading
<1> HIDE DEF read, in, args, t
<1>13. read.options = Said(Outfit(launch), in, X) /\ read.words = Spoken(Outfit(launch), in)
       /\ read.text = Told(Outfit(launch), in)
  BY <1>11, <1>12 DEF Reads
<1>14. asked = stored
  BY <1>3, <1>6, <1>8, <1>13, ResumeIs
<1>15. Heard(launch, t.bound)
  BY <1>3, <1>6, <1>8, <1>10, <1>13, HeardAlways DEF read
<1>16. FreshID # t.resume
  BY <1>3, <1>9, FreshIsNew
<1> HIDE DEF asked
<1>17. CliRuns(t, read, t.resume)
  BY <1>1, <1>9, <1>14
<1>18. /\ turn'.ended = "answered" /\ turn'.resume # <<>> => turn'.same
       /\ turn'.ended = "lost" => ~turn'.same
       /\ turn'.ended = "answered" => turn'.heard
  BY <1>15, <1>16, <1>17, EndsFaithfully
<1> QED BY <1>18, Zenon DEF Faithful, ResumeIsHonest, SystemPromptIsHeard

\* Steps that are no turn leave the last turn as it is.
LEMMA FaithfulStays ==
  ASSUME launch' = launch, turn' = turn, Faithful
  PROVE  Faithful'
<1>1. (ResumeIsHonest' <=> ResumeIsHonest) /\ (SystemPromptIsHeard' <=> SystemPromptIsHeard)
  BY Zenon DEF ResumeIsHonest, SystemPromptIsHeard, Took
<1> QED BY <1>1, Zenon DEF Faithful

\* A new launch has no turn.
LEMMA BegunIsFaithful ==
  ASSUME LaunchInv, stage = "idle", turn' = turn
  PROVE  Faithful'
<1>1. turn = NoTurn
  BY DEF LaunchInv
<1>2. ~Took'
  BY <1>1 DEF Took, NoTurn
<1>3. ResumeIsHonest' /\ SystemPromptIsHeard'
  BY <1>2, Zenon DEF ResumeIsHonest, SystemPromptIsHeard
<1> QED BY <1>3, Zenon DEF Faithful

\* Every step leaves a faithful turn.
LEMMA StepIsFaithful == LaunchInv /\ Faithful /\ [LaunchNext]_allVars => Faithful'
<1> SUFFICES ASSUME LaunchInv, Faithful, [LaunchNext]_allVars PROVE Faithful'
  OBVIOUS
<1>1. CASE UNCHANGED allVars
  BY <1>1, FaithfulStays DEF allVars, launchVars
<1>2. CASE RegNext /\ UNCHANGED launchVars
  BY <1>2, FaithfulStays DEF launchVars
<1>3. ASSUME NEW a, NEW ctx, NEW set, UseAdapter(a, ctx, set) PROVE Faithful'
  BY <1>3, BegunIsFaithful DEF UseAdapter, Begin, RefuseLaunch
<1>4. ASSUME NEW a, NEW ctx, NEW opts, NEW set, ProviderProjection(a, ctx, opts, set) PROVE Faithful'
  BY <1>4, BegunIsFaithful DEF ProviderProjection, Begin, RefuseLaunch
<1>5. ASSUME NEW conv, NEW ctx, NEW opts, NEW set, TakeForeign(conv, ctx, opts, set) PROVE Faithful'
  BY <1>5, BegunIsFaithful DEF TakeForeign, Begin, RefuseLaunch
<1>6. ASSUME NEW prompt \in Prompts, Turn(prompt) PROVE Faithful'
  BY <1>6, TurnIsFaithful
<1>7. ASSUME NEW id, Forget(id) PROVE Faithful'
  BY <1>7, FaithfulStays DEF Forget
<1> QED BY <1>1, <1>2, <1>3, <1>4, <1>5, <1>6, <1>7 DEF LaunchNext

LEMMA LaunchIsFaithful == LaunchSpec => [](LaunchInv /\ Faithful)
<1>1. LaunchInit => LaunchInv /\ Faithful
  <2>1. LaunchInit => ~Took
    BY DEF LaunchInit, Took, NoTurn
  <2> QED BY <2>1, LaunchInitCorrect, NoTurnIsFaithful
<1>2. LaunchInv /\ Faithful /\ [LaunchNext]_allVars => (LaunchInv /\ Faithful)'
  BY LaunchStepKeeps, StepIsFaithful
<1> QED BY <1>1, <1>2, PTL DEF LaunchSpec

\* Every turn a CLI runs has the system prompt in its conversation.
THEOREM SystemPromptsAreHeard == LaunchSpec => []SystemPromptIsHeard
<1>1. Faithful => SystemPromptIsHeard
  BY Zenon DEF Faithful, SystemPromptIsHeard
<1> QED BY <1>1, LaunchIsFaithful, PTL

\* With this package's own adapters a turn that counts as continuing its
\* session continued it, and a session given up is gone.
THEOREM ResumesAreHonest == LaunchSpec => [](launch.path # "foreign" => ResumeIsHonest)
<1>1. Faithful => (launch.path # "foreign" => ResumeIsHonest)
  BY Zenon DEF Faithful
<1> QED BY <1>1, LaunchIsFaithful, PTL

-----------------------------------------------------------------------------
(* The servers a CLI is to have. *)

\* A server as it is meant, under its name.
Meant(s) == IF s.url # "" THEN Http(s.url) ELSE Stdio(s.command)

\* Servers by name: no two share one, and what each means.
Named(servers) == { <<servers[i].name, Meant(servers[i])>> : i \in DOMAIN servers }

Names(servers) == { servers[i].name : i \in DOMAIN servers }

Distinct(servers) == \A i, j \in DOMAIN servers : servers[i].name = servers[j].name => i = j

\* The places of joined lists.
LEMMA ConcatPlaces ==
  ASSUME NEW S, NEW p \in Seq(S), NEW q \in Seq(S)
  PROVE  /\ \A i \in DOMAIN p : i \in DOMAIN (p \o q) /\ (p \o q)[i] = p[i]
         /\ \A i \in DOMAIN q : Len(p) + i \in DOMAIN (p \o q) /\ (p \o q)[Len(p) + i] = q[i]
         /\ \A i \in DOMAIN (p \o q) : i \in DOMAIN p \/ (i - Len(p) \in DOMAIN q /\ i = Len(p) + (i - Len(p)))
  BY ConcatProperties, LenProperties

\* Servers of joined lists.
LEMMA NamedConcat ==
  ASSUME NEW S, NEW p \in Seq(S), NEW q \in Seq(S)
  PROVE  Named(p \o q) = Named(p) \union Named(q)
<1> DEFINE pq == p \o q
<1>1. /\ \A i \in DOMAIN p : i \in DOMAIN pq /\ pq[i] = p[i]
      /\ \A i \in DOMAIN q : Len(p) + i \in DOMAIN pq /\ pq[Len(p) + i] = q[i]
      /\ \A i \in DOMAIN pq : i \in DOMAIN p \/ (i - Len(p) \in DOMAIN q /\ i = Len(p) + (i - Len(p)))
  BY ConcatPlaces
<1> HIDE DEF pq
<1>2. Named(p) \subseteq Named(pq)
  BY <1>1 DEF Named
<1>3. Named(q) \subseteq Named(pq)
  BY <1>1 DEF Named
<1>4. Named(pq) \subseteq Named(p) \union Named(q)
  <2> SUFFICES ASSUME NEW i \in DOMAIN pq PROVE <<pq[i].name, Meant(pq[i])>> \in Named(p) \union Named(q)
    BY DEF Named
  <2>1. CASE i \in DOMAIN p
    BY <1>1, <2>1 DEF Named
  <2>2. CASE i - Len(p) \in DOMAIN q /\ i = Len(p) + (i - Len(p))
    <3>1. pq[i] = q[i - Len(p)]
      BY <1>1, <2>2
    <3> QED BY <2>2, <3>1 DEF Named
  <2> QED BY <1>1, <2>1, <2>2
<1> QED BY <1>2, <1>3, <1>4 DEF pq

\* Lists that share no name, joined.
LEMMA DistinctConcat ==
  ASSUME NEW S, NEW p \in Seq(S), NEW q \in Seq(S), Distinct(p), Distinct(q), Names(p) \intersect Names(q) = {}
  PROVE  Distinct(p \o q)
<1> DEFINE pq == p \o q
<1>1. /\ \A i \in DOMAIN p : i \in DOMAIN pq /\ pq[i] = p[i]
      /\ \A i \in DOMAIN q : Len(p) + i \in DOMAIN pq /\ pq[Len(p) + i] = q[i]
      /\ \A i \in DOMAIN pq : i \in DOMAIN p \/ (i - Len(p) \in DOMAIN q /\ i = Len(p) + (i - Len(p)))
  BY ConcatPlaces
<1> HIDE DEF pq
<1> SUFFICES ASSUME NEW i \in DOMAIN pq, NEW j \in DOMAIN pq, pq[i].name = pq[j].name PROVE i = j
  BY DEF Distinct, pq
<1> DEFINE d == i - Len(p)
           e == j - Len(p)
<1>2. \A x \in DOMAIN p, y \in DOMAIN q : p[x].name # q[y].name
  BY DEF Names
<1>3. i \in DOMAIN p \/ (d \in DOMAIN q /\ i = Len(p) + d)
  BY <1>1
<1>4. j \in DOMAIN p \/ (e \in DOMAIN q /\ j = Len(p) + e)
  BY <1>1
<1> HIDE DEF d, e
<1>5. CASE i \in DOMAIN p /\ j \in DOMAIN p
  BY <1>1, <1>5 DEF Distinct
<1>6. CASE i \in DOMAIN p /\ e \in DOMAIN q /\ j = Len(p) + e
  BY <1>1, <1>2, <1>6
<1>7. CASE j \in DOMAIN p /\ d \in DOMAIN q /\ i = Len(p) + d
  BY <1>1, <1>2, <1>7
<1>8. CASE d \in DOMAIN q /\ i = Len(p) + d /\ e \in DOMAIN q /\ j = Len(p) + e
  BY <1>1, <1>8 DEF Distinct
<1> QED BY <1>3, <1>4, <1>5, <1>6, <1>7, <1>8

\* A list of one server, or none.
LEMMA NamedOne ==
  ASSUME NEW s
  PROVE  /\ Named(<<s>>) = {<<s.name, Meant(s)>>} /\ Names(<<s>>) = {s.name} /\ Distinct(<<s>>)
         /\ Named(<<>>) = {} /\ Names(<<>>) = {} /\ Distinct(<<>>)
<1>1. DOMAIN <<s>> = {1} /\ <<s>>[1] = s
  OBVIOUS
<1>2. DOMAIN <<>> = {}
  OBVIOUS
<1> DEFINE one == <<s>>
           nil == <<>>
<1> HIDE DEF one, nil
<1>3. Named(one) = {<<s.name, Meant(s)>>} /\ Names(one) = {s.name} /\ Distinct(one)
  BY <1>1 DEF Named, Names, Distinct, one
<1>4. Named(nil) = {} /\ Names(nil) = {} /\ Distinct(nil)
  BY <1>2 DEF Named, Names, Distinct, nil
<1> QED BY <1>3, <1>4 DEF one, nil

\* With each name once, every server is written as it was given.
LEMMA WrittenIs ==
  ASSUME NEW S, NEW q \in Seq(S), Distinct(q)
  PROVE  /\ DOMAIN Written(q) = Names(q)
         /\ \A i \in DOMAIN q : Written(q)[q[i].name] = q[i]
<1>1. DOMAIN Written(q) = Names(q)
  BY DEF Written, Names
<1>2. ASSUME NEW i \in DOMAIN q PROVE Written(q)[q[i].name] = q[i]
  <2> DEFINE n == q[i].name
             Is(x) == q[x].name = n /\ \A j \in x+1..Len(q) : q[j].name # n
             c == CHOOSE x \in DOMAIN q : Is(x)
  <2>1. DOMAIN q = 1..Len(q) /\ Len(q) \in Nat
    BY LenProperties
  <2>2. Is(i)
    BY <2>1 DEF Distinct
  <2>3. c \in DOMAIN q /\ Is(c)
    BY <2>2
  <2>4. c = i
    BY <2>3 DEF Distinct
  <2>5. n \in Names(q)
    BY DEF Names
  <2>6. Written(q)[n] = q[c]
    BY <2>5 DEF Written, Names
  <2> HIDE DEF c
  <2> QED BY <2>4, <2>6
<1> QED BY <1>1, <1>2

\* A server as each CLI's configuration writes it, and as it is read there.
EntryOf(r, s) ==
  CASE r = "claude" -> ClaudeEntry(s) [] r = "codex" -> CodexEntry(s) [] r = "opencode" -> OpencodeEntry(s)
    [] OTHER -> AntigravityEntry(s)

\* The keys an entry is read by.
UrlKey(r) == IF r = "antigravity" THEN "serverUrl" ELSE "url"

TypeAs(r, e, t) == r \in DOMAIN t => ("type" \in DOMAIN e /\ e.type = t[r])

\* Types by runtime, and none for the others.
LEMMA TypesAre ==
  ASSUME NEW r, NEW e, NEW x, NEW y,
         r = "claude" => "type" \in DOMAIN e /\ e.type = x,
         r = "opencode" => "type" \in DOMAIN e /\ e.type = y
  PROVE  TypeAs(r, e, [claude |-> x, opencode |-> y])
<1> DEFINE t == [claude |-> x, opencode |-> y]
<1>1. DOMAIN t = {"claude", "opencode"} /\ t["claude"] = x /\ t["opencode"] = y
  OBVIOUS
<1> HIDE DEF t
<1>2. TypeAs(r, e, t)
  BY <1>1 DEF TypeAs
<1> QED BY <1>2 DEF t

\* A server by its URL is understood as one.
LEMMA UnderstoodHttp ==
  ASSUME NEW r, NEW e, UrlKey(r) \in DOMAIN e, "command" \notin DOMAIN e,
         r = "claude" => "type" \in DOMAIN e /\ e.type = "http",
         r = "opencode" => "type" \in DOMAIN e /\ e.type = "remote"
  PROVE  Understood(r, e) = Http(e[UrlKey(r)])
<1>1. TypeAs(r, e, [claude |-> "http", opencode |-> "remote"])
  BY TypesAre
<1>2. Understood(r, e) =
        CASE UrlKey(r) \in DOMAIN e /\ TypeAs(r, e, [claude |-> "http", opencode |-> "remote"]) -> Http(e[UrlKey(r)])
          [] "command" \in DOMAIN e /\ TypeAs(r, e, [claude |-> "stdio", opencode |-> "local"]) -> Stdio(e.command)
          [] OTHER -> [kind |-> "not-understood", at |-> ""]
  BY Zenon DEF Understood, UrlKey, TypeAs
<1> QED BY <1>1, <1>2, Zenon

\* A server by its command is understood as one.
LEMMA UnderstoodStdio ==
  ASSUME NEW r, NEW e, UrlKey(r) \notin DOMAIN e, "command" \in DOMAIN e,
         r = "claude" => "type" \in DOMAIN e /\ e.type = "stdio",
         r = "opencode" => "type" \in DOMAIN e /\ e.type = "local"
  PROVE  Understood(r, e) = Stdio(e.command)
<1>1. TypeAs(r, e, [claude |-> "stdio", opencode |-> "local"])
  BY TypesAre
<1>2. Understood(r, e) =
        CASE UrlKey(r) \in DOMAIN e /\ TypeAs(r, e, [claude |-> "http", opencode |-> "remote"]) -> Http(e[UrlKey(r)])
          [] "command" \in DOMAIN e /\ TypeAs(r, e, [claude |-> "stdio", opencode |-> "local"]) -> Stdio(e.command)
          [] OTHER -> [kind |-> "not-understood", at |-> ""]
  BY Zenon DEF Understood, UrlKey, TypeAs
<1> QED BY <1>1, <1>2, Zenon

\* What is written is understood as it is meant.
LEMMA EntryIsUnderstood ==
  ASSUME NEW r \in CLIs, NEW s
  PROVE  Understood(r, EntryOf(r, s)) = Meant(s)
<1> DEFINE e == EntryOf(r, s)
           u == s.url
           c == s.command
           none == ""
           yes == TRUE
<1>1. "codex" # "claude" /\ "opencode" # "claude" /\ "opencode" # "codex" /\ "antigravity" # "claude"
      /\ "antigravity" # "codex" /\ "antigravity" # "opencode"
  OBVIOUS
<1>2. Meant(s) = IF u # none THEN Http(u) ELSE Stdio(c)
  BY Zenon DEF Meant
<1>3. ClaudeEntry(s) = IF u # none THEN [type |-> "http", url |-> u] ELSE [type |-> "stdio", command |-> c]
  BY Zenon DEF ClaudeEntry
<1>4. CodexEntry(s) = IF u # none THEN [url |-> u] ELSE [command |-> c]
  BY Zenon DEF CodexEntry
<1>5. OpencodeEntry(s) = IF u # none THEN [type |-> "remote", url |-> u, enabled |-> yes]
                         ELSE [type |-> "local", command |-> c, enabled |-> yes]
  BY Zenon DEF OpencodeEntry
<1>6. AntigravityEntry(s) = IF u # none THEN [serverUrl |-> u] ELSE [command |-> c]
  BY Zenon DEF AntigravityEntry
<1>7. /\ r = "claude" => e = ClaudeEntry(s) /\ UrlKey(r) = "url"
      /\ r = "codex" => e = CodexEntry(s) /\ UrlKey(r) = "url"
      /\ r = "opencode" => e = OpencodeEntry(s) /\ UrlKey(r) = "url"
      /\ r = "antigravity" => e = AntigravityEntry(s) /\ UrlKey(r) = "serverUrl"
  <2>1. r = "claude" => e = ClaudeEntry(s) /\ UrlKey(r) = "url"
    BY <1>1, Zenon DEF EntryOf, UrlKey
  <2>2. r = "codex" => e = CodexEntry(s) /\ UrlKey(r) = "url"
    BY <1>1, Zenon DEF EntryOf, UrlKey
  <2>3. r = "opencode" => e = OpencodeEntry(s) /\ UrlKey(r) = "url"
    BY <1>1, Zenon DEF EntryOf, UrlKey
  <2>4. r = "antigravity" => e = AntigravityEntry(s) /\ UrlKey(r) = "serverUrl"
    BY <1>1, Zenon DEF EntryOf, UrlKey
  <2> QED BY <2>1, <2>2, <2>3, <2>4
<1> HIDE DEF e, u, c, none, yes
<1>8. CASE u # none
  <2>1. /\ r = "claude" => e = [type |-> "http", url |-> u]
        /\ r = "codex" => e = [url |-> u]
        /\ r = "opencode" => e = [type |-> "remote", url |-> u, enabled |-> yes]
        /\ r = "antigravity" => e = [serverUrl |-> u]
    BY <1>3, <1>4, <1>5, <1>6, <1>7, <1>8, Zenon
  <2>2. UrlKey(r) \in DOMAIN e /\ "command" \notin DOMAIN e /\ e[UrlKey(r)] = u
    BY <1>7, <2>1 DEF CLIs
  <2>3. /\ r = "claude" => "type" \in DOMAIN e /\ e.type = "http"
        /\ r = "opencode" => "type" \in DOMAIN e /\ e.type = "remote"
    BY <2>1
  <2>4. Understood(r, e) = Http(u)
    BY <2>2, <2>3, UnderstoodHttp
  <2> QED BY <1>2, <1>8, <2>4 DEF e
<1>9. CASE u = none
  <2>1. /\ r = "claude" => e = [type |-> "stdio", command |-> c]
        /\ r = "codex" => e = [command |-> c]
        /\ r = "opencode" => e = [type |-> "local", command |-> c, enabled |-> yes]
        /\ r = "antigravity" => e = [command |-> c]
    BY <1>3, <1>4, <1>5, <1>6, <1>7, <1>9, Zenon
  <2>2. UrlKey(r) \notin DOMAIN e /\ "command" \in DOMAIN e /\ e.command = c
    BY <1>7, <2>1 DEF CLIs
  <2>3. /\ r = "claude" => "type" \in DOMAIN e /\ e.type = "stdio"
        /\ r = "opencode" => "type" \in DOMAIN e /\ e.type = "local"
    BY <2>1
  <2>4. Understood(r, e) = Stdio(c)
    BY <2>2, <2>3, UnderstoodStdio
  <2> QED BY <1>2, <1>9, <2>4 DEF e
<1> QED BY <1>8, <1>9

\* What a CLI makes of the servers a file configures.
Seen(r, servers) == { <<n, Understood(r, servers[n])>> : n \in DOMAIN servers }

\* The servers as a CLI's configuration writes them.
WrittenFor(r, q) == LET s == Written(q) IN [n \in DOMAIN s |-> EntryOf(r, s[n])]

\* A CLI sees the servers that were written for it.
LEMMA SeenIs ==
  ASSUME NEW r \in CLIs, NEW S, NEW q \in Seq(S), Distinct(q)
  PROVE  Seen(r, WrittenFor(r, q)) = Named(q)
<1> DEFINE s == Written(q)
           w == WrittenFor(r, q)
<1>1. DOMAIN s = Names(q) /\ \A i \in DOMAIN q : s[q[i].name] = q[i]
  BY WrittenIs
<1>2. w = [n \in DOMAIN s |-> EntryOf(r, s[n])]
  BY Zenon DEF WrittenFor
<1> HIDE DEF s, w
<1>3. DOMAIN w = Names(q)
  BY <1>1, <1>2
<1>4. \A i \in DOMAIN q : Understood(r, w[q[i].name]) = Meant(q[i])
  <2> SUFFICES ASSUME NEW i \in DOMAIN q PROVE Understood(r, w[q[i].name]) = Meant(q[i])
    OBVIOUS
  <2>1. q[i].name \in DOMAIN s
    BY <1>1 DEF Names
  <2>2. w[q[i].name] = EntryOf(r, q[i])
    BY <1>1, <1>2, <2>1
  <2> QED BY <2>2, EntryIsUnderstood
<1>5. Seen(r, w) = { <<n, Understood(r, w[n])>> : n \in Names(q) }
  BY <1>3 DEF Seen
<1>6. Seen(r, w) \subseteq Named(q)
  BY <1>4, <1>5 DEF Named, Names
<1>7. Named(q) \subseteq Seen(r, w)
  <2> SUFFICES ASSUME NEW i \in DOMAIN q PROVE <<q[i].name, Meant(q[i])>> \in Seen(r, w)
    BY DEF Named
  <2>1. q[i].name \in Names(q)
    BY DEF Names
  <2>2. <<q[i].name, Understood(r, w[q[i].name])>> \in Seen(r, w)
    BY <1>5, <2>1
  <2> QED BY <1>4, <2>2
<1> QED BY <1>6, <1>7 DEF w

\* The host's own two servers, and all that may be listed.
Loopback(ctx) == [name |-> "loopback", url |-> ctx.loopback, command |-> ""]

Mux(ctx) == [name |-> "mux", url |-> "", command |-> ctx.mux]

Servers == [name : STRING, url : STRING, command : STRING]

Listed(ctx) == Servers \union {Loopback(ctx), Mux(ctx)}

\* The host's own servers have the reserved names.
LEMMA OwnIs ==
  ASSUME NEW ctx
  PROVE  /\ Own(ctx) \in Seq(Listed(ctx)) /\ Distinct(Own(ctx)) /\ Names(Own(ctx)) \subseteq Reserved
         /\ Named(Own(ctx)) = (IF ctx.loopback = "" THEN {} ELSE {<<"loopback", Http(ctx.loopback)>>})
                                \union (IF ctx.mux = "" THEN {} ELSE {<<"mux", Stdio(ctx.mux)>>})
<1> DEFINE l == Loopback(ctx)
           m == Mux(ctx)
           none == ""
           S == Listed(ctx)
           p == IF ctx.loopback = none THEN <<>> ELSE <<l>>
           q == IF ctx.mux = none THEN <<>> ELSE <<m>>
           P == IF ctx.loopback = none THEN {} ELSE {<<"loopback", Http(ctx.loopback)>>}
           Q == IF ctx.mux = none THEN {} ELSE {<<"mux", Stdio(ctx.mux)>>}
<1>1. Own(ctx) = p \o q
  BY Zenon DEF Own, Loopback, Mux
<1>2. l = [name |-> "loopback", url |-> ctx.loopback, command |-> none] /\ m = [name |-> "mux", url |-> none, command |-> ctx.mux]
  BY Zenon DEF Loopback, Mux
<1>3. Reserved = {"loopback", "mux"}
  BY DEF Reserved
<1>4. l \in S /\ m \in S
  BY DEF Listed
<1>5. \A s : Meant(s) = IF s.url # none THEN Http(s.url) ELSE Stdio(s.command)
  BY Zenon DEF Meant
<1> HIDE DEF l, m, none, S
<1>6. l.name = "loopback" /\ l.url = ctx.loopback /\ m.name = "mux" /\ m.url = none /\ m.command = ctx.mux
  BY <1>2
<1>7. ctx.loopback # none => Meant(l) = Http(ctx.loopback)
  BY <1>5, <1>6
<1>8. Meant(m) = Stdio(ctx.mux)
  BY <1>5, <1>6
<1>9. /\ Named(<<l>>) = {<<l.name, Meant(l)>>} /\ Names(<<l>>) = {l.name} /\ Distinct(<<l>>)
      /\ Named(<<m>>) = {<<m.name, Meant(m)>>} /\ Names(<<m>>) = {m.name} /\ Distinct(<<m>>)
      /\ Named(<<>>) = {} /\ Names(<<>>) = {} /\ Distinct(<<>>)
  BY NamedOne
<1>10. p \in Seq(S) /\ q \in Seq(S)
  <2>1. <<l>> \in Seq(S) /\ <<m>> \in Seq(S) /\ <<>> \in Seq(S)
    BY <1>4, OneIn, EmptySeq
  <2> QED BY <2>1
<1>11. Distinct(p) /\ Distinct(q)
  BY <1>9
<1>12. Names(p) \subseteq {"loopback"} /\ Names(q) \subseteq {"mux"}
  BY <1>6, <1>9
<1>13. Named(p) = P
  <2>1. CASE ctx.loopback = none
    <3>1. p = <<>> /\ P = {}
      BY <2>1, Zenon
    <3> HIDE DEF p, P
    <3> QED BY <1>9, <3>1, Zenon
  <2>2. CASE ctx.loopback # none
    <3>1. p = <<l>> /\ P = {<<"loopback", Http(ctx.loopback)>>}
      BY <2>2, Zenon
    <3> HIDE DEF p, P
    <3> QED BY <1>6, <1>7, <1>9, <2>2, <3>1, Zenon
  <2> QED BY <2>1, <2>2
<1>14. Named(q) = Q
  <2>1. CASE ctx.mux = none
    <3>1. q = <<>> /\ Q = {}
      BY <2>1, Zenon
    <3> HIDE DEF q, Q
    <3> QED BY <1>9, <3>1, Zenon
  <2>2. CASE ctx.mux # none
    <3>1. q = <<m>> /\ Q = {<<"mux", Stdio(ctx.mux)>>}
      BY <2>2, Zenon
    <3> HIDE DEF q, Q
    <3> QED BY <1>6, <1>8, <1>9, <2>2, <3>1, Zenon
  <2> QED BY <2>1, <2>2
<1> HIDE DEF p, q
<1>15. p \o q \in Seq(S) /\ Named(p \o q) = Named(p) \union Named(q)
  BY <1>10, NamedConcat, ConcatProperties
<1>16. "loopback" # "mux"
  OBVIOUS
<1>17. Names(p) \intersect Names(q) = {}
  BY <1>12, <1>16
<1>18. Distinct(p \o q)
  BY <1>10, <1>11, <1>17, DistinctConcat
<1>19. Names(p \o q) \subseteq {"loopback", "mux"}
  <2> DEFINE pq == p \o q
  <2>1. \A i \in DOMAIN pq : (i \in DOMAIN p /\ pq[i] = p[i]) \/ \E j \in DOMAIN q : pq[i] = q[j]
    <3>1. /\ \A i \in DOMAIN p : i \in DOMAIN pq /\ pq[i] = p[i]
          /\ \A i \in DOMAIN q : Len(p) + i \in DOMAIN pq /\ pq[Len(p) + i] = q[i]
          /\ \A i \in DOMAIN pq : i \in DOMAIN p \/ (i - Len(p) \in DOMAIN q /\ i = Len(p) + (i - Len(p)))
      BY <1>10, ConcatPlaces
    <3> HIDE DEF pq
    <3> QED BY <3>1
  <2> HIDE DEF pq
  <2>2. Names(pq) \subseteq Names(p) \union Names(q)
    BY <2>1 DEF Names
  <2> QED BY <1>12, <2>2 DEF pq
<1> HIDE DEF P, Q
<1>20. /\ Own(ctx) \in Seq(S) /\ Distinct(Own(ctx)) /\ Names(Own(ctx)) \subseteq Reserved
       /\ Named(Own(ctx)) = P \union Q
  BY <1>1, <1>3, <1>13, <1>14, <1>15, <1>18, <1>19
<1> QED BY <1>20, Zenon DEF P, Q, S, none

\* MCPServersAreValid keeps the launch's own servers from those names.
LEMMA ServersAreApart ==
  ASSUME NEW ctx \in Contexts, MCPServersAreValid(ctx.servers)
  PROVE  /\ ctx.servers \in Seq(Listed(ctx)) /\ Distinct(ctx.servers)
         /\ Names(ctx.servers) \intersect Names(Own(ctx)) = {}
<1> DEFINE q == ctx.servers
           none == ""
           odd == "not-a-name"
<1>1. q \in Seq(Servers)
  BY LaunchAssumption DEF ContextFields, Servers
<1>2. q \in Seq(Listed(ctx))
  <2>1. Servers \subseteq Listed(ctx)
    BY DEF Listed
  <2> HIDE DEF q
  <2> QED BY <1>1, <2>1, SeqWider
<1>3. /\ \A i \in DOMAIN q : q[i].name \notin Reserved \union {none, odd}
      /\ \A i, j \in DOMAIN q : q[i].name = q[j].name => i = j
  BY Zenon DEF MCPServersAreValid
<1>4. Names(Own(ctx)) \subseteq Reserved
  BY OwnIs
<1> HIDE DEF q, none, odd
<1>5. Distinct(q) /\ Names(q) \intersect Reserved = {}
  BY <1>3 DEF Distinct, Names
<1> QED BY <1>2, <1>4, <1>5 DEF q

\* The servers a launch is to have, by name.
LEMMA WantedIs ==
  ASSUME NEW ctx \in Contexts
  PROVE  Wanted(ctx) = Named(Own(ctx)) \union Named(ctx.servers)
<1> DEFINE P == IF ctx.loopback = "" THEN {} ELSE {<<"loopback", Http(ctx.loopback)>>}
           Q == IF ctx.mux = "" THEN {} ELSE {<<"mux", Stdio(ctx.mux)>>}
           q == ctx.servers
           R == { <<s.name, Meant(s)>> : s \in ToSet(q) }
<1>1. Wanted(ctx) = P \union Q \union R
  BY Zenon DEF Wanted, Meant
<1>2. Named(Own(ctx)) = P \union Q
  BY OwnIs, Zenon
<1> HIDE DEF P, Q, q
<1>3. R = Named(q)
  BY DEF ToSet, Named
<1> HIDE DEF R
<1> QED BY <1>1, <1>2, <1>3 DEF q

\* A CLI makes of its configuration the servers it is to have.
LEMMA SeenAsWanted ==
  ASSUME NEW r \in CLIs, NEW ctx \in Contexts, MCPServersAreValid(ctx.servers)
  PROVE  Seen(r, ServersIn(r, ctx)) = Wanted(ctx)
<1> DEFINE q == ctx.servers
           o == Own(ctx)
           S == Listed(ctx)
<1>1. q \in Seq(S) /\ Distinct(q) /\ Names(q) \intersect Names(o) = {} /\ o \in Seq(S) /\ Distinct(o)
  BY ServersAreApart, OwnIs
<1>2. Wanted(ctx) = Named(o) \union Named(q)
  BY WantedIs
<1>3. "codex" # "claude" /\ "opencode" # "claude" /\ "opencode" # "codex" /\ "antigravity" # "claude"
      /\ "antigravity" # "codex" /\ "antigravity" # "opencode"
  OBVIOUS
<1>4. Planted(ctx) = Written(q \o o) /\ CodexConfig(ctx) = o \o q
  BY Zenon DEF Planted, CodexConfig
<1> HIDE DEF q, o, S
<1>5. q \o o \in Seq(S) /\ o \o q \in Seq(S)
  BY <1>1, ConcatProperties
<1>6. Distinct(q \o o) /\ Distinct(o \o q)
  BY <1>1, DistinctConcat
<1>7. Named(q \o o) = Wanted(ctx) /\ Named(o \o q) = Wanted(ctx)
  BY <1>1, <1>2, NamedConcat
<1>8. Seen(r, WrittenFor(r, q \o o)) = Wanted(ctx) /\ Seen(r, WrittenFor(r, o \o q)) = Wanted(ctx)
  BY <1>5, <1>6, <1>7, SeenIs
<1>9. CASE r = "claude"
  <2>1. \A s : EntryOf(r, s) = ClaudeEntry(s)
    BY <1>9, Zenon DEF EntryOf
  <2>2. ServersIn(r, ctx) = MCPJSON(ctx)
    BY <1>9, Zenon DEF ServersIn
  <2>3. MCPJSON(ctx) = WrittenFor(r, q \o o)
    BY <1>4, <2>1, Zenon DEF MCPJSON, WrittenFor
  <2> QED BY <1>8, <2>2, <2>3
<1>10. CASE r = "opencode"
  <2>1. \A s : EntryOf(r, s) = OpencodeEntry(s)
    BY <1>3, <1>10, Zenon DEF EntryOf
  <2>2. ServersIn(r, ctx) = OpencodeJSON(ctx)
    BY <1>3, <1>10, Zenon DEF ServersIn
  <2>3. OpencodeJSON(ctx) = WrittenFor(r, q \o o)
    BY <1>4, <2>1, Zenon DEF OpencodeJSON, WrittenFor
  <2> QED BY <1>8, <2>2, <2>3
<1>11. CASE r = "antigravity"
  <2>1. \A s : EntryOf(r, s) = AntigravityEntry(s)
    BY <1>3, <1>11, Zenon DEF EntryOf
  <2>2. ServersIn(r, ctx) = AntigravityMCPConfig(ctx)
    BY <1>3, <1>11, Zenon DEF ServersIn
  <2>3. AntigravityMCPConfig(ctx) = WrittenFor(r, q \o o)
    BY <1>4, <2>1, Zenon DEF AntigravityMCPConfig, WrittenFor
  <2> QED BY <1>8, <2>2, <2>3
<1>12. CASE r = "codex"
  <2>1. \A s : EntryOf(r, s) = CodexEntry(s)
    BY <1>3, <1>12, Zenon DEF EntryOf
  <2>2. ServersIn(r, ctx) = CodexTables(ctx)
    BY <1>3, <1>12, Zenon DEF ServersIn
  <2> DEFINE c == CodexConfig(ctx)
  <2>3. Distinct(c)
    BY <1>4, <1>6
  <2>4. \A i, j \in DOMAIN c : c[i].name = c[j].name => i = j
    BY <2>3, Zenon DEF Distinct
  <2>5. CodexTables(ctx) = WrittenFor(r, c)
    BY <2>1, <2>4, Zenon DEF CodexTables, WrittenFor
  <2> QED BY <1>4, <1>8, <2>2, <2>5
<1> QED BY <1>9, <1>10, <1>11, <1>12 DEF CLIs

-----------------------------------------------------------------------------
(* Where a CLI looks for servers and skills. *)

\* The servers are among what the CLI reads; Claude told to be strict, and
\* Codex always, read nothing else.
LEMMA ServersAreFound ==
  ASSUME NEW l, OwnLaunch(l), NEW in, NEW X, Under(X, PostureFlags),
         NEW h, AtHome(l, h), Reading(l, h).options = Said(Outfit(l), in, X)
  PROVE  LET places == Finds(l, h).servers
             r == l.conv.runtime
         IN  /\ At(ServersRel(r)) \in places
             /\ r = "codex" \/ (r = "claude" /\ Outfit(l).exclusive) => places = {At(ServersRel(r))}
<1> DEFINE b == Outfit(l)
           r == l.conv.runtime
           s == ShapeIn(l)
           read == Reading(l, h)
           places == Finds(l, h).servers
<1>1. r = b.runtime /\ b.runtime \in CLIs /\ s = ShapeOf(b)
  BY OwnLaunchIs
<1>2. "codex" # "claude" /\ "opencode" # "claude" /\ "opencode" # "codex" /\ "antigravity" # "claude"
      /\ "antigravity" # "codex" /\ "antigravity" # "opencode"
  OBVIOUS
<1>3. places = ServerPlaces(r, s, read, h.cwd, h.env)
  BY Finding
<1>4. /\ r = "codex" => EnvOf(h.env, "CODEX_HOME") = Roots["boot"] /\ h.env["CODEX_HOME"] = Roots["boot"]
                        /\ Roots["boot"] # Nothing
      /\ r = "opencode" => EnvOf(h.env, "OPENCODE_CONFIG_DIR") = Roots["boot"]
      /\ r # "opencode" => h.cwd = Roots["boot"]
  BY HomeIsBoot
<1> HIDE DEF b, s, read, places, r
<1>5. CASE r = "claude"
  <2> DEFINE V == ValuesOf(read, "--mcp-config")
             T == ValuesOf(read, StrictFlag)
             W == IF T # {} \/ s = Bare THEN {} ELSE {UserServers, h.cwd \o <<".mcp.json">>}
  <2>1. ServersRel(r) = ".mcp.json"
    BY <1>5, Zenon DEF ServersRel
  <2>2. places = V \union W
    BY <1>3, <1>5, Zenon DEF ServerPlaces, Switched
  <2>3. Base(b, in.resume) = ClaudeBase(b, s, in.resume)
    BY <1>1, <1>5, Zenon DEF Base
  <2>4. \A f : f \notin PostureFlags /\ f \notin Textual => ValuesOf(read, f) = ValuesIn(Base(b, in.resume), f)
    <3>1. b.runtime \in CLIs /\ read.options = Said(b, in, X)
      BY <1>1 DEF b, read
    <3> QED BY <3>1, ValuesAreBase
  <2>5. "--mcp-config" \notin PostureFlags /\ "--mcp-config" \notin Textual
        /\ StrictFlag \notin PostureFlags /\ StrictFlag \notin Textual
    BY DEF PostureFlags, Textual, SkipFlag, StrictFlag
  <2>6. V = ValuesIn(ClaudeBase(b, s, in.resume), "--mcp-config") /\ T = ValuesIn(ClaudeBase(b, s, in.resume), StrictFlag)
    BY <2>3, <2>4, <2>5
  <2>7. V = {At(".mcp.json")} /\ T = Strictly(b)
    <3> DEFINE D == ClaudeBase(b, s, in.resume)
    <3>1. ValuesIn(D, "--mcp-config") = {Roots["boot"] \o <<".mcp.json">>} /\ ValuesIn(D, StrictFlag) = Strictly(b)
      BY ClaudeBaseSays
    <3>2. Roots["boot"] \o <<".mcp.json">> = At(".mcp.json")
      BY DEF At
    <3> HIDE DEF V, T, D
    <3>3. V = {At(".mcp.json")} /\ T = Strictly(b)
      BY <2>6, <3>1, <3>2 DEF D
    <3> QED BY <3>3
  <2>8. b.exclusive => W = {}
    BY <2>7 DEF Strictly
  <2> HIDE DEF V, T, W
  <2> QED BY <1>2, <1>5, <2>1, <2>2, <2>7, <2>8 DEF places, r, b
<1>6. CASE r = "codex"
  <2>1. ServersRel(r) = "config.toml"
    BY <1>2, <1>6, Zenon DEF ServersRel
  <2>2. EnvOf(h.env, "CODEX_HOME") # <<>>
    BY <1>4, <1>6 DEF Nothing
  <2>3. places = {h.env["CODEX_HOME"] \o <<"config.toml">>}
    BY <1>2, <1>3, <1>6, <2>2, Zenon DEF ServerPlaces
  <2>4. places = {At("config.toml")}
    BY <1>4, <1>6, <2>3 DEF At
  <2> QED BY <1>2, <1>6, <2>1, <2>4 DEF places, r
<1>7. CASE r = "opencode"
  <2>1. ServersRel(r) = "opencode.json"
    BY <1>2, <1>7, Zenon DEF ServersRel
  <2>2. places = {UserServers, ProjectServers, EnvOf(h.env, "OPENCODE_CONFIG_DIR") \o <<"opencode.json">>}
    BY <1>2, <1>3, <1>7, Zenon DEF ServerPlaces
  <2>3. At("opencode.json") \in places
    BY <1>4, <1>7, <2>2 DEF At
  <2> QED BY <1>2, <1>7, <2>1, <2>3 DEF places, r
<1>8. CASE r = "antigravity"
  <2> DEFINE rel == ".agents/plugins/tether/mcp_config.json"
  <2>1. ServersRel(r) = rel
    BY <1>2, <1>8, Zenon DEF ServersRel
  <2>2. places = {UserServers, h.cwd \o <<rel>>}
    BY <1>2, <1>3, <1>8, Zenon DEF ServerPlaces
  <2> HIDE DEF rel
  <2>3. At(rel) \in places
    BY <1>2, <1>4, <1>8, <2>2 DEF At
  <2> QED BY <1>2, <1>8, <2>1, <2>3 DEF places, r
<1> QED BY <1>1, <1>5, <1>6, <1>7, <1>8 DEF CLIs, r, places

\* No file of a launch made from fields is a skill.
LEMMA LegacyIsNoSkill ==
  ASSUME NEW a, a.runtime \in CLIs, NEW ctx
  PROVE  \A f \in LegacyFiles(a, ctx) : f.concern # "skill"
<1> DEFINE s == LegacyShape(a)
           agent == LegacyAgent(a)
           F == LegacyFiles(a, ctx)
<1>1. "codex" # "claude" /\ "opencode" # "claude" /\ "opencode" # "codex" /\ "antigravity" # "claude"
      /\ "antigravity" # "codex" /\ "antigravity" # "opencode"
  OBVIOUS
<1>2. a.runtime = "claude" => F = ClaudeFiles(s, ctx)
  BY <1>1, Zenon DEF LegacyFiles
<1>3. a.runtime = "codex" => F = CodexFiles(s, ctx)
  BY <1>1, Zenon DEF LegacyFiles
<1>4. a.runtime = "opencode" => F = OpencodeFiles(s, ctx, agent)
  BY <1>1, Zenon DEF LegacyFiles
<1>5. a.runtime = "antigravity" => F = AntigravityFiles(s, ctx)
  BY <1>1, Zenon DEF LegacyFiles
<1> HIDE DEF s, agent, F
<1>6. CASE a.runtime = "claude"
  BY <1>2, <1>6, NoSkills DEF F
<1>7. CASE a.runtime = "codex"
  BY <1>3, <1>7, NoSkills DEF F
<1>8. CASE a.runtime = "opencode"
  BY <1>4, <1>8, NoSkills DEF F
<1>9. CASE a.runtime = "antigravity"
  BY <1>5, <1>9, NoSkills DEF F
<1> QED BY <1>6, <1>7, <1>8, <1>9 DEF CLIs

\* Where each CLI's skills are planted.
LEMMA SkillsRel ==
  ASSUME NEW s, s = Bare \/ s = Plain(s.mode)
  PROVE  /\ Find("claude", s, "skills").rel = ".claude/skills"
         /\ Find("codex", s, "skills").rel = "skills"
         /\ Find("opencode", s, "skills").rel = "skills"
         /\ Find("antigravity", s, "skills").rel = ".agents/skills"
<1>1. Find("claude", s, "skills") = Table[7] \/ Find("claude", s, "skills") = Table[8]
  BY ClaudeRowsOf
<1>2. Find("codex", s, "skills") = Table[15] /\ Find("antigravity", s, "skills") = Table[29]
  BY GeneralRows
<1>3. Find("opencode", s, "skills") = Table[21]
  BY OpencodeSkills
<1>4. Table[7].rel = ".claude/skills" /\ Table[8].rel = ".claude/skills"
  BY ClaudeTable DEF RowIs
<1>5. Table[15].rel = "skills"
  BY CodexTable DEF RowIs
<1>6. Table[21].rel = "skills"
  BY OpencodeTable DEF RowIs
<1>7. Table[29].rel = ".agents/skills"
  BY AntigravityTable DEF RowIs
<1> QED BY <1>1, <1>2, <1>3, <1>4, <1>5, <1>6, <1>7

\* A skill is planted by a projection asked for skills, and under its
\* runtime's directory.
LEMMA SkillIs ==
  ASSUME NEW l, OwnLaunch(l), NEW f \in l.files, f.concern = "skill"
  PROVE  /\ f.rel = Find(l.conv.runtime, ShapeIn(l), "skills").rel
         /\ Outfit(l).skillsDir = Roots["boot"]
<1>1. CASE IsProjection(l)
  <2>1. PICK a \in Adapters, ctx \in Contexts, opts \in Options, set \in Settings :
          l = ProjectionOf(a, ctx, opts, set)
    BY <1>1, Zenon DEF IsProjection
  <2> DEFINE P == Projected(a, ctx, opts).files
             S == SkillFiles(a.runtime, ShapeOf(a), opts.skills)
  <2>2. l.files = P \union S /\ l.conv.runtime = a.runtime /\ ShapeIn(l) = ShapeOf(a)
        /\ Outfit(l) = EquippedFor(a, ctx, opts)
    BY <2>1, ProjectionIs
  <2>3. a \in AdapterFields /\ a.runtime \in CLIs
    BY LaunchAssumption DEF AdapterFields, CLIs
  <2>4. f \in S
    <3>1. \A g \in P : g.concern # "skill"
      BY <2>3, ProjectedIsNoSkill
    <3> HIDE DEF P, S
    <3> QED BY <2>2, <3>1
  <2>5. f.rel = Find(a.runtime, ShapeOf(a), "skills").rel
    BY <2>4, SkillsAre
  <2>6. opts.skills # {}
    BY <2>4 DEF SkillFiles
  <2>7. EquippedFor(a, ctx, opts).skillsDir = Roots["boot"]
    <3>1. EquippedFor(a, ctx, opts).skillsDir = IF opts.skills = {} THEN <<>> ELSE Roots["boot"]
      BY <2>3, EquippedIs
    <3> QED BY <2>6, <3>1, Zenon
  <2> QED BY <2>2, <2>5, <2>7
<1>2. CASE IsFielded(l)
  <2>1. PICK a \in Adapters, ctx \in Contexts, set \in Settings : l = FieldedOf(a, ctx, set)
    BY <1>2, Zenon DEF IsFielded
  <2>2. l.files = LegacyFiles(a, ctx)
    BY <2>1, FieldedIs
  <2>3. a.runtime \in CLIs
    BY LaunchAssumption DEF AdapterFields, CLIs
  <2> QED BY <2>2, <2>3, LegacyIsNoSkill
<1> QED BY <1>1, <1>2 DEF OwnLaunch

\* Every skill that was planted is found.
LEMMA SkillsAreFound ==
  ASSUME NEW l, OwnLaunch(l), NEW in, NEW X, Under(X, PostureFlags),
         NEW h, AtHome(l, h), Reading(l, h).options = Said(Outfit(l), in, X),
         NEW f \in l.files, f.concern = "skill"
  PROVE  At(f.rel) \in Finds(l, h).skills
<1> DEFINE b == Outfit(l)
           r == l.conv.runtime
           s == ShapeIn(l)
           read == Reading(l, h)
           places == Finds(l, h).skills
<1>1. r = b.runtime /\ b.runtime \in CLIs /\ s = ShapeOf(b) /\ (s = Bare \/ s = Plain(s.mode))
  BY OwnLaunchIs, ShapesAre
<1>2. "codex" # "claude" /\ "opencode" # "claude" /\ "opencode" # "codex" /\ "antigravity" # "claude"
      /\ "antigravity" # "codex" /\ "antigravity" # "opencode"
  OBVIOUS
<1>3. places = SkillPlaces(r, s, read, h.cwd, h.env)
  BY Finding
<1>4. /\ r = "codex" => EnvOf(h.env, "CODEX_HOME") = Roots["boot"]
      /\ r = "opencode" => EnvOf(h.env, "OPENCODE_CONFIG_DIR") = Roots["boot"]
      /\ r # "opencode" => h.cwd = Roots["boot"]
  BY HomeIsBoot
<1>5. f.rel = Find(r, s, "skills").rel /\ b.skillsDir = Roots["boot"] /\ Roots["boot"] # Nothing
  BY SkillIs, RootsAre DEF Nothing
<1> HIDE DEF b, s, read, places, r
<1>6. /\ (r = "claude" => f.rel = ".claude/skills") /\ (r = "codex" => f.rel = "skills")
      /\ (r = "opencode" => f.rel = "skills") /\ (r = "antigravity" => f.rel = ".agents/skills")
  BY <1>1, <1>5, SkillsRel
<1>7. CASE r = "claude"
  <2> DEFINE V == ValuesOf(read, "--add-dir")
             U == { d \o <<".claude/skills">> : d \in V }
             W == IF s = Bare THEN {} ELSE {h.cwd \o <<".claude/skills">>}
  <2>1. places = U \union W
    BY <1>3, <1>7, Zenon DEF SkillPlaces
  <2>2. CASE s = Bare
    <3> DEFINE o == "--add-dir"
    <3>1. o \notin PostureFlags /\ o \notin Textual
      BY DEF PostureFlags, Textual, SkipFlag
    <3>2. V = ValuesIn(Base(b, in.resume), o)
      <4> HIDE DEF o
      <4>1. b.runtime \in CLIs /\ read.options = Said(b, in, X)
        BY <1>1 DEF b, read
      <4>2. ValuesOf(read, o) = ValuesIn(Base(b, in.resume), o)
        BY <3>1, <4>1, ValuesAreBase
      <4> QED BY <4>2 DEF o
    <3>3. Base(b, in.resume) = ClaudeBase(b, s, in.resume)
      BY <1>1, <1>7, Zenon DEF Base
    <3>4. ValuesIn(ClaudeBase(b, s, in.resume), o) = {Roots["project"]} \union Present(b.skillsDir)
      BY <2>2, ClaudeBaseSays
    <3>5. Present(b.skillsDir) = {Roots["boot"]}
      BY <1>5 DEF Present, Nothing
    <3>6. Roots["boot"] \in V
      BY <3>2, <3>3, <3>4, <3>5
    <3> HIDE DEF V, W
    <3>7. Roots["boot"] \o <<".claude/skills">> \in U
      BY <3>6
    <3> HIDE DEF U
    <3>8. At(".claude/skills") \in places
      BY <2>1, <3>7 DEF At
    <3> QED BY <1>2, <1>6, <1>7, <3>8 DEF places
  <2>3. CASE s # Bare
    <3>1. W = {h.cwd \o <<".claude/skills">>}
      BY <2>3, Zenon
    <3>2. W = {At(".claude/skills")}
      BY <1>2, <1>4, <1>7, <3>1 DEF At
    <3> HIDE DEF U, W
    <3> QED BY <1>2, <1>6, <1>7, <2>1, <3>2 DEF places
  <2> QED BY <2>2, <2>3
<1>8. CASE r = "codex"
  <2>1. places = {EnvOf(h.env, "CODEX_HOME") \o <<"skills">>}
    BY <1>2, <1>3, <1>8, Zenon DEF SkillPlaces
  <2>2. At("skills") \in places
    BY <1>4, <1>8, <2>1 DEF At
  <2> QED BY <1>2, <1>6, <1>8, <2>2 DEF places
<1>9. CASE r = "opencode"
  <2>1. places = {EnvOf(h.env, "OPENCODE_CONFIG_DIR") \o <<"skills">>, h.cwd \o <<".opencode/skills">>}
    BY <1>2, <1>3, <1>9, Zenon DEF SkillPlaces
  <2>2. At("skills") \in places
    BY <1>4, <1>9, <2>1 DEF At
  <2> QED BY <1>2, <1>6, <1>9, <2>2 DEF places
<1>10. CASE r = "antigravity"
  <2>1. places = {h.cwd \o <<".agents/skills">>}
    BY <1>2, <1>3, <1>10, Zenon DEF SkillPlaces
  <2>2. At(".agents/skills") \in places
    BY <1>2, <1>4, <1>10, <2>1 DEF At
  <2> QED BY <1>2, <1>6, <1>10, <2>2 DEF places
<1> QED BY <1>1, <1>7, <1>8, <1>9, <1>10 DEF CLIs

-----------------------------------------------------------------------------
(* Where the instructions are planted. *)

\* The instructions among the files are at the place.
InstructsAt(files, place) == \A f \in files : f.concern = "instructions" => PathOf(f) = place

\* Only one file of a launch has instructions, and it is the named one.
LEMMA OneInstructs ==
  ASSUME NEW F, NEW file, NEW place, PathOf(file) = place, \A f \in F : f = file \/ f.concern # "instructions"
  PROVE  InstructsAt(F, place)
  BY Zenon DEF InstructsAt

\* The other rows' files are none.
LEMMA OthersInstructNot ==
  ASSUME NEW r, NEW s, NEW c, c # "instructions", NEW v
  PROVE  File(r, s, c).concern # "instructions" /\ Serving(r, s, c, v).concern # "instructions"
<1>1. File(r, s, c).concern = c
  BY FileIs
<1>2. Serving(r, s, c, v).concern = c
  BY ServingIs
<1> QED BY <1>1, <1>2

\* Where OpenCode's agent file is.
LEMMA AgentFileAt ==
  ASSUME NEW s, NEW ctx, NEW agent
  PROVE  PathOf([Instructions("opencode", s, ctx) EXCEPT !.agent = agent]) = At("agents/{agent}.md") \o agent
<1> DEFINE r == "opencode"
           rel == "agents/{agent}.md"
           f == [Instructions(r, s, ctx) EXCEPT !.agent = agent]
<1>1. f.agent = agent /\ f.rel = Find(r, s, "instructions").rel
  BY AgentFileIs
<1>2. Find(r, s, "instructions").rel = rel
  <2>1. Find(r, s, "instructions") = Table[17]
    BY GeneralRows
  <2>2. Table[17].rel = rel
    BY OpencodeTable, Zenon DEF RowIs
  <2> QED BY <2>1, <2>2, Zenon
<1> HIDE DEF r, rel, f
<1>3. PathOf(f) = At(f.rel) \o f.agent
  BY Zenon DEF PathOf, At
<1>4. PathOf(f) = At(rel) \o agent
  BY <1>1, <1>2, <1>3, Zenon
<1> QED BY <1>4, Zenon DEF r, rel, f

\* The instructions of each CLI are planted at one place.
LEMMA NotesArePlanted ==
  ASSUME NEW s, s = Bare \/ s = Plain(s.mode), NEW ctx, NEW agent
  PROVE  /\ InstructsAt(ClaudeFiles(s, ctx), At("CLAUDE.md"))
         /\ InstructsAt(CodexFiles(s, ctx), At("AGENTS.md"))
         /\ InstructsAt(OpencodeFiles(s, ctx, agent), At("agents/{agent}.md") \o agent)
         /\ InstructsAt(AntigravityFiles(s, ctx), At("AGENTS.md"))
<1>1. "boot" # "instructions" /\ "auth" # "instructions" /\ "native-config" # "instructions" /\ "mcp" # "instructions"
  OBVIOUS
<1>2. \A r : /\ File(r, s, "boot").concern # "instructions" /\ File(r, s, "auth").concern # "instructions"
             /\ File(r, s, "native-config").concern # "instructions"
  BY <1>1, OthersInstructNot
<1>3. \A r, v : /\ Serving(r, s, "mcp", v).concern # "instructions"
                /\ Serving(r, s, "native-config", v).concern # "instructions"
  BY <1>1, OthersInstructNot
<1>4. InstructsAt(ClaudeFiles(s, ctx), At("CLAUDE.md"))
  <2> DEFINE I == Instructions("claude", s, ctx)
             F == ClaudeFiles(s, ctx)
  <2>1. \A f \in F : f = I \/ f.concern # "instructions"
    BY <1>2, <1>3 DEF ClaudeFiles
  <2>2. Find("claude", s, "instructions").rel = "CLAUDE.md"
    <3>1. Find("claude", s, "instructions") = Table[2] \/ Find("claude", s, "instructions") = Table[1]
      BY ClaudeRowsOf
    <3>2. Table[1].rel = "CLAUDE.md" /\ Table[2].rel = "CLAUDE.md"
      BY ClaudeTable, Zenon DEF RowIs
    <3> QED BY <3>1, <3>2
  <2>3. PathOf(I) = At("CLAUDE.md")
    BY <2>2, InstructionsAt DEF NotesAt
  <2> HIDE DEF I, F
  <2>4. InstructsAt(F, At("CLAUDE.md"))
    BY <2>1, <2>3, OneInstructs
  <2> QED BY <2>4 DEF F
<1>5. InstructsAt(CodexFiles(s, ctx), At("AGENTS.md"))
  <2> DEFINE I == Instructions("codex", s, ctx)
             F == CodexFiles(s, ctx)
  <2>1. \A f \in F : f = I \/ f.concern # "instructions"
    BY <1>2, <1>3 DEF CodexFiles
  <2>2. Find("codex", s, "instructions").rel = "AGENTS.md"
    <3>1. Find("codex", s, "instructions") = Table[10]
      BY GeneralRows
    <3>2. Table[10].rel = "AGENTS.md"
      BY CodexTable, Zenon DEF RowIs
    <3> QED BY <3>1, <3>2
  <2>3. PathOf(I) = At("AGENTS.md")
    BY <2>2, InstructionsAt DEF NotesAt
  <2> HIDE DEF I, F
  <2>4. InstructsAt(F, At("AGENTS.md"))
    BY <2>1, <2>3, OneInstructs
  <2> QED BY <2>4 DEF F
<1>6. InstructsAt(OpencodeFiles(s, ctx, agent), At("agents/{agent}.md") \o agent)
  <2> DEFINE I == [Instructions("opencode", s, ctx) EXCEPT !.agent = agent]
             F == OpencodeFiles(s, ctx, agent)
             V == OpencodeJSON(ctx)
             W == MCPJSON(ctx)
             place == At("agents/{agent}.md") \o agent
  <2>1. F = {I, File("opencode", s, "boot"), Serving("opencode", s, "native-config", V), Serving("opencode", s, "mcp", W)}
    BY Zenon DEF OpencodeFiles
  <2>2. PathOf(I) = place
    BY AgentFileAt, Zenon
  <2> HIDE DEF I, F, V, W, place
  <2>3. \A f \in F : f = I \/ f.concern # "instructions"
    BY <1>2, <1>3, <2>1
  <2>4. InstructsAt(F, place)
    BY <2>2, <2>3, OneInstructs
  <2> QED BY <2>4, Zenon DEF F, place
<1>7. InstructsAt(AntigravityFiles(s, ctx), At("AGENTS.md"))
  <2> DEFINE I == Instructions("antigravity", s, ctx)
             F == AntigravityFiles(s, ctx)
  <2>1. \A f \in F : f = I \/ f.concern # "instructions"
    BY <1>2, <1>3 DEF AntigravityFiles
  <2>2. Find("antigravity", s, "instructions").rel = "AGENTS.md"
    <3>1. Find("antigravity", s, "instructions") = Table[25]
      BY GeneralRows
    <3>2. Table[25].rel = "AGENTS.md"
      BY AntigravityTable, Zenon DEF RowIs
    <3> QED BY <3>1, <3>2
  <2>3. PathOf(I) = At("AGENTS.md")
    BY <2>2, InstructionsAt DEF NotesAt
  <2> HIDE DEF I, F
  <2>4. InstructsAt(F, At("AGENTS.md"))
    BY <2>1, <2>3, OneInstructs
  <2> QED BY <2>4 DEF F
<1> QED BY <1>4, <1>5, <1>6, <1>7, Zenon

\* A launch made from fields plants them where the CLI given those fields
\* looks, if they name OpenCode's agent.
LEMMA LegacyInstructs ==
  ASSUME NEW b, b.runtime \in CLIs, NEW ctx, ShapeOf(b) = Bare \/ ShapeOf(b) = Plain(ShapeOf(b).mode),
         b.runtime = "opencode" => LegacyAgent(b) = b.agent
  PROVE  InstructsAt(LegacyFiles(b, ctx), NotesPlace(b))
<1> DEFINE s == LegacyShape(b)
           g == LegacyAgent(b)
           F == LegacyFiles(b, ctx)
<1>1. "codex" # "claude" /\ "opencode" # "claude" /\ "opencode" # "codex" /\ "antigravity" # "claude"
      /\ "antigravity" # "codex" /\ "antigravity" # "opencode"
  OBVIOUS
<1>2. s = Bare \/ s = Plain(s.mode)
  <2>1. b.runtime = "codex" => s = ShapeOf(b)
    BY Zenon DEF LegacyShape
  <2>2. b.runtime # "codex" => s = Plain(PerTurn)
    BY Zenon DEF LegacyShape
  <2>3. Plain(PerTurn) = Plain(Plain(PerTurn).mode)
    BY PlainIsNotBare, Zenon
  <2> QED BY <2>1, <2>2, <2>3, Zenon
<1> HIDE DEF s
<1>3. /\ InstructsAt(ClaudeFiles(s, ctx), At("CLAUDE.md"))
      /\ InstructsAt(CodexFiles(s, ctx), At("AGENTS.md"))
      /\ InstructsAt(OpencodeFiles(s, ctx, g), At("agents/{agent}.md") \o g)
      /\ InstructsAt(AntigravityFiles(s, ctx), At("AGENTS.md"))
  <2> HIDE DEF g
  <2> QED BY <1>2, NotesArePlanted, Zenon
<1>4. CASE b.runtime = "claude"
  <2>1. F = ClaudeFiles(s, ctx)
    BY <1>4, Zenon DEF LegacyFiles, s
  <2>2. NotesPlace(b) = At("CLAUDE.md")
    BY <1>1, <1>4, Zenon DEF NotesPlace, NotesRel
  <2> QED BY <1>3, <2>1, <2>2, Zenon
<1>5. CASE b.runtime = "codex"
  <2>1. F = CodexFiles(s, ctx)
    BY <1>1, <1>5, Zenon DEF LegacyFiles, s
  <2>2. NotesPlace(b) = At("AGENTS.md")
    BY <1>1, <1>5, Zenon DEF NotesPlace, NotesRel
  <2> QED BY <1>3, <2>1, <2>2, Zenon
<1>6. CASE b.runtime = "opencode"
  <2>1. F = OpencodeFiles(s, ctx, g)
    BY <1>1, <1>6, Zenon DEF LegacyFiles, s
  <2>2. NotesPlace(b) = At("agents/{agent}.md") \o g
    BY <1>6, Zenon DEF NotesPlace
  <2> HIDE DEF g, F
  <2> QED BY <1>3, <2>1, <2>2, Zenon DEF F
<1>7. CASE b.runtime = "antigravity"
  <2>1. F = AntigravityFiles(s, ctx)
    BY <1>1, <1>7, Zenon DEF LegacyFiles, s
  <2>2. NotesPlace(b) = At("AGENTS.md")
    BY <1>1, <1>7, Zenon DEF NotesPlace, NotesRel
  <2> QED BY <1>3, <2>1, <2>2, Zenon
<1> QED BY <1>4, <1>5, <1>6, <1>7 DEF CLIs

\* Every launch of ours that names its agent plants them where its CLI looks.
LEMMA OwnInstructs ==
  ASSUME NEW l, OwnLaunch(l), NamesAgent(l)
  PROVE  InstructsAt(l.files, NotesPlace(Outfit(l)))
<1>1. CASE IsProjection(l)
  <2>1. PICK a \in Adapters, ctx \in Contexts, opts \in Options, set \in Settings :
          l = ProjectionOf(a, ctx, opts, set)
    BY <1>1, Zenon DEF IsProjection
  <2> DEFINE b == EquippedFor(a, ctx, opts)
             P == Projected(a, ctx, opts).files
             S == SkillFiles(a.runtime, ShapeOf(a), opts.skills)
  <2>2. l.files = P \union S /\ Outfit(l) = b
    BY <2>1, ProjectionIs
  <2>3. P = LegacyFiles(b, ctx)
    BY SamePlanted
  <2>4. b.runtime = a.runtime /\ b.runtime \in CLIs /\ ShapeOf(b) = ShapeOf(a)
        /\ (b.runtime = "opencode" => LegacyAgent(b) = AgentName(a, ctx))
    BY OutfitIs
  <2>5. b.runtime = "opencode" => b.agent = AgentName(a, ctx)
    <3>1. a \in AdapterFields
      BY LaunchAssumption
    <3>2. b.agent = IF a.runtime = "opencode" THEN AgentName(a, ctx) ELSE a.agent
      BY <3>1, EquippedIs
    <3> HIDE DEF b
    <3> QED BY <2>4, <3>2, Zenon
  <2>6. \A f \in S : f.concern = "skill"
    BY SkillsAre
  <2>7. ShapeOf(b) = Bare \/ ShapeOf(b) = Plain(ShapeOf(b).mode)
    BY ShapesAre
  <2> HIDE DEF b, P, S
  <2>8. InstructsAt(LegacyFiles(b, ctx), NotesPlace(b))
    BY <2>4, <2>5, <2>7, LegacyInstructs
  <2>9. \A f \in l.files : f \in LegacyFiles(b, ctx) \/ f.concern = "skill"
    BY <2>2, <2>3, <2>6
  <2>10. "skill" # "instructions"
    OBVIOUS
  <2> QED BY <2>2, <2>8, <2>9, <2>10, Zenon DEF InstructsAt
<1>2. CASE IsFielded(l)
  <2>1. PICK a \in Adapters, ctx \in Contexts, set \in Settings : l = FieldedOf(a, ctx, set)
    BY <1>2, Zenon DEF IsFielded
  <2> DEFINE b == WithFields(a)
  <2>2. /\ l.path = "fields" /\ l.adapter = b /\ l.conv.runtime = a.runtime
        /\ l.files = LegacyFiles(a, ctx) /\ Outfit(l) = b
    BY <2>1, FieldedIs
  <2>3. a \in AdapterFields /\ a.runtime \in CLIs
    BY LaunchAssumption DEF AdapterFields, CLIs
  <2>4. SameButPaths(a, b) /\ b.agent = a.agent
    BY <2>3, WithFieldsIs
  <2>5. ShapeOf(a) = Bare \/ ShapeOf(a) = Plain(ShapeOf(a).mode)
    BY ShapesAre
  <2> HIDE DEF b
  <2>6. b.runtime = a.runtime
    BY <2>4 DEF SameButPaths
  <2>7. a.runtime = "opencode" => a.agent # <<>>
    BY <2>2, <2>4, Zenon DEF NamesAgent
  <2>8. a.runtime = "opencode" => LegacyAgent(a) = a.agent
    BY <2>7, Zenon DEF LegacyAgent
  <2>9. InstructsAt(LegacyFiles(a, ctx), NotesPlace(a))
    BY <2>3, <2>5, <2>8, LegacyInstructs
  <2>10. NotesPlace(b) = NotesPlace(a)
    BY <2>4, <2>6, Zenon DEF NotesPlace
  <2> QED BY <2>2, <2>9, <2>10, Zenon
<1> QED BY <1>1, <1>2 DEF OwnLaunch

\* What the CLI reads of a turn of ours.
LEMMA TurnReads ==
  ASSUME LaunchInv, Took, launch.path # "foreign"
  PROVE  /\ OwnLaunch(launch) /\ AtHome(launch, turn.bound)
         /\ \E X : /\ Under(X, PostureFlags)
                   /\ Reading(launch, turn.bound).options = Said(Outfit(launch), TurnInput, X)
<1> DEFINE r == launch.conv.runtime
           b == Outfit(launch)
           in == TurnInput
           args == Promised(launch).args
           read == Reading(launch, turn.bound)
<1>1. /\ OwnLaunch(launch) /\ Asks(in) /\ r \in CLIs /\ Promised(launch).ok
      /\ turn.bound = Handed(launch, in, args) /\ HandedWell(launch, in, args)
      /\ args \in Seq(Args)
  BY TookIs
<1>2. launch.set \in Settings /\ b.runtime = r
  BY <1>1, OwnLaunchIs
<1>3. PICK X : Postured(r, Promised(launch), X) /\ Inserted(r, args, X) /\ SparesHomes(launch)
  BY <1>1, <1>2, PostureIs
<1>4. Under(X, PostureFlags)
  BY <1>3 DEF Postured, Under
<1>5. Reads(b.runtime, turn.bound.argv, Said(b, in, X), Spoken(b, in), Told(b, in))
  BY <1>1, <1>3, HandedReads
<1>6. read = Read(r, turn.bound.argv)
  BY Zenon DEF Reading
<1> HIDE DEF read, in, args, b, r
<1>7. read.options = Said(b, in, X)
  BY <1>2, <1>5, <1>6 DEF Reads
<1>8. AtHome(launch, turn.bound)
  BY <1>1, Zenon DEF HandedWell
<1> QED BY <1>1, <1>4, <1>7, <1>8 DEF read, b, in

\* What a launch loads from the places its CLI reads.
LEMMA LoadedIs ==
  ASSUME NEW e \in launch.files, PathOf(e) \in Finds(launch, turn.bound).servers
  PROVE  /\ Seen(launch.conv.runtime, e.servers) \subseteq Loaded
         /\ Finds(launch, turn.bound).servers = {PathOf(e)} =>
              \A x \in Loaded : \E f \in launch.files :
                PathOf(f) = PathOf(e) /\ x \in Seen(launch.conv.runtime, f.servers)
<1> DEFINE places == Finds(launch, turn.bound).servers
           r == launch.conv.runtime
           G == Among(launch, places)
           P == { PathOf(f) : f \in G }
           U == UNION { { <<n, Understood(r, f.servers[n])>> : n \in DOMAIN f.servers } : f \in G }
           V == { <<"elsewhere", p>> : p \in places \ P }
<1>1. Loaded = U \union V
  BY Zenon DEF Loaded
<1>9. U = UNION { Seen(r, f.servers) : f \in G }
  BY DEF Seen
<1> HIDE DEF places, r, U, V
<1>2. e \in G
  BY DEF places, Among
<1>3. Seen(r, e.servers) \subseteq U
  BY <1>2, <1>9
<1>4. \A x \in U : \E f \in G : x \in Seen(r, f.servers)
  BY <1>9
<1>5. places = {PathOf(e)} => V = {}
  <2>1. PathOf(e) \in P
    BY <1>2
  <2> HIDE DEF P
  <2> QED BY <2>1 DEF V
<1> HIDE DEF G
<1>6. \A f \in G : f \in launch.files /\ PathOf(f) \in places
  BY DEF G, Among
<1>7. Seen(r, e.servers) \subseteq Loaded
  BY <1>1, <1>3
<1>8. places = {PathOf(e)} => \A x \in Loaded : \E f \in launch.files : PathOf(f) = PathOf(e) /\ x \in Seen(r, f.servers)
  BY <1>1, <1>4, <1>5, <1>6
<1> QED BY <1>7, <1>8 DEF places, r

\* A file without servers shows the CLI none.
LEMMA NothingSeen == ASSUME NEW r PROVE Seen(r, Nothing) = {}
<1>1. DOMAIN Nothing = {}
  BY DEF Nothing
<1> QED BY <1>1 DEF Seen

\* Every server is loaded, and where nothing else is read no other.
LEMMA LoadsItsOwn ==
  ASSUME LaunchInv, Took, launch.path # "foreign"
  PROVE  /\ Wanted(launch.ctx) \subseteq Loaded
         /\ \/ launch.conv.runtime = "codex"
            \/ launch.conv.runtime = "claude" /\ Outfit(launch).exclusive
            => Loaded = Wanted(launch.ctx)
<1> DEFINE r == launch.conv.runtime
           ctx == launch.ctx
           W == Wanted(launch.ctx)
           places == Finds(launch, turn.bound).servers
           rel == ServersRel(launch.conv.runtime)
           V == ServersIn(launch.conv.runtime, launch.ctx)
           alone == r = "codex" \/ (r = "claude" /\ Outfit(launch).exclusive)
<1>1. OwnLaunch(launch) /\ AtHome(launch, turn.bound)
  BY TurnReads
<1>2. PICK X : /\ Under(X, PostureFlags)
               /\ Reading(launch, turn.bound).options = Said(Outfit(launch), TurnInput, X)
  BY TurnReads
<1>3. r \in CLIs /\ ctx \in Contexts
  BY <1>1, OwnLaunchIs
<1>4. Plants(launch.files, r, ctx) /\ MCPServersAreValid(ctx.servers)
  BY <1>1, OwnLaunchPlants
<1>5. At(rel) \in places /\ (alone => places = {At(rel)})
  BY <1>1, <1>2, ServersAreFound
<1>6. Seen(r, V) = W
  BY <1>3, <1>4, SeenAsWanted
<1>7. PICK f \in launch.files : ServesAt(f, rel, V)
  BY <1>4 DEF Plants
<1>8. PathOf(f) = At(rel) /\ f.servers = V
  BY <1>7 DEF ServesAt
<1>9. W \subseteq Loaded
  BY <1>5, <1>6, <1>8, LoadedIs
<1>10. ASSUME alone PROVE Loaded \subseteq W
  <2>1. \A x \in Loaded : \E g \in launch.files : PathOf(g) = At(rel) /\ x \in Seen(r, g.servers)
    BY <1>5, <1>8, <1>10, LoadedIs
  <2>2. \A g \in launch.files : SilentAt(g, rel, V)
    BY <1>4, <1>10 DEF Plants
  <2> HIDE DEF r, ctx, W, places, rel, V
  <2>3. \A g \in launch.files : PathOf(g) = At(rel) => Seen(r, g.servers) \subseteq W
    BY <1>6, <2>2, NothingSeen DEF SilentAt
  <2> QED BY <2>1, <2>3
<1> HIDE DEF W
<1>11. alone => Loaded = W
  BY <1>9, <1>10
<1> QED BY <1>9, <1>11 DEF W

\* What was planted for a turn of ours is found.
LEMMA PlantedIsFoundCorrect == LaunchInv => PlantedIsFound
<1> SUFFICES ASSUME LaunchInv, Took, launch.path # "foreign" PROVE PlantedIsFound
  BY Zenon DEF PlantedIsFound
<1>1. Wanted(launch.ctx) \subseteq Loaded
  BY LoadsItsOwn
<1>2. ASSUME NEW f \in launch.files, f.concern = "skill"
      PROVE  Roots["boot"] \o <<f.rel>> \in Finds(launch, turn.bound).skills
  <2>1. OwnLaunch(launch) /\ AtHome(launch, turn.bound)
    BY TurnReads
  <2>2. PICK X : /\ Under(X, PostureFlags)
                 /\ Reading(launch, turn.bound).options = Said(Outfit(launch), TurnInput, X)
    BY TurnReads
  <2>3. At(f.rel) \in Finds(launch, turn.bound).skills
    BY <1>2, <2>1, <2>2, SkillsAreFound
  <2> QED BY <2>3 DEF At
<1>3. NamesAgent(launch) => InstructionsAreFound
  <2> SUFFICES ASSUME NamesAgent(launch), NEW f \in launch.files, f.concern = "instructions"
               PROVE  PathOf(f) \in Finds(launch, turn.bound).instructions
    BY Zenon DEF InstructionsAreFound
  <2>1. OwnLaunch(launch) /\ AtHome(launch, turn.bound)
    BY TurnReads
  <2>2. PICK X : /\ Under(X, PostureFlags)
                 /\ Reading(launch, turn.bound).options = Said(Outfit(launch), TurnInput, X)
    BY TurnReads
  <2>3. launch.conv.mode # HTTPSSE
    BY Zenon DEF NamesAgent
  <2>4. PathOf(f) = NotesPlace(Outfit(launch))
    BY <2>1, OwnInstructs, Zenon DEF InstructsAt
  <2>5. NotesPlace(Outfit(launch)) \in Finds(launch, turn.bound).instructions
    BY <2>1, <2>2, <2>3, NotesAreRead
  <2> QED BY <2>4, <2>5, Zenon
<1> QED BY <1>1, <1>2, <1>3, Zenon DEF PlantedIsFound

\* Every server and every skill that was planted is one the CLI finds, and so
\* are the instructions, unless they belong to an agent the arguments do not
\* name.
THEOREM PlantedIsAlwaysFound == LaunchSpec => []PlantedIsFound
  BY PlantedIsFoundCorrect, LaunchIsSound, PTL

\* An exclusive launch carries the strict flag, or is Codex's.
LEMMA ExclusiveIs ==
  ASSUME NEW l, OwnLaunch(l), l.opts.exclusive
  PROVE  l.conv.runtime = "codex" \/ (l.conv.runtime = "claude" /\ Outfit(l).exclusive)
<1>1. CASE IsProjection(l)
  <2>1. PICK a \in Adapters, ctx \in Contexts, opts \in Options, set \in Settings :
          l = ProjectionOf(a, ctx, opts, set) /\ (opts.exclusive => a.runtime \in {"claude", "codex"})
    BY <1>1, Zenon DEF IsProjection
  <2>2. l.opts = opts /\ l.conv.runtime = a.runtime /\ Outfit(l) = EquippedFor(a, ctx, opts)
    BY <2>1, ProjectionIs
  <2>3. a \in AdapterFields
    BY LaunchAssumption
  <2>4. EquippedFor(a, ctx, opts).exclusive = (a.exclusive \/ (a.runtime = "claude" /\ opts.exclusive))
    BY <2>3, EquippedIs
  <2>5. opts.exclusive /\ a.runtime \in {"claude", "codex"}
    BY <2>1, <2>2
  <2>6. a.runtime = "claude" => EquippedFor(a, ctx, opts).exclusive
    BY <2>4, <2>5, Zenon
  <2> QED BY <2>2, <2>5, <2>6
<1>2. CASE IsFielded(l)
  <2>1. PICK a \in Adapters, ctx \in Contexts, set \in Settings : l = FieldedOf(a, ctx, set)
    BY <1>2, Zenon DEF IsFielded
  <2> QED BY <2>1, FieldedAsksNothing
<1> QED BY <1>1, <1>2 DEF OwnLaunch

\* The CLI then has no server of the user's.
LEMMA ExclusiveIsRealCorrect == LaunchInv /\ launch.path # "foreign" => ExclusiveIsReal
<1> SUFFICES ASSUME LaunchInv, launch.path # "foreign", Took, launch.opts.exclusive PROVE ExclusiveIsReal
  BY Zenon DEF ExclusiveIsReal
<1>1. OwnLaunch(launch)
  BY TurnReads
<1>2. Loaded = Wanted(launch.ctx)
  BY <1>1, ExclusiveIs, LoadsItsOwn
<1> QED BY <1>2, Zenon DEF ExclusiveIsReal

\* A projection of ours accepted as exclusive loads the servers it plants and
\* no other.
THEOREM ExclusiveIsAlwaysReal == LaunchSpec => [](launch.path # "foreign" => ExclusiveIsReal)
<1>1. LaunchInv => (launch.path # "foreign" => ExclusiveIsReal)
  BY ExclusiveIsRealCorrect
<1> QED BY <1>1, LaunchIsSound, PTL
=============================================================================
