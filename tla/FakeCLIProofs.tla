--------------------------- MODULE FakeCLIProofs ----------------------------
(***************************************************************************)
(* Theorems about the fake CLI, for any number of invocations, any script, *)
(* any kills and any conversation.                                         *)
(***************************************************************************)
EXTENDS FakeCLI, DataLemmas

\* What records are made of is left open: a list is one of its own elements.
IsList(s) == s \in Seq({ s[i] : i \in DOMAIN s })

LEMMA ListAppend ==
  ASSUME NEW s, IsList(s), NEW e
  PROVE  /\ IsList(Append(s, e)) /\ Append(s, e) # <<>>
         /\ Len(Append(s, e)) = Len(s) + 1
         /\ DOMAIN s = 1..Len(s) /\ Len(s) \in Nat
         /\ DOMAIN Append(s, e) = 1..(Len(s) + 1)
         /\ \A i \in 1..Len(s) : Append(s, e)[i] = s[i]
         /\ Append(s, e)[Len(s) + 1] = e
  <1> DEFINE S == { s[i] : i \in DOMAIN s } \union {e}
             t == Append(s, e)
  <1>1. s \in Seq(S) /\ e \in S
    BY DEF IsList
  <1>2. /\ t \in Seq(S) /\ t # <<>> /\ Len(t) = Len(s) + 1
        /\ \A i \in 1..Len(s) : t[i] = s[i]
        /\ t[Len(s) + 1] = e
    BY <1>1, AppendProperties
  <1>3. DOMAIN s = 1..Len(s) /\ Len(s) \in Nat /\ DOMAIN t = 1..Len(t)
    BY <1>1, <1>2
  <1>4. t \in [1..Len(t) -> { t[i] : i \in DOMAIN t }] /\ Len(t) \in Nat
    <2>1. t \in [1..Len(t) -> S] /\ Len(t) \in Nat
      BY <1>2, <1>3, LenProperties
    <2> QED BY <2>1
  <1>5. t \in Seq({ t[i] : i \in DOMAIN t })
    BY <1>4, SeqDef
  <1> QED BY <1>2, <1>3, <1>5 DEF IsList

LEMMA ListEmpty == IsList(<<>>)
  BY DEF IsList

-----------------------------------------------------------------------------
(* The inductive invariant.                                                *)

\* From its link on, an invocation's call file stands in the directory.
Late == {"refuse"} \union Serving \union Ended

Shape ==
  /\ scenario \in Scenarios
  /\ pc \in [Proc -> Labels] /\ args \in [Proc -> SUBSET Arg]
  /\ seq \in [Proc -> Nat] /\ linked \subseteq Proc
  /\ seen = [p \in Proc |-> seen[p]] /\ run = [p \in Proc |-> run[p]]
  /\ file = [p \in Proc |-> file[p]] /\ term = [p \in Proc |-> term[p]]
  /\ IsList(claimed) /\ \A p \in Proc : IsList(file[p])

\* One invocation claims at a time, which makes the four steps one.
LockHeld == \A p \in Proc : pc[p] \in Claiming => lock = p

\* A state that agrees with the claims so far.
Agrees(s) ==
  /\ s.calls = Len(claimed)
  /\ \A i \in DOMAIN scenario.runs :
       ~scenario.runs[i].repeat => (i \in s.used <=> i \in Ledger!UsedRuns(claimed))

\* The state file agrees unless a kill cut it short, and so does what the
\* holder of the lock has read.
StoreAgrees ==
  /\ store.form # "cut" => Agrees(store.state)
  /\ \A p \in Proc : pc[p] = "save" => store.form # "cut" /\ seen[p] = store.state
  /\ \A p \in Proc : pc[p] = "write" => Agrees(seen[p])

\* A call's number is its own, and the claim's under that number.
Numbered ==
  /\ \A p \in Proc : seq[p] <= Len(claimed)
  /\ \A p, q \in Proc : p # q /\ seq[p] = seq[q] => seq[p] = 0
  /\ \A p \in Proc : seq[p] # 0 => claimed[seq[p]] = [args |-> args[p], run |-> run[p]]
  /\ \A p \in Proc : pc[p] = "idle" => seq[p] = 0
  /\ \A p \in Proc : pc[p] \in {"unlock"} \union Recording => seq[p] # 0

FiledAt(p) ==
  /\ pc[p] \in {"idle", "lock", "temp", "start"} \union Claiming => file[p] = <<>>
  /\ pc[p] = "link" => file[p] = <<StartRecord(p)>>
  /\ p \in linked => /\ pc[p] \in Late /\ seq[p] # 0
                     /\ file[p] # <<>> /\ file[p][1] = StartRecord(p)
Filed == \A p \in Proc : FiledAt(p)

Handled == \A p \in Proc : term[p] # "off" => pc[p] \in Serving \union Ended

FakeInv == Shape /\ LockHeld /\ StoreAgrees /\ Numbered /\ Filed /\ Handled

LEMMA InitFake == Init => FakeInv
  <1> SUFFICES ASSUME Init PROVE FakeInv
    OBVIOUS
  <1> USE DEF Init, CallsInit
  <1>1. Shape
    BY ListEmpty, FakeAssumption DEF Shape, Labels
  <1>2. Agrees(store.state)
    BY ScenarioAssumption DEF Agrees, Absent, Fresh, Ledger!UsedRuns
  <1>3. LockHeld /\ StoreAgrees
    BY <1>2 DEF LockHeld, StoreAgrees, Claiming
  <1>4. Numbered /\ Filed /\ Handled
    BY DEF Numbered, Filed, FiledAt, Handled, Recording
  <1> QED BY <1>1, <1>3, <1>4 DEF FakeInv

\* A step of p leaves the others' files and claims alone.
LEMMA FiledKept ==
  ASSUME Filed, NEW p \in Proc, FiledAt(p)',
         \A q \in Proc : q # p =>
           /\ pc'[q] = pc[q] /\ file'[q] = file[q] /\ (q \in linked' <=> q \in linked)
           /\ seq'[q] = seq[q] /\ run'[q] = run[q] /\ args'[q] = args[q]
  PROVE  Filed'
  <1> SUFFICES ASSUME NEW q \in Proc PROVE FiledAt(q)'
    BY DEF Filed
  <1> CASE q = p
    OBVIOUS
  <1> CASE q # p
    <2>1. FiledAt(q) /\ StartRecord(q)' = StartRecord(q)
      BY DEF Filed, StartRecord, Record
    <2> QED BY <2>1 DEF FiledAt
  <1> QED OBVIOUS

-----------------------------------------------------------------------------
(* Steps that only end an invocation, or come after its link.              *)

\* p ends, and lets go of the lock if it held it.
EndStep(p) ==
  /\ \E l \in Ended : pc' = [pc EXCEPT ![p] = l]
  /\ lock' = lock \/ lock = p
  /\ UNCHANGED <<scenario, args, store, seen, seq, run, claimed, file, linked, term>>

LEMMA EndKept ==
  ASSUME FakeInv, NEW p \in Proc, pc[p] # "idle", EndStep(p)
  PROVE  FakeInv'
  <1> USE DEF FakeInv, EndStep
  <1>1. /\ pc' \in [Proc -> Labels] /\ pc'[p] \in Ended
        /\ \A q \in Proc : q # p => pc'[q] = pc[q]
    BY DEF Shape, Labels
  <1>2. Shape'
    BY <1>1 DEF Shape
  <1>3. LockHeld'
    BY <1>1 DEF LockHeld, Claiming, Ended
  <1>4. StoreAgrees'
    BY <1>1 DEF StoreAgrees, Agrees, Ended, Ledger!UsedRuns
  <1>5. Numbered'
    BY <1>1 DEF Numbered, Ended, Recording
  <1>6. FiledAt(p)'
    BY <1>1 DEF Filed, FiledAt, Ended, Claiming, Late, StartRecord, Record
  <1>7. Filed'
    BY <1>1, <1>6, FiledKept
  <1>8. Handled'
    BY <1>1 DEF Handled
  <1> QED BY <1>2, <1>3, <1>4, <1>5, <1>7, <1>8

\* p goes on behind its link: it may write one more record.
LateStep(p) ==
  /\ \E l \in Serving \union Ended : pc' = [pc EXCEPT ![p] = l]
  /\ file' = file \/ \E r : Writes(p, r)
  /\ lock' = lock \/ lock = p
  /\ term' = [q \in Proc |-> term'[q]] /\ \A q \in Proc : q # p => term'[q] = term[q]
  /\ UNCHANGED <<scenario, args, store, seen, seq, run, claimed, linked>>

LEMMA LateKept ==
  ASSUME FakeInv, NEW p \in Proc, pc[p] \in Late, LateStep(p)
  PROVE  FakeInv'
  <1> USE DEF FakeInv, LateStep
  <1>1. /\ pc' \in [Proc -> Labels] /\ pc'[p] \in Serving \union Ended
        /\ \A q \in Proc : q # p => pc'[q] = pc[q]
    BY DEF Shape, Labels
  <1>2. /\ file' = [q \in Proc |-> file'[q]] /\ \A q \in Proc : q # p => file'[q] = file[q]
        /\ IsList(file'[p]) /\ (file[p] # <<>> => file'[p] # <<>> /\ file'[p][1] = file[p][1])
    <2>1. CASE file' = file
      BY <2>1 DEF Shape
    <2>2. CASE \E r : Writes(p, r)
      <3>1. PICK r : Writes(p, r)
        BY <2>2
      <3>2. /\ file'[p] = Append(file[p], r) /\ file' = [q \in Proc |-> file'[q]]
            /\ \A q \in Proc : q # p => file'[q] = file[q]
        BY <3>1 DEF Writes, Shape
      <3>3. IsList(file[p])
        BY DEF Shape
      <3>4. file[p] # <<>> => Len(file[p]) # 0
        BY <3>3 DEF IsList
      <3> QED BY <3>2, <3>3, <3>4, ListAppend
    <2> QED BY <2>1, <2>2
  <1>3. Shape'
    BY <1>1, <1>2 DEF Shape
  <1>4. LockHeld'
    BY <1>1 DEF LockHeld, Claiming, Late, Serving, Ended
  <1>5. StoreAgrees'
    BY <1>1 DEF StoreAgrees, Agrees, Late, Serving, Ended, Ledger!UsedRuns
  <1>6. Numbered'
    BY <1>1 DEF Numbered, Recording, Late, Serving, Ended
  <1>7. Filed'
    <2>1. FiledAt(p)'
      BY <1>1, <1>2 DEF Filed, FiledAt, Claiming, Late, Serving, Ended, StartRecord, Record
    <2> QED BY <1>1, <1>2, <2>1, FiledKept
  <1>8. Handled'
    BY <1>1 DEF Handled
  <1> QED BY <1>3, <1>4, <1>5, <1>6, <1>7, <1>8

-----------------------------------------------------------------------------
(* The steps up to the link, one by one.                                   *)

\* A step of p alone that touches neither the claims nor the call files.
Elsewhere(p) ==
  /\ \A q \in Proc : q # p => pc'[q] = pc[q]
  /\ pc' \in [Proc -> Labels]
  /\ UNCHANGED <<scenario, claimed, file, linked, seq, run, term>>

LEMMA InvokeKept ==
  ASSUME FakeInv, NEW p \in Proc, Invoke(p), UNCHANGED engVars
  PROVE  FakeInv'
  <1> USE DEF FakeInv, Invoke, claimVars, engVars
  <1>1. Elsewhere(p) /\ pc'[p] = "lock" /\ pc[p] = "idle"
    BY DEF Elsewhere, Shape, Goto, Labels
  <1>2. /\ args' \in [Proc -> SUBSET Arg]
        /\ \A q \in Proc : q # p => args'[q] = args[q]
    BY ScenarioAssumption DEF Shape
  <1>3. Shape'
    BY <1>1, <1>2 DEF Shape, Elsewhere
  <1>4. LockHeld'
    BY <1>1 DEF LockHeld, Elsewhere, Claiming
  <1>5. StoreAgrees'
    BY <1>1 DEF StoreAgrees, Agrees, Elsewhere, Ledger!UsedRuns
  <1>6. Numbered'
    BY <1>1, <1>2 DEF Numbered, Elsewhere, Recording
  <1>7. Filed' /\ Handled'
    <2>1. FiledAt(p)'
      BY <1>1, <1>2 DEF Filed, FiledAt, Elsewhere, Claiming, Late, Serving, Ended, StartRecord, Record
    <2>2. Filed'
      BY <1>1, <1>2, <2>1, FiledKept DEF Elsewhere
    <2> QED BY <1>1, <2>2 DEF Handled, Elsewhere, Serving, Ended
  <1> QED BY <1>3, <1>4, <1>5, <1>6, <1>7

LEMMA LockKept ==
  ASSUME FakeInv, NEW p \in Proc, Lock(p), UNCHANGED engVars
  PROVE  FakeInv'
  <1> USE DEF FakeInv, Lock, engVars
  <1>1. Elsewhere(p) /\ pc'[p] = "load" /\ pc[p] = "lock"
    BY DEF Elsewhere, Shape, Goto, Labels, Claiming
  <1>2. Shape'
    BY <1>1 DEF Shape, Elsewhere
  <1>3. LockHeld'
    BY <1>1 DEF LockHeld, Elsewhere, NoProc, Proc
  <1>4. StoreAgrees'
    BY <1>1 DEF StoreAgrees, Agrees, Elsewhere, Ledger!UsedRuns
  <1>5. Numbered'
    BY <1>1 DEF Numbered, Elsewhere, Recording
  <1>6. Filed' /\ Handled'
    <2>1. FiledAt(p)'
      BY <1>1 DEF Filed, FiledAt, Elsewhere, Claiming, Late, Serving, Ended, StartRecord, Record
    <2>2. Filed'
      BY <1>1, <2>1, FiledKept DEF Elsewhere
    <2> QED BY <1>1, <2>2 DEF Handled, Elsewhere, Serving, Ended
  <1> QED BY <1>2, <1>3, <1>4, <1>5, <1>6

LEMMA LoadKept ==
  ASSUME FakeInv, NEW p \in Proc, Load(p), UNCHANGED engVars
  PROVE  FakeInv'
  <1> USE DEF FakeInv, Load, engVars
  <1>1. Elsewhere(p) /\ pc'[p] = "save" /\ pc[p] = "load"
    BY DEF Elsewhere, Shape, Goto, Labels, Claiming
  <1>2. /\ seen' = [q \in Proc |-> seen'[q]] /\ seen'[p] = store.state
        /\ \A q \in Proc : q # p => seen'[q] = seen[q]
    BY DEF Shape
  <1>3. Shape'
    BY <1>1, <1>2 DEF Shape, Elsewhere
  <1>4. LockHeld'
    BY <1>1 DEF LockHeld, Elsewhere, Claiming
  <1>5. StoreAgrees'
    BY <1>1, <1>2 DEF StoreAgrees, Agrees, Elsewhere, Ledger!UsedRuns
  <1>6. Numbered'
    BY <1>1 DEF Numbered, Elsewhere, Recording
  <1>7. Filed' /\ Handled'
    <2>1. FiledAt(p)'
      BY <1>1 DEF Filed, FiledAt, Elsewhere, Claiming, Late, Serving, Ended, StartRecord, Record
    <2>2. Filed'
      BY <1>1, <2>1, FiledKept DEF Elsewhere
    <2> QED BY <1>1, <2>2 DEF Handled, Elsewhere, Serving, Ended
  <1> QED BY <1>3, <1>4, <1>5, <1>6, <1>7

LEMMA TruncateKept ==
  ASSUME FakeInv, NEW p \in Proc, Truncate(p), UNCHANGED engVars
  PROVE  FakeInv'
  <1> USE DEF FakeInv, Truncate, engVars
  <1>1. Elsewhere(p) /\ pc'[p] = "write" /\ pc[p] = "save" /\ lock = p
    BY DEF Elsewhere, Shape, Goto, Labels, Claiming, LockHeld
  <1>2. Shape'
    BY <1>1 DEF Shape, Elsewhere
  <1>3. LockHeld'
    BY <1>1 DEF LockHeld, Elsewhere, Claiming
  <1>4. StoreAgrees'
    <2>1. store'.form = "cut"
      BY DEF Cut
    <2>2. \A q \in Proc : pc'[q] # "save"
      BY <1>1 DEF Elsewhere, LockHeld, Claiming
    <2>3. Agrees(seen[p])
      BY <1>1 DEF StoreAgrees
    <2> QED BY <1>1, <2>1, <2>2, <2>3 DEF StoreAgrees, Agrees, Elsewhere, Ledger!UsedRuns
  <1>5. Numbered'
    BY <1>1 DEF Numbered, Elsewhere, Recording
  <1>6. Filed' /\ Handled'
    <2>1. FiledAt(p)'
      BY <1>1 DEF Filed, FiledAt, Elsewhere, Claiming, Late, Serving, Ended, StartRecord, Record
    <2>2. Filed'
      BY <1>1, <2>1, FiledKept DEF Elsewhere
    <2> QED BY <1>1, <2>2 DEF Handled, Elsewhere, Serving, Ended
  <1> QED BY <1>2, <1>3, <1>4, <1>5, <1>6

\* The claim p makes.
Claimed(p) == [args |-> args[p], run |-> Picked(p)]

LEMMA UsedByClaim ==
  ASSUME FakeInv, NEW c, claimed' = Append(claimed, c)
  PROVE  Ledger!UsedRuns(claimed') = Ledger!UsedRuns(claimed) \union {c.run}
  <1>1. IsList(claimed)
    BY DEF FakeInv, Shape
  <1>2. /\ DOMAIN claimed = 1..Len(claimed) /\ Len(claimed) \in Nat
        /\ DOMAIN claimed' = 1..(Len(claimed) + 1)
        /\ \A i \in 1..Len(claimed) : claimed'[i] = claimed[i]
        /\ claimed'[Len(claimed) + 1] = c
    BY <1>1, ListAppend
  <1>3. DOMAIN claimed' = DOMAIN claimed \union {Len(claimed) + 1}
    BY <1>2
  <1> QED BY <1>2, <1>3 DEF Ledger!UsedRuns

LEMMA WriteKept ==
  ASSUME FakeInv, NEW p \in Proc, Write(p), UNCHANGED engVars
  PROVE  FakeInv'
  <1> USE DEF FakeInv, Write, engVars
  <1> DEFINE n == Len(claimed)
  <1>1. /\ pc' \in [Proc -> Labels] /\ pc'[p] = "unlock" /\ pc[p] = "write"
        /\ \A q \in Proc : q # p => pc'[q] = pc[q]
    BY DEF Shape, Goto, Labels, Claiming
  <1>2. lock = p /\ Agrees(seen[p])
    BY <1>1 DEF LockHeld, StoreAgrees, Claiming
  <1>3. /\ IsList(claimed') /\ Len(claimed') = n + 1 /\ n \in Nat
        /\ \A i \in 1..n : claimed'[i] = claimed[i]
        /\ claimed'[n + 1] = Claimed(p)
    <2>1. IsList(claimed)
      BY DEF Shape
    <2> QED BY <2>1, ListAppend DEF Claimed
  <1>4. /\ seq' \in [Proc -> Nat] /\ seq'[p] = n + 1
        /\ run' = [q \in Proc |-> run'[q]] /\ run'[p] = Picked(p)
        /\ \A q \in Proc : q # p => seq'[q] = seq[q] /\ run'[q] = run[q]
    <2>1. seen[p].calls + 1 = n + 1 /\ n + 1 \in Nat
      BY <1>2, <1>3 DEF Agrees
    <2> QED BY <2>1 DEF Shape
  <1>5. Shape'
    BY <1>1, <1>3, <1>4 DEF Shape
  <1>6. LockHeld'
    BY <1>1 DEF LockHeld, Claiming
  <1>7. Agrees(WithPicked(p))'
    <2>1. Ledger!UsedRuns(claimed') = Ledger!UsedRuns(claimed) \union {Picked(p)}
      BY UsedByClaim
    <2>2. WithPicked(p)' = WithPicked(p)
      BY DEF WithPicked, Picked, Ledger!FirstEligible, Ledger!Eligible
    <2>3. WithPicked(p).calls = Len(claimed')
      BY <1>2, <1>3 DEF WithPicked, Agrees
    <2>4. ASSUME NEW i \in DOMAIN scenario.runs, ~scenario.runs[i].repeat
          PROVE  i \in WithPicked(p).used <=> i \in Ledger!UsedRuns(claimed')
      <3>1. i # NoRun
        BY ScenarioAssumption DEF Shape, NoRun, Ledger!NoRun
      <3>2. i \in seen[p].used <=> i \in Ledger!UsedRuns(claimed)
        BY <1>2, <2>4 DEF Agrees
      <3> QED BY <2>1, <2>4, <3>1, <3>2 DEF WithPicked
    <2> QED BY <2>2, <2>3, <2>4 DEF Agrees
  <1>8. StoreAgrees'
    <2>1. store' = [form |-> "whole", state |-> WithPicked(p)]
      BY DEF Whole
    <2>2. \A q \in Proc : pc'[q] \notin {"save", "write"}
      BY <1>1, <1>2 DEF LockHeld, Claiming
    <2>3. WithPicked(p)' = WithPicked(p)
      BY DEF WithPicked, Picked, Ledger!FirstEligible, Ledger!Eligible
    <2> QED BY <1>7, <2>1, <2>2, <2>3 DEF StoreAgrees, Agrees
  <1>9. Numbered'
    <2>1. \A q \in Proc : seq'[q] <= Len(claimed')
      BY <1>3, <1>4 DEF Numbered, Shape
    <2>2. \A q, r \in Proc : q # r /\ seq'[q] = seq'[r] => seq'[q] = 0
      BY <1>3, <1>4 DEF Numbered, Shape
    <2>3. ASSUME NEW q \in Proc, seq'[q] # 0
          PROVE  claimed'[seq'[q]] = [args |-> args'[q], run |-> run'[q]]
      <3>1. CASE q = p
        BY <3>1, <1>3, <1>4 DEF Claimed
      <3>2. CASE q # p
        <4>1. seq[q] \in 1..n
          BY <2>3, <3>2, <1>3, <1>4 DEF Numbered, Shape
        <4> QED BY <2>3, <3>2, <4>1, <1>3, <1>4 DEF Numbered
      <3> QED BY <3>1, <3>2
    <2>4. \A q \in Proc : pc'[q] = "idle" => seq'[q] = 0
      BY <1>1, <1>4 DEF Numbered
    <2>5. \A q \in Proc : pc'[q] \in {"unlock"} \union Recording => seq'[q] # 0
      BY <1>1, <1>3, <1>4 DEF Numbered
    <2> QED BY <2>1, <2>2, <2>3, <2>4, <2>5 DEF Numbered
  <1>10. Filed' /\ Handled'
    <2>1. FiledAt(p)'
      BY <1>1 DEF Filed, FiledAt, Claiming, Late, Serving, Ended
    <2>2. Filed'
      BY <1>1, <1>4, <2>1, FiledKept
    <2> QED BY <1>1, <2>2 DEF Handled, Serving, Ended
  <1> QED BY <1>5, <1>6, <1>8, <1>9, <1>10

LEMMA UnlockKept ==
  ASSUME FakeInv, NEW p \in Proc, Unlock(p), UNCHANGED engVars
  PROVE  FakeInv'
  <1> USE DEF FakeInv, Unlock, engVars
  <1>1. Elsewhere(p) /\ pc'[p] = "temp" /\ pc[p] = "unlock"
    BY DEF Elsewhere, Shape, Goto, Labels, Recording
  <1>2. Shape'
    BY <1>1 DEF Shape, Elsewhere
  <1>3. LockHeld'
    BY <1>1 DEF LockHeld, Elsewhere, Claiming
  <1>4. StoreAgrees'
    BY <1>1 DEF StoreAgrees, Agrees, Elsewhere, Ledger!UsedRuns
  <1>5. Numbered'
    BY <1>1 DEF Numbered, Elsewhere, Recording
  <1>6. Filed' /\ Handled'
    <2>1. FiledAt(p)'
      BY <1>1 DEF Filed, FiledAt, Elsewhere, Claiming, Late, Serving, Ended
    <2>2. Filed'
      BY <1>1, <2>1, FiledKept DEF Elsewhere
    <2> QED BY <1>1, <2>2 DEF Handled, Elsewhere, Serving, Ended
  <1> QED BY <1>2, <1>3, <1>4, <1>5, <1>6

LEMMA CreateTempKept ==
  ASSUME FakeInv, NEW p \in Proc, CreateTemp(p), UNCHANGED engVars
  PROVE  FakeInv'
  <1> USE DEF FakeInv, CreateTemp, claimVars, engVars
  <1>1. Elsewhere(p) /\ pc'[p] = "start" /\ pc[p] = "temp"
    BY DEF Elsewhere, Shape, Goto, Labels, Recording
  <1>2. Shape'
    BY <1>1 DEF Shape, Elsewhere
  <1>3. LockHeld'
    BY <1>1 DEF LockHeld, Elsewhere, Claiming
  <1>4. StoreAgrees'
    BY <1>1 DEF StoreAgrees, Agrees, Elsewhere, Ledger!UsedRuns
  <1>5. Numbered'
    BY <1>1 DEF Numbered, Elsewhere, Recording
  <1>6. Filed' /\ Handled'
    <2>1. FiledAt(p)'
      BY <1>1 DEF Filed, FiledAt, Elsewhere, Claiming, Late, Serving, Ended
    <2>2. Filed'
      BY <1>1, <2>1, FiledKept DEF Elsewhere
    <2> QED BY <1>1, <2>2 DEF Handled, Elsewhere, Serving, Ended
  <1> QED BY <1>2, <1>3, <1>4, <1>5, <1>6

LEMMA WriteStartKept ==
  ASSUME FakeInv, NEW p \in Proc, WriteStart(p), UNCHANGED engVars
  PROVE  FakeInv'
  <1> USE DEF FakeInv, WriteStart, Writes, claimVars, engVars
  <1>1. /\ pc' \in [Proc -> Labels] /\ pc'[p] = "link" /\ pc[p] = "start"
        /\ \A q \in Proc : q # p => pc'[q] = pc[q]
    BY DEF Shape, Goto, Labels, Recording
  <1>2. /\ file' = [q \in Proc |-> file'[q]] /\ file'[p] = <<StartRecord(p)>>
        /\ \A q \in Proc : q # p => file'[q] = file[q]
    <2>1. file[p] = <<>>
      BY <1>1 DEF Filed, FiledAt
    <2>2. /\ file' = [q \in Proc |-> file'[q]] /\ file'[p] = Append(file[p], StartRecord(p))
          /\ \A q \in Proc : q # p => file'[q] = file[q]
      BY DEF Shape
    <2>3. Append(<<>>, StartRecord(p)) = <<StartRecord(p)>>
      OBVIOUS
    <2> QED BY <2>1, <2>2, <2>3
  <1>3. IsList(<<StartRecord(p)>>)
    <2>1. IsList(Append(<<>>, StartRecord(p)))
      BY ListEmpty, ListAppend
    <2> QED BY <2>1
  <1>4. Shape'
    BY <1>1, <1>2, <1>3 DEF Shape
  <1>5. LockHeld'
    BY <1>1 DEF LockHeld, Claiming
  <1>6. StoreAgrees'
    BY <1>1 DEF StoreAgrees, Agrees, Ledger!UsedRuns
  <1>7. Numbered'
    BY <1>1 DEF Numbered, Recording
  <1>8. Filed' /\ Handled'
    <2>1. StartRecord(p)' = StartRecord(p)
      BY DEF StartRecord, Record
    <2>2. FiledAt(p)'
      BY <1>1, <1>2, <2>1 DEF Filed, FiledAt, Claiming, Late, Serving, Ended
    <2>3. Filed'
      BY <1>1, <1>2, <2>2, FiledKept
    <2> QED BY <1>1, <2>3 DEF Handled, Serving, Ended
  <1> QED BY <1>4, <1>5, <1>6, <1>7, <1>8

LEMMA LinkKept ==
  ASSUME FakeInv, NEW p \in Proc, Link(p), UNCHANGED engVars
  PROVE  FakeInv'
  <1> USE DEF FakeInv, Link, claimVars, engVars
  <1>1. /\ pc' \in [Proc -> Labels] /\ pc'[p] \in {"refuse", "handler"} /\ pc[p] = "link"
        /\ \A q \in Proc : q # p => pc'[q] = pc[q]
    BY DEF Shape, Goto, Labels, Recording, Serving
  <1>2. Shape'
    BY <1>1 DEF Shape
  <1>3. LockHeld'
    BY <1>1 DEF LockHeld, Claiming
  <1>4. StoreAgrees'
    BY <1>1 DEF StoreAgrees, Agrees, Ledger!UsedRuns
  <1>5. Numbered'
    BY <1>1 DEF Numbered, Recording
  <1>6. Filed' /\ Handled'
    <2>1. StartRecord(p)' = StartRecord(p)
      BY DEF StartRecord, Record
    <2>2. file[p] = <<StartRecord(p)>> /\ seq[p] # 0
      BY <1>1 DEF Filed, FiledAt, Numbered, Recording
    <2>3. FiledAt(p)'
      BY <1>1, <2>1, <2>2 DEF FiledAt, Claiming, Late, Serving
    <2>4. Filed'
      BY <1>1, <2>3, FiledKept
    <2> QED BY <1>1, <2>4 DEF Handled, Serving, Ended
  <1> QED BY <1>2, <1>3, <1>4, <1>5, <1>6

-----------------------------------------------------------------------------
(* The run, its reader and its signals come after the link.                *)

LEMMA EngineKept ==
  ASSUME FakeInv, NEW p \in Proc, EngineStep(p)
  PROVE  FakeInv'
  <1>1. pc[p] \in {"handler", "serve"}
    BY DEF EngineStep, InstallHandler, Output, RecvMatches, RecvSkips, RecvOther, RecvFails,
           RecvText, EchoLine, DrainLine, Passes, RunEnds, Plays, Playing
  <1>2. CASE InstallHandler(p)
    <2>1. LateStep(p)
      BY <1>2 DEF InstallHandler, Goto, LateStep, FakeInv, Shape, Serving, claimVars
    <2> QED BY <1>1, <2>1, LateKept DEF Late, Serving
  <1>3. CASE GoesOn /\ (file' = file \/ \E r : Writes(p, r))
    <2>1. LateStep(p)
      BY <1>1, <1>3 DEF GoesOn, aside, claimVars, LateStep, FakeInv, Shape, Serving
    <2> QED BY <1>1, <2>1, LateKept DEF Late, Serving
  <1>4. CASE RecvFails(p) \/ RunEnds(p)
    <2>1. /\ \E status : Finishes(p, status)
          /\ UNCHANGED aside /\ (file' = file \/ \E r : Writes(p, r))
      BY <1>4 DEF RecvFails, RunEnds
    <2>2. LateStep(p)
      BY <2>1 DEF Finishes, Goto, aside, claimVars, LateStep, FakeInv, Shape, Serving
    <2> QED BY <1>1, <2>2, LateKept DEF Late, Serving
  <1>5. CASE \/ Output(p) \/ RecvMatches(p) \/ RecvSkips(p) \/ RecvOther(p)
             \/ RecvText(p) \/ EchoLine(p) \/ DrainLine(p) \/ Passes(p)
    <2>1. GoesOn
      BY <1>5 DEF Output, RecvMatches, RecvSkips, RecvOther, RecvText, EchoLine, DrainLine, Passes
    <2>2. file' = file \/ \E r : Writes(p, r)
      BY <1>5 DEF Output, RecvMatches, RecvSkips, RecvOther, RecvText, EchoLine, DrainLine, Passes
    <2> QED BY <1>3, <2>1, <2>2
  <1> QED BY <1>2, <1>4, <1>5 DEF EngineStep

LEMMA ReaderKept ==
  ASSUME FakeInv, NEW p \in Proc, ReaderStep(p)
  PROVE  FakeInv'
  <1>1. pc[p] \in Serving
    BY DEF ReaderStep, ReadLine, RecordLine, HandOn, ReadEnds, Alive
  <1>2. GoesOn /\ (file' = file \/ \E r : Writes(p, r))
    BY DEF ReaderStep, ReadLine, RecordLine, HandOn, ReadEnds
  <1>3. LateStep(p)
    BY <1>1, <1>2 DEF GoesOn, aside, claimVars, LateStep, FakeInv, Shape
  <1> QED BY <1>1, <1>3, LateKept DEF Late

LEMMA HandlerKept ==
  ASSUME FakeInv, NEW p \in Proc, HandlerStep(p)
  PROVE  FakeInv'
  <1>1. pc[p] \in Serving \union Ended
    BY DEF HandlerStep, RecordSignal, RecordSignalExit, ExitOnSignal, FakeInv, Handled
  <1>2. CASE RecordSignal(p) \/ RecordSignalExit(p)
    <2>1. \E t, r : /\ Writes(p, r) /\ term' = [term EXCEPT ![p] = t]
                    /\ UNCHANGED <<beside, pc>>
      BY <1>2 DEF RecordSignal, RecordSignalExit
    <2>2. LateStep(p)
      BY <1>1, <2>1 DEF beside, claimVars, LateStep, FakeInv, Shape
    <2> QED BY <1>1, <2>2, LateKept DEF Late
  <1>3. CASE ExitOnSignal(p)
    <2>1. LateStep(p)
      BY <1>3 DEF ExitOnSignal, Leaves, Goto, beside, claimVars, LateStep, FakeInv, Shape, Ended
    <2> QED BY <1>1, <2>1, LateKept DEF Late
  <1> QED BY <1>2, <1>3 DEF HandlerStep

LEMMA DiesKept ==
  ASSUME FakeInv, NEW p \in Proc, pc[p] # "idle", Dies(p), UNCHANGED term
  PROVE  FakeInv'
  <1>1. CASE UNCHANGED file
    <2>1. EndStep(p)
      BY <1>1 DEF Dies, Goto, EndStep, Ended
    <2> QED BY <2>1, EndKept
  <1>2. CASE pc[p] \in {"refuse"} \union Serving /\ Writes(p, Record("torn", ""))
    <2>1. LateStep(p)
      BY <1>2 DEF Dies, Goto, LateStep, Ended, FakeInv, Shape
    <2> QED BY <1>2, <2>1, LateKept DEF Late
  <1> QED BY <1>1, <1>2 DEF Dies

LEMMA CallKept ==
  ASSUME FakeInv, NEW p \in Proc, CallStep(p), UNCHANGED engVars
  PROVE  FakeInv'
  <1>1. CASE LockTimesOut(p) \/ LoadFails(p)
    <2>1. pc[p] # "idle" /\ EndStep(p)
      <3>1. CASE LockTimesOut(p)
        BY <3>1 DEF LockTimesOut, Leaves, Goto, EndStep, Ended, claimVars, engVars
      <3>2. CASE LoadFails(p)
        BY <3>2 DEF LoadFails, Leaves, Goto, EndStep, Ended, engVars, FakeInv, LockHeld, Claiming
      <3> QED BY <1>1, <3>1, <3>2
    <2> QED BY <2>1, EndKept
  <1>2. CASE Refuse(p) \/ RecordExit(p) \/ Exit(p)
    <2>1. pc[p] \in Late /\ LateStep(p)
      BY <1>2 DEF Refuse, RecordExit, Exit, Leaves, Goto, Late, Serving, Ended, LateStep,
                  claimVars, engVars, FakeInv, Shape
    <2> QED BY <2>1, LateKept
  <1> QED BY <1>1, <1>2, LockKept, LoadKept, TruncateKept, WriteKept, UnlockKept,
             CreateTempKept, WriteStartKept, LinkKept DEF CallStep

LEMMA ClientKept ==
  ASSUME FakeInv, NEW p \in Proc, Send(p) \/ CloseStdin(p) \/ Terminate(p)
  PROVE  FakeInv'
  <1>1. CASE UNCHANGED callVars /\ UNCHANGED term
    BY <1>1 DEF callVars, claimVars, FakeInv, Shape, LockHeld, StoreAgrees, Agrees, Numbered,
                Filed, FiledAt, Handled, StartRecord, Record, Ledger!UsedRuns
  <1>2. CASE Terminate(p)
    <2>1. CASE term[p] = "off"
      BY <1>2, <2>1, DiesKept DEF Terminate, Running
    <2>2. CASE term[p] # "off"
      <3>1. pc[p] \in Late /\ LateStep(p)
        BY <1>2, <2>2 DEF Terminate, claimVars, Late, LateStep, FakeInv, Shape, Handled
      <3> QED BY <3>1, LateKept
    <2> QED BY <2>1, <2>2
  <1> QED BY <1>1, <1>2 DEF Send, CloseStdin

LEMMA NextFake == FakeInv /\ [Next]_vars => FakeInv'
  <1> SUFFICES ASSUME FakeInv, [Next]_vars PROVE FakeInv'
    OBVIOUS
  <1>1. CASE UNCHANGED vars
    BY <1>1 DEF vars, callVars, engVars, claimVars, FakeInv, Shape, LockHeld, StoreAgrees, Agrees,
                Numbered, Filed, FiledAt, Handled, StartRecord, Record, Ledger!UsedRuns
  <1>2. ASSUME NEW p \in Proc, (Invoke(p) \/ Kill(p)) /\ UNCHANGED engVars
        PROVE  FakeInv'
    <2>1. CASE Kill(p)
      BY <1>2, <2>1, DiesKept DEF Kill, Running, engVars
    <2> QED BY <1>2, <2>1, InvokeKept
  <1>3. ASSUME NEW p \in Proc, ProcessStep(p)
        PROVE  FakeInv'
    BY <1>3, CallKept, EngineKept, ReaderKept, HandlerKept DEF ProcessStep
  <1> QED BY <1>1, <1>2, <1>3, ClientKept DEF Next

-----------------------------------------------------------------------------
(* The results.                                                            *)

LEMMA FakeInvariant == Spec => []FakeInv
  BY InitFake, NextFake, PTL DEF Spec

\* However many fakes start at once and wherever they are killed, a call file
\* a test can see opens with its start record and says of the claim what the
\* ledger says (CallsStartComplete).
THEOREM StartRecords == Spec => []CallsStartComplete
  <1>1. FakeInv => CallsStartComplete
    <2> SUFFICES ASSUME FakeInv, NEW p \in linked
                 PROVE  /\ file[p] # <<>> /\ file[p][1] = StartRecord(p)
                        /\ seq[p] \in DOMAIN claimed
                        /\ claimed[seq[p]] = [args |-> args[p], run |-> run[p]]
      BY DEF CallsStartComplete
    <2>1. p \in Proc
      BY DEF FakeInv, Shape
    <2>2. file[p] # <<>> /\ file[p][1] = StartRecord(p) /\ seq[p] # 0
      BY <2>1 DEF FakeInv, Filed, FiledAt
    <2>3. seq[p] \in Nat /\ seq[p] <= Len(claimed) /\ IsList(claimed)
      BY <2>1 DEF FakeInv, Numbered, Shape
    <2>4. DOMAIN claimed = 1..Len(claimed) /\ Len(claimed) \in Nat
      BY <2>3, ListAppend
    <2> QED BY <2>1, <2>2, <2>3, <2>4 DEF FakeInv, Numbered
  <1> QED BY <1>1, FakeInvariant, PTL

\* No two invocations ever ask for the same call file (NamesAreFree): the
\* link that publishes one never fails because another took its name.
THEOREM CallNamesAreFree == Spec => []NamesAreFree
  <1>1. FakeInv => NamesAreFree
    BY DEF FakeInv, NamesAreFree, NameTaken, Numbered, Filed, FiledAt, Shape, Recording,
           Late, Serving, Ended
  <1> QED BY <1>1, FakeInvariant, PTL

\* Only Write adds to the claims.
LEMMA OnlyWriteClaims ==
  ASSUME [Next]_vars
  PROVE  scenario' = scenario /\ (claimed' = claimed \/ \E p \in Proc : Write(p))
  <1> USE DEF claimVars
  <1>1. CASE UNCHANGED vars
    BY <1>1 DEF vars, callVars
  <1>2. ASSUME NEW p \in Proc, Invoke(p) \/ Kill(p) \/ Send(p) \/ CloseStdin(p) \/ Terminate(p)
        PROVE  scenario' = scenario /\ claimed' = claimed
    BY <1>2 DEF Invoke, Kill, Dies, Send, CloseStdin, Terminate, callVars
  <1>3. ASSUME NEW p \in Proc, CallStep(p)
        PROVE  scenario' = scenario /\ (claimed' = claimed \/ Write(p))
    BY <1>3 DEF CallStep, Lock, LockTimesOut, Load, LoadFails, Truncate, Write, Unlock, CreateTemp,
                WriteStart, Link, Refuse, RecordExit, Exit
  <1>4. ASSUME NEW p \in Proc, EngineStep(p)
        PROVE  scenario' = scenario /\ claimed' = claimed
    BY <1>4 DEF EngineStep, InstallHandler, Output, RecvMatches, RecvSkips, RecvOther, RecvFails,
                RecvText, EchoLine, DrainLine, Passes, RunEnds, GoesOn, aside
  <1>5. ASSUME NEW p \in Proc, ReaderStep(p) \/ HandlerStep(p)
        PROVE  scenario' = scenario /\ claimed' = claimed
    BY <1>5 DEF ReaderStep, ReadLine, RecordLine, HandOn, ReadEnds, GoesOn, aside,
                HandlerStep, RecordSignal, RecordSignalExit, ExitOnSignal, beside
  <1> QED BY <1>1, <1>2, <1>3, <1>4, <1>5 DEF Next, ProcessStep

\* The script as the ledger sees it.
Script == [i \in DOMAIN scenario.runs |->
            [match |-> scenario.runs[i].match, repeat |-> scenario.runs[i].repeat]]

\* The run a claim picks from the state it read is the one the ledger would
\* serve next.
LEMMA WriteServes ==
  ASSUME FakeInv, NEW p \in Proc, Write(p)
  PROVE  Claimed(p) = [args |-> args[p],
           run |-> Ledger!FirstEligible(Script, Ledger!UsedRuns(claimed), args[p])]
  <1>1. Agrees(seen[p])
    BY DEF FakeInv, StoreAgrees, Write
  <1>2. DOMAIN Script = DOMAIN scenario.runs
    BY DEF Script
  <1>3. ASSUME NEW i \in DOMAIN scenario.runs
        PROVE  /\ Script[i].match = scenario.runs[i].match
               /\ Script[i].repeat = scenario.runs[i].repeat
               /\ scenario.runs[i].repeat \in BOOLEAN
    BY ScenarioAssumption DEF Script, FakeInv, Shape
  <1>4. ASSUME NEW i \in DOMAIN scenario.runs
        PROVE  (scenario.runs[i].repeat \/ i \notin seen[p].used)
                 <=> (scenario.runs[i].repeat \/ i \notin Ledger!UsedRuns(claimed))
    BY <1>1, <1>3 DEF Agrees
  <1>5. Ledger!Eligible(scenario.runs, seen[p].used, args[p])
          = Ledger!Eligible(Script, Ledger!UsedRuns(claimed), args[p])
    BY <1>2, <1>3, <1>4 DEF Ledger!Eligible
  <1> QED BY <1>5 DEF Claimed, Picked, Ledger!FirstEligible

\* However many fakes start at once and wherever one is killed, the runs they
\* claim are those of invocations served one after the other (LedgerKept).
THEOREM LedgerIsKept == Spec => LedgerKept
  <1>1. Init => Ledger!LedgerInit
    <2> SUFFICES ASSUME Init PROVE Script \in Seq(Ledger!Run) /\ claimed = <<>>
      BY DEF Ledger!LedgerInit, Script
    <2>1. /\ DOMAIN scenario.runs = 1..Len(scenario.runs) /\ Len(scenario.runs) \in Nat
          /\ \A i \in DOMAIN scenario.runs :
               scenario.runs[i].match \in SUBSET Arg /\ scenario.runs[i].repeat \in BOOLEAN
      BY ScenarioAssumption DEF Init, CallsInit
    <2>2. Script \in [1..Len(scenario.runs) -> Ledger!Run]
      BY <2>1 DEF Script, Ledger!Run
    <2> QED BY <2>1, <2>2, SeqDef, SMTT(30) DEF Init, CallsInit
  <1>2. FakeInv /\ [Next]_vars => [Ledger!LedgerNext]_(Ledger!ledgerVars)
    <2> SUFFICES ASSUME FakeInv, [Next]_vars
                 PROVE  Ledger!LedgerNext \/ (Script' = Script /\ claimed' = claimed)
      BY DEF Ledger!ledgerVars, Script
    <2>1. Script' = Script
      BY OnlyWriteClaims DEF Script
    <2>2. ASSUME NEW p \in Proc, Write(p)
          PROVE  Ledger!LedgerNext
      <3>1. claimed' = Append(claimed, Claimed(p))
        BY <2>2 DEF Write, Claimed
      <3>2. Ledger!Serve(args[p])
        BY <2>1, <2>2, <3>1, WriteServes DEF Ledger!Serve, Script
      <3>3. args[p] \in SUBSET Arg
        BY DEF FakeInv, Shape
      <3> QED BY <3>2, <3>3 DEF Ledger!LedgerNext
    <2> QED BY <2>1, <2>2, OnlyWriteClaims
  <1> QED BY <1>1, <1>2, FakeInvariant, PTL DEF Spec, LedgerKept, Ledger!LedgerSpec

\* What is picked, when there is something to pick, is eligible.
LEMMA FirstIsEligible ==
  ASSUME FakeInv, NEW used, NEW given,
         Ledger!FirstEligible(Script, used, given) # NoRun
  PROVE  Ledger!FirstEligible(Script, used, given) \in Ledger!Eligible(Script, used, given)
  <1> DEFINE e == Ledger!Eligible(Script, used, given)
  <1>1. DOMAIN scenario.runs = 1..Len(scenario.runs) /\ Len(scenario.runs) \in Nat
    BY ScenarioAssumption DEF FakeInv, Shape
  <1>2. e \in SUBSET Nat
    BY <1>1 DEF Ledger!Eligible, Script
  <1>3. e # {}
    BY DEF Ledger!FirstEligible, NoRun
  <1>4. \E i \in e : \A j \in e : i <= j
    <2>1. PICK i \in e : \A j \in e : ~ (<<j, i>> \in OpToRel(<, Nat))
      BY <1>2, <1>3, NatLessThanWellFounded, WFMin
    <2>2. \A j \in e : ~ (j < i)
      BY <1>2, <2>1 DEF OpToRel
    <2> QED BY <1>2, <2>2
  <1> QED BY <1>3, <1>4 DEF Ledger!FirstEligible

\* A run that does not repeat serves one invocation at most (RunServedOnce),
\* though the state that says what is used was read and written in two steps.
THEOREM RunsServeOnce == Spec => []Ledger!RunServedOnce
  <1>1. Init => Ledger!RunServedOnce
    BY DEF Init, CallsInit, Ledger!RunServedOnce
  <1>2. FakeInv /\ Ledger!RunServedOnce /\ [Next]_vars => Ledger!RunServedOnce'
    <2> SUFFICES ASSUME FakeInv, Ledger!RunServedOnce, [Next]_vars
                 PROVE  Ledger!RunServedOnce'
      OBVIOUS
    <2>1. scenario' = scenario
      BY OnlyWriteClaims
    <2>2. CASE claimed' = claimed
      BY <2>1, <2>2 DEF Ledger!RunServedOnce
    <2>3. ASSUME NEW p \in Proc, Write(p)
          PROVE  Ledger!RunServedOnce'
      <3> DEFINE n == Len(claimed)
                 c == Claimed(p)
      <3>1. claimed' = Append(claimed, c) /\ IsList(claimed)
        BY <2>3 DEF Write, Claimed, FakeInv, Shape
      <3>2. /\ DOMAIN claimed = 1..n /\ n \in Nat /\ DOMAIN claimed' = 1..(n + 1)
            /\ \A i \in 1..n : claimed'[i] = claimed[i]
            /\ claimed'[n + 1] = c
        BY <3>1, ListAppend
      <3>3. ASSUME NEW i \in 1..n, claimed[i].run = c.run, c.run # NoRun
            PROVE  Script[c.run].repeat
        <4>1. c.run = Ledger!FirstEligible(Script, Ledger!UsedRuns(claimed), args[p])
          BY <2>3, WriteServes
        <4>2. c.run \in Ledger!Eligible(Script, Ledger!UsedRuns(claimed), args[p])
          BY <3>3, <4>1, FirstIsEligible
        <4>3. c.run \in Ledger!UsedRuns(claimed)
          BY <3>2, <3>3 DEF Ledger!UsedRuns
        <4> QED BY <4>2, <4>3 DEF Ledger!Eligible
      <3>4. ASSUME NEW i \in DOMAIN claimed', NEW j \in DOMAIN claimed', i # j,
                   claimed'[i].run = claimed'[j].run, claimed'[i].run # NoRun
            PROVE  Script[claimed'[i].run].repeat
        <4>1. CASE i \in 1..n /\ j \in 1..n
          BY <3>2, <3>4, <4>1 DEF Ledger!RunServedOnce, Script, NoRun
        <4>2. CASE i = n + 1 /\ j \in 1..n
          BY <3>2, <3>3, <3>4, <4>2
        <4>3. CASE i \in 1..n /\ j = n + 1
          BY <3>2, <3>3, <3>4, <4>3
        <4> QED BY <3>2, <3>4, <4>1, <4>2, <4>3
      <3> QED BY <2>1, <3>4 DEF Ledger!RunServedOnce, Script, NoRun
    <2> QED BY <2>2, <2>3, OnlyWriteClaims
  <1> QED BY <1>1, <1>2, FakeInvariant, PTL DEF Spec

-----------------------------------------------------------------------------
(* What a call file tells.                                                 *)

LEMMA ToldAppend ==
  ASSUME NEW s, IsList(s), NEW e
  PROVE  /\ Told(s) \in Seq(1..Len(s))
         /\ Told(Append(s, e)) =
              IF e.kind = "stdin" THEN Append(Told(s), Len(s) + 1) ELSE Told(s)
  <1> DEFINE n == Len(s)
             t == Append(s, e)
             u == [i \in 1..n |-> i]
             S == { i \in 1..n : s[i].kind = "stdin" }
             R == { i \in 1..(n + 1) : t[i].kind = "stdin" }
  <1>1. /\ n \in Nat /\ Len(t) = n + 1 /\ t[n + 1] = e
        /\ \A i \in 1..n : t[i] = s[i]
    BY ListAppend
  <1>2. u \in Seq(1..n) /\ u \in Seq(1..(n + 1)) /\ Len(u) = n /\ \A i \in 1..n : u[i] = i
    BY <1>1
  <1>3. Told(s) = Select(u, S)
    BY DEF Told
  <1>4. Told(t) = Select([i \in 1..(n + 1) |-> i], R)
    BY <1>1 DEF Told
  <1>5. [i \in 1..(n + 1) |-> i] = Append(u, n + 1)
    <2> DEFINE v == [i \in 1..(n + 1) |-> i]
               w == Append(u, n + 1)
    <2>1. v \in Seq(Nat) /\ Len(v) = n + 1 /\ \A i \in 1..(n + 1) : v[i] = i
      BY <1>1
    <2>2. u \in Seq(Nat) /\ n + 1 \in Nat
      BY <1>1, <1>2
    <2>3. /\ w \in Seq(Nat) /\ Len(w) = n + 1 /\ w[n + 1] = n + 1
          /\ \A i \in 1..n : w[i] = u[i]
      <3>1. /\ w \in Seq(Nat) /\ Len(w) = Len(u) + 1 /\ w[Len(u) + 1] = n + 1
            /\ \A i \in 1..Len(u) : w[i] = u[i]
        BY <2>2, AppendProperties
      <3> QED BY <1>2, <3>1
    <2> HIDE DEF v, w, u
    <2>4. ASSUME NEW i \in 1..(n + 1) PROVE v[i] = w[i]
      <3>1. i \in 1..n \/ i = n + 1
        BY <1>1
      <3> QED BY <1>2, <2>1, <2>3, <3>1
    <2>5. v = w
      BY <2>1, <2>3, <2>4, SeqEqual
    <2> QED BY <2>5 DEF v, w
  <1> HIDE DEF u, n, t
  <1>6. Select(Append(u, n + 1), R) =
          IF n + 1 \in R THEN Append(Select(u, R), n + 1) ELSE Select(u, R)
    <2> DEFINE m == n + 1
               T == 1..m
    <2>1. u \in Seq(T)
      BY <1>2
    <2>2. m \in T
      BY <1>1
    <2> HIDE DEF R, m, T
    <2>3. Select(Append(u, m), R) = IF m \in R THEN Append(Select(u, R), m) ELSE Select(u, R)
      BY <2>1, <2>2, SelectAppend
    <2> QED BY <2>3 DEF m
  <1>7. Select(u, R) = Select(u, S)
    <2>1. \A i \in 1..Len(u) : u[i] \in R <=> u[i] \in S
      BY <1>1, <1>2
    <2> HIDE DEF R, S
    <2> QED BY <1>2, <2>1, SelectSame
  <1>8. n + 1 \in R <=> e.kind = "stdin"
    BY <1>1
  <1>9. Select(u, S) \in Seq(1..n)
    <2> HIDE DEF S
    <2> QED BY <1>2, SelectType
  <1>10. Told(t) = IF e.kind = "stdin" THEN Append(Select(u, S), n + 1) ELSE Select(u, S)
    <2> HIDE DEF R, S
    <2> QED BY <1>4, <1>5, <1>6, <1>7, <1>8
  <1> HIDE DEF R, S
  <1>11. Told(t) = IF e.kind = "stdin" THEN Append(Told(s), n + 1) ELSE Told(s)
    BY <1>3, <1>10
  <1>12. Told(s) \in Seq(1..n)
    BY <1>3, <1>9
  <1> QED BY <1>11, <1>12 DEF n, t

\* The call file tells of the first n lines sent.
Tells(records, sent, n) ==
  /\ Len(Told(records)) = n
  /\ \A k \in 1..n : records[Told(records)[k]].what = sent[k]

LEMMA TellsNothing == ASSUME NEW sent PROVE Tells(<<>>, sent, 0)
  <1>1. [i \in 1..0 |-> i] = <<>> /\ Len(<<>>) = 0
    OBVIOUS
  <1>2. Told(<<>>) = Select(<<>>, { i \in 1..Len(<<>>) : <<>>[i].kind = "stdin" })
    BY <1>1 DEF Told
  <1>3. Told(<<>>) = <<>>
    BY <1>2, SelectEmpty
  <1> QED BY <1>1, <1>3 DEF Tells

LEMMA TellsOther ==
  ASSUME NEW s, IsList(s), NEW r, r.kind # "stdin", NEW sent, NEW n \in Nat, Tells(s, sent, n)
  PROVE  Tells(Append(s, r), sent, n)
  <1> DEFINE t == Append(s, r)
  <1>1. Told(t) = Told(s) /\ Told(s) \in Seq(1..Len(s)) /\ Len(Told(s)) = n
    BY ToldAppend DEF Tells
  <1>2. \A i \in 1..Len(s) : t[i] = s[i]
    BY ListAppend
  <1>3. \A k \in 1..n : Told(s)[k] \in 1..Len(s)
    BY <1>1, ElementOfSeq
  <1> HIDE DEF t
  <1>4. Tells(t, sent, n)
    BY <1>1, <1>2, <1>3 DEF Tells
  <1> QED BY <1>4 DEF t

LEMMA TellsMore ==
  ASSUME NEW s, IsList(s), NEW sent, NEW n \in Nat, Tells(s, sent, n)
  PROVE  Tells(Append(s, Record("stdin", sent[n + 1])), sent, n + 1)
  <1> DEFINE r == Record("stdin", sent[n + 1])
             t == Append(s, r)
  <1>1. r.kind = "stdin" /\ r.what = sent[n + 1]
    BY DEF Record
  <1> HIDE DEF r
  <1>2. Told(t) = Append(Told(s), Len(s) + 1) /\ Told(s) \in Seq(1..Len(s)) /\ Len(Told(s)) = n
    BY <1>1, ToldAppend DEF Tells
  <1>3. (\A i \in 1..Len(s) : t[i] = s[i]) /\ t[Len(s) + 1] = r /\ Len(s) \in Nat
    BY ListAppend
  <1> HIDE DEF t
  <1>4. \A k \in 1..n : Told(s)[k] \in 1..Len(s)
    BY <1>2, ElementOfSeq
  <1>5. /\ Len(Told(t)) = n + 1 /\ Told(t)[n + 1] = Len(s) + 1
        /\ \A k \in 1..n : Told(t)[k] = Told(s)[k]
    <2>1. Told(s) \in Seq(Nat) /\ Len(s) + 1 \in Nat
      BY <1>2, <1>3, <1>4
    <2>2. /\ Len(Append(Told(s), Len(s) + 1)) = Len(Told(s)) + 1
          /\ Append(Told(s), Len(s) + 1)[Len(Told(s)) + 1] = Len(s) + 1
          /\ \A k \in 1..Len(Told(s)) : Append(Told(s), Len(s) + 1)[k] = Told(s)[k]
      BY <2>1, AppendProperties
    <2> QED BY <1>2, <2>2
  <1>6. ASSUME NEW k \in 1..(n + 1) PROVE t[Told(t)[k]].what = sent[k]
    <2>1. CASE k = n + 1
      BY <1>1, <1>3, <1>5, <2>1
    <2>2. CASE k # n + 1
      <3>1. k \in 1..n
        BY <2>2
      <3>2. s[Told(s)[k]].what = sent[k]
        BY <3>1 DEF Tells
      <3> QED BY <1>3, <1>4, <1>5, <3>1, <3>2
    <2> QED BY <2>1, <2>2
  <1>7. Tells(t, sent, n + 1)
    BY <1>5, <1>6 DEF Tells
  <1> QED BY <1>7 DEF t, r

LEMMA TellsLonger ==
  ASSUME NEW s, NEW sent, NEW other, NEW n \in Nat, Tells(s, sent, n),
         \A k \in 1..n : other[k] = sent[k]
  PROVE  Tells(s, other, n)
  BY DEF Tells

-----------------------------------------------------------------------------
(* The lines between the reader and the engine.                            *)

\* Of the lines sent, some are read; the engine has dealt with the first d of those, and
\* the rest wait in order: pushed back, in the channel, in the reader's hand.
Waiting(d, pending, lines, hold, sent, read) ==
  /\ pending \in Seq(Frames) /\ lines \in Seq(Frames) /\ hold \in Seq(Frames)
  /\ sent \in Seq(Frames) /\ d \in Nat /\ read \in Nat
  /\ read <= Len(sent) /\ Len(pending) <= 1
  /\ read = d + Len(pending) + Len(lines) + Len(hold)
  /\ \A k \in 1..Len(pending) : pending[k] = sent[d + k]
  /\ \A k \in 1..Len(lines) : lines[k] = sent[d + Len(pending) + k]
  /\ \A k \in 1..Len(hold) : hold[k] = sent[d + Len(pending) + Len(lines) + k]

LEMMA WaitingTypes ==
  ASSUME NEW d, NEW pending, NEW lines, NEW hold, NEW sent, NEW read,
         Waiting(d, pending, lines, hold, sent, read)
  PROVE  /\ Len(pending) \in Nat /\ Len(lines) \in Nat /\ Len(hold) \in Nat
         /\ Len(sent) \in Nat /\ d \in Nat /\ read \in Nat /\ d <= read
         /\ \A k \in 1..Len(sent) : sent[k] \in Frames
  <1> DEFINE a == Len(pending)
             b == Len(lines)
             c == Len(hold)
  <1>1. a \in Nat /\ b \in Nat /\ c \in Nat /\ Len(sent) \in Nat
    BY LenProperties DEF Waiting
  <1>2. d \in Nat /\ read \in Nat /\ read = d + a + b + c
    BY DEF Waiting
  <1>3. \A k \in 1..Len(sent) : sent[k] \in Frames
    BY ElementOfSeq DEF Waiting
  <1> HIDE DEF a, b, c
  <1>4. d <= read
    BY <1>1, <1>2
  <1> QED BY <1>1, <1>2, <1>3, <1>4 DEF a, b, c

LEMMA EmptyFrames == <<>> \in Seq(Frames) /\ Len(<<>>) = 0
  BY EmptySeq

\* The line that was pushed back is taken.
LEMMA TakesBack ==
  ASSUME NEW d, NEW pending, NEW lines, NEW hold, NEW sent, NEW read,
         Waiting(d, pending, lines, hold, sent, read), pending # <<>>
  PROVE  /\ Waiting(d + 1, <<>>, lines, hold, sent, read)
         /\ Head(pending \o lines) = sent[d + 1]
  <1> DEFINE a == Len(pending)
             z == <<>>
             v == Len(z)
  <1>1. a \in Nat /\ d \in Nat /\ Len(lines) \in Nat /\ Len(hold) \in Nat
    BY WaitingTypes
  <1>2. pending \in Seq(Frames) /\ lines \in Seq(Frames) /\ a <= 1
    BY DEF Waiting
  <1>3. a # 0
    BY <1>2, EmptySeq
  <1>5. z \in Seq(Frames) /\ v = 0
    BY EmptyFrames
  <1> HIDE DEF a, z, v
  <1>4. a = 1
    BY <1>1, <1>2, <1>3
  <1>6. pending[1] = sent[d + 1]
    BY <1>4 DEF Waiting, a
  <1>7. /\ (pending \o lines) \in Seq(Frames) /\ Len(pending \o lines) = a + Len(lines)
        /\ (pending \o lines)[1] = pending[1]
    <2>1. /\ pending \o lines \in Seq(Frames) /\ Len(pending \o lines) = a + Len(lines)
          /\ \A k \in 1..a + Len(lines) :
               (pending \o lines)[k] = IF k <= a THEN pending[k] ELSE lines[k - a]
      BY <1>2, ConcatProperties DEF a
    <2> QED BY <1>1, <1>4, <2>1
  <1>8. Head(pending \o lines) = sent[d + 1]
    BY <1>6, <1>7
  <1> DEFINE b == Len(lines)
             c == Len(hold)
             e == d + 1
  <1>9. b \in Nat /\ c \in Nat /\ e \in Nat /\ e = d + 1
    BY <1>1
  <1>10. /\ read = d + a + b + c
         /\ \A k \in 1..b : lines[k] = sent[d + a + k]
         /\ \A k \in 1..c : hold[k] = sent[d + a + b + k]
    BY DEF Waiting, a
  <1> HIDE DEF b, c, e
  <1>11. read = e + v + b + c
    BY <1>1, <1>4, <1>5, <1>9, <1>10
  <1>12. \A k \in 1..v : z[k] = sent[e + k]
    BY <1>5
  <1>13. \A k \in 1..b : lines[k] = sent[e + v + k]
    BY <1>1, <1>4, <1>5, <1>9, <1>10
  <1>14. \A k \in 1..c : hold[k] = sent[e + v + b + k]
    BY <1>1, <1>4, <1>5, <1>9, <1>10
  <1>15. Waiting(e, z, lines, hold, sent, read)
    BY <1>5, <1>9, <1>11, <1>12, <1>13, <1>14 DEF Waiting, v, b, c
  <1> QED BY <1>8, <1>15 DEF e, z

\* The first line of the channel is taken.
LEMMA TakesLine ==
  ASSUME NEW d, NEW lines, NEW hold, NEW sent, NEW read,
         Waiting(d, <<>>, lines, hold, sent, read), lines # <<>>
  PROVE  /\ Waiting(d + 1, <<>>, Tail(lines), hold, sent, read)
         /\ Head(<<>> \o lines) = sent[d + 1]
  <1> DEFINE z == <<>>
             v == Len(z)
             b == Len(lines)
             c == Len(hold)
             e == d + 1
             t == Tail(lines)
             w == Len(t)
  <1>1. z \in Seq(Frames) /\ v = 0
    BY EmptyFrames
  <1>2. lines \in Seq(Frames) /\ b \in Nat /\ c \in Nat /\ d \in Nat /\ b # 0
    <2>1. lines \in Seq(Frames)
      BY DEF Waiting
    <2>2. b \in Nat /\ c \in Nat /\ d \in Nat
      BY WaitingTypes
    <2>3. b # 0
      BY <2>1, EmptySeq
    <2> QED BY <2>1, <2>2, <2>3
  <1>3. /\ t \in Seq(Frames) /\ w = b - 1 /\ Head(lines) = lines[1]
        /\ \A k \in 1..w : t[k] = lines[k + 1]
    BY <1>2, HeadTailProperties
  <1>4. z \o lines = lines
    BY <1>2, ConcatEmptySeq
  <1>5. e \in Nat /\ e = d + 1
    BY <1>2
  <1>6. /\ read = d + v + b + c
        /\ \A k \in 1..b : lines[k] = sent[d + v + k]
        /\ \A k \in 1..c : hold[k] = sent[d + v + b + k]
    BY DEF Waiting
  <1>7. Waiting(d, z, lines, hold, sent, read)
    OBVIOUS
  <1> HIDE DEF z, v, b, c, e, t, w
  <1>8. lines[1] = sent[d + 1]
    BY <1>1, <1>2, <1>6
  <1>9. Head(z \o lines) = sent[d + 1]
    BY <1>3, <1>4, <1>8
  <1>10. read = e + v + w + c
    BY <1>1, <1>2, <1>3, <1>5, <1>6
  <1>11. ASSUME NEW k \in 1..w PROVE t[k] = sent[e + v + k]
    <2>1. k + 1 \in 1..b /\ d + v + (k + 1) = e + v + k
      BY <1>1, <1>2, <1>3, <1>5
    <2> QED BY <1>3, <1>6, <2>1
  <1>12. \A k \in 1..c : hold[k] = sent[e + v + w + k]
    <2>1. e + v + w = d + v + b
      BY <1>1, <1>2, <1>3, <1>5
    <2> QED BY <1>6, <2>1
  <1>13. Waiting(e, z, t, hold, sent, read)
    BY <1>1, <1>3, <1>5, <1>7, <1>10, <1>11, <1>12 DEF Waiting, v, w, c
  <1> QED BY <1>9, <1>13 DEF e, z, t

\* The line just taken is pushed back.
LEMMA PutsBack ==
  ASSUME NEW d \in Nat, NEW lines, NEW hold, NEW sent, NEW read,
         Waiting(d + 1, <<>>, lines, hold, sent, read)
  PROVE  Waiting(d, <<sent[d + 1]>>, lines, hold, sent, read)
  <1> DEFINE z == <<>>
             v == Len(z)
             b == Len(lines)
             c == Len(hold)
             e == d + 1
             s == <<sent[d + 1]>>
             u == Len(s)
             n == Len(sent)
  <1>1. z \in Seq(Frames) /\ v = 0
    BY EmptyFrames
  <1>2. Waiting(e, z, lines, hold, sent, read)
    OBVIOUS
  <1>3. e \in Nat /\ e = d + 1
    OBVIOUS
  <1> HIDE DEF z, e
  <1>4. b \in Nat /\ c \in Nat /\ n \in Nat /\ e <= read /\ read \in Nat
        /\ \A k \in 1..n : sent[k] \in Frames
    BY <1>2, WaitingTypes
  <1>5. /\ read = e + v + b + c /\ read <= n
        /\ \A k \in 1..b : lines[k] = sent[e + v + k]
        /\ \A k \in 1..c : hold[k] = sent[e + v + b + k]
    BY <1>2 DEF Waiting
  <1>6. s \in Seq(Frames) /\ u = 1 /\ s[1] = sent[d + 1]
    <2>1. d + 1 \in 1..n
      BY <1>3, <1>4, <1>5
    <2> QED BY <1>4, <2>1
  <1> HIDE DEF s, u, v, b, c
  <1>7. read = d + u + b + c
    BY <1>1, <1>3, <1>4, <1>5, <1>6
  <1>8. /\ \A k \in 1..b : lines[k] = sent[d + u + k]
        /\ \A k \in 1..c : hold[k] = sent[d + u + b + k]
    <2>1. d + u = e + v
      BY <1>1, <1>3, <1>6
    <2> QED BY <1>5, <2>1
  <1>9. \A k \in 1..u : s[k] = sent[d + k]
    BY <1>6
  <1>10. u <= 1
    BY <1>6
  <1>11. Waiting(d, s, lines, hold, sent, read)
    BY <1>2, <1>6, <1>7, <1>8, <1>9, <1>10 DEF Waiting, u, b, c
  <1> QED BY <1>11 DEF s

\* The reader takes the next line.
LEMMA TakesUp ==
  ASSUME NEW d, NEW pending, NEW lines, NEW sent, NEW read,
         Waiting(d, pending, lines, <<>>, sent, read), read < Len(sent)
  PROVE  Waiting(d, pending, lines, <<sent[read + 1]>>, sent, read + 1)
  <1> DEFINE z == <<>>
             v == Len(z)
             a == Len(pending)
             b == Len(lines)
             s == <<sent[read + 1]>>
             u == Len(s)
             m == read + 1
             n == Len(sent)
  <1>1. z \in Seq(Frames) /\ v = 0
    BY EmptyFrames
  <1>2. Waiting(d, pending, lines, z, sent, read)
    OBVIOUS
  <1> HIDE DEF z
  <1>3. a \in Nat /\ b \in Nat /\ n \in Nat /\ read \in Nat /\ d \in Nat /\ read < n
        /\ \A k \in 1..n : sent[k] \in Frames
    BY <1>2, WaitingTypes
  <1>4. read = d + a + b + v
    BY <1>2 DEF Waiting
  <1>5. m \in Nat /\ m = read + 1
    BY <1>3
  <1>6. s \in Seq(Frames) /\ u = 1 /\ s[1] = sent[m]
    <2>1. read + 1 \in 1..n
      BY <1>3
    <2> QED BY <1>3, <2>1
  <1> HIDE DEF v, a, b, s, u, m, n
  <1>7. m = d + a + b + u /\ m <= n
    BY <1>1, <1>3, <1>4, <1>5, <1>6
  <1>8. ASSUME NEW k \in 1..u PROVE s[k] = sent[d + a + b + k]
    <2>1. k = 1
      BY <1>6
    <2>2. d + a + b + k = m
      BY <1>6, <1>7, <2>1
    <2> QED BY <1>6, <2>1, <2>2
  <1>9. Waiting(d, pending, lines, s, sent, m)
    BY <1>2, <1>5, <1>6, <1>7, <1>8 DEF Waiting, a, b, u, n
  <1> QED BY <1>9 DEF s, m

\* The reader puts the line in the channel.
LEMMA HandsOn ==
  ASSUME NEW d, NEW pending, NEW lines, NEW hold, NEW sent, NEW read,
         Waiting(d, pending, lines, hold, sent, read)
  PROVE  Waiting(d, pending, lines \o hold, <<>>, sent, read)
  <1> DEFINE z == <<>>
             v == Len(z)
             a == Len(pending)
             b == Len(lines)
             c == Len(hold)
             t == lines \o hold
             w == Len(t)
  <1>1. z \in Seq(Frames) /\ v = 0
    BY EmptyFrames
  <1>2. a \in Nat /\ b \in Nat /\ c \in Nat /\ d \in Nat
    BY WaitingTypes
  <1>3. lines \in Seq(Frames) /\ hold \in Seq(Frames)
    BY DEF Waiting
  <1>4. /\ t \in Seq(Frames) /\ w = b + c
        /\ \A k \in 1..b + c : t[k] = IF k <= b THEN lines[k] ELSE hold[k - b]
    BY <1>3, ConcatProperties
  <1>5. /\ read = d + a + b + c
        /\ \A k \in 1..b : lines[k] = sent[d + a + k]
        /\ \A k \in 1..c : hold[k] = sent[d + a + b + k]
    BY DEF Waiting
  <1> HIDE DEF z, v, a, b, c, t, w
  <1>6. read = d + a + w + v
    BY <1>1, <1>2, <1>4, <1>5
  <1>7. ASSUME NEW k \in 1..w PROVE t[k] = sent[d + a + k]
    <2>1. CASE k <= b
      <3>1. k \in 1..b /\ k \in 1..b + c
        BY <1>2, <1>4, <2>1
      <3> QED BY <1>4, <1>5, <2>1, <3>1
    <2>2. CASE ~(k <= b)
      <3>1. k - b \in 1..c /\ k \in 1..b + c /\ d + a + b + (k - b) = d + a + k
        BY <1>2, <1>4, <2>2
      <3> QED BY <1>4, <1>5, <2>2, <3>1
    <2> QED BY <2>1, <2>2
  <1>8. \A k \in 1..v : z[k] = sent[d + a + w + k]
    BY <1>1
  <1>9. Waiting(d, pending, t, z, sent, read)
    BY <1>1, <1>4, <1>6, <1>7, <1>8 DEF Waiting, a, v, w
  <1> QED BY <1>9 DEF t, z

\* Another line is sent.
LEMMA SendsMore ==
  ASSUME NEW d, NEW pending, NEW lines, NEW hold, NEW sent, NEW read,
         Waiting(d, pending, lines, hold, sent, read), NEW f \in Frames
  PROVE  /\ Waiting(d, pending, lines, hold, Append(sent, f), read)
         /\ Len(Append(sent, f)) = Len(sent) + 1 /\ Append(sent, f)[Len(sent) + 1] = f
         /\ \A k \in 1..Len(sent) : Append(sent, f)[k] = sent[k]
  <1> DEFINE a == Len(pending)
             b == Len(lines)
             c == Len(hold)
             n == Len(sent)
             t == Append(sent, f)
  <1>1. a \in Nat /\ b \in Nat /\ c \in Nat /\ d \in Nat /\ n \in Nat /\ read \in Nat
    BY WaitingTypes
  <1>2. /\ t \in Seq(Frames) /\ Len(t) = n + 1 /\ t[n + 1] = f
        /\ \A k \in 1..n : t[k] = sent[k]
    BY AppendProperties DEF Waiting
  <1>3. /\ read = d + a + b + c /\ read <= n
        /\ \A k \in 1..a : pending[k] = sent[d + k]
        /\ \A k \in 1..b : lines[k] = sent[d + a + k]
        /\ \A k \in 1..c : hold[k] = sent[d + a + b + k]
    BY DEF Waiting
  <1> HIDE DEF a, b, c, n, t
  <1>4. ASSUME NEW k \in 1..a PROVE pending[k] = t[d + k]
    <2>1. d + k \in 1..n
      BY <1>1, <1>3
    <2> QED BY <1>2, <1>3, <2>1
  <1>5. ASSUME NEW k \in 1..b PROVE lines[k] = t[d + a + k]
    <2>1. d + a + k \in 1..n
      BY <1>1, <1>3
    <2> QED BY <1>2, <1>3, <2>1
  <1>6. ASSUME NEW k \in 1..c PROVE hold[k] = t[d + a + b + k]
    <2>1. d + a + b + k \in 1..n
      BY <1>1, <1>3
    <2> QED BY <1>2, <1>3, <2>1
  <1>7. read <= Len(t)
    BY <1>1, <1>2, <1>3
  <1>8. Waiting(d, pending, lines, hold, t, read)
    BY <1>2, <1>4, <1>5, <1>6, <1>7 DEF Waiting, a, b, c
  <1> QED BY <1>2, <1>8 DEF t, n

-----------------------------------------------------------------------------
(* Requests and answers.                                                   *)

\* The live client's requests carry numbers of their own.
Asked(sent) == \A k \in 1..Len(sent) : Asks(sent[k]) => sent[k].id = LiveId(k - 1)

\* The ids of the requests among the first d lines.
Known(sent, d) == { sent[k].id : k \in { j \in 1..d : Asks(sent[j]) } }

LEMMA KnownGrows ==
  ASSUME NEW sent, Asked(sent), Len(sent) \in Nat, NEW d \in Nat, d + 1 <= Len(sent)
  PROVE  /\ Known(sent, d) \subseteq Known(sent, d + 1)
         /\ Asks(sent[d + 1]) => /\ sent[d + 1].id \notin Known(sent, d)
                                 /\ sent[d + 1].id \in Known(sent, d + 1)
  <1> DEFINE n == Len(sent)
             e == d + 1
  <1>1. 1..d \subseteq 1..e /\ e \in 1..e /\ e \in 1..n /\ 1..d \subseteq 1..n
    OBVIOUS
  <1>2. Known(sent, d) \subseteq Known(sent, e)
    BY <1>1 DEF Known
  <1>3. Asks(sent[e]) => sent[e].id \in Known(sent, e)
    BY <1>1 DEF Known
  <1>4. ASSUME NEW k \in 1..d, Asks(sent[k]), Asks(sent[e]) PROVE sent[k].id # sent[e].id
    <2>1. sent[k].id = LiveId(k - 1) /\ sent[e].id = LiveId(e - 1)
      BY <1>1, <1>4 DEF Asked
    <2>2. LiveId(k - 1) # LiveId(e - 1)
      BY DEF LiveId
    <2> HIDE DEF e
    <2> QED BY <2>1, <2>2
  <1>5. Asks(sent[e]) => sent[e].id \notin Known(sent, d)
    BY <1>4 DEF Known
  <1> QED BY <1>2, <1>3, <1>5

LEMMA KnownSame ==
  ASSUME NEW sent, NEW other, NEW d, \A k \in 1..d : other[k] = sent[k]
  PROVE  Known(other, d) = Known(sent, d)
  BY DEF Known

\* The answers among the lines written.
Replies(out) == { i \in DOMAIN out : Answers(out[i]) }

\* Every answer goes to a known request and to one of its own, so does every id the engine
\* remembers; and the requests that the transcript has still to answer are remembered,
\* apart from each other and without an answer.
Repaid(ids, out, due, known) ==
  /\ \A i \in Replies(out) : out[i].id \in known
  /\ \A i, j \in Replies(out) : out[i].id = out[j].id => i = j
  /\ \A key \in DOMAIN ids : ids[key] \in known
  /\ \A key \in due :
       /\ key \in DOMAIN ids
       /\ \A i \in Replies(out) : out[i].id # ids[key]
       /\ \A other \in due : ids[other] = ids[key] => other = key

LEMMA RepaidMore ==
  ASSUME NEW ids, NEW out, NEW due, NEW known, Repaid(ids, out, due, known),
         NEW less, less \subseteq due, NEW more, known \subseteq more
  PROVE  Repaid(ids, out, less, more)
  BY DEF Repaid

LEMMA RepliesAppend ==
  ASSUME NEW out, IsList(out), NEW f
  PROVE  LET n == Len(out) + 1
         IN  /\ Replies(Append(out, f)) =
                  IF Answers(f) THEN Replies(out) \union {n} ELSE Replies(out)
             /\ n \notin Replies(out)
             /\ \A i \in Replies(out) : Append(out, f)[i] = out[i]
             /\ Append(out, f)[n] = f
  <1> DEFINE n == Len(out) + 1
             t == Append(out, f)
  <1>1. /\ DOMAIN out = 1..Len(out) /\ Len(out) \in Nat /\ DOMAIN t = 1..n
        /\ \A i \in 1..Len(out) : t[i] = out[i]
        /\ t[n] = f
    BY ListAppend
  <1> HIDE DEF t
  <1>2. DOMAIN t = DOMAIN out \union {n} /\ n \notin DOMAIN out
    BY <1>1
  <1> HIDE DEF n
  <1>3. /\ Replies(t) = IF Answers(f) THEN Replies(out) \union {n} ELSE Replies(out)
        /\ n \notin Replies(out)
        /\ \A i \in Replies(out) : t[i] = out[i]
        /\ t[n] = f
    BY <1>1, <1>2 DEF Replies
  <1> QED BY <1>3 DEF t, n

\* A line that is no answer.
LEMMA RepaidQuiet ==
  ASSUME NEW ids, NEW out, IsList(out), NEW due, NEW known, Repaid(ids, out, due, known),
         NEW f, ~Answers(f)
  PROVE  Repaid(ids, Append(out, f), due, known)
  <1> DEFINE t == Append(out, f)
  <1>1. Replies(t) = Replies(out) /\ \A i \in Replies(out) : t[i] = out[i]
    BY RepliesAppend
  <1> HIDE DEF t
  <1>2. Repaid(ids, t, due, known)
    BY <1>1 DEF Repaid
  <1> QED BY <1>2 DEF t

\* A request nobody scripted is refused at once.
LEMMA RepaidRefuses ==
  ASSUME NEW ids, NEW out, IsList(out), NEW due, NEW known, Repaid(ids, out, due, known),
         NEW more, known \subseteq more, NEW f, f.id \notin known, f.id \in more
  PROVE  Repaid(ids, Append(out, f), due, more)
  <1> DEFINE t == Append(out, f)
             n == Len(out) + 1
  <1>1. /\ Replies(t) = IF Answers(f) THEN Replies(out) \union {n} ELSE Replies(out)
        /\ n \notin Replies(out)
        /\ \A i \in Replies(out) : t[i] = out[i]
        /\ t[n] = f
    BY RepliesAppend
  <1> HIDE DEF t, n
  <1>2. Repaid(ids, t, due, more)
    <2>1. \A i \in Replies(t) : t[i].id \in more
      BY <1>1 DEF Repaid
    <2>2. \A i, j \in Replies(t) : t[i].id = t[j].id => i = j
      BY <1>1 DEF Repaid
    <2>3. \A key \in DOMAIN ids : ids[key] \in more
      BY DEF Repaid
    <2>4. ASSUME NEW key \in due, NEW i \in Replies(t) PROVE t[i].id # ids[key]
      BY <1>1 DEF Repaid
    <2> QED BY <2>1, <2>2, <2>3, <2>4 DEF Repaid
  <1> QED BY <1>2 DEF t

\* A scripted request arrives, under an id that is new.
LEMMA RepaidLearns ==
  ASSUME NEW ids, NEW out, NEW due, NEW known, Repaid(ids, out, due, known),
         NEW more, known \subseteq more, NEW key, NEW id, id \notin known, id \in more,
         NEW new, DOMAIN new = DOMAIN ids \union {key}, new[key] = id,
         \A k \in DOMAIN ids : k # key => new[k] = ids[k]
  PROVE  Repaid(new, out, due \union {key}, more)
  <1> DEFINE all == due \union {key}
  <1>1. /\ DOMAIN new = DOMAIN ids \union {key} /\ new[key] = id
        /\ \A k \in DOMAIN ids : k # key => new[k] = ids[k]
    OBVIOUS
  <1>2. \A i \in Replies(out) : out[i].id \in more
    BY DEF Repaid
  <1>3. \A i, j \in Replies(out) : out[i].id = out[j].id => i = j
    BY DEF Repaid
  <1>4. \A k \in DOMAIN new : new[k] \in more
    BY <1>1 DEF Repaid
  <1>5. ASSUME NEW k \in all
        PROVE  /\ k \in DOMAIN new
               /\ \A i \in Replies(out) : out[i].id # new[k]
               /\ \A other \in all : new[other] = new[k] => other = k
    <2>1. k \in DOMAIN new
      BY <1>1 DEF Repaid
    <2>2. \A i \in Replies(out) : out[i].id # new[k]
      BY <1>1 DEF Repaid
    <2>3. \A o \in due : o \in DOMAIN ids /\ ids[o] \in known
      BY DEF Repaid
    <2>4. ASSUME NEW other \in all, new[other] = new[k] PROVE other = k
      <3>1. CASE other = key \/ k = key
        BY <1>1, <2>3, <2>4, <3>1
      <3>2. CASE other # key /\ k # key
        <4>1. other \in due /\ k \in due
          BY <3>2
        <4> QED BY <1>1, <2>3, <2>4, <3>2, <4>1 DEF Repaid
      <3> QED BY <3>1, <3>2
    <2> QED BY <2>1, <2>2, <2>4
  <1>6. Repaid(new, out, all, more)
    BY <1>2, <1>3, <1>4, <1>5 DEF Repaid
  <1> QED BY <1>6

\* A request the transcript owes an answer gets it.
LEMMA RepaidAnswers ==
  ASSUME NEW ids, NEW out, IsList(out), NEW due, NEW known, Repaid(ids, out, due, known),
         NEW key \in due, NEW f, f.id = ids[key]
  PROVE  Repaid(ids, Append(out, f), due \ {key}, known)
  <1> DEFINE t == Append(out, f)
             n == Len(out) + 1
             rest == due \ {key}
  <1>1. /\ Replies(t) = IF Answers(f) THEN Replies(out) \union {n} ELSE Replies(out)
        /\ n \notin Replies(out)
        /\ \A i \in Replies(out) : t[i] = out[i]
        /\ t[n] = f
    BY RepliesAppend
  <1> HIDE DEF t, n
  <1>2. f.id \in known /\ \A i \in Replies(out) : out[i].id # f.id
    BY DEF Repaid
  <1>3. \A i \in Replies(t) : t[i].id \in known
    BY <1>1, <1>2 DEF Repaid
  <1>4. \A i, j \in Replies(t) : t[i].id = t[j].id => i = j
    BY <1>1, <1>2 DEF Repaid
  <1>5. ASSUME NEW k \in rest
        PROVE  /\ k \in DOMAIN ids
               /\ \A i \in Replies(t) : t[i].id # ids[k]
               /\ \A other \in rest : ids[other] = ids[k] => other = k
    <2>1. k \in due /\ ids[k] # f.id
      BY DEF Repaid
    <2> QED BY <1>1, <2>1 DEF Repaid
  <1>6. Repaid(ids, t, rest, known)
    BY <1>3, <1>4, <1>5 DEF Repaid
  <1> QED BY <1>6 DEF t

\* What a step leaves owed.
LEMMA OwedNext ==
  ASSUME NEW steps, NEW n \in Nat \ {0}
  PROVE  LET owed == Owed(steps, n)
             f == steps[n].frame
         IN  /\ Owed(steps, n + 1) \subseteq
                  IF steps[n].form = "recv" /\ Asks(f) THEN owed \union {IdKey(f)} ELSE owed
             /\ steps[n].form = "send" /\ Answers(f) =>
                  Owed(steps, n + 1) \subseteq owed \ {IdKey(f)}
  <1> DEFINE f == steps[n].frame
             m == n + 1
             Open(i, k) ==
               /\ steps[i].form = "recv" /\ Asks(steps[i].frame)
               /\ \A j \in (i + 1)..(k - 1) :
                    ~(steps[j].form = "send" /\ Answers(steps[j].frame)
                        /\ IdKey(steps[j].frame) = IdKey(steps[i].frame))
  <1>1. /\ 1..(m - 1) = 1..n /\ m \in Nat
    OBVIOUS
  <1>2. ASSUME NEW i \in 1..(m - 1), Open(i, m)
        PROVE  \/ i = n /\ steps[n].form = "recv" /\ Asks(f)
               \/ /\ i \in 1..(n - 1) /\ Open(i, n)
                  /\ ~(steps[n].form = "send" /\ Answers(f) /\ IdKey(f) = IdKey(steps[i].frame))
    <2>1. CASE i = n
      BY <1>2, <2>1
    <2>2. CASE i # n
      <3>1. i \in 1..(n - 1) /\ (i + 1)..(n - 1) \subseteq (i + 1)..(m - 1) /\ n \in (i + 1)..(m - 1)
        BY <2>2
      <3> QED BY <1>2, <3>1
    <2> QED BY <2>1, <2>2
  <1>3. \A k \in {n, m} : \A x : x \in Owed(steps, k) <=>
          \E i \in 1..(k - 1) : Open(i, k) /\ x = IdKey(steps[i].frame)
    BY DEF Owed
  <1> HIDE DEF Open, m
  <1>4. ASSUME NEW x \in Owed(steps, m)
        PROVE  /\ x \in Owed(steps, n) \/ (steps[n].form = "recv" /\ Asks(f) /\ x = IdKey(f))
               /\ steps[n].form = "send" /\ Answers(f) => x \in Owed(steps, n) /\ x # IdKey(f)
    <2>1. PICK i \in 1..(m - 1) : Open(i, m) /\ x = IdKey(steps[i].frame)
      BY <1>3
    <2> QED BY <1>2, <1>3, <2>1
  <1> QED BY <1>4 DEF m

-----------------------------------------------------------------------------
(* A conversation: an engine, its pipes and its call file.                 *)

IsEngine(e) ==
  /\ e = [step |-> e.step, pending |-> e.pending, lines |-> e.lines, hold |-> e.hold,
          reader |-> e.reader, ids |-> e.ids]
  /\ e.step \in Nat \ {0}
ArePipes(i) ==
  /\ i = [sent |-> i.sent, read |-> i.read, open |-> i.open, out |-> i.out]
  /\ IsList(i.out)

\* The engine has dealt with d lines; the reader holds a line while it has one to pass on.
Talks(e, i, d) ==
  /\ IsEngine(e) /\ ArePipes(i) /\ Asked(i.sent)
  /\ Waiting(d, e.pending, e.lines, e.hold, i.sent, i.read)
  /\ \/ e.reader \in {"record", "send"} /\ i.read # 0 /\ e.hold = <<i.sent[i.read]>>
     \/ e.reader \in {"read", "done"} /\ e.hold = <<>>

Holds(e, i, steps, d) ==
  Talks(e, i, d) /\ Repaid(e.ids, i.out, Owed(steps, e.step), Known(i.sent, d))

\* A line the reader holds is recorded before it is passed on.
Recorded(e, i, records) ==
  Tells(records, i.sent, IF e.reader = "record" THEN i.read - 1 ELSE i.read)

Conversation(e, i, records, steps) ==
  Recorded(e, i, records) /\ \E d \in Nat : Holds(e, i, steps, d)

\* The state of the engine after e.next(), and the line.
First(e) == Head(e.pending \o e.lines)
Taking(e) ==
  IF e.pending # <<>> THEN [e EXCEPT !.pending = <<>>] ELSE [e EXCEPT !.lines = Tail(@)]

\* The pipes after a line of the engine's.
Wrote(i, f) == [sent |-> i.sent, read |-> i.read, open |-> i.open, out |-> Append(i.out, f)]

LEMMA TalkTakes ==
  ASSUME NEW e, NEW i, NEW d \in Nat, Talks(e, i, d), e.pending # <<>> \/ e.lines # <<>>
  PROVE  /\ Talks(Taking(e), i, d + 1) /\ Taking(e).pending = <<>>
         /\ Taking(e).step = e.step /\ Taking(e).ids = e.ids /\ Taking(e).reader = e.reader
         /\ First(e) = i.sent[d + 1] /\ First(e) \in Frames
         /\ d + 1 <= Len(i.sent) /\ Len(i.sent) \in Nat
  <1> DEFINE g == Taking(e)
             m == d + 1
  <1>1. e = [step |-> e.step, pending |-> e.pending, lines |-> e.lines, hold |-> e.hold,
             reader |-> e.reader, ids |-> e.ids]
    BY DEF Talks, IsEngine
  <1>2. /\ g = [step |-> e.step, pending |-> g.pending, lines |-> g.lines, hold |-> e.hold,
                reader |-> e.reader, ids |-> e.ids]
        /\ g.pending = <<>>
    BY <1>1 DEF Taking
  <1>3. Waiting(d, e.pending, e.lines, e.hold, i.sent, i.read)
    BY DEF Talks
  <1>4. Waiting(m, <<>>, g.lines, e.hold, i.sent, i.read) /\ First(e) = i.sent[m]
    <2>1. CASE e.pending # <<>>
      <3>1. g.lines = e.lines
        BY <1>1, <2>1 DEF Taking
      <3> QED BY <1>3, <2>1, <3>1, TakesBack DEF First
    <2>2. CASE e.pending = <<>>
      <3>1. g.lines = Tail(e.lines)
        BY <1>1, <2>2 DEF Taking
      <3>2. Waiting(d, <<>>, e.lines, e.hold, i.sent, i.read) /\ e.lines # <<>>
        BY <1>3, <2>2
      <3> QED BY <2>2, <3>1, <3>2, TakesLine DEF First
    <2> QED BY <2>1, <2>2
  <1> HIDE DEF g, m
  <1>5. m \in Nat /\ m <= i.read /\ Len(i.sent) \in Nat /\ i.read \in Nat
        /\ \A k \in 1..Len(i.sent) : i.sent[k] \in Frames
    BY <1>4, WaitingTypes
  <1>6. i.read <= Len(i.sent)
    BY <1>3 DEF Waiting
  <1>7. m <= Len(i.sent)
    <2> DEFINE n == Len(i.sent)
               r == i.read
    <2>1. m \in Nat /\ n \in Nat /\ r \in Nat /\ m <= r /\ r <= n
      BY <1>5, <1>6
    <2> HIDE DEF n, r
    <2>2. m <= n
      BY <2>1
    <2> QED BY <2>2 DEF n
  <1>8. First(e) \in Frames
    <2>1. m \in 1..Len(i.sent)
      BY <1>5, <1>7 DEF m
    <2> QED BY <1>4, <1>5, <2>1
  <1>9. Talks(g, i, m)
    BY <1>2, <1>4 DEF Talks, IsEngine
  <1> QED BY <1>2, <1>4, <1>5, <1>7, <1>8, <1>9 DEF g, m

\* The step and the ids are the engine's own affair.
LEMMA TalkAside ==
  ASSUME NEW e, NEW i, NEW d, Talks(e, i, d), NEW n \in Nat \ {0}, NEW ids,
         NEW g, g = [step |-> n, pending |-> e.pending, lines |-> e.lines, hold |-> e.hold,
                     reader |-> e.reader, ids |-> ids]
  PROVE  Talks(g, i, d)
  BY DEF Talks, IsEngine

\* So is what it writes.
LEMMA TalkWrites ==
  ASSUME NEW e, NEW i, NEW d, Talks(e, i, d), NEW f, NEW j, j = Wrote(i, f)
  PROVE  /\ Talks(e, j, d)
         /\ j.out = Append(i.out, f) /\ j.sent = i.sent /\ j.read = i.read
  <1>1. j = [sent |-> i.sent, read |-> i.read, open |-> i.open, out |-> Append(i.out, f)]
    BY DEF Wrote
  <1>2. IsList(Append(i.out, f))
    BY ListAppend DEF Talks, ArePipes
  <1> QED BY <1>1, <1>2 DEF Talks, ArePipes

LEMMA TalkPutsBack ==
  ASSUME NEW e, NEW i, NEW d \in Nat, Talks(e, i, d), e.pending # <<>> \/ e.lines # <<>>,
         NEW g, g = [Taking(e) EXCEPT !.pending = <<First(e)>>]
  PROVE  Talks(g, i, d) /\ g.step = e.step /\ g.ids = e.ids /\ g.reader = e.reader
  <1> DEFINE h == Taking(e)
             s == <<First(e)>>
  <1>1. /\ Talks(h, i, d + 1) /\ h.pending = <<>> /\ First(e) = i.sent[d + 1]
        /\ h.step = e.step /\ h.ids = e.ids /\ h.reader = e.reader
    BY TalkTakes
  <1> HIDE DEF h
  <1>2. g = [step |-> h.step, pending |-> s, lines |-> h.lines, hold |-> h.hold,
             reader |-> h.reader, ids |-> h.ids]
    BY <1>1 DEF Talks, IsEngine, h
  <1>3. Waiting(d + 1, <<>>, h.lines, h.hold, i.sent, i.read)
    BY <1>1 DEF Talks
  <1>4. Waiting(d, s, h.lines, h.hold, i.sent, i.read)
    BY <1>1, <1>3, PutsBack
  <1> HIDE DEF s
  <1>5. Talks(g, i, d)
    <2>1. /\ g.pending = s /\ g.lines = h.lines /\ g.hold = h.hold /\ g.reader = h.reader
          /\ g.step = h.step /\ g.ids = h.ids
      BY <1>2
    <2>2. IsEngine(g)
      BY <1>1, <1>2, <2>1 DEF Talks, IsEngine
    <2>3. Waiting(d, g.pending, g.lines, g.hold, i.sent, i.read)
      BY <1>4, <2>1
    <2> QED BY <1>1, <2>1, <2>2, <2>3 DEF Talks
  <1> QED BY <1>1, <1>2, <1>5

\* The request among the lines taken is new.
LEMMA TalkLearns ==
  ASSUME NEW e, NEW i, NEW d \in Nat, Talks(e, i, d), d + 1 <= Len(i.sent), Len(i.sent) \in Nat
  PROVE  /\ Known(i.sent, d) \subseteq Known(i.sent, d + 1)
         /\ Asks(i.sent[d + 1]) => /\ i.sent[d + 1].id \notin Known(i.sent, d)
                                   /\ i.sent[d + 1].id \in Known(i.sent, d + 1)
  <1>1. Asked(i.sent)
    BY DEF Talks
  <1> QED BY <1>1, KnownGrows

-----------------------------------------------------------------------------
(* What the engine's steps do to a conversation.                           *)

\* A line is taken that is of no concern to the transcript.
LEMMA TakesQuietly ==
  ASSUME NEW e, NEW i, NEW steps, NEW d \in Nat, Holds(e, i, steps, d),
         e.pending # <<>> \/ e.lines # <<>>
  PROVE  Holds(Taking(e), i, steps, d + 1)
  <1>1. Talks(e, i, d) /\ Repaid(e.ids, i.out, Owed(steps, e.step), Known(i.sent, d))
    BY DEF Holds
  <1>2. /\ Talks(Taking(e), i, d + 1) /\ Taking(e).step = e.step /\ Taking(e).ids = e.ids
        /\ d + 1 <= Len(i.sent) /\ Len(i.sent) \in Nat
    BY <1>1, TalkTakes
  <1>3. Known(i.sent, d) \subseteq Known(i.sent, d + 1)
    BY <1>1, <1>2, TalkLearns
  <1>4. Repaid(e.ids, i.out, Owed(steps, e.step), Known(i.sent, d + 1))
    BY <1>1, <1>3, RepaidMore
  <1> QED BY <1>2, <1>4 DEF Holds

\* A line is taken that is echoed, or a request that is refused.
LEMMA TakesAndWrites ==
  ASSUME NEW e, NEW i, NEW steps, NEW d \in Nat, Holds(e, i, steps, d),
         e.pending # <<>> \/ e.lines # <<>>, NEW f,
         ~Answers(f) \/ (Asks(First(e)) /\ f.id = First(e).id),
         NEW j, j = Wrote(i, f)
  PROVE  Holds(Taking(e), j, steps, d + 1)
  <1>1. /\ Talks(e, i, d) /\ Repaid(e.ids, i.out, Owed(steps, e.step), Known(i.sent, d))
        /\ IsList(i.out)
    BY DEF Holds, Talks, ArePipes
  <1>2. /\ Talks(Taking(e), i, d + 1) /\ Taking(e).step = e.step /\ Taking(e).ids = e.ids
        /\ First(e) = i.sent[d + 1]
        /\ d + 1 <= Len(i.sent) /\ Len(i.sent) \in Nat
    BY <1>1, TalkTakes
  <1>3. /\ Talks(Taking(e), j, d + 1) /\ j.out = Append(i.out, f) /\ j.sent = i.sent
    BY <1>2, TalkWrites
  <1> DEFINE known == Known(i.sent, d)
             more == Known(i.sent, d + 1)
             due == Owed(steps, e.step)
  <1>4. /\ known \subseteq more
        /\ Asks(i.sent[d + 1]) => i.sent[d + 1].id \notin known /\ i.sent[d + 1].id \in more
    BY <1>1, <1>2, TalkLearns
  <1>5. Repaid(e.ids, i.out, due, known)
    BY <1>1
  <1> HIDE DEF known, more, due
  <1>6. Repaid(e.ids, Append(i.out, f), due, more)
    <2>1. CASE ~Answers(f)
      <3>1. Repaid(e.ids, i.out, due, more)
        BY <1>4, <1>5, RepaidMore
      <3> QED BY <1>1, <2>1, <3>1, RepaidQuiet
    <2>2. CASE Asks(First(e)) /\ f.id = First(e).id
      BY <1>1, <1>2, <1>4, <1>5, <2>2, RepaidRefuses
    <2> QED BY <2>1, <2>2
  <1> QED BY <1>2, <1>3, <1>6 DEF Holds, due, more

\* The engine goes to its next step.
LEMMA GoesToNext ==
  ASSUME NEW e, NEW i, NEW steps, NEW d, Holds(e, i, steps, d),
         ~(steps[e.step].form = "recv" /\ Asks(steps[e.step].frame))
  PROVE  Holds(Advance(e), i, steps, d) /\ Advance(e).reader = e.reader
  <1> DEFINE n == e.step + 1
             g == Advance(e)
  <1>1. Talks(e, i, d) /\ Repaid(e.ids, i.out, Owed(steps, e.step), Known(i.sent, d))
    BY DEF Holds
  <1>2. e.step \in Nat \ {0}
    BY <1>1 DEF Talks, IsEngine
  <1>3. n \in Nat \ {0}
    BY <1>2
  <1>4. g = [step |-> n, pending |-> e.pending, lines |-> e.lines, hold |-> e.hold,
             reader |-> e.reader, ids |-> e.ids]
    BY <1>1 DEF Talks, IsEngine, Advance
  <1>5. Owed(steps, n) \subseteq Owed(steps, e.step)
    BY <1>2, OwedNext
  <1> HIDE DEF n, g
  <1>6. Talks(g, i, d)
    BY <1>1, <1>3, <1>4, TalkAside
  <1>7. Repaid(e.ids, i.out, Owed(steps, n), Known(i.sent, d))
    BY <1>1, <1>5, RepaidMore
  <1>8. Holds(g, i, steps, d) /\ g.reader = e.reader
    BY <1>4, <1>6, <1>7 DEF Holds
  <1> QED BY <1>8 DEF g

\* The engine writes a line of the transcript.
LEMMA WritesNext ==
  ASSUME NEW e, NEW i, NEW steps, NEW d, Holds(e, i, steps, d), NEW f,
         steps[e.step].form # "recv",
         \/ ~Answers(f)
         \/ /\ steps[e.step].form = "send" /\ Answers(steps[e.step].frame)
            /\ IdKey(steps[e.step].frame) \in Owed(steps, e.step)
            /\ f.id = e.ids[IdKey(steps[e.step].frame)],
         NEW j, j = Wrote(i, f)
  PROVE  Holds(Advance(e), j, steps, d) /\ Advance(e).reader = e.reader
  <1> DEFINE n == e.step + 1
             g == Advance(e)
             key == IdKey(steps[e.step].frame)
  <1>1. /\ Talks(e, i, d) /\ Repaid(e.ids, i.out, Owed(steps, e.step), Known(i.sent, d))
        /\ IsList(i.out)
    BY DEF Holds, Talks, ArePipes
  <1>2. e.step \in Nat \ {0}
    BY <1>1 DEF Talks, IsEngine
  <1>3. n \in Nat \ {0}
    BY <1>2
  <1>4. g = [step |-> n, pending |-> e.pending, lines |-> e.lines, hold |-> e.hold,
             reader |-> e.reader, ids |-> e.ids]
    BY <1>1 DEF Talks, IsEngine, Advance
  <1>5. /\ Owed(steps, n) \subseteq Owed(steps, e.step)
        /\ steps[e.step].form = "send" /\ Answers(steps[e.step].frame) =>
             Owed(steps, n) \subseteq Owed(steps, e.step) \ {key}
    BY <1>2, OwedNext
  <1> DEFINE known == Known(i.sent, d)
             due == Owed(steps, e.step)
             left == Owed(steps, n)
  <1>6. Talks(e, j, d) /\ j.out = Append(i.out, f) /\ j.sent = i.sent
    BY <1>1, TalkWrites
  <1> HIDE DEF n, g, key, known, due, left
  <1>7. Talks(g, j, d)
    BY <1>3, <1>4, <1>6, TalkAside
  <1>8. Repaid(e.ids, i.out, due, known)
    BY <1>1 DEF due, known
  <1>9. Repaid(e.ids, Append(i.out, f), left, known)
    <2>1. CASE ~Answers(f)
      <3>1. Repaid(e.ids, i.out, left, known)
        BY <1>5, <1>8, RepaidMore DEF left, due
      <3> QED BY <1>1, <2>1, <3>1, RepaidQuiet
    <2>2. CASE /\ steps[e.step].form = "send" /\ Answers(steps[e.step].frame)
               /\ key \in due /\ f.id = e.ids[key]
      <3>1. Repaid(e.ids, Append(i.out, f), due \ {key}, known)
        BY <1>1, <1>8, <2>2, RepaidAnswers
      <3>2. left \subseteq due \ {key}
        BY <1>5, <2>2 DEF left, due
      <3> QED BY <3>1, <3>2, RepaidMore
    <2> QED BY <2>1, <2>2 DEF key, due
  <1>10. Holds(g, j, steps, d) /\ g.reader = e.reader
    BY <1>4, <1>6, <1>7, <1>9 DEF Holds, left, known
  <1> QED BY <1>10 DEF g

\* The engine receives what it waited for.
LEMMA Receives ==
  ASSUME NEW e, NEW i, NEW steps, NEW d \in Nat, Holds(e, i, steps, d),
         e.pending # <<>> \/ e.lines # <<>>,
         Asks(steps[e.step].frame) => Asks(First(e)),
         NEW g, g = Advance([Taking(e) EXCEPT !.ids = Remember(@, steps[e.step].frame, First(e))])
  PROVE  Holds(g, i, steps, d + 1) /\ g.reader = e.reader
  <1> DEFINE n == e.step + 1
             h == Taking(e)
             want == steps[e.step].frame
             ids == Remember(e.ids, want, First(e))
             key == IdKey(want)
  <1>1. /\ Talks(e, i, d) /\ Repaid(e.ids, i.out, Owed(steps, e.step), Known(i.sent, d))
    BY DEF Holds
  <1>2. /\ Talks(h, i, d + 1) /\ h.step = e.step /\ h.ids = e.ids /\ h.reader = e.reader
        /\ First(e) = i.sent[d + 1]
        /\ d + 1 <= Len(i.sent) /\ Len(i.sent) \in Nat
    BY <1>1, TalkTakes
  <1>3. e.step \in Nat \ {0}
    BY <1>1 DEF Talks, IsEngine
  <1>4. n \in Nat \ {0}
    BY <1>3
  <1> HIDE DEF h, ids
  <1>5. g = [step |-> n, pending |-> h.pending, lines |-> h.lines, hold |-> h.hold,
             reader |-> h.reader, ids |-> ids]
    <2>1. g = Advance([h EXCEPT !.ids = Remember(@, want, First(e))])
      BY DEF h
    <2>2. h = [step |-> h.step, pending |-> h.pending, lines |-> h.lines, hold |-> h.hold,
               reader |-> h.reader, ids |-> h.ids]
      BY <1>2 DEF Talks, IsEngine
    <2>3. Remember(h.ids, want, First(e)) = ids
      BY <1>2 DEF ids
    <2> HIDE DEF want
    <2>4. [h EXCEPT !.ids = Remember(@, want, First(e))] =
            [step |-> h.step, pending |-> h.pending, lines |-> h.lines, hold |-> h.hold,
             reader |-> h.reader, ids |-> ids]
      BY <2>2, <2>3
    <2> QED BY <1>2, <2>1, <2>4, ZenonT(30) DEF Advance
  <1> DEFINE known == Known(i.sent, d)
             more == Known(i.sent, d + 1)
             due == Owed(steps, e.step)
             left == Owed(steps, n)
  <1>6. /\ known \subseteq more
        /\ Asks(i.sent[d + 1]) => i.sent[d + 1].id \notin known /\ i.sent[d + 1].id \in more
    BY <1>1, <1>2, TalkLearns
  <1>7. left \subseteq IF Asks(want) THEN due \union {key} ELSE due
    BY <1>3, OwedNext
  <1>8. Repaid(e.ids, i.out, due, known)
    BY <1>1
  <1> HIDE DEF n, known, more, due, left, key, want
  <1>9. Talks(g, i, d + 1)
    BY <1>2, <1>4, <1>5, TalkAside
  <1>10. Repaid(ids, i.out, left, more)
    <2>1. CASE ~Asks(want)
      <3>1. ids = e.ids /\ left \subseteq due
        BY <1>7, <2>1 DEF ids, Remember
      <3> QED BY <1>6, <1>8, <3>1, RepaidMore
    <2>2. CASE Asks(want)
      <3> DEFINE id == First(e).id
      <3>1. id \notin known /\ id \in more
        BY <1>2, <1>6, <2>2 DEF want
      <3>2. ids = [k \in DOMAIN e.ids \union {key} |-> IF k = key THEN id ELSE e.ids[k]]
        BY <2>2 DEF ids, Remember, key
      <3>4. /\ DOMAIN ids = DOMAIN e.ids \union {key} /\ ids[key] = id
            /\ \A k \in DOMAIN e.ids : k # key => ids[k] = e.ids[k]
        BY <3>2
      <3> HIDE DEF id
      <3>3. Repaid(ids, i.out, due \union {key}, more)
        BY <1>6, <1>8, <3>1, <3>4, RepaidLearns
      <3> QED BY <1>7, <2>2, <3>3, RepaidMore
    <2> QED BY <2>1, <2>2
  <1> QED BY <1>2, <1>5, <1>9, <1>10 DEF Holds, left, more

\* It skips what the client did not send.
LEMMA Skips ==
  ASSUME NEW e, NEW i, NEW steps, NEW d \in Nat, Holds(e, i, steps, d),
         e.pending # <<>> \/ e.lines # <<>>, ~Asks(steps[e.step].frame),
         NEW g, g = Advance([Taking(e) EXCEPT !.pending = <<First(e)>>])
  PROVE  Holds(g, i, steps, d) /\ g.reader = e.reader
  <1> DEFINE h == [Taking(e) EXCEPT !.pending = <<First(e)>>]
  <1>1. Talks(e, i, d) /\ Repaid(e.ids, i.out, Owed(steps, e.step), Known(i.sent, d))
    BY DEF Holds
  <1>2. Talks(h, i, d) /\ h.step = e.step /\ h.ids = e.ids /\ h.reader = e.reader
    BY <1>1, TalkPutsBack
  <1> HIDE DEF h
  <1>3. Holds(h, i, steps, d)
    BY <1>1, <1>2 DEF Holds
  <1>4. Holds(Advance(h), i, steps, d) /\ Advance(h).reader = h.reader
    BY <1>2, <1>3, GoesToNext
  <1> QED BY <1>2, <1>4 DEF h

LEMMA Converses ==
  ASSUME NEW e, NEW i, NEW records, NEW steps, Recorded(e, i, records), IsList(records),
         NEW d, Talks(e, i, d),
         NEW g, g.reader = e.reader, NEW j, j.sent = i.sent, j.read = i.read,
         NEW written, written = records \/ (\E r : r.kind # "stdin" /\ written = Append(records, r)),
         NEW m \in Nat, Holds(g, j, steps, m)
  PROVE  Conversation(g, j, written, steps)
  <1> DEFINE n == IF e.reader = "record" THEN i.read - 1 ELSE i.read
  <1>1. n \in Nat
    <2>1. i.read \in Nat
      BY DEF Talks, Waiting
    <2>2. e.reader = "record" => i.read # 0
      BY DEF Talks
    <2> QED BY <2>1, <2>2
  <1>2. Tells(records, i.sent, n)
    BY DEF Recorded
  <1> HIDE DEF n
  <1>3. Tells(written, i.sent, n)
    BY <1>1, <1>2, TellsOther
  <1>4. Recorded(g, j, written)
    BY <1>3 DEF Recorded, n
  <1> QED BY <1>4 DEF Conversation

\* Another record in the call file.
LEMMA FileGrows ==
  ASSUME NEW e, NEW i, NEW records, NEW steps, Conversation(e, i, records, steps), IsList(records),
         NEW r, r.kind # "stdin"
  PROVE  Conversation(e, i, Append(records, r), steps)
  <1>1. PICK d \in Nat : Holds(e, i, steps, d)
    BY DEF Conversation
  <1>2. Talks(e, i, d) /\ Recorded(e, i, records)
    BY <1>1 DEF Holds, Conversation
  <1> DEFINE written == Append(records, r)
  <1>3. \E x : x.kind # "stdin" /\ written = Append(records, x)
    OBVIOUS
  <1> HIDE DEF written
  <1>4. Conversation(e, i, written, steps)
    BY <1>1, <1>2, <1>3, Converses
  <1> QED BY <1>4 DEF written

\* Before its first step an engine owes nothing, whatever the run.
LEMMA AnyRun ==
  ASSUME NEW e, NEW i, NEW records, NEW steps, Conversation(e, i, records, steps),
         e.step = 1, NEW other
  PROVE  Conversation(e, i, records, other)
  <1>1. PICK d \in Nat : Holds(e, i, steps, d)
    BY DEF Conversation
  <1>2. Owed(other, 1) = {}
    BY DEF Owed
  <1>3. Repaid(e.ids, i.out, Owed(other, 1), Known(i.sent, d))
    <2>1. Repaid(e.ids, i.out, Owed(steps, e.step), Known(i.sent, d))
      BY <1>1 DEF Holds
    <2> QED BY <1>2, <2>1, RepaidMore
  <1>4. Holds(e, i, other, d)
    BY <1>1, <1>3 DEF Holds
  <1> QED BY <1>4 DEF Conversation

-----------------------------------------------------------------------------
(* The reader and the client.                                              *)

LEMMA ReaderReads ==
  ASSUME NEW e, NEW i, NEW records, NEW steps, Conversation(e, i, records, steps),
         e.reader = "read", i.read < Len(i.sent),
         NEW g, g = [step |-> e.step, pending |-> e.pending, lines |-> e.lines,
                     hold |-> <<i.sent[i.read + 1]>>, reader |-> "record", ids |-> e.ids],
         NEW j, j = [sent |-> i.sent, read |-> i.read + 1, open |-> i.open, out |-> i.out]
  PROVE  Conversation(g, j, records, steps)
  <1>1. PICK d \in Nat : Holds(e, i, steps, d)
    BY DEF Conversation
  <1>2. Talks(e, i, d) /\ e.hold = <<>>
    BY <1>1 DEF Holds, Talks
  <1>3. Waiting(d, e.pending, e.lines, <<>>, i.sent, i.read)
    BY <1>2 DEF Talks
  <1>4. Waiting(d, e.pending, e.lines, <<i.sent[i.read + 1]>>, i.sent, i.read + 1)
    BY <1>3, TakesUp
  <1>5. i.read \in Nat
    BY <1>3 DEF Waiting
  <1>6. i.read + 1 # 0 /\ (i.read + 1) - 1 = i.read
    BY <1>5
  <1>7. IsEngine(g) /\ ArePipes(j)
    BY <1>2 DEF Talks, IsEngine, ArePipes
  <1>8. Talks(g, j, d)
    BY <1>2, <1>4, <1>6, <1>7 DEF Talks
  <1>9. Holds(g, j, steps, d)
    BY <1>1, <1>8 DEF Holds
  <1>10. Recorded(g, j, records)
    <2>1. Recorded(e, i, records)
      BY DEF Conversation
    <2> QED BY <1>6, <2>1 DEF Recorded
  <1> QED BY <1>9, <1>10 DEF Conversation

LEMMA ReaderRecords ==
  ASSUME NEW e, NEW i, NEW records, NEW steps, Conversation(e, i, records, steps), IsList(records),
         e.reader = "record",
         NEW g, g = [step |-> e.step, pending |-> e.pending, lines |-> e.lines,
                     hold |-> e.hold, reader |-> "send", ids |-> e.ids]
  PROVE  Conversation(g, i, Append(records, Record("stdin", Head(e.hold))), steps)
  <1>1. PICK d \in Nat : Holds(e, i, steps, d)
    BY DEF Conversation
  <1>2. Talks(e, i, d) /\ e.hold = <<i.sent[i.read]>> /\ i.read # 0
    BY <1>1 DEF Holds, Talks
  <1>3. Talks(g, i, d)
    <2>1. IsEngine(g)
      BY <1>2 DEF Talks, IsEngine
    <2> QED BY <1>2, <2>1 DEF Talks
  <1>4. Holds(g, i, steps, d)
    BY <1>1, <1>3 DEF Holds
  <1> DEFINE n == i.read - 1
  <1>5. n \in Nat /\ n + 1 = i.read
    <2>1. i.read \in Nat
      BY <1>2 DEF Talks, Waiting
    <2> QED BY <1>2, <2>1
  <1>6. Tells(records, i.sent, n)
    BY DEF Conversation, Recorded
  <1> HIDE DEF n
  <1>7. Tells(Append(records, Record("stdin", i.sent[n + 1])), i.sent, n + 1)
    BY <1>5, <1>6, TellsMore
  <1>8. Head(e.hold) = i.sent[i.read]
    BY <1>2
  <1>9. Recorded(g, i, Append(records, Record("stdin", Head(e.hold))))
    BY <1>5, <1>7, <1>8 DEF Recorded
  <1> QED BY <1>4, <1>9 DEF Conversation

LEMMA ReaderHandsOn ==
  ASSUME NEW e, NEW i, NEW records, NEW steps, Conversation(e, i, records, steps),
         e.reader = "send",
         NEW g, g = [step |-> e.step, pending |-> e.pending, lines |-> e.lines \o e.hold,
                     hold |-> <<>>, reader |-> "read", ids |-> e.ids]
  PROVE  Conversation(g, i, records, steps)
  <1>1. PICK d \in Nat : Holds(e, i, steps, d)
    BY DEF Conversation
  <1>2. Talks(e, i, d)
    BY <1>1 DEF Holds
  <1>3. Waiting(d, e.pending, e.lines \o e.hold, <<>>, i.sent, i.read)
    BY <1>2, HandsOn DEF Talks
  <1>4. Talks(g, i, d)
    <2>1. IsEngine(g)
      BY <1>2 DEF Talks, IsEngine
    <2> QED BY <1>2, <1>3, <2>1 DEF Talks
  <1>5. Holds(g, i, steps, d)
    BY <1>1, <1>4 DEF Holds
  <1>6. Recorded(g, i, records)
    BY DEF Conversation, Recorded
  <1> QED BY <1>5, <1>6 DEF Conversation

LEMMA ReaderEnds ==
  ASSUME NEW e, NEW i, NEW records, NEW steps, Conversation(e, i, records, steps),
         e.reader = "read",
         NEW g, g = [step |-> e.step, pending |-> e.pending, lines |-> e.lines,
                     hold |-> e.hold, reader |-> "done", ids |-> e.ids]
  PROVE  Conversation(g, i, records, steps)
  <1>1. PICK d \in Nat : Holds(e, i, steps, d)
    BY DEF Conversation
  <1>2. Talks(e, i, d)
    BY <1>1 DEF Holds
  <1>3. Talks(g, i, d)
    <2>1. IsEngine(g)
      BY <1>2 DEF Talks, IsEngine
    <2> QED BY <1>2, <2>1 DEF Talks
  <1>4. Holds(g, i, steps, d)
    BY <1>1, <1>3 DEF Holds
  <1>5. Recorded(g, i, records)
    BY DEF Conversation, Recorded
  <1> QED BY <1>4, <1>5 DEF Conversation

\* A line of the client's, under the next number if it is a request.
LEMMA ClientSends ==
  ASSUME NEW e, NEW i, NEW records, NEW steps, Conversation(e, i, records, steps),
         NEW f \in Frames, Asks(f) => f.id = LiveId(Len(i.sent)),
         NEW j, j = [sent |-> Append(i.sent, f), read |-> i.read, open |-> i.open, out |-> i.out]
  PROVE  Conversation(e, j, records, steps)
  <1>1. PICK d \in Nat : Holds(e, i, steps, d)
    BY DEF Conversation
  <1>2. Talks(e, i, d)
    BY <1>1 DEF Holds
  <1> DEFINE n == Len(i.sent)
             sent == Append(i.sent, f)
  <1>3. /\ Waiting(d, e.pending, e.lines, e.hold, sent, i.read)
        /\ Len(sent) = n + 1 /\ sent[n + 1] = f /\ \A k \in 1..n : sent[k] = i.sent[k]
    BY <1>2, SendsMore DEF Talks
  <1>4. /\ Waiting(d, e.pending, e.lines, e.hold, i.sent, i.read)
        /\ n \in Nat /\ i.read \in Nat /\ d \in Nat /\ d <= i.read
    <2>1. Waiting(d, e.pending, e.lines, e.hold, i.sent, i.read)
      BY <1>2 DEF Talks
    <2> QED BY <2>1, WaitingTypes
  <1>5. i.read <= n
    BY <1>4 DEF Waiting
  <1>6. LiveId(n) = LiveId((n + 1) - 1)
    BY <1>4
  <1> DEFINE r == i.read
  <1> HIDE DEF n, sent, r
  <1>7. Asked(sent)
    <2>1. ASSUME NEW k \in 1..Len(sent), Asks(sent[k]) PROVE sent[k].id = LiveId(k - 1)
      <3>1. CASE k = n + 1
        BY <1>3, <1>4, <1>6, <2>1, <3>1 DEF n
      <3>2. CASE k # n + 1
        <4>1. k \in 1..n
          BY <1>3, <1>4, <3>2
        <4>2. Asked(i.sent)
          BY <1>2 DEF Talks
        <4> QED BY <1>3, <2>1, <4>1, <4>2 DEF Asked, n
      <3> QED BY <3>1, <3>2
    <2> QED BY <2>1 DEF Asked
  <1>8. \A k \in 1..r : k \in 1..n
    <2>1. r \in Nat /\ r <= n
      BY <1>4, <1>5 DEF r
    <2> QED BY <1>4, <2>1
  <1>9. \A k \in 1..d : k \in 1..r
    <2>1. r \in Nat /\ d <= r
      BY <1>4 DEF r
    <2> QED BY <1>4, <2>1
  <1>10. j = [sent |-> sent, read |-> i.read, open |-> i.open, out |-> i.out]
    BY DEF sent
  <1>15. j.sent = sent /\ j.read = i.read /\ j.out = i.out
    BY <1>10
  <1>11. Talks(e, j, d)
    <2>1. ArePipes(j)
      BY <1>2, <1>10 DEF Talks, ArePipes
    <2>2. i.read # 0 => sent[i.read] = i.sent[i.read]
      <3>1. ASSUME r # 0 PROVE sent[r] = i.sent[r]
        <4>1. r \in Nat
          BY <1>4 DEF r
        <4>2. r \in 1..r
          BY <3>1, <4>1
        <4> QED BY <1>3, <1>8, <4>2
      <3> QED BY <3>1 DEF r
    <2> QED BY <1>2, <1>3, <1>7, <1>15, <2>1, <2>2 DEF Talks
  <1>12. Known(sent, d) = Known(i.sent, d)
    <2>1. \A k \in 1..d : sent[k] = i.sent[k]
      BY <1>3, <1>8, <1>9
    <2> QED BY <2>1, KnownSame
  <1>13. Holds(e, j, steps, d)
    BY <1>1, <1>15, <1>11, <1>12 DEF Holds
  <1>14. Recorded(e, j, records)
    <2> DEFINE m == IF e.reader = "record" THEN r - 1 ELSE r
    <2>1. Tells(records, i.sent, m)
      BY DEF Conversation, Recorded, r
    <2>2. r \in Nat /\ (e.reader = "record" => r # 0)
      BY <1>2, <1>4 DEF r, Talks
    <2>3. m \in Nat /\ m <= r
      BY <2>2
    <2> HIDE DEF m
    <2>4. \A k \in 1..m : sent[k] = i.sent[k]
      <3>1. \A k \in 1..m : k \in 1..r
        BY <2>2, <2>3
      <3> QED BY <1>3, <1>8, <3>1
    <2>5. Tells(records, sent, m)
      BY <2>1, <2>3, <2>4, TellsLonger
    <2> QED BY <1>15, <2>5 DEF Recorded, m, r
  <1> QED BY <1>13, <1>14 DEF Conversation

LEMMA ClientCloses ==
  ASSUME NEW e, NEW i, NEW records, NEW steps, Conversation(e, i, records, steps), NEW open,
         NEW j, j = [sent |-> i.sent, read |-> i.read, open |-> open, out |-> i.out]
  PROVE  Conversation(e, j, records, steps)
  <1>1. PICK d \in Nat : Holds(e, i, steps, d)
    BY DEF Conversation
  <1>2. Talks(e, j, d)
    BY <1>1 DEF Holds, Talks, ArePipes
  <1>3. Holds(e, j, steps, d)
    BY <1>1, <1>2 DEF Holds
  <1>4. Recorded(e, j, records)
    BY DEF Conversation, Recorded
  <1> QED BY <1>3, <1>4 DEF Conversation

-----------------------------------------------------------------------------
(* Conversations in a state.                                               *)

\* A process that serves has a run, and its engine is at the first step until then.
RunOf(p) ==
  /\ run[p] \in DOMAIN scenario.runs \union {NoRun}
  /\ pc[p] \in {"handler", "serve"} => run[p] # NoRun
  /\ pc[p] \notin {"serve", "record", "exit"} \union Ended => eng[p].step = 1

Talk(p) == Conversation(eng[p], io[p], file[p], Steps(p))

TalkInv ==
  /\ eng = [p \in Proc |-> eng[p]] /\ io = [p \in Proc |-> io[p]]
  /\ \A p \in Proc : RunOf(p) /\ Talk(p)

LEMMA TalkTypes ==
  ASSUME TalkInv, NEW p \in Proc
  PROVE  IsEngine(eng[p]) /\ ArePipes(io[p])
  <1>1. Conversation(eng[p], io[p], file[p], Steps(p))
    BY DEF TalkInv, Talk
  <1>2. PICK d \in Nat : Holds(eng[p], io[p], Steps(p), d)
    BY <1>1 DEF Conversation
  <1> QED BY <1>2 DEF Holds, Talks

\* p alone moves.
Alone(p) ==
  /\ scenario' = scenario
  /\ eng' = [q \in Proc |-> eng'[q]] /\ io' = [q \in Proc |-> io'[q]]
  /\ \A q \in Proc : q # p =>
       /\ eng'[q] = eng[q] /\ io'[q] = io[q] /\ file'[q] = file[q]
       /\ run'[q] = run[q] /\ pc'[q] = pc[q]

LEMMA AloneKeeps ==
  ASSUME TalkInv, NEW p \in Proc, Alone(p), RunOf(p)', Talk(p)'
  PROVE  TalkInv'
  <1> SUFFICES ASSUME NEW q \in Proc, q # p PROVE RunOf(q)' /\ Talk(q)'
    BY DEF TalkInv, Alone
  <1>1. /\ eng'[q] = eng[q] /\ io'[q] = io[q] /\ file'[q] = file[q]
        /\ run'[q] = run[q] /\ pc'[q] = pc[q] /\ scenario' = scenario
    BY DEF Alone
  <1>2. RunOf(q) /\ Talk(q)
    BY DEF TalkInv
  <1>3. RunOf(q)'
    BY <1>1, <1>2 DEF RunOf
  <1>4. Steps(q)' = Steps(q)
    BY <1>1 DEF Steps
  <1>5. Talk(q)'
    BY <1>1, <1>2, <1>4 DEF Talk
  <1> QED BY <1>3, <1>5

\* The call file of p is left alone, or gets a record that is not of stdin.
Notes(p) ==
  /\ file' = [q \in Proc |-> file'[q]] /\ \A q \in Proc : q # p => file'[q] = file[q]
  /\ file'[p] = file[p] \/ \E r : r.kind # "stdin" /\ file'[p] = Append(file[p], r)

LEMMA NotesIs ==
  ASSUME FakeInv, NEW p \in Proc,
         file' = file \/ \E r : r.kind # "stdin" /\ Writes(p, r)
  PROVE  Notes(p)
  BY DEF FakeInv, Shape, Notes, Writes

\* A step that is not the engine's, the reader's or the client's.
LEMMA QuietKeeps ==
  ASSUME FakeInv, TalkInv, NEW p \in Proc, UNCHANGED <<eng, io, scenario>>, Notes(p),
         \A q \in Proc : q # p => run'[q] = run[q] /\ pc'[q] = pc[q],
         RunOf(p)', run'[p] = run[p] \/ eng[p].step = 1
  PROVE  TalkInv'
  <1>1. Alone(p)
    BY DEF Alone, Notes, TalkInv
  <1>2. Talk(p) /\ IsList(file[p])
    BY DEF TalkInv, FakeInv, Shape
  <1>3. Conversation(eng[p], io[p], file'[p], Steps(p))
    <2>1. Conversation(eng[p], io[p], file[p], Steps(p))
      BY <1>2 DEF Talk
    <2>2. CASE file'[p] = file[p]
      BY <2>1, <2>2
    <2>3. CASE \E r : r.kind # "stdin" /\ file'[p] = Append(file[p], r)
      <3>1. PICK r : r.kind # "stdin" /\ file'[p] = Append(file[p], r)
        BY <2>3
      <3> DEFINE e == eng[p]
                 i == io[p]
                 records == file[p]
                 steps == Steps(p)
      <3>2. Conversation(e, i, records, steps) /\ IsList(records)
        BY <1>2, <2>1
      <3> HIDE DEF e, i, records, steps
      <3>3. Conversation(e, i, Append(records, r), steps)
        BY <3>1, <3>2, FileGrows
      <3> QED BY <3>1, <3>3 DEF e, i, records, steps
    <2> QED BY <2>2, <2>3 DEF Notes
  <1>4. Conversation(eng[p], io[p], file'[p], Steps(p)')
    <2>1. CASE run'[p] = run[p]
      <3>1. Steps(p)' = Steps(p)
        BY <2>1 DEF Steps
      <3> QED BY <1>3, <3>1
    <2>2. CASE eng[p].step = 1
      BY <1>3, <2>2, AnyRun
    <2> QED BY <2>1, <2>2
  <1>5. Talk(p)'
    BY <1>4 DEF Talk
  <1> QED BY <1>1, <1>5, AloneKeeps

LEMMA PickedRun ==
  ASSUME FakeInv, NEW p \in Proc, Write(p)
  PROVE  Picked(p) \in DOMAIN scenario.runs \union {NoRun}
  <1> DEFINE used == Ledger!UsedRuns(claimed)
             given == args[p]
  <1>1. Picked(p) = Ledger!FirstEligible(Script, used, given)
    BY WriteServes DEF Claimed
  <1> HIDE DEF used, given
  <1>2. CASE Ledger!FirstEligible(Script, used, given) # NoRun
    <2>1. Picked(p) \in Ledger!Eligible(Script, used, given)
      BY <1>1, <1>2, FirstIsEligible
    <2> QED BY <2>1 DEF Ledger!Eligible, Script
  <1> QED BY <1>1, <1>2

LEMMA CallTalk ==
  ASSUME FakeInv, TalkInv, NEW p \in Proc, CallStep(p), UNCHANGED engVars
  PROVE  TalkInv'
  <1> USE DEF Goto, Leaves, claimVars
  <1>1. UNCHANGED <<eng, io>> /\ RunOf(p)
    BY DEF engVars, TalkInv
  <1>2. pc \in [Proc -> Labels] /\ run = [q \in Proc |-> run[q]]
    BY DEF FakeInv, Shape
  <1>3. scenario' = scenario
    BY DEF CallStep, Lock, LockTimesOut, Load, LoadFails, Truncate, Write, Unlock, CreateTemp,
           WriteStart, Link, Refuse, RecordExit, Exit
  <1>4. Notes(p)
    <2>1. file' = file \/ \E r : r.kind # "stdin" /\ Writes(p, r)
      <3>1. CASE WriteStart(p)
        BY <3>1 DEF WriteStart, StartRecord, Record
      <3>2. CASE Refuse(p)
        BY <3>2 DEF Refuse, Record
      <3>3. CASE RecordExit(p)
        BY <3>3 DEF RecordExit, Record
      <3> QED BY <3>1, <3>2, <3>3 DEF CallStep, Lock, LockTimesOut, Load, LoadFails, Truncate,
                 Write, Unlock, CreateTemp, Link, Exit
    <2> QED BY <2>1, NotesIs
  <1>5. \A q \in Proc : q # p => run'[q] = run[q] /\ pc'[q] = pc[q]
    BY <1>2 DEF CallStep, Lock, LockTimesOut, Load, LoadFails, Truncate, Write, Unlock, CreateTemp,
           WriteStart, Link, Refuse, RecordExit, Exit
  <1>6. RunOf(p)' /\ (run'[p] = run[p] \/ eng[p].step = 1)
    <2>1. CASE Write(p)
      <3>1. pc[p] = "write" /\ pc'[p] = "unlock" /\ run'[p] = Picked(p)
        BY <1>2, <2>1 DEF Write
      <3>2. eng[p].step = 1
        BY <1>1, <3>1 DEF RunOf, Ended
      <3> QED BY <1>1, <1>3, <2>1, <3>1, <3>2, PickedRun DEF RunOf
    <2>2. CASE Link(p)
      <3>1. /\ pc[p] = "link" /\ run'[p] = run[p]
            /\ pc'[p] = IF run[p] = NoRun THEN "refuse" ELSE "handler"
        BY <1>2, <2>2 DEF Link
      <3>2. eng[p].step = 1
        BY <1>1, <3>1 DEF RunOf, Ended
      <3> QED BY <1>1, <1>3, <3>1, <3>2 DEF RunOf
    <2>3. CASE \/ Lock(p) \/ LockTimesOut(p) \/ Load(p) \/ LoadFails(p) \/ Truncate(p)
               \/ Unlock(p) \/ CreateTemp(p) \/ WriteStart(p)
      <3>1. /\ pc[p] \in {"lock", "load", "save", "unlock", "temp", "start"} /\ run'[p] = run[p]
            /\ pc'[p] \notin {"handler", "serve"}
        BY <1>2, <2>3 DEF Lock, LockTimesOut, Load, LoadFails, Truncate, Unlock, CreateTemp, WriteStart
      <3>2. eng[p].step = 1
        BY <1>1, <3>1 DEF RunOf, Ended
      <3> QED BY <1>1, <1>3, <3>1, <3>2 DEF RunOf
    <2>4. CASE Refuse(p) \/ RecordExit(p) \/ Exit(p)
      <3>1. /\ run'[p] = run[p] /\ pc'[p] \in {"record", "exit", "gone"}
        BY <1>2, <2>4 DEF Refuse, RecordExit, Exit
      <3> QED BY <1>1, <1>3, <3>1 DEF RunOf, Ended
    <2> QED BY <2>1, <2>2, <2>3, <2>4 DEF CallStep
  <1> QED BY <1>1, <1>3, <1>4, <1>5, <1>6, QuietKeeps

LEMMA DiesTalk ==
  ASSUME FakeInv, TalkInv, NEW p \in Proc, Dies(p), UNCHANGED <<eng, io>>
  PROVE  TalkInv'
  <1>1. /\ pc' = [pc EXCEPT ![p] = "dead"] /\ run' = run /\ scenario' = scenario
    BY DEF Dies, Goto
  <1>2. pc \in [Proc -> Labels] /\ RunOf(p)
    BY DEF FakeInv, Shape, TalkInv
  <1>3. pc'[p] = "dead" /\ \A q \in Proc : q # p => pc'[q] = pc[q]
    BY <1>1, <1>2
  <1>4. Notes(p)
    <2>1. file' = file \/ \E r : r.kind # "stdin" /\ Writes(p, r)
      BY DEF Dies, Record
    <2> QED BY <2>1, NotesIs
  <1>5. RunOf(p)'
    BY <1>1, <1>2, <1>3 DEF RunOf, Ended
  <1> QED BY <1>1, <1>3, <1>4, <1>5, QuietKeeps

LEMMA HandlerTalk ==
  ASSUME FakeInv, TalkInv, NEW p \in Proc, HandlerStep(p)
  PROVE  TalkInv'
  <1>1. UNCHANGED <<eng, io, scenario, run>>
    BY DEF HandlerStep, RecordSignal, RecordSignalExit, ExitOnSignal, beside, claimVars
  <1>2. pc \in [Proc -> Labels] /\ RunOf(p)
    BY DEF FakeInv, Shape, TalkInv
  <1>3. /\ pc' = pc \/ pc' = [pc EXCEPT ![p] = "gone"]
    BY DEF HandlerStep, RecordSignal, RecordSignalExit, ExitOnSignal, Leaves, Goto
  <1>4. /\ pc'[p] = pc[p] \/ pc'[p] = "gone"
        /\ \A q \in Proc : q # p => pc'[q] = pc[q]
    BY <1>2, <1>3
  <1>5. Notes(p)
    <2>1. file' = file \/ \E r : r.kind # "stdin" /\ Writes(p, r)
      BY DEF HandlerStep, RecordSignal, RecordSignalExit, ExitOnSignal, Record
    <2> QED BY <2>1, NotesIs
  <1>6. RunOf(p)'
    BY <1>1, <1>2, <1>4 DEF RunOf, Ended
  <1> QED BY <1>1, <1>4, <1>5, <1>6, QuietKeeps

LEMMA OutsideTalk ==
  ASSUME FakeInv, TalkInv, NEW p \in Proc,
         ((Invoke(p) \/ Kill(p)) /\ UNCHANGED engVars) \/ Terminate(p)
  PROVE  TalkInv'
  <1>1. CASE Invoke(p) /\ UNCHANGED engVars
    <2>1. UNCHANGED <<eng, io, scenario, run, file>> /\ pc[p] = "idle" /\ pc' = [pc EXCEPT ![p] = "lock"]
      BY <1>1 DEF Invoke, Goto, claimVars, engVars
    <2>2. pc \in [Proc -> Labels] /\ RunOf(p)
      BY DEF FakeInv, Shape, TalkInv
    <2>3. pc'[p] = "lock" /\ \A q \in Proc : q # p => pc'[q] = pc[q]
      BY <2>1, <2>2
    <2>4. Notes(p)
      BY <2>1, NotesIs
    <2>5. RunOf(p)'
      BY <2>1, <2>2, <2>3 DEF RunOf, Ended
    <2> QED BY <2>1, <2>3, <2>4, <2>5, QuietKeeps
  <1>2. CASE Kill(p) /\ UNCHANGED engVars
    BY <1>2, DiesTalk DEF Kill, engVars
  <1>3. CASE Terminate(p)
    <2>1. CASE term[p] = "off"
      BY <1>3, <2>1, DiesTalk DEF Terminate
    <2>2. CASE term[p] # "off"
      <3>1. UNCHANGED <<eng, io, scenario, run, file, pc>>
        BY <1>3, <2>2 DEF Terminate, claimVars
      <3>2. RunOf(p)'
        BY <3>1 DEF TalkInv, RunOf
      <3>3. Notes(p)
        BY <3>1, NotesIs
      <3> QED BY <3>1, <3>2, <3>3, QuietKeeps
    <2> QED BY <2>1, <2>2
  <1> QED BY <1>1, <1>2, <1>3

-----------------------------------------------------------------------------
(* The steps of a conversation.                                            *)

\* The step that is played is one of the transcript's.
LEMMA PlayedStep ==
  ASSUME TalkInv, FakeInv, NEW p \in Proc, Playing(p)
  PROVE  /\ Step(p) = Steps(p)[eng[p].step] /\ Step(p).frame \in Frames
         /\ Answers(Step(p).frame) =>
              /\ Step(p).form = "send" => IdKey(Step(p).frame) \in Owed(Steps(p), eng[p].step)
              /\ Step(p).form # "stdout"
  <1> DEFINE n == eng[p].step
             steps == Steps(p)
  <1>1. run[p] \in DOMAIN scenario.runs
    BY DEF TalkInv, RunOf, Playing
  <1>2. scenario \in Scenarios
    BY DEF FakeInv, Shape
  <1>3. /\ steps \in Seq(RunStep)
        /\ \A k \in 1..Len(steps) : Answers(steps[k].frame) =>
             /\ steps[k].form = "send" => IdKey(steps[k].frame) \in Owed(steps, k)
             /\ steps[k].form # "stdout"
    BY <1>1, <1>2, TranscriptAssumption DEF Steps
  <1>4. n \in Nat \ {0} /\ n <= Len(steps)
    BY TalkTypes DEF IsEngine, Playing
  <1> HIDE DEF n, steps
  <1>5. n \in 1..Len(steps)
    <2>1. Len(steps) \in Nat
      BY <1>3, LenProperties
    <2> QED BY <1>4, <2>1
  <1>6. steps[n] \in RunStep
    BY <1>3, <1>5, ElementOfSeq
  <1>7. steps[n].frame \in Frames
    BY <1>6 DEF RunStep
  <1> QED BY <1>3, <1>5, <1>7 DEF Step, n, steps

\* The engine of a run goes on, with the same lines sent and read.
LEMMA EngineMoves ==
  ASSUME FakeInv, TalkInv, NEW p \in Proc, pc[p] = "serve", UNCHANGED <<scenario, run>>,
         pc' = pc \/ pc' = [pc EXCEPT ![p] = "record"], Notes(p),
         NEW g, SetEngine(p, g), g.reader = eng[p].reader,
         NEW j, io' = [io EXCEPT ![p] = j], j.sent = io[p].sent, j.read = io[p].read,
         NEW m \in Nat, Holds(g, j, Steps(p), m)
  PROVE  TalkInv'
  <1> DEFINE e == eng[p]
             i == io[p]
             records == file[p]
             written == file'[p]
             steps == Steps(p)
  <1>1. pc \in [Proc -> Labels] /\ IsList(records)
    BY DEF FakeInv, Shape
  <1>2. /\ eng = [q \in Proc |-> eng[q]] /\ io = [q \in Proc |-> io[q]]
        /\ RunOf(p) /\ Conversation(e, i, records, steps)
    BY DEF TalkInv, Talk
  <1>3. /\ eng' = [q \in Proc |-> IF q = p THEN g ELSE eng[q]]
        /\ io' = [q \in Proc |-> IF q = p THEN j ELSE io[q]]
    BY <1>2 DEF SetEngine
  <1>4. pc'[p] \in {"serve", "record"} /\ \A q \in Proc : q # p => pc'[q] = pc[q]
    BY <1>1
  <1>5. Alone(p)
    BY <1>3, <1>4 DEF Alone, Notes
  <1>6. RunOf(p)'
    BY <1>2, <1>4 DEF RunOf, Ended
  <1>7. written = records \/ \E r : r.kind # "stdin" /\ written = Append(records, r)
    BY DEF Notes
  <1>8. g.reader = e.reader /\ j.sent = i.sent /\ j.read = i.read /\ Holds(g, j, steps, m)
    OBVIOUS
  <1> HIDE DEF e, i, records, written, steps
  <1>9. PICK d \in Nat : Holds(e, i, steps, d)
    BY <1>2 DEF Conversation
  <1>10. Talks(e, i, d) /\ Recorded(e, i, records)
    BY <1>2, <1>9 DEF Conversation, Holds
  <1>11. Conversation(g, j, written, steps)
    BY <1>1, <1>7, <1>8, <1>10, Converses
  <1>12. Steps(p)' = Steps(p) /\ eng'[p] = g /\ io'[p] = j
    BY <1>3 DEF Steps
  <1>13. Talk(p)'
    BY <1>11, <1>12 DEF Talk, written, steps
  <1> QED BY <1>5, <1>6, <1>13, AloneKeeps

\* What is printed.
LEMMA PrintsWrote ==
  ASSUME TalkInv, NEW p \in Proc, NEW f, Prints(p, f)
  PROVE  io' = [io EXCEPT ![p] = Wrote(io[p], f)]
  <1> DEFINE i == io[p]
  <1>1. ArePipes(i)
    BY TalkTypes
  <1>2. io' = [io EXCEPT ![p] = [i EXCEPT !.out = Append(i.out, f)]]
    BY DEF Prints
  <1> HIDE DEF i
  <1>3. [i EXCEPT !.out = Append(i.out, f)] = Wrote(i, f)
    BY <1>1 DEF ArePipes, Wrote
  <1> QED BY <1>2, <1>3 DEF i

LEMMA PipesSame ==
  ASSUME TalkInv, NEW p \in Proc, UNCHANGED io
  PROVE  io' = [io EXCEPT ![p] = io[p]]
  BY DEF TalkInv

\* What the engine is at, when it plays.
LEMMA AtStep ==
  ASSUME TalkInv, NEW p \in Proc
  PROVE  /\ \E d \in Nat : Holds(eng[p], io[p], Steps(p), d)
         /\ Taken(p) = Taking(eng[p]) /\ Line(p) = First(eng[p])
         /\ HasLine(p) <=> eng[p].pending # <<>> \/ eng[p].lines # <<>>
  BY DEF TalkInv, Talk, Conversation, Taken, Taking, Line, First, HasLine

LEMMA WroteIs ==
  ASSUME NEW i, NEW f
  PROVE  Wrote(i, f).sent = i.sent /\ Wrote(i, f).read = i.read
  BY DEF Wrote

LEMMA OutputTalk ==
  ASSUME FakeInv, TalkInv, NEW p \in Proc, Output(p)
  PROVE  TalkInv'
  <1> DEFINE e == eng[p]
             i == io[p]
             steps == Steps(p)
             g == Advance(e)
             at == Step(p)
  <1>1. /\ pc[p] = "serve" /\ Playing(p) /\ at.form \in {"stdout", "stderr", "send"}
        /\ UNCHANGED <<scenario, run, pc, file>> /\ SetEngine(p, g)
    BY DEF Output, Plays, Playing, GoesOn, aside, claimVars
  <1>2. Notes(p)
    BY <1>1, NotesIs
  <1>3. PICK d \in Nat : Holds(e, i, steps, d)
    BY AtStep
  <1>4. /\ at = steps[e.step] /\ at.frame \in Frames
        /\ Answers(at.frame) =>
              /\ at.form = "send" => IdKey(at.frame) \in Owed(steps, e.step)
              /\ at.form # "stdout"
    BY <1>1, PlayedStep
  <1>5. CASE at.form = "stderr"
    <2>1. io' = [io EXCEPT ![p] = i]
      BY <1>5, PipesSame DEF Output
    <2> HIDE DEF e, i, steps, at, g
    <2>2. Holds(g, i, steps, d) /\ g.reader = e.reader
      BY <1>3, <1>4, <1>5, GoesToNext DEF g
    <2> QED BY <1>1, <1>2, <2>1, <2>2, EngineMoves DEF e, i, steps
  <1>6. CASE at.form # "stderr"
    <2> DEFINE f == IF at.form = "send" THEN Remap(e.ids, at.frame) ELSE at.frame
               j == Wrote(i, f)
    <2>1. Prints(p, f)
      BY <1>6 DEF Output
    <2>2. io' = [io EXCEPT ![p] = j]
      BY <2>1, PrintsWrote
    <2>3. Repaid(e.ids, i.out, Owed(steps, e.step), Known(i.sent, d))
      BY <1>3 DEF Holds
    <2> HIDE DEF e, i, steps, at, g
    <2>4. \/ ~Answers(f)
          \/ /\ at.form = "send" /\ Answers(at.frame) /\ IdKey(at.frame) \in Owed(steps, e.step)
             /\ f.id = e.ids[IdKey(at.frame)]
      <3>1. CASE ~Answers(at.frame)
        BY <3>1 DEF Remap
      <3>2. CASE Answers(at.frame)
        <4> DEFINE key == IdKey(at.frame)
        <4>1. at.form = "send" /\ key \in Owed(steps, e.step)
          BY <1>1, <1>4, <1>6, <3>2
        <4>2. key \in DOMAIN e.ids
          BY <2>3, <4>1 DEF Repaid
        <4>3. f = [at.frame EXCEPT !.id = e.ids[key]]
          BY <3>2, <4>1, <4>2 DEF Remap
        <4>4. DOMAIN at.frame = {"kind", "name", "id"}
          BY <1>4 DEF Frames
        <4>5. f.id = e.ids[key]
          BY <4>3, <4>4
        <4> QED BY <3>2, <4>1, <4>5
      <3> QED BY <3>1, <3>2
    <2> HIDE DEF f
    <2>5. Holds(g, j, steps, d) /\ g.reader = e.reader
      <3>1. steps[e.step].form # "recv"
        BY <1>1, <1>4
      <3> QED BY <1>3, <1>4, <2>4, <3>1, WritesNext DEF g
    <2>6. j.sent = i.sent /\ j.read = i.read
      BY WroteIs
    <2> HIDE DEF j
    <2> QED BY <1>1, <1>2, <2>2, <2>5, <2>6, EngineMoves DEF e, i, steps
  <1> QED BY <1>5, <1>6

LEMMA RecvMatchesTalk ==
  ASSUME FakeInv, TalkInv, NEW p \in Proc, RecvMatches(p)
  PROVE  TalkInv'
  <1> DEFINE e == eng[p]
             i == io[p]
             steps == Steps(p)
             at == Step(p)
             g == Advance([Taking(e) EXCEPT !.ids = Remember(@, at.frame, First(e))])
  <1>1. /\ pc[p] = "serve" /\ Playing(p) /\ UNCHANGED <<scenario, run, pc, file, io>>
        /\ Matches(at.frame, First(e)) /\ (e.pending # <<>> \/ e.lines # <<>>)
        /\ SetEngine(p, g)
    BY AtStep DEF RecvMatches, Plays, Playing, GoesOn, aside, claimVars
  <1>2. Notes(p) /\ io' = [io EXCEPT ![p] = i]
    BY <1>1, NotesIs, PipesSame
  <1>3. PICK d \in Nat : Holds(e, i, steps, d)
    BY AtStep
  <1>4. at = steps[e.step] /\ at.frame \in Frames
    BY <1>1, PlayedStep
  <1>5. Asks(at.frame) => Asks(First(e))
    BY <1>1 DEF Matches, Asks
  <1> HIDE DEF e, i, steps, at
  <1>6. Holds(g, i, steps, d + 1) /\ g.reader = e.reader
    BY <1>1, <1>3, <1>4, <1>5, Receives
  <1>7. d + 1 \in Nat
    OBVIOUS
  <1> HIDE DEF g
  <1> QED BY <1>1, <1>2, <1>6, <1>7, EngineMoves DEF e, i, steps

LEMMA RecvSkipsTalk ==
  ASSUME FakeInv, TalkInv, NEW p \in Proc, RecvSkips(p)
  PROVE  TalkInv'
  <1> DEFINE e == eng[p]
             i == io[p]
             steps == Steps(p)
             at == Step(p)
             g == Advance([Taking(e) EXCEPT !.pending = <<First(e)>>])
  <1>1. /\ pc[p] = "serve" /\ Playing(p) /\ UNCHANGED <<scenario, run, pc, io>>
        /\ at.frame.kind = "notification" /\ (e.pending # <<>> \/ e.lines # <<>>)
        /\ SetEngine(p, g) /\ Writes(p, Record("note", "not sent"))
    BY AtStep DEF RecvSkips, Plays, Playing, GoesOn, aside, claimVars
  <1>2. Notes(p) /\ io' = [io EXCEPT ![p] = i]
    BY <1>1, NotesIs, PipesSame DEF Record
  <1>3. PICK d \in Nat : Holds(e, i, steps, d)
    BY AtStep
  <1>4. at = steps[e.step]
    BY <1>1, PlayedStep
  <1>5. ~Asks(at.frame)
    BY <1>1 DEF Asks
  <1> HIDE DEF e, i, steps, at
  <1>6. Holds(g, i, steps, d) /\ g.reader = e.reader
    BY <1>1, <1>3, <1>4, <1>5, Skips
  <1> HIDE DEF g
  <1> QED BY <1>1, <1>2, <1>6, EngineMoves DEF e, i, steps

\* A line is taken, and refused if it is a request.
LEMMA TakesLineTalk ==
  ASSUME FakeInv, TalkInv, NEW p \in Proc, pc[p] = "serve", UNCHANGED <<scenario, run, pc>>,
         HasLine(p), Notes(p), SetEngine(p, Taken(p)),
         \/ UNCHANGED io
         \/ /\ Line(p).kind = "request" /\ Prints(p, ErrorReply(Line(p)))
         \/ Prints(p, Frame("line", "echo", Line(p).id))
  PROVE  TalkInv'
  <1> DEFINE e == eng[p]
             i == io[p]
             steps == Steps(p)
             g == Taking(e)
  <1>1. /\ e.pending # <<>> \/ e.lines # <<>>
        /\ SetEngine(p, g) /\ Line(p) = First(e)
    BY AtStep
  <1>2. PICK d \in Nat : Holds(e, i, steps, d)
    BY AtStep
  <1>3. d + 1 \in Nat
    OBVIOUS
  <1>4. g.reader = e.reader
    <2>1. Talks(e, i, d)
      BY <1>2 DEF Holds
    <2> HIDE DEF e, i
    <2> QED BY <1>1, <2>1, TalkTakes
  <1>5. CASE UNCHANGED io
    <2>1. io' = [io EXCEPT ![p] = i]
      BY <1>5, PipesSame
    <2> HIDE DEF e, i, steps
    <2>2. Holds(g, i, steps, d + 1)
      BY <1>1, <1>2, TakesQuietly
    <2> HIDE DEF g
    <2> QED BY <1>1, <1>3, <1>4, <2>1, <2>2, EngineMoves DEF e, i, steps
  <1>6. ASSUME NEW f, Prints(p, f), ~Answers(f) \/ (Asks(First(e)) /\ f.id = First(e).id)
        PROVE  TalkInv'
    <2> DEFINE j == Wrote(i, f)
    <2>1. io' = [io EXCEPT ![p] = j]
      BY <1>6, PrintsWrote
    <2> HIDE DEF e, i, steps
    <2>2. Holds(g, j, steps, d + 1)
      BY <1>1, <1>2, <1>6, TakesAndWrites
    <2>3. j.sent = i.sent /\ j.read = i.read
      BY WroteIs
    <2> HIDE DEF g, j
    <2> QED BY <1>1, <1>3, <1>4, <2>1, <2>2, <2>3, EngineMoves DEF e, i, steps
  <1>7. CASE Line(p).kind = "request" /\ Prints(p, ErrorReply(Line(p)))
    <2> DEFINE f == ErrorReply(Line(p))
    <2>1. Asks(First(e)) /\ f.id = First(e).id
      BY <1>1, <1>7 DEF Asks, ErrorReply, Frame
    <2> HIDE DEF e, f
    <2> QED BY <1>6, <1>7, <2>1 DEF f
  <1>8. CASE Prints(p, Frame("line", "echo", Line(p).id))
    <2> DEFINE f == Frame("line", "echo", Line(p).id)
    <2>1. ~Answers(f)
      BY DEF Answers, Frame
    <2> HIDE DEF e, f
    <2> QED BY <1>6, <1>8, <2>1 DEF f
  <1> QED BY <1>5, <1>7, <1>8

\* No line is taken, or one that is passed over.
LEMMA GoesOnTalk ==
  ASSUME FakeInv, TalkInv, NEW p \in Proc, Playing(p), UNCHANGED <<scenario, run, pc, file, io>>,
         Step(p).form # "recv",
         \/ SetEngine(p, Advance(eng[p]))
         \/ HasLine(p) /\ SetEngine(p, Advance(Taken(p)))
  PROVE  TalkInv'
  <1> DEFINE e == eng[p]
             i == io[p]
             steps == Steps(p)
  <1>1. Notes(p) /\ io' = [io EXCEPT ![p] = i] /\ pc[p] = "serve"
    BY NotesIs, PipesSame DEF Playing
  <1>2. PICK d \in Nat : Holds(e, i, steps, d)
    BY AtStep
  <1>3. steps[e.step].form # "recv"
    BY PlayedStep
  <1>4. CASE SetEngine(p, Advance(e))
    <2> DEFINE g == Advance(e)
    <2> HIDE DEF e, i, steps
    <2>1. Holds(g, i, steps, d) /\ g.reader = e.reader
      BY <1>2, <1>3, GoesToNext
    <2> HIDE DEF g
    <2> QED BY <1>1, <1>4, <2>1, EngineMoves DEF e, i, steps, g
  <1>5. CASE HasLine(p) /\ SetEngine(p, Advance(Taken(p)))
    <2> DEFINE h == Taking(e)
               g == Advance(h)
    <2>1. SetEngine(p, g) /\ (e.pending # <<>> \/ e.lines # <<>>)
      BY <1>5, AtStep
    <2>2. Talks(e, i, d)
      BY <1>2 DEF Holds
    <2> HIDE DEF e, i, steps, g
    <2>3. Holds(h, i, steps, d + 1) /\ h.step = e.step /\ h.reader = e.reader
      BY <1>2, <2>1, <2>2, TakesQuietly, TalkTakes
    <2>5. steps[h.step].form # "recv"
      BY <1>3, <2>3
    <2> HIDE DEF h
    <2>4. Holds(g, i, steps, d + 1) /\ g.reader = h.reader
      BY <2>3, <2>5, GoesToNext DEF g
    <2>6. d + 1 \in Nat
      OBVIOUS
    <2> QED BY <1>1, <2>1, <2>3, <2>4, <2>6, EngineMoves DEF e, i, steps
  <1> QED BY <1>4, <1>5

LEMMA InstallTalk ==
  ASSUME FakeInv, TalkInv, NEW p \in Proc, InstallHandler(p)
  PROVE  TalkInv'
  <1>1. /\ UNCHANGED <<eng, io, scenario, run, file>> /\ pc[p] = "handler"
        /\ pc' = [pc EXCEPT ![p] = "serve"]
    BY DEF InstallHandler, Goto, claimVars
  <1>2. pc \in [Proc -> Labels] /\ RunOf(p)
    BY DEF FakeInv, Shape, TalkInv
  <1>3. pc'[p] = "serve" /\ \A q \in Proc : q # p => pc'[q] = pc[q]
    BY <1>1, <1>2
  <1>4. Notes(p)
    BY <1>1, NotesIs
  <1>5. RunOf(p)'
    BY <1>1, <1>2, <1>3 DEF RunOf, Ended
  <1> QED BY <1>1, <1>3, <1>4, <1>5, QuietKeeps

\* The engine stops: its last record is no line of stdin.
LEMMA StopsTalk ==
  ASSUME FakeInv, TalkInv, NEW p \in Proc, pc[p] = "serve", UNCHANGED <<eng, io, scenario, run>>,
         pc' = [pc EXCEPT ![p] = "record"], Notes(p)
  PROVE  TalkInv'
  <1>1. pc \in [Proc -> Labels] /\ RunOf(p)
    BY DEF FakeInv, Shape, TalkInv
  <1>2. pc'[p] = "record" /\ \A q \in Proc : q # p => pc'[q] = pc[q]
    BY <1>1
  <1>3. RunOf(p)'
    BY <1>1, <1>2 DEF RunOf, Ended
  <1> QED BY <1>2, <1>3, QuietKeeps

LEMMA EngineTalk ==
  ASSUME FakeInv, TalkInv, NEW p \in Proc, EngineStep(p)
  PROVE  TalkInv'
  <1> USE DEF Plays, Playing, GoesOn, aside, claimVars
  <1>1. CASE RecvOther(p)
    <2>1. \E r : r.kind # "stdin" /\ Writes(p, r)
      BY <1>1 DEF RecvOther, Record
    <2>2. Notes(p)
      BY <2>1, NotesIs
    <2> QED BY <1>1, <2>2, TakesLineTalk DEF RecvOther
  <1>2. CASE RecvFails(p)
    <2>1. Notes(p)
      <3>1. \E r : r.kind # "stdin" /\ Writes(p, r)
        BY <1>2 DEF RecvFails, Record
      <3> QED BY <3>1, NotesIs
    <2> QED BY <1>2, <2>1, StopsTalk DEF RecvFails, Finishes, Goto
  <1>3. CASE RecvText(p)
    BY <1>3, GoesOnTalk DEF RecvText
  <1>4. CASE EchoLine(p)
    <2>1. Notes(p)
      BY <1>4, NotesIs DEF EchoLine
    <2> QED BY <1>4, <2>1, TakesLineTalk DEF EchoLine
  <1>5. CASE DrainLine(p)
    <2>1. Notes(p)
      <3>1. file' = file \/ \E r : r.kind # "stdin" /\ Writes(p, r)
        BY <1>5 DEF DrainLine, Record
      <3> QED BY <3>1, NotesIs
    <2> QED BY <1>5, <2>1, TakesLineTalk DEF DrainLine
  <1>6. CASE Passes(p)
    BY <1>6, GoesOnTalk DEF Passes
  <1>7. CASE RunEnds(p)
    <2>1. Notes(p)
      BY <1>7, NotesIs DEF RunEnds
    <2> QED BY <1>7, <2>1, StopsTalk DEF RunEnds, Finishes, Goto
  <1> QED BY <1>1, <1>2, <1>3, <1>4, <1>5, <1>6, <1>7, InstallTalk, OutputTalk, RecvMatchesTalk,
             RecvSkipsTalk DEF EngineStep

\* The reader or the client moves.
LEMMA PipesMove ==
  ASSUME FakeInv, TalkInv, NEW p \in Proc, UNCHANGED <<scenario, run, pc>>,
         NEW g, eng' = [eng EXCEPT ![p] = g], NEW j, io' = [io EXCEPT ![p] = j],
         g.step = eng[p].step,
         file' = [q \in Proc |-> file'[q]], \A q \in Proc : q # p => file'[q] = file[q],
         Conversation(g, j, file'[p], Steps(p))
  PROVE  TalkInv'
  <1>1. /\ eng = [q \in Proc |-> eng[q]] /\ io = [q \in Proc |-> io[q]] /\ RunOf(p)
    BY DEF TalkInv
  <1>2. /\ eng' = [q \in Proc |-> IF q = p THEN g ELSE eng[q]]
        /\ io' = [q \in Proc |-> IF q = p THEN j ELSE io[q]]
    BY <1>1
  <1>3. Alone(p)
    BY <1>2 DEF Alone
  <1>4. RunOf(p)'
    BY <1>1, <1>2 DEF RunOf
  <1>5. Steps(p)' = Steps(p) /\ eng'[p] = g /\ io'[p] = j
    BY <1>2 DEF Steps
  <1>6. Talk(p)'
    BY <1>5 DEF Talk
  <1> QED BY <1>3, <1>4, <1>6, AloneKeeps

LEMMA FileSame ==
  ASSUME FakeInv, NEW p \in Proc, UNCHANGED file
  PROVE  /\ file' = [q \in Proc |-> file'[q]] /\ \A q \in Proc : q # p => file'[q] = file[q]
         /\ file'[p] = file[p]
  BY DEF FakeInv, Shape

\* What the reader and the client change.
Held(e, held, at) == [e EXCEPT !.hold = held, !.reader = at]
Moved(e, lines, held, at) == [e EXCEPT !.lines = lines, !.hold = held, !.reader = at]

LEMMA HeldIs ==
  ASSUME NEW e, IsEngine(e), NEW held, NEW at
  PROVE  Held(e, held, at) =
           [step |-> e.step, pending |-> e.pending, lines |-> e.lines, hold |-> held,
            reader |-> at, ids |-> e.ids]
  <1> DEFINE mid == [step |-> e.step, pending |-> e.pending, lines |-> e.lines, hold |-> held,
                     reader |-> e.reader, ids |-> e.ids]
  <1>1. Held(e, held, at) = [[e EXCEPT !.hold = held] EXCEPT !.reader = at]
    BY DEF Held
  <1>2. [e EXCEPT !.hold = held] = mid
    BY DEF IsEngine
  <1>3. [mid EXCEPT !.reader = at] =
          [step |-> e.step, pending |-> e.pending, lines |-> e.lines, hold |-> held,
           reader |-> at, ids |-> e.ids]
    OBVIOUS
  <1> HIDE DEF mid
  <1> QED BY <1>1, <1>2, <1>3

LEMMA MovedIs ==
  ASSUME NEW e, IsEngine(e), NEW lines, NEW held, NEW at
  PROVE  Moved(e, lines, held, at) =
           [step |-> e.step, pending |-> e.pending, lines |-> lines, hold |-> held,
            reader |-> at, ids |-> e.ids]
  <1> DEFINE one == [step |-> e.step, pending |-> e.pending, lines |-> lines, hold |-> e.hold,
                     reader |-> e.reader, ids |-> e.ids]
             two == [step |-> e.step, pending |-> e.pending, lines |-> lines, hold |-> held,
                     reader |-> e.reader, ids |-> e.ids]
  <1>1. Moved(e, lines, held, at) =
          [[[e EXCEPT !.lines = lines] EXCEPT !.hold = held] EXCEPT !.reader = at]
    BY DEF Moved
  <1>2. [e EXCEPT !.lines = lines] = one
    BY DEF IsEngine
  <1>3. [one EXCEPT !.hold = held] = two
    OBVIOUS
  <1>4. [two EXCEPT !.reader = at] =
          [step |-> e.step, pending |-> e.pending, lines |-> lines, hold |-> held,
           reader |-> at, ids |-> e.ids]
    OBVIOUS
  <1> HIDE DEF one, two
  <1> QED BY <1>1, <1>2, <1>3, <1>4

LEMMA PipesSet ==
  ASSUME NEW i, ArePipes(i), NEW open, NEW j, j = [i EXCEPT !.open = open]
  PROVE  j = [sent |-> i.sent, read |-> i.read, open |-> open, out |-> i.out]
  BY DEF ArePipes

LEMMA ReaderTalk ==
  ASSUME FakeInv, TalkInv, NEW p \in Proc, ReaderStep(p)
  PROVE  TalkInv'
  <1> DEFINE e == eng[p]
             i == io[p]
             records == file[p]
             steps == Steps(p)
  <1>1. UNCHANGED <<scenario, run, pc>>
    BY DEF ReaderStep, ReadLine, RecordLine, HandOn, ReadEnds, GoesOn, aside, claimVars
  <1>2. /\ Conversation(e, i, records, steps) /\ IsList(records) /\ IsEngine(e) /\ ArePipes(i)
    BY TalkTypes DEF TalkInv, Talk, FakeInv, Shape
  <1>3. CASE ReadLine(p)
    <2> DEFINE n == i.read + 1
               taken == <<i.sent[n]>>
               g == [step |-> e.step, pending |-> e.pending, lines |-> e.lines,
                     hold |-> taken, reader |-> "record", ids |-> e.ids]
               j == [sent |-> i.sent, read |-> n, open |-> i.open, out |-> i.out]
    <2>1. /\ eng' = [eng EXCEPT ![p] = Held(e, taken, "record")]
          /\ io' = [io EXCEPT ![p] = [i EXCEPT !.read = n]]
          /\ e.reader = "read" /\ i.read < Len(i.sent)
      BY <1>3 DEF ReadLine, SetEngine, Held
    <2>2. file' = [q \in Proc |-> file'[q]] /\ (\A q \in Proc : q # p => file'[q] = file[q])
          /\ file'[p] = records
      BY <1>3, FileSame DEF ReadLine
    <2> HIDE DEF e, i, records, steps
    <2>3. Held(e, taken, "record") = g /\ [i EXCEPT !.read = n] = j
      <3> HIDE DEF n, taken
      <3>1. Held(e, taken, "record") = g
        BY <1>2, HeldIs
      <3>2. [i EXCEPT !.read = n] = j
        BY <1>2 DEF ArePipes
      <3> QED BY <3>1, <3>2
    <2>4. Conversation(g, j, records, steps) /\ g.step = e.step
      BY <1>2, <2>1, ReaderReads
    <2>5. eng' = [eng EXCEPT ![p] = g] /\ io' = [io EXCEPT ![p] = j]
      BY <2>1, <2>3
    <2> HIDE DEF g, j
    <2> QED BY <1>1, <2>2, <2>4, <2>5, PipesMove DEF e, steps
  <1>4. CASE RecordLine(p)
    <2> DEFINE g == [step |-> e.step, pending |-> e.pending, lines |-> e.lines,
                     hold |-> e.hold, reader |-> "send", ids |-> e.ids]
               r == Record("stdin", Head(e.hold))
    <2>1. /\ eng' = [eng EXCEPT ![p] = [e EXCEPT !.reader = "send"]] /\ UNCHANGED io
          /\ e.reader = "record" /\ Writes(p, r)
      BY <1>4 DEF RecordLine, SetEngine
    <2>2. file' = [q \in Proc |-> file'[q]] /\ (\A q \in Proc : q # p => file'[q] = file[q])
          /\ file'[p] = Append(records, r)
      BY <2>1 DEF FakeInv, Shape, Writes
    <2>3. io' = [io EXCEPT ![p] = i]
      BY <2>1, PipesSame
    <2> HIDE DEF e, i, records, steps
    <2>4. [e EXCEPT !.reader = "send"] = g
      BY <1>2 DEF IsEngine
    <2>5. Conversation(g, i, Append(records, r), steps) /\ g.step = e.step
      BY <1>2, <2>1, ReaderRecords
    <2>6. eng' = [eng EXCEPT ![p] = g]
      BY <2>1, <2>4
    <2> HIDE DEF g
    <2> QED BY <1>1, <2>2, <2>3, <2>5, <2>6, PipesMove DEF e, steps
  <1>5. CASE HandOn(p)
    <2> DEFINE lines == e.lines \o e.hold
               none == <<>>
               g == [step |-> e.step, pending |-> e.pending, lines |-> lines,
                     hold |-> none, reader |-> "read", ids |-> e.ids]
    <2>1. /\ eng' = [eng EXCEPT ![p] = Moved(e, lines, none, "read")]
          /\ UNCHANGED io /\ e.reader = "send"
      BY <1>5 DEF HandOn, SetEngine, Moved
    <2>2. file' = [q \in Proc |-> file'[q]] /\ (\A q \in Proc : q # p => file'[q] = file[q])
          /\ file'[p] = records
      BY <1>5, FileSame DEF HandOn
    <2>3. io' = [io EXCEPT ![p] = i]
      BY <2>1, PipesSame
    <2> HIDE DEF e, i, records, steps
    <2>4. Moved(e, lines, none, "read") = g
      <3> HIDE DEF lines, none
      <3> QED BY <1>2, MovedIs
    <2>5. Conversation(g, i, records, steps) /\ g.step = e.step
      BY <1>2, <2>1, ReaderHandsOn
    <2>6. eng' = [eng EXCEPT ![p] = g]
      BY <2>1, <2>4
    <2> HIDE DEF g
    <2> QED BY <1>1, <2>2, <2>3, <2>5, <2>6, PipesMove DEF e, steps
  <1>6. CASE ReadEnds(p)
    <2> DEFINE g == [step |-> e.step, pending |-> e.pending, lines |-> e.lines,
                     hold |-> e.hold, reader |-> "done", ids |-> e.ids]
    <2>1. /\ eng' = [eng EXCEPT ![p] = [e EXCEPT !.reader = "done"]]
          /\ UNCHANGED io /\ e.reader = "read"
      BY <1>6 DEF ReadEnds, SetEngine
    <2>2. file' = [q \in Proc |-> file'[q]] /\ (\A q \in Proc : q # p => file'[q] = file[q])
          /\ file'[p] = records
      BY <1>6, FileSame DEF ReadEnds
    <2>3. io' = [io EXCEPT ![p] = i]
      BY <2>1, PipesSame
    <2> HIDE DEF e, i, records, steps
    <2>4. [e EXCEPT !.reader = "done"] = g
      BY <1>2 DEF IsEngine
    <2>5. Conversation(g, i, records, steps) /\ g.step = e.step
      BY <1>2, <2>1, ReaderEnds
    <2>6. eng' = [eng EXCEPT ![p] = g]
      BY <2>1, <2>4
    <2> HIDE DEF g
    <2> QED BY <1>1, <2>2, <2>3, <2>5, <2>6, PipesMove DEF e, steps
  <1> QED BY <1>3, <1>4, <1>5, <1>6 DEF ReaderStep

LEMMA ClientTalk ==
  ASSUME FakeInv, TalkInv, NEW p \in Proc, Send(p) \/ CloseStdin(p)
  PROVE  TalkInv'
  <1> DEFINE e == eng[p]
             i == io[p]
             records == file[p]
             steps == Steps(p)
  <1>1. UNCHANGED <<scenario, run, pc, file, eng>>
    BY DEF Send, CloseStdin, callVars, claimVars
  <1>2. /\ Conversation(e, i, records, steps) /\ IsList(records) /\ IsEngine(e) /\ ArePipes(i)
    BY TalkTypes DEF TalkInv, Talk, FakeInv, Shape
  <1>3. /\ file' = [q \in Proc |-> file'[q]] /\ (\A q \in Proc : q # p => file'[q] = file[q])
        /\ file'[p] = records
    BY <1>1, FileSame
  <1>4. eng' = [eng EXCEPT ![p] = e]
    BY <1>1 DEF TalkInv
  <1>5. CASE Send(p)
    <2>1. PICK sent \in scenario.frames :
            io' = [io EXCEPT ![p].sent = Append(@,
                     IF Asks(sent) THEN [sent EXCEPT !.id = LiveId(Len(io[p].sent))] ELSE sent)]
      BY <1>5 DEF Send
    <2> DEFINE n == LiveId(Len(i.sent))
               f == IF Asks(sent) THEN [sent EXCEPT !.id = n] ELSE sent
               all == Append(i.sent, f)
               j == [sent |-> all, read |-> i.read, open |-> i.open, out |-> i.out]
    <2>2. io' = [io EXCEPT ![p] = [i EXCEPT !.sent = all]]
      BY <2>1
    <2>3. sent \in Frames
      <3>1. scenario \in Scenarios
        BY DEF FakeInv, Shape
      <3> QED BY <2>1, <3>1, TranscriptAssumption
    <2> HIDE DEF e, i, records, steps
    <2>4. n \in Nat
      <3>1. PICK d \in Nat : Holds(e, i, steps, d)
        BY <1>2 DEF Conversation
      <3>2. Waiting(d, e.pending, e.lines, e.hold, i.sent, i.read)
        BY <3>1 DEF Holds, Talks
      <3>3. Len(i.sent) \in Nat
        BY <3>2, WaitingTypes
      <3> QED BY <3>3 DEF LiveId
    <2>5. f \in Frames /\ (Asks(f) => f.id = n)
      <3> HIDE DEF n
      <3> QED BY <2>3, <2>4 DEF Frames
    <2>6. [i EXCEPT !.sent = all] = j
      <3> HIDE DEF all
      <3> QED BY <1>2 DEF ArePipes
    <2> HIDE DEF f
    <2>7. Conversation(e, j, records, steps)
      BY <1>2, <2>5, ClientSends
    <2>8. io' = [io EXCEPT ![p] = j] /\ e.step = eng[p].step
      BY <2>2, <2>6 DEF e
    <2> HIDE DEF j
    <2> QED BY <1>1, <1>3, <1>4, <2>7, <2>8, PipesMove DEF steps
  <1>6. CASE CloseStdin(p)
    <2> DEFINE j == [i EXCEPT !.open = FALSE]
    <2>1. io' = [io EXCEPT ![p] = j]
      BY <1>6 DEF CloseStdin
    <2> HIDE DEF e, i, records, steps
    <2>2. j = [sent |-> i.sent, read |-> i.read, open |-> FALSE, out |-> i.out]
      <3> DEFINE open == FALSE
      <3>1. j = [i EXCEPT !.open = open]
        OBVIOUS
      <3> HIDE DEF open, j
      <3>2. j = [sent |-> i.sent, read |-> i.read, open |-> open, out |-> i.out]
        BY <1>2, <3>1, PipesSet
      <3> QED BY <3>2 DEF open
    <2> HIDE DEF j
    <2>3. Conversation(e, j, records, steps)
      <3> DEFINE open == FALSE
      <3>1. j = [sent |-> i.sent, read |-> i.read, open |-> open, out |-> i.out]
        BY <2>2
      <3> HIDE DEF open
      <3> QED BY <1>2, <3>1, ClientCloses
    <2>4. io' = [io EXCEPT ![p] = j] /\ e.step = eng[p].step
      BY <2>1 DEF e
    <2> QED BY <1>1, <1>3, <1>4, <2>3, <2>4, PipesMove DEF steps
  <1> QED BY <1>5, <1>6

LEMMA InitTalk == Init => TalkInv
  <1> SUFFICES ASSUME Init, NEW p \in Proc PROVE RunOf(p) /\ Talk(p)
    BY DEF Init, TalkInv
  <1> DEFINE e == eng[p]
             i == io[p]
             steps == Steps(p)
             none == <<>>
  <1>1. /\ run[p] = NoRun /\ pc[p] = "idle" /\ file[p] = none
        /\ e = [step |-> 1, pending |-> none, lines |-> none, hold |-> none,
                reader |-> "read", ids |-> [k \in {} |-> 0]]
        /\ i = [sent |-> none, read |-> 0, open |-> scenario.frames # {}, out |-> none]
    BY DEF Init, CallsInit, NewEngine, NewPipes
  <1>2. RunOf(p)
    BY <1>1 DEF RunOf
  <1>3. IsList(none) /\ none \in Seq(Frames) /\ Len(none) = 0 /\ DOMAIN none = {}
    BY ListEmpty, EmptyFrames
  <1>4. Tells(none, none, 0)
    BY TellsNothing
  <1>5. file[p] = none
    BY <1>1
  <1> HIDE DEF e, i, steps, none
  <1>6. /\ e.step = 1 /\ e.pending = none /\ e.lines = none /\ e.hold = none
        /\ e.reader = "read" /\ DOMAIN e.ids = {}
        /\ i.sent = none /\ i.read = 0 /\ i.out = none
    BY <1>1
  <1>7. IsEngine(e) /\ ArePipes(i)
    BY <1>1, <1>3, <1>6 DEF IsEngine, ArePipes
  <1>8. Waiting(0, none, none, none, none, 0)
    BY <1>3 DEF Waiting
  <1>9. Talks(e, i, 0)
    BY <1>3, <1>6, <1>7, <1>8 DEF Talks, Asked, none
  <1>10. Repaid(e.ids, i.out, Owed(steps, e.step), Known(i.sent, 0))
    <2>1. Replies(i.out) = {} /\ Owed(steps, e.step) = {}
      BY <1>3, <1>6 DEF Replies, Owed
    <2> QED BY <1>6, <2>1 DEF Repaid
  <1>11. Holds(e, i, steps, 0)
    BY <1>9, <1>10 DEF Holds
  <1>12. Recorded(e, i, none)
    BY <1>4, <1>6 DEF Recorded
  <1>13. Conversation(e, i, none, steps)
    BY <1>11, <1>12 DEF Conversation
  <1>14. Talk(p)
    BY <1>5, <1>13 DEF Talk, e, i, steps
  <1> QED BY <1>2, <1>14

LEMMA NextTalk == FakeInv /\ TalkInv /\ [Next]_vars => TalkInv'
  <1> SUFFICES ASSUME FakeInv, TalkInv, [Next]_vars PROVE TalkInv'
    OBVIOUS
  <1>1. CASE UNCHANGED vars
    <2>1. UNCHANGED <<scenario, run, pc, file, eng, io>>
      BY <1>1 DEF vars, callVars, engVars, claimVars
    <2>2. ASSUME NEW p \in Proc PROVE RunOf(p)' /\ Talk(p)'
      <3>1. RunOf(p) /\ Talk(p)
        BY DEF TalkInv
      <3>2. Steps(p)' = Steps(p)
        BY <2>1 DEF Steps
      <3>3. RunOf(p)'
        BY <2>1, <3>1 DEF RunOf
      <3>4. Talk(p)'
        BY <2>1, <3>1, <3>2 DEF Talk
      <3> QED BY <3>3, <3>4
    <2> QED BY <2>1, <2>2 DEF TalkInv
  <1>2. ASSUME NEW p \in Proc, ProcessStep(p) PROVE TalkInv'
    BY <1>2, CallTalk, EngineTalk, ReaderTalk, HandlerTalk DEF ProcessStep
  <1> QED BY <1>1, <1>2, ClientTalk, OutsideTalk DEF Next

LEMMA TalkInvariant == Spec => [](FakeInv /\ TalkInv)
  BY InitFake, NextFake, InitTalk, NextTalk, PTL DEF Spec

\* What the call file says of stdin is what was sent, in order, as far as the engine has
\* acted on it and further (serve.go: readLines records a line before it is handed on).
THEOREM InputRecorded == Spec => []InputIsRecorded
  <1>1. FakeInv /\ TalkInv => InputIsRecorded
    <2> SUFFICES ASSUME FakeInv, TalkInv, NEW p \in Proc
                 PROVE  LET told == Told(file[p])
                            actedOn == io[p].read - Len(eng[p].hold) - Len(eng[p].lines)
                        IN  /\ actedOn <= Len(told) /\ Len(told) <= io[p].read
                            /\ \A k \in DOMAIN told : file[p][told[k]].what = io[p].sent[k]
      BY DEF InputIsRecorded
    <2> DEFINE e == eng[p]
               i == io[p]
               records == file[p]
               told == Told(records)
               steps == Steps(p)
    <2>1. Conversation(e, i, records, steps) /\ IsList(records)
      BY DEF TalkInv, Talk, FakeInv, Shape
    <2> HIDE DEF e, i, records, steps
    <2>2. PICK d \in Nat : Holds(e, i, steps, d)
      BY <2>1 DEF Conversation
    <2>3. Waiting(d, e.pending, e.lines, e.hold, i.sent, i.read)
      BY <2>2 DEF Holds, Talks
    <2>4. e.reader = "record" => i.read # 0 /\ e.hold = <<i.sent[i.read]>>
      BY <2>2 DEF Holds, Talks
    <2> DEFINE b == Len(e.lines)
               c == Len(e.hold)
               r == i.read
               n == IF e.reader = "record" THEN r - 1 ELSE r
    <2>5. b \in Nat /\ c \in Nat /\ r \in Nat /\ (e.reader = "record" => r # 0 /\ c = 1)
      <3>1. b \in Nat /\ c \in Nat /\ r \in Nat
        BY <2>3, WaitingTypes
      <3>2. \A x : Len(<<x>>) = 1
        OBVIOUS
      <3> QED BY <2>4, <3>1, <3>2
    <2>6. n \in Nat /\ n <= r /\ r - c - b <= n
      <3> HIDE DEF b, c, r
      <3> QED BY <2>5
    <2>7. /\ Len(told) = n /\ \A k \in 1..n : records[told[k]].what = i.sent[k]
      BY <2>1 DEF Conversation, Recorded, Tells
    <2>8. DOMAIN told = 1..n
      BY <2>1, <2>7, ToldAppend
    <2> HIDE DEF told, n
    <2>9. /\ r - c - b <= Len(told) /\ Len(told) <= r
          /\ \A k \in DOMAIN told : records[told[k]].what = i.sent[k]
      BY <2>6, <2>7, <2>8
    <2> QED BY <2>9 DEF e, i, records, told
  <1> QED BY <1>1, TalkInvariant, PTL

\* A live request is answered under its own id and once, whatever ids the transcript has
\* (run.go: a JSON-RPC response takes the id of the live request it answers).
THEOREM AnswersAreLive == Spec => []AnswersTheLiveRequest
  <1>1. TalkInv => AnswersTheLiveRequest
    <2> SUFFICES ASSUME TalkInv, NEW p \in Proc
                 PROVE  LET answers == { k \in DOMAIN io[p].out : Answers(io[p].out[k]) }
                        IN  /\ \A x \in answers : \E k \in 1..io[p].read :
                                 Asks(io[p].sent[k]) /\ io[p].sent[k].id = io[p].out[x].id
                            /\ \A x, y \in answers : io[p].out[x].id = io[p].out[y].id => x = y
      BY DEF AnswersTheLiveRequest
    <2> DEFINE e == eng[p]
               i == io[p]
               steps == Steps(p)
    <2>1. Conversation(e, i, file[p], steps)
      BY DEF TalkInv, Talk
    <2> HIDE DEF e, i, steps
    <2>2. PICK d \in Nat : Holds(e, i, steps, d)
      BY <2>1 DEF Conversation
    <2>3. Waiting(d, e.pending, e.lines, e.hold, i.sent, i.read)
      BY <2>2 DEF Holds, Talks
    <2>4. \A k \in 1..d : k \in 1..i.read
      <3> DEFINE r == i.read
      <3>1. r \in Nat /\ d <= r
        BY <2>3, WaitingTypes
      <3> HIDE DEF r
      <3>2. \A k \in 1..d : k \in 1..r
        BY <3>1
      <3> QED BY <3>2 DEF r
    <2>5. /\ \A x \in Replies(i.out) : i.out[x].id \in Known(i.sent, d)
          /\ \A x, y \in Replies(i.out) : i.out[x].id = i.out[y].id => x = y
      BY <2>2 DEF Holds, Repaid
    <2>6. /\ \A x \in Replies(i.out) : \E k \in 1..i.read :
               Asks(i.sent[k]) /\ i.sent[k].id = i.out[x].id
      BY <2>4, <2>5 DEF Known
    <2> QED BY <2>5, <2>6 DEF i, Replies
  <1> QED BY <1>1, TalkInvariant, PTL

=============================================================================
