-------------------------- MODULE ProgressTracker ---------------------------
(***************************************************************************)
(* The progress tracker (provider/progress_tracker.go): how often each     *)
(* content, tool call or state has come by, over all streams of a          *)
(* pipeline, forgetting what has not come by for a whole window.           *)
(***************************************************************************)
EXTENDS Integers, Selection, FiniteSetsExt

CONSTANTS
  Keys,      \* the hashes events may have
  MaxLoop,   \* maxIterations
  Window,    \* detectionWindow
  MaxTime,   \* bound: the clock
  Blank      \* texts that are only white space

ASSUME TrackerAssumption ==
  /\ MaxLoop \in Nat
  /\ Window \in Nat
  /\ MaxTime \in Nat

VARIABLES
  clock,
  history,   \* key -> how often it was seen and when last
  looked     \* ghost: every key the tracker was shown, and when

trackVars == <<clock, history, looked>>

NoRecord == [count |-> 0, stamp |-> 0]

TrackTypeOK ==
  /\ clock \in 0..MaxTime
  /\ history \in [Keys -> [count : Nat, stamp : 0..MaxTime]]
  /\ looked \in Seq([key : Keys, at : 0..MaxTime])

TrackInit ==
  /\ clock = 0
  /\ history = [k \in Keys |-> NoRecord]
  /\ looked = <<>>

\* Content for a delta, name and input for a tool call, and for every other event
\* its type and content: all usage events, say, share one key.
Key(e) == <<e.kind, e.text, e.path>>

\* A delta of white space only is never recorded.
Tracked(e) == ~(e.kind = "delta" /\ e.text \in Blank)

Threshold(e) == IF e.kind \in {"delta", "tool_use"} THEN MaxLoop ELSE 2 * MaxLoop

\* cleanOldRecords, which every event causes for every record.
Fresh(r) == r.stamp > clock - Window

Cleaned == [k \in Keys |-> IF Fresh(history[k]) THEN history[k] ELSE NoRecord]

\* Faulty variant: a repetition does not refresh the record's timestamp.
RecordWithoutRefresh(r) ==
  IF r = NoRecord THEN [count |-> 1, stamp |-> clock]
                  ELSE [r EXCEPT !.count = @ + 1]

Record(r) == [count |-> r.count + 1, stamp |-> clock]

\* CheckEvent: the records after event e.
Look(e) ==
  /\ history' = IF Tracked(e)
                THEN [Cleaned EXCEPT ![Key(e)] = Record(@)]
                ELSE Cleaned
  /\ looked' = IF Tracked(e) THEN Append(looked, [key |-> Key(e), at |-> clock])
                             ELSE looked
  /\ UNCHANGED clock

\* Faulty variant: the count is compared before it is raised.
LoopingOffByOne(e) ==
  /\ Tracked(e)
  /\ Cleaned[Key(e)] # NoRecord
  /\ Cleaned[Key(e)].count > Threshold(e)

\* It reports a loop when a record it already had goes over the threshold.
Looping(e) ==
  /\ Tracked(e)
  /\ Cleaned[Key(e)] # NoRecord
  /\ Cleaned[Key(e)].count + 1 > Threshold(e)

TimePasses ==
  /\ clock < MaxTime
  /\ clock' = clock + 1
  /\ UNCHANGED <<history, looked>>

-----------------------------------------------------------------------------

\* When key k was shown, in order.
Times(k) ==
  LET of == Select(looked, [key : {k}, at : 0..MaxTime])
  IN  [i \in 1..Len(of) |-> of[i].at]

\* How many of the last times follow each other within a window.
Run(ts) ==
  Max({n \in 0..Len(ts) :
         \A i \in (Len(ts) - n + 1)..(Len(ts) - 1) : ts[i + 1] - ts[i] < Window})

\* The records are what a tracker that remembers everything would compute: a record
\* holds the length of the latest run of repetitions less than a window apart, and a
\* key without one has not come by for a window.
RecordsAreRuns ==
  \A k \in Keys :
    LET ts == Times(k)
    IN  IF history[k] = NoRecord
        THEN ts = <<>> \/ clock - ts[Len(ts)] >= Window
        ELSE history[k] = [count |-> Run(ts), stamp |-> ts[Len(ts)]]
=============================================================================
