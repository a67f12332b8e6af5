---------------------------- MODULE TypedSurface ----------------------------
(***************************************************************************)
(* The typed surface of a turn (provider/events_emit.go): the callback the *)
(* caller put on the context, and the heartbeat goroutine that calls it    *)
(* when nothing else has for an interval.  The bridges call it through     *)
(* emitTyped; typedLog is the order in which the calls begin.              *)
(***************************************************************************)
EXTENDS CliProcess

CONSTANTS
  HasTyped,   \* the context carries a typed-events callback
  MaxBeats    \* bound: heartbeat ticks per turn (0: heartbeats disabled)

ASSUME TypedAssumption ==
  /\ HasTyped \in BOOLEAN
  /\ MaxBeats \in Nat

VARIABLES
  typedLog,   \* every call of the typed callback, in order
  beat,       \* the heartbeat goroutine
  beats,      \* ticks so far
  beatStop    \* stopHeartbeat has been called

beatVars == <<beat, beats, beatStop>>

TypedTypeOK ==
  /\ typedLog \in Seq(TypedEvents)
  /\ beat \in {"waiting", "due", "callback", "off"}
  /\ beats \in 0..MaxBeats
  /\ beatStop \in BOOLEAN

TypedInit == typedLog = <<>> /\ beat = "off" /\ beats = 0 /\ beatStop = FALSE

\* startHeartbeat: no goroutine without a callback or with the interval off.
StartBeat ==
  /\ beat' = IF HasTyped /\ MaxBeats > 0 THEN "waiting" ELSE "off"
  /\ UNCHANGED <<beats, beatStop>>

\* The stop function startHeartbeat returns.
StopBeat ==
  /\ beatStop' = TRUE
  /\ UNCHANGED <<beat, beats>>

\* A tick: the snapshot says not stopped and idle.  Any quiet interval may be long
\* enough for that.
Tick ==
  /\ beat = "waiting"
  /\ ~beatStop
  /\ beats < MaxBeats
  /\ beats' = beats + 1
  /\ beat' = "due"
  /\ UNCHANGED <<beatStop, typedLog>>

\* The callback is called outside the lock, some time after the snapshot.
Beat ==
  /\ beat = "due"
  /\ typedLog' = Append(typedLog, "heartbeat")
  /\ beat' = "callback"
  /\ UNCHANGED <<beats, beatStop>>

BeatCallbackReturns ==
  /\ beat = "callback"
  /\ beat' = "waiting"
  /\ UNCHANGED <<beats, beatStop, typedLog>>

BeatEnds ==
  /\ beat = "waiting"
  /\ beatStop \/ cancelled
  /\ beat' = "off"
  /\ UNCHANGED <<beats, beatStop, typedLog>>

\* The part of the goroutine that a scheduler must run on: ticks are up to time.
BeatProgress == Beat \/ BeatCallbackReturns \/ BeatEnds

Heartbeat == Tick \/ BeatProgress

=============================================================================
