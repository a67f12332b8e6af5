----------------------------- MODULE TurnLemmas -----------------------------
(***************************************************************************)
(* What the proofs about both bridges need of the vocabulary, the CLI, the *)
(* channel and the typed surface they share.                               *)
(***************************************************************************)
EXTENDS TurnChannel, TypedSurface, DataLemmas

\* A line is well typed on both surfaces.
LEMMA LineTypes ==
  ASSUME NEW l \in Lines
  PROVE  /\ l.stream \in Seq(AdapterEvents)
         /\ TypedOf(l) \in Seq(AdapterEvents)
  BY CliAssumption DEF IsLine, TypedOf

\* The kinds of events, as the sets relate.
LEMMA EventKinds ==
  /\ AdapterEvents \subseteq StreamEvents
  /\ BridgeTerminals \subseteq Terminal
  /\ Terminal \subseteq StreamEvents
  /\ StreamEvents \subseteq TypedEvents
  /\ None \notin StreamEvents
  BY DEF AdapterEvents, StreamEvents, BridgeTerminals, TypedEvents, Terminal, None

\* The stream has a terminal once one has been sent.
LEMMA SentGrows ==
  ASSUME NEW s \in Seq(StreamEvents), NEW e \in StreamEvents
  PROVE  HasTerminal(Append(s, e)) <=> HasTerminal(s) \/ e \in Terminal
<1>1. /\ Len(s) \in Nat
      /\ Len(Append(s, e)) = Len(s) + 1
      /\ \A i \in 1..Len(s) : Append(s, e)[i] = s[i]
      /\ Append(s, e)[Len(s) + 1] = e
  BY AppendProperties, LenProperties
<1> QED
  BY <1>1 DEF HasTerminal

\* The tail of a sequence whose terminal, if any, comes last.
LEMMA TailEvents ==
  ASSUME NEW s \in Seq(AdapterEvents), s # <<>>,
         \A i \in 1..Len(s) : s[i] \in Terminal => i = Len(s)
  PROVE  /\ Tail(s) \in Seq(AdapterEvents)
         /\ \A i \in 1..Len(Tail(s)) : Tail(s)[i] \in Terminal => i = Len(Tail(s))
         /\ HasTerminal(Tail(s)) => HasTerminal(s)
         /\ Head(s) \in Terminal => Tail(s) = <<>> /\ HasTerminal(s)
         /\ Head(s) = s[1]
<1> DEFINE t == Tail(s)
<1>1. /\ Len(s) \in Nat /\ Len(s) >= 1
      /\ t \in Seq(AdapterEvents)
      /\ Len(t) = Len(s) - 1
      /\ \A i \in 1..Len(t) : t[i] = s[i + 1]
      /\ Head(s) = s[1]
      /\ Len(t) = 0 => t = <<>>
  <2>1. /\ Len(s) \in Nat /\ Len(s) >= 1
        /\ t \in Seq(AdapterEvents)
        /\ Len(t) = Len(s) - 1
        /\ \A i \in 1..Len(t) : t[i] = s[i + 1]
        /\ Head(s) = s[1]
    BY HeadTailProperties, LenProperties, EmptySeq
  <2>2. Len(t) = 0 => t = <<>>
    BY <2>1, EmptySeq
  <2> QED
    BY <2>1, <2>2
<1> HIDE DEF t
<1>2. \A i \in 1..Len(t) : i + 1 \in 1..Len(s)
  BY <1>1
<1>3. \A i \in 1..Len(t) : t[i] \in Terminal => i = Len(t)
  BY <1>1, <1>2
<1>4. HasTerminal(t) => HasTerminal(s)
  BY <1>1, <1>2 DEF HasTerminal
<1>5. ASSUME Head(s) \in Terminal PROVE t = <<>> /\ HasTerminal(s)
  <2>1. 1 \in 1..Len(s) /\ s[1] \in Terminal
    BY <1>1, <1>5
  <2>2. Len(s) = 1
    BY <2>1
  <2> QED
    BY <1>1, <2>1, <2>2 DEF HasTerminal
<1> QED
  BY <1>1, <1>3, <1>4, <1>5 DEF t

\* What the pipe holds after the CLI has written a line.
LEMMA PipeGrows ==
  ASSUME NEW q \in Seq(Lines), NEW l \in Lines
  PROVE  /\ Len(q) \in Nat
         /\ Len(Append(q, l)) = Len(q) + 1
         /\ \A i \in 1..Len(q) : Append(q, l)[i] = q[i]
         /\ Append(q, l)[Len(q) + 1] = l
  BY AppendProperties, LenProperties

\* What it holds after the scanner has taken one.
LEMMA PipeShrinks ==
  ASSUME NEW q \in Seq(Lines), q # <<>>
  PROVE  /\ Len(q) \in Nat /\ Len(q) >= 1
         /\ Len(Tail(q)) = Len(q) - 1
         /\ \A i \in 1..Len(Tail(q)) : Tail(q)[i] = q[i + 1]
         /\ Head(q) = q[1] /\ Head(q) \in Lines
  BY HeadTailProperties, LenProperties, EmptySeq

-----------------------------------------------------------------------------
(* Types.                                                                  *)

\* The CLI, the channel and the typed surface start well typed.
LEMMA InitTypes ==
  /\ CliInit => CliTypeOK
  /\ ChannelInit => ChannelTypeOK
  /\ TypedInit => TypedTypeOK
<1>1. CliInit => CliTypeOK
  BY CliAssumption, EmptySeq DEF CliInit, CliTypeOK
<1>2. ASSUME ChannelInit PROVE ChannelTypeOK
  <2>1. <<>> \in Seq(StreamEvents) /\ Len(<<>>) = 0
    BY EmptySeq
  <2>2. sent = <<>> /\ received = 0 /\ sending = None /\ abandoned = FALSE
    BY <1>2 DEF ChannelInit
  <2>3. sent \in Seq(StreamEvents) /\ received \in 0..Len(sent)
    BY <2>1, <2>2
  <2> QED
    BY <2>2, <2>3 DEF ChannelTypeOK
<1>3. ASSUME TypedInit PROVE TypedTypeOK
  <2>1. <<>> \in Seq(TypedEvents)
    BY EmptySeq
  <2>2. typedLog = <<>> /\ beat = "off" /\ beats = 0 /\ beatStop = FALSE
    BY <1>3 DEF TypedInit
  <2>3. typedLog \in Seq(TypedEvents) /\ beats \in 0..MaxBeats
    BY <2>1, <2>2, TypedAssumption
  <2> QED
    BY <2>2, <2>3 DEF TypedTypeOK
<1> QED
  BY <1>1, <1>2, <1>3

\* The CLI and its caller keep their types.
LEMMA CliStepTypes == CliTypeOK /\ CliStep => CliTypeOK'
<1> SUFFICES ASSUME CliTypeOK, CliStep PROVE CliTypeOK'
  OBVIOUS
<1>1. ASSUME NEW l \in Lines, WriteLine(l) PROVE CliTypeOK'
  BY <1>1, CliAssumption, AppendProperties DEF WriteLine, CliTypeOK
<1>2. ASSUME NEW ok \in BOOLEAN, Exit(ok) PROVE CliTypeOK'
  BY <1>2, CliAssumption DEF Exit, CliTypeOK
<1>3. ASSUME NEW p \in Holdable, Release(p) PROVE CliTypeOK'
  BY <1>3 DEF Release, CliTypeOK
<1>4. ASSUME Cancel PROVE CliTypeOK'
  BY <1>4 DEF Cancel, CliTypeOK
<1>5. ASSUME ShutStdout PROVE CliTypeOK'
  BY <1>5, CliAssumption DEF ShutStdout, CliTypeOK
<1> QED
  BY <1>1, <1>2, <1>3, <1>4, <1>5 DEF CliStep, Finish, Crash, Killed

\* So does the heartbeat.
LEMMA BeatTypes == TypedTypeOK /\ Heartbeat => TypedTypeOK'
<1> SUFFICES ASSUME TypedTypeOK, Heartbeat PROVE TypedTypeOK'
  OBVIOUS
<1> USE DEF Heartbeat, Tick, BeatProgress, Beat, BeatCallbackReturns, BeatEnds
<1>1. typedLog' \in Seq(TypedEvents)
  <2>1. typedLog' = typedLog \/ typedLog' = Append(typedLog, "heartbeat")
    OBVIOUS
  <2>2. "heartbeat" \in TypedEvents /\ typedLog \in Seq(TypedEvents)
    BY DEF TypedEvents, TypedTypeOK
  <2> QED
    BY <2>1, <2>2, AppendProperties
<1>2. /\ beat' \in {"waiting", "due", "callback", "off"}
      /\ beats' \in 0..MaxBeats
      /\ beatStop' \in BOOLEAN
  BY TypedAssumption DEF TypedTypeOK
<1> QED
  BY <1>1, <1>2 DEF TypedTypeOK

\* So does the channel.
LEMMA DeliverTypes ==
  ASSUME ChannelTypeOK, Deliver, sending \in StreamEvents
  PROVE  ChannelTypeOK' /\ sent' # <<>>
<1>1. /\ sent' \in Seq(StreamEvents) /\ sent' # <<>>
      /\ Len(sent') = Len(sent) + 1 /\ Len(sent) \in Nat
  <2>1. sent \in Seq(StreamEvents) /\ sent' = Append(sent, sending)
    BY DEF ChannelTypeOK, Deliver
  <2> QED
    BY <2>1, AppendProperties, LenProperties
<1> QED
  BY <1>1 DEF Deliver, ChannelTypeOK, None

-----------------------------------------------------------------------------
(* Silent drops.                                                           *)

\* What allows a success: the caller cancelled, no tool was called, or the stream
\* has a text or a terminal already.
Excused ==
  \/ cancelled
  \/ \A i \in 1..Len(sent) : sent[i] # "tool_use"
  \/ \E i \in 1..Len(sent) : sent[i] \in {"delta"} \union Terminal

\* A success that had an excuse when it was begun is no silent drop.
LEMMA DropGrows ==
  ASSUME sent \in Seq(StreamEvents), NoSilentDrop, sent' = Append(sent, sending),
         cancelled' = cancelled, sending \in Success => Excused
  PROVE  NoSilentDrop'
<1>1. /\ Len(sent) \in Nat
      /\ Len(sent') = Len(sent) + 1
      /\ \A i \in 1..Len(sent) : sent'[i] = sent[i]
      /\ sent'[Len(sent) + 1] = sending
  BY AppendProperties, LenProperties
<1> SUFFICES ASSUME NEW i \in 1..Len(sent'), sent'[i] \in Success,
                    NEW j \in 1..(i - 1), sent'[j] = "tool_use", ~cancelled
             PROVE  \E k \in 1..(i - 1) : sent'[k] \in {"delta"} \union Terminal
  BY DEF NoSilentDrop
<1>2. CASE i = Len(sent) + 1
  <2>1. j \in 1..Len(sent) /\ sent[j] = "tool_use"
    BY <1>1, <1>2
  <2>2. PICK k \in 1..Len(sent) : sent[k] \in {"delta"} \union Terminal
    BY <1>1, <1>2, <2>1 DEF Excused
  <2> QED
    BY <1>1, <1>2, <2>2
<1>3. CASE i # Len(sent) + 1
  <2>1. i \in 1..Len(sent) /\ j \in 1..Len(sent) /\ sent[i] \in Success /\ sent[j] = "tool_use"
    BY <1>1, <1>3
  <2>2. PICK k \in 1..(i - 1) : sent[k] \in {"delta"} \union Terminal
    BY <2>1 DEF NoSilentDrop
  <2>3. k \in 1..Len(sent)
    BY <1>1, <2>1
  <2> QED
    BY <1>1, <2>2, <2>3
<1> QED
  BY <1>2, <1>3

-----------------------------------------------------------------------------
(* The terminals of the two surfaces.                                      *)

\* What the typed surface has been told of the ends of the turn, what is kept back,
\* and what the current line still holds.
Told(log, held, line) == Terminals(log) \o (held \o Terminals(line))

\* What the stream has of them, the event being sent, and the rest of the line.
Forwarded(past, now, line) ==
  Terminals(past) \o ((IF now \in Terminal THEN <<now>> ELSE <<>>) \o Terminals(line))

\* The guard has been sent, or is being sent.
Guarded == sending = "guard" \/ \E i \in 1..Len(sent) : sent[i] = "guard"

LEMMA TerminalsType ==
  ASSUME NEW T, NEW s \in Seq(T)
  PROVE  Terminals(s) \in Seq(T)
  BY SelectType DEF Terminals

LEMMA TerminalsAppend ==
  ASSUME NEW T, NEW s \in Seq(T), NEW e \in T
  PROVE  Terminals(Append(s, e)) =
           IF e \in Terminal THEN Append(Terminals(s), e) ELSE Terminals(s)
  BY SelectAppend DEF Terminals

LEMMA TerminalsHead ==
  ASSUME NEW T, NEW s \in Seq(T), s # <<>>
  PROVE  Terminals(s) =
           (IF Head(s) \in Terminal THEN <<Head(s)>> ELSE <<>>) \o Terminals(Tail(s))
  BY SelectHead DEF Terminals

LEMMA TerminalsEmpty == Terminals(<<>>) = <<>>
  BY SelectEmpty DEF Terminals

\* One element changes sides.
LEMMA ConcatShift ==
  ASSUME NEW T, NEW a \in Seq(T), NEW b \in Seq(T), NEW e \in T
  PROVE  Append(a, e) \o b = a \o (<<e>> \o b)
<1> DEFINE c == <<e>>
<1>1. c \in Seq(T) /\ Append(a, e) = a \o c
  BY AppendIsConcat
<1> HIDE DEF c
<1>2. (a \o c) \o b = a \o (c \o b)
  BY <1>1, ConcatAssociative
<1> QED
  BY <1>1, <1>2 DEF c

LEMMA HeadAndTail ==
  ASSUME NEW T, NEW s \in Seq(T), s # <<>>
  PROVE  s = <<Head(s)>> \o Tail(s)
<1>1. s = SubSeq(s, 1, Len(s)) /\ Tail(s) = SubSeq(s, 2, Len(s))
  BY SubSeqFull, TailIsSubSeq
<1>2. 1 \in 1..Len(s) /\ Len(s) \in 1..Len(s) /\ Head(s) = s[1]
  BY EmptySeq, LenProperties
<1>3. SubSeq(s, 1, Len(s)) = <<s[1]>> \o SubSeq(s, 1 + 1, Len(s))
  BY <1>2, SubSeqRecursiveFirst
<1> QED
  BY <1>1, <1>2, <1>3

\* A typed terminal is kept back.
LEMMA ToldHeld ==
  ASSUME NEW log \in Seq(TypedEvents), NEW held \in Seq(TypedEvents),
         NEW line \in Seq(TypedEvents), line # <<>>, Head(line) \in Terminal
  PROVE  Told(log, Append(held, Head(line)), Tail(line)) = Told(log, held, line)
<1>1. Head(line) \in TypedEvents /\ Terminals(Tail(line)) \in Seq(TypedEvents)
  BY HeadTailProperties, TerminalsType
<1>2. Append(held, Head(line)) \o Terminals(Tail(line))
        = held \o (<<Head(line)>> \o Terminals(Tail(line)))
  BY <1>1, ConcatShift
<1>3. Terminals(line) = <<Head(line)>> \o Terminals(Tail(line))
  BY TerminalsHead
<1> QED
  BY <1>2, <1>3 DEF Told

\* Any other event of a line is emitted, or comes from another goroutine.
LEMMA ToldOther ==
  ASSUME NEW log \in Seq(TypedEvents), NEW e \in TypedEvents, e \notin Terminal,
         NEW held, NEW line
  PROVE  Told(Append(log, e), held, line) = Told(log, held, line)
  BY TerminalsAppend DEF Told

LEMMA ToldSkips ==
  ASSUME NEW log, NEW held, NEW line \in Seq(TypedEvents), line # <<>>,
         Head(line) \notin Terminal
  PROVE  Told(log, held, Tail(line)) = Told(log, held, line)
<1>1. Terminals(line) = <<>> \o Terminals(Tail(line))
  BY TerminalsHead
<1>2. <<>> \o Terminals(Tail(line)) = Terminals(Tail(line))
  BY HeadTailProperties, TerminalsType, ConcatEmptySeq
<1> QED
  BY <1>1, <1>2 DEF Told

\* A terminal that was kept back is emitted.
LEMMA ToldReleased ==
  ASSUME NEW log \in Seq(TypedEvents), NEW held \in Seq(Terminal), held # <<>>,
         NEW line \in Seq(TypedEvents)
  PROVE  Told(Append(log, Head(held)), Tail(held), line) = Told(log, held, line)
<1> DEFINE e == Head(held)
           t == Tail(held)
           z == Terminals(line)
           a == Terminals(log)
<1>1. Terminal \subseteq TypedEvents
  BY EventKinds
<1>2. /\ e \in Terminal /\ e \in TypedEvents /\ t \in Seq(TypedEvents)
      /\ z \in Seq(TypedEvents) /\ a \in Seq(TypedEvents)
  BY <1>1, HeadTailProperties, TerminalsType, SeqMonotonic
<1>3. held = <<e>> \o t
  BY HeadAndTail
<1>4. Terminals(Append(log, e)) = Append(a, e)
  BY <1>2, TerminalsAppend
<1> HIDE DEF e, t, z, a
<1>5. <<e>> \in Seq(TypedEvents) /\ t \o z \in Seq(TypedEvents)
  BY <1>2, ConcatProperties
<1>6. Append(a, e) \o (t \o z) = a \o (<<e>> \o (t \o z))
  <2> DEFINE u == t \o z
  <2>1. u \in Seq(TypedEvents)
    BY <1>5
  <2> HIDE DEF u
  <2>2. Append(a, e) \o u = a \o (<<e>> \o u)
    BY <1>2, <2>1, ConcatShift, SMTT(30)
  <2> QED
    BY <2>2 DEF u
<1>7. (<<e>> \o t) \o z = <<e>> \o (t \o z)
  <2> DEFINE c == <<e>>
  <2>1. c \in Seq(TypedEvents)
    BY <1>5
  <2> HIDE DEF c
  <2>2. (c \o t) \o z = c \o (t \o z)
    BY <1>2, <2>1, ConcatAssociative, SMTT(30)
  <2> QED
    BY <2>2 DEF c
<1> QED
  BY <1>3, <1>4, <1>6, <1>7 DEF Told, e, t, z, a

\* With nothing kept back, the next event of a line is emitted, whatever it is.
LEMMA ToldNext ==
  ASSUME NEW log \in Seq(TypedEvents), NEW line \in Seq(TypedEvents), line # <<>>
  PROVE  Told(Append(log, Head(line)), <<>>, Tail(line)) = Told(log, <<>>, line)
<1> DEFINE e == Head(line)
           z == Terminals(Tail(line))
           a == Terminals(log)
<1>1. /\ e \in TypedEvents /\ z \in Seq(TypedEvents) /\ a \in Seq(TypedEvents)
      /\ Terminals(line) \in Seq(TypedEvents)
  BY HeadTailProperties, TerminalsType
<1>2. <<>> \o z = z /\ <<>> \o Terminals(line) = Terminals(line)
  BY <1>1, ConcatEmptySeq
<1>3. CASE e \in Terminal
  <2>1. Terminals(line) = <<e>> \o z /\ Terminals(Append(log, e)) = Append(a, e)
    BY <1>1, <1>3, TerminalsHead, TerminalsAppend
  <2>2. Append(a, e) \o z = a \o (<<e>> \o z)
    BY <1>1, ConcatShift, SMTT(30)
  <2> QED
    BY <1>2, <2>1, <2>2 DEF Told
<1>4. CASE e \notin Terminal
  <2>1. Terminals(line) = <<>> \o z /\ Terminals(Append(log, e)) = a
    BY <1>1, <1>4, TerminalsHead, TerminalsAppend
  <2> QED
    BY <1>2, <2>1 DEF Told
<1> QED
  BY <1>3, <1>4

\* The next event of the line is being sent.
LEMMA ForwardBegins ==
  ASSUME NEW past, NEW line \in Seq(StreamEvents), line # <<>>
  PROVE  Forwarded(past, Head(line), Tail(line)) = Forwarded(past, None, line)
<1>1. None \notin Terminal
  BY EventKinds
<1>2. <<>> \o Terminals(line) = Terminals(line)
  BY TerminalsType, ConcatEmptySeq
<1>3. Terminals(line) =
        (IF Head(line) \in Terminal THEN <<Head(line)>> ELSE <<>>) \o Terminals(Tail(line))
  BY TerminalsHead
<1> QED
  BY <1>1, <1>2, <1>3 DEF Forwarded

\* It has been sent.
LEMMA ForwardEnds ==
  ASSUME NEW past \in Seq(StreamEvents), NEW now \in StreamEvents,
         NEW line \in Seq(StreamEvents)
  PROVE  Forwarded(Append(past, now), None, line) = Forwarded(past, now, line)
<1> DEFINE z == Terminals(line)
           a == Terminals(past)
<1>1. None \notin Terminal /\ z \in Seq(StreamEvents) /\ a \in Seq(StreamEvents)
  BY EventKinds, TerminalsType
<1>2. <<>> \o z = z
  BY <1>1, ConcatEmptySeq
<1>3. Terminals(Append(past, now)) = IF now \in Terminal THEN Append(a, now) ELSE a
  BY TerminalsAppend
<1>4. Append(a, now) \o z = a \o (<<now>> \o z)
  BY <1>1, ConcatShift
<1> QED
  BY <1>1, <1>2, <1>3, <1>4 DEF Forwarded

\* Nothing is left on either side.
LEMMA NothingLeft ==
  ASSUME NEW log \in Seq(TypedEvents), NEW past \in Seq(StreamEvents)
  PROVE  /\ Told(log, <<>>, <<>>) = Terminals(log)
         /\ Forwarded(past, None, <<>>) = Terminals(past)
<1>1. /\ Terminals(log) \in Seq(TypedEvents) /\ Terminals(past) \in Seq(StreamEvents)
      /\ None \notin Terminal
  BY EventKinds, TerminalsType
<1>2. <<>> \o Terminals(<<>>) = <<>>
  BY TerminalsEmpty, EmptySeq, ConcatEmptySeq
<1> QED
  BY <1>1, <1>2, ConcatEmptySeq DEF Told, Forwarded

\* A new line adds the same terminals on both sides.
LEMMA LineBegins ==
  ASSUME NEW log \in Seq(TypedEvents), NEW held \in Seq(TypedEvents),
         NEW past \in Seq(StreamEvents), NEW l \in Lines,
         Told(log, held, <<>>) = Forwarded(past, None, <<>>)
  PROVE  Told(log, held, TypedOf(l)) = Forwarded(past, None, l.stream)
<1> DEFINE x == Terminals(l.stream)
           a == Terminals(log)
           d == Terminals(past)
<1>1. x = Terminals(TypedOf(l))
  BY SurfaceAssumption
<1>2. AdapterEvents \subseteq TypedEvents /\ StreamEvents \subseteq TypedEvents /\ None \notin Terminal
  BY EventKinds
<1>3. l.stream \in Seq(TypedEvents) /\ past \in Seq(TypedEvents)
  BY <1>2, LineTypes, SeqMonotonic
<1>4. x \in Seq(TypedEvents) /\ a \in Seq(TypedEvents) /\ d \in Seq(TypedEvents)
  BY <1>3, TerminalsType
<1>5. Told(log, held, <<>>) = a \o held /\ Forwarded(past, None, <<>>) = d
  BY <1>2, <1>4, TerminalsEmpty, EmptySeq, ConcatEmptySeq DEF Told, Forwarded
<1>6. a \o held = d
  BY <1>5
<1>7. Told(log, held, TypedOf(l)) = a \o (held \o x) /\ Forwarded(past, None, l.stream) = d \o x
  <2>1. <<>> \o x = x
    BY <1>4, ConcatEmptySeq
  <2> QED
    BY <1>1, <1>2, <2>1 DEF Told, Forwarded
<1> HIDE DEF x, a, d
<1>8. (a \o held) \o x = a \o (held \o x)
  <2>1. ASSUME NEW b \in Seq(TypedEvents), NEW c \in Seq(TypedEvents),
               NEW e \in Seq(TypedEvents)
        PROVE  (b \o c) \o e = b \o (c \o e)
    BY ConcatAssociative, SMTT(30)
  <2> QED
    BY <1>4, <2>1, SMTT(30)
<1> QED
  BY <1>6, <1>7, <1>8
=============================================================================
