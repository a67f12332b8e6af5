----------------------------- MODULE DataLemmas -----------------------------
(***************************************************************************)
(* Facts about recursive data that the proofs of several components need.  *)
(* Induction is by the least counterexample: the induction hypothesis is a *)
(* set of numbers, not an operator.                                        *)
(***************************************************************************)
EXTENDS Selection, Totals, Integers, SequenceTheorems, WellFoundedInduction, TLAPS

\* Every set of natural numbers that is not empty has a least element.
LEMMA NatLeast ==
  ASSUME NEW T, T \subseteq Nat, T # {}
  PROVE  \E x \in T : \A y \in T : x <= y
<1> DEFINE R == {ss \in Nat \X Nat : ss[1] < ss[2]}
<1>1. IsWellFoundedOn(R, Nat)
  BY NatLessThanWellFounded DEF OpToRel
<1>2. PICK x \in T : \A y \in T : ~ (<<y, x>> \in R)
  BY <1>1, WFMin
<1>3. ASSUME NEW y \in T PROVE x <= y
  <2>1. x \in Nat /\ y \in Nat
    OBVIOUS
  <2>2. <<y, x>> \notin R
    BY <1>2
  <2>3. ~(y < x)
    BY <2>1, <2>2
  <2> QED
    BY <2>1, <2>3
<1> QED
  BY <1>3

\* A set with 0 and every successor of a member holds every natural number.
LEMMA NatInd ==
  ASSUME NEW S, 0 \in S, \A n \in Nat : n \in S => n + 1 \in S
  PROVE  Nat \subseteq S
<1> DEFINE T == Nat \ S
<1>1. SUFFICES ASSUME T # {} PROVE FALSE
  OBVIOUS
<1>2. PICK x \in T : \A y \in T : x <= y
  BY <1>1, NatLeast
<1>3. x # 0 /\ x - 1 \in Nat /\ x - 1 \notin T
  BY <1>2
<1>4. x - 1 \in S
  BY <1>3
<1>5. (x - 1) + 1 \in S
  BY <1>3, <1>4
<1> QED
  BY <1>2, <1>5

\* A set with the empty sequence and every extension of a member by one element
\* holds every sequence.
LEMMA SeqInd ==
  ASSUME NEW T, NEW Q, <<>> \in Q,
         \A s \in Seq(T) : s \in Q => \A e \in T : Append(s, e) \in Q
  PROVE  Seq(T) \subseteq Q
<1> DEFINE P == {n \in Nat : \A s \in Seq(T) : Len(s) = n => s \in Q}
<1>1. 0 \in P
  <2>1. ASSUME NEW s \in Seq(T), Len(s) = 0 PROVE s \in Q
    <3>1. s = <<>>
      BY <2>1, EmptySeq
    <3> QED
      BY <3>1
  <2> QED
    BY <2>1
<1>2. ASSUME NEW n \in Nat, n \in P PROVE n + 1 \in P
  <2>1. ASSUME NEW s \in Seq(T), Len(s) = n + 1 PROVE s \in Q
    <3>1. s # <<>>
      BY <2>1, EmptySeq
    <3>2. PICK t \in Seq(T), e \in T : s = Append(t, e)
      BY <3>1, SequenceEmptyOrAppend
    <3>3. Len(t) = n
      BY <2>1, <3>2, AppendProperties, LenProperties
    <3>4. t \in Q
      BY <1>2, <3>3
    <3> QED
      BY <3>2, <3>4
  <2> QED
    BY <2>1
<1> HIDE DEF P
<1>3. Nat \subseteq P
  BY <1>1, <1>2, NatInd
<1>4. ASSUME NEW s \in Seq(T) PROVE s \in Q
  <2>1. Len(s) \in P
    BY <1>3, LenProperties
  <2> QED
    BY <2>1 DEF P
<1> QED
  BY <1>4

\* f starts with c and goes on by step.
Recurs(f, c, n, step) ==
  f[0] = c /\ \A i \in 1..n : f[i] = step[<<i, f[i - 1]>>]

\* A function on an interval may be defined by where it starts and how it goes on.
LEMMA Recursion ==
  ASSUME NEW V, NEW c \in V, NEW n \in Nat, NEW step \in [(1..n) \X V -> V]
  PROVE  \E f \in [0..n -> V] : Recurs(f, c, n, step)
<1> DEFINE Upto(m, f) ==
             f[0] = c /\ \A i \in 1..m : i <= n => f[i] = step[<<i, f[i - 1]>>]
           S == {m \in Nat : \E f \in [0..n -> V] : Upto(m, f)}
<1>1. 0 \in S
  <2>1. [i \in 0..n |-> c] \in [0..n -> V] /\ Upto(0, [i \in 0..n |-> c])
    OBVIOUS
  <2> QED
    BY <2>1
<1>2. ASSUME NEW m \in Nat, m \in S PROVE m + 1 \in S
  <2>1. PICK f \in [0..n -> V] : Upto(m, f)
    BY <1>2
  <2>2. CASE m + 1 > n
    <3>1. Upto(m + 1, f)
      BY <2>1, <2>2
    <3> QED
      BY <3>1
  <2>3. CASE m + 1 <= n
    <3> DEFINE g == [f EXCEPT ![m + 1] = step[<<m + 1, f[m]>>]]
    <3>1. m + 1 \in 1..n /\ m \in 0..n /\ f[m] \in V
      BY <2>3
    <3>2. <<m + 1, f[m]>> \in (1..n) \X V
      BY <3>1
    <3>3. step[<<m + 1, f[m]>>] \in V
      BY <3>2
    <3>4. g \in [0..n -> V] /\ g[m + 1] = step[<<m + 1, f[m]>>]
          /\ \A i \in 0..m : g[i] = f[i]
      BY <3>1, <3>3
    <3>5. Upto(m + 1, g)
      <4>1. g[0] = c
        BY <2>1, <3>4
      <4>2. ASSUME NEW i \in 1..(m + 1), i <= n PROVE g[i] = step[<<i, g[i - 1]>>]
        <5>1. CASE i = m + 1
          <6>1. i - 1 = m /\ m \in 0..m /\ g[m] = f[m]
            BY <3>4, <5>1
          <6> QED
            BY <3>4, <5>1, <6>1
        <5>2. CASE i # m + 1
          <6>1. i \in 1..m /\ i \in 0..m /\ i - 1 \in 0..m
            BY <5>2
          <6> QED
            BY <2>1, <3>4, <4>2, <6>1
        <5> QED
          BY <5>1, <5>2
      <4> QED
        BY <4>1, <4>2
    <3> HIDE DEF g
    <3> QED
      BY <3>4, <3>5
  <2> QED
    BY <2>2, <2>3
<1>3. n \in S
  BY <1>1, <1>2, NatInd
<1> QED
  BY <1>3 DEF Recurs

-----------------------------------------------------------------------------
(* Select.                                                                 *)

\* What Select leaves of the first elements of a sequence, one element at a time.
Selects(f, s, S) ==
  /\ f[0] = <<>>
  /\ \A i \in 1..Len(s) :
       f[i] = IF s[i] \in S THEN Append(f[i - 1], s[i]) ELSE f[i - 1]

LEMMA SelectSteps ==
  ASSUME NEW T, NEW s \in Seq(T), NEW S
  PROVE  \E f : /\ f \in [0..Len(s) -> Seq(T)]
                /\ Selects(f, s, S)
                /\ Select(s, S) = f[Len(s)]
<1> DEFINE step == [is \in (1..Len(s)) \X Seq(T) |->
                      IF s[is[1]] \in S THEN Append(is[2], s[is[1]]) ELSE is[2]]
           Steps(f) == f = [i \in 0..Len(s) |->
                              IF i = 0 THEN <<>>
                              ELSE IF s[i] \in S THEN Append(f[i - 1], s[i])
                              ELSE f[i - 1]]
<1>1. Len(s) \in Nat /\ \A i \in 1..Len(s) : s[i] \in T
  BY ElementOfSeq, LenProperties
<1>2. step \in [(1..Len(s)) \X Seq(T) -> Seq(T)]
  BY <1>1, AppendProperties
<1>3. PICK g \in [0..Len(s) -> Seq(T)] :
        g[0] = <<>> /\ \A i \in 1..Len(s) : g[i] = step[<<i, g[i - 1]>>]
  <2>1. <<>> \in Seq(T)
    BY EmptySeq
  <2> HIDE DEF step
  <2>2. \E g \in [0..Len(s) -> Seq(T)] : Recurs(g, <<>>, Len(s), step)
    BY <1>1, <1>2, <2>1, Recursion
  <2> QED
    BY <2>2 DEF Recurs
<1>4. ASSUME NEW i \in 1..Len(s)
      PROVE  g[i] = IF s[i] \in S THEN Append(g[i - 1], s[i]) ELSE g[i - 1]
  <2>1. i - 1 \in 0..Len(s) /\ g[i - 1] \in Seq(T)
    BY <1>1, <1>3
  <2> QED
    BY <1>3, <2>1
<1>5. \E h : Steps(h)
  <2> HIDE DEF step
  <2>1. g = [i \in 0..Len(s) |-> g[i]]
    OBVIOUS
  <2>2. ASSUME NEW i \in 0..Len(s)
        PROVE  g[i] = IF i = 0 THEN <<>>
                      ELSE IF s[i] \in S THEN Append(g[i - 1], s[i])
                      ELSE g[i - 1]
    <3>1. i = 0 \/ i \in 1..Len(s)
      BY <1>1
    <3> QED
      BY <1>1, <1>3, <1>4, <3>1
  <2>3. Steps(g)
    BY <2>1, <2>2
  <2> QED
    BY <2>3
<1> DEFINE f == CHOOSE h : Steps(h)
<1>6. Steps(f)
  BY <1>5
<1>7. Select(s, S) = f[Len(s)]
  BY DEF Select
<1> HIDE DEF f, step
<1>8. Selects(f, s, S)
  <2>1. f[0] = <<>>
    BY <1>1, <1>6
  <2>2. ASSUME NEW i \in 1..Len(s)
        PROVE  f[i] = IF s[i] \in S THEN Append(f[i - 1], s[i]) ELSE f[i - 1]
    <3>1. i \in 0..Len(s) /\ i # 0
      BY <1>1
    <3> QED
      BY <1>6, <3>1
  <2> QED
    BY <2>1, <2>2 DEF Selects
<1>9. ASSUME NEW n \in Nat, n <= Len(s) PROVE f[n] \in Seq(T)
  <2> DEFINE P == {m \in Nat : m <= Len(s) => f[m] \in Seq(T)}
  <2>1. 0 \in P
    BY <1>8, EmptySeq DEF Selects
  <2>2. ASSUME NEW m \in Nat, m \in P PROVE m + 1 \in P
    <3>1. SUFFICES ASSUME m + 1 <= Len(s) PROVE f[m + 1] \in Seq(T)
      OBVIOUS
    <3>2. m + 1 \in 1..Len(s) /\ m <= Len(s) /\ (m + 1) - 1 = m
      BY <1>1, <3>1
    <3>3. f[m] \in Seq(T) /\ s[m + 1] \in T
      BY <1>1, <2>2, <3>2
    <3>4. f[m + 1] = IF s[m + 1] \in S THEN Append(f[m], s[m + 1]) ELSE f[m]
      BY <1>8, <3>2 DEF Selects
    <3> QED
      BY <3>3, <3>4, AppendProperties
  <2> HIDE DEF P
  <2>3. n \in P
    BY <2>1, <2>2, NatInd
  <2> QED
    BY <2>3, <1>9 DEF P
<1>10. f \in [0..Len(s) -> Seq(T)]
  BY <1>1, <1>6, <1>9
<1> QED
  BY <1>7, <1>8, <1>10

LEMMA SelectType ==
  ASSUME NEW T, NEW s \in Seq(T), NEW S
  PROVE  Select(s, S) \in Seq(T)
  BY SelectSteps, LenProperties

LEMMA SelectEmpty == ASSUME NEW S PROVE Select(<<>>, S) = <<>>
<1>1. <<>> \in Seq({}) /\ Len(<<>>) = 0
  BY EmptySeq
<1>2. PICK f : Selects(f, <<>>, S) /\ Select(<<>>, S) = f[Len(<<>>)]
  BY <1>1, SelectSteps
<1> QED
  BY <1>1, <1>2 DEF Selects

\* One more element at the end adds itself or nothing.
LEMMA SelectAppend ==
  ASSUME NEW T, NEW s \in Seq(T), NEW e \in T, NEW S
  PROVE  Select(Append(s, e), S) =
           IF e \in S THEN Append(Select(s, S), e) ELSE Select(s, S)
<1> DEFINE t == Append(s, e)
<1>1. /\ t \in Seq(T) /\ Len(s) \in Nat /\ Len(t) = Len(s) + 1
      /\ t[Len(s) + 1] = e /\ \A i \in 1..Len(s) : t[i] = s[i]
  BY AppendProperties, LenProperties
<1> HIDE DEF t
<1>2. PICK f : Selects(f, s, S) /\ Select(s, S) = f[Len(s)]
  BY SelectSteps
<1>3. PICK g : Selects(g, t, S) /\ Select(t, S) = g[Len(t)]
  BY <1>1, SelectSteps
<1> DEFINE P == {m \in Nat : m <= Len(s) => f[m] = g[m]}
<1>4. 0 \in P
  BY <1>2, <1>3 DEF Selects
<1>5. ASSUME NEW m \in Nat, m \in P PROVE m + 1 \in P
  <2>1. SUFFICES ASSUME m + 1 <= Len(s) PROVE f[m + 1] = g[m + 1]
    OBVIOUS
  <2>2. m + 1 \in 1..Len(s) /\ m + 1 \in 1..Len(t) /\ m <= Len(s) /\ (m + 1) - 1 = m
    BY <1>1, <2>1
  <2>3. f[m] = g[m] /\ t[m + 1] = s[m + 1]
    BY <1>1, <1>5, <2>2
  <2>4. f[m + 1] = IF s[m + 1] \in S THEN Append(f[m], s[m + 1]) ELSE f[m]
    BY <1>2, <2>2 DEF Selects
  <2>5. g[m + 1] = IF t[m + 1] \in S THEN Append(g[m], t[m + 1]) ELSE g[m]
    BY <1>3, <2>2 DEF Selects
  <2> QED
    BY <2>3, <2>4, <2>5
<1> HIDE DEF P
<1>6. Len(s) \in P
  BY <1>1, <1>4, <1>5, NatInd
<1>7. f[Len(s)] = g[Len(s)]
  BY <1>1, <1>6 DEF P
<1>8. Len(t) \in 1..Len(t) /\ Len(t) - 1 = Len(s)
  BY <1>1
<1>9. g[Len(t)] = IF e \in S THEN Append(g[Len(s)], e) ELSE g[Len(s)]
  BY <1>1, <1>3, <1>8 DEF Selects
<1> QED
  BY <1>2, <1>3, <1>7, <1>9 DEF t

LEMMA ConcatAppend ==
  ASSUME NEW T, NEW a \in Seq(T), NEW b \in Seq(T), NEW e \in T
  PROVE  a \o Append(b, e) = Append(a \o b, e)
<1> DEFINE c == <<e>>
           ab == a \o b
<1>1. c \in Seq(T) /\ ab \in Seq(T)
  BY ConcatProperties
<1>2. Append(b, e) = b \o c /\ Append(ab, e) = ab \o c
  BY <1>1, AppendIsConcat
<1> HIDE DEF c
<1>3. (a \o b) \o c = a \o (b \o c)
  BY <1>1, ConcatAssociative
<1> QED
  BY <1>2, <1>3

\* What is selected of two sequences one after the other.
LEMMA SelectConcat ==
  ASSUME NEW T, NEW s \in Seq(T), NEW t \in Seq(T), NEW S
  PROVE  Select(s \o t, S) = Select(s, S) \o Select(t, S)
<1> DEFINE Q == {u \in Seq(T) : Select(s \o u, S) = Select(s, S) \o Select(u, S)}
<1>1. <<>> \in Q
  BY EmptySeq, ConcatEmptySeq, SelectEmpty, SelectType
<1>2. ASSUME NEW u \in Seq(T), u \in Q, NEW e \in T PROVE Append(u, e) \in Q
  <2>1. Append(u, e) \in Seq(T) /\ s \o u \in Seq(T)
    BY AppendProperties, ConcatProperties
  <2>2. s \o Append(u, e) = Append(s \o u, e)
    BY ConcatAppend
  <2>3. /\ Select(s \o u, S) = Select(s, S) \o Select(u, S)
        /\ Select(s, S) \in Seq(T) /\ Select(u, S) \in Seq(T)
    BY <1>2, SelectType
  <2>4. CASE e \in S
    <3>1. Select(Append(s \o u, e), S) = Append(Select(s \o u, S), e)
      <4> HIDE DEF Q
      <4> DEFINE w == s \o u
      <4>1. w \in Seq(T)
        BY <2>1
      <4> HIDE DEF w
      <4>2. Select(Append(w, e), S) = Append(Select(w, S), e)
        BY <2>4, <4>1, SelectAppend
      <4> QED
        BY <4>2 DEF w
    <3>11. Select(Append(u, e), S) = Append(Select(u, S), e)
      BY <2>4, SelectAppend
    <3>2. Append(Select(s, S) \o Select(u, S), e) = Select(s, S) \o Append(Select(u, S), e)
      <4> HIDE DEF Q
      <4>1. ASSUME NEW a \in Seq(T), NEW b \in Seq(T)
            PROVE  a \o Append(b, e) = Append(a \o b, e)
        BY ConcatAppend
      <4> QED
        BY <2>3, <4>1
    <3> QED
      BY <2>1, <2>2, <2>3, <3>1, <3>11, <3>2
  <2>5. CASE e \notin S
    <3>1. /\ Select(s \o Append(u, e), S) = Select(s \o u, S)
          /\ Select(Append(u, e), S) = Select(u, S)
      BY <2>1, <2>2, <2>5, SelectAppend
    <3> QED
      BY <2>1, <2>3, <3>1
  <2> QED
    BY <2>4, <2>5
<1> HIDE DEF Q
<1>3. t \in Q
  BY <1>1, <1>2, SeqInd
<1> QED
  BY <1>3 DEF Q

\* What is selected of a single element.
LEMMA SelectOne ==
  ASSUME NEW e, NEW S
  PROVE  Select(<<e>>, S) = IF e \in S THEN <<e>> ELSE <<>>
<1> DEFINE T == {e}
<1>1. <<>> \in Seq(T) /\ e \in T /\ Append(<<>>, e) = <<e>>
  BY EmptySeq
<1> HIDE DEF T
<1>2. Select(Append(<<>>, e), S) =
        IF e \in S THEN Append(Select(<<>>, S), e) ELSE Select(<<>>, S)
  BY <1>1, SelectAppend
<1> QED
  BY <1>1, <1>2, SelectEmpty

\* The first element comes first, if it is selected.
LEMMA SelectHead ==
  ASSUME NEW T, NEW s \in Seq(T), s # <<>>, NEW S
  PROVE  Select(s, S) =
           (IF Head(s) \in S THEN <<Head(s)>> ELSE <<>>) \o Select(Tail(s), S)
<1>1. /\ Head(s) \in T /\ Tail(s) \in Seq(T) /\ Len(Tail(s)) = Len(s) - 1
      /\ \A i \in 1..Len(Tail(s)) : Tail(s)[i] = s[i + 1]
      /\ Head(s) = s[1] /\ Len(s) \in Nat
  BY HeadTailProperties, LenProperties
<1>2. <<Head(s)>> \in Seq(T) /\ Len(<<Head(s)>>) = 1 /\ <<Head(s)>>[1] = Head(s)
  BY <1>1
<1>3. s = <<Head(s)>> \o Tail(s)
  <2> DEFINE h == <<Head(s)>>
             u == Tail(s)
  <2>1. h \in Seq(T) /\ Len(h) = 1 /\ h[1] = s[1] /\ u \in Seq(T)
        /\ Len(u) = Len(s) - 1 /\ \A i \in 1..Len(u) : u[i] = s[i + 1]
    BY <1>1, <1>2
  <2> HIDE DEF h, u
  <2>2. /\ h \o u \in Seq(T) /\ Len(h \o u) = Len(s)
        /\ \A i \in 1..Len(s) : (h \o u)[i] = IF i <= 1 THEN h[i] ELSE u[i - 1]
    <3>1. /\ h \o u \in Seq(T) /\ Len(h \o u) = Len(h) + Len(u)
          /\ \A i \in 1..Len(h) + Len(u) :
               (h \o u)[i] = IF i <= Len(h) THEN h[i] ELSE u[i - Len(h)]
      <4>1. h \in Seq(T) /\ u \in Seq(T)
        BY <2>1
      <4> QED
        BY <4>1, ConcatProperties
    <3>2. Len(h) + Len(u) = Len(s)
      BY <1>1, <2>1
    <3> QED
      BY <2>1, <3>1, <3>2
  <2>3. ASSUME NEW i \in 1..Len(s) PROVE (h \o u)[i] = s[i]
    <3>1. CASE i = 1
      BY <2>1, <2>2, <3>1
    <3>2. CASE i # 1
      <4>1. i - 1 \in 1..Len(u) /\ (i - 1) + 1 = i /\ ~(i <= 1)
        BY <1>1, <2>1, <3>2
      <4> QED
        BY <2>1, <2>2, <4>1
    <3> QED
      BY <3>1, <3>2
  <2>4. s = h \o u
    BY <2>2, <2>3, SeqEqual
  <2> QED
    BY <2>4 DEF h, u
<1>4. Select(<<Head(s)>> \o Tail(s), S) = Select(<<Head(s)>>, S) \o Select(Tail(s), S)
  <2> DEFINE h == <<Head(s)>>
             u == Tail(s)
  <2>1. h \in Seq(T) /\ u \in Seq(T)
    BY <1>1, <1>2
  <2> HIDE DEF h, u
  <2>2. Select(h \o u, S) = Select(h, S) \o Select(u, S)
    BY <2>1, SelectConcat
  <2> QED
    BY <2>2 DEF h, u
<1> QED
  BY <1>3, <1>4, SelectOne

\* Nothing is selected of a sequence that stays outside the set.
LEMMA SelectNone ==
  ASSUME NEW T, NEW s \in Seq(T), NEW S, \A i \in 1..Len(s) : s[i] \notin S
  PROVE  Select(s, S) = <<>>
<1> DEFINE Q == {u \in Seq(T) : (\A i \in 1..Len(u) : u[i] \notin S) => Select(u, S) = <<>>}
<1>1. <<>> \in Q
  BY EmptySeq, SelectEmpty
<1>2. ASSUME NEW u \in Seq(T), u \in Q, NEW e \in T PROVE Append(u, e) \in Q
  <2> DEFINE v == Append(u, e)
  <2>1. /\ v \in Seq(T) /\ Len(v) = Len(u) + 1 /\ Len(u) \in Nat
        /\ v[Len(u) + 1] = e /\ \A i \in 1..Len(u) : v[i] = u[i]
    BY AppendProperties, LenProperties
  <2>2. Select(v, S) = IF e \in S THEN Append(Select(u, S), e) ELSE Select(u, S)
    BY SelectAppend
  <2> HIDE DEF v
  <2>3. ASSUME \A i \in 1..Len(v) : v[i] \notin S PROVE Select(v, S) = <<>>
    <3>1. e \notin S /\ \A i \in 1..Len(u) : u[i] \notin S
      BY <2>1, <2>3
    <3> QED
      BY <1>2, <2>2, <3>1
  <2>4. v \in Q
    BY <2>1, <2>3
  <2> QED
    BY <2>4 DEF v
<1> HIDE DEF Q
<1>3. s \in Q
  BY <1>1, <1>2, SeqInd
<1> QED
  BY <1>3 DEF Q

\* What is selected depends on nothing but which elements of the sequence are in the set.
LEMMA SelectSame ==
  ASSUME NEW T, NEW s \in Seq(T), NEW S, NEW R, \A i \in 1..Len(s) : s[i] \in S <=> s[i] \in R
  PROVE  Select(s, S) = Select(s, R)
<1> DEFINE Q == {u \in Seq(T) :
                   (\A i \in 1..Len(u) : u[i] \in S <=> u[i] \in R) => Select(u, S) = Select(u, R)}
<1>1. <<>> \in Q
  BY EmptySeq, SelectEmpty
<1>2. ASSUME NEW u \in Seq(T), u \in Q, NEW e \in T PROVE Append(u, e) \in Q
  <2> DEFINE v == Append(u, e)
  <2>1. /\ v \in Seq(T) /\ Len(v) = Len(u) + 1 /\ Len(u) \in Nat
        /\ v[Len(u) + 1] = e /\ \A i \in 1..Len(u) : v[i] = u[i]
    BY AppendProperties, LenProperties
  <2>2. /\ Select(v, S) = IF e \in S THEN Append(Select(u, S), e) ELSE Select(u, S)
        /\ Select(v, R) = IF e \in R THEN Append(Select(u, R), e) ELSE Select(u, R)
    BY SelectAppend
  <2> HIDE DEF v
  <2>3. ASSUME \A i \in 1..Len(v) : v[i] \in S <=> v[i] \in R PROVE Select(v, S) = Select(v, R)
    <3>1. (e \in S <=> e \in R) /\ \A i \in 1..Len(u) : u[i] \in S <=> u[i] \in R
      BY <2>1, <2>3
    <3> QED
      BY <1>2, <2>2, <3>1
  <2>4. v \in Q
    BY <2>1, <2>3
  <2> QED
    BY <2>4 DEF v
<1> HIDE DEF Q
<1>3. s \in Q
  BY <1>1, <1>2, SeqInd
<1> QED
  BY <1>3 DEF Q

\* What is selected is what is in the sequence and in the set.
LEMMA SelectRange ==
  ASSUME NEW T, NEW s \in Seq(T), NEW S, NEW e
  PROVE  (\E k \in 1..Len(Select(s, S)) : Select(s, S)[k] = e)
           <=> (e \in S /\ \E i \in 1..Len(s) : s[i] = e)
<1> DEFINE In(u) == \E i \in 1..Len(u) : u[i] = e
           Q == {u \in Seq(T) : In(Select(u, S)) <=> e \in S /\ In(u)}
<1>1. <<>> \in Q
  <2>1. <<>> \in Seq(T) /\ Select(<<>>, S) = <<>> /\ Len(<<>>) = 0
    BY EmptySeq, SelectEmpty
  <2>2. ~In(<<>>)
    BY <2>1
  <2> QED
    BY <2>1, <2>2
<1>2. ASSUME NEW u \in Seq(T), NEW a \in T PROVE In(Append(u, a)) <=> In(u) \/ a = e
  <2> DEFINE v == Append(u, a)
  <2>1. /\ Len(v) = Len(u) + 1 /\ Len(u) \in Nat
        /\ v[Len(u) + 1] = a /\ \A i \in 1..Len(u) : v[i] = u[i]
    BY AppendProperties, LenProperties
  <2> HIDE DEF v
  <2>2. In(v) <=> In(u) \/ a = e
    <3>1. ASSUME NEW i \in 1..Len(v), v[i] = e PROVE In(u) \/ a = e
      <4>1. i \in 1..Len(u) \/ i = Len(u) + 1
        BY <2>1
      <4> QED
        BY <2>1, <3>1, <4>1
    <3>2. 1..Len(u) \subseteq 1..Len(v) /\ Len(u) + 1 \in 1..Len(v)
      BY <2>1
    <3>3. ASSUME NEW i \in 1..Len(u), u[i] = e PROVE In(v)
      BY <2>1, <3>2, <3>3
    <3>4. ASSUME a = e PROVE In(v)
      BY <2>1, <3>2, <3>4
    <3> QED
      BY <3>1, <3>3, <3>4
  <2> QED
    BY <2>2 DEF v
<1> HIDE DEF In
<1>3. ASSUME NEW u \in Seq(T), u \in Q, NEW a \in T PROVE Append(u, a) \in Q
  <2>1. Append(u, a) \in Seq(T) /\ Select(u, S) \in Seq(T)
    BY AppendProperties, SelectType
  <2>2. Select(Append(u, a), S) = IF a \in S THEN Append(Select(u, S), a) ELSE Select(u, S)
    BY SelectAppend
  <2>3. In(Append(u, a)) <=> In(u) \/ a = e
    BY <1>2
  <2>4. In(Append(Select(u, S), a)) <=> In(Select(u, S)) \/ a = e
    BY <2>1, <1>2
  <2>5. In(Select(u, S)) <=> e \in S /\ In(u)
    BY <1>3
  <2>6. In(Select(Append(u, a), S)) <=> e \in S /\ In(Append(u, a))
    <3>1. CASE a \in S
      <4>1. In(Select(Append(u, a), S)) <=> In(Append(Select(u, S), a))
        BY <2>2, <3>1
      <4> QED
        BY <2>3, <2>4, <2>5, <3>1, <4>1
    <3>2. CASE a \notin S
      <4>1. In(Select(Append(u, a), S)) <=> In(Select(u, S))
        BY <2>2, <3>2
      <4> QED
        BY <2>3, <2>5, <3>2, <4>1
    <3> QED
      BY <3>1, <3>2
  <2> QED
    BY <2>1, <2>6
<1> HIDE DEF Q
<1>4. s \in Q
  BY <1>1, <1>3, SeqInd
<1>5. In(Select(s, S)) <=> e \in S /\ In(s)
  BY <1>4 DEF Q
<1> QED
  BY <1>5 DEF In

-----------------------------------------------------------------------------
(* Total.                                                                  *)

\* The totals of the first elements of a sequence, one element at a time.
Sums(f, q) ==
  /\ f \in [0..Len(q) -> Nat]
  /\ f[0] = 0
  /\ \A i \in 1..Len(q) : f[i] = f[i - 1] + q[i]

LEMMA TotalSteps ==
  ASSUME NEW q \in Seq(Nat)
  PROVE  \E f : Sums(f, q) /\ Total(q) = f[Len(q)]
<1> DEFINE step == [is \in (1..Len(q)) \X Nat |-> is[2] + q[is[1]]]
           Steps(f) == f = [i \in 0..Len(q) |-> IF i = 0 THEN 0 ELSE f[i - 1] + q[i]]
<1>1. Len(q) \in Nat /\ \A i \in 1..Len(q) : q[i] \in Nat
  BY ElementOfSeq, LenProperties
<1>2. step \in [(1..Len(q)) \X Nat -> Nat]
  BY <1>1
<1>3. PICK g \in [0..Len(q) -> Nat] :
        g[0] = 0 /\ \A i \in 1..Len(q) : g[i] = step[<<i, g[i - 1]>>]
  <2> HIDE DEF step
  <2>1. \E g \in [0..Len(q) -> Nat] : Recurs(g, 0, Len(q), step)
    BY <1>1, <1>2, Recursion
  <2> QED
    BY <2>1 DEF Recurs
<1>4. ASSUME NEW i \in 1..Len(q) PROVE g[i] = g[i - 1] + q[i]
  <2>1. i - 1 \in 0..Len(q) /\ g[i - 1] \in Nat
    BY <1>1, <1>3, SMTT(30)
  <2> QED
    BY <1>3, <2>1
<1>5. \E h : Steps(h)
  <2> HIDE DEF step
  <2>1. g = [i \in 0..Len(q) |-> g[i]]
    OBVIOUS
  <2>2. ASSUME NEW i \in 0..Len(q)
        PROVE  g[i] = IF i = 0 THEN 0 ELSE g[i - 1] + q[i]
    <3>1. i = 0 \/ i \in 1..Len(q)
      BY <1>1
    <3> QED
      BY <1>1, <1>3, <1>4, <3>1
  <2>3. Steps(g)
    BY <2>1, <2>2
  <2> QED
    BY <2>3
<1> DEFINE f == CHOOSE h : Steps(h)
<1>6. Steps(f)
  BY <1>5
<1>7. Total(q) = f[Len(q)]
  BY DEF Total
<1> HIDE DEF f, step
<1>8. /\ f[0] = 0
      /\ \A i \in 1..Len(q) : f[i] = f[i - 1] + q[i]
  <2>1. f[0] = 0
    BY <1>1, <1>6
  <2>2. ASSUME NEW i \in 1..Len(q) PROVE f[i] = f[i - 1] + q[i]
    <3>1. i \in 0..Len(q) /\ i # 0
      BY <1>1
    <3> QED
      BY <1>6, <3>1
  <2> QED
    BY <2>1, <2>2
<1>9. ASSUME NEW n \in Nat, n <= Len(q) PROVE f[n] \in Nat
  <2> DEFINE P == {m \in Nat : m <= Len(q) => f[m] \in Nat}
  <2>1. 0 \in P
    BY <1>8
  <2>2. ASSUME NEW m \in Nat, m \in P PROVE m + 1 \in P
    <3>1. SUFFICES ASSUME m + 1 <= Len(q) PROVE f[m + 1] \in Nat
      OBVIOUS
    <3>2. m + 1 \in 1..Len(q) /\ m <= Len(q) /\ (m + 1) - 1 = m
      BY <1>1, <3>1
    <3>3. f[m] \in Nat /\ q[m + 1] \in Nat /\ f[m + 1] = f[m] + q[m + 1]
      BY <1>1, <1>8, <2>2, <3>2
    <3> QED
      BY <3>3
  <2> HIDE DEF P
  <2>3. n \in P
    BY <2>1, <2>2, NatInd
  <2> QED
    BY <2>3, <1>9 DEF P
<1>10. f \in [0..Len(q) -> Nat]
  BY <1>1, <1>6, <1>9
<1> QED
  BY <1>7, <1>8, <1>10 DEF Sums

LEMMA TotalType == ASSUME NEW q \in Seq(Nat) PROVE Total(q) \in Nat
<1>1. Len(q) \in Nat
  BY LenProperties
<1> QED
  BY <1>1, TotalSteps DEF Sums

LEMMA TotalEmpty == Total(<<>>) = 0
<1>1. <<>> \in Seq(Nat) /\ Len(<<>>) = 0
  BY EmptySeq
<1> QED
  BY <1>1, TotalSteps DEF Sums

\* Two sequences of a length, the second equal but at
\* position k, where it is greater by n.
LEMMA TotalGrows ==
  ASSUME NEW q \in Seq(Nat), NEW r \in Seq(Nat), Len(r) = Len(q),
         NEW k \in 1..Len(q), NEW n \in Nat, r[k] = q[k] + n,
         \A i \in 1..Len(q) : i # k => r[i] = q[i]
  PROVE  Total(r) = Total(q) + n
<1>1. PICK f : Sums(f, q) /\ Total(q) = f[Len(q)]
  BY TotalSteps
<1>2. PICK g : Sums(g, r) /\ Total(r) = g[Len(r)]
  BY TotalSteps
<1>3. Len(q) \in Nat /\ \A i \in 1..Len(q) : q[i] \in Nat /\ r[i] \in Nat
  BY ElementOfSeq, LenProperties
<1> DEFINE P == {m \in Nat : m <= Len(q) => g[m] = IF m < k THEN f[m] ELSE f[m] + n}
<1>4. 0 \in P
  BY <1>1, <1>2, <1>3 DEF Sums
<1>5. ASSUME NEW m \in Nat, m \in P PROVE m + 1 \in P
  <2>1. SUFFICES ASSUME m + 1 <= Len(q)
                 PROVE  g[m + 1] = IF m + 1 < k THEN f[m + 1] ELSE f[m + 1] + n
    OBVIOUS
  <2>2. m + 1 \in 1..Len(q) /\ m \in 0..Len(q) /\ m <= Len(q) /\ (m + 1) - 1 = m
    BY <1>3, <2>1
  <2>3. g[m] = IF m < k THEN f[m] ELSE f[m] + n
    BY <1>5, <2>2
  <2>4. /\ f[m + 1] = f[m] + q[m + 1] /\ g[m + 1] = g[m] + r[m + 1]
        /\ f[m] \in Nat /\ g[m] \in Nat
    BY <1>1, <1>2, <1>3, <2>2 DEF Sums
  <2>5. q[m + 1] \in Nat /\ r[m + 1] = IF m + 1 = k THEN q[m + 1] + n ELSE q[m + 1]
    BY <1>3, <2>2
  <2> QED
    BY <1>3, <2>3, <2>4, <2>5, SMTT(30)
<1> HIDE DEF P
<1>6. Len(q) \in P
  BY <1>3, <1>4, <1>5, NatInd
<1>7. g[Len(q)] = f[Len(q)] + n
  BY <1>3, <1>6 DEF P
<1> QED
  BY <1>1, <1>2, <1>7

LEMMA TotalMonotone ==
  ASSUME NEW q \in Seq(Nat), NEW r \in Seq(Nat), Len(r) = Len(q),
         \A i \in 1..Len(q) : q[i] <= r[i]
  PROVE  Total(q) <= Total(r)
<1>1. PICK f : Sums(f, q) /\ Total(q) = f[Len(q)]
  BY TotalSteps
<1>2. PICK g : Sums(g, r) /\ Total(r) = g[Len(r)]
  BY TotalSteps
<1>3. Len(q) \in Nat /\ \A i \in 1..Len(q) : q[i] \in Nat /\ r[i] \in Nat
  BY ElementOfSeq, LenProperties
<1> DEFINE P == {m \in Nat : m <= Len(q) => f[m] <= g[m]}
<1>4. 0 \in P
  BY <1>1, <1>2, <1>3 DEF Sums
<1>5. ASSUME NEW m \in Nat, m \in P PROVE m + 1 \in P
  <2>1. SUFFICES ASSUME m + 1 <= Len(q) PROVE f[m + 1] <= g[m + 1]
    OBVIOUS
  <2>2. m + 1 \in 1..Len(q) /\ m \in 0..Len(q) /\ m <= Len(q) /\ (m + 1) - 1 = m
    BY <1>3, <2>1
  <2>3. f[m] <= g[m]
    BY <1>5, <2>2
  <2>4. /\ f[m + 1] = f[m] + q[m + 1] /\ g[m + 1] = g[m] + r[m + 1]
        /\ f[m] \in Nat /\ g[m] \in Nat
    BY <1>1, <1>2, <1>3, <2>2 DEF Sums
  <2>5. q[m + 1] \in Nat /\ r[m + 1] \in Nat /\ q[m + 1] <= r[m + 1]
    BY <1>3, <2>2
  <2> QED
    BY <2>3, <2>4, <2>5
<1> HIDE DEF P
<1>6. Len(q) \in P
  BY <1>3, <1>4, <1>5, NatInd
<1>7. f[Len(q)] <= g[Len(q)]
  BY <1>3, <1>6 DEF P
<1> QED
  BY <1>1, <1>2, <1>7

\* One more element at the end.
LEMMA TotalAppend ==
  ASSUME NEW q \in Seq(Nat), NEW n \in Nat
  PROVE  Total(Append(q, n)) = Total(q) + n
<1> DEFINE r == Append(q, n)
<1>1. /\ r \in Seq(Nat) /\ Len(q) \in Nat /\ Len(r) = Len(q) + 1
      /\ r[Len(q) + 1] = n /\ \A i \in 1..Len(q) : r[i] = q[i]
  BY AppendProperties, LenProperties
<1> HIDE DEF r
<1>2. PICK f : Sums(f, q) /\ Total(q) = f[Len(q)]
  BY TotalSteps
<1>3. PICK g : Sums(g, r) /\ Total(r) = g[Len(r)]
  BY <1>1, TotalSteps
<1> DEFINE P == {m \in Nat : m <= Len(q) => g[m] = f[m]}
<1>4. 0 \in P
  BY <1>2, <1>3 DEF Sums
<1>5. ASSUME NEW m \in Nat, m \in P PROVE m + 1 \in P
  <2>1. SUFFICES ASSUME m + 1 <= Len(q) PROVE g[m + 1] = f[m + 1]
    OBVIOUS
  <2>2. /\ m + 1 \in 1..Len(q) /\ m + 1 \in 1..Len(r) /\ m <= Len(q)
        /\ (m + 1) - 1 = m
    BY <1>1, <2>1
  <2>3. g[m] = f[m] /\ r[m + 1] = q[m + 1]
    BY <1>1, <1>5, <2>2
  <2>4. f[m + 1] = f[m] + q[m + 1] /\ g[m + 1] = g[m] + r[m + 1]
    BY <1>2, <1>3, <2>2 DEF Sums
  <2> QED
    BY <2>3, <2>4
<1> HIDE DEF P
<1>6. Len(q) \in P
  BY <1>1, <1>4, <1>5, NatInd
<1>7. g[Len(q)] = f[Len(q)]
  BY <1>1, <1>6 DEF P
<1>8. Len(r) \in 1..Len(r) /\ Len(r) - 1 = Len(q)
  BY <1>1
<1>9. g[Len(r)] = g[Len(q)] + n
  BY <1>1, <1>3, <1>8 DEF Sums
<1> QED
  BY <1>2, <1>3, <1>7, <1>9 DEF r
=============================================================================
