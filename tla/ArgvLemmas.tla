---------------------------- MODULE ArgvLemmas ----------------------------
(***************************************************************************)
(* What a launch is made of, without its state: the layout table, the      *)
(* launch conventions of the runtimes, the arguments each of them gives    *)
(* and what the runtime's command line reads of them (CliReading), and the *)
(* two ways from a profile to a command line.  HostProofs has the theorems *)
(* that rest on these facts.                                               *)
(***************************************************************************)
EXTENDS Launch, DataLemmas, FiniteSetTheorems, TLAPS

-----------------------------------------------------------------------------
(* The layout table. *)

\* Joined lists have the elements of both.
LEMMA ConcatRange ==
  ASSUME NEW S, NEW a \in Seq(S), NEW b \in Seq(S)
  PROVE  a \o b \in Seq(S) /\ ToSet(a \o b) = ToSet(a) \union ToSet(b)
<1> DEFINE c == a \o b
<1>1. /\ c \in Seq(S) /\ Len(c) = Len(a) + Len(b)
      /\ \A q \in 1..(Len(a) + Len(b)) : c[q] = IF q <= Len(a) THEN a[q] ELSE b[q - Len(a)]
  BY ConcatProperties
<1>2. /\ Len(a) \in Nat /\ DOMAIN a = 1..Len(a) /\ Len(b) \in Nat /\ DOMAIN b = 1..Len(b)
  BY LenProperties
<1> HIDE DEF c
<1>3. DOMAIN c = 1..(Len(a) + Len(b))
  BY <1>1, LenProperties
<1>4. ASSUME NEW q \in DOMAIN c PROVE c[q] \in ToSet(a) \union ToSet(b)
  <2>1. CASE q <= Len(a)
    <3>1. q \in DOMAIN a /\ c[q] = a[q]
      BY <2>1, <1>1, <1>2, <1>3
    <3> QED BY <3>1 DEF ToSet
  <2>2. CASE ~(q <= Len(a))
    <3>1. q - Len(a) \in DOMAIN b /\ c[q] = b[q - Len(a)]
      BY <2>2, <1>1, <1>2, <1>3
    <3> QED BY <3>1 DEF ToSet
  <2> QED BY <2>1, <2>2
<1>5. ASSUME NEW q \in DOMAIN a PROVE a[q] \in ToSet(c)
  <2>1. q \in DOMAIN c /\ c[q] = a[q]
    BY <1>1, <1>2, <1>3
  <2> QED BY <2>1 DEF ToSet
<1>6. ASSUME NEW q \in DOMAIN b PROVE b[q] \in ToSet(c)
  <2>1. Len(a) + q \in DOMAIN c /\ ~(Len(a) + q <= Len(a)) /\ (Len(a) + q) - Len(a) = q
    BY <1>2, <1>3
  <2>2. c[Len(a) + q] = b[q]
    BY <2>1, <1>1, <1>3
  <2> QED BY <2>1, <2>2 DEF ToSet
<1>7. ToSet(c) = ToSet(a) \union ToSet(b)
  BY <1>4, <1>5, <1>6 DEF ToSet
<1> QED BY <1>1, <1>7 DEF c

\* The rows of each provider, as a list of rows.
LEMMA ClaudeRowsAre ==
  /\ ClaudeRows \in Seq(ToSet(ClaudeRows))
  /\ \A x \in ToSet(ClaudeRows) : x[1] = "claude" /\ x[2] \in {"", PerTurn}
  /\ \E x \in ToSet(ClaudeRows) : x[1] = "claude"
<1>1. DOMAIN ClaudeRows = 1..9 /\ Len(ClaudeRows) = 9 /\ ClaudeRows = [i \in 1..9 |-> ClaudeRows[i]]
  BY DEF ClaudeRows
<1>2. /\ ClaudeRows[1][1] = "claude" /\ ClaudeRows[1][2] = ""
      /\ ClaudeRows[2][1] = "claude" /\ ClaudeRows[2][2] = PerTurn
      /\ ClaudeRows[3][1] = "claude" /\ ClaudeRows[3][2] = ""
      /\ ClaudeRows[4][1] = "claude" /\ ClaudeRows[4][2] = ""
      /\ ClaudeRows[5][1] = "claude" /\ ClaudeRows[5][2] = ""
      /\ ClaudeRows[6][1] = "claude" /\ ClaudeRows[6][2] = PerTurn
      /\ ClaudeRows[7][1] = "claude" /\ ClaudeRows[7][2] = ""
      /\ ClaudeRows[8][1] = "claude" /\ ClaudeRows[8][2] = PerTurn
      /\ ClaudeRows[9][1] = "claude" /\ ClaudeRows[9][2] = ""
  BY DEF ClaudeRows
<1>3. \A i \in 1..9 : i = 1 \/ i = 2 \/ i = 3 \/ i = 4 \/ i = 5 \/ i = 6 \/ i = 7 \/ i = 8 \/ i = 9
  OBVIOUS
<1>4. \A i \in 1..9 : ClaudeRows[i][1] = "claude" /\ ClaudeRows[i][2] \in {"", PerTurn}
  BY <1>2, <1>3
<1>5. ClaudeRows \in Seq(ToSet(ClaudeRows))
  BY <1>1, SeqDef DEF ToSet
<1>6. \A x \in ToSet(ClaudeRows) : x[1] = "claude" /\ x[2] \in {"", PerTurn}
  <2> SUFFICES ASSUME NEW i \in DOMAIN ClaudeRows PROVE ClaudeRows[i][1] = "claude" /\ ClaudeRows[i][2] \in {"", PerTurn}
    BY DEF ToSet
  <2> QED BY <1>1, <1>4
<1>7. ClaudeRows[1] \in ToSet(ClaudeRows)
  BY <1>1 DEF ToSet
<1> QED BY <1>2, <1>5, <1>6, <1>7

LEMMA CodexRowsAre ==
  /\ CodexRows \in Seq(ToSet(CodexRows))
  /\ \A x \in ToSet(CodexRows) : x[1] = "codex" /\ x[2] \in {"", PerTurn}
  /\ \E x \in ToSet(CodexRows) : x[1] = "codex"
<1>1. DOMAIN CodexRows = 1..7 /\ Len(CodexRows) = 7 /\ CodexRows = [i \in 1..7 |-> CodexRows[i]]
  BY DEF CodexRows
<1>2. /\ CodexRows[1][1] = "codex" /\ CodexRows[1][2] = ""
      /\ CodexRows[2][1] = "codex" /\ CodexRows[2][2] = ""
      /\ CodexRows[3][1] = "codex" /\ CodexRows[3][2] = ""
      /\ CodexRows[4][1] = "codex" /\ CodexRows[4][2] = ""
      /\ CodexRows[5][1] = "codex" /\ CodexRows[5][2] = ""
      /\ CodexRows[6][1] = "codex" /\ CodexRows[6][2] = ""
      /\ CodexRows[7][1] = "codex" /\ CodexRows[7][2] = PerTurn
  BY DEF CodexRows
<1>3. \A i \in 1..7 : i = 1 \/ i = 2 \/ i = 3 \/ i = 4 \/ i = 5 \/ i = 6 \/ i = 7
  OBVIOUS
<1>4. \A i \in 1..7 : CodexRows[i][1] = "codex" /\ CodexRows[i][2] \in {"", PerTurn}
  BY <1>2, <1>3
<1>5. CodexRows \in Seq(ToSet(CodexRows))
  BY <1>1, SeqDef DEF ToSet
<1>6. \A x \in ToSet(CodexRows) : x[1] = "codex" /\ x[2] \in {"", PerTurn}
  <2> SUFFICES ASSUME NEW i \in DOMAIN CodexRows PROVE CodexRows[i][1] = "codex" /\ CodexRows[i][2] \in {"", PerTurn}
    BY DEF ToSet
  <2> QED BY <1>1, <1>4
<1>7. CodexRows[1] \in ToSet(CodexRows)
  BY <1>1 DEF ToSet
<1> QED BY <1>2, <1>5, <1>6, <1>7

LEMMA OpencodeRowsAre ==
  /\ OpencodeRows \in Seq(ToSet(OpencodeRows))
  /\ \A x \in ToSet(OpencodeRows) : x[1] = "opencode" /\ x[2] \in {"", PerTurn, HTTPSSE}
  /\ \E x \in ToSet(OpencodeRows) : x[1] = "opencode"
<1>1. DOMAIN OpencodeRows = 1..8 /\ Len(OpencodeRows) = 8 /\ OpencodeRows = [i \in 1..8 |-> OpencodeRows[i]]
  BY DEF OpencodeRows
<1>2. /\ OpencodeRows[1][1] = "opencode" /\ OpencodeRows[1][2] = ""
      /\ OpencodeRows[2][1] = "opencode" /\ OpencodeRows[2][2] = ""
      /\ OpencodeRows[3][1] = "opencode" /\ OpencodeRows[3][2] = ""
      /\ OpencodeRows[4][1] = "opencode" /\ OpencodeRows[4][2] = ""
      /\ OpencodeRows[5][1] = "opencode" /\ OpencodeRows[5][2] = ""
      /\ OpencodeRows[6][1] = "opencode" /\ OpencodeRows[6][2] = ""
      /\ OpencodeRows[7][1] = "opencode" /\ OpencodeRows[7][2] = PerTurn
      /\ OpencodeRows[8][1] = "opencode" /\ OpencodeRows[8][2] = HTTPSSE
  BY DEF OpencodeRows
<1>3. \A i \in 1..8 : i = 1 \/ i = 2 \/ i = 3 \/ i = 4 \/ i = 5 \/ i = 6 \/ i = 7 \/ i = 8
  OBVIOUS
<1>4. \A i \in 1..8 : OpencodeRows[i][1] = "opencode" /\ OpencodeRows[i][2] \in {"", PerTurn, HTTPSSE}
  BY <1>2, <1>3
<1>5. OpencodeRows \in Seq(ToSet(OpencodeRows))
  BY <1>1, SeqDef DEF ToSet
<1>6. \A x \in ToSet(OpencodeRows) : x[1] = "opencode" /\ x[2] \in {"", PerTurn, HTTPSSE}
  <2> SUFFICES ASSUME NEW i \in DOMAIN OpencodeRows PROVE OpencodeRows[i][1] = "opencode" /\ OpencodeRows[i][2] \in {"", PerTurn, HTTPSSE}
    BY DEF ToSet
  <2> QED BY <1>1, <1>4
<1>7. OpencodeRows[1] \in ToSet(OpencodeRows)
  BY <1>1 DEF ToSet
<1> QED BY <1>2, <1>5, <1>6, <1>7

LEMMA AntigravityRowsAre ==
  /\ AntigravityRows \in Seq(ToSet(AntigravityRows))
  /\ \A x \in ToSet(AntigravityRows) : x[1] = "antigravity" /\ x[2] \in {"", PerTurn}
  /\ \E x \in ToSet(AntigravityRows) : x[1] = "antigravity"
<1>1. DOMAIN AntigravityRows = 1..6 /\ Len(AntigravityRows) = 6 /\ AntigravityRows = [i \in 1..6 |-> AntigravityRows[i]]
  BY DEF AntigravityRows
<1>2. /\ AntigravityRows[1][1] = "antigravity" /\ AntigravityRows[1][2] = ""
      /\ AntigravityRows[2][1] = "antigravity" /\ AntigravityRows[2][2] = ""
      /\ AntigravityRows[3][1] = "antigravity" /\ AntigravityRows[3][2] = ""
      /\ AntigravityRows[4][1] = "antigravity" /\ AntigravityRows[4][2] = ""
      /\ AntigravityRows[5][1] = "antigravity" /\ AntigravityRows[5][2] = ""
      /\ AntigravityRows[6][1] = "antigravity" /\ AntigravityRows[6][2] = PerTurn
  BY DEF AntigravityRows
<1>3. \A i \in 1..6 : i = 1 \/ i = 2 \/ i = 3 \/ i = 4 \/ i = 5 \/ i = 6
  OBVIOUS
<1>4. \A i \in 1..6 : AntigravityRows[i][1] = "antigravity" /\ AntigravityRows[i][2] \in {"", PerTurn}
  BY <1>2, <1>3
<1>5. AntigravityRows \in Seq(ToSet(AntigravityRows))
  BY <1>1, SeqDef DEF ToSet
<1>6. \A x \in ToSet(AntigravityRows) : x[1] = "antigravity" /\ x[2] \in {"", PerTurn}
  <2> SUFFICES ASSUME NEW i \in DOMAIN AntigravityRows PROVE AntigravityRows[i][1] = "antigravity" /\ AntigravityRows[i][2] \in {"", PerTurn}
    BY DEF ToSet
  <2> QED BY <1>1, <1>4
<1>7. AntigravityRows[1] \in ToSet(AntigravityRows)
  BY <1>1 DEF ToSet
<1> QED BY <1>2, <1>5, <1>6, <1>7

\* A list over a set is one over every larger set.
LEMMA SeqWider == ASSUME NEW S, NEW T, NEW s \in Seq(S), S \subseteq T PROVE s \in Seq(T)
  BY SeqDef

\* The table is made of the four providers' rows.
LEMMA RowsRange ==
  ToSet(Rows) = ToSet(ClaudeRows) \union ToSet(CodexRows) \union ToSet(OpencodeRows) \union ToSet(AntigravityRows)
<1> DEFINE S == ToSet(ClaudeRows) \union ToSet(CodexRows) \union ToSet(OpencodeRows) \union ToSet(AntigravityRows)
<1>1. ClaudeRows \in Seq(S) /\ CodexRows \in Seq(S) /\ OpencodeRows \in Seq(S) /\ AntigravityRows \in Seq(S)
  BY ClaudeRowsAre, CodexRowsAre, OpencodeRowsAre, AntigravityRowsAre, SeqWider, ZenonT(30)
<1> HIDE DEF S
<1> DEFINE ab == ClaudeRows \o CodexRows
           abc == ab \o OpencodeRows
           abcd == abc \o AntigravityRows
<1>2. ab \in Seq(S) /\ ToSet(ab) = ToSet(ClaudeRows) \union ToSet(CodexRows)
  BY <1>1, ConcatRange
<1> HIDE DEF ab
<1>3. abc \in Seq(S) /\ ToSet(abc) = ToSet(ab) \union ToSet(OpencodeRows)
  BY <1>1, <1>2, ConcatRange
<1> HIDE DEF abc
<1>4. abcd \in Seq(S) /\ ToSet(abcd) = ToSet(abc) \union ToSet(AntigravityRows)
  BY <1>1, <1>3, ConcatRange
<1> HIDE DEF abcd
<1>5. Rows = abcd
  BY DEF Rows, ab, abc, abcd
<1> QED BY <1>2, <1>3, <1>4, <1>5

\* What stands where in joined lists.
LEMMA ConcatAt ==
  ASSUME NEW S, NEW a \in Seq(S), NEW b \in Seq(S)
  PROVE  /\ a \o b \in Seq(S) /\ Len(a \o b) = Len(a) + Len(b)
         /\ \A i \in 1..Len(a) : (a \o b)[i] = a[i]
         /\ \A i \in 1..Len(b) : (a \o b)[i + Len(a)] = b[i]
<1> DEFINE c == a \o b
<1>1. /\ c \in Seq(S) /\ Len(c) = Len(a) + Len(b)
      /\ \A i \in 1..(Len(a) + Len(b)) : c[i] = IF i <= Len(a) THEN a[i] ELSE b[i - Len(a)]
  BY ConcatProperties
<1> HIDE DEF c
<1>2. Len(a) \in Nat /\ Len(b) \in Nat
  BY LenProperties
<1>3. \A i \in 1..Len(a) : c[i] = a[i]
  BY <1>1, <1>2
<1>4. ASSUME NEW i \in 1..Len(b) PROVE c[i + Len(a)] = b[i]
  <2>1. i + Len(a) \in 1..(Len(a) + Len(b)) /\ ~(i + Len(a) <= Len(a)) /\ (i + Len(a)) - Len(a) = i
    BY <1>2
  <2> QED BY <2>1, <1>1
<1> QED BY <1>1, <1>3, <1>4 DEF c

\* The rows of a provider stand together in the table.
LEMMA RowsAt ==
  /\ DOMAIN Table = 1..30
  /\ \A i \in 1..9 : Table[i] = Row(ClaudeRows[i])
  /\ \A i \in 1..7 : Table[i + 9] = Row(CodexRows[i])
  /\ \A i \in 1..8 : Table[i + 16] = Row(OpencodeRows[i])
  /\ \A i \in 1..6 : Table[i + 24] = Row(AntigravityRows[i])
<1> DEFINE S == ToSet(ClaudeRows) \union ToSet(CodexRows) \union ToSet(OpencodeRows) \union ToSet(AntigravityRows)
<1>1. ClaudeRows \in Seq(S) /\ CodexRows \in Seq(S) /\ OpencodeRows \in Seq(S) /\ AntigravityRows \in Seq(S)
  BY ClaudeRowsAre, CodexRowsAre, OpencodeRowsAre, AntigravityRowsAre, SeqWider, ZenonT(30)
<1>2. Len(ClaudeRows) = 9 /\ Len(CodexRows) = 7 /\ Len(OpencodeRows) = 8 /\ Len(AntigravityRows) = 6
  BY DEF ClaudeRows, CodexRows, OpencodeRows, AntigravityRows
<1> HIDE DEF S
<1> DEFINE ab == ClaudeRows \o CodexRows
           abc == ab \o OpencodeRows
           abcd == abc \o AntigravityRows
<1>3. /\ ab \in Seq(S) /\ Len(ab) = Len(ClaudeRows) + Len(CodexRows)
      /\ \A i \in 1..Len(ClaudeRows) : ab[i] = ClaudeRows[i]
      /\ \A i \in 1..Len(CodexRows) : ab[i + Len(ClaudeRows)] = CodexRows[i]
  BY <1>1, ConcatAt
<1> HIDE DEF ab
<1>4. /\ abc \in Seq(S) /\ Len(abc) = Len(ab) + Len(OpencodeRows)
      /\ \A i \in 1..Len(ab) : abc[i] = ab[i]
      /\ \A i \in 1..Len(OpencodeRows) : abc[i + Len(ab)] = OpencodeRows[i]
  <2>1. ab \in Seq(S)
    BY <1>3
  <2> QED BY <2>1, <1>1, ConcatAt
<1> HIDE DEF abc
<1>5. /\ abcd \in Seq(S) /\ Len(abcd) = Len(abc) + Len(AntigravityRows)
      /\ \A i \in 1..Len(abc) : abcd[i] = abc[i]
      /\ \A i \in 1..Len(AntigravityRows) : abcd[i + Len(abc)] = AntigravityRows[i]
  <2>1. abc \in Seq(S)
    BY <1>4
  <2> QED BY <2>1, <1>1, ConcatAt
<1> HIDE DEF abcd
<1>6. Rows = abcd
  BY DEF Rows, ab, abc, abcd
<1>7. Len(ab) = 16 /\ Len(abc) = 24 /\ Len(abcd) = 30
  BY <1>2, <1>3, <1>4, <1>5
<1>8. DOMAIN abcd = 1..30
  BY <1>5, <1>7, LenProperties
<1>9. DOMAIN Table = 1..30 /\ \A i \in 1..30 : Table[i] = Row(abcd[i])
  BY <1>6, <1>8 DEF Table
<1>10. ASSUME NEW i \in 1..9 PROVE Table[i] = Row(ClaudeRows[i])
  <2>1. i \in 1..30 /\ i \in 1..24 /\ i \in 1..16
    OBVIOUS
  <2>2. ab[i] = ClaudeRows[i] /\ abc[i] = ab[i] /\ abcd[i] = abc[i]
    BY <2>1, <1>2, <1>3, <1>4, <1>5, <1>7
  <2> QED BY <2>1, <2>2, <1>9
<1>11. ASSUME NEW i \in 1..7 PROVE Table[i + 9] = Row(CodexRows[i])
  <2>1. i + 9 \in 1..30 /\ i + 9 \in 1..24 /\ i + 9 \in 1..16
    OBVIOUS
  <2>2. ab[i + 9] = CodexRows[i]
    BY <1>2, <1>3
  <2>3. abc[i + 9] = ab[i + 9] /\ abcd[i + 9] = abc[i + 9]
    BY <2>1, <1>4, <1>5, <1>7
  <2>4. abcd[i + 9] = CodexRows[i]
    BY <2>2, <2>3
  <2> QED BY <2>1, <2>4, <1>9
<1>12. ASSUME NEW i \in 1..8 PROVE Table[i + 16] = Row(OpencodeRows[i])
  <2>1. i + 16 \in 1..30 /\ i + 16 \in 1..24
    OBVIOUS
  <2>2. abc[i + 16] = OpencodeRows[i]
    BY <1>2, <1>4, <1>7
  <2>3. abcd[i + 16] = abc[i + 16]
    BY <2>1, <1>5, <1>7
  <2>4. abcd[i + 16] = OpencodeRows[i]
    BY <2>2, <2>3
  <2> QED BY <2>1, <2>4, <1>9
<1>13. ASSUME NEW i \in 1..6 PROVE Table[i + 24] = Row(AntigravityRows[i])
  <2>1. i + 24 \in 1..30
    OBVIOUS
  <2>2. abcd[i + 24] = AntigravityRows[i]
    BY <1>2, <1>5, <1>7
  <2> QED BY <2>1, <2>2, <1>9
<1> QED BY <1>9, <1>10, <1>11, <1>12, <1>13

\* What row i says.
RowIs(i, provider, mode, variant, concern, root, rel, flag, env, cwd) ==
  /\ Table[i].provider = provider /\ Table[i].mode = mode /\ Table[i].variant = variant
  /\ Table[i].concern = concern /\ Table[i].root = root /\ Table[i].rel = rel
  /\ Table[i].flag = flag /\ Table[i].env = env /\ Table[i].cwd = cwd

\* A row of the table, field by field.
LEMMA RowFields ==
  ASSUME NEW x
  PROVE  /\ Row(x).provider = x[1] /\ Row(x).mode = x[2] /\ Row(x).variant = x[3]
         /\ Row(x).concern = x[4] /\ Row(x).root = x[5] /\ Row(x).rel = x[6]
         /\ Row(x).flag = x[7] /\ Row(x).env = x[8] /\ Row(x).cwd = x[9]
  BY DEF Row

\* A row as the table's source writes it.
LEMMA RowIsRow ==
  ASSUME NEW i, NEW x, Table[i] = Row(x)
  PROVE  RowIs(i, x[1], x[2], x[3], x[4], x[5], x[6], x[7], x[8], x[9])
<1> DEFINE e == Row(x)
<1>1. /\ e.provider = x[1] /\ e.mode = x[2] /\ e.variant = x[3]
      /\ e.concern = x[4] /\ e.root = x[5] /\ e.rel = x[6]
      /\ e.flag = x[7] /\ e.env = x[8] /\ e.cwd = x[9]
  BY RowFields
<1> HIDE DEF e
<1>2. Table[i] = e
  BY DEF e
<1> QED BY <1>1, <1>2 DEF RowIs

\* The nine rows of Claude.
LEMMA ClaudeTable ==
  /\ RowIs(1, "claude", "", "", "instructions", "boot", "CLAUDE.md", "", {}, "boot")
  /\ RowIs(2, "claude", PerTurn, "bare", "instructions", "boot", "CLAUDE.md", "--append-system-prompt-file", {}, "boot")
  /\ RowIs(3, "claude", "", "", "boot", "boot", "boot.md", "", {}, "boot")
  /\ RowIs(4, "claude", "", "", "mcp", "boot", ".mcp.json", "--mcp-config", {}, "boot")
  /\ RowIs(5, "claude", "", "", "native-config", "boot", ".claude/settings.json", "", {}, "boot")
  /\ RowIs(6, "claude", PerTurn, "bare", "native-config", "boot", ".claude/settings.json", "--settings", {}, "boot")
  /\ RowIs(7, "claude", "", "", "skills", "boot", ".claude/skills", "", {}, "boot")
  /\ RowIs(8, "claude", PerTurn, "bare", "skills", "boot", ".claude/skills", "--add-dir", {}, "boot")
  /\ RowIs(9, "claude", "", "", "project-dir", "project", "", "--add-dir", {}, "boot")
<1>1. RowIs(1, "claude", "", "", "instructions", "boot", "CLAUDE.md", "", {}, "boot")
  <2>1. 1 \in 1..9 /\ 1 + 0 = 1
    OBVIOUS
  <2>2. Table[1] = Row(ClaudeRows[1])
    BY <2>1, RowsAt
  <2> DEFINE x == ClaudeRows[1]
  <2>3. /\ x[1] = "claude" /\ x[2] = "" /\ x[3] = "" /\ x[4] = "instructions" /\ x[5] = "boot"
        /\ x[6] = "CLAUDE.md" /\ x[7] = "" /\ x[8] = {} /\ x[9] = "boot"
    BY DEF ClaudeRows
  <2> HIDE DEF x
  <2>4. Table[1] = Row(x)
    BY <2>2 DEF x
  <2> QED BY <2>3, <2>4, RowIsRow
<1>2. RowIs(2, "claude", PerTurn, "bare", "instructions", "boot", "CLAUDE.md", "--append-system-prompt-file", {}, "boot")
  <2>1. 2 \in 1..9 /\ 2 + 0 = 2
    OBVIOUS
  <2>2. Table[2] = Row(ClaudeRows[2])
    BY <2>1, RowsAt
  <2> DEFINE x == ClaudeRows[2]
  <2>3. /\ x[1] = "claude" /\ x[2] = PerTurn /\ x[3] = "bare" /\ x[4] = "instructions" /\ x[5] = "boot"
        /\ x[6] = "CLAUDE.md" /\ x[7] = "--append-system-prompt-file" /\ x[8] = {} /\ x[9] = "boot"
    BY DEF ClaudeRows
  <2> HIDE DEF x
  <2>4. Table[2] = Row(x)
    BY <2>2 DEF x
  <2> QED BY <2>3, <2>4, RowIsRow
<1>3. RowIs(3, "claude", "", "", "boot", "boot", "boot.md", "", {}, "boot")
  <2>1. 3 \in 1..9 /\ 3 + 0 = 3
    OBVIOUS
  <2>2. Table[3] = Row(ClaudeRows[3])
    BY <2>1, RowsAt
  <2> DEFINE x == ClaudeRows[3]
  <2>3. /\ x[1] = "claude" /\ x[2] = "" /\ x[3] = "" /\ x[4] = "boot" /\ x[5] = "boot"
        /\ x[6] = "boot.md" /\ x[7] = "" /\ x[8] = {} /\ x[9] = "boot"
    BY DEF ClaudeRows
  <2> HIDE DEF x
  <2>4. Table[3] = Row(x)
    BY <2>2 DEF x
  <2> QED BY <2>3, <2>4, RowIsRow
<1>4. RowIs(4, "claude", "", "", "mcp", "boot", ".mcp.json", "--mcp-config", {}, "boot")
  <2>1. 4 \in 1..9 /\ 4 + 0 = 4
    OBVIOUS
  <2>2. Table[4] = Row(ClaudeRows[4])
    BY <2>1, RowsAt
  <2> DEFINE x == ClaudeRows[4]
  <2>3. /\ x[1] = "claude" /\ x[2] = "" /\ x[3] = "" /\ x[4] = "mcp" /\ x[5] = "boot"
        /\ x[6] = ".mcp.json" /\ x[7] = "--mcp-config" /\ x[8] = {} /\ x[9] = "boot"
    BY DEF ClaudeRows
  <2> HIDE DEF x
  <2>4. Table[4] = Row(x)
    BY <2>2 DEF x
  <2> QED BY <2>3, <2>4, RowIsRow
<1>5. RowIs(5, "claude", "", "", "native-config", "boot", ".claude/settings.json", "", {}, "boot")
  <2>1. 5 \in 1..9 /\ 5 + 0 = 5
    OBVIOUS
  <2>2. Table[5] = Row(ClaudeRows[5])
    BY <2>1, RowsAt
  <2> DEFINE x == ClaudeRows[5]
  <2>3. /\ x[1] = "claude" /\ x[2] = "" /\ x[3] = "" /\ x[4] = "native-config" /\ x[5] = "boot"
        /\ x[6] = ".claude/settings.json" /\ x[7] = "" /\ x[8] = {} /\ x[9] = "boot"
    BY DEF ClaudeRows
  <2> HIDE DEF x
  <2>4. Table[5] = Row(x)
    BY <2>2 DEF x
  <2> QED BY <2>3, <2>4, RowIsRow
<1>6. RowIs(6, "claude", PerTurn, "bare", "native-config", "boot", ".claude/settings.json", "--settings", {}, "boot")
  <2>1. 6 \in 1..9 /\ 6 + 0 = 6
    OBVIOUS
  <2>2. Table[6] = Row(ClaudeRows[6])
    BY <2>1, RowsAt
  <2> DEFINE x == ClaudeRows[6]
  <2>3. /\ x[1] = "claude" /\ x[2] = PerTurn /\ x[3] = "bare" /\ x[4] = "native-config" /\ x[5] = "boot"
        /\ x[6] = ".claude/settings.json" /\ x[7] = "--settings" /\ x[8] = {} /\ x[9] = "boot"
    BY DEF ClaudeRows
  <2> HIDE DEF x
  <2>4. Table[6] = Row(x)
    BY <2>2 DEF x
  <2> QED BY <2>3, <2>4, RowIsRow
<1>7. RowIs(7, "claude", "", "", "skills", "boot", ".claude/skills", "", {}, "boot")
  <2>1. 7 \in 1..9 /\ 7 + 0 = 7
    OBVIOUS
  <2>2. Table[7] = Row(ClaudeRows[7])
    BY <2>1, RowsAt
  <2> DEFINE x == ClaudeRows[7]
  <2>3. /\ x[1] = "claude" /\ x[2] = "" /\ x[3] = "" /\ x[4] = "skills" /\ x[5] = "boot"
        /\ x[6] = ".claude/skills" /\ x[7] = "" /\ x[8] = {} /\ x[9] = "boot"
    BY DEF ClaudeRows
  <2> HIDE DEF x
  <2>4. Table[7] = Row(x)
    BY <2>2 DEF x
  <2> QED BY <2>3, <2>4, RowIsRow
<1>8. RowIs(8, "claude", PerTurn, "bare", "skills", "boot", ".claude/skills", "--add-dir", {}, "boot")
  <2>1. 8 \in 1..9 /\ 8 + 0 = 8
    OBVIOUS
  <2>2. Table[8] = Row(ClaudeRows[8])
    BY <2>1, RowsAt
  <2> DEFINE x == ClaudeRows[8]
  <2>3. /\ x[1] = "claude" /\ x[2] = PerTurn /\ x[3] = "bare" /\ x[4] = "skills" /\ x[5] = "boot"
        /\ x[6] = ".claude/skills" /\ x[7] = "--add-dir" /\ x[8] = {} /\ x[9] = "boot"
    BY DEF ClaudeRows
  <2> HIDE DEF x
  <2>4. Table[8] = Row(x)
    BY <2>2 DEF x
  <2> QED BY <2>3, <2>4, RowIsRow
<1>9. RowIs(9, "claude", "", "", "project-dir", "project", "", "--add-dir", {}, "boot")
  <2>1. 9 \in 1..9 /\ 9 + 0 = 9
    OBVIOUS
  <2>2. Table[9] = Row(ClaudeRows[9])
    BY <2>1, RowsAt
  <2> DEFINE x == ClaudeRows[9]
  <2>3. /\ x[1] = "claude" /\ x[2] = "" /\ x[3] = "" /\ x[4] = "project-dir" /\ x[5] = "project"
        /\ x[6] = "" /\ x[7] = "--add-dir" /\ x[8] = {} /\ x[9] = "boot"
    BY DEF ClaudeRows
  <2> HIDE DEF x
  <2>4. Table[9] = Row(x)
    BY <2>2 DEF x
  <2> QED BY <2>3, <2>4, RowIsRow
<1> QED BY <1>1, <1>2, <1>3, <1>4, <1>5, <1>6, <1>7, <1>8, <1>9

\* The seven rows of Codex.
LEMMA CodexTable ==
  /\ RowIs(10, "codex", "", "", "instructions", "boot", "AGENTS.md", "", {}, "boot")
  /\ RowIs(11, "codex", "", "", "boot", "boot", "boot.md", "", {}, "boot")
  /\ RowIs(12, "codex", "", "", "native-config", "boot", "config.toml", "", {"CODEX_HOME"}, "boot")
  /\ RowIs(13, "codex", "", "", "auth", "boot", "auth.json", "", {"CODEX_HOME"}, "boot")
  /\ RowIs(14, "codex", "", "", "mcp", "boot", ".mcp.json", "", {}, "boot")
  /\ RowIs(15, "codex", "", "", "skills", "boot", "skills", "", {"CODEX_HOME"}, "boot")
  /\ RowIs(16, "codex", PerTurn, "", "project-dir", "project", "", "--cd", {}, "")
<1>1. RowIs(10, "codex", "", "", "instructions", "boot", "AGENTS.md", "", {}, "boot")
  <2>1. 1 \in 1..7 /\ 1 + 9 = 10
    OBVIOUS
  <2>2. Table[10] = Row(CodexRows[1])
    BY <2>1, RowsAt
  <2> DEFINE x == CodexRows[1]
  <2>3. /\ x[1] = "codex" /\ x[2] = "" /\ x[3] = "" /\ x[4] = "instructions" /\ x[5] = "boot"
        /\ x[6] = "AGENTS.md" /\ x[7] = "" /\ x[8] = {} /\ x[9] = "boot"
    BY DEF CodexRows
  <2> HIDE DEF x
  <2>4. Table[10] = Row(x)
    BY <2>2 DEF x
  <2> QED BY <2>3, <2>4, RowIsRow
<1>2. RowIs(11, "codex", "", "", "boot", "boot", "boot.md", "", {}, "boot")
  <2>1. 2 \in 1..7 /\ 2 + 9 = 11
    OBVIOUS
  <2>2. Table[11] = Row(CodexRows[2])
    BY <2>1, RowsAt
  <2> DEFINE x == CodexRows[2]
  <2>3. /\ x[1] = "codex" /\ x[2] = "" /\ x[3] = "" /\ x[4] = "boot" /\ x[5] = "boot"
        /\ x[6] = "boot.md" /\ x[7] = "" /\ x[8] = {} /\ x[9] = "boot"
    BY DEF CodexRows
  <2> HIDE DEF x
  <2>4. Table[11] = Row(x)
    BY <2>2 DEF x
  <2> QED BY <2>3, <2>4, RowIsRow
<1>3. RowIs(12, "codex", "", "", "native-config", "boot", "config.toml", "", {"CODEX_HOME"}, "boot")
  <2>1. 3 \in 1..7 /\ 3 + 9 = 12
    OBVIOUS
  <2>2. Table[12] = Row(CodexRows[3])
    BY <2>1, RowsAt
  <2> DEFINE x == CodexRows[3]
  <2>3. /\ x[1] = "codex" /\ x[2] = "" /\ x[3] = "" /\ x[4] = "native-config" /\ x[5] = "boot"
        /\ x[6] = "config.toml" /\ x[7] = "" /\ x[8] = {"CODEX_HOME"} /\ x[9] = "boot"
    BY DEF CodexRows
  <2> HIDE DEF x
  <2>4. Table[12] = Row(x)
    BY <2>2 DEF x
  <2> QED BY <2>3, <2>4, RowIsRow
<1>4. RowIs(13, "codex", "", "", "auth", "boot", "auth.json", "", {"CODEX_HOME"}, "boot")
  <2>1. 4 \in 1..7 /\ 4 + 9 = 13
    OBVIOUS
  <2>2. Table[13] = Row(CodexRows[4])
    BY <2>1, RowsAt
  <2> DEFINE x == CodexRows[4]
  <2>3. /\ x[1] = "codex" /\ x[2] = "" /\ x[3] = "" /\ x[4] = "auth" /\ x[5] = "boot"
        /\ x[6] = "auth.json" /\ x[7] = "" /\ x[8] = {"CODEX_HOME"} /\ x[9] = "boot"
    BY DEF CodexRows
  <2> HIDE DEF x
  <2>4. Table[13] = Row(x)
    BY <2>2 DEF x
  <2> QED BY <2>3, <2>4, RowIsRow
<1>5. RowIs(14, "codex", "", "", "mcp", "boot", ".mcp.json", "", {}, "boot")
  <2>1. 5 \in 1..7 /\ 5 + 9 = 14
    OBVIOUS
  <2>2. Table[14] = Row(CodexRows[5])
    BY <2>1, RowsAt
  <2> DEFINE x == CodexRows[5]
  <2>3. /\ x[1] = "codex" /\ x[2] = "" /\ x[3] = "" /\ x[4] = "mcp" /\ x[5] = "boot"
        /\ x[6] = ".mcp.json" /\ x[7] = "" /\ x[8] = {} /\ x[9] = "boot"
    BY DEF CodexRows
  <2> HIDE DEF x
  <2>4. Table[14] = Row(x)
    BY <2>2 DEF x
  <2> QED BY <2>3, <2>4, RowIsRow
<1>6. RowIs(15, "codex", "", "", "skills", "boot", "skills", "", {"CODEX_HOME"}, "boot")
  <2>1. 6 \in 1..7 /\ 6 + 9 = 15
    OBVIOUS
  <2>2. Table[15] = Row(CodexRows[6])
    BY <2>1, RowsAt
  <2> DEFINE x == CodexRows[6]
  <2>3. /\ x[1] = "codex" /\ x[2] = "" /\ x[3] = "" /\ x[4] = "skills" /\ x[5] = "boot"
        /\ x[6] = "skills" /\ x[7] = "" /\ x[8] = {"CODEX_HOME"} /\ x[9] = "boot"
    BY DEF CodexRows
  <2> HIDE DEF x
  <2>4. Table[15] = Row(x)
    BY <2>2 DEF x
  <2> QED BY <2>3, <2>4, RowIsRow
<1>7. RowIs(16, "codex", PerTurn, "", "project-dir", "project", "", "--cd", {}, "")
  <2>1. 7 \in 1..7 /\ 7 + 9 = 16
    OBVIOUS
  <2>2. Table[16] = Row(CodexRows[7])
    BY <2>1, RowsAt
  <2> DEFINE x == CodexRows[7]
  <2>3. /\ x[1] = "codex" /\ x[2] = PerTurn /\ x[3] = "" /\ x[4] = "project-dir" /\ x[5] = "project"
        /\ x[6] = "" /\ x[7] = "--cd" /\ x[8] = {} /\ x[9] = ""
    BY DEF CodexRows
  <2> HIDE DEF x
  <2>4. Table[16] = Row(x)
    BY <2>2 DEF x
  <2> QED BY <2>3, <2>4, RowIsRow
<1> QED BY <1>1, <1>2, <1>3, <1>4, <1>5, <1>6, <1>7

\* The eight rows of OpenCode.
LEMMA OpencodeTable ==
  /\ RowIs(17, "opencode", "", "", "instructions", "boot", "agents/{agent}.md", "", {"OPENCODE_CONFIG_DIR"}, "project")
  /\ RowIs(18, "opencode", "", "", "native-config", "boot", "opencode.json", "", {"OPENCODE_CONFIG_DIR"}, "project")
  /\ RowIs(19, "opencode", "", "", "boot", "boot", "boot.md", "", {}, "")
  /\ RowIs(20, "opencode", "", "", "mcp", "boot", ".mcp.json", "", {}, "")
  /\ RowIs(21, "opencode", "", "", "skills", "boot", "skills", "", {"OPENCODE_CONFIG_DIR"}, "project")
  /\ RowIs(22, "opencode", "", "", "skills", "boot", ".opencode/skills", "", {}, "boot")
  /\ RowIs(23, "opencode", PerTurn, "", "project-dir", "project", "", "--dir", {}, "")
  /\ RowIs(24, "opencode", HTTPSSE, "", "runtime", "project", "", "serve", {}, "")
<1>1. RowIs(17, "opencode", "", "", "instructions", "boot", "agents/{agent}.md", "", {"OPENCODE_CONFIG_DIR"}, "project")
  <2>1. 1 \in 1..8 /\ 1 + 16 = 17
    OBVIOUS
  <2>2. Table[17] = Row(OpencodeRows[1])
    BY <2>1, RowsAt
  <2> DEFINE x == OpencodeRows[1]
  <2>3. /\ x[1] = "opencode" /\ x[2] = "" /\ x[3] = "" /\ x[4] = "instructions" /\ x[5] = "boot"
        /\ x[6] = "agents/{agent}.md" /\ x[7] = "" /\ x[8] = {"OPENCODE_CONFIG_DIR"} /\ x[9] = "project"
    BY DEF OpencodeRows
  <2> HIDE DEF x
  <2>4. Table[17] = Row(x)
    BY <2>2 DEF x
  <2> QED BY <2>3, <2>4, RowIsRow
<1>2. RowIs(18, "opencode", "", "", "native-config", "boot", "opencode.json", "", {"OPENCODE_CONFIG_DIR"}, "project")
  <2>1. 2 \in 1..8 /\ 2 + 16 = 18
    OBVIOUS
  <2>2. Table[18] = Row(OpencodeRows[2])
    BY <2>1, RowsAt
  <2> DEFINE x == OpencodeRows[2]
  <2>3. /\ x[1] = "opencode" /\ x[2] = "" /\ x[3] = "" /\ x[4] = "native-config" /\ x[5] = "boot"
        /\ x[6] = "opencode.json" /\ x[7] = "" /\ x[8] = {"OPENCODE_CONFIG_DIR"} /\ x[9] = "project"
    BY DEF OpencodeRows
  <2> HIDE DEF x
  <2>4. Table[18] = Row(x)
    BY <2>2 DEF x
  <2> QED BY <2>3, <2>4, RowIsRow
<1>3. RowIs(19, "opencode", "", "", "boot", "boot", "boot.md", "", {}, "")
  <2>1. 3 \in 1..8 /\ 3 + 16 = 19
    OBVIOUS
  <2>2. Table[19] = Row(OpencodeRows[3])
    BY <2>1, RowsAt
  <2> DEFINE x == OpencodeRows[3]
  <2>3. /\ x[1] = "opencode" /\ x[2] = "" /\ x[3] = "" /\ x[4] = "boot" /\ x[5] = "boot"
        /\ x[6] = "boot.md" /\ x[7] = "" /\ x[8] = {} /\ x[9] = ""
    BY DEF OpencodeRows
  <2> HIDE DEF x
  <2>4. Table[19] = Row(x)
    BY <2>2 DEF x
  <2> QED BY <2>3, <2>4, RowIsRow
<1>4. RowIs(20, "opencode", "", "", "mcp", "boot", ".mcp.json", "", {}, "")
  <2>1. 4 \in 1..8 /\ 4 + 16 = 20
    OBVIOUS
  <2>2. Table[20] = Row(OpencodeRows[4])
    BY <2>1, RowsAt
  <2> DEFINE x == OpencodeRows[4]
  <2>3. /\ x[1] = "opencode" /\ x[2] = "" /\ x[3] = "" /\ x[4] = "mcp" /\ x[5] = "boot"
        /\ x[6] = ".mcp.json" /\ x[7] = "" /\ x[8] = {} /\ x[9] = ""
    BY DEF OpencodeRows
  <2> HIDE DEF x
  <2>4. Table[20] = Row(x)
    BY <2>2 DEF x
  <2> QED BY <2>3, <2>4, RowIsRow
<1>5. RowIs(21, "opencode", "", "", "skills", "boot", "skills", "", {"OPENCODE_CONFIG_DIR"}, "project")
  <2>1. 5 \in 1..8 /\ 5 + 16 = 21
    OBVIOUS
  <2>2. Table[21] = Row(OpencodeRows[5])
    BY <2>1, RowsAt
  <2> DEFINE x == OpencodeRows[5]
  <2>3. /\ x[1] = "opencode" /\ x[2] = "" /\ x[3] = "" /\ x[4] = "skills" /\ x[5] = "boot"
        /\ x[6] = "skills" /\ x[7] = "" /\ x[8] = {"OPENCODE_CONFIG_DIR"} /\ x[9] = "project"
    BY DEF OpencodeRows
  <2> HIDE DEF x
  <2>4. Table[21] = Row(x)
    BY <2>2 DEF x
  <2> QED BY <2>3, <2>4, RowIsRow
<1>6. RowIs(22, "opencode", "", "", "skills", "boot", ".opencode/skills", "", {}, "boot")
  <2>1. 6 \in 1..8 /\ 6 + 16 = 22
    OBVIOUS
  <2>2. Table[22] = Row(OpencodeRows[6])
    BY <2>1, RowsAt
  <2> DEFINE x == OpencodeRows[6]
  <2>3. /\ x[1] = "opencode" /\ x[2] = "" /\ x[3] = "" /\ x[4] = "skills" /\ x[5] = "boot"
        /\ x[6] = ".opencode/skills" /\ x[7] = "" /\ x[8] = {} /\ x[9] = "boot"
    BY DEF OpencodeRows
  <2> HIDE DEF x
  <2>4. Table[22] = Row(x)
    BY <2>2 DEF x
  <2> QED BY <2>3, <2>4, RowIsRow
<1>7. RowIs(23, "opencode", PerTurn, "", "project-dir", "project", "", "--dir", {}, "")
  <2>1. 7 \in 1..8 /\ 7 + 16 = 23
    OBVIOUS
  <2>2. Table[23] = Row(OpencodeRows[7])
    BY <2>1, RowsAt
  <2> DEFINE x == OpencodeRows[7]
  <2>3. /\ x[1] = "opencode" /\ x[2] = PerTurn /\ x[3] = "" /\ x[4] = "project-dir" /\ x[5] = "project"
        /\ x[6] = "" /\ x[7] = "--dir" /\ x[8] = {} /\ x[9] = ""
    BY DEF OpencodeRows
  <2> HIDE DEF x
  <2>4. Table[23] = Row(x)
    BY <2>2 DEF x
  <2> QED BY <2>3, <2>4, RowIsRow
<1>8. RowIs(24, "opencode", HTTPSSE, "", "runtime", "project", "", "serve", {}, "")
  <2>1. 8 \in 1..8 /\ 8 + 16 = 24
    OBVIOUS
  <2>2. Table[24] = Row(OpencodeRows[8])
    BY <2>1, RowsAt
  <2> DEFINE x == OpencodeRows[8]
  <2>3. /\ x[1] = "opencode" /\ x[2] = HTTPSSE /\ x[3] = "" /\ x[4] = "runtime" /\ x[5] = "project"
        /\ x[6] = "" /\ x[7] = "serve" /\ x[8] = {} /\ x[9] = ""
    BY DEF OpencodeRows
  <2> HIDE DEF x
  <2>4. Table[24] = Row(x)
    BY <2>2 DEF x
  <2> QED BY <2>3, <2>4, RowIsRow
<1> QED BY <1>1, <1>2, <1>3, <1>4, <1>5, <1>6, <1>7, <1>8

\* The six rows of Antigravity.
LEMMA AntigravityTable ==
  /\ RowIs(25, "antigravity", "", "", "instructions", "boot", "AGENTS.md", "", {}, "boot")
  /\ RowIs(26, "antigravity", "", "", "boot", "boot", "boot.md", "", {}, "boot")
  /\ RowIs(27, "antigravity", "", "", "native-config", "boot", ".agents/plugins/tether/plugin.json", "", {}, "boot")
  /\ RowIs(28, "antigravity", "", "", "mcp", "boot", ".agents/plugins/tether/mcp_config.json", "", {}, "boot")
  /\ RowIs(29, "antigravity", "", "", "skills", "boot", ".agents/skills", "", {}, "boot")
  /\ RowIs(30, "antigravity", PerTurn, "", "project-dir", "project", "", "--add-dir", {}, "")
<1>1. RowIs(25, "antigravity", "", "", "instructions", "boot", "AGENTS.md", "", {}, "boot")
  <2>1. 1 \in 1..6 /\ 1 + 24 = 25
    OBVIOUS
  <2>2. Table[25] = Row(AntigravityRows[1])
    BY <2>1, RowsAt
  <2> DEFINE x == AntigravityRows[1]
  <2>3. /\ x[1] = "antigravity" /\ x[2] = "" /\ x[3] = "" /\ x[4] = "instructions" /\ x[5] = "boot"
        /\ x[6] = "AGENTS.md" /\ x[7] = "" /\ x[8] = {} /\ x[9] = "boot"
    BY DEF AntigravityRows
  <2> HIDE DEF x
  <2>4. Table[25] = Row(x)
    BY <2>2 DEF x
  <2> QED BY <2>3, <2>4, RowIsRow
<1>2. RowIs(26, "antigravity", "", "", "boot", "boot", "boot.md", "", {}, "boot")
  <2>1. 2 \in 1..6 /\ 2 + 24 = 26
    OBVIOUS
  <2>2. Table[26] = Row(AntigravityRows[2])
    BY <2>1, RowsAt
  <2> DEFINE x == AntigravityRows[2]
  <2>3. /\ x[1] = "antigravity" /\ x[2] = "" /\ x[3] = "" /\ x[4] = "boot" /\ x[5] = "boot"
        /\ x[6] = "boot.md" /\ x[7] = "" /\ x[8] = {} /\ x[9] = "boot"
    BY DEF AntigravityRows
  <2> HIDE DEF x
  <2>4. Table[26] = Row(x)
    BY <2>2 DEF x
  <2> QED BY <2>3, <2>4, RowIsRow
<1>3. RowIs(27, "antigravity", "", "", "native-config", "boot", ".agents/plugins/tether/plugin.json", "", {}, "boot")
  <2>1. 3 \in 1..6 /\ 3 + 24 = 27
    OBVIOUS
  <2>2. Table[27] = Row(AntigravityRows[3])
    BY <2>1, RowsAt
  <2> DEFINE x == AntigravityRows[3]
  <2>3. /\ x[1] = "antigravity" /\ x[2] = "" /\ x[3] = "" /\ x[4] = "native-config" /\ x[5] = "boot"
        /\ x[6] = ".agents/plugins/tether/plugin.json" /\ x[7] = "" /\ x[8] = {} /\ x[9] = "boot"
    BY DEF AntigravityRows
  <2> HIDE DEF x
  <2>4. Table[27] = Row(x)
    BY <2>2 DEF x
  <2> QED BY <2>3, <2>4, RowIsRow
<1>4. RowIs(28, "antigravity", "", "", "mcp", "boot", ".agents/plugins/tether/mcp_config.json", "", {}, "boot")
  <2>1. 4 \in 1..6 /\ 4 + 24 = 28
    OBVIOUS
  <2>2. Table[28] = Row(AntigravityRows[4])
    BY <2>1, RowsAt
  <2> DEFINE x == AntigravityRows[4]
  <2>3. /\ x[1] = "antigravity" /\ x[2] = "" /\ x[3] = "" /\ x[4] = "mcp" /\ x[5] = "boot"
        /\ x[6] = ".agents/plugins/tether/mcp_config.json" /\ x[7] = "" /\ x[8] = {} /\ x[9] = "boot"
    BY DEF AntigravityRows
  <2> HIDE DEF x
  <2>4. Table[28] = Row(x)
    BY <2>2 DEF x
  <2> QED BY <2>3, <2>4, RowIsRow
<1>5. RowIs(29, "antigravity", "", "", "skills", "boot", ".agents/skills", "", {}, "boot")
  <2>1. 5 \in 1..6 /\ 5 + 24 = 29
    OBVIOUS
  <2>2. Table[29] = Row(AntigravityRows[5])
    BY <2>1, RowsAt
  <2> DEFINE x == AntigravityRows[5]
  <2>3. /\ x[1] = "antigravity" /\ x[2] = "" /\ x[3] = "" /\ x[4] = "skills" /\ x[5] = "boot"
        /\ x[6] = ".agents/skills" /\ x[7] = "" /\ x[8] = {} /\ x[9] = "boot"
    BY DEF AntigravityRows
  <2> HIDE DEF x
  <2>4. Table[29] = Row(x)
    BY <2>2 DEF x
  <2> QED BY <2>3, <2>4, RowIsRow
<1>6. RowIs(30, "antigravity", PerTurn, "", "project-dir", "project", "", "--add-dir", {}, "")
  <2>1. 6 \in 1..6 /\ 6 + 24 = 30
    OBVIOUS
  <2>2. Table[30] = Row(AntigravityRows[6])
    BY <2>1, RowsAt
  <2> DEFINE x == AntigravityRows[6]
  <2>3. /\ x[1] = "antigravity" /\ x[2] = PerTurn /\ x[3] = "" /\ x[4] = "project-dir" /\ x[5] = "project"
        /\ x[6] = "" /\ x[7] = "--add-dir" /\ x[8] = {} /\ x[9] = ""
    BY DEF AntigravityRows
  <2> HIDE DEF x
  <2>4. Table[30] = Row(x)
    BY <2>2 DEF x
  <2> QED BY <2>3, <2>4, RowIsRow
<1> QED BY <1>1, <1>2, <1>3, <1>4, <1>5, <1>6

\* The rows that say where a provider's files of one concern are.
PlaceRows(r, c) == { i \in DOMAIN Table : Table[i].provider = r /\ Table[i].concern = c }

\* What kind of row each of the thirty is.
LEMMA Concerns ==
  /\ Table[1].provider = "claude" /\ Table[1].concern = "instructions"
  /\ Table[2].provider = "claude" /\ Table[2].concern = "instructions"
  /\ Table[3].provider = "claude" /\ Table[3].concern = "boot"
  /\ Table[4].provider = "claude" /\ Table[4].concern = "mcp"
  /\ Table[5].provider = "claude" /\ Table[5].concern = "native-config"
  /\ Table[6].provider = "claude" /\ Table[6].concern = "native-config"
  /\ Table[7].provider = "claude" /\ Table[7].concern = "skills"
  /\ Table[8].provider = "claude" /\ Table[8].concern = "skills"
  /\ Table[9].provider = "claude" /\ Table[9].concern = "project-dir"
  /\ Table[10].provider = "codex" /\ Table[10].concern = "instructions"
  /\ Table[11].provider = "codex" /\ Table[11].concern = "boot"
  /\ Table[12].provider = "codex" /\ Table[12].concern = "native-config"
  /\ Table[13].provider = "codex" /\ Table[13].concern = "auth"
  /\ Table[14].provider = "codex" /\ Table[14].concern = "mcp"
  /\ Table[15].provider = "codex" /\ Table[15].concern = "skills"
  /\ Table[16].provider = "codex" /\ Table[16].concern = "project-dir"
  /\ Table[17].provider = "opencode" /\ Table[17].concern = "instructions"
  /\ Table[18].provider = "opencode" /\ Table[18].concern = "native-config"
  /\ Table[19].provider = "opencode" /\ Table[19].concern = "boot"
  /\ Table[20].provider = "opencode" /\ Table[20].concern = "mcp"
  /\ Table[21].provider = "opencode" /\ Table[21].concern = "skills"
  /\ Table[22].provider = "opencode" /\ Table[22].concern = "skills"
  /\ Table[23].provider = "opencode" /\ Table[23].concern = "project-dir"
  /\ Table[24].provider = "opencode" /\ Table[24].concern = "runtime"
  /\ Table[25].provider = "antigravity" /\ Table[25].concern = "instructions"
  /\ Table[26].provider = "antigravity" /\ Table[26].concern = "boot"
  /\ Table[27].provider = "antigravity" /\ Table[27].concern = "native-config"
  /\ Table[28].provider = "antigravity" /\ Table[28].concern = "mcp"
  /\ Table[29].provider = "antigravity" /\ Table[29].concern = "skills"
  /\ Table[30].provider = "antigravity" /\ Table[30].concern = "project-dir"
<1>1. Table[1].provider = "claude" /\ Table[1].concern = "instructions"
  BY ClaudeTable DEF RowIs
<1>2. Table[2].provider = "claude" /\ Table[2].concern = "instructions"
  BY ClaudeTable DEF RowIs
<1>3. Table[3].provider = "claude" /\ Table[3].concern = "boot"
  BY ClaudeTable DEF RowIs
<1>4. Table[4].provider = "claude" /\ Table[4].concern = "mcp"
  BY ClaudeTable DEF RowIs
<1>5. Table[5].provider = "claude" /\ Table[5].concern = "native-config"
  BY ClaudeTable DEF RowIs
<1>6. Table[6].provider = "claude" /\ Table[6].concern = "native-config"
  BY ClaudeTable DEF RowIs
<1>7. Table[7].provider = "claude" /\ Table[7].concern = "skills"
  BY ClaudeTable DEF RowIs
<1>8. Table[8].provider = "claude" /\ Table[8].concern = "skills"
  BY ClaudeTable DEF RowIs
<1>9. Table[9].provider = "claude" /\ Table[9].concern = "project-dir"
  BY ClaudeTable DEF RowIs
<1>10. Table[10].provider = "codex" /\ Table[10].concern = "instructions"
  BY CodexTable DEF RowIs
<1>11. Table[11].provider = "codex" /\ Table[11].concern = "boot"
  BY CodexTable DEF RowIs
<1>12. Table[12].provider = "codex" /\ Table[12].concern = "native-config"
  BY CodexTable DEF RowIs
<1>13. Table[13].provider = "codex" /\ Table[13].concern = "auth"
  BY CodexTable DEF RowIs
<1>14. Table[14].provider = "codex" /\ Table[14].concern = "mcp"
  BY CodexTable DEF RowIs
<1>15. Table[15].provider = "codex" /\ Table[15].concern = "skills"
  BY CodexTable DEF RowIs
<1>16. Table[16].provider = "codex" /\ Table[16].concern = "project-dir"
  BY CodexTable DEF RowIs
<1>17. Table[17].provider = "opencode" /\ Table[17].concern = "instructions"
  BY OpencodeTable DEF RowIs
<1>18. Table[18].provider = "opencode" /\ Table[18].concern = "native-config"
  BY OpencodeTable, ZenonT(30) DEF RowIs
<1>19. Table[19].provider = "opencode" /\ Table[19].concern = "boot"
  BY OpencodeTable DEF RowIs
<1>20. Table[20].provider = "opencode" /\ Table[20].concern = "mcp"
  BY OpencodeTable, ZenonT(30) DEF RowIs
<1>21. Table[21].provider = "opencode" /\ Table[21].concern = "skills"
  BY OpencodeTable DEF RowIs
<1>22. Table[22].provider = "opencode" /\ Table[22].concern = "skills"
  BY OpencodeTable, ZenonT(30) DEF RowIs
<1>23. Table[23].provider = "opencode" /\ Table[23].concern = "project-dir"
  BY OpencodeTable DEF RowIs
<1>24. Table[24].provider = "opencode" /\ Table[24].concern = "runtime"
  BY OpencodeTable DEF RowIs
<1>25. Table[25].provider = "antigravity" /\ Table[25].concern = "instructions"
  BY AntigravityTable DEF RowIs
<1>26. Table[26].provider = "antigravity" /\ Table[26].concern = "boot"
  BY AntigravityTable DEF RowIs
<1>27. Table[27].provider = "antigravity" /\ Table[27].concern = "native-config"
  BY AntigravityTable DEF RowIs
<1>28. Table[28].provider = "antigravity" /\ Table[28].concern = "mcp"
  BY AntigravityTable DEF RowIs
<1>29. Table[29].provider = "antigravity" /\ Table[29].concern = "skills"
  BY AntigravityTable DEF RowIs
<1>30. Table[30].provider = "antigravity" /\ Table[30].concern = "project-dir"
  BY AntigravityTable DEF RowIs
<1> QED BY <1>1, <1>2, <1>3, <1>4, <1>5, <1>6, <1>7, <1>8, <1>9, <1>10, <1>11, <1>12, <1>13, <1>14, <1>15, <1>16, <1>17, <1>18, <1>19, <1>20, <1>21, <1>22, <1>23, <1>24, <1>25, <1>26, <1>27, <1>28, <1>29, <1>30

LEMMA Places ==
  /\ PlaceRows("claude", "instructions") = {1, 2}
  /\ PlaceRows("claude", "boot") = {3}
  /\ PlaceRows("claude", "mcp") = {4}
  /\ PlaceRows("claude", "native-config") = {5, 6}
  /\ PlaceRows("claude", "skills") = {7, 8}
  /\ PlaceRows("claude", "project-dir") = {9}
  /\ PlaceRows("codex", "instructions") = {10}
  /\ PlaceRows("codex", "boot") = {11}
  /\ PlaceRows("codex", "native-config") = {12}
  /\ PlaceRows("codex", "auth") = {13}
  /\ PlaceRows("codex", "mcp") = {14}
  /\ PlaceRows("codex", "skills") = {15}
  /\ PlaceRows("codex", "project-dir") = {16}
  /\ PlaceRows("opencode", "instructions") = {17}
  /\ PlaceRows("opencode", "native-config") = {18}
  /\ PlaceRows("opencode", "boot") = {19}
  /\ PlaceRows("opencode", "mcp") = {20}
  /\ PlaceRows("opencode", "skills") = {21, 22}
  /\ PlaceRows("opencode", "project-dir") = {23}
  /\ PlaceRows("opencode", "runtime") = {24}
  /\ PlaceRows("antigravity", "instructions") = {25}
  /\ PlaceRows("antigravity", "boot") = {26}
  /\ PlaceRows("antigravity", "native-config") = {27}
  /\ PlaceRows("antigravity", "mcp") = {28}
  /\ PlaceRows("antigravity", "skills") = {29}
  /\ PlaceRows("antigravity", "project-dir") = {30}
<1>1. \A i \in 1..30 : i = 1 \/ i = 2 \/ i = 3 \/ i = 4 \/ i = 5 \/ i = 6 \/ i = 7 \/ i = 8 \/ i = 9 \/ i = 10 \/ i = 11 \/ i = 12 \/ i = 13 \/ i = 14 \/ i = 15 \/ i = 16 \/ i = 17 \/ i = 18 \/ i = 19 \/ i = 20 \/ i = 21 \/ i = 22 \/ i = 23 \/ i = 24 \/ i = 25 \/ i = 26 \/ i = 27 \/ i = 28 \/ i = 29 \/ i = 30
  OBVIOUS
<1>2. PlaceRows("claude", "instructions") = {1, 2}
  BY <1>1, Concerns, RowsAt DEF PlaceRows
<1>3. PlaceRows("claude", "boot") = {3}
  BY <1>1, Concerns, RowsAt DEF PlaceRows
<1>4. PlaceRows("claude", "mcp") = {4}
  BY <1>1, Concerns, RowsAt DEF PlaceRows
<1>5. PlaceRows("claude", "native-config") = {5, 6}
  BY <1>1, Concerns, RowsAt DEF PlaceRows
<1>6. PlaceRows("claude", "skills") = {7, 8}
  BY <1>1, Concerns, RowsAt DEF PlaceRows
<1>7. PlaceRows("claude", "project-dir") = {9}
  BY <1>1, Concerns, RowsAt DEF PlaceRows
<1>8. PlaceRows("codex", "instructions") = {10}
  BY <1>1, Concerns, RowsAt DEF PlaceRows
<1>9. PlaceRows("codex", "boot") = {11}
  BY <1>1, Concerns, RowsAt DEF PlaceRows
<1>10. PlaceRows("codex", "native-config") = {12}
  BY <1>1, Concerns, RowsAt DEF PlaceRows
<1>11. PlaceRows("codex", "auth") = {13}
  BY <1>1, Concerns, RowsAt DEF PlaceRows
<1>12. PlaceRows("codex", "mcp") = {14}
  BY <1>1, Concerns, RowsAt DEF PlaceRows
<1>13. PlaceRows("codex", "skills") = {15}
  BY <1>1, Concerns, RowsAt DEF PlaceRows
<1>14. PlaceRows("codex", "project-dir") = {16}
  BY <1>1, Concerns, RowsAt DEF PlaceRows
<1>15. PlaceRows("opencode", "instructions") = {17}
  BY <1>1, Concerns, RowsAt DEF PlaceRows
<1>16. PlaceRows("opencode", "native-config") = {18}
  BY <1>1, Concerns, RowsAt DEF PlaceRows
<1>17. PlaceRows("opencode", "boot") = {19}
  BY <1>1, Concerns, RowsAt DEF PlaceRows
<1>18. PlaceRows("opencode", "mcp") = {20}
  BY <1>1, Concerns, RowsAt DEF PlaceRows
<1>19. PlaceRows("opencode", "skills") = {21, 22}
  BY <1>1, Concerns, RowsAt DEF PlaceRows
<1>20. PlaceRows("opencode", "project-dir") = {23}
  BY <1>1, Concerns, RowsAt DEF PlaceRows
<1>21. PlaceRows("opencode", "runtime") = {24}
  BY <1>1, Concerns, RowsAt DEF PlaceRows
<1>22. PlaceRows("antigravity", "instructions") = {25}
  BY <1>1, Concerns, RowsAt DEF PlaceRows
<1>23. PlaceRows("antigravity", "boot") = {26}
  BY <1>1, Concerns, RowsAt DEF PlaceRows
<1>24. PlaceRows("antigravity", "native-config") = {27}
  BY <1>1, Concerns, RowsAt DEF PlaceRows
<1>25. PlaceRows("antigravity", "mcp") = {28}
  BY <1>1, Concerns, RowsAt DEF PlaceRows
<1>26. PlaceRows("antigravity", "skills") = {29}
  BY <1>1, Concerns, RowsAt DEF PlaceRows
<1>27. PlaceRows("antigravity", "project-dir") = {30}
  BY <1>1, Concerns, RowsAt DEF PlaceRows
<1> QED BY <1>2, <1>3, <1>4, <1>5, <1>6, <1>7, <1>8, <1>9, <1>10, <1>11, <1>12, <1>13, <1>14, <1>15, <1>16, <1>17, <1>18, <1>19, <1>20, <1>21, <1>22, <1>23, <1>24, <1>25, <1>26, <1>27

\* The parts of a sequence joined, one at a time.
LEMMA FlatSteps ==
  ASSUME NEW T, NEW s \in Seq(T)
  PROVE  \E f : /\ f[0] = <<>>
                /\ \A i \in 1..Len(s) : f[i] = f[i - 1] \o s[i]
                /\ Flat(s) = f[Len(s)]
<1> DEFINE Steps(f) == f = [i \in 0..Len(s) |-> IF i = 0 THEN <<>> ELSE f[i - 1] \o s[i]]
           Upto(m, f) == f[0] = <<>> /\ \A i \in 1..m : f[i] = f[i - 1] \o s[i]
           S == {m \in Nat : \E f : Upto(m, f)}
<1>1. Len(s) \in Nat
  BY LenProperties
<1>2. 0 \in S
  <2> DEFINE g == [i \in {0} |-> <<>>]
  <2>1. g[0] = <<>>
    OBVIOUS
  <2>2. Upto(0, g)
    BY <2>1
  <2> QED BY <2>2
<1>3. ASSUME NEW m \in Nat, m \in S PROVE m + 1 \in S
  <2>1. PICK f : Upto(m, f)
    BY <1>3
  <2> DEFINE last == f[m] \o s[m + 1]
             g == [i \in 0..(m + 1) |-> IF i = m + 1 THEN last ELSE f[i]]
  <2>2. \A i \in 0..(m + 1) : g[i] = IF i = m + 1 THEN last ELSE f[i]
    OBVIOUS
  <2> HIDE DEF g, last
  <2>3. g[m + 1] = last /\ \A i \in 0..m : g[i] = f[i]
    BY <2>2
  <2>4. ASSUME NEW i \in 1..(m + 1) PROVE g[i] = g[i - 1] \o s[i]
    <3>1. i - 1 \in 0..m
      OBVIOUS
    <3>2. g[i - 1] = f[i - 1]
      BY <3>1, <2>3
    <3>3. CASE i = m + 1
      <4>1. i - 1 = m /\ g[i] = last
        BY <3>3, <2>3
      <4> QED BY <4>1, <3>2, <3>3 DEF last
    <3>4. CASE i # m + 1
      <4>1. i \in 1..m /\ i \in 0..m
        BY <3>4
      <4>2. g[i] = f[i] /\ f[i] = f[i - 1] \o s[i]
        BY <4>1, <2>1, <2>3
      <4> QED BY <4>2, <3>2
    <3> QED BY <3>3, <3>4
  <2>5. g[0] = <<>>
    BY <2>1, <2>3
  <2>6. \A i \in 1..(m + 1) : g[i] = g[i - 1] \o s[i]
    BY <2>4
  <2>7. Upto(m + 1, g)
    BY <2>5, <2>6
  <2> HIDE DEF Upto
  <2>8. \E h : Upto(m + 1, h)
    BY <2>7
  <2> QED BY <2>8 DEF S
<1> HIDE DEF S
<1>4. Len(s) \in S
  BY <1>1, <1>2, <1>3, NatInd
<1>5. PICK g : Upto(Len(s), g)
  BY <1>4 DEF S
<1>6. \E h : Steps(h)
  <2> DEFINE h == [i \in 0..Len(s) |-> g[i]]
  <2>1. \A i \in 0..Len(s) : h[i] = g[i]
    OBVIOUS
  <2>2. ASSUME NEW i \in 0..Len(s)
        PROVE  g[i] = IF i = 0 THEN <<>> ELSE h[i - 1] \o s[i]
    <3>1. CASE i = 0
      BY <3>1, <1>5
    <3>2. CASE i # 0
      <4>1. i \in 1..Len(s) /\ i - 1 \in 0..Len(s)
        BY <3>2, <1>1
      <4>2. h[i - 1] = g[i - 1]
        BY <4>1, <2>1
      <4> HIDE DEF h
      <4> QED BY <4>1, <4>2, <3>2, <1>5
    <3> QED BY <3>1, <3>2
  <2>3. Steps(h)
    BY <2>2
  <2> QED BY <2>3
<1> DEFINE f == CHOOSE h : Steps(h)
<1>7. Steps(f)
  BY <1>6
<1>8. Flat(s) = f[Len(s)]
  BY DEF Flat
<1> HIDE DEF f
<1>9. f[0] = <<>>
  BY <1>1, <1>7
<1>10. ASSUME NEW i \in 1..Len(s) PROVE f[i] = f[i - 1] \o s[i]
  <2>1. i \in 0..Len(s) /\ i # 0
    BY <1>1
  <2> QED BY <2>1, <1>7
<1> QED BY <1>8, <1>9, <1>10

LEMMA FlatEmpty == Flat(<<>>) = <<>>
<1> DEFINE s == <<>>
           T == {}
<1>1. s \in Seq(T) /\ Len(s) = 0
  BY EmptySeq
<1> HIDE DEF s, T
<1>2. PICK f : /\ f[0] = <<>>
               /\ \A i \in 1..Len(s) : f[i] = f[i - 1] \o s[i]
               /\ Flat(s) = f[Len(s)]
  BY <1>1, FlatSteps
<1>3. Flat(s) = <<>>
  BY <1>1, <1>2
<1> QED BY <1>3 DEF s

LEMMA FlatAppend ==
  ASSUME NEW T, NEW s \in Seq(T), NEW e \in T
  PROVE  Flat(Append(s, e)) = Flat(s) \o e
<1> DEFINE t == Append(s, e)
<1>1. /\ t \in Seq(T) /\ Len(s) \in Nat /\ Len(t) = Len(s) + 1
      /\ t[Len(s) + 1] = e /\ \A i \in 1..Len(s) : t[i] = s[i]
  BY AppendProperties, LenProperties
<1> HIDE DEF t
<1>2. PICK f : /\ f[0] = <<>>
               /\ \A i \in 1..Len(s) : f[i] = f[i - 1] \o s[i]
               /\ Flat(s) = f[Len(s)]
  BY FlatSteps
<1>3. PICK g : /\ g[0] = <<>>
               /\ \A i \in 1..Len(t) : g[i] = g[i - 1] \o t[i]
               /\ Flat(t) = g[Len(t)]
  BY <1>1, FlatSteps
<1> DEFINE P == {m \in Nat : m <= Len(s) => f[m] = g[m]}
<1>4. 0 \in P
  BY <1>2, <1>3
<1>5. ASSUME NEW m \in Nat, m \in P PROVE m + 1 \in P
  <2>1. SUFFICES ASSUME m + 1 <= Len(s) PROVE f[m + 1] = g[m + 1]
    OBVIOUS
  <2>2. m + 1 \in 1..Len(s) /\ m + 1 \in 1..Len(t) /\ m <= Len(s) /\ (m + 1) - 1 = m
    BY <1>1, <2>1
  <2>3. f[m] = g[m] /\ t[m + 1] = s[m + 1]
    BY <1>1, <1>5, <2>2
  <2>4. f[m + 1] = f[m] \o s[m + 1]
    BY <1>2, <2>2
  <2>5. g[m + 1] = g[m] \o t[m + 1]
    BY <1>3, <2>2
  <2> QED BY <2>3, <2>4, <2>5
<1> HIDE DEF P
<1>6. Len(s) \in P
  BY <1>1, <1>4, <1>5, NatInd
<1>7. f[Len(s)] = g[Len(s)]
  BY <1>1, <1>6 DEF P
<1>8. Len(t) \in 1..Len(t) /\ Len(t) - 1 = Len(s)
  BY <1>1
<1>9. g[Len(t)] = g[Len(s)] \o t[Len(t)]
  BY <1>3, <1>8
<1>10. t[Len(t)] = e
  BY <1>1
<1>11. Flat(t) = Flat(s) \o e
  BY <1>2, <1>3, <1>7, <1>9, <1>10
<1> QED BY <1>11 DEF t

\* What a CLI has understood, one argument at a time.
LEMMA ReadSteps ==
  ASSUME NEW T, NEW s \in Seq(T), NEW r
  PROVE  \E f : /\ f[0] = NotRead
                /\ \A i \in 1..Len(s) : f[i] = ReadOne(r, f[i - 1], s[i])
                /\ Read(r, s) = f[Len(s)]
<1> DEFINE Steps(f) == f = [i \in 0..Len(s) |-> IF i = 0 THEN NotRead ELSE ReadOne(r, f[i - 1], s[i])]
           Upto(m, f) == f[0] = NotRead /\ \A i \in 1..m : f[i] = ReadOne(r, f[i - 1], s[i])
           S == {m \in Nat : \E f : Upto(m, f)}
<1>1. Len(s) \in Nat
  BY LenProperties
<1>2. 0 \in S
  <2> DEFINE g == [i \in {0} |-> NotRead]
  <2>1. g[0] = NotRead
    OBVIOUS
  <2>2. Upto(0, g)
    BY <2>1
  <2> QED BY <2>2
<1>3. ASSUME NEW m \in Nat, m \in S PROVE m + 1 \in S
  <2>1. PICK f : Upto(m, f)
    BY <1>3
  <2> DEFINE last == ReadOne(r, f[m], s[m + 1])
             g == [i \in 0..(m + 1) |-> IF i = m + 1 THEN last ELSE f[i]]
  <2>2. \A i \in 0..(m + 1) : g[i] = IF i = m + 1 THEN last ELSE f[i]
    OBVIOUS
  <2> HIDE DEF g, last
  <2>3. g[m + 1] = last /\ \A i \in 0..m : g[i] = f[i]
    BY <2>2
  <2>4. ASSUME NEW i \in 1..(m + 1) PROVE g[i] = ReadOne(r, g[i - 1], s[i])
    <3>1. i - 1 \in 0..m
      OBVIOUS
    <3>2. g[i - 1] = f[i - 1]
      BY <3>1, <2>3
    <3>3. CASE i = m + 1
      <4>1. i - 1 = m /\ g[i] = last
        BY <3>3, <2>3
      <4> QED BY <4>1, <3>2, <3>3 DEF last
    <3>4. CASE i # m + 1
      <4>1. i \in 1..m /\ i \in 0..m
        BY <3>4
      <4>2. g[i] = f[i] /\ f[i] = ReadOne(r, f[i - 1], s[i])
        BY <4>1, <2>1, <2>3
      <4> QED BY <4>2, <3>2
    <3> QED BY <3>3, <3>4
  <2>5. g[0] = NotRead
    BY <2>1, <2>3
  <2>6. \A i \in 1..(m + 1) : g[i] = ReadOne(r, g[i - 1], s[i])
    BY <2>4
  <2>7. Upto(m + 1, g)
    BY <2>5, <2>6
  <2> HIDE DEF Upto
  <2>8. \E h : Upto(m + 1, h)
    BY <2>7
  <2> QED BY <2>8 DEF S
<1> HIDE DEF S
<1>4. Len(s) \in S
  BY <1>1, <1>2, <1>3, NatInd
<1>5. PICK g : Upto(Len(s), g)
  BY <1>4 DEF S
<1>6. \E h : Steps(h)
  <2> DEFINE h == [i \in 0..Len(s) |-> g[i]]
  <2>1. \A i \in 0..Len(s) : h[i] = g[i]
    OBVIOUS
  <2>2. ASSUME NEW i \in 0..Len(s)
        PROVE  g[i] = IF i = 0 THEN NotRead ELSE ReadOne(r, h[i - 1], s[i])
    <3>1. CASE i = 0
      BY <3>1, <1>5
    <3>2. CASE i # 0
      <4>1. i \in 1..Len(s) /\ i - 1 \in 0..Len(s)
        BY <3>2, <1>1
      <4>2. h[i - 1] = g[i - 1]
        BY <4>1, <2>1
      <4> HIDE DEF h
      <4> QED BY <4>1, <4>2, <3>2, <1>5
    <3> QED BY <3>1, <3>2
  <2>3. Steps(h)
    BY <2>2
  <2> QED BY <2>3
<1> DEFINE f == CHOOSE h : Steps(h)
<1>7. Steps(f)
  BY <1>6
<1>8. Read(r, s) = f[Len(s)]
  BY DEF Read
<1> HIDE DEF f
<1>9. f[0] = NotRead
  BY <1>1, <1>7
<1>10. ASSUME NEW i \in 1..Len(s) PROVE f[i] = ReadOne(r, f[i - 1], s[i])
  <2>1. i \in 0..Len(s) /\ i # 0
    BY <1>1
  <2> QED BY <2>1, <1>7
<1> QED BY <1>8, <1>9, <1>10

\* A CLI that is given nothing has understood nothing.
LEMMA ReadEmpty == ASSUME NEW r PROVE Read(r, <<>>) = NotRead
<1> DEFINE s == <<>>
           T == {}
<1>1. s \in Seq(T) /\ Len(s) = 0
  BY EmptySeq
<1> HIDE DEF s, T
<1>2. PICK f : /\ f[0] = NotRead
               /\ \A i \in 1..Len(s) : f[i] = ReadOne(r, f[i - 1], s[i])
               /\ Read(r, s) = f[Len(s)]
  BY <1>1, ReadSteps
<1>3. Read(r, s) = NotRead
  BY <1>1, <1>2
<1> QED BY <1>3 DEF s

\* A CLI reads an argument in the state the arguments before it left.
LEMMA ReadAppend ==
  ASSUME NEW T, NEW s \in Seq(T), NEW e \in T, NEW r
  PROVE  Read(r, Append(s, e)) = ReadOne(r, Read(r, s), e)
<1> DEFINE t == Append(s, e)
<1>1. /\ t \in Seq(T) /\ Len(s) \in Nat /\ Len(t) = Len(s) + 1
      /\ t[Len(s) + 1] = e /\ \A i \in 1..Len(s) : t[i] = s[i]
  BY AppendProperties, LenProperties
<1> HIDE DEF t
<1>2. PICK f : /\ f[0] = NotRead
               /\ \A i \in 1..Len(s) : f[i] = ReadOne(r, f[i - 1], s[i])
               /\ Read(r, s) = f[Len(s)]
  BY ReadSteps
<1>3. PICK g : /\ g[0] = NotRead
               /\ \A i \in 1..Len(t) : g[i] = ReadOne(r, g[i - 1], t[i])
               /\ Read(r, t) = g[Len(t)]
  BY <1>1, ReadSteps
<1> DEFINE P == {m \in Nat : m <= Len(s) => f[m] = g[m]}
<1>4. 0 \in P
  BY <1>2, <1>3
<1>5. ASSUME NEW m \in Nat, m \in P PROVE m + 1 \in P
  <2>1. SUFFICES ASSUME m + 1 <= Len(s) PROVE f[m + 1] = g[m + 1]
    OBVIOUS
  <2>2. m + 1 \in 1..Len(s) /\ m + 1 \in 1..Len(t) /\ m <= Len(s) /\ (m + 1) - 1 = m
    BY <1>1, <2>1
  <2>3. f[m] = g[m] /\ t[m + 1] = s[m + 1]
    BY <1>1, <1>5, <2>2
  <2>4. f[m + 1] = ReadOne(r, f[m], s[m + 1])
    BY <1>2, <2>2
  <2>5. g[m + 1] = ReadOne(r, g[m], t[m + 1])
    BY <1>3, <2>2
  <2> QED BY <2>3, <2>4, <2>5
<1> HIDE DEF P
<1>6. Len(s) \in P
  BY <1>1, <1>4, <1>5, NatInd
<1>7. f[Len(s)] = g[Len(s)]
  BY <1>1, <1>6 DEF P
<1>8. Len(t) \in 1..Len(t) /\ Len(t) - 1 = Len(s)
  BY <1>1
<1>9. g[Len(t)] = ReadOne(r, g[Len(s)], t[Len(t)])
  BY <1>3, <1>8
<1>10. t[Len(t)] = e
  BY <1>1
<1>11. Read(r, t) = ReadOne(r, Read(r, s), e)
  BY <1>2, <1>3, <1>7, <1>9, <1>10
<1> QED BY <1>11 DEF t

\* An environment amended, one amendment at a time.
LEMMA ApplyEnvDeltasSteps ==
  ASSUME NEW T, NEW s \in Seq(T), NEW base
  PROVE  \E f : /\ f[0] = base
                /\ \A i \in 1..Len(s) : f[i] = Apply(f[i - 1], s[i])
                /\ ApplyEnvDeltas(base, s) = f[Len(s)]
<1> DEFINE Steps(f) == f = [i \in 0..Len(s) |-> IF i = 0 THEN base ELSE Apply(f[i - 1], s[i])]
           Upto(m, f) == f[0] = base /\ \A i \in 1..m : f[i] = Apply(f[i - 1], s[i])
           S == {m \in Nat : \E f : Upto(m, f)}
<1>1. Len(s) \in Nat
  BY LenProperties
<1>2. 0 \in S
  <2> DEFINE g == [i \in {0} |-> base]
  <2>1. g[0] = base
    OBVIOUS
  <2>2. Upto(0, g)
    BY <2>1
  <2> QED BY <2>2
<1>3. ASSUME NEW m \in Nat, m \in S PROVE m + 1 \in S
  <2>1. PICK f : Upto(m, f)
    BY <1>3
  <2> DEFINE last == Apply(f[m], s[m + 1])
             g == [i \in 0..(m + 1) |-> IF i = m + 1 THEN last ELSE f[i]]
  <2>2. \A i \in 0..(m + 1) : g[i] = IF i = m + 1 THEN last ELSE f[i]
    OBVIOUS
  <2> HIDE DEF g, last
  <2>3. g[m + 1] = last /\ \A i \in 0..m : g[i] = f[i]
    BY <2>2
  <2>4. ASSUME NEW i \in 1..(m + 1) PROVE g[i] = Apply(g[i - 1], s[i])
    <3>1. i - 1 \in 0..m
      OBVIOUS
    <3>2. g[i - 1] = f[i - 1]
      BY <3>1, <2>3
    <3>3. CASE i = m + 1
      <4>1. i - 1 = m /\ g[i] = last
        BY <3>3, <2>3
      <4> QED BY <4>1, <3>2, <3>3 DEF last
    <3>4. CASE i # m + 1
      <4>1. i \in 1..m /\ i \in 0..m
        BY <3>4
      <4>2. g[i] = f[i] /\ f[i] = Apply(f[i - 1], s[i])
        BY <4>1, <2>1, <2>3
      <4> QED BY <4>2, <3>2
    <3> QED BY <3>3, <3>4
  <2>5. g[0] = base
    BY <2>1, <2>3
  <2>6. \A i \in 1..(m + 1) : g[i] = Apply(g[i - 1], s[i])
    BY <2>4
  <2>7. Upto(m + 1, g)
    BY <2>5, <2>6
  <2> HIDE DEF Upto
  <2>8. \E h : Upto(m + 1, h)
    BY <2>7
  <2> QED BY <2>8 DEF S
<1> HIDE DEF S
<1>4. Len(s) \in S
  BY <1>1, <1>2, <1>3, NatInd
<1>5. PICK g : Upto(Len(s), g)
  BY <1>4 DEF S
<1>6. \E h : Steps(h)
  <2> DEFINE h == [i \in 0..Len(s) |-> g[i]]
  <2>1. \A i \in 0..Len(s) : h[i] = g[i]
    OBVIOUS
  <2>2. ASSUME NEW i \in 0..Len(s)
        PROVE  g[i] = IF i = 0 THEN base ELSE Apply(h[i - 1], s[i])
    <3>1. CASE i = 0
      BY <3>1, <1>5
    <3>2. CASE i # 0
      <4>1. i \in 1..Len(s) /\ i - 1 \in 0..Len(s)
        BY <3>2, <1>1
      <4>2. h[i - 1] = g[i - 1]
        BY <4>1, <2>1
      <4> HIDE DEF h
      <4> QED BY <4>1, <4>2, <3>2, <1>5
    <3> QED BY <3>1, <3>2
  <2>3. Steps(h)
    BY <2>2
  <2> QED BY <2>3
<1> DEFINE f == CHOOSE h : Steps(h)
<1>7. Steps(f)
  BY <1>6
<1>8. ApplyEnvDeltas(base, s) = f[Len(s)]
  BY DEF ApplyEnvDeltas
<1> HIDE DEF f
<1>9. f[0] = base
  BY <1>1, <1>7
<1>10. ASSUME NEW i \in 1..Len(s) PROVE f[i] = Apply(f[i - 1], s[i])
  <2>1. i \in 0..Len(s) /\ i # 0
    BY <1>1
  <2> QED BY <2>1, <1>7
<1> QED BY <1>8, <1>9, <1>10

\* No amendment leaves the environment as it is.
LEMMA ApplyEnvDeltasEmpty == ASSUME NEW base PROVE ApplyEnvDeltas(base, <<>>) = base
<1> DEFINE s == <<>>
           T == {}
<1>1. s \in Seq(T) /\ Len(s) = 0
  BY EmptySeq
<1> HIDE DEF s, T
<1>2. PICK f : /\ f[0] = base
               /\ \A i \in 1..Len(s) : f[i] = Apply(f[i - 1], s[i])
               /\ ApplyEnvDeltas(base, s) = f[Len(s)]
  BY <1>1, ApplyEnvDeltasSteps
<1>3. ApplyEnvDeltas(base, s) = base
  BY <1>1, <1>2
<1> QED BY <1>3 DEF s

\* The last amendment is applied to what the others made.
LEMMA ApplyEnvDeltasAppend ==
  ASSUME NEW T, NEW s \in Seq(T), NEW e \in T, NEW base
  PROVE  ApplyEnvDeltas(base, Append(s, e)) = Apply(ApplyEnvDeltas(base, s), e)
<1> DEFINE t == Append(s, e)
<1>1. /\ t \in Seq(T) /\ Len(s) \in Nat /\ Len(t) = Len(s) + 1
      /\ t[Len(s) + 1] = e /\ \A i \in 1..Len(s) : t[i] = s[i]
  BY AppendProperties, LenProperties
<1> HIDE DEF t
<1>2. PICK f : /\ f[0] = base
               /\ \A i \in 1..Len(s) : f[i] = Apply(f[i - 1], s[i])
               /\ ApplyEnvDeltas(base, s) = f[Len(s)]
  BY ApplyEnvDeltasSteps
<1>3. PICK g : /\ g[0] = base
               /\ \A i \in 1..Len(t) : g[i] = Apply(g[i - 1], t[i])
               /\ ApplyEnvDeltas(base, t) = g[Len(t)]
  BY <1>1, ApplyEnvDeltasSteps
<1> DEFINE P == {m \in Nat : m <= Len(s) => f[m] = g[m]}
<1>4. 0 \in P
  BY <1>2, <1>3
<1>5. ASSUME NEW m \in Nat, m \in P PROVE m + 1 \in P
  <2>1. SUFFICES ASSUME m + 1 <= Len(s) PROVE f[m + 1] = g[m + 1]
    OBVIOUS
  <2>2. m + 1 \in 1..Len(s) /\ m + 1 \in 1..Len(t) /\ m <= Len(s) /\ (m + 1) - 1 = m
    BY <1>1, <2>1
  <2>3. f[m] = g[m] /\ t[m + 1] = s[m + 1]
    BY <1>1, <1>5, <2>2
  <2>4. f[m + 1] = Apply(f[m], s[m + 1])
    BY <1>2, <2>2
  <2>5. g[m + 1] = Apply(g[m], t[m + 1])
    BY <1>3, <2>2
  <2> QED BY <2>3, <2>4, <2>5
<1> HIDE DEF P
<1>6. Len(s) \in P
  BY <1>1, <1>4, <1>5, NatInd
<1>7. f[Len(s)] = g[Len(s)]
  BY <1>1, <1>6 DEF P
<1>8. Len(t) \in 1..Len(t) /\ Len(t) - 1 = Len(s)
  BY <1>1
<1>9. g[Len(t)] = Apply(g[Len(s)], t[Len(t)])
  BY <1>3, <1>8
<1>10. t[Len(t)] = e
  BY <1>1
<1>11. ApplyEnvDeltas(base, t) = Apply(ApplyEnvDeltas(base, s), e)
  BY <1>2, <1>3, <1>7, <1>9, <1>10
<1> QED BY <1>11 DEF t

-----------------------------------------------------------------------------
(* What is said on a command line: the words of the conventions and of the
   callers.  *)
Literals ==
  {"--", "-p", "--verbose", "--bare", "--strict-mcp-config", "--dangerously-skip-permissions",
   "--json", "--skip-git-repo-check", "--auto", "--resume", "--input-format", "--output-format",
   "--model", "--settings", "--append-system-prompt-file", "--permission-mode", "-c", "--cd",
   "--format", "--agent", "--dir", "--session", "--port", "--hostname", "--mode", "--effort",
   "--add-dir", "--conversation", "--mcp-config", "--image", "--system-prompt=", "-p=", "exec",
   "app-server", "run", "serve", "resume", "stream-json", "json", "0", "127.0.0.1", "model=",
   "sandbox_mode=", "approval_policy=", "acceptEdits", "bypassPermissions", "accept-edits",
   "default", "plan", "yolo", "workspace-write", "danger-full-access", "read-only", "never",
   "on-request", "System:", "blank-line", "/boot", "/project", ".mcp.json", "CLAUDE.md",
   ".claude/settings.json", "session", "hello", "boot", "project", "agents/{agent}.md",
   "config.toml", "AGENTS.md", "skills", ""}

\* An argument is a list of parts, a text among them.
Parts == STRING \union Literals

Args == Seq(Parts)

\* Short lists, kept apart so that the provers need not build them.
LEMMA OneIn == ASSUME NEW S, NEW x \in S PROVE <<x>> \in Seq(S)
  OBVIOUS

LEMMA TwoIn == ASSUME NEW S, NEW x \in S, NEW y \in S PROVE <<x, y>> \in Seq(S)
  OBVIOUS

LEMMA OneText == \A x \in Parts : <<x>> \in Args
  BY OneIn DEF Args

LEMMA OneOrTwo == \A x, y \in Args : <<x>> \in Seq(Args) /\ <<x, y>> \in Seq(Args)
  BY OneIn, TwoIn

\* The texts a launch names are arguments.
LEMMA TextsAreArgs == Texts \subseteq Args /\ STRING \subseteq Parts
<1>1. STRING \subseteq Parts
  BY DEF Parts
<1>2. ASSUME NEW s \in Texts PROVE s \in Args
  BY <1>1, SeqWider DEF Texts, Args
<1> QED BY <1>1, <1>2

\* The literals of the conventions are parts.
LEMMA LiteralsAre ==
  /\ "--" \in Parts
  /\ "-p" \in Parts
  /\ "--verbose" \in Parts
  /\ "--bare" \in Parts
  /\ "--strict-mcp-config" \in Parts
  /\ "--dangerously-skip-permissions" \in Parts
  /\ "--json" \in Parts
  /\ "--skip-git-repo-check" \in Parts
  /\ "--auto" \in Parts
  /\ "--resume" \in Parts
  /\ "--input-format" \in Parts
  /\ "--output-format" \in Parts
  /\ "--model" \in Parts
  /\ "--settings" \in Parts
  /\ "--append-system-prompt-file" \in Parts
  /\ "--permission-mode" \in Parts
  /\ "-c" \in Parts
  /\ "--cd" \in Parts
  /\ "--format" \in Parts
  /\ "--agent" \in Parts
  /\ "--dir" \in Parts
  /\ "--session" \in Parts
  /\ "--port" \in Parts
  /\ "--hostname" \in Parts
  /\ "--mode" \in Parts
  /\ "--effort" \in Parts
  /\ "--add-dir" \in Parts
  /\ "--conversation" \in Parts
  /\ "--mcp-config" \in Parts
  /\ "--image" \in Parts
  /\ "--system-prompt=" \in Parts
  /\ "-p=" \in Parts
  /\ "exec" \in Parts
  /\ "app-server" \in Parts
  /\ "run" \in Parts
  /\ "serve" \in Parts
  /\ "resume" \in Parts
  /\ "stream-json" \in Parts
  /\ "json" \in Parts
  /\ "0" \in Parts
  /\ "127.0.0.1" \in Parts
  /\ "model=" \in Parts
  /\ "sandbox_mode=" \in Parts
  /\ "approval_policy=" \in Parts
  /\ "acceptEdits" \in Parts
  /\ "bypassPermissions" \in Parts
  /\ "accept-edits" \in Parts
  /\ "default" \in Parts
  /\ "plan" \in Parts
  /\ "yolo" \in Parts
  /\ "workspace-write" \in Parts
  /\ "danger-full-access" \in Parts
  /\ "read-only" \in Parts
  /\ "never" \in Parts
  /\ "on-request" \in Parts
  /\ "System:" \in Parts
  /\ "blank-line" \in Parts
  /\ "/boot" \in Parts
  /\ "/project" \in Parts
  /\ ".mcp.json" \in Parts
  /\ "CLAUDE.md" \in Parts
  /\ ".claude/settings.json" \in Parts
  /\ "session" \in Parts
  /\ "hello" \in Parts
  /\ "boot" \in Parts
  /\ "project" \in Parts
  /\ "agents/{agent}.md" \in Parts
  /\ "config.toml" \in Parts
  /\ "AGENTS.md" \in Parts
  /\ "skills" \in Parts
  /\ "" \in Parts
  BY DEF Parts, Literals

\* The words of the conventions are arguments.
LEMMA WordsAre ==
  /\ <<"--">> \in Args
  /\ <<"-p">> \in Args
  /\ <<"--verbose">> \in Args
  /\ <<"--bare">> \in Args
  /\ <<"--strict-mcp-config">> \in Args
  /\ <<"--dangerously-skip-permissions">> \in Args
  /\ <<"--json">> \in Args
  /\ <<"--skip-git-repo-check">> \in Args
  /\ <<"--auto">> \in Args
  /\ <<"--resume">> \in Args
  /\ <<"--input-format">> \in Args
  /\ <<"--output-format">> \in Args
  /\ <<"--model">> \in Args
  /\ <<"--settings">> \in Args
  /\ <<"--append-system-prompt-file">> \in Args
  /\ <<"--permission-mode">> \in Args
  /\ <<"-c">> \in Args
  /\ <<"--cd">> \in Args
  /\ <<"--format">> \in Args
  /\ <<"--agent">> \in Args
  /\ <<"--dir">> \in Args
  /\ <<"--session">> \in Args
  /\ <<"--port">> \in Args
  /\ <<"--hostname">> \in Args
  /\ <<"--mode">> \in Args
  /\ <<"--effort">> \in Args
  /\ <<"--add-dir">> \in Args
  /\ <<"--conversation">> \in Args
  /\ <<"--mcp-config">> \in Args
  /\ <<"--image">> \in Args
  /\ <<"--system-prompt=">> \in Args
  /\ <<"-p=">> \in Args
  /\ <<"exec">> \in Args
  /\ <<"app-server">> \in Args
  /\ <<"run">> \in Args
  /\ <<"serve">> \in Args
  /\ <<"resume">> \in Args
  /\ <<"stream-json">> \in Args
  /\ <<"json">> \in Args
  /\ <<"0">> \in Args
  /\ <<"127.0.0.1">> \in Args
  /\ <<"model=">> \in Args
  /\ <<"sandbox_mode=">> \in Args
  /\ <<"approval_policy=">> \in Args
  /\ <<"acceptEdits">> \in Args
  /\ <<"bypassPermissions">> \in Args
  /\ <<"accept-edits">> \in Args
  /\ <<"default">> \in Args
  /\ <<"plan">> \in Args
  /\ <<"yolo">> \in Args
  /\ <<"workspace-write">> \in Args
  /\ <<"danger-full-access">> \in Args
  /\ <<"read-only">> \in Args
  /\ <<"never">> \in Args
  /\ <<"on-request">> \in Args
  /\ <<"System:">> \in Args
  /\ <<"blank-line">> \in Args
  /\ <<"/boot">> \in Args
  /\ <<"/project">> \in Args
  /\ <<".mcp.json">> \in Args
  /\ <<"CLAUDE.md">> \in Args
  /\ <<".claude/settings.json">> \in Args
  /\ <<"session">> \in Args
  /\ <<"hello">> \in Args
  /\ <<"boot">> \in Args
  /\ <<"project">> \in Args
  /\ <<"agents/{agent}.md">> \in Args
  /\ <<"config.toml">> \in Args
  /\ <<"AGENTS.md">> \in Args
  /\ <<"skills">> \in Args
  BY LiteralsAre, OneText

-----------------------------------------------------------------------------
(* Templates filled in. *)

\* What a turn brings, and where a launch's roots are.
Inputs == [prompt : Args, system : Args, resume : Args]

Paths == [Root -> Args]

\* The templates of a convention.
PieceKinds == {"literal", "prompt", "prompt-inline", "system-prompt", "resume", "file", "root", "extra"}

Templates ==
  [kind : PieceKinds, value : Args, root : Root \union {""}, rel : Parts, omit : BOOLEAN,
   system : BOOLEAN, firstOnly : BOOLEAN]

\* Joined arguments are arguments.
LEMMA ArgsConcat == \A x \in Args, y \in Args : x \o y \in Args
<1>1. ASSUME NEW x \in Args, NEW y \in Args PROVE x \o y \in Args
  BY ConcatProperties DEF Args
<1> QED BY <1>1

\* The empty text is an argument.
LEMMA NoText == <<>> \in Args /\ <<>> \in Seq(Args)
  BY EmptySeq DEF Args

\* What each kind of template gives is a list of arguments.
LEMMA FlagValueType ==
  ASSUME NEW flag \in Args, NEW text \in Args
  PROVE  FlagValue(flag, text) \in Seq(Args)
<1>1. flag \o text \in Args
  BY ArgsConcat
<1>2. <<text>> \in Seq(Args) /\ <<flag, text>> \in Seq(Args) /\ <<flag \o text>> \in Seq(Args)
  BY <1>1, OneOrTwo
<1>3. CASE text = <<>>
  BY <1>3, NoText DEF FlagValue
<1>4. CASE text # <<>> /\ flag = <<>>
  BY <1>4, <1>2 DEF FlagValue
<1>5. CASE text # <<>> /\ flag # <<>>
  BY <1>5, <1>2 DEF FlagValue
<1> QED BY <1>3, <1>4, <1>5

LEMMA PrefixType ==
  ASSUME NEW text \in Args, NEW system \in Args
  PROVE  PrefixSystem(text, system) \in Args
<1>1. <<"System:">> \in Args /\ <<"blank-line">> \in Args
  BY WordsAre
<1>2. <<"System:">> \o system \in Args
  BY <1>1, ArgsConcat
<1>3. <<"System:">> \o system \o <<"blank-line">> \in Args
  BY <1>1, <1>2, ArgsConcat
<1>4. <<"System:">> \o system \o <<"blank-line">> \o text \in Args
  BY <1>3, ArgsConcat
<1> QED BY <1>4 DEF PrefixSystem

LEMMA RootValueType ==
  ASSUME NEW roots \in Paths, NEW kind \in Root \union {""}
  PROVE  RootValue(roots, kind) \in Args
  BY NoText DEF RootValue, Paths

LEMMA ResolveType ==
  ASSUME NEW roots \in Paths, NEW t \in Templates, NEW in \in Inputs
  PROVE  ResolveTemplate(roots, t, in) \in Seq(Args)
<1> DEFINE text == IF t.system THEN PrefixSystem(in.prompt, in.system) ELSE in.prompt
           root == RootValue(roots, t.root)
           path == root \o (IF t.rel = "" THEN <<>> ELSE <<t.rel>>)
<1>1. /\ t.kind \in PieceKinds /\ t.value \in Args /\ t.root \in Root \union {""} /\ t.rel \in Parts
      /\ in.prompt \in Args /\ in.system \in Args /\ in.resume \in Args
  BY DEF Templates, Inputs
<1>2. text \in Args
  BY <1>1, PrefixType
<1>3. root \in Args
  BY <1>1, RootValueType
<1>4. path \in Args
  <2>1. (IF t.rel = "" THEN <<>> ELSE <<t.rel>>) \in Args
    BY <1>1, NoText, OneText
  <2> QED BY <2>1, <1>3, ArgsConcat
<1>5. t.value \o text \in Args /\ <<"--">> \in Args
  BY <1>1, <1>2, ArgsConcat, WordsAre
<1>6. FlagValue(t.value, in.system) \in Seq(Args) /\ FlagValue(t.value, in.resume) \in Seq(Args)
  BY <1>1, FlagValueType
<1>7. /\ <<t.value>> \in Seq(Args) /\ << <<"--">>, text >> \in Seq(Args)
      /\ <<t.value \o text>> \in Seq(Args) /\ <<path>> \in Seq(Args) /\ <<t.value, path>> \in Seq(Args)
      /\ <<>> \in Seq(Args)
  BY <1>1, <1>2, <1>4, <1>5, OneOrTwo, NoText
<1>8. ResolveTemplate(roots, t, in) =
        IF t.firstOnly /\ in.resume # <<>> THEN <<>>
        ELSE CASE t.kind = "literal" -> IF t.value = <<>> /\ t.omit THEN <<>> ELSE <<t.value>>
             [] t.kind = "prompt" -> IF text = <<>> /\ t.omit THEN <<>> ELSE << <<"--">>, text >>
             [] t.kind = "prompt-inline" -> <<t.value \o text>>
             [] t.kind = "system-prompt" -> FlagValue(t.value, in.system)
             [] t.kind = "resume" -> FlagValue(t.value, in.resume)
             [] OTHER -> IF root = <<>> /\ t.omit THEN <<>>
                         ELSE IF t.value = <<>> THEN <<path>> ELSE <<t.value, path>>
  BY DEF ResolveTemplate
<1> HIDE DEF text, root, path
<1>9. CASE t.firstOnly /\ in.resume # <<>>
  BY <1>9, <1>7, <1>8
<1>10. CASE ~(t.firstOnly /\ in.resume # <<>>)
  <2>1. CASE t.kind = "literal"
    BY <2>1, <1>10, <1>7, <1>8
  <2>2. CASE t.kind = "prompt"
    BY <2>2, <1>10, <1>7, <1>8
  <2>3. CASE t.kind = "prompt-inline"
    BY <2>3, <1>10, <1>7, <1>8
  <2>4. CASE t.kind = "system-prompt"
    BY <2>4, <1>10, <1>6, <1>8
  <2>5. CASE t.kind = "resume"
    BY <2>5, <1>10, <1>6, <1>8
  <2>6. CASE t.kind \notin {"literal", "prompt", "prompt-inline", "system-prompt", "resume"}
    BY <2>6, <1>10, <1>7, <1>8
  <2> QED BY <2>1, <2>2, <2>3, <2>4, <2>5, <2>6
<1> QED BY <1>9, <1>10

\* A template filled in is a list of arguments.
LEMMA PieceType ==
  ASSUME NEW slot, NEW roots \in Paths, NEW t \in Templates, NEW in \in Inputs, NEW extra \in Seq(Args)
  PROVE  Piece(t, slot, roots, in, extra) \in Seq(Args)
<1>1. /\ (IF t.kind = slot THEN extra ELSE <<>>) \in Seq(Args)
      /\ (IF t.kind = "extra" THEN <<>> ELSE ResolveTemplate(roots, t, in)) \in Seq(Args)
  BY ResolveType, NoText
<1> QED BY <1>1, ConcatProperties DEF Piece

\* A convention filled in, template by template.
LEMMA FilledEmpty ==
  ASSUME NEW slot, NEW roots, NEW in, NEW extra
  PROVE  Filled(<<>>, slot, roots, in, extra) = <<>>
<1>1. [i \in DOMAIN <<>> |-> Piece(<<>>[i], slot, roots, in, extra)] = <<>>
  OBVIOUS
<1> QED BY <1>1, FlatEmpty DEF Filled

LEMMA FilledAppend ==
  ASSUME NEW T, NEW s \in Seq(T), NEW e \in T, NEW slot, NEW roots, NEW in, NEW extra
  PROVE  Filled(Append(s, e), slot, roots, in, extra) =
           Filled(s, slot, roots, in, extra) \o Piece(e, slot, roots, in, extra)
<1> DEFINE P(x) == Piece(x, slot, roots, in, extra)
           S == { P(x) : x \in T }
           t == Append(s, e)
           m == [i \in DOMAIN s |-> P(s[i])]
           n == [i \in DOMAIN t |-> P(t[i])]
           q == P(e)
<1>1. /\ t \in Seq(T) /\ Len(s) \in Nat /\ Len(t) = Len(s) + 1
      /\ t[Len(s) + 1] = e /\ \A i \in 1..Len(s) : t[i] = s[i]
      /\ DOMAIN s = 1..Len(s) /\ DOMAIN t = 1..Len(t)
  <2>1. t \in Seq(T)
    BY AppendProperties
  <2> QED BY <2>1, AppendProperties, LenProperties
<1>2. \A i \in 1..Len(s) : s[i] \in T
  BY ElementOfSeq
<1>3. m \in Seq(S) /\ Len(m) = Len(s)
  BY <1>1, <1>2
<1>4. q \in S
  OBVIOUS
<1>5. \A i \in 1..Len(s) : m[i] = P(s[i])
  BY <1>1
<1>6. \A i \in 1..(Len(s) + 1) : n[i] = P(t[i])
  BY <1>1
<1>7. DOMAIN n = 1..(Len(s) + 1) /\ n = [i \in DOMAIN n |-> n[i]]
  BY <1>1
<1> HIDE DEF t
<1>8. n[Len(s) + 1] = q /\ \A i \in 1..Len(s) : n[i] = m[i]
  <2>1. Len(s) + 1 \in 1..(Len(s) + 1)
    BY <1>1
  <2>2. n[Len(s) + 1] = q
    BY <2>1, <1>1, <1>6
  <2>3. ASSUME NEW i \in 1..Len(s) PROVE n[i] = m[i]
    <3>1. i \in 1..(Len(s) + 1)
      BY <1>1
    <3> QED BY <3>1, <1>1, <1>5, <1>6
  <2> QED BY <2>2, <2>3
<1>9. Filled(s, slot, roots, in, extra) = Flat(m) /\ Filled(t, slot, roots, in, extra) = Flat(n)
  BY DEF Filled
<1> HIDE DEF m, n, q, S, P
<1>10. n = Append(m, q)
  <2> DEFINE a == Append(m, q)
  <2>1. /\ a \in Seq(S) /\ Len(a) = Len(s) + 1 /\ a[Len(s) + 1] = q
        /\ \A i \in 1..Len(s) : a[i] = m[i]
    BY <1>3, <1>4, AppendProperties
  <2> HIDE DEF a
  <2>2. DOMAIN a = 1..(Len(s) + 1) /\ a = [i \in DOMAIN a |-> a[i]]
    BY <2>1, LenProperties
  <2>3. ASSUME NEW i \in 1..(Len(s) + 1) PROVE n[i] = a[i]
    <3>1. i = Len(s) + 1 \/ i \in 1..Len(s)
      BY <1>1
    <3> QED BY <3>1, <2>1, <1>8
  <2>4. n = a
    BY <2>2, <2>3, <1>7
  <2> QED BY <2>4 DEF a
<1>11. Flat(Append(m, q)) = Flat(m) \o q
  BY <1>3, <1>4, FlatAppend
<1>12. Flat(n) = Flat(m) \o q
  BY <1>10, <1>11
<1> QED BY <1>9, <1>12 DEF t, q, P

\* A convention filled in is a command line.
LEMMA FilledType ==
  ASSUME NEW slot, NEW roots \in Paths, NEW in \in Inputs, NEW extra \in Seq(Args), NEW s \in Seq(Templates)
  PROVE  Filled(s, slot, roots, in, extra) \in Seq(Args)
<1> DEFINE Q == {u \in Seq(Templates) : Filled(u, slot, roots, in, extra) \in Seq(Args)}
<1>1. <<>> \in Q
  BY EmptySeq, FilledEmpty, NoText
<1>2. ASSUME NEW u \in Seq(Templates), u \in Q, NEW e \in Templates PROVE Append(u, e) \in Q
  <2> DEFINE x == Filled(u, slot, roots, in, extra)
             y == Piece(e, slot, roots, in, extra)
  <2>1. x \in Seq(Args) /\ y \in Seq(Args)
    BY <1>2, PieceType
  <2>2. Filled(Append(u, e), slot, roots, in, extra) = x \o y
    BY FilledAppend
  <2>3. Append(u, e) \in Seq(Templates)
    BY AppendProperties
  <2> HIDE DEF x, y
  <2>4. x \o y \in Seq(Args)
    BY <2>1, ConcatProperties
  <2> QED BY <2>2, <2>3, <2>4
<1> HIDE DEF Q
<1>3. Seq(Templates) \subseteq Q
  BY <1>1, <1>2, SeqInd
<1> QED BY <1>3 DEF Q

LEMMA FilledOne ==
  ASSUME NEW slot, NEW roots \in Paths, NEW in \in Inputs, NEW extra \in Seq(Args), NEW t \in Templates
  PROVE  Filled(<<t>>, slot, roots, in, extra) = Piece(t, slot, roots, in, extra)
<1> DEFINE e == <<>>
           x == Filled(e, slot, roots, in, extra)
           y == Piece(t, slot, roots, in, extra)
<1>1. e \in Seq(Templates) /\ Append(e, t) = <<t>>
  BY EmptySeq
<1>2. x = <<>>
  BY FilledEmpty
<1> HIDE DEF e
<1>3. Filled(Append(e, t), slot, roots, in, extra) = x \o y
  <2>1. e \in Seq(Templates)
    BY <1>1
  <2> QED BY <2>1, FilledAppend
<1> HIDE DEF x
<1>4. y \in Seq(Args)
  BY PieceType
<1> HIDE DEF y
<1>5. x \o y = y
  BY <1>2, <1>4, ConcatEmptySeq
<1> QED BY <1>1, <1>3, <1>5 DEF y

\* Two parts of a convention filled in are the two joined.
LEMMA FilledConcat ==
  ASSUME NEW slot, NEW roots \in Paths, NEW in \in Inputs, NEW extra \in Seq(Args),
         NEW s \in Seq(Templates), NEW t \in Seq(Templates)
  PROVE  Filled(s \o t, slot, roots, in, extra) =
           Filled(s, slot, roots, in, extra) \o Filled(t, slot, roots, in, extra)
<1> DEFINE F(u) == Filled(u, slot, roots, in, extra)
           Q == {u \in Seq(Templates) : F(s \o u) = F(s) \o F(u)}
<1>1. <<>> \in Q
  <2>1. F(<<>>) = <<>> /\ <<>> \in Seq(Templates) /\ s \o <<>> = s
    BY EmptySeq, FilledEmpty, ConcatEmptySeq
  <2>2. F(s) \in Seq(Args)
    BY FilledType
  <2> HIDE DEF F
  <2>3. F(s) \o <<>> = F(s)
    BY <2>2, ConcatEmptySeq
  <2> QED BY <2>1, <2>3
<1>2. ASSUME NEW u \in Seq(Templates), u \in Q, NEW e \in Templates PROVE Append(u, e) \in Q
  <2> DEFINE su == s \o u
             y == Piece(e, slot, roots, in, extra)
             fs == F(s)
             fu == F(u)
  <2>1. su \in Seq(Templates) /\ Append(u, e) \in Seq(Templates) /\ s \o Append(u, e) = Append(su, e)
    BY ConcatAppend, ConcatProperties, AppendProperties
  <2>2. F(su) = fs \o fu
    BY <1>2
  <2>3. fs \in Seq(Args) /\ fu \in Seq(Args) /\ y \in Seq(Args)
    BY FilledType, PieceType
  <2> HIDE DEF su
  <2>4. F(Append(su, e)) = F(su) \o y /\ F(Append(u, e)) = fu \o y
    <3>1. su \in Seq(Templates)
      BY <2>1
    <3>2. F(Append(su, e)) = F(su) \o y
      BY <3>1, FilledAppend
    <3>3. F(Append(u, e)) = fu \o y
      BY FilledAppend
    <3> QED BY <3>2, <3>3
  <2> DEFINE w == s \o Append(u, e)
             v == Append(su, e)
  <2>5. F(w) = F(v)
    <3>1. w = v
      BY <2>1
    <3> HIDE DEF w, v
    <3> QED BY <3>1
  <2> HIDE DEF F, fs, fu, y
  <2>6. (fs \o fu) \o y = fs \o (fu \o y)
    BY <2>3, ConcatAssociative, SMTT(30)
  <2>7. F(s \o Append(u, e)) = fs \o F(Append(u, e))
    BY <2>2, <2>4, <2>5, <2>6
  <2> QED BY <2>1, <2>7 DEF fs
<1> HIDE DEF Q
<1>3. Seq(Templates) \subseteq Q
  BY <1>1, <1>2, SeqInd
<1>4. F(s \o t) = F(s) \o F(t)
  BY <1>3 DEF Q
<1> QED BY <1>4

-----------------------------------------------------------------------------
(* How a CLI reads what it is given. *)

\* The CLIs whose command line CliReading reads, and the pairs of a flag and its value.
CLIs == {"claude", "codex", "opencode", "antigravity"}

Pairs == Parts \X Args

\* What a CLI can have understood.
ReadState == [options : SUBSET Pairs, words : Seq(Args), text : Seq(Args), ended : BOOLEAN,
              wants : Parts, list : Parts, bad : BOOLEAN]

\* Whatever is a flag of one CLI is taken for a flag by all.
LEMMA FlagsAreDashed ==
  \A r \in CLIs : \A x \in Switches(r) \union Valued(r) \union Lists(r) \union Inline(r) : x \in Dashed
<1>1. ASSUME NEW r \in CLIs, NEW x \in Switches(r) \union Valued(r) \union Lists(r) \union Inline(r)
      PROVE  x \in Dashed
  <2> DEFINE F(q) == Switches(q) \union Valued(q) \union Lists(q) \union Inline(q)
  <2>1. r \in {"claude", "codex", "opencode", "antigravity"} /\ x \in F(r)
    BY DEF CLIs
  <2>2. Dashed = {"--"} \union UNION { F(q) : q \in {"claude", "codex", "opencode", "antigravity"} }
    BY DEF Dashed
  <2> HIDE DEF F
  <2> QED BY <2>1, <2>2
<1> QED BY <1>1

\* Which arguments are flags of which CLI, and of which sort.
LEMMA Flags ==
  ASSUME NEW r \in CLIs, NEW x
  PROVE  /\ x \in Switches(r) => x \in Dashed /\ x \in Parts /\ x \notin Inline(r) /\ x # "--"
         /\ x \in Valued(r) => /\ x \in Dashed /\ x \in Parts /\ x # "--" /\ x # ""
                               /\ x \notin Inline(r) /\ x \notin Switches(r)
         /\ x \in Lists(r) => /\ x \in Dashed /\ x \in Parts /\ x # "--" /\ x # ""
                              /\ x \notin Inline(r) /\ x \notin Switches(r) /\ x \notin Valued(r)
         /\ x \in Inline(r) => x \in Dashed /\ x \in Parts /\ x # "--"
<1> DEFINE Apart(q) ==
      /\ x \in Switches(q) => x \notin Inline(q) /\ x # "--"
      /\ x \in Valued(q) => x # "--" /\ x # "" /\ x \notin Inline(q) /\ x \notin Switches(q)
      /\ x \in Lists(q) => x # "--" /\ x # "" /\ x \notin Inline(q) /\ x \notin Switches(q) /\ x \notin Valued(q)
      /\ x \in Inline(q) => x # "--"
<1>1. x \in Switches(r) \union Valued(r) \union Lists(r) \union Inline(r) => x \in Parts
  <2>1. CASE r = "claude"
    BY <2>1, LiteralsAre DEF Switches, Valued, Lists, Inline, StrictFlag, SkipFlag
  <2>2. CASE r = "codex"
    BY <2>2, LiteralsAre DEF Switches, Valued, Lists, Inline
  <2>3. CASE r = "opencode"
    BY <2>3, LiteralsAre DEF Switches, Valued, Lists, Inline
  <2>4. CASE r = "antigravity"
    BY <2>4, LiteralsAre DEF Switches, Valued, Lists, Inline, SkipFlag
  <2> QED BY <2>1, <2>2, <2>3, <2>4 DEF CLIs
<1>2. Apart(r)
  <2>1. Apart("claude")
    BY DEF Switches, Valued, Lists, Inline, StrictFlag, SkipFlag
  <2>2. Apart("codex")
    BY DEF Switches, Valued, Lists, Inline
  <2>3. Apart("opencode")
    BY DEF Switches, Valued, Lists, Inline
  <2>4. Apart("antigravity")
    BY DEF Switches, Valued, Lists, Inline, SkipFlag
  <2> HIDE DEF Apart
  <2> QED BY <2>1, <2>2, <2>3, <2>4 DEF CLIs
<1> QED BY <1>1, <1>2, FlagsAreDashed

\* Between two options: the CLI wants no value and has not given up or ended.
Calm(r, ws, s) ==
  /\ s \in ReadState /\ s.words = ws /\ s.text = <<>> /\ s.ended = FALSE /\ s.wants = "" /\ s.bad = FALSE
  /\ r # "claude" => s.list = ""

\* The value of a switch.
Nothing == <<>>

\* Codex takes no options behind the word resume.
Open(r, ws) == r = "codex" => ~Contains(ws, <<"resume">>)

\* What one argument does to the reading.
Only(arg, head) == arg = <<head>>

\* What reading one argument can do to what is understood.
Took1(s, flag, v) == [s EXCEPT !.options = @ \union {<<flag, v>>}, !.wants = "", !.list = ""]

Awaits(s, flag) == [s EXCEPT !.wants = flag, !.list = ""]

Lists1(s, flag) == [s EXCEPT !.list = flag]

Says1(s, arg) == [s EXCEPT !.options = @ \union {<<s.list, arg>>}]

Words1(s, arg) == [s EXCEPT !.words = Append(@, arg)]

Text1(s, arg) == [s EXCEPT !.text = Append(@, arg)]

Ends(s) == [s EXCEPT !.ended = TRUE, !.list = ""]

Spoils(s) == [s EXCEPT !.bad = TRUE]

\* One argument read, by what the CLI waits for.
LEMMA ReadIs ==
  ASSUME NEW r, NEW s, NEW arg, arg # <<>>, NEW head, arg[1] = head
  PROVE  ReadOne(r, s, arg) =
           IF s.ended THEN Text1(s, arg)
           ELSE IF s.wants # "" THEN Took1(s, s.wants, arg)
           ELSE IF Only(arg, "--") THEN Ends(s)
           ELSE IF head \in Inline(r) THEN Took1(s, head, Tail(arg))
           ELSE IF head \in Dashed
           THEN CASE ~(r = "codex" /\ Contains(s.words, <<"resume">>)) /\ Only(arg, head) /\ head \in Switches(r) ->
                       Took1(s, head, Nothing)
                  [] ~(r = "codex" /\ Contains(s.words, <<"resume">>)) /\ Only(arg, head) /\ head \in Valued(r) ->
                       Awaits(s, head)
                  [] ~(r = "codex" /\ Contains(s.words, <<"resume">>)) /\ Only(arg, head) /\ head \in Lists(r) ->
                       Lists1(s, head)
                  [] OTHER -> Spoils(s)
           ELSE IF s.list # "" THEN Says1(s, arg)
           ELSE Words1(s, arg)
<1> DEFINE late == r = "codex" /\ Contains(s.words, <<"resume">>)
           h == IF arg = <<>> THEN "" ELSE arg[1]
           is(flags) == arg = <<h>> /\ h \in flags
<1>1. h = head
  OBVIOUS
<1>2. ReadOne(r, s, arg) =
        IF s.ended THEN Text1(s, arg)
        ELSE IF s.wants # "" THEN Took1(s, s.wants, arg)
        ELSE IF Only(arg, "--") THEN Ends(s)
        ELSE IF h \in Inline(r) THEN Took1(s, h, Tail(arg))
        ELSE IF h \in Dashed
        THEN CASE ~late /\ is(Switches(r)) -> Took1(s, h, Nothing)
               [] ~late /\ is(Valued(r)) -> Awaits(s, h)
               [] ~late /\ is(Lists(r)) -> Lists1(s, h)
               [] OTHER -> Spoils(s)
        ELSE IF s.list # "" THEN Says1(s, arg)
        ELSE Words1(s, arg)
  BY DEF ReadOne, Nothing, Only, Took1, Awaits, Lists1, Says1, Words1, Text1, Ends, Spoils
<1>3. \A F : is(F) <=> Only(arg, h) /\ h \in F
  BY DEF Only
<1> HIDE DEF late, h, is
<1>4. ReadOne(r, s, arg) =
        IF s.ended THEN Text1(s, arg)
        ELSE IF s.wants # "" THEN Took1(s, s.wants, arg)
        ELSE IF Only(arg, "--") THEN Ends(s)
        ELSE IF h \in Inline(r) THEN Took1(s, h, Tail(arg))
        ELSE IF h \in Dashed
        THEN CASE ~late /\ Only(arg, h) /\ h \in Switches(r) -> Took1(s, h, Nothing)
               [] ~late /\ Only(arg, h) /\ h \in Valued(r) -> Awaits(s, h)
               [] ~late /\ Only(arg, h) /\ h \in Lists(r) -> Lists1(s, h)
               [] OTHER -> Spoils(s)
        ELSE IF s.list # "" THEN Says1(s, arg)
        ELSE Words1(s, arg)
  BY <1>2, <1>3
<1> QED BY <1>1, <1>4 DEF late

\* Between two options the CLI reads what its argument begins with.
LEMMA ReadCalm ==
  ASSUME NEW r \in CLIs, NEW ws, Open(r, ws), NEW s, Calm(r, ws, s), NEW arg, arg # <<>>,
         NEW head, arg[1] = head
  PROVE  ReadOne(r, s, arg) =
           IF Only(arg, "--") THEN Ends(s)
           ELSE IF head \in Inline(r) THEN Took1(s, head, Tail(arg))
           ELSE IF head \in Dashed
           THEN CASE Only(arg, head) /\ head \in Switches(r) -> Took1(s, head, Nothing)
                  [] Only(arg, head) /\ head \in Valued(r) -> Awaits(s, head)
                  [] Only(arg, head) /\ head \in Lists(r) -> Lists1(s, head)
                  [] OTHER -> Spoils(s)
           ELSE IF s.list # "" THEN Says1(s, arg)
           ELSE Words1(s, arg)
<1>1. ~(r = "codex" /\ Contains(s.words, <<"resume">>)) /\ s.ended = FALSE /\ s.wants = ""
  BY DEF Calm, Open
<1> QED BY <1>1, ReadIs

\* Between two options and done: nothing is waited for.
LEMMA TookCalm ==
  ASSUME NEW r, NEW ws, NEW s, Calm(r, ws, s), NEW flag \in Parts, NEW v \in Args
  PROVE  Calm(r, ws, Took1(s, flag, v)) /\ Took1(s, flag, v).options = s.options \union {<<flag, v>>}
<1>1. <<flag, v>> \in Pairs
  BY DEF Pairs
<1> QED BY <1>1, LiteralsAre DEF Calm, ReadState, Took1

\* What an argument begins with.
LEMMA HeadOfOne == \A x : <<x>> # <<>> /\ <<x>>[1] = x /\ Only(<<x>>, x) /\ (x # "--" => ~Only(<<x>>, "--"))
  BY DEF Only

LEMMA NotDashes == \A arg : arg[1] # "--" => ~Only(arg, "--")
<1>1. <<"--">>[1] = "--"
  OBVIOUS
<1> QED BY <1>1 DEF Only

\* A flag without a value.
LEMMA ReadSwitch ==
  ASSUME NEW r \in CLIs, NEW ws, Open(r, ws), NEW s, Calm(r, ws, s), NEW flag \in Switches(r)
  PROVE  /\ Calm(r, ws, ReadOne(r, s, <<flag>>))
         /\ ReadOne(r, s, <<flag>>).options = s.options \union {<<flag, Nothing>>}
<1> DEFINE arg == <<flag>>
<1>1. /\ flag \in Dashed /\ flag \in Parts /\ flag \notin Inline(r) /\ flag # "--"
      /\ flag \notin Valued(r) /\ flag \notin Lists(r)
  BY Flags
<1>2. arg # <<>> /\ arg[1] = flag /\ ~Only(arg, "--") /\ Only(arg, flag)
  BY <1>1, HeadOfOne
<1> HIDE DEF arg
<1>3. ReadOne(r, s, arg) = Took1(s, flag, Nothing)
  BY <1>1, <1>2, ReadCalm
<1>4. Nothing \in Args
  BY NoText DEF Nothing
<1>5. Calm(r, ws, ReadOne(r, s, arg)) /\ ReadOne(r, s, arg).options = s.options \union {<<flag, Nothing>>}
  BY <1>1, <1>3, <1>4, TookCalm
<1> QED BY <1>5 DEF arg

\* A flag and its value, whatever the value is.
LEMMA ReadValued ==
  ASSUME NEW r \in CLIs, NEW ws, Open(r, ws), NEW s, Calm(r, ws, s), NEW flag \in Valued(r), NEW v \in Args
  PROVE  /\ Calm(r, ws, ReadOne(r, ReadOne(r, s, <<flag>>), v))
         /\ ReadOne(r, ReadOne(r, s, <<flag>>), v).options = s.options \union {<<flag, v>>}
<1> DEFINE arg == <<flag>>
           u == Awaits(s, flag)
           t == Took1(u, flag, v)
<1>1. /\ flag \in Dashed /\ flag \in Parts /\ flag \notin Inline(r) /\ flag # "--" /\ flag # ""
      /\ flag \notin Switches(r) /\ flag \notin Lists(r)
  BY Flags
<1>2. arg # <<>> /\ arg[1] = flag /\ ~Only(arg, "--") /\ Only(arg, flag)
  BY <1>1, HeadOfOne
<1> HIDE DEF arg
<1>3. ReadOne(r, s, arg) = u
  BY <1>1, <1>2, ReadCalm
<1>4. u.ended = FALSE /\ u.wants = flag
  BY DEF Calm, ReadState, Awaits
<1>5. Calm(r, ws, t) /\ t.options = s.options \union {<<flag, v>>}
  <2>1. <<flag, v>> \in Pairs
    BY <1>1 DEF Pairs
  <2> QED BY <2>1, LiteralsAre DEF Calm, ReadState, Took1, Awaits
<1> HIDE DEF u
<1>6. ReadOne(r, u, v) = [u EXCEPT !.options = @ \union {<<flag, v>>}, !.wants = "", !.list = ""]
  BY <1>1, <1>4 DEF ReadOne
<1>7. ReadOne(r, u, v) = t
  BY <1>6 DEF Took1
<1> HIDE DEF t
<1>8. Calm(r, ws, ReadOne(r, ReadOne(r, s, arg), v)) /\ ReadOne(r, ReadOne(r, s, arg), v).options = s.options \union {<<flag, v>>}
  BY <1>3, <1>5, <1>7
<1> QED BY <1>8 DEF arg

\* A list of values runs on until the next flag.
LEMMA ReadList ==
  ASSUME NEW r \in CLIs, NEW ws, Open(r, ws), NEW s, Calm(r, ws, s), NEW flag \in Lists(r)
  PROVE  ReadOne(r, s, <<flag>>) = Lists1(s, flag)
<1> DEFINE arg == <<flag>>
<1>1. /\ flag \in Dashed /\ flag \notin Inline(r) /\ flag # "--"
      /\ flag \notin Switches(r) /\ flag \notin Valued(r)
  BY Flags
<1>2. arg # <<>> /\ arg[1] = flag /\ ~Only(arg, "--") /\ Only(arg, flag)
  BY <1>1, HeadOfOne
<1> HIDE DEF arg
<1>3. ReadOne(r, s, arg) = Lists1(s, flag)
  BY <1>1, <1>2, ReadCalm
<1> QED BY <1>3 DEF arg

\* A flag with a list of values, and the first one.
LEMMA ReadListed ==
  ASSUME NEW r \in CLIs, r = "claude", NEW ws, Open(r, ws), NEW s, Calm(r, ws, s), NEW flag \in Lists(r),
         NEW v \in Args, v # <<>>, v[1] \notin Dashed
  PROVE  /\ Calm(r, ws, ReadOne(r, ReadOne(r, s, <<flag>>), v))
         /\ ReadOne(r, ReadOne(r, s, <<flag>>), v).options = s.options \union {<<flag, v>>}
<1> DEFINE arg == <<flag>>
           u == Lists1(s, flag)
           t == Says1(u, v)
           head == v[1]
<1>1. /\ flag \in Dashed /\ flag \in Parts /\ flag \notin Inline(r) /\ flag # "--" /\ flag # ""
      /\ flag \notin Switches(r) /\ flag \notin Valued(r)
  BY Flags
<1>3. head \notin Dashed /\ head \notin Inline(r) /\ ~Only(v, "--")
  <2>1. "--" \in Dashed
    BY DEF Dashed
  <2>2. ~Only(v, "--")
    BY <2>1, NotDashes
  <2>3. v[1] \notin Inline(r)
    BY FlagsAreDashed
  <2> QED BY <2>2, <2>3
<1>4. ReadOne(r, s, arg) = u
  BY ReadList
<1> HIDE DEF arg
<1>5. Calm(r, ws, u) /\ u.list = flag
  BY <1>1, LiteralsAre DEF Calm, ReadState, Lists1
<1>6. Calm(r, ws, t) /\ t.options = s.options \union {<<flag, v>>}
  <2>1. <<flag, v>> \in Pairs
    BY <1>1 DEF Pairs
  <2> QED BY <1>1, <2>1, LiteralsAre DEF Calm, ReadState, Lists1, Says1
<1>7. head = v[1]
  OBVIOUS
<1> HIDE DEF u, head
<1>8. ReadOne(r, u, v) = t
  BY <1>1, <1>3, <1>5, <1>7, ReadCalm
<1> HIDE DEF t
<1>9. Calm(r, ws, ReadOne(r, ReadOne(r, s, arg), v)) /\ ReadOne(r, ReadOne(r, s, arg), v).options = s.options \union {<<flag, v>>}
  BY <1>4, <1>6, <1>8
<1> QED BY <1>9 DEF arg

\* A value joined to its flag.
LEMMA ReadInline ==
  ASSUME NEW r \in CLIs, NEW ws, Open(r, ws), NEW s, Calm(r, ws, s), NEW flag \in Inline(r), NEW v \in Args
  PROVE  /\ Calm(r, ws, ReadOne(r, s, <<flag>> \o v))
         /\ ReadOne(r, s, <<flag>> \o v).options = s.options \union {<<flag, v>>}
<1> DEFINE arg == <<flag>> \o v
<1>1. flag \in Parts /\ flag # "--"
  BY Flags
<1>2. arg # <<>> /\ arg[1] = flag /\ Tail(arg) = v
  <2>1. v \in Seq(Parts)
    BY DEF Args
  <2> QED BY <1>1, <2>1
<1> HIDE DEF arg
<1>3. ~Only(arg, "--")
  BY <1>1, <1>2, NotDashes
<1>4. ReadOne(r, s, arg) = Took1(s, flag, Tail(arg))
  BY <1>2, <1>3, ReadCalm
<1>5. ReadOne(r, s, arg) = Took1(s, flag, v)
  BY <1>2, <1>4
<1>6. Calm(r, ws, ReadOne(r, s, arg)) /\ ReadOne(r, s, arg).options = s.options \union {<<flag, v>>}
  BY <1>1, <1>5, TookCalm
<1> QED BY <1>6 DEF arg

\* The arguments b, given to a CLI that is between two options, add the
\* options D, and it is between two options again.
Adds(r, ws, b, D) ==
  /\ b \in Seq(Args)
  /\ \A argv \in Seq(Args) : Calm(r, ws, Read(r, argv)) =>
       /\ Calm(r, ws, Read(r, argv \o b))
       /\ Read(r, argv \o b).options = Read(r, argv).options \union D

\* Parts that add options one behind the other.
LEMMA AddsNothing == \A r, ws : Adds(r, ws, <<>>, {})
<1>1. ASSUME NEW argv \in Seq(Args) PROVE argv \o <<>> = argv
  BY ConcatEmptySeq
<1> QED BY <1>1, NoText DEF Adds

LEMMA AddsConcat ==
  ASSUME NEW r, NEW ws, NEW b, NEW D, NEW c, NEW E, Adds(r, ws, b, D), Adds(r, ws, c, E)
  PROVE  Adds(r, ws, b \o c, D \union E)
<1>1. b \in Seq(Args) /\ c \in Seq(Args)
  BY DEF Adds
<1>2. b \o c \in Seq(Args)
  BY <1>1, ConcatProperties
<1>3. ASSUME NEW argv \in Seq(Args), Calm(r, ws, Read(r, argv))
      PROVE  /\ Calm(r, ws, Read(r, argv \o (b \o c)))
             /\ Read(r, argv \o (b \o c)).options = Read(r, argv).options \union (D \union E)
  <2> DEFINE x == argv \o b
             y == x \o c
             z == argv \o (b \o c)
  <2>1. x \in Seq(Args)
    BY <1>1, ConcatProperties
  <2>2. Calm(r, ws, Read(r, x)) /\ Read(r, x).options = Read(r, argv).options \union D
    BY <1>3 DEF Adds
  <2>3. z = y
    BY <1>1, ConcatAssociative
  <2> HIDE DEF x
  <2>4. Calm(r, ws, Read(r, y)) /\ Read(r, y).options = Read(r, x).options \union E
    BY <2>1, <2>2 DEF Adds
  <2> HIDE DEF y, z
  <2>5. Calm(r, ws, Read(r, z)) /\ Read(r, z).options = Read(r, argv).options \union (D \union E)
    BY <2>2, <2>3, <2>4
  <2> QED BY <2>5 DEF z
<1> QED BY <1>2, <1>3 DEF Adds

LEMMA AddsOne ==
  ASSUME NEW r, NEW ws, NEW e \in Args, NEW D,
         \A s : Calm(r, ws, s) => /\ Calm(r, ws, ReadOne(r, s, e))
                                  /\ ReadOne(r, s, e).options = s.options \union D
  PROVE  Adds(r, ws, <<e>>, D)
<1>1. <<e>> \in Seq(Args)
  BY OneIn
<1>2. ASSUME NEW argv \in Seq(Args), Calm(r, ws, Read(r, argv))
      PROVE  /\ Calm(r, ws, Read(r, argv \o <<e>>))
             /\ Read(r, argv \o <<e>>).options = Read(r, argv).options \union D
  <2> DEFINE x == Append(argv, e)
             y == argv \o <<e>>
  <2>1. x = y
    BY AppendIsConcat
  <2>2. Read(r, x) = ReadOne(r, Read(r, argv), e)
    BY ReadAppend
  <2> HIDE DEF x
  <2>3. Calm(r, ws, Read(r, x)) /\ Read(r, x).options = Read(r, argv).options \union D
    BY <1>2, <2>2
  <2> HIDE DEF y
  <2>4. Calm(r, ws, Read(r, y)) /\ Read(r, y).options = Read(r, argv).options \union D
    BY <2>1, <2>3
  <2> QED BY <2>4 DEF y
<1> QED BY <1>1, <1>2 DEF Adds

LEMMA AddsTwo ==
  ASSUME NEW r, NEW ws, NEW e \in Args, NEW f \in Args, NEW D,
         \A s : Calm(r, ws, s) => /\ Calm(r, ws, ReadOne(r, ReadOne(r, s, e), f))
                                  /\ ReadOne(r, ReadOne(r, s, e), f).options = s.options \union D
  PROVE  Adds(r, ws, <<e, f>>, D)
<1>1. <<e, f>> \in Seq(Args)
  BY TwoIn
<1>2. ASSUME NEW argv \in Seq(Args), Calm(r, ws, Read(r, argv))
      PROVE  /\ Calm(r, ws, Read(r, argv \o <<e, f>>))
             /\ Read(r, argv \o <<e, f>>).options = Read(r, argv).options \union D
  <2> DEFINE x == Append(argv, e)
             z == Append(x, f)
             y == argv \o <<e, f>>
  <2>1. x \in Seq(Args)
    BY AppendProperties
  <2>2. Read(r, x) = ReadOne(r, Read(r, argv), e)
    BY ReadAppend
  <2>3. z = y
    OBVIOUS
  <2> HIDE DEF x
  <2>4. Read(r, z) = ReadOne(r, Read(r, x), f)
    BY <2>1, ReadAppend
  <2> HIDE DEF z
  <2>5. Calm(r, ws, Read(r, z)) /\ Read(r, z).options = Read(r, argv).options \union D
    BY <1>2, <2>2, <2>4
  <2> HIDE DEF y
  <2>6. Calm(r, ws, Read(r, y)) /\ Read(r, y).options = Read(r, argv).options \union D
    BY <2>3, <2>5
  <2> QED BY <2>6 DEF y
<1> QED BY <1>1, <1>2 DEF Adds

\* A switch adds itself with no value.
LEMMA AddsSwitch ==
  ASSUME NEW r \in CLIs, NEW ws, Open(r, ws), NEW flag \in Switches(r)
  PROVE  Adds(r, ws, << <<flag>> >>, {<<flag, Nothing>>})
<1> DEFINE e == <<flag>>
           D == {<<flag, Nothing>>}
<1>1. e \in Args
  BY Flags, OneText
<1>2. \A s : Calm(r, ws, s) => /\ Calm(r, ws, ReadOne(r, s, e))
                               /\ ReadOne(r, s, e).options = s.options \union D
  BY ReadSwitch
<1> HIDE DEF e, D
<1>3. Adds(r, ws, <<e>>, D)
  BY <1>1, <1>2, AddsOne
<1> QED BY <1>3 DEF e, D

\* A flag and its value add the pair.
LEMMA AddsValued ==
  ASSUME NEW r \in CLIs, NEW ws, Open(r, ws), NEW flag \in Valued(r), NEW v \in Args
  PROVE  Adds(r, ws, << <<flag>>, v >>, {<<flag, v>>})
<1> DEFINE e == <<flag>>
           D == {<<flag, v>>}
<1>1. e \in Args
  BY Flags, OneText
<1>2. \A s : Calm(r, ws, s) => /\ Calm(r, ws, ReadOne(r, ReadOne(r, s, e), v))
                               /\ ReadOne(r, ReadOne(r, s, e), v).options = s.options \union D
  BY ReadValued
<1> HIDE DEF e, D
<1>3. Adds(r, ws, <<e, v>>, D)
  BY <1>1, <1>2, AddsTwo
<1> QED BY <1>3 DEF e, D

\* A list flag and one value add the pair.
LEMMA AddsListed ==
  ASSUME NEW ws, NEW flag \in Lists("claude"), NEW v \in Args, v # <<>>, v[1] \notin Dashed
  PROVE  Adds("claude", ws, << <<flag>>, v >>, {<<flag, v>>})
<1> DEFINE e == <<flag>>
           D == {<<flag, v>>}
           r == "claude"
<1>1. r \in CLIs /\ Open(r, ws)
  BY DEF CLIs, Open
<1>2. r = "claude"
  OBVIOUS
<1>3. flag \in Lists(r)
  OBVIOUS
<1> HIDE DEF r
<1>4. e \in Args
  BY <1>1, <1>3, Flags, OneText
<1>5. \A s : Calm(r, ws, s) => /\ Calm(r, ws, ReadOne(r, ReadOne(r, s, e), v))
                               /\ ReadOne(r, ReadOne(r, s, e), v).options = s.options \union D
  BY <1>1, <1>2, <1>3, ReadListed
<1> HIDE DEF e, D
<1>6. Adds(r, ws, <<e, v>>, D)
  BY <1>4, <1>5, AddsTwo
<1> QED BY <1>6 DEF e, D, r

\* A joined flag adds its value.
LEMMA AddsInline ==
  ASSUME NEW r \in CLIs, NEW ws, Open(r, ws), NEW flag \in Inline(r), NEW v \in Args
  PROVE  Adds(r, ws, << <<flag>> \o v >>, {<<flag, v>>})
<1> DEFINE e == <<flag>> \o v
           D == {<<flag, v>>}
<1>1. e \in Args
  <2>1. <<flag>> \in Args
    BY Flags, OneText
  <2> QED BY <2>1, ArgsConcat
<1>2. \A s : Calm(r, ws, s) => /\ Calm(r, ws, ReadOne(r, s, e))
                               /\ ReadOne(r, s, e).options = s.options \union D
  BY ReadInline
<1> HIDE DEF e, D
<1>3. Adds(r, ws, <<e>>, D)
  BY <1>1, <1>2, AddsOne
<1> QED BY <1>3 DEF e, D

-----------------------------------------------------------------------------
(* What the CLI reads of a part of a convention. *)

\* The part seg, filled in, adds the options D.
Says(r, ws, roots, in, extra, seg, D) ==
  seg \in Seq(Templates) /\ Adds(r, ws, Filled(seg, "extra", roots, in, extra), D)

\* A command line in the making: the CLI, the words so far, and the turn.
Given(r, ws, roots, in, extra) ==
  r \in CLIs /\ Open(r, ws) /\ roots \in Paths /\ in \in Inputs /\ extra \in Seq(Args)

\* Parts of a convention that say something, one behind the other.
LEMMA SaysNothing ==
  ASSUME NEW r, NEW ws, NEW roots, NEW in, NEW extra
  PROVE  Says(r, ws, roots, in, extra, <<>>, {})
  BY FilledEmpty, AddsNothing, EmptySeq DEF Says

LEMMA SaysBoth ==
  ASSUME NEW r, NEW ws, NEW roots, NEW in, NEW extra, Given(r, ws, roots, in, extra),
         NEW a, NEW D, NEW b, NEW E,
         Says(r, ws, roots, in, extra, a, D), Says(r, ws, roots, in, extra, b, E)
  PROVE  Says(r, ws, roots, in, extra, a \o b, D \union E)
<1> DEFINE slot == "extra"
           x == Filled(a, slot, roots, in, extra)
           y == Filled(b, slot, roots, in, extra)
           ab == a \o b
<1>1. /\ a \in Seq(Templates) /\ b \in Seq(Templates) /\ roots \in Paths /\ in \in Inputs
      /\ extra \in Seq(Args)
  BY DEF Says, Given
<1>2. ab \in Seq(Templates)
  BY <1>1, ConcatProperties
<1>3. Adds(r, ws, x, D) /\ Adds(r, ws, y, E)
  BY DEF Says
<1> HIDE DEF slot
<1>4. Filled(ab, slot, roots, in, extra) = x \o y
  BY <1>1, FilledConcat
<1> HIDE DEF ab, x, y
<1>5. Adds(r, ws, x \o y, D \union E)
  BY <1>3, AddsConcat
<1>6. Adds(r, ws, Filled(ab, slot, roots, in, extra), D \union E)
  BY <1>4, <1>5
<1> QED BY <1>2, <1>6 DEF Says, slot, ab

\* A part of one template.
LEMMA OneTemplate == \A t \in Templates : <<t>> \in Seq(Templates)
<1>1. ASSUME NEW t \in Templates PROVE <<t>> \in Seq(Templates)
  BY OneIn
<1> QED BY <1>1

\* A template of its own.
LEMMA SaysOne ==
  ASSUME NEW r, NEW ws, NEW roots, NEW in, NEW extra, Given(r, ws, roots, in, extra),
         NEW t \in Templates, t.kind # "extra", NEW D, Adds(r, ws, ResolveTemplate(roots, t, in), D)
  PROVE  Says(r, ws, roots, in, extra, <<t>>, D)
<1> DEFINE slot == "extra"
           none == <<>>
           p == Piece(t, slot, roots, in, extra)
           w == ResolveTemplate(roots, t, in)
<1>1. roots \in Paths /\ in \in Inputs /\ extra \in Seq(Args)
  BY DEF Given
<1>2. w \in Seq(Args)
  BY <1>1, ResolveType
<1>3. p = none \o w
  BY DEF Piece
<1> HIDE DEF w
<1>4. p = w
  BY <1>2, <1>3, ConcatEmptySeq
<1> HIDE DEF p, slot
<1>5. Filled(<<t>>, slot, roots, in, extra) = p
  BY <1>1, FilledOne DEF p
<1>6. Adds(r, ws, p, D)
  BY <1>4 DEF w
<1>7. Adds(r, ws, Filled(<<t>>, slot, roots, in, extra), D)
  BY <1>5, <1>6
<1> QED BY <1>7, OneTemplate DEF Says, slot

\* What a template of a convention is.
LEMMA TemplateFields ==
  ASSUME NEW kind, NEW value
  PROVE  LET t == Template(kind, value)
         IN  /\ t.kind = kind /\ t.value = value /\ t.root = "" /\ t.rel = "" /\ t.omit = FALSE
             /\ t.system = FALSE /\ t.firstOnly = FALSE
  BY DEF Template

LEMMA TemplateType ==
  ASSUME NEW kind \in PieceKinds, NEW value \in Args
  PROVE  Template(kind, value) \in Templates
  BY LiteralsAre DEF Template, Templates

LEMMA ExtraType == Extra \in Templates /\ Extra.kind = "extra"
<1> DEFINE k == "extra"
           v == <<>>
<1>1. k \in PieceKinds
  BY DEF PieceKinds
<1>2. v \in Args
  BY NoText
<1>3. Extra = Template(k, v)
  BY DEF Extra
<1> HIDE DEF v
<1>4. Extra \in Templates /\ Extra.kind = k
  BY <1>1, <1>2, <1>3, TemplateType, TemplateFields
<1> QED BY <1>4

LEMMA LitType ==
  ASSUME NEW text \in Args
  PROVE  Lit(text) \in Templates /\ Lit(text).kind = "literal" /\ Lit(text).value = text
<1> DEFINE k == "literal"
           t == Template(k, text)
<1>1. k \in PieceKinds
  BY DEF PieceKinds
<1>2. Lit(text) = t
  BY DEF Lit
<1>3. t.kind = k /\ t.value = text
  BY DEF Template
<1>4. t \in Templates
  BY <1>1, TemplateType
<1> QED BY <1>2, <1>3, <1>4

\* The slot says what the extra arguments say.
LEMMA SaysExtra ==
  ASSUME NEW r, NEW ws, NEW roots, NEW in, NEW extra, Given(r, ws, roots, in, extra),
         NEW D, Adds(r, ws, extra, D)
  PROVE  Says(r, ws, roots, in, extra, <<Extra>>, D)
<1> DEFINE slot == "extra"
           none == <<>>
           t == Extra
           p == Piece(t, slot, roots, in, extra)
<1>1. roots \in Paths /\ in \in Inputs /\ extra \in Seq(Args) /\ t \in Templates /\ t.kind = slot
  BY ExtraType DEF Given
<1>2. p = extra \o none
  BY <1>1 DEF Piece
<1>3. p = extra
  BY <1>1, <1>2, ConcatEmptySeq
<1> HIDE DEF p, slot, t
<1>4. Filled(<<t>>, slot, roots, in, extra) = p
  BY <1>1, FilledOne DEF p
<1>5. Adds(r, ws, Filled(<<t>>, slot, roots, in, extra), D)
  BY <1>3, <1>4
<1> QED BY <1>1, <1>5, OneTemplate DEF Says, slot, t

\* A literal is itself, whatever the launch.
LEMMA ResolveLit ==
  ASSUME NEW text \in Args, NEW roots, NEW in
  PROVE  ResolveTemplate(roots, Lit(text), in) = <<text>>
<1> DEFINE t == Lit(text)
<1>1. t.kind = "literal" /\ t.value = text /\ t.firstOnly = FALSE /\ t.omit = FALSE
  BY DEF Lit, Template
<1> HIDE DEF t
<1>2. ResolveTemplate(roots, t, in) = <<text>>
  BY <1>1 DEF ResolveTemplate
<1> QED BY <1>2 DEF t

LEMMA PairIsAppend == \A x, y : <<x, y>> = Append(<<x>>, y)
  OBVIOUS

LEMMA PairIsConcat == ASSUME NEW S, NEW x \in S, NEW y \in S PROVE <<x>> \o <<y>> = <<x, y>>
<1> DEFINE s == <<x>>
<1>1. s \in Seq(S)
  OBVIOUS
<1>2. Append(s, y) = <<x, y>>
  BY PairIsAppend
<1> HIDE DEF s
<1>3. Append(s, y) = s \o <<y>>
  BY <1>1, AppendIsConcat
<1> QED BY <1>2, <1>3 DEF s

LEMMA FilledLit ==
  ASSUME NEW roots \in Paths, NEW in \in Inputs, NEW extra \in Seq(Args), NEW x \in Args
  PROVE  /\ <<Lit(x)>> \in Seq(Templates)
         /\ Filled(<<Lit(x)>>, "extra", roots, in, extra) = <<x>>
<1> DEFINE slot == "extra"
           t == Lit(x)
           none == <<>>
           p == Piece(t, slot, roots, in, extra)
           q == <<x>>
<1>1. t \in Templates /\ t.kind # slot
  BY LitType
<1>2. ResolveTemplate(roots, t, in) = q
  BY ResolveLit
<1>3. q \in Seq(Args)
  BY OneIn
<1> HIDE DEF t, q
<1>4. p = none \o q
  BY <1>1, <1>2 DEF Piece
<1>5. p = q
  BY <1>3, <1>4, ConcatEmptySeq
<1> HIDE DEF p, slot
<1>6. Filled(<<t>>, slot, roots, in, extra) = q
  BY <1>1, <1>5, FilledOne DEF p
<1> QED BY <1>1, <1>6, OneTemplate DEF slot, t, q

\* Literals filled in are themselves.
LEMMA FilledLits ==
  ASSUME NEW roots \in Paths, NEW in \in Inputs, NEW extra \in Seq(Args), NEW x \in Args, NEW y \in Args
  PROVE  /\ <<Lit(x), Lit(y)>> \in Seq(Templates)
         /\ Filled(<<Lit(x), Lit(y)>>, "extra", roots, in, extra) = <<x, y>>
<1> DEFINE slot == "extra"
           t == Lit(x)
           u == Lit(y)
           a == <<t>>
           b == <<u>>
           ab == <<t, u>>
           p == <<x>>
           q == <<y>>
<1>1. a \in Seq(Templates) /\ Filled(a, slot, roots, in, extra) = p
  BY FilledLit
<1>2. b \in Seq(Templates) /\ Filled(b, slot, roots, in, extra) = q
  BY FilledLit
<1>3. ab = a \o b /\ p \o q = <<x, y>>
  <2>1. t \in Templates /\ u \in Templates
    BY LitType
  <2> QED BY <2>1, PairIsConcat
<1> HIDE DEF t, u
<1> HIDE DEF a, b, p, q, slot, ab
<1>4. a \o b \in Seq(Templates)
  BY <1>1, <1>2, ConcatProperties
<1>5. Filled(a \o b, slot, roots, in, extra) = p \o q
  <2>1. a \in Seq(Templates) /\ b \in Seq(Templates)
    BY <1>1, <1>2
  <2>2. Filled(a \o b, slot, roots, in, extra) = Filled(a, slot, roots, in, extra) \o Filled(b, slot, roots, in, extra)
    BY <2>1, FilledConcat
  <2> QED BY <2>2, <1>1, <1>2
<1>6. ab \in Seq(Templates) /\ Filled(ab, slot, roots, in, extra) = <<x, y>>
  BY <1>3, <1>4, <1>5
<1> QED BY <1>6 DEF ab, slot, t, u

LEMMA LitsOne == \A x : Lits(<<x>>) = <<Lit(<<x>>)>>
<1>1. ASSUME NEW x PROVE Lits(<<x>>) = <<Lit(<<x>>)>>
  <2> DEFINE w == <<x>>
             L(y) == Lit(<<y>>)
  <2>1. Lits(w) = [i \in DOMAIN w |-> L(w[i])]
    BY DEF Lits
  <2> HIDE DEF L
  <2>2. [i \in DOMAIN w |-> L(w[i])] = <<L(x)>>
    OBVIOUS
  <2> QED BY <2>1, <2>2 DEF L
<1> QED BY <1>1

LEMMA LitsTwo == \A x, y : Lits(<<x, y>>) = <<Lit(<<x>>), Lit(<<y>>)>>
<1>1. ASSUME NEW x, NEW y PROVE Lits(<<x, y>>) = <<Lit(<<x>>), Lit(<<y>>)>>
  <2> DEFINE w == <<x, y>>
             L(z) == Lit(<<z>>)
  <2>1. Lits(w) = [i \in DOMAIN w |-> L(w[i])]
    BY DEF Lits
  <2> HIDE DEF L
  <2>2. [i \in DOMAIN w |-> L(w[i])] = <<L(x), L(y)>>
    OBVIOUS
  <2> QED BY <2>1, <2>2 DEF L
<1> QED BY <1>1

LEMMA LitsType ==
  ASSUME NEW s \in Seq(Parts)
  PROVE  Lits(s) \in Seq(Templates)
<1>1. \A i \in DOMAIN s : s[i] \in Parts /\ DOMAIN s = 1..Len(s) /\ Len(s) \in Nat
  BY ElementOfSeq, LenProperties
<1>2. \A i \in DOMAIN s : Lit(<<s[i]>>) \in Templates
  BY <1>1, OneText, LitType
<1>3. DOMAIN s = 1..Len(s) /\ Len(s) \in Nat
  BY LenProperties
<1> QED BY <1>2, <1>3 DEF Lits

\* Lists of literals, joined.
LEMMA LitsConcat ==
  ASSUME NEW a \in Seq(Parts), NEW b \in Seq(Parts)
  PROVE  Lits(a \o b) = Lits(a) \o Lits(b)
<1> DEFINE c == a \o b
           x == Lits(a)
           y == Lits(b)
           z == Lits(c)
           w == x \o y
<1>1. /\ c \in Seq(Parts) /\ Len(c) = Len(a) + Len(b)
      /\ \A i \in 1..(Len(a) + Len(b)) : c[i] = IF i <= Len(a) THEN a[i] ELSE b[i - Len(a)]
      /\ Len(a) \in Nat /\ Len(b) \in Nat
  BY ConcatProperties, LenProperties
<1>2. /\ x \in Seq(Templates) /\ Len(x) = Len(a) /\ \A i \in 1..Len(a) : x[i] = Lit(<<a[i]>>)
  BY LitsType, LenProperties DEF Lits
<1>3. /\ y \in Seq(Templates) /\ Len(y) = Len(b) /\ \A i \in 1..Len(b) : y[i] = Lit(<<b[i]>>)
  BY LitsType, LenProperties DEF Lits
<1> HIDE DEF c
<1>4. /\ z \in Seq(Templates) /\ Len(z) = Len(c) /\ \A i \in 1..Len(c) : z[i] = Lit(<<c[i]>>)
  <2>1. c \in Seq(Parts)
    BY <1>1
  <2> QED BY <2>1, LitsType, LenProperties DEF Lits
<1> HIDE DEF x, y, z
<1>5. /\ w \in Seq(Templates) /\ Len(w) = Len(x) + Len(y)
      /\ \A i \in 1..(Len(x) + Len(y)) : w[i] = IF i <= Len(x) THEN x[i] ELSE y[i - Len(x)]
  <2>1. x \in Seq(Templates) /\ y \in Seq(Templates)
    BY <1>2, <1>3
  <2> QED BY <2>1, ConcatProperties
<1> HIDE DEF w
<1>6. DOMAIN w = 1..(Len(a) + Len(b)) /\ DOMAIN z = 1..(Len(a) + Len(b))
  <2>1. DOMAIN w = 1..Len(w) /\ DOMAIN z = 1..Len(z)
    BY <1>4, <1>5, LenProperties
  <2>2. Len(w) = Len(a) + Len(b) /\ Len(z) = Len(a) + Len(b)
    BY <1>1, <1>2, <1>3, <1>4, <1>5
  <2> QED BY <2>1, <2>2
<1>7. ASSUME NEW i \in 1..(Len(a) + Len(b)) PROVE w[i] = z[i]
  <2>1. CASE i <= Len(a)
    <3>1. i \in 1..Len(a) /\ i \in 1..Len(c)
      BY <2>1, <1>1
    <3>2. w[i] = x[i]
      BY <2>1, <1>2, <1>3, <1>5
    <3>3. c[i] = a[i]
      BY <2>1, <1>1
    <3>4. z[i] = Lit(<<a[i]>>)
      BY <3>1, <3>3, <1>4
    <3> QED BY <3>1, <3>2, <3>4, <1>2
  <2>2. CASE ~(i <= Len(a))
    <3>1. i - Len(a) \in 1..Len(b)
      BY <2>2, <1>1
    <3>2. w[i] = y[i - Len(a)] /\ z[i] = Lit(<<b[i - Len(a)]>>)
      BY <2>2, <1>1, <1>2, <1>3, <1>4, <1>5
    <3> QED BY <3>1, <3>2, <1>3
  <2> QED BY <2>1, <2>2
<1>8. w = z
  <2>1. w = [i \in DOMAIN w |-> w[i]] /\ z = [i \in DOMAIN z |-> z[i]]
    BY <1>4, <1>5
  <2> QED BY <2>1, <1>6, <1>7
<1> QED BY <1>8 DEF w, x, y, z, c

\* A switch, an option with its word, with its text.
LEMMA SaysSwitch ==
  ASSUME NEW r, NEW ws, NEW roots, NEW in, NEW extra, Given(r, ws, roots, in, extra), NEW flag \in Switches(r)
  PROVE  Says(r, ws, roots, in, extra, Lits(<<flag>>), {<<flag, Nothing>>})
<1> DEFINE x == <<flag>>
           seg == <<Lit(x)>>
           slot == "extra"
           D == {<<flag, Nothing>>}
<1>1. r \in CLIs /\ Open(r, ws) /\ roots \in Paths /\ in \in Inputs /\ extra \in Seq(Args)
  BY DEF Given
<1>2. Adds(r, ws, <<x>>, D)
  BY <1>1, AddsSwitch
<1>3. x \in Args
  BY <1>1, Flags, OneText
<1>4. Lits(x) = seg
  BY LitsOne
<1> HIDE DEF x, D
<1>5. seg \in Seq(Templates) /\ Filled(seg, slot, roots, in, extra) = <<x>>
  BY <1>1, <1>3, FilledLit
<1> HIDE DEF seg, slot
<1>6. Adds(r, ws, Filled(seg, slot, roots, in, extra), D)
  BY <1>2, <1>5
<1>7. Says(r, ws, roots, in, extra, seg, D)
  BY <1>5, <1>6 DEF Says, slot
<1>8. Says(r, ws, roots, in, extra, Lits(x), D)
  BY <1>4, <1>7
<1> QED BY <1>8 DEF x, D

\* What the parts of the conventions say: a flag with its value, a list, a word.
LEMMA SaysValued ==
  ASSUME NEW r, NEW ws, NEW roots, NEW in, NEW extra, Given(r, ws, roots, in, extra),
         NEW flag \in Valued(r), NEW v \in Args
  PROVE  Says(r, ws, roots, in, extra, <<Lit(<<flag>>), Lit(v)>>, {<<flag, v>>})
<1> DEFINE x == <<flag>>
           seg == <<Lit(x), Lit(v)>>
           slot == "extra"
           D == {<<flag, v>>}
<1>1. r \in CLIs /\ Open(r, ws) /\ roots \in Paths /\ in \in Inputs /\ extra \in Seq(Args)
  BY DEF Given
<1>2. Adds(r, ws, <<x, v>>, D)
  BY <1>1, AddsValued
<1>3. x \in Args
  BY <1>1, Flags, OneText
<1> HIDE DEF x, D
<1>4. seg \in Seq(Templates) /\ Filled(seg, slot, roots, in, extra) = <<x, v>>
  BY <1>1, <1>3, FilledLits
<1> HIDE DEF seg, slot
<1>5. Adds(r, ws, Filled(seg, slot, roots, in, extra), D)
  BY <1>2, <1>4
<1>6. Says(r, ws, roots, in, extra, seg, D)
  BY <1>4, <1>5 DEF Says, slot
<1> QED BY <1>6 DEF x, D, seg

LEMMA SaysListed ==
  ASSUME NEW ws, NEW roots, NEW in, NEW extra, Given("claude", ws, roots, in, extra),
         NEW flag \in Lists("claude"), NEW v \in Args, v # <<>>, v[1] \notin Dashed
  PROVE  Says("claude", ws, roots, in, extra, <<Lit(<<flag>>), Lit(v)>>, {<<flag, v>>})
<1> DEFINE x == <<flag>>
           seg == <<Lit(x), Lit(v)>>
           slot == "extra"
           D == {<<flag, v>>}
           r == "claude"
<1>1. r \in CLIs /\ Open(r, ws) /\ roots \in Paths /\ in \in Inputs /\ extra \in Seq(Args)
  BY DEF Given
<1>2. Adds(r, ws, <<x, v>>, D)
  BY AddsListed
<1>3. x \in Args
  <2>1. flag \in Lists(r)
    OBVIOUS
  <2> HIDE DEF r
  <2> QED BY <2>1, <1>1, Flags, OneText
<1> HIDE DEF x, D, r
<1>4. seg \in Seq(Templates) /\ Filled(seg, slot, roots, in, extra) = <<x, v>>
  BY <1>1, <1>3, FilledLits
<1> HIDE DEF seg, slot
<1>5. Adds(r, ws, Filled(seg, slot, roots, in, extra), D)
  BY <1>2, <1>4
<1>6. Says(r, ws, roots, in, extra, seg, D)
  BY <1>4, <1>5 DEF Says, slot
<1> QED BY <1>6 DEF x, D, seg, r

LEMMA SaysWord ==
  ASSUME NEW r, NEW ws, NEW roots, NEW in, NEW extra, Given(r, ws, roots, in, extra),
         NEW flag \in Valued(r), NEW word, <<word>> \in Args
  PROVE  Says(r, ws, roots, in, extra, Lits(<<flag, word>>), {<<flag, <<word>>>>})
<1> DEFINE v == <<word>>
           seg == <<Lit(<<flag>>), Lit(v)>>
           D == {<<flag, v>>}
           x == Lits(<<flag, word>>)
<1>1. x = seg
  BY LitsTwo
<1>2. v \in Args
  OBVIOUS
<1> HIDE DEF v, x
<1>3. Says(r, ws, roots, in, extra, seg, D)
  BY <1>2, SaysValued
<1> HIDE DEF seg
<1>4. Says(r, ws, roots, in, extra, x, D)
  BY <1>1, <1>3
<1> QED BY <1>4 DEF x, v

\* An option that is left out when its text is empty.
OptionOf(flag, text) == IF text = <<>> THEN {} ELSE {<<flag, text>>}

LEMMA ValueIsField == \A flag, text : Value(flag, text) = FieldArg(flag, text)
<1>1. ASSUME NEW flag, NEW text PROVE Value(flag, text) = FieldArg(flag, text)
  <2> DEFINE x == Lit(<<flag>>)
             y == Lit(text)
             S == {x, y}
             one == Lits(<<flag>>)
  <2>1. one = <<x>>
    BY LitsOne
  <2>2. <<x>> \o <<y>> = <<x, y>>
    <3>1. x \in S /\ y \in S
      OBVIOUS
    <3> HIDE DEF S, x, y
    <3> QED BY <3>1, PairIsConcat
  <2> HIDE DEF one
  <2>3. Value(flag, text) = IF text = <<>> THEN <<>> ELSE one \o <<y>>
    BY DEF Value, one
  <2>4. FieldArg(flag, text) = IF text = <<>> THEN <<>> ELSE <<x, y>>
    BY DEF FieldArg
  <2> QED BY <2>1, <2>2, <2>3, <2>4
<1> QED BY <1>1

\* A flag with a text of the adapter, left out when it is empty.
LEMMA SaysField ==
  ASSUME NEW r, NEW ws, NEW roots, NEW in, NEW extra, Given(r, ws, roots, in, extra),
         NEW flag \in Valued(r), NEW v \in Args
  PROVE  Says(r, ws, roots, in, extra, FieldArg(flag, v), OptionOf(flag, v))
<1>1. CASE v = <<>>
  <2> DEFINE none == <<>>
             D == {}
  <2>1. FieldArg(flag, v) = none /\ OptionOf(flag, v) = D
    BY <1>1 DEF FieldArg, OptionOf
  <2>2. Says(r, ws, roots, in, extra, none, D)
    BY SaysNothing
  <2> HIDE DEF none, D
  <2> QED BY <2>1, <2>2
<1>2. CASE v # <<>>
  <2> DEFINE seg == <<Lit(<<flag>>), Lit(v)>>
             D == {<<flag, v>>}
  <2>1. FieldArg(flag, v) = seg /\ OptionOf(flag, v) = D
    BY <1>2 DEF FieldArg, OptionOf
  <2>2. Says(r, ws, roots, in, extra, seg, D)
    BY SaysValued
  <2> HIDE DEF seg, D
  <2> QED BY <2>1, <2>2
<1> QED BY <1>1, <1>2

LEMMA SaysValue ==
  ASSUME NEW r, NEW ws, NEW roots, NEW in, NEW extra, Given(r, ws, roots, in, extra),
         NEW flag \in Valued(r), NEW v \in Args
  PROVE  Says(r, ws, roots, in, extra, Value(flag, v), OptionOf(flag, v))
  BY SaysField, ValueIsField

LEMMA SaysFieldListed ==
  ASSUME NEW ws, NEW roots, NEW in, NEW extra, Given("claude", ws, roots, in, extra),
         NEW flag \in Lists("claude"), NEW v \in Args, v = <<>> \/ v[1] \notin Dashed
  PROVE  Says("claude", ws, roots, in, extra, FieldArg(flag, v), OptionOf(flag, v))
<1> DEFINE r == "claude"
<1>1. CASE v = <<>>
  <2> DEFINE none == <<>>
             D == {}
  <2>1. FieldArg(flag, v) = none /\ OptionOf(flag, v) = D
    BY <1>1 DEF FieldArg, OptionOf
  <2>2. Says(r, ws, roots, in, extra, none, D)
    BY SaysNothing
  <2> HIDE DEF none, D
  <2> QED BY <2>1, <2>2
<1>2. CASE v # <<>>
  <2> DEFINE seg == <<Lit(<<flag>>), Lit(v)>>
             D == {<<flag, v>>}
  <2>1. FieldArg(flag, v) = seg /\ OptionOf(flag, v) = D
    BY <1>2 DEF FieldArg, OptionOf
  <2>2. Says(r, ws, roots, in, extra, seg, D)
    BY <1>2, SaysListed
  <2> HIDE DEF seg, D
  <2> QED BY <2>1, <2>2
<1> QED BY <1>1, <1>2

\* A flag and a text, as the adapters append them.
LEMMA FlagThenValue ==
  ASSUME NEW flag, NEW text, flag \notin Joined
  PROVE  FlagValue(<<flag>>, text) = IF text = <<>> THEN <<>> ELSE << <<flag>>, text >>
<1> DEFINE f == <<flag>>
<1>1. Last(f) = flag /\ f # <<>>
  BY DEF Last
<1> HIDE DEF f
<1>2. FlagValue(f, text) = IF text = <<>> THEN <<>> ELSE <<f, text>>
  BY <1>1 DEF FlagValue
<1> QED BY <1>2 DEF f

LEMMA FlagWithValue ==
  ASSUME NEW flag \in Joined, NEW text
  PROVE  FlagValue(<<flag>>, text) = IF text = <<>> THEN <<>> ELSE << <<flag>> \o text >>
<1> DEFINE f == <<flag>>
<1>1. Last(f) = flag /\ f # <<>>
  BY DEF Last
<1> HIDE DEF f
<1>2. FlagValue(f, text) = IF text = <<>> THEN <<>> ELSE <<f \o text>>
  BY <1>1 DEF FlagValue
<1> QED BY <1>2 DEF f

\* The session to resume, in the CLIs that take it as an option.
LEMMA SaysResume ==
  ASSUME NEW r, NEW ws, NEW roots, NEW in, NEW extra, Given(r, ws, roots, in, extra),
         NEW flag \in Valued(r), flag \notin Joined
  PROVE  Says(r, ws, roots, in, extra, <<Resume(flag)>>, OptionOf(flag, in.resume))
<1> DEFINE k == "resume"
           f == <<flag>>
           t == Resume(flag)
           v == in.resume
           b == ResolveTemplate(roots, t, in)
           D == OptionOf(flag, v)
<1>1. r \in CLIs /\ Open(r, ws) /\ in \in Inputs
  BY DEF Given
<1>2. f \in Args /\ v \in Args
  BY <1>1, Flags, OneText DEF Inputs
<1>3. k \in PieceKinds
  BY DEF PieceKinds
<1>4. t = Template(k, f)
  BY DEF Resume
<1>5. t \in Templates
  <2> HIDE DEF f, t
  <2> QED BY <1>2, <1>3, <1>4, TemplateType
<1>6. t.kind = k /\ t.value = f /\ t.firstOnly = FALSE
  BY DEF Resume, Template
<1>7. FlagValue(f, v) = IF v = <<>> THEN <<>> ELSE <<f, v>>
  BY FlagThenValue
<1> HIDE DEF t, f
<1>8. b = FlagValue(f, v)
  BY <1>6 DEF ResolveTemplate
<1>9. Adds(r, ws, b, D)
  <2>1. CASE v = <<>>
    BY <2>1, <1>7, <1>8, AddsNothing DEF OptionOf
  <2>2. CASE v # <<>>
    <3> DEFINE E == {<<flag, v>>}
    <3>1. Adds(r, ws, <<f, v>>, E)
      BY <1>1, <1>2, AddsValued DEF f
    <3>2. b = <<f, v>> /\ D = E
      BY <2>2, <1>7, <1>8 DEF OptionOf
    <3> QED BY <3>1, <3>2
  <2> QED BY <2>1, <2>2
<1> HIDE DEF D
<1>10. t.kind # "extra"
  BY <1>6
<1>11. Says(r, ws, roots, in, extra, <<t>>, D)
  BY <1>5, <1>9, <1>10, SaysOne
<1> QED BY <1>11 DEF t, D

\* Claude's system prompt, on a turn that begins a session.
SystemTemplate == [Template("system-prompt", <<"--system-prompt=">>) EXCEPT !.firstOnly = TRUE]

\* Claude takes the system prompt on the turn that begins a session.
SystemOption(in) == IF in.resume # <<>> THEN {} ELSE OptionOf("--system-prompt=", in.system)

\* Claude's system prompt says itself then, and nothing when it resumes.
LEMMA SaysSystem ==
  ASSUME NEW ws, NEW roots, NEW in, NEW extra, Given("claude", ws, roots, in, extra)
  PROVE  Says("claude", ws, roots, in, extra, <<SystemTemplate>>, SystemOption(in))
<1> DEFINE r == "claude"
           k == "system-prompt"
           flag == "--system-prompt="
           f == <<flag>>
           t == SystemTemplate
           v == in.system
           b == ResolveTemplate(roots, t, in)
           D == SystemOption(in)
<1>1. r \in CLIs /\ Open(r, ws) /\ in \in Inputs
  BY DEF Given
<1>2. f \in Args /\ v \in Args
  BY <1>1, WordsAre DEF Inputs
<1>3. k \in PieceKinds
  BY DEF PieceKinds
<1>4. flag \in Inline(r) /\ flag \in Joined
  BY DEF Inline, Joined
<1>5. /\ t.kind = k /\ t.value = f /\ t.firstOnly = TRUE /\ t.root = "" /\ t.rel = "" /\ t.omit = FALSE
      /\ t.system = FALSE
  BY DEF SystemTemplate, Template
<1>6. t \in Templates
  <2>1. Template(k, f) \in Templates
    <3> HIDE DEF f
    <3> QED BY <1>2, <1>3, TemplateType
  <2>2. t = [Template(k, f) EXCEPT !.firstOnly = TRUE]
    BY DEF SystemTemplate
  <2> HIDE DEF t, f
  <2> QED BY <2>1, <2>2 DEF Templates
<1>7. FlagValue(f, v) = IF v = <<>> THEN <<>> ELSE <<f \o v>>
  BY <1>4, FlagWithValue
<1> HIDE DEF t, f, flag, r
<1>8. b = IF in.resume # <<>> THEN <<>> ELSE FlagValue(f, v)
  BY <1>5 DEF ResolveTemplate
<1>9. Adds(r, ws, b, D)
  <2>1. CASE in.resume # <<>>
    BY <2>1, <1>8, AddsNothing DEF SystemOption
  <2>2. CASE in.resume = <<>> /\ v = <<>>
    BY <2>2, <1>7, <1>8, AddsNothing DEF OptionOf, SystemOption
  <2>3. CASE in.resume = <<>> /\ v # <<>>
    <3> DEFINE E == {<<flag, v>>}
    <3>1. Adds(r, ws, <<f \o v>>, E)
      BY <1>1, <1>2, <1>4, AddsInline DEF f
    <3>2. b = <<f \o v>> /\ D = E
      BY <2>3, <1>7, <1>8 DEF OptionOf, SystemOption, flag
    <3> QED BY <3>1, <3>2
  <2> QED BY <2>1, <2>2, <2>3
<1> HIDE DEF D
<1>10. t.kind # "extra"
  BY <1>5
<1>11. Says(r, ws, roots, in, extra, <<t>>, D)
  BY <1>6, <1>9, <1>10, SaysOne DEF r
<1> QED BY <1>11 DEF t, D, r

\* A flag with a path under a root the launch has.
PathUnder(roots, root, rel) == roots[root] \o (IF rel = "" THEN <<>> ELSE <<rel>>)

\* A template that names a path under a root.
IsPath(t, flag, root, rel) ==
  /\ t.kind \in {"file", "root"}
  /\ \/ t = [Template(t.kind, <<flag>>) EXCEPT !.root = root, !.rel = rel, !.omit = TRUE]
     \/ t.kind = "root" /\ rel = "" /\ t = [Template("root", <<flag>>) EXCEPT !.root = root, !.omit = TRUE]

\* The first part of joined arguments.
LEMMA HeadOfConcat ==
  ASSUME NEW S, NEW x \in Seq(S), NEW y \in Seq(S), x # <<>>
  PROVE  (x \o y)[1] = x[1] /\ x \o y # <<>>
<1> DEFINE z == x \o y
<1>1. Len(x) \in Nat /\ Len(x) # 0
  BY LenProperties, EmptySeq
<1>2. 1 \in 1..Len(x)
  BY <1>1
<1>3. \A i \in 1..Len(x) : z[i] = x[i]
  BY ConcatAt
<1>4. z = <<>> <=> x = <<>> /\ y = <<>>
  BY ConcatEqualIffEmpty
<1> HIDE DEF z
<1>5. z[1] = x[1] /\ z # <<>>
  BY <1>2, <1>3, <1>4
<1> QED BY <1>5 DEF z

\* A path template filled in: the flag and the path.
LEMMA PathFilled ==
  ASSUME NEW roots \in Paths, NEW in, NEW t, NEW flag, NEW root \in Root, NEW rel \in Parts,
         IsPath(t, flag, root, rel), <<flag>> \in Args, roots[root] # <<>>
  PROVE  /\ t \in Templates
         /\ ResolveTemplate(roots, t, in) = << <<flag>>, PathUnder(roots, root, rel) >>
         /\ PathUnder(roots, root, rel) \in Args
<1> DEFINE f == <<flag>>
           p == PathUnder(roots, root, rel)
<1>1. /\ t.value = f /\ t.root = root /\ t.rel = rel /\ t.omit = TRUE /\ t.system = FALSE
      /\ t.firstOnly = FALSE
  BY ZenonT(30) DEF Template, IsPath
<1>2. f # <<>> /\ f \in Args
  OBVIOUS
<1>3. t \in Templates
  <2>1. t.kind \in PieceKinds
    BY DEF PieceKinds, IsPath
  <2> HIDE DEF f
  <2> QED BY <2>1, <1>2, LiteralsAre DEF Template, Templates, IsPath, f
<1>4. root # ""
  BY DEF Root
<1>5. p \in Args
  <2>1. roots[root] \in Args
    BY DEF Paths
  <2>2. (IF rel = "" THEN <<>> ELSE <<rel>>) \in Args
    BY OneText, NoText
  <2> QED BY <2>1, <2>2, ArgsConcat DEF PathUnder
<1> HIDE DEF f
<1>6. ResolveTemplate(roots, t, in) = <<f, p>>
  <2>1. t.kind \in {"file", "root"}
    BY DEF IsPath
  <2> QED BY <2>1, <1>1, <1>2, <1>4 DEF ResolveTemplate, RootValue, PathUnder
<1> QED BY <1>3, <1>5, <1>6 DEF f

\* A path template says its flag with its path.
LEMMA SaysPath ==
  ASSUME NEW r, NEW ws, NEW roots, NEW in, NEW extra, Given(r, ws, roots, in, extra), NEW t, NEW flag,
         NEW root \in Root, NEW rel \in Parts,
         IsPath(t, flag, root, rel), roots[root] # <<>>,
         \/ flag \in Valued(r)
         \/ r = "claude" /\ flag \in Lists(r) /\ roots[root][1] \notin Dashed
  PROVE  Says(r, ws, roots, in, extra, <<t>>, {<<flag, PathUnder(roots, root, rel)>>})
<1> DEFINE f == <<flag>>
           p == PathUnder(roots, root, rel)
           b == ResolveTemplate(roots, t, in)
           D == {<<flag, p>>}
<1>1. r \in CLIs /\ Open(r, ws) /\ roots \in Paths
  BY DEF Given
<1>2. f \in Args
  BY <1>1, Flags, OneText
<1>3. t \in Templates /\ b = <<f, p>> /\ p \in Args
  BY <1>1, <1>2, PathFilled
<1>4. Adds(r, ws, <<f, p>>, D)
  <2>1. CASE flag \in Valued(r)
    BY <2>1, <1>1, <1>3, AddsValued
  <2>2. CASE r = "claude" /\ flag \in Lists(r) /\ roots[root][1] \notin Dashed
    <3> DEFINE x == roots[root]
               y == IF rel = "" THEN <<>> ELSE <<rel>>
    <3>1. x \in Seq(Parts) /\ x # <<>>
      BY <1>1 DEF Paths, Args
    <3>2. y \in Seq(Parts)
      BY EmptySeq, OneIn
    <3>3. p = x \o y
      BY DEF PathUnder
    <3> HIDE DEF x, y, p
    <3>4. (x \o y)[1] = x[1] /\ x \o y # <<>>
      BY <3>1, <3>2, HeadOfConcat
    <3>5. p[1] = x[1] /\ p # <<>>
      BY <3>3, <3>4
    <3>8. p[1] \notin Dashed
      BY <2>2, <3>5 DEF x
    <3>9. p \in Args
      BY <1>3 DEF p
    <3> QED BY <2>2, <3>5, <3>8, <3>9, AddsListed DEF p
  <2> QED BY <2>1, <2>2
<1> HIDE DEF f, p, b, D
<1>5. Adds(r, ws, b, D)
  BY <1>3, <1>4
<1>6. t.kind # "extra"
  BY DEF IsPath
<1>7. Says(r, ws, roots, in, extra, <<t>>, D)
  BY <1>3, <1>5, <1>6, SaysOne DEF b
<1> QED BY <1>7 DEF D, p

LEMMA OneIsAppend == \A x : <<x>> = Append(<<>>, x)
  OBVIOUS

LEMMA TwoAreAppends ==
  \A s \in Seq(Args) : \A e, f \in Args : s \o <<e, f>> = Append(Append(s, e), f)
<1>1. ASSUME NEW s \in Seq(Args), NEW e \in Args, NEW f \in Args
      PROVE  s \o <<e, f>> = Append(Append(s, e), f)
  OBVIOUS
<1> QED BY <1>1

-----------------------------------------------------------------------------
(* A whole command line. *)

\* The CLI has read argv: these are its options, words and text.
Reads(r, argv, D, ws, text) ==
  /\ Read(r, argv).options = D /\ Read(r, argv).words = ws /\ Read(r, argv).text = text
  /\ Read(r, argv).wants = "" /\ Read(r, argv).bad = FALSE

\* A CLI begins between two options.
LEMMA StartCalm == \A r : Calm(r, <<>>, Read(r, <<>>)) /\ Read(r, <<>>).options = {}
<1>1. ASSUME NEW r PROVE Calm(r, <<>>, Read(r, <<>>)) /\ Read(r, <<>>).options = {}
  <2> DEFINE none == <<>>
             s == Read(r, none)
  <2>1. s = NotRead
    BY ReadEmpty
  <2>2. none \in Seq(Args) /\ none = <<>>
    BY NoText
  <2> HIDE DEF none
  <2>3. Calm(r, none, NotRead) /\ NotRead.options = {}
    BY <2>2, LiteralsAre DEF Calm, ReadState, NotRead
  <2> HIDE DEF s
  <2>4. Calm(r, none, s) /\ s.options = {}
    BY <2>1, <2>3
  <2> QED BY <2>4 DEF s, none
<1> QED BY <1>1

\* A command line of options only is read as those options.
LEMMA ReadsCalm ==
  ASSUME NEW r, NEW ws, NEW argv, Calm(r, ws, Read(r, argv))
  PROVE  Reads(r, argv, Read(r, argv).options, ws, <<>>)
  BY DEF Reads, Calm

\* Behind a calm command line, "--" and the prompt.
LEMMA ReadsPrompt ==
  ASSUME NEW r \in CLIs, NEW ws, NEW argv \in Seq(Args), NEW prompt \in Args,
         NEW D, Read(r, argv).options = D,
         Read(r, argv) \in ReadState, Read(r, argv).words = ws, Read(r, argv).text = <<>>,
         Read(r, argv).ended = FALSE, Read(r, argv).wants = "", Read(r, argv).bad = FALSE
  PROVE  Reads(r, argv \o << <<"--">>, prompt >>, D, ws, <<prompt>>)
<1> DEFINE s == Read(r, argv)
           e == <<"--">>
           x == Append(argv, e)
           y == Append(x, prompt)
           z == argv \o <<e, prompt>>
           t == [s EXCEPT !.ended = TRUE, !.list = ""]
           u == [t EXCEPT !.text = Append(@, prompt)]
           none == <<>>
<1>1. e \in Args
  BY WordsAre
<1>2. x \in Seq(Args)
  <2> HIDE DEF e
  <2> QED BY <1>1, AppendProperties
<1>3. z = y
  <2> HIDE DEF e
  <2> QED BY <1>1, TwoAreAppends
<1>4. Read(r, x) = ReadOne(r, s, e)
  <2> HIDE DEF e
  <2> QED BY <1>1, ReadAppend
<1>5. Read(r, y) = ReadOne(r, Read(r, x), prompt)
  <2> HIDE DEF x
  <2> QED BY <1>2, ReadAppend
<1>6. s \in ReadState /\ s.words = ws /\ s.text = none /\ s.ended = FALSE /\ s.wants = "" /\ s.bad = FALSE /\ s.options = D
  OBVIOUS
<1> HIDE DEF s, x, y, z
<1>7. ReadOne(r, s, e) = t
  <2>1. s.ended = FALSE /\ s.wants = "" /\ e = <<"--">>
    BY <1>6
  <2> HIDE DEF e
  <2> QED BY <2>1 DEF ReadOne
<1>8. t.ended = TRUE /\ t.words = ws /\ t.text = none /\ t.wants = "" /\ t.bad = FALSE /\ t \in ReadState /\ t.options = D
  BY <1>6, LiteralsAre DEF ReadState
<1> HIDE DEF t
<1>9. ReadOne(r, t, prompt) = u
  BY <1>8 DEF ReadOne
<1>10. Append(none, prompt) = <<prompt>>
  BY OneIsAppend
<1> HIDE DEF none
<1>11. u.words = ws /\ u.text = <<prompt>> /\ u.wants = "" /\ u.bad = FALSE /\ u.options = D
  BY <1>8, <1>10 DEF ReadState
<1> HIDE DEF u
<1>12. Reads(r, z, D, ws, <<prompt>>)
  BY <1>3, <1>4, <1>5, <1>7, <1>9, <1>11 DEF Reads
<1> QED BY <1>12 DEF z, e

\* A word between two options.
LEMMA ReadWord ==
  ASSUME NEW r \in CLIs, NEW ws, Open(r, ws), NEW s, Calm(r, ws, s), s.list = "",
         NEW arg \in Args, arg # <<>>, arg[1] \notin Dashed
  PROVE  ReadOne(r, s, arg) = Words1(s, arg)
<1>1. "--" \in Dashed
  BY DEF Dashed
<1>2. ~Only(arg, "--")
  BY <1>1, NotDashes
<1>3. arg[1] \notin Inline(r)
  BY FlagsAreDashed
<1> QED BY <1>2, <1>3, ReadCalm

\* A first word: the subcommand.
LEMMA WordCalm ==
  ASSUME NEW r \in CLIs, NEW word, <<word>> \in Args, word \notin Dashed
  PROVE  Calm(r, << <<word>> >>, Read(r, << <<word>> >>)) /\ Read(r, << <<word>> >>).options = {}
<1> DEFINE e == <<word>>
           none == <<>>
           argv == Append(none, e)
           s == Read(r, none)
           t == Words1(s, e)
<1>1. Calm(r, none, s) /\ s.options = {} /\ s = NotRead /\ none \in Seq(Args)
  BY StartCalm, ReadEmpty, NoText
<1>2. Open(r, none)
  BY DEF Open, Contains
<1>3. "--" \in Dashed
  BY DEF Dashed
<1>4. e # none /\ e[1] = word /\ e # <<"--">> /\ e \in Args
  BY <1>3
<1>5. word \notin Inline(r)
  BY FlagsAreDashed
<1>6. none = <<>> /\ argv = <<e>> /\ s.list = "" /\ Append(none, e) = <<e>>
  <2>1. argv = <<e>>
    BY OneIsAppend
  <2>2. s.list = ""
    <3>1. NotRead.list = ""
      BY DEF NotRead
    <3> HIDE DEF s, none, e
    <3> QED BY <3>1, <1>1
  <2>3. Append(none, e) = <<e>>
    BY OneIsAppend
  <2> QED BY <2>1, <2>2, <2>3
<1>7. Read(r, argv) = ReadOne(r, s, e)
  <2>1. none \in Seq(Args)
    BY NoText
  <2>2. e \in Args
    OBVIOUS
  <2> HIDE DEF none, e
  <2> QED BY <2>1, <2>2, ReadAppend
<1> HIDE DEF none, e, argv, s
<1>8. ReadOne(r, s, e) = t
  <2>1. e[1] \notin Dashed /\ e # <<>> /\ Calm(r, none, s) /\ s.list = ""
    BY <1>1, <1>4, <1>6
  <2>2. e \in Args
    BY <1>4
  <2> QED BY <2>1, <2>2, <1>2, ReadWord
<1>9. Append(none, e) = <<e>>
  BY <1>6
<1>10. <<e>> \in Seq(Args)
  <2>1. e \in Args
    BY <1>4
  <2> QED BY <2>1, OneIn
<1>11. Calm(r, <<e>>, t) /\ t.options = {}
  <2> DEFINE w == <<e>>
  <2>1. Append(s.words, e) = w /\ w \in Seq(Args)
    BY <1>1, <1>9, <1>10 DEF Calm
  <2> HIDE DEF w
  <2>2. t = [s EXCEPT !.words = w]
    BY <2>1 DEF t, Words1
  <2> HIDE DEF t
  <2>3. Calm(r, w, t) /\ t.options = {}
    BY <1>1, <2>1, <2>2 DEF Calm, ReadState
  <2> QED BY <2>3 DEF w
<1> HIDE DEF t
<1>12. Calm(r, <<e>>, Read(r, argv)) /\ Read(r, argv).options = {}
  BY <1>7, <1>8, <1>11
<1>13. Calm(r, <<e>>, Read(r, <<e>>)) /\ Read(r, <<e>>).options = {}
  BY <1>12, <1>6
<1> QED BY <1>13 DEF e

-----------------------------------------------------------------------------
(* Which row each runtime's launch is made of. *)

\* The rows a provider's concern has in a mode and variant.
LEMMA RowsForIs ==
  ASSUME NEW r, NEW s, NEW c
  PROVE  RowsFor(Table, r, s, c) = { i \in PlaceRows(r, c) : AppliesTo(Table[i], s) }
  BY DEF RowsFor, PlaceRows

\* The most specific of one row, and of two.
LEMMA BestOne == ASSUME NEW t, NEW i \in Nat PROVE Best(t, {i}) = t[i]
<1> DEFINE Good(k) == \A j \in {i} :
             \/ Specificity(t[k]) > Specificity(t[j])
             \/ Specificity(t[k]) = Specificity(t[j]) /\ k <= j
           k == CHOOSE k \in {i} : Good(k)
<1>1. Good(i)
  OBVIOUS
<1> HIDE DEF Good
<1>2. k \in {i}
  BY <1>1
<1>3. k = i
  BY <1>2
<1>4. Best(t, {i}) = t[k]
  BY DEF Best, Good
<1> HIDE DEF k
<1> QED BY <1>3, <1>4

\* How specific a row is: its mode and its variant count.
LEMMA SpecificityIs ==
  ASSUME NEW e
  PROVE  /\ e.mode = "" /\ e.variant = "" => Specificity(e) = 0
         /\ e.mode # "" /\ e.variant = "" => Specificity(e) = 1
         /\ e.mode = "" /\ e.variant # "" => Specificity(e) = 1
         /\ e.mode # "" /\ e.variant # "" => Specificity(e) = 2
<1>1. ASSUME e.mode = "", e.variant = "" PROVE Specificity(e) = 0
  <2>1. Specificity(e) = 0 + 0
    BY <1>1, Zenon DEF Specificity
  <2> QED BY <2>1
<1>2. ASSUME e.mode # "", e.variant = "" PROVE Specificity(e) = 1
  <2>1. Specificity(e) = 1 + 0
    BY <1>2, Zenon DEF Specificity
  <2> QED BY <2>1
<1>3. ASSUME e.mode = "", e.variant # "" PROVE Specificity(e) = 1
  <2>1. Specificity(e) = 0 + 1
    BY <1>3, Zenon DEF Specificity
  <2> QED BY <2>1
<1>4. ASSUME e.mode # "", e.variant # "" PROVE Specificity(e) = 2
  <2>1. Specificity(e) = 1 + 1
    BY <1>4, Zenon DEF Specificity
  <2> QED BY <2>1
<1> QED BY <1>1, <1>2, <1>3, <1>4

LEMMA SpecificityType == \A e : Specificity(e) \in Nat
<1> SUFFICES ASSUME NEW e PROVE Specificity(e) \in Nat
  OBVIOUS
<1>1. Specificity(e) \in {0, 1, 2}
  BY SpecificityIs
<1> QED BY <1>1

LEMMA BestTwo ==
  ASSUME NEW t, NEW i \in Nat, NEW j \in Nat, i # j,
         Specificity(t[i]) > Specificity(t[j]) \/ (Specificity(t[i]) = Specificity(t[j]) /\ i < j)
  PROVE  Best(t, {i, j}) = t[i]
<1> DEFINE Good(k) == \A h \in {i, j} :
             \/ Specificity(t[k]) > Specificity(t[h])
             \/ Specificity(t[k]) = Specificity(t[h]) /\ k <= h
           k == CHOOSE k \in {i, j} : Good(k)
<1>1. Specificity(t[i]) \in Nat /\ Specificity(t[j]) \in Nat
  BY SpecificityType
<1>2. Good(i) /\ ~Good(j)
  BY <1>1
<1> HIDE DEF Good
<1>3. k \in {i, j} /\ Good(k)
  BY <1>2
<1>4. k = i
  BY <1>2, <1>3
<1>5. Best(t, {i, j}) = t[k]
  BY DEF Best, Good
<1> HIDE DEF k
<1> QED BY <1>4, <1>5

\* A concern found where its row says, and not found without a row.
LEMMA FindOne ==
  ASSUME NEW r, NEW s, NEW c, NEW i \in Nat, PlaceRows(r, c) = {i}, AppliesTo(Table[i], s)
  PROVE  HasRow(r, s, c) /\ Find(r, s, c) = Table[i]
<1>1. RowsFor(Table, r, s, c) = {i}
  BY RowsForIs
<1> QED BY <1>1, BestOne DEF HasRow, Find

LEMMA FindNone ==
  ASSUME NEW r, NEW s, NEW c, NEW i \in Nat, PlaceRows(r, c) = {i}, ~AppliesTo(Table[i], s)
  PROVE  ~HasRow(r, s, c)
  BY RowsForIs DEF HasRow

\* A general row and one for a shape.
LEMMA FindEither ==
  ASSUME NEW r, NEW s, NEW c, NEW i \in Nat, NEW j \in Nat, i # j, PlaceRows(r, c) = {i, j},
         AppliesTo(Table[i], s), Specificity(Table[j]) > Specificity(Table[i])
  PROVE  Find(r, s, c) = IF AppliesTo(Table[j], s) THEN Table[j] ELSE Table[i]
<1>1. CASE AppliesTo(Table[j], s)
  <2>1. RowsFor(Table, r, s, c) = {j, i}
    BY <1>1, RowsForIs
  <2>2. Best(Table, {j, i}) = Table[j]
    BY BestTwo
  <2> QED BY <1>1, <2>1, <2>2 DEF Find
<1>2. CASE ~AppliesTo(Table[j], s)
  <2>1. RowsFor(Table, r, s, c) = {i}
    BY <1>2, RowsForIs
  <2> QED BY <1>2, <2>1, BestOne DEF Find
<1> QED BY <1>1, <1>2

\* The rows every shape of a runtime uses.
LEMMA GeneralRows ==
  ASSUME NEW s
  PROVE  /\ HasRow("claude", s, "boot") /\ Find("claude", s, "boot") = Table[3]
         /\ HasRow("claude", s, "mcp") /\ Find("claude", s, "mcp") = Table[4]
         /\ HasRow("claude", s, "project-dir") /\ Find("claude", s, "project-dir") = Table[9]
         /\ HasRow("codex", s, "instructions") /\ Find("codex", s, "instructions") = Table[10]
         /\ HasRow("codex", s, "boot") /\ Find("codex", s, "boot") = Table[11]
         /\ HasRow("codex", s, "native-config") /\ Find("codex", s, "native-config") = Table[12]
         /\ HasRow("codex", s, "auth") /\ Find("codex", s, "auth") = Table[13]
         /\ HasRow("codex", s, "mcp") /\ Find("codex", s, "mcp") = Table[14]
         /\ HasRow("codex", s, "skills") /\ Find("codex", s, "skills") = Table[15]
         /\ HasRow("opencode", s, "instructions") /\ Find("opencode", s, "instructions") = Table[17]
         /\ HasRow("opencode", s, "native-config") /\ Find("opencode", s, "native-config") = Table[18]
         /\ HasRow("opencode", s, "boot") /\ Find("opencode", s, "boot") = Table[19]
         /\ HasRow("opencode", s, "mcp") /\ Find("opencode", s, "mcp") = Table[20]
         /\ HasRow("antigravity", s, "instructions") /\ Find("antigravity", s, "instructions") = Table[25]
         /\ HasRow("antigravity", s, "boot") /\ Find("antigravity", s, "boot") = Table[26]
         /\ HasRow("antigravity", s, "native-config") /\ Find("antigravity", s, "native-config") = Table[27]
         /\ HasRow("antigravity", s, "mcp") /\ Find("antigravity", s, "mcp") = Table[28]
         /\ HasRow("antigravity", s, "skills") /\ Find("antigravity", s, "skills") = Table[29]
<1>1. HasRow("claude", s, "boot") /\ Find("claude", s, "boot") = Table[3]
  <2>1. AppliesTo(Table[3], s)
    BY ClaudeTable DEF RowIs, AppliesTo
  <2>2. PlaceRows("claude", "boot") = {3}
    BY Places
  <2> QED BY <2>1, <2>2, FindOne
<1>2. HasRow("claude", s, "mcp") /\ Find("claude", s, "mcp") = Table[4]
  <2>1. AppliesTo(Table[4], s)
    BY ClaudeTable DEF RowIs, AppliesTo
  <2>2. PlaceRows("claude", "mcp") = {4}
    BY Places
  <2> QED BY <2>1, <2>2, FindOne
<1>3. HasRow("claude", s, "project-dir") /\ Find("claude", s, "project-dir") = Table[9]
  <2>1. AppliesTo(Table[9], s)
    BY ClaudeTable DEF RowIs, AppliesTo
  <2>2. PlaceRows("claude", "project-dir") = {9}
    BY Places
  <2> QED BY <2>1, <2>2, FindOne
<1>4. HasRow("codex", s, "instructions") /\ Find("codex", s, "instructions") = Table[10]
  <2>1. AppliesTo(Table[10], s)
    BY CodexTable DEF RowIs, AppliesTo
  <2>2. PlaceRows("codex", "instructions") = {10}
    BY Places
  <2> QED BY <2>1, <2>2, FindOne
<1>5. HasRow("codex", s, "boot") /\ Find("codex", s, "boot") = Table[11]
  <2>1. AppliesTo(Table[11], s)
    BY CodexTable DEF RowIs, AppliesTo
  <2>2. PlaceRows("codex", "boot") = {11}
    BY Places
  <2> QED BY <2>1, <2>2, FindOne
<1>6. HasRow("codex", s, "native-config") /\ Find("codex", s, "native-config") = Table[12]
  <2>1. AppliesTo(Table[12], s)
    BY CodexTable DEF RowIs, AppliesTo
  <2>2. PlaceRows("codex", "native-config") = {12}
    BY Places
  <2> QED BY <2>1, <2>2, FindOne
<1>7. HasRow("codex", s, "auth") /\ Find("codex", s, "auth") = Table[13]
  <2>1. AppliesTo(Table[13], s)
    BY CodexTable DEF RowIs, AppliesTo
  <2>2. PlaceRows("codex", "auth") = {13}
    BY Places
  <2> QED BY <2>1, <2>2, FindOne
<1>8. HasRow("codex", s, "mcp") /\ Find("codex", s, "mcp") = Table[14]
  <2>1. AppliesTo(Table[14], s)
    BY CodexTable DEF RowIs, AppliesTo
  <2>2. PlaceRows("codex", "mcp") = {14}
    BY Places
  <2> QED BY <2>1, <2>2, FindOne
<1>9. HasRow("codex", s, "skills") /\ Find("codex", s, "skills") = Table[15]
  <2>1. AppliesTo(Table[15], s)
    BY CodexTable DEF RowIs, AppliesTo
  <2>2. PlaceRows("codex", "skills") = {15}
    BY Places
  <2> QED BY <2>1, <2>2, FindOne
<1>10. HasRow("opencode", s, "instructions") /\ Find("opencode", s, "instructions") = Table[17]
  <2>1. AppliesTo(Table[17], s)
    BY OpencodeTable DEF RowIs, AppliesTo
  <2>2. PlaceRows("opencode", "instructions") = {17}
    BY Places
  <2> QED BY <2>1, <2>2, FindOne
<1>11. HasRow("opencode", s, "native-config") /\ Find("opencode", s, "native-config") = Table[18]
  <2>1. AppliesTo(Table[18], s)
    BY OpencodeTable DEF RowIs, AppliesTo
  <2>2. PlaceRows("opencode", "native-config") = {18}
    BY Places
  <2> QED BY <2>1, <2>2, FindOne
<1>12. HasRow("opencode", s, "boot") /\ Find("opencode", s, "boot") = Table[19]
  <2>1. AppliesTo(Table[19], s)
    BY OpencodeTable DEF RowIs, AppliesTo
  <2>2. PlaceRows("opencode", "boot") = {19}
    BY Places
  <2> QED BY <2>1, <2>2, FindOne
<1>13. HasRow("opencode", s, "mcp") /\ Find("opencode", s, "mcp") = Table[20]
  <2>1. AppliesTo(Table[20], s)
    BY OpencodeTable DEF RowIs, AppliesTo
  <2>2. PlaceRows("opencode", "mcp") = {20}
    BY Places
  <2> QED BY <2>1, <2>2, FindOne
<1>14. HasRow("antigravity", s, "instructions") /\ Find("antigravity", s, "instructions") = Table[25]
  <2>1. AppliesTo(Table[25], s)
    BY AntigravityTable DEF RowIs, AppliesTo
  <2>2. PlaceRows("antigravity", "instructions") = {25}
    BY Places
  <2> QED BY <2>1, <2>2, FindOne
<1>15. HasRow("antigravity", s, "boot") /\ Find("antigravity", s, "boot") = Table[26]
  <2>1. AppliesTo(Table[26], s)
    BY AntigravityTable DEF RowIs, AppliesTo
  <2>2. PlaceRows("antigravity", "boot") = {26}
    BY Places
  <2> QED BY <2>1, <2>2, FindOne
<1>16. HasRow("antigravity", s, "native-config") /\ Find("antigravity", s, "native-config") = Table[27]
  <2>1. AppliesTo(Table[27], s)
    BY AntigravityTable DEF RowIs, AppliesTo
  <2>2. PlaceRows("antigravity", "native-config") = {27}
    BY Places
  <2> QED BY <2>1, <2>2, FindOne
<1>17. HasRow("antigravity", s, "mcp") /\ Find("antigravity", s, "mcp") = Table[28]
  <2>1. AppliesTo(Table[28], s)
    BY AntigravityTable DEF RowIs, AppliesTo
  <2>2. PlaceRows("antigravity", "mcp") = {28}
    BY Places
  <2> QED BY <2>1, <2>2, FindOne
<1>18. HasRow("antigravity", s, "skills") /\ Find("antigravity", s, "skills") = Table[29]
  <2>1. AppliesTo(Table[29], s)
    BY AntigravityTable DEF RowIs, AppliesTo
  <2>2. PlaceRows("antigravity", "skills") = {29}
    BY Places
  <2> QED BY <2>1, <2>2, FindOne
<1> QED BY <1>1, <1>2, <1>3, <1>4, <1>5, <1>6, <1>7, <1>8, <1>9, <1>10, <1>11, <1>12, <1>13, <1>14, <1>15, <1>16, <1>17, <1>18

\* Claude's bare shape has rows of its own.
LEMMA ShapeFields ==
  \A m, v : Shape(m, v).mode = m /\ Shape(m, v).variant = v
  BY DEF Shape

\* The two variants differ.
LEMMA PlainIsNotBare == \A m : Plain(m) # Bare /\ Plain(m).mode = m /\ Plain(m).variant = ""
<1>1. ASSUME NEW m PROVE Plain(m) # Bare /\ Plain(m).mode = m /\ Plain(m).variant = ""
  <2>1. Plain(m).variant = "" /\ Bare.variant = "bare" /\ Plain(m).mode = m
    BY ShapeFields DEF Plain, Bare
  <2> QED BY <2>1
<1> QED BY <1>1

LEMMA BareFields == Bare.mode = PerTurn /\ Bare.variant = "bare"
  BY ShapeFields DEF Bare

\* A row for the mode or variant beats a general one.
LEMMA MoreSpecific ==
  \A e, f : e.mode = "" /\ e.variant = "" /\ f.mode = PerTurn /\ f.variant = "bare" =>
    Specificity(f) > Specificity(e)
<1>1. PerTurn # ""
  BY DEF PerTurn
<1>2. ASSUME NEW e, NEW f, e.mode = "", e.variant = "", f.mode = PerTurn, f.variant = "bare"
      PROVE  Specificity(f) > Specificity(e)
  <2>1. Specificity(e) = 0 /\ Specificity(f) = 2
    BY <1>1, <1>2, SpecificityIs
  <2> QED BY <2>1
<1> QED BY <1>2

\* Which rows Claude uses, by shape.
LEMMA ClaudeRowsOf ==
  ASSUME NEW s, s = Bare \/ s = Plain(s.mode)
  PROVE  /\ Find("claude", s, "instructions") = IF s = Bare THEN Table[2] ELSE Table[1]
         /\ Find("claude", s, "native-config") = IF s = Bare THEN Table[6] ELSE Table[5]
         /\ Find("claude", s, "skills") = IF s = Bare THEN Table[8] ELSE Table[7]
<1>1. Find("claude", s, "instructions") = IF s = Bare THEN Table[2] ELSE Table[1]
  <2> DEFINE e == Table[1]
             f == Table[2]
  <2>1. e.mode = "" /\ e.variant = "" /\ f.mode = PerTurn /\ f.variant = "bare"
    BY ClaudeTable DEF RowIs
  <2>2. PlaceRows("claude", "instructions") = {1, 2}
    BY Places
  <2> HIDE DEF e, f
  <2>3. AppliesTo(e, s)
    BY <2>1 DEF AppliesTo
  <2>4. AppliesTo(f, s) <=> s = Bare
    <3>1. CASE s = Bare
      BY <3>1, <2>1, BareFields DEF AppliesTo
    <3>2. CASE s # Bare
      <4>1. s.variant = ""
        BY <3>2, PlainIsNotBare
      <4> QED BY <3>2, <4>1, <2>1 DEF AppliesTo
    <3> QED BY <3>1, <3>2
  <2>5. Specificity(f) > Specificity(e)
    BY <2>1, MoreSpecific
  <2>6. Find("claude", s, "instructions") = IF AppliesTo(f, s) THEN f ELSE e
    BY <2>2, <2>3, <2>5, FindEither DEF e, f
  <2> QED BY <2>4, <2>6 DEF e, f
<1>2. Find("claude", s, "native-config") = IF s = Bare THEN Table[6] ELSE Table[5]
  <2> DEFINE e == Table[5]
             f == Table[6]
  <2>1. e.mode = "" /\ e.variant = "" /\ f.mode = PerTurn /\ f.variant = "bare"
    BY ClaudeTable DEF RowIs
  <2>2. PlaceRows("claude", "native-config") = {5, 6}
    BY Places
  <2> HIDE DEF e, f
  <2>3. AppliesTo(e, s)
    BY <2>1 DEF AppliesTo
  <2>4. AppliesTo(f, s) <=> s = Bare
    <3>1. CASE s = Bare
      BY <3>1, <2>1, BareFields DEF AppliesTo
    <3>2. CASE s # Bare
      <4>1. s.variant = ""
        BY <3>2, PlainIsNotBare
      <4> QED BY <3>2, <4>1, <2>1 DEF AppliesTo
    <3> QED BY <3>1, <3>2
  <2>5. Specificity(f) > Specificity(e)
    BY <2>1, MoreSpecific
  <2>6. Find("claude", s, "native-config") = IF AppliesTo(f, s) THEN f ELSE e
    BY <2>2, <2>3, <2>5, FindEither DEF e, f
  <2> QED BY <2>4, <2>6 DEF e, f
<1>3. Find("claude", s, "skills") = IF s = Bare THEN Table[8] ELSE Table[7]
  <2> DEFINE e == Table[7]
             f == Table[8]
  <2>1. e.mode = "" /\ e.variant = "" /\ f.mode = PerTurn /\ f.variant = "bare"
    BY ClaudeTable DEF RowIs
  <2>2. PlaceRows("claude", "skills") = {7, 8}
    BY Places
  <2> HIDE DEF e, f
  <2>3. AppliesTo(e, s)
    BY <2>1 DEF AppliesTo
  <2>4. AppliesTo(f, s) <=> s = Bare
    <3>1. CASE s = Bare
      BY <3>1, <2>1, BareFields DEF AppliesTo
    <3>2. CASE s # Bare
      <4>1. s.variant = ""
        BY <3>2, PlainIsNotBare
      <4> QED BY <3>2, <4>1, <2>1 DEF AppliesTo
    <3> QED BY <3>1, <3>2
  <2>5. Specificity(f) > Specificity(e)
    BY <2>1, MoreSpecific
  <2>6. Find("claude", s, "skills") = IF AppliesTo(f, s) THEN f ELSE e
    BY <2>2, <2>3, <2>5, FindEither DEF e, f
  <2> QED BY <2>4, <2>6 DEF e, f
<1> QED BY <1>1, <1>2, <1>3

\* The rows one mode of a runtime has.
LEMMA ModeRows ==
  ASSUME NEW s, s = Plain(s.mode)
  PROVE  /\ HasRow("codex", s, "project-dir") <=> s.mode = PerTurn
         /\ s.mode = PerTurn => Find("codex", s, "project-dir") = Table[16]
         /\ HasRow("opencode", s, "project-dir") <=> s.mode = PerTurn
         /\ s.mode = PerTurn => Find("opencode", s, "project-dir") = Table[23]
         /\ s.mode = HTTPSSE => Find("opencode", s, "runtime") = Table[24]
         /\ HasRow("antigravity", s, "project-dir") <=> s.mode = PerTurn
         /\ s.mode = PerTurn => Find("antigravity", s, "project-dir") = Table[30]
<1>1. /\ HasRow("codex", s, "project-dir") <=> s.mode = PerTurn
      /\ s.mode = PerTurn => Find("codex", s, "project-dir") = Table[16]
  <2> DEFINE e == Table[16]
  <2>1. e.mode = PerTurn /\ e.variant = ""
    BY CodexTable DEF RowIs
  <2>2. PlaceRows("codex", "project-dir") = {16}
    BY Places
  <2> HIDE DEF e
  <2>3. AppliesTo(e, s) <=> s.mode = PerTurn
    BY <2>1 DEF AppliesTo, PerTurn, HTTPSSE
  <2> QED BY <2>2, <2>3, FindOne, FindNone DEF e
<1>2. /\ HasRow("opencode", s, "project-dir") <=> s.mode = PerTurn
      /\ s.mode = PerTurn => Find("opencode", s, "project-dir") = Table[23]
  <2> DEFINE e == Table[23]
  <2>1. e.mode = PerTurn /\ e.variant = ""
    BY OpencodeTable DEF RowIs
  <2>2. PlaceRows("opencode", "project-dir") = {23}
    BY Places
  <2> HIDE DEF e
  <2>3. AppliesTo(e, s) <=> s.mode = PerTurn
    BY <2>1 DEF AppliesTo, PerTurn, HTTPSSE
  <2> QED BY <2>2, <2>3, FindOne, FindNone DEF e
<1>3. /\ HasRow("opencode", s, "runtime") <=> s.mode = HTTPSSE
      /\ s.mode = HTTPSSE => Find("opencode", s, "runtime") = Table[24]
  <2> DEFINE e == Table[24]
  <2>1. e.mode = HTTPSSE /\ e.variant = ""
    BY OpencodeTable DEF RowIs
  <2>2. PlaceRows("opencode", "runtime") = {24}
    BY Places
  <2> HIDE DEF e
  <2>3. AppliesTo(e, s) <=> s.mode = HTTPSSE
    BY <2>1 DEF AppliesTo, PerTurn, HTTPSSE
  <2> QED BY <2>2, <2>3, FindOne, FindNone DEF e
<1>4. /\ HasRow("antigravity", s, "project-dir") <=> s.mode = PerTurn
      /\ s.mode = PerTurn => Find("antigravity", s, "project-dir") = Table[30]
  <2> DEFINE e == Table[30]
  <2>1. e.mode = PerTurn /\ e.variant = ""
    BY AntigravityTable DEF RowIs
  <2>2. PlaceRows("antigravity", "project-dir") = {30}
    BY Places
  <2> HIDE DEF e
  <2>3. AppliesTo(e, s) <=> s.mode = PerTurn
    BY <2>1 DEF AppliesTo, PerTurn, HTTPSSE
  <2> QED BY <2>2, <2>3, FindOne, FindNone DEF e
<1> QED BY <1>1, <1>2, <1>3, <1>4

\* OpenCode's first skills row is the one that is used.
LEMMA OpencodeSkills ==
  ASSUME NEW s
  PROVE  Find("opencode", s, "skills") = Table[21]
<1> DEFINE e == Table[21]
           f == Table[22]
<1>1. e.mode = "" /\ e.variant = "" /\ f.mode = "" /\ f.variant = ""
  BY OpencodeTable DEF RowIs
<1>2. PlaceRows("opencode", "skills") = {21, 22}
  BY Places
<1> HIDE DEF e, f
<1>3. AppliesTo(e, s) /\ AppliesTo(f, s) /\ Specificity(e) = Specificity(f)
  BY <1>1 DEF AppliesTo, Specificity
<1>4. RowsFor(Table, "opencode", s, "skills") = {21, 22}
  BY <1>2, <1>3, RowsForIs DEF e, f
<1>5. Best(Table, {21, 22}) = Table[21]
  BY <1>3, BestTwo DEF e, f
<1> QED BY <1>4, <1>5 DEF Find

-----------------------------------------------------------------------------
(* The slot of the extra arguments, and the prompt. *)

\* A convention with a slot for the extra arguments.
HasExtra(argv) == \E i \in DOMAIN argv : argv[i].kind = "extra"

\* Resolve puts the extra arguments into that slot.
LEMMA SlotIsExtra == \A argv : HasExtra(argv) => Slot(argv) = "extra"
<1>1. ASSUME NEW argv, HasExtra(argv) PROVE Slot(argv) = "extra"
  <2> DEFINE kinds == { argv[i].kind : i \in DOMAIN argv }
  <2>1. "extra" \in kinds
    BY <1>1 DEF HasExtra
  <2>2. Slot(argv) = CASE "extra" \in kinds -> "extra"
                       [] "extra" \notin kinds /\ "prompt" \in kinds -> "prompt"
                       [] OTHER -> "end"
    BY DEF Slot
  <2> HIDE DEF kinds
  <2> QED BY <2>1, <2>2
<1> QED BY <1>1

\* Resolve gives the convention filled in.
LEMMA ArgvIsFilled ==
  ASSUME NEW c, NEW roots \in Paths, NEW in \in Inputs, NEW extra \in Seq(Args),
         c.argv \in Seq(Templates), HasExtra(c.argv)
  PROVE  Argv(c, roots, in, extra) = Filled(c.argv, "extra", roots, in, extra)
<1> DEFINE slot == "extra"
           x == Filled(c.argv, slot, roots, in, extra)
           none == <<>>
<1>1. Slot(c.argv) = slot /\ slot # "end"
  BY SlotIsExtra
<1>2. x \in Seq(Args)
  <2> HIDE DEF slot
  <2> QED BY FilledType
<1>3. Argv(c, roots, in, extra) = x \o none
  <2> HIDE DEF slot
  <2> QED BY <1>1 DEF Argv
<1> HIDE DEF x, slot
<1>4. Argv(c, roots, in, extra) = x
  BY <1>2, <1>3, ConcatEmptySeq
<1> QED BY <1>4 DEF x, slot

\* A slot in a part is one in the whole.
LEMMA HasExtraConcat ==
  ASSUME NEW a \in Seq(Templates), NEW b \in Seq(Templates), HasExtra(a) \/ HasExtra(b)
  PROVE  HasExtra(a \o b)
<1> DEFINE c == a \o b
<1>1. /\ Len(c) = Len(a) + Len(b) /\ Len(a) \in Nat /\ Len(b) \in Nat
      /\ DOMAIN a = 1..Len(a) /\ DOMAIN b = 1..Len(b) /\ DOMAIN c = 1..Len(c)
  <2>1. Len(c) = Len(a) + Len(b) /\ c \in Seq(Templates)
    BY ConcatProperties
  <2> HIDE DEF c
  <2> QED BY <2>1, LenProperties
<1>2. /\ \A i \in 1..Len(a) : c[i] = a[i]
      /\ \A i \in 1..Len(b) : c[Len(a) + i] = b[i]
  BY ConcatAt
<1> HIDE DEF c
<1>3. CASE HasExtra(a)
  <2>1. PICK i \in DOMAIN a : a[i].kind = "extra"
    BY <1>3 DEF HasExtra
  <2>2. i \in DOMAIN c /\ c[i].kind = "extra"
    BY <2>1, <1>1, <1>2
  <2>3. HasExtra(c)
    BY <2>2 DEF HasExtra
  <2> QED BY <2>3 DEF c
<1>4. CASE HasExtra(b)
  <2>1. PICK i \in DOMAIN b : b[i].kind = "extra"
    BY <1>4 DEF HasExtra
  <2> DEFINE k == Len(a) + i
  <2>2. k \in DOMAIN c
    BY <2>1, <1>1
  <2>3. c[k] = b[i]
    BY <2>1, <1>1, <1>2
  <2> HIDE DEF k
  <2>4. HasExtra(c)
    BY <2>1, <2>2, <2>3 DEF HasExtra
  <2> QED BY <2>4 DEF c
<1> QED BY <1>3, <1>4

LEMMA ExtraHasExtra == HasExtra(<<Extra>>)
<1> DEFINE t == Extra
           s == <<t>>
<1>1. t.kind = "extra"
  BY ExtraType
<1> HIDE DEF t
<1>2. 1 \in DOMAIN s /\ s[1] = t
  OBVIOUS
<1>3. s[1].kind = "extra"
  BY <1>1, <1>2
<1> HIDE DEF s
<1>4. HasExtra(s)
  BY <1>2, <1>3 DEF HasExtra
<1> QED BY <1>4 DEF s, t

\* What a CLI reads of a convention that says options only.
LEMMA ReadsOptions ==
  ASSUME NEW r, NEW roots, NEW in, NEW extra, NEW seg, NEW D,
         NEW none, none = <<>>, Given(r, none, roots, in, extra), Says(r, none, roots, in, extra, seg, D)
  PROVE  LET b == Filled(seg, "extra", roots, in, extra)
         IN  /\ b \in Seq(Args) /\ Calm(r, none, Read(r, b)) /\ Read(r, b).options = D
<1> DEFINE b == Filled(seg, "extra", roots, in, extra)
           x == none \o b
<1>1. Adds(r, none, b, D)
  BY DEF Says
<1>2. b \in Seq(Args)
  BY <1>1 DEF Adds
<1> HIDE DEF b
<1>3. x = b
  BY <1>2, ConcatEmptySeq
<1>4. none \in Seq(Args) /\ Calm(r, none, Read(r, none)) /\ Read(r, none).options = {}
  BY NoText, StartCalm
<1>5. Calm(r, none, Read(r, x)) /\ Read(r, x).options = {} \union D
  BY <1>1, <1>4 DEF Adds
<1> HIDE DEF x
<1>6. Calm(r, none, Read(r, b)) /\ Read(r, b).options = D
  BY <1>3, <1>5
<1> QED BY <1>2, <1>6 DEF b

\* A subcommand in front.
LEMMA ReadsAfterWord ==
  ASSUME NEW r, NEW roots, NEW in, NEW extra, NEW seg, NEW D,
         NEW word, <<word>> \in Args, word \notin Dashed,
         NEW ws, ws = << <<word>> >>,
         Given(r, ws, roots, in, extra), Says(r, ws, roots, in, extra, seg, D)
  PROVE  LET b == Filled(Lits(<<word>>) \o seg, "extra", roots, in, extra)
         IN  /\ Lits(<<word>>) \o seg \in Seq(Templates)
             /\ b \in Seq(Args) /\ Calm(r, ws, Read(r, b)) /\ Read(r, b).options = D
<1> DEFINE slot == "extra"
           w == <<word>>
           first == Lits(w)
           all == first \o seg
           b == Filled(all, slot, roots, in, extra)
           c == Filled(seg, slot, roots, in, extra)
           x == <<w>>
           y == x \o c
<1>1. /\ Adds(r, ws, c, D) /\ seg \in Seq(Templates) /\ roots \in Paths /\ in \in Inputs /\ extra \in Seq(Args)
      /\ r \in CLIs
  BY DEF Says, Given
<1>2. first = <<Lit(w)>>
  BY LitsOne
<1>3. first \in Seq(Templates) /\ Filled(first, slot, roots, in, extra) = x
  <2>1. <<Lit(w)>> \in Seq(Templates) /\ Filled(<<Lit(w)>>, slot, roots, in, extra) = <<w>>
    <3> HIDE DEF w
    <3> QED BY <1>1, FilledLit DEF w
  <2> QED BY <2>1, <1>2
<1>4. x = ws /\ x \in Seq(Args)
  <2> HIDE DEF w
  <2> QED BY OneOrTwo DEF w
<1>5. Calm(r, ws, Read(r, x)) /\ Read(r, x).options = {}
  BY <1>1, <1>4, WordCalm
<1> HIDE DEF x, first, slot, w
<1>6. all \in Seq(Templates)
  BY <1>1, <1>3, ConcatProperties
<1>7. b = x \o c
  <2>1. Filled(first \o seg, slot, roots, in, extra) = Filled(first, slot, roots, in, extra) \o c
    BY <1>1, <1>3, FilledConcat, ZenonT(30)
  <2> QED BY <2>1, <1>3
<1> HIDE DEF c, b, all
<1>8. Calm(r, ws, Read(r, y)) /\ Read(r, y).options = {} \union D
  BY <1>1, <1>4, <1>5 DEF Adds
<1>9. y \in Seq(Args)
  BY <1>1, <1>4, ConcatProperties DEF Adds
<1> HIDE DEF y
<1>10. b = y
  BY <1>7 DEF y
<1>11. b \in Seq(Args) /\ Calm(r, ws, Read(r, b)) /\ Read(r, b).options = D
  BY <1>8, <1>9, <1>10
<1> QED BY <1>6, <1>11 DEF b, all, first, w, slot

\* The prompt behind "--" leaves the CLI calm.
LEMMA CalmPrompt ==
  ASSUME NEW r \in CLIs, NEW ws, NEW b \in Seq(Args), Calm(r, ws, Read(r, b)), NEW text \in Args
  PROVE  Reads(r, b \o << <<"--">>, text >>, Read(r, b).options, ws, <<text>>)
<1> DEFINE D == Read(r, b).options
<1>1. /\ Read(r, b) \in ReadState /\ Read(r, b).words = ws /\ Read(r, b).text = <<>>
      /\ Read(r, b).ended = FALSE /\ Read(r, b).wants = "" /\ Read(r, b).bad = FALSE
  BY DEF Calm
<1>2. Read(r, b).options = D
  OBVIOUS
<1> HIDE DEF D
<1>3. Reads(r, b \o << <<"--">>, text >>, D, ws, <<text>>)
  BY <1>1, <1>2, ReadsPrompt
<1> QED BY <1>3 DEF D

\* The text a prompt template gives: the turn's, or the system prompt and it.
TextGiven(t, in) == IF t.system THEN PrefixSystem(in.prompt, in.system) ELSE in.prompt

\* The prompt's text is an argument.
LEMMA TextGivenType == \A t, in : in \in Inputs => TextGiven(t, in) \in Args
  BY PrefixType DEF TextGiven, Inputs

LEMMA PromptTypes ==
  /\ Prompt \in Templates /\ Prompt.kind = "prompt" /\ Prompt.omit = FALSE /\ Prompt.system = FALSE
  /\ Prompt.firstOnly = FALSE
  /\ WithSystem(Prompt) \in Templates /\ WithSystem(Prompt).kind = "prompt" /\ WithSystem(Prompt).omit = FALSE
  /\ WithSystem(Prompt).system = TRUE /\ WithSystem(Prompt).firstOnly = FALSE
<1> DEFINE k == "prompt"
           v == <<>>
           t == Template(k, v)
<1>1. k \in PieceKinds
  BY DEF PieceKinds
<1>2. v \in Args
  BY NoText
<1>3. t.kind = k /\ t.omit = FALSE /\ t.system = FALSE /\ t.firstOnly = FALSE
  BY DEF Template
<1>4. t \in Templates
  <2> HIDE DEF v, k
  <2> QED BY <1>1, <1>2, TemplateType
<1>5. Prompt = t
  BY DEF Prompt
<1> HIDE DEF t
<1>6. /\ WithSystem(t) \in Templates /\ WithSystem(t).kind = k /\ WithSystem(t).omit = FALSE
      /\ WithSystem(t).system = TRUE /\ WithSystem(t).firstOnly = FALSE
  BY <1>3, <1>4 DEF WithSystem, Templates
<1> QED BY <1>3, <1>4, <1>5, <1>6

\* The prompt template filled in.
LEMMA FilledPrompt ==
  ASSUME NEW roots \in Paths, NEW in \in Inputs, NEW extra \in Seq(Args),
         NEW t \in Templates, t.kind = "prompt", t.omit = FALSE, t.firstOnly = FALSE
  PROVE  Filled(<<t>>, "extra", roots, in, extra) = << <<"--">>, TextGiven(t, in) >>
<1> DEFINE slot == "extra"
           none == <<>>
           p == Piece(t, slot, roots, in, extra)
           w == ResolveTemplate(roots, t, in)
           text == TextGiven(t, in)
           b == << <<"--">>, text >>
<1>1. w = b
  BY DEF ResolveTemplate, TextGiven
<1>2. b \in Seq(Args)
  <2>1. text \in Args /\ <<"--">> \in Args
    BY TextGivenType, WordsAre
  <2> HIDE DEF text
  <2> QED BY <2>1, OneOrTwo
<1> HIDE DEF b, w
<1>3. p = none \o w
  BY DEF Piece, w
<1>4. p = w
  BY <1>1, <1>2, <1>3, ConcatEmptySeq
<1> HIDE DEF p, slot
<1>5. Filled(<<t>>, slot, roots, in, extra) = p
  BY FilledOne DEF p
<1>6. Filled(<<t>>, slot, roots, in, extra) = b
  BY <1>1, <1>4, <1>5
<1> QED BY <1>6 DEF b, slot

-----------------------------------------------------------------------------
(* The launch's directories, and the paths in its arguments. *)

\* A launch's config directory is its boot directory.
LaunchRoots == [Roots EXCEPT !["config"] = Roots["boot"]]

\* The roots of a launch are arguments.
LEMMA RootsAre ==
  /\ Roots \in Paths /\ LaunchRoots \in Paths /\ NoRoots \in Paths
  /\ Roots["boot"] = <<"/boot">> /\ Roots["project"] = <<"/project">> /\ Roots["config"] = <<>>
  /\ LaunchRoots["boot"] = Roots["boot"] /\ LaunchRoots["project"] = Roots["project"]
  /\ LaunchRoots["config"] = Roots["boot"]
  /\ \A k \in Root : NoRoots[k] = <<>>
  /\ Roots["boot"] \in Args /\ Roots["project"] \in Args
  /\ Roots["boot"] # <<>> /\ Roots["project"] # <<>>
  /\ Roots["boot"][1] \notin Dashed /\ Roots["project"][1] \notin Dashed
<1> DEFINE none == <<>>
           boot == <<"/boot">>
           project == <<"/project">>
<1>1. none \in Args /\ boot \in Args /\ project \in Args /\ boot # <<>> /\ project # <<>>
  BY NoText, WordsAre
<1>2. boot[1] \notin Dashed /\ project[1] \notin Dashed
  BY DEF Dashed, Switches, Valued, Lists, Inline, StrictFlag, SkipFlag
<1>3. none = <<>>
  OBVIOUS
<1>4. Roots = [NoRoots EXCEPT !["boot"] = boot, !["project"] = project]
  BY DEF Roots
<1>5. NoRoots = [k \in Root |-> none]
  BY DEF NoRoots
<1> HIDE DEF none, boot, project
<1>6. "boot" \in Root /\ "project" \in Root /\ "config" \in Root
  BY DEF Root
<1>7. /\ Roots \in Paths /\ LaunchRoots \in Paths /\ NoRoots \in Paths
      /\ Roots["boot"] = boot /\ Roots["project"] = project /\ Roots["config"] = none
      /\ LaunchRoots["boot"] = Roots["boot"] /\ LaunchRoots["project"] = Roots["project"]
      /\ LaunchRoots["config"] = Roots["boot"]
      /\ \A k \in Root : NoRoots[k] = none
  BY <1>1, <1>4, <1>5, <1>6 DEF LaunchRoots, Paths
<1> QED BY <1>1, <1>2, <1>3, <1>7 DEF boot, project, none

\* LayoutPaths writes path templates.
LEMMA PathArgIsPath ==
  ASSUME NEW kind \in {"file", "root"}, NEW e
  PROVE  IsPath(PathArg(kind, e), e.flag, e.root, e.rel)
<1> DEFINE t == PathArg(kind, e)
<1>1. t = [Template(kind, <<e.flag>>) EXCEPT !.root = e.root, !.rel = e.rel, !.omit = TRUE]
  BY DEF PathArg
<1>2. t.kind = kind
  BY DEF PathArg, Template
<1> HIDE DEF t
<1>3. IsPath(t, e.flag, e.root, e.rel)
  BY <1>1, <1>2 DEF IsPath
<1> QED BY <1>3 DEF t

\* The path a template names.
LEMMA FilledPath ==
  ASSUME NEW roots \in Paths, NEW in \in Inputs, NEW extra \in Seq(Args), NEW t, NEW flag,
         NEW root \in Root, NEW rel \in Parts,
         IsPath(t, flag, root, rel), <<flag>> \in Args, roots[root] # <<>>
  PROVE  /\ <<t>> \in Seq(Templates)
         /\ Filled(<<t>>, "extra", roots, in, extra) = << <<flag>>, PathUnder(roots, root, rel) >>
<1> DEFINE slot == "extra"
           none == <<>>
           f == <<flag>>
           v == PathUnder(roots, root, rel)
           p == Piece(t, slot, roots, in, extra)
           w == ResolveTemplate(roots, t, in)
           b == <<f, v>>
<1>1. t \in Templates /\ w = b /\ v \in Args
  BY PathFilled
<1>2. b \in Seq(Args)
  <2> HIDE DEF v, f
  <2> QED BY <1>1, OneOrTwo DEF f
<1>3. t.kind # slot
  BY DEF IsPath
<1> HIDE DEF w, b
<1>4. p = none \o w
  BY <1>3 DEF Piece, w
<1>5. p = w
  BY <1>1, <1>2, <1>4, ConcatEmptySeq
<1> HIDE DEF p, slot
<1>6. Filled(<<t>>, slot, roots, in, extra) = p
  BY <1>1, FilledOne DEF p
<1>7. Filled(<<t>>, slot, roots, in, extra) = b
  BY <1>1, <1>5, <1>6
<1>8. <<t>> \in Seq(Templates)
  BY <1>1, OneTemplate
<1> QED BY <1>7, <1>8 DEF b, slot, f, v

LEMMA PathUnderIs ==
  ASSUME NEW roots \in Paths, NEW root \in Root
  PROVE  /\ PathUnder(roots, root, "") = roots[root]
         /\ \A rel : rel # "" => PathUnder(roots, root, rel) = roots[root] \o <<rel>>
<1>1. roots[root] \in Args
  BY DEF Paths
<1>2. roots[root] \o <<>> = roots[root]
  BY <1>1, ConcatEmptySeq DEF Args
<1> QED BY <1>2 DEF PathUnder

\* A part filled in is its pieces joined.
LEMMA FlatOne == ASSUME NEW T, NEW x \in Seq(T) PROVE Flat(<<x>>) = x
<1> DEFINE none == <<>>
           S == Seq(T)
<1>1. none \in Seq(S) /\ none \in Seq(T)
  BY EmptySeq
<1>2. Flat(none) = none
  BY FlatEmpty
<1>3. Append(none, x) = <<x>>
  BY OneIsAppend
<1>4. none = <<>>
  OBVIOUS
<1> HIDE DEF none, S
<1>5. Flat(Append(none, x)) = Flat(none) \o x
  BY <1>1, FlatAppend DEF S
<1>6. <<>> \o x = x
  BY ConcatEmptySeq
<1> QED BY <1>2, <1>3, <1>4, <1>5, <1>6

\* Two parts of a convention that give the same arguments, one over the boot
\* directory's layout, one over the adapter's fields.
Alike(in, extra, x, y) ==
  /\ x \in Seq(Templates) /\ y \in Seq(Templates)
  /\ Filled(x, "extra", LaunchRoots, in, extra) = Filled(y, "extra", NoRoots, in, extra)

\* Parts that give the same are put together to parts that give the same.
LEMMA AlikeNothing == \A in, extra : Alike(in, extra, <<>>, <<>>)
  BY FilledEmpty, EmptySeq DEF Alike

LEMMA AlikeBoth ==
  ASSUME NEW in \in Inputs, NEW extra \in Seq(Args), NEW a, NEW b, NEW c, NEW d,
         Alike(in, extra, a, b), Alike(in, extra, c, d)
  PROVE  Alike(in, extra, a \o c, b \o d)
<1> DEFINE slot == "extra"
           F(x) == Filled(x, slot, LaunchRoots, in, extra)
           G(x) == Filled(x, slot, NoRoots, in, extra)
<1>1. /\ a \in Seq(Templates) /\ b \in Seq(Templates) /\ c \in Seq(Templates) /\ d \in Seq(Templates)
  BY DEF Alike
<1>7. F(a) = G(b) /\ F(c) = G(d)
  BY DEF Alike
<1>2. a \o c \in Seq(Templates) /\ b \o d \in Seq(Templates)
  BY <1>1, ConcatProperties
<1> HIDE DEF slot
<1>6. LaunchRoots \in Paths /\ NoRoots \in Paths
  BY RootsAre
<1>8. \A roots \in Paths : \A x, y \in Seq(Templates) :
        Filled(x \o y, slot, roots, in, extra) = Filled(x, slot, roots, in, extra) \o Filled(y, slot, roots, in, extra)
  BY FilledConcat
<1>3. F(a \o c) = F(a) \o F(c)
  BY <1>1, <1>6, <1>8
<1>4. G(b \o d) = G(b) \o G(d)
  BY <1>1, <1>6, <1>8
<1>5. F(a \o c) = G(b \o d)
  <2> HIDE DEF F, G
  <2> QED BY <1>7, <1>3, <1>4
<1> QED BY <1>2, <1>5 DEF Alike, slot

\* A template that names no path is the same in both.
LEMMA AlikeRootless ==
  ASSUME NEW in, NEW extra, NEW x \in Seq(Templates),
         \A i \in DOMAIN x : x[i].kind \notin {"file", "root"}
  PROVE  Alike(in, extra, x, x)
<1> DEFINE slot == "extra"
           P(roots, t) == Piece(t, slot, roots, in, extra)
<1>1. ASSUME NEW i \in DOMAIN x PROVE P(LaunchRoots, x[i]) = P(NoRoots, x[i])
  <2> DEFINE t == x[i]
  <2>1. t \in Templates
    BY ElementOfSeq, LenProperties
  <2>2. t.kind \in PieceKinds /\ t.kind \notin {"file", "root"}
    BY <2>1 DEF Templates
  <2> HIDE DEF t
  <2>3. ResolveTemplate(LaunchRoots, t, in) = ResolveTemplate(NoRoots, t, in) \/ t.kind = "extra"
    BY <2>2 DEF ResolveTemplate, PieceKinds
  <2>4. P(LaunchRoots, t) = P(NoRoots, t)
    BY <2>3 DEF Piece
  <2> QED BY <2>4 DEF t
<1>2. [i \in DOMAIN x |-> P(LaunchRoots, x[i])] = [i \in DOMAIN x |-> P(NoRoots, x[i])]
  <2> HIDE DEF P
  <2> QED BY <1>1
<1>3. Filled(x, slot, LaunchRoots, in, extra) = Filled(x, slot, NoRoots, in, extra)
  BY <1>2 DEF Filled
<1> QED BY <1>3 DEF Alike

\* An argument that names a path under a root, and the flag with that path.
LEMMA PathPart ==
  ASSUME NEW r, NEW ws, NEW in, NEW extra,
         Given(r, ws, LaunchRoots, in, extra), NEW kind \in {"file", "root"}, NEW e, NEW flag, e.flag = flag,
         e.root \in {"boot", "project"}, e.rel \in Parts,
         NEW v, v = PathUnder(LaunchRoots, e.root, e.rel), v \in Args, v # <<>>, v[1] \notin Dashed,
         flag \in Valued(r) \/ (r = "claude" /\ flag \in Lists(r))
  PROVE  /\ Says(r, ws, LaunchRoots, in, extra, <<PathArg(kind, e)>>, {<<flag, v>>})
         /\ Says(r, ws, NoRoots, in, extra, FieldArg(flag, v), {<<flag, v>>})
         /\ Alike(in, extra, <<PathArg(kind, e)>>, FieldArg(flag, v))
<1> DEFINE t == PathArg(kind, e)
           root == e.root
           rel == e.rel
<1>1. IsPath(t, flag, root, rel)
  BY PathArgIsPath
<1>2. /\ root \in Root /\ rel \in Parts /\ LaunchRoots[root] # <<>> /\ LaunchRoots[root][1] \notin Dashed
      /\ LaunchRoots \in Paths /\ NoRoots \in Paths
  BY RootsAre DEF Root
<1>3. in \in Inputs /\ extra \in Seq(Args) /\ r \in CLIs /\ Open(r, ws)
  BY DEF Given
<1>4. <<flag>> \in Args
  BY <1>3, Flags, OneText
<1> HIDE DEF t, root, rel
<1>5. Says(r, ws, LaunchRoots, in, extra, <<t>>, {<<flag, v>>})
  BY <1>1, <1>2, SaysPath DEF root, rel
<1>6. Given(r, ws, NoRoots, in, extra)
  BY <1>2, <1>3 DEF Given
<1>7. Says(r, ws, NoRoots, in, extra, FieldArg(flag, v), {<<flag, v>>})
  <2>1. OptionOf(flag, v) = {<<flag, v>>}
    BY DEF OptionOf
  <2>2. CASE flag \in Valued(r)
    <3>1. Says(r, ws, NoRoots, in, extra, FieldArg(flag, v), OptionOf(flag, v))
      BY <2>2, <1>6, SaysField
    <3> QED BY <2>1, <3>1
  <2>3. CASE r = "claude" /\ flag \in Lists(r)
    <3>1. Says("claude", ws, NoRoots, in, extra, FieldArg(flag, v), OptionOf(flag, v))
      BY <2>3, <1>6, SaysFieldListed
    <3> QED BY <2>1, <2>3, <3>1
  <2> QED BY <2>2, <2>3
<1>8. Alike(in, extra, <<t>>, FieldArg(flag, v))
  <2> DEFINE f == <<flag>>
             slot == "extra"
             y == <<Lit(f), Lit(v)>>
  <2>1. FieldArg(flag, v) = y
    BY DEF FieldArg
  <2>2. y \in Seq(Templates) /\ Filled(y, slot, NoRoots, in, extra) = <<f, v>>
    <3> HIDE DEF f
    <3> QED BY <1>2, <1>3, <1>4, FilledLits DEF f
  <2>3. <<t>> \in Seq(Templates) /\ Filled(<<t>>, slot, LaunchRoots, in, extra) = <<f, v>>
    BY <1>1, <1>2, <1>3, <1>4, FilledPath DEF root, rel
  <2> HIDE DEF y
  <2> QED BY <2>1, <2>2, <2>3 DEF Alike
<1> QED BY <1>5, <1>7, <1>8 DEF t

\* The project's directory from the layout and from the field.
LEMMA ProjectField ==
  ASSUME NEW r, NEW s, HasRow(r, s, "project-dir"), NEW flag, Find(r, s, "project-dir").flag = flag,
         <<flag>> \in Args, NEW v \in Args
  PROVE  FieldProjectDirs(r, s, <<v>>) = FieldArg(flag, v)
<1> DEFINE x == FieldArg(flag, v)
           dirs == <<v>>
<1>1. x \in Seq(Templates)
  <2>1. Lit(<<flag>>) \in Templates /\ Lit(v) \in Templates
    BY LitType
  <2> DEFINE m == Lit(<<flag>>)
             n == Lit(v)
  <2>2. x = <<>> \/ x = <<m, n>>
    BY DEF FieldArg
  <2> HIDE DEF m, n, x
  <2>3. <<m, n>> \in Seq(Templates)
    BY <2>1, TwoIn DEF m, n
  <2> QED BY <2>2, <2>3, EmptySeq
<1>2. FieldProjectDirs(r, s, dirs) = Flat([i \in DOMAIN dirs |-> FieldArg(flag, dirs[i])])
  BY DEF FieldProjectDirs
<1>3. [i \in DOMAIN dirs |-> FieldArg(flag, dirs[i])] = <<x>>
  <2> DEFINE F(w) == FieldArg(flag, w)
  <2>1. [i \in DOMAIN dirs |-> F(dirs[i])] = <<F(v)>>
    <3> HIDE DEF F
    <3> QED OBVIOUS
  <2> QED BY <2>1
<1> HIDE DEF x
<1>4. Flat(<<x>>) = x
  BY <1>1, FlatOne
<1> QED BY <1>2, <1>3, <1>4 DEF x

-----------------------------------------------------------------------------
(* The rows the arguments come from. *)
LEMMA ArgumentRows ==
  /\ Table[2].flag = "--append-system-prompt-file" /\ Table[2].root = "boot" /\ Table[2].rel = "CLAUDE.md"
  /\ Table[4].flag = "--mcp-config" /\ Table[4].root = "boot" /\ Table[4].rel = ".mcp.json"
  /\ Table[6].flag = "--settings" /\ Table[6].root = "boot" /\ Table[6].rel = ".claude/settings.json"
  /\ Table[8].flag = "--add-dir" /\ Table[8].root = "boot" /\ Table[8].rel = ".claude/skills"
  /\ Table[9].flag = "--add-dir" /\ Table[9].root = "project" /\ Table[9].rel = ""
  /\ Table[16].flag = "--cd" /\ Table[16].root = "project" /\ Table[16].rel = ""
  /\ Table[23].flag = "--dir" /\ Table[23].root = "project" /\ Table[23].rel = ""
  /\ Table[24].flag = "serve" /\ Table[24].root = "project" /\ Table[24].rel = ""
  /\ Table[30].flag = "--add-dir" /\ Table[30].root = "project" /\ Table[30].rel = ""
<1>1. Table[2].flag = "--append-system-prompt-file" /\ Table[2].root = "boot" /\ Table[2].rel = "CLAUDE.md"
  BY ClaudeTable, Zenon DEF RowIs
<1>2. Table[4].flag = "--mcp-config" /\ Table[4].root = "boot" /\ Table[4].rel = ".mcp.json"
  BY ClaudeTable, Zenon DEF RowIs
<1>3. Table[6].flag = "--settings" /\ Table[6].root = "boot" /\ Table[6].rel = ".claude/settings.json"
  BY ClaudeTable, Zenon DEF RowIs
<1>4. Table[8].flag = "--add-dir" /\ Table[8].root = "boot" /\ Table[8].rel = ".claude/skills"
  BY ClaudeTable, Zenon DEF RowIs
<1>5. Table[9].flag = "--add-dir" /\ Table[9].root = "project" /\ Table[9].rel = ""
  BY ClaudeTable, Zenon DEF RowIs
<1>6. Table[16].flag = "--cd" /\ Table[16].root = "project" /\ Table[16].rel = ""
  BY CodexTable, Zenon DEF RowIs
<1>7. Table[23].flag = "--dir" /\ Table[23].root = "project" /\ Table[23].rel = ""
  BY OpencodeTable, Zenon DEF RowIs
<1>8. Table[24].flag = "serve" /\ Table[24].root = "project" /\ Table[24].rel = ""
  BY OpencodeTable, Zenon DEF RowIs
<1>9. Table[30].flag = "--add-dir" /\ Table[30].root = "project" /\ Table[30].rel = ""
  BY AntigravityTable, Zenon DEF RowIs
<1> QED BY <1>1, <1>2, <1>3, <1>4, <1>5, <1>6, <1>7, <1>8, <1>9, Zenon

-----------------------------------------------------------------------------
(* The path arguments of each runtime. *)

\* What Claude's path arguments say: dir is where its skills are.
ClaudeSaid(s, dir) ==
  [mcp |-> {<<"--mcp-config", Roots["boot"] \o <<".mcp.json">>>>},
   projectDirs |-> {<<"--add-dir", Roots["project"]>>},
   instructions |-> IF s = Bare THEN {<<"--append-system-prompt-file", Roots["boot"] \o <<"CLAUDE.md">>>>} ELSE {},
   settings |-> IF s = Bare THEN {<<"--settings", Roots["boot"] \o <<".claude/settings.json">>>>} ELSE {},
   skillsDir |-> IF s = Bare THEN OptionOf("--add-dir", dir) ELSE {}]

\* Every path argument of Claude says what is meant, field by field.
SaysPaths(roots, in, extra, p, said) ==
  /\ Says("claude", <<>>, roots, in, extra, p.mcp, said.mcp)
  /\ Says("claude", <<>>, roots, in, extra, p.projectDirs, said.projectDirs)
  /\ Says("claude", <<>>, roots, in, extra, p.instructions, said.instructions)
  /\ Says("claude", <<>>, roots, in, extra, p.settings, said.settings)
  /\ Says("claude", <<>>, roots, in, extra, p.skillsDir, said.skillsDir)

\* Every path argument of Claude is the same by layout and by field.
AlikePaths(in, extra, p, q) ==
  /\ Alike(in, extra, p.mcp, q.mcp)
  /\ Alike(in, extra, p.projectDirs, q.projectDirs)
  /\ Alike(in, extra, p.instructions, q.instructions)
  /\ Alike(in, extra, p.settings, q.settings)
  /\ Alike(in, extra, p.skillsDir, q.skillsDir)

\* Files of the boot directory.
LEMMA BootFile ==
  ASSUME NEW rel \in Parts, rel # ""
  PROVE  LET v == Roots["boot"] \o <<rel>>
         IN  v = PathUnder(LaunchRoots, "boot", rel) /\ v \in Args /\ v # <<>> /\ v[1] \notin Dashed
<1> DEFINE x == Roots["boot"]
           y == <<rel>>
           v == x \o y
<1>1. x \in Args /\ x # <<>> /\ x[1] \notin Dashed /\ LaunchRoots["boot"] = x /\ LaunchRoots \in Paths
  BY RootsAre
<1>2. y \in Args
  BY OneText
<1>3. "boot" \in Root
  BY DEF Root
<1>4. PathUnder(LaunchRoots, "boot", rel) = LaunchRoots["boot"] \o y
  BY <1>1, <1>3, PathUnderIs
<1> HIDE DEF x, y
<1>5. v[1] = x[1] /\ v # <<>>
  BY <1>1, <1>2, HeadOfConcat DEF Args
<1>6. v \in Args
  BY <1>1, <1>2, ArgsConcat
<1>7. v = PathUnder(LaunchRoots, "boot", rel)
  BY <1>1, <1>4
<1>8. v[1] \notin Dashed
  BY <1>1, <1>5
<1> HIDE DEF v
<1>9. v = PathUnder(LaunchRoots, "boot", rel) /\ v \in Args /\ v # <<>> /\ v[1] \notin Dashed
  BY <1>5, <1>6, <1>7, <1>8
<1> QED BY <1>9 DEF v, x, y

LEMMA RootPath ==
  ASSUME NEW root \in {"boot", "project"}
  PROVE  LET v == Roots[root]
         IN  v = PathUnder(LaunchRoots, root, "") /\ v \in Args /\ v # <<>> /\ v[1] \notin Dashed
<1>1. root \in Root
  BY DEF Root
<1>2. LaunchRoots \in Paths /\ LaunchRoots[root] = Roots[root] /\ Roots[root] \in Args
  BY RootsAre
<1>3. Roots[root] # <<>> /\ Roots[root][1] \notin Dashed
  BY RootsAre
<1>4. PathUnder(LaunchRoots, root, "") = LaunchRoots[root]
  BY <1>1, <1>2, PathUnderIs
<1> QED BY <1>2, <1>3, <1>4

\* The boot directory as a place for skills.
LEMMA SkillsTemplate ==
  ASSUME NEW e, NEW flag, e.flag = flag
  PROVE  [Template("root", <<flag>>) EXCEPT !.root = "boot", !.omit = TRUE]
           = PathArg("root", [flag |-> flag, root |-> "boot", rel |-> ""])
<1> DEFINE k == [flag |-> flag, root |-> "boot", rel |-> ""]
           t == Template("root", <<flag>>)
<1>1. k.flag = flag /\ k.root = "boot" /\ k.rel = t.rel
  BY DEF Template
<1>2. PathArg("root", k) = [t EXCEPT !.root = "boot", !.rel = t.rel, !.omit = TRUE]
  <2> HIDE DEF k
  <2> QED BY <1>1 DEF PathArg
<1>3. t = [kind |-> t.kind, value |-> t.value, root |-> t.root, rel |-> t.rel, omit |-> t.omit,
           system |-> t.system, firstOnly |-> t.firstOnly]
  BY DEF Template
<1> HIDE DEF t
<1>4. [t EXCEPT !.root = "boot", !.rel = t.rel, !.omit = TRUE] = [t EXCEPT !.root = "boot", !.omit = TRUE]
  BY <1>3
<1> QED BY <1>2, <1>4 DEF t, k

\* Claude's path arguments, in every shape, say where its files are.
LEMMA ClaudePathsSaid ==
  ASSUME NEW s, s = Bare \/ s = Plain(s.mode), NEW withSkills \in BOOLEAN, NEW dir,
         dir = IF withSkills THEN Roots["boot"] ELSE <<>>,
         NEW in, NEW extra, Given("claude", <<>>, LaunchRoots, in, extra),
         NEW b, b.mcpConfig = Roots["boot"] \o <<".mcp.json">>, b.promptFile = Roots["boot"] \o <<"CLAUDE.md">>,
         b.settings = Roots["boot"] \o <<".claude/settings.json">>, b.projectDirs = <<Roots["project"]>>,
         b.skillsDir = dir
  PROVE  /\ SaysPaths(LaunchRoots, in, extra, ClaudeLayoutPaths(s, withSkills), ClaudeSaid(s, dir))
         /\ SaysPaths(NoRoots, in, extra, ClaudeFieldPaths(b, s), ClaudeSaid(s, dir))
         /\ AlikePaths(in, extra, ClaudeLayoutPaths(s, withSkills), ClaudeFieldPaths(b, s))
<1> DEFINE r == "claude"
           none == <<>>
           p == ClaudeLayoutPaths(s, withSkills)
           q == ClaudeFieldPaths(b, s)
           said == ClaudeSaid(s, dir)
           Part(x, y, D) == /\ Says(r, none, LaunchRoots, in, extra, x, D)
                            /\ Says(r, none, NoRoots, in, extra, y, D)
                            /\ Alike(in, extra, x, y)
<1>1. Given(r, none, LaunchRoots, in, extra)
  OBVIOUS
<1>2. NoRoots \in Paths /\ LaunchRoots \in Paths
  BY RootsAre
<1>3. \A x, y, D : x = <<>> /\ y = <<>> /\ D = {} => Part(x, y, D)
  BY SaysNothing, AlikeNothing
<1>4. /\ "--mcp-config" \in Lists(r) /\ "--add-dir" \in Lists(r)
      /\ "--append-system-prompt-file" \in Valued(r) /\ "--settings" \in Valued(r)
  BY DEF Lists, Valued
<1>5. /\ ".mcp.json" \in Parts /\ "CLAUDE.md" \in Parts /\ ".claude/settings.json" \in Parts /\ "" \in Parts
  BY LiteralsAre
<1> HIDE DEF Part, none
<1>6. Part(p.mcp, q.mcp, said.mcp)
  <2> DEFINE e == Find(r, s, "mcp")
             v == Roots["boot"] \o <<".mcp.json">>
             flag == "--mcp-config"
  <2>1. e.flag = flag /\ e.root = "boot" /\ e.rel = ".mcp.json"
    <3>1. e = Table[4]
      BY GeneralRows
    <3> QED BY <3>1, ArgumentRows, Zenon
  <2>2. v = PathUnder(LaunchRoots, "boot", ".mcp.json") /\ v \in Args /\ v # <<>> /\ v[1] \notin Dashed
    BY <1>5, BootFile
  <2>3. p.mcp = <<PathArg("file", e)>> /\ q.mcp = FieldArg(flag, v) /\ said.mcp = {<<flag, v>>}
    BY <2>1 DEF ClaudeLayoutPaths, ClaudeFieldPaths, ClaudeSaid, LayoutFileArg
  <2> HIDE DEF v, e, flag, p, q, said
  <2>4. /\ Says(r, none, LaunchRoots, in, extra, <<PathArg("file", e)>>, {<<flag, v>>})
        /\ Says(r, none, NoRoots, in, extra, FieldArg(flag, v), {<<flag, v>>})
        /\ Alike(in, extra, <<PathArg("file", e)>>, FieldArg(flag, v))
    <3>1. flag \in Lists(r)
      BY <1>4 DEF flag
    <3> QED BY <3>1, <2>1, <2>2, <1>1, <1>5, PathPart
  <2> QED BY <2>3, <2>4 DEF Part
<1>7. Part(p.projectDirs, q.projectDirs, said.projectDirs)
  <2> DEFINE e == Find(r, s, "project-dir")
             v == Roots["project"]
             flag == "--add-dir"
  <2>1. e.flag = flag /\ e.root = "project" /\ e.rel = "" /\ HasRow(r, s, "project-dir")
    <3>1. e = Table[9] /\ HasRow(r, s, "project-dir")
      BY GeneralRows
    <3> QED BY <3>1, ArgumentRows, Zenon
  <2>2. v = PathUnder(LaunchRoots, "project", "") /\ v \in Args /\ v # <<>> /\ v[1] \notin Dashed
    BY RootPath
  <2>3. p.projectDirs = <<PathArg("root", e)>> /\ said.projectDirs = {<<flag, v>>}
    BY <2>1 DEF ClaudeLayoutPaths, ClaudeSaid, LayoutProjectDirs
  <2>5. q.projectDirs = FieldProjectDirs(r, s, <<v>>)
    BY DEF ClaudeFieldPaths
  <2>6. <<flag>> \in Args
    BY WordsAre
  <2> HIDE DEF v, e, flag, p, q, said
  <2>7. FieldProjectDirs(r, s, <<v>>) = FieldArg(flag, v)
    BY <2>1, <2>2, <2>6, ProjectField DEF e
  <2>4. /\ Says(r, none, LaunchRoots, in, extra, <<PathArg("root", e)>>, {<<flag, v>>})
        /\ Says(r, none, NoRoots, in, extra, FieldArg(flag, v), {<<flag, v>>})
        /\ Alike(in, extra, <<PathArg("root", e)>>, FieldArg(flag, v))
    <3>1. flag \in Lists(r)
      BY <1>4 DEF flag
    <3> QED BY <3>1, <2>1, <2>2, <1>1, <1>5, PathPart
  <2> QED BY <2>3, <2>4, <2>5, <2>7 DEF Part
<1>8. Part(p.instructions, q.instructions, said.instructions)
  <2>1. CASE s # Bare
    <3>1. p.instructions = <<>> /\ q.instructions = <<>> /\ said.instructions = {}
      BY <2>1 DEF ClaudeLayoutPaths, ClaudeFieldPaths, ClaudeSaid
    <3> QED BY <3>1, <1>3
  <2>2. CASE s = Bare
    <3> DEFINE e == Find(r, s, "instructions")
               v == Roots["boot"] \o <<"CLAUDE.md">>
               flag == "--append-system-prompt-file"
    <3>1. e.flag = flag /\ e.root = "boot" /\ e.rel = "CLAUDE.md"
      <4>1. e = Table[2]
        BY <2>2, ClaudeRowsOf
      <4> QED BY <4>1, ArgumentRows, Zenon
    <3>2. v = PathUnder(LaunchRoots, "boot", "CLAUDE.md") /\ v \in Args /\ v # <<>> /\ v[1] \notin Dashed
      BY <1>5, BootFile
    <3>3. p.instructions = <<PathArg("file", e)>> /\ q.instructions = FieldArg(flag, v) /\ said.instructions = {<<flag, v>>}
      BY <2>2, <3>1 DEF ClaudeLayoutPaths, ClaudeFieldPaths, ClaudeSaid, LayoutFileArg
    <3> HIDE DEF v, e, flag, p, q, said
    <3>4. /\ Says(r, none, LaunchRoots, in, extra, <<PathArg("file", e)>>, {<<flag, v>>})
          /\ Says(r, none, NoRoots, in, extra, FieldArg(flag, v), {<<flag, v>>})
          /\ Alike(in, extra, <<PathArg("file", e)>>, FieldArg(flag, v))
      <4>1. flag \in Valued(r)
        BY <1>4 DEF flag
      <4> QED BY <4>1, <3>1, <3>2, <1>1, <1>5, PathPart
    <3> QED BY <3>3, <3>4 DEF Part
  <2> QED BY <2>1, <2>2
<1>9. Part(p.settings, q.settings, said.settings)
  <2>1. CASE s # Bare
    <3>1. p.settings = <<>> /\ q.settings = <<>> /\ said.settings = {}
      BY <2>1 DEF ClaudeLayoutPaths, ClaudeFieldPaths, ClaudeSaid
    <3> QED BY <3>1, <1>3
  <2>2. CASE s = Bare
    <3> DEFINE e == Find(r, s, "native-config")
               v == Roots["boot"] \o <<".claude/settings.json">>
               flag == "--settings"
    <3>1. e.flag = flag /\ e.root = "boot" /\ e.rel = ".claude/settings.json"
      <4>1. e = Table[6]
        BY <2>2, ClaudeRowsOf
      <4> QED BY <4>1, ArgumentRows, Zenon
    <3>2. v = PathUnder(LaunchRoots, "boot", ".claude/settings.json") /\ v \in Args /\ v # <<>> /\ v[1] \notin Dashed
      BY <1>5, BootFile
    <3>3. p.settings = <<PathArg("file", e)>> /\ q.settings = FieldArg(flag, v) /\ said.settings = {<<flag, v>>}
      BY <2>2, <3>1 DEF ClaudeLayoutPaths, ClaudeFieldPaths, ClaudeSaid, LayoutFileArg
    <3> HIDE DEF v, e, flag, p, q, said
    <3>4. /\ Says(r, none, LaunchRoots, in, extra, <<PathArg("file", e)>>, {<<flag, v>>})
          /\ Says(r, none, NoRoots, in, extra, FieldArg(flag, v), {<<flag, v>>})
          /\ Alike(in, extra, <<PathArg("file", e)>>, FieldArg(flag, v))
      <4>1. flag \in Valued(r)
        BY <1>4 DEF flag
      <4> QED BY <4>1, <3>1, <3>2, <1>1, <1>5, PathPart
    <3> QED BY <3>3, <3>4 DEF Part
  <2> QED BY <2>1, <2>2
<1>10. Part(p.skillsDir, q.skillsDir, said.skillsDir)
  <2>1. CASE s # Bare
    <3>1. p.skillsDir = <<>> /\ q.skillsDir = <<>> /\ said.skillsDir = {}
      BY <2>1 DEF ClaudeLayoutPaths, ClaudeFieldPaths, ClaudeSaid, SkillsDir
    <3> QED BY <3>1, <1>3
  <2>2. CASE s = Bare /\ ~withSkills
    <3>1. p.skillsDir = <<>> /\ said.skillsDir = OptionOf("--add-dir", dir)
      BY <2>2 DEF ClaudeLayoutPaths, ClaudeSaid, SkillsDir
    <3>2. q.skillsDir = FieldArg(Find("claude", s, "skills").flag, dir)
      BY <2>2 DEF ClaudeFieldPaths
    <3>3. dir = <<>>
      BY <2>2
    <3>4. q.skillsDir = <<>> /\ said.skillsDir = {}
      BY <3>1, <3>2, <3>3 DEF FieldArg, OptionOf
    <3> QED BY <3>1, <3>4, <1>3
  <2>3. CASE s = Bare /\ withSkills
    <3> DEFINE e == Find(r, s, "skills")
               v == Roots["boot"]
               flag == "--add-dir"
               k == [flag |-> flag, root |-> "boot", rel |-> ""]
    <3>1. e.flag = flag
      <4>1. e = Table[8]
        BY <2>3, ClaudeRowsOf
      <4> QED BY <4>1, ArgumentRows, Zenon
    <3>2. v = PathUnder(LaunchRoots, "boot", "") /\ v \in Args /\ v # <<>> /\ v[1] \notin Dashed
      BY RootPath
    <3>3. p.skillsDir = <<PathArg("root", k)>>
      <4>1. p.skillsDir = << [Template("root", <<flag>>) EXCEPT !.root = "boot", !.omit = TRUE] >>
        BY <2>3, <3>1 DEF ClaudeLayoutPaths, SkillsDir
      <4> QED BY <4>1, <3>1, SkillsTemplate, ZenonT(30)
    <3>5. dir = v /\ q.skillsDir = FieldArg(flag, dir) /\ said.skillsDir = OptionOf(flag, dir)
      BY <2>3, <3>1 DEF ClaudeFieldPaths, ClaudeSaid
    <3>6. said.skillsDir = {<<flag, v>>} /\ q.skillsDir = FieldArg(flag, v)
      BY <3>2, <3>5 DEF OptionOf
    <3>7. k.flag = flag /\ k.root = "boot" /\ k.rel = ""
      OBVIOUS
    <3> HIDE DEF v, e, flag, p, q, said, k
    <3>4. /\ Says(r, none, LaunchRoots, in, extra, <<PathArg("root", k)>>, {<<flag, v>>})
          /\ Says(r, none, NoRoots, in, extra, FieldArg(flag, v), {<<flag, v>>})
          /\ Alike(in, extra, <<PathArg("root", k)>>, FieldArg(flag, v))
      <4>1. flag \in Lists(r)
        BY <1>4 DEF flag
      <4> QED BY <4>1, <3>7, <3>2, <1>1, <1>5, PathPart
    <3> QED BY <3>3, <3>4, <3>6 DEF Part
  <2> QED BY <2>1, <2>2, <2>3
<1> HIDE DEF p, q, said
<1> QED BY <1>6, <1>7, <1>8, <1>9, <1>10 DEF Part, SaysPaths, AlikePaths, p, q, said, none

\* The flag each runtime takes the project's directory with.
ProjectFlag(r) == CASE r = "codex" -> "--cd" [] r = "opencode" -> "--dir" [] OTHER -> "--add-dir"

\* The project's directory, which a per-turn process alone is given.
ProjectSaid(r, s) == IF s.mode = PerTurn THEN {<<ProjectFlag(r), Roots["project"]>>} ELSE {}

\* The CLIs other than Claude name only the project's directory.
OtherCLIs == {"codex", "opencode", "antigravity"}

\* Which row that directory is found by.
LEMMA ProjectRows ==
  ASSUME NEW r \in OtherCLIs, NEW s, s = Plain(s.mode)
  PROVE  /\ HasRow(r, s, "project-dir") <=> s.mode = PerTurn
         /\ s.mode = PerTurn => Find(r, s, "project-dir") \in {Table[16], Table[23], Table[30]}
         /\ s.mode = PerTurn => Find(r, s, "project-dir").flag = ProjectFlag(r)
<1>1. CASE r = "codex"
  <2>1. ProjectFlag(r) = "--cd"
    BY <1>1 DEF ProjectFlag
  <2> QED BY <1>1, <2>1, ModeRows, ArgumentRows, Zenon
<1>2. CASE r = "opencode"
  <2>1. ProjectFlag(r) = "--dir"
    BY <1>2 DEF ProjectFlag
  <2> QED BY <1>2, <2>1, ModeRows, ArgumentRows, Zenon
<1>3. CASE r = "antigravity"
  <2>1. ProjectFlag(r) = "--add-dir"
    BY <1>3 DEF ProjectFlag
  <2> QED BY <1>3, <2>1, ModeRows, ArgumentRows, Zenon
<1> QED BY <1>1, <1>2, <1>3 DEF OtherCLIs

\* What the part that names it says.
LEMMA ProjectPart ==
  ASSUME NEW r \in OtherCLIs, NEW s, s = Plain(s.mode), NEW ws, NEW in, NEW extra,
         Given(r, ws, LaunchRoots, in, extra), NEW dirs, dirs = <<Roots["project"]>>
  PROVE  /\ Says(r, ws, LaunchRoots, in, extra, LayoutProjectDirs(r, s), ProjectSaid(r, s))
         /\ Says(r, ws, NoRoots, in, extra, FieldProjectDirs(r, s, dirs), ProjectSaid(r, s))
         /\ Alike(in, extra, LayoutProjectDirs(r, s), FieldProjectDirs(r, s, dirs))
<1> DEFINE x == LayoutProjectDirs(r, s)
           y == FieldProjectDirs(r, s, dirs)
           D == ProjectSaid(r, s)
<1>1. CASE s.mode # PerTurn
  <2>1. x = <<>> /\ y = <<>> /\ D = {}
    BY <1>1, ProjectRows DEF LayoutProjectDirs, FieldProjectDirs, ProjectSaid
  <2> HIDE DEF x, y, D
  <2>2. Says(r, ws, LaunchRoots, in, extra, x, D) /\ Says(r, ws, NoRoots, in, extra, y, D)
    BY <2>1, SaysNothing
  <2>3. Alike(in, extra, x, y)
    BY <2>1, AlikeNothing
  <2> QED BY <2>2, <2>3 DEF x, y, D
<1>2. CASE s.mode = PerTurn
  <2> DEFINE e == Find(r, s, "project-dir")
             v == Roots["project"]
             flag == ProjectFlag(r)
  <2>1. e.flag = flag /\ HasRow(r, s, "project-dir") /\ e \in {Table[16], Table[23], Table[30]}
    BY <1>2, ProjectRows
  <2>2. e.root = "project" /\ e.rel = ""
    BY <2>1, ArgumentRows, ZenonT(30)
  <2>3. v = PathUnder(LaunchRoots, "project", "") /\ v \in Args /\ v # <<>> /\ v[1] \notin Dashed
    BY RootPath
  <2>4. x = <<PathArg("root", e)>> /\ D = {<<flag, v>>}
    BY <1>2, <2>1 DEF LayoutProjectDirs, ProjectSaid
  <2>5. flag \in Valued(r)
    BY DEF ProjectFlag, Valued, OtherCLIs
  <2>6. <<flag>> \in Args
    <3>1. r \in CLIs
      BY DEF CLIs, OtherCLIs
    <3> HIDE DEF flag
    <3> QED BY <3>1, <2>5, Flags, OneText
  <2>7. "" \in Parts
    BY LiteralsAre
  <2>8. FieldProjectDirs(r, s, <<v>>) = FieldArg(flag, v)
    <3> HIDE DEF v, e, flag
    <3> QED BY <2>1, <2>3, <2>6, ProjectField DEF e
  <2>9. y = FieldArg(flag, v)
    BY <2>8
  <2> HIDE DEF v, e, flag, x, y, D
  <2>10. /\ Says(r, ws, LaunchRoots, in, extra, <<PathArg("root", e)>>, {<<flag, v>>})
         /\ Says(r, ws, NoRoots, in, extra, FieldArg(flag, v), {<<flag, v>>})
         /\ Alike(in, extra, <<PathArg("root", e)>>, FieldArg(flag, v))
    BY <2>1, <2>2, <2>3, <2>5, <2>7, PathPart
  <2>11. Says(r, ws, LaunchRoots, in, extra, x, D) /\ Says(r, ws, NoRoots, in, extra, y, D) /\ Alike(in, extra, x, y)
    BY <2>4, <2>9, <2>10
  <2> QED BY <2>11 DEF x, y, D
<1> QED BY <1>1, <1>2

-----------------------------------------------------------------------------
(* What Claude's command line says. *)

\* Literals that are a flag and its value.
LEMMA SaysLits ==
  ASSUME NEW r, NEW ws, NEW roots, NEW in, NEW extra, Given(r, ws, roots, in, extra),
         NEW a \in Args, NEW D, NEW b \in Args, NEW E,
         Says(r, ws, roots, in, extra, Lits(a), D), Says(r, ws, roots, in, extra, Lits(b), E)
  PROVE  Says(r, ws, roots, in, extra, Lits(a \o b), D \union E)
<1> DEFINE x == Lits(a)
           y == Lits(b)
<1>1. Lits(a \o b) = x \o y
  BY LitsConcat DEF Args
<1>2. Says(r, ws, roots, in, extra, x, D) /\ Says(r, ws, roots, in, extra, y, E)
  OBVIOUS
<1> HIDE DEF x, y
<1>3. Says(r, ws, roots, in, extra, x \o y, D \union E)
  BY <1>2, SaysBoth
<1> QED BY <1>1, <1>3

LEMMA ThreeIsAppend == \A x, y, z : <<x, y, z>> = Append(<<x, y>>, z)
  OBVIOUS

\* Lists of three, written as appends.
LEMMA ThreeIs == ASSUME NEW S, NEW x \in S, NEW y \in S, NEW z \in S
                 PROVE <<x>> \o <<y, z>> = <<x, y, z>> /\ <<x, y>> \o <<z>> = <<x, y, z>>
<1> DEFINE s == <<x, y>>
           t == <<x>>
           u == <<y, z>>
<1>1. s \in Seq(S) /\ t \in Seq(S) /\ u \in Seq(S)
  BY OneIn, TwoIn
<1>2. <<x, y, z>> = Append(s, z)
  BY ThreeIsAppend
<1>3. t \o u = Append(Append(t, y), z)
  <2> HIDE DEF s, t
  <2> QED BY <1>1
<1>4. Append(t, y) = s
  BY PairIsAppend
<1> HIDE DEF s, t
<1>5. Append(s, z) = s \o <<z>>
  BY <1>1, AppendIsConcat
<1> QED BY <1>2, <1>3, <1>4, <1>5 DEF s, t

\* "-p", the stream's output, and what a shape adds.
Outputs == {<<"--output-format", <<"stream-json">>>>, <<"--verbose", Nothing>>}

\* The words that make Claude stream.
Stream == <<"--output-format", "stream-json", "--verbose">>

Dashp == {<<"-p", Nothing>>}

LEMMA StreamIs ==
  /\ Stream \in Args /\ <<"-p">> \in Args /\ <<"--bare">> \in Args
  /\ <<"-p", "--input-format", "stream-json">> \in Args
  /\ <<"-p", "--input-format", "stream-json">> = <<"-p">> \o <<"--input-format", "stream-json">>
  /\ Stream = <<"--output-format", "stream-json">> \o <<"--verbose">>
  /\ <<"--input-format", "stream-json">> \in Args /\ <<"--output-format", "stream-json">> \in Args
  /\ <<"--verbose">> \in Args
<1> DEFINE p == "-p"
           i == "--input-format"
           j == "stream-json"
           o == "--output-format"
           v == "--verbose"
           b == "--bare"
<1>1. p \in Parts /\ i \in Parts /\ j \in Parts /\ o \in Parts /\ v \in Parts /\ b \in Parts
  BY LiteralsAre
<1>2. Stream = <<o, j, v>>
  BY DEF Stream
<1> HIDE DEF p, i, j, o, v, b
<1>3. <<p>> \in Args /\ <<b>> \in Args /\ <<i, j>> \in Args /\ <<o, j>> \in Args /\ <<v>> \in Args
  BY <1>1, OneIn, TwoIn DEF Args
<1>4. <<p, i, j>> = <<p>> \o <<i, j>> /\ <<o, j, v>> = <<o, j>> \o <<v>>
  BY <1>1, ThreeIs
<1>5. <<p>> \o <<i, j>> \in Args /\ <<o, j>> \o <<v>> \in Args
  BY <1>3, ArgsConcat
<1>6. Stream \in Args /\ <<p, i, j>> \in Args /\ Stream = <<o, j>> \o <<v>>
  BY <1>2, <1>4, <1>5
<1> QED BY <1>3, <1>4, <1>6 DEF p, i, j, o, v, b

LEMMA SaysStream ==
  ASSUME NEW roots, NEW in, NEW extra, Given("claude", <<>>, roots, in, extra)
  PROVE  /\ Says("claude", <<>>, roots, in, extra, Lits(Stream), Outputs)
         /\ Says("claude", <<>>, roots, in, extra, Lits(<<"-p">>), Dashp)
         /\ Says("claude", <<>>, roots, in, extra, Lits(<<"-p">> \o Stream), Dashp \union Outputs)
<1> DEFINE none == <<>>
           r == "claude"
           S(w, D) == Says(r, none, roots, in, extra, Lits(w), D)
           oj == <<"--output-format", "stream-json">>
           v == <<"--verbose">>
           p == <<"-p">>
           D1 == {<<"--output-format", <<"stream-json">>>>}
           D2 == {<<"--verbose", Nothing>>}
<1>1. Given(r, none, roots, in, extra)
  OBVIOUS
<1>2. "--output-format" \in Valued(r) /\ "--verbose" \in Switches(r) /\ "-p" \in Switches(r)
  BY DEF Valued, Switches
<1> HIDE DEF none, r
<1>3. S(oj, D1)
  <2>1. <<"stream-json">> \in Args
    BY WordsAre
  <2> QED BY <1>1, <1>2, <2>1, SaysWord
<1>4. S(v, D2) /\ S(p, Dashp)
  BY <1>1, <1>2, SaysSwitch DEF Dashp
<1>5. oj \in Args /\ v \in Args /\ p \in Args /\ Stream = oj \o v /\ Stream \in Args
  BY StreamIs
<1>6. Outputs = D1 \union D2
  BY DEF Outputs
<1> HIDE DEF oj, v, p, D1, D2
<1>7. S(oj \o v, D1 \union D2)
  BY <1>1, <1>3, <1>4, <1>5, SaysLits
<1>8. S(Stream, Outputs)
  BY <1>5, <1>6, <1>7
<1>9. S(p \o Stream, Dashp \union Outputs)
  BY <1>1, <1>4, <1>5, <1>8, SaysLits
<1> QED BY <1>4, <1>8, <1>9 DEF none, r, p

\* The options of each shape that do not depend on the launch.
ClaudeFixed(a, s) ==
  CASE s = Plain(PTYMode) -> {}
    [] s = Plain(Streaming) -> Dashp \union {<<"--input-format", <<"stream-json">>>>} \union Outputs
    [] s = Bare -> Dashp \union Outputs \union {<<"--bare", Nothing>>}
    [] OTHER -> Dashp \union Outputs \union (IF a.mode # "" THEN {<<"--input-format", <<a.mode>>>>} ELSE {})

\* What stands first on Claude's command line in each shape.
ClaudeFixedArgs(a, s) ==
  CASE s = Plain(PTYMode) -> <<>>
    [] s = Plain(Streaming) -> Lits(<<"-p", "--input-format", "stream-json">> \o Stream)
    [] s = Bare -> Lits((<<"-p">> \o Stream) \o <<"--bare">>)
    [] OTHER -> Lits(<<"-p">> \o Stream) \o (IF a.mode # "" THEN Lits(<<"--input-format", a.mode>>) ELSE <<>>)

\* Claude's four shapes, no two alike.
ClaudeShapes == {Plain(PTYMode), Plain(Streaming), Bare, Plain(PerTurn)}

LEMMA ClaudeShapesDiffer ==
  /\ Plain(PTYMode) # Plain(Streaming) /\ Plain(PTYMode) # Bare /\ Plain(Streaming) # Bare
  /\ Plain(PerTurn) # Plain(PTYMode) /\ Plain(PerTurn) # Plain(Streaming) /\ Plain(PerTurn) # Bare
  /\ \A m : Plain(m).mode = m
  /\ Bare.mode = PerTurn
  /\ PTYMode # Streaming /\ PTYMode # PerTurn /\ Streaming # PerTurn
<1>1. PTYMode # Streaming /\ PTYMode # PerTurn /\ Streaming # PerTurn
  BY DEF PTYMode, Streaming, PerTurn
<1>2. \A m : Plain(m) # Bare /\ Plain(m).mode = m
  BY PlainIsNotBare
<1> QED BY <1>1, <1>2, BareFields

\* The fixed words say the fixed options.
LEMMA SaysClaudeFixed ==
  ASSUME NEW roots, NEW in, NEW extra, Given("claude", <<>>, roots, in, extra),
         NEW a, <<a.mode>> \in Args, NEW s \in ClaudeShapes
  PROVE  Says("claude", <<>>, roots, in, extra, ClaudeFixedArgs(a, s), ClaudeFixed(a, s))
<1> DEFINE none == <<>>
           r == "claude"
           S(seg, D) == Says(r, none, roots, in, extra, seg, D)
           x == ClaudeFixedArgs(a, s)
           D == ClaudeFixed(a, s)
<1>1. Given(r, none, roots, in, extra)
  OBVIOUS
<1>2. "--input-format" \in Valued(r) /\ "--bare" \in Switches(r)
  BY DEF Valued, Switches
<1>3. S(<<>>, {})
  BY SaysNothing
<1>4. /\ S(Lits(Stream), Outputs) /\ S(Lits(<<"-p">>), Dashp)
      /\ S(Lits(<<"-p">> \o Stream), Dashp \union Outputs)
  BY SaysStream
<1> HIDE DEF none, r
<1>5. ASSUME s = Plain(PTYMode) PROVE S(x, D)
  <2>1. x = <<>> /\ D = {}
    BY <1>5, ClaudeShapesDiffer DEF ClaudeFixedArgs, ClaudeFixed
  <2> QED BY <2>1, <1>3
<1>6. ASSUME s = Plain(Streaming) PROVE S(x, D)
  <2> DEFINE ij == <<"--input-format", "stream-json">>
             p == <<"-p">>
             I == {<<"--input-format", <<"stream-json">>>>}
             pij == <<"-p", "--input-format", "stream-json">>
  <2>1. x = Lits(pij \o Stream) /\ D = Dashp \union I \union Outputs
    BY <1>6, ClaudeShapesDiffer DEF ClaudeFixedArgs, ClaudeFixed
  <2>2. S(Lits(ij), I)
    <3>1. <<"stream-json">> \in Args
      BY WordsAre
    <3> QED BY <1>1, <1>2, <3>1, SaysWord
  <2>3. pij = p \o ij /\ ij \in Args /\ p \in Args /\ pij \in Args /\ Stream \in Args
    BY StreamIs
  <2>6. S(Lits(p), Dashp)
    BY <1>4
  <2> HIDE DEF ij, p, I, pij
  <2>4. S(Lits(p \o ij), Dashp \union I)
    BY <1>1, <2>2, <2>3, <2>6, SaysLits
  <2>7. S(Lits(pij), Dashp \union I)
    BY <2>3, <2>4
  <2>5. S(Lits(pij \o Stream), (Dashp \union I) \union Outputs)
    BY <1>1, <1>4, <2>3, <2>7, SaysLits
  <2> QED BY <2>1, <2>5
<1>7. ASSUME s = Bare PROVE S(x, D)
  <2> DEFINE w == <<"-p">> \o Stream
             b == <<"--bare">>
             B == {<<"--bare", Nothing>>}
             W == Dashp \union Outputs
  <2>1. x = Lits(w \o b) /\ D = W \union B
    BY <1>7, ClaudeShapesDiffer DEF ClaudeFixedArgs, ClaudeFixed
  <2>2. S(Lits(b), B)
    BY <1>1, <1>2, SaysSwitch
  <2>3. w \in Args /\ b \in Args
    BY StreamIs, ArgsConcat
  <2>4. S(Lits(w), W)
    BY <1>4
  <2> HIDE DEF w, b, B, W
  <2>5. S(Lits(w \o b), W \union B)
    BY <1>1, <2>2, <2>3, <2>4, SaysLits
  <2> QED BY <2>1, <2>5
<1>8. ASSUME s = Plain(PerTurn) PROVE S(x, D)
  <2> DEFINE w == Lits(<<"-p">> \o Stream)
             W == Dashp \union Outputs
             y == IF a.mode # "" THEN Lits(<<"--input-format", a.mode>>) ELSE <<>>
             Y == IF a.mode # "" THEN {<<"--input-format", <<a.mode>>>>} ELSE {}
  <2>1. x = w \o y /\ D = W \union Y
    BY <1>8, ClaudeShapesDiffer, Zenon DEF ClaudeFixedArgs, ClaudeFixed
  <2>2. S(Lits(<<"--input-format", a.mode>>), {<<"--input-format", <<a.mode>>>>})
    BY <1>1, <1>2, SaysWord
  <2>3. S(y, Y)
    <3>1. CASE a.mode = ""
      BY <3>1, <1>3, Zenon
    <3>2. CASE a.mode # ""
      BY <3>2, <2>2, Zenon
    <3> QED BY <3>1, <3>2
  <2>4. S(w, W)
    BY <1>4
  <2> HIDE DEF w, W, y, Y
  <2>5. S(w \o y, W \union Y)
    BY <1>1, <2>3, <2>4, SaysBoth
  <2> QED BY <2>1, <2>5
<1> HIDE DEF x, D, S
<1>9. S(x, D)
  BY <1>5, <1>6, <1>7, <1>8 DEF ClaudeShapes
<1> QED BY <1>9 DEF x, D, S, none, r

\* The flag that makes the servers exclusive, and the one that skips permissions.
StrictSaid(a) == IF a.exclusive THEN {<<StrictFlag, Nothing>>} ELSE {}

SkipSaid(a) == IF a.skip THEN {<<SkipFlag, Nothing>>} ELSE {}

\* What the middle of Claude's command line is to say, and the whole of it.
ClaudeBodySaid(a, s, in, said) ==
  ((ClaudeFixed(a, s) \union OptionOf("--model", a.model)) \union (said.mcp \union StrictSaid(a)))
    \union (IF s = Bare THEN said.instructions \union said.settings ELSE {})
    \union (IF s = Plain(PerTurn) THEN SystemOption(in) ELSE {})

ClaudeSays(a, s, in, said, X) ==
  OptionOf("--resume", in.resume) \union ClaudeBodySaid(a, s, in, said) \union X
    \union said.projectDirs \union said.skillsDir \union SkipSaid(a)

\* The middle of Claude's convention, and everything in front of the prompt.
ClaudeMcp(a, p) == p.mcp \o (IF a.exclusive THEN Lits(<<StrictFlag>>) ELSE <<>>)

ClaudeBody(a, s, p) ==
  CASE s.mode = PTYMode -> Value("--model", a.model) \o ClaudeMcp(a, p)
    [] s.mode = Streaming ->
         Lits(<<"-p", "--input-format", "stream-json">> \o Stream) \o Value("--model", a.model) \o ClaudeMcp(a, p)
    [] s = Bare ->
         Lits(<<"-p">> \o Stream \o <<"--bare">>) \o Value("--model", a.model) \o ClaudeMcp(a, p)
           \o p.instructions \o p.settings
    [] OTHER ->
         Lits(<<"-p">> \o Stream) \o (IF a.mode # "" THEN Lits(<<"--input-format", a.mode>>) ELSE <<>>)
           \o Value("--model", a.model) \o ClaudeMcp(a, p) \o <<SystemTemplate>>

ClaudeFront(a, s, p) ==
  <<Resume("--resume")>> \o ClaudeBody(a, s, p) \o <<Extra>> \o p.projectDirs \o p.skillsDir
    \o (IF a.skip THEN Lits(<<SkipFlag>>) ELSE <<>>)

\* ClaudeArgs is that front and the prompt.
LEMMA ClaudeArgsAre ==
  ASSUME NEW a, NEW s, NEW p
  PROVE  ClaudeArgs(a, s, p) = ClaudeFront(a, s, p) \o (IF s.mode = PerTurn THEN <<Prompt>> ELSE <<>>)
  BY Zenon DEF ClaudeArgs, ClaudeFront, ClaudeBody, ClaudeMcp, Stream, SystemTemplate

\* The servers' file, and the strict flag when they are exclusive.
LEMMA SaysClaudeMcp ==
  ASSUME NEW roots, NEW in, NEW extra, Given("claude", <<>>, roots, in, extra),
         NEW p, NEW M, Says("claude", <<>>, roots, in, extra, p.mcp, M), NEW a
  PROVE  Says("claude", <<>>, roots, in, extra, ClaudeMcp(a, p), M \union StrictSaid(a))
<1> DEFINE none == <<>>
           r == "claude"
           x == p.mcp
           y == IF a.exclusive THEN Lits(<<StrictFlag>>) ELSE <<>>
           Y == StrictSaid(a)
<1>1. Given(r, none, roots, in, extra) /\ Says(r, none, roots, in, extra, x, M)
  OBVIOUS
<1>2. Says(r, none, roots, in, extra, y, Y)
  <2>1. CASE a.exclusive
    <3>1. StrictFlag \in Switches(r)
      BY DEF Switches
    <3>2. y = Lits(<<StrictFlag>>) /\ Y = {<<StrictFlag, Nothing>>}
      BY <2>1 DEF StrictSaid
    <3> HIDE DEF y, Y, r, none
    <3> QED BY <1>1, <3>1, <3>2, SaysSwitch
  <2>2. CASE ~a.exclusive
    <3>1. y = <<>> /\ Y = {}
      BY <2>2 DEF StrictSaid
    <3> HIDE DEF y, Y
    <3> QED BY <3>1, SaysNothing
  <2> QED BY <2>1, <2>2
<1>3. ClaudeMcp(a, p) = x \o y
  BY DEF ClaudeMcp
<1> HIDE DEF x, y, Y, none, r
<1>4. Says(r, none, roots, in, extra, x \o y, M \union Y)
  BY <1>1, <1>2, SaysBoth
<1> QED BY <1>3, <1>4 DEF Y, none, r

\* The middle says what it is to say, in each shape.
LEMMA SaysClaudeBody ==
  ASSUME NEW roots, NEW in, NEW extra, Given("claude", <<>>, roots, in, extra),
         NEW p, NEW said, SaysPaths(roots, in, extra, p, said),
         NEW a, <<a.mode>> \in Args, a.model \in Args, NEW s \in ClaudeShapes
  PROVE  Says("claude", <<>>, roots, in, extra, ClaudeBody(a, s, p), ClaudeBodySaid(a, s, in, said))
<1> DEFINE none == <<>>
           r == "claude"
           S(seg, D) == Says(r, none, roots, in, extra, seg, D)
           fixed == ClaudeFixedArgs(a, s)
           Fx == ClaudeFixed(a, s)
           model == Value("--model", a.model)
           Model == OptionOf("--model", a.model)
           mcp == ClaudeMcp(a, p)
           M == said.mcp \union StrictSaid(a)
           body == ClaudeBody(a, s, p)
           D == ClaudeBodySaid(a, s, in, said)
<1>1. S(fixed, Fx)
  BY SaysClaudeFixed
<1>2. S(model, Model)
  <2>1. "--model" \in Valued(r)
    BY DEF Valued
  <2>2. Given(r, none, roots, in, extra)
    OBVIOUS
  <2> HIDE DEF r, none
  <2> QED BY <2>1, <2>2, SaysValue
<1>3. S(mcp, M)
  BY SaysClaudeMcp DEF SaysPaths
<1>4. S(p.instructions, said.instructions) /\ S(p.settings, said.settings)
  BY DEF SaysPaths
<1>5. S(<<SystemTemplate>>, SystemOption(in))
  BY SaysSystem
<1>6. \A x, X, y, Y : S(x, X) /\ S(y, Y) => S(x \o y, X \union Y)
  BY SaysBoth
<1>7. D = ((Fx \union Model) \union M)
            \union (IF s = Bare THEN said.instructions \union said.settings ELSE {})
            \union (IF s = Plain(PerTurn) THEN SystemOption(in) ELSE {})
  BY DEF ClaudeBodySaid
<1>8. S((fixed \o model) \o mcp, (Fx \union Model) \union M)
  <2> HIDE DEF S, fixed, Fx, model, Model, mcp, M
  <2>1. S(fixed \o model, Fx \union Model)
    BY <1>1, <1>2, <1>6
  <2> QED BY <2>1, <1>3, <1>6
<1>9. ASSUME s = Plain(PTYMode) PROVE S(body, D)
  <2>1. Fx = {} /\ s # Bare /\ s # Plain(PerTurn)
    BY <1>9, ClaudeShapesDiffer DEF ClaudeFixed
  <2>2. D = Model \union M
    <3> HIDE DEF D, Fx, M, Model
    <3> QED BY <2>1, <1>7
  <2>3. body = model \o mcp
    BY <1>9, ClaudeShapesDiffer DEF ClaudeBody
  <2> HIDE DEF S, fixed, Fx, model, Model, mcp, M, body, D
  <2>4. S(model \o mcp, Model \union M)
    BY <1>2, <1>3, <1>6
  <2> QED BY <2>2, <2>3, <2>4
<1>10. ASSUME s = Plain(Streaming) PROVE S(body, D)
  <2>1. s # Bare /\ s # Plain(PerTurn) /\ s # Plain(PTYMode) /\ s.mode = Streaming /\ s.mode # PTYMode
    BY <1>10, ClaudeShapesDiffer
  <2>2. D = (Fx \union Model) \union M
    <3> HIDE DEF D, Fx, M, Model
    <3> QED BY <2>1, <1>7
  <2>3. fixed = Lits(<<"-p", "--input-format", "stream-json">> \o Stream)
    BY <1>10, <2>1, Zenon DEF ClaudeFixedArgs
  <2>4. body = Lits(<<"-p", "--input-format", "stream-json">> \o Stream) \o model \o mcp
    BY <1>10, <2>1, Zenon DEF ClaudeBody
  <2>5. body = (fixed \o model) \o mcp
    BY <2>3, <2>4
  <2> HIDE DEF S, fixed, Fx, model, Model, mcp, M, body, D
  <2> QED BY <2>2, <2>5, <1>8
<1>11. ASSUME s = Bare PROVE S(body, D)
  <2>1. s # Plain(PerTurn) /\ s # Plain(PTYMode) /\ s # Plain(Streaming) /\ s.mode # Streaming /\ s.mode # PTYMode
    BY <1>11, ClaudeShapesDiffer
  <2> DEFINE w == <<"-p">> \o Stream
  <2>2. D = ((Fx \union Model) \union M) \union (said.instructions \union said.settings)
    <3> HIDE DEF D, Fx, M, Model
    <3> QED BY <1>11, <2>1, <1>7
  <2>3. fixed = Lits(w \o <<"--bare">>)
    BY <1>11, <2>1, Zenon DEF ClaudeFixedArgs
  <2>4. body = Lits(w \o <<"--bare">>) \o model \o mcp \o p.instructions \o p.settings
    BY <1>11, <2>1, Zenon DEF ClaudeBody
  <2>5. body = (((fixed \o model) \o mcp) \o p.instructions) \o p.settings
    BY <2>3, <2>4
  <2> HIDE DEF S, fixed, Fx, model, Model, mcp, M, body, D
  <2> DEFINE u == (fixed \o model) \o mcp
             U == (Fx \union Model) \union M
  <2>6. S(u, U)
    BY <1>8
  <2> HIDE DEF u, U
  <2>7. S(u \o p.instructions, U \union said.instructions)
    BY <2>6, <1>4, <1>6
  <2>8. S((u \o p.instructions) \o p.settings, (U \union said.instructions) \union said.settings)
    BY <2>7, <1>4, <1>6
  <2>9. (U \union said.instructions) \union said.settings = U \union (said.instructions \union said.settings)
    OBVIOUS
  <2>10. body = (u \o p.instructions) \o p.settings
    BY <2>5 DEF u
  <2>11. D = U \union (said.instructions \union said.settings)
    BY <2>2 DEF U
  <2> QED BY <2>8, <2>9, <2>10, <2>11
<1>12. ASSUME s = Plain(PerTurn) PROVE S(body, D)
  <2>1. s # Bare /\ s # Plain(PTYMode) /\ s # Plain(Streaming) /\ s.mode # Streaming /\ s.mode # PTYMode
    BY <1>12, ClaudeShapesDiffer
  <2> DEFINE w == Lits(<<"-p">> \o Stream)
             y == IF a.mode # "" THEN Lits(<<"--input-format", a.mode>>) ELSE <<>>
  <2>2. D = ((Fx \union Model) \union M) \union SystemOption(in)
    <3> HIDE DEF D, Fx, M, Model
    <3> QED BY <1>12, <2>1, <1>7
  <2>3. fixed = w \o y
    BY <1>12, <2>1, Zenon DEF ClaudeFixedArgs
  <2>4. body = w \o y \o model \o mcp \o <<SystemTemplate>>
    BY <1>12, <2>1, Zenon DEF ClaudeBody
  <2>5. body = ((fixed \o model) \o mcp) \o <<SystemTemplate>>
    <3> HIDE DEF w, y, fixed, model, mcp, body
    <3> QED BY <2>3, <2>4
  <2> HIDE DEF S, fixed, Fx, model, Model, mcp, M, body, D, w, y
  <2> DEFINE u == (fixed \o model) \o mcp
             U == (Fx \union Model) \union M
             z == <<SystemTemplate>>
             Z == SystemOption(in)
  <2>6. S(u, U) /\ S(z, Z)
    BY <1>8, <1>5
  <2>7. body = u \o z /\ D = U \union Z
    BY <2>2, <2>5
  <2> HIDE DEF u, U, z, Z
  <2>8. S(u \o z, U \union Z)
    BY <2>6, <1>6
  <2> QED BY <2>7, <2>8
<1> HIDE DEF S, body, D
<1>13. S(body, D)
  BY <1>9, <1>10, <1>11, <1>12 DEF ClaudeShapes
<1> QED BY <1>13 DEF S, body, D, none, r

\* Everything in front of the prompt says what it is to say.
LEMMA SaysClaudeFront ==
  ASSUME NEW roots, NEW in, NEW extra, Given("claude", <<>>, roots, in, extra),
         NEW X, Adds("claude", <<>>, extra, X),
         NEW p, NEW said, SaysPaths(roots, in, extra, p, said),
         NEW a, <<a.mode>> \in Args, a.model \in Args, NEW s \in ClaudeShapes
  PROVE  /\ Says("claude", <<>>, roots, in, extra, ClaudeFront(a, s, p), ClaudeSays(a, s, in, said, X))
         /\ HasExtra(ClaudeFront(a, s, p))
<1> DEFINE none == <<>>
           r == "claude"
           S(seg, D) == Says(r, none, roots, in, extra, seg, D)
           m == <<Resume("--resume")>>
           b == ClaudeBody(a, s, p)
           e == <<Extra>>
           d == p.projectDirs
           k == p.skillsDir
           y == IF a.skip THEN Lits(<<SkipFlag>>) ELSE <<>>
           R == OptionOf("--resume", in.resume)
           B == ClaudeBodySaid(a, s, in, said)
           P == said.projectDirs
           K == said.skillsDir
           Y == SkipSaid(a)
           T == Seq(Templates)
<1>0. Given(r, none, roots, in, extra) /\ Adds(r, none, extra, X)
  OBVIOUS
<1>1. S(m, R)
  <2>1. "--resume" \in Valued(r) /\ "--resume" \notin Joined
    BY DEF Valued, Joined
  <2> HIDE DEF r, none
  <2> QED BY <1>0, <2>1, SaysResume
<1>2. S(b, B)
  BY SaysClaudeBody
<1>3. S(e, X)
  <2> HIDE DEF r, none
  <2> QED BY <1>0, SaysExtra
<1>4. S(d, P) /\ S(k, K)
  BY DEF SaysPaths
<1>5. S(y, Y)
  <2>1. CASE a.skip
    <3>1. SkipFlag \in Switches(r)
      BY DEF Switches
    <3>2. y = Lits(<<SkipFlag>>) /\ Y = {<<SkipFlag, Nothing>>}
      BY <2>1 DEF SkipSaid
    <3> HIDE DEF y, Y, r, none
    <3> QED BY <1>0, <3>1, <3>2, SaysSwitch
  <2>2. CASE ~a.skip
    <3>1. y = <<>> /\ Y = {}
      BY <2>2 DEF SkipSaid
    <3> HIDE DEF y, Y
    <3> QED BY <3>1, SaysNothing
  <2> QED BY <2>1, <2>2
<1>6. \A x, D, z, E : S(x, D) /\ S(z, E) => S(x \o z, D \union E)
  BY SaysBoth
<1>7. ClaudeFront(a, s, p) = m \o b \o e \o d \o k \o y
  BY Zenon DEF ClaudeFront
<1>8. ClaudeSays(a, s, in, said, X) = R \union B \union X \union P \union K \union Y
  BY Zenon DEF ClaudeSays
<1>9. \A x, D : S(x, D) => x \in T
  BY DEF Says
<1>10. HasExtra(e)
  BY ExtraHasExtra
<1>11. \A x, z \in T : HasExtra(x) \/ HasExtra(z) => HasExtra(x \o z)
  BY HasExtraConcat
<1> HIDE DEF S, m, b, e, d, k, y, R, B, P, K, Y, T
<1>12. S(m \o b, R \union B)
  BY <1>1, <1>2, <1>6
<1>13. S(m \o b \o e, R \union B \union X)
  BY <1>12, <1>3, <1>6
<1>14. S(m \o b \o e \o d, R \union B \union X \union P)
  BY <1>13, <1>4, <1>6
<1>15. S(m \o b \o e \o d \o k, R \union B \union X \union P \union K)
  BY <1>14, <1>4, <1>6
<1>16. S(m \o b \o e \o d \o k \o y, R \union B \union X \union P \union K \union Y)
  BY <1>15, <1>5, <1>6
<1>17. HasExtra(m \o b \o e)
  BY <1>12, <1>3, <1>9, <1>10, <1>11
<1>18. HasExtra(m \o b \o e \o d)
  BY <1>13, <1>4, <1>9, <1>11, <1>17
<1>19. HasExtra(m \o b \o e \o d \o k)
  BY <1>14, <1>4, <1>9, <1>11, <1>18
<1>20. HasExtra(m \o b \o e \o d \o k \o y)
  BY <1>15, <1>5, <1>9, <1>11, <1>19
<1>21. S(ClaudeFront(a, s, p), ClaudeSays(a, s, in, said, X)) /\ HasExtra(ClaudeFront(a, s, p))
  BY <1>7, <1>8, <1>16, <1>20
<1> QED BY <1>21 DEF S, none, r

\* Claude's command line: the options, no words, and the prompt of a
\* per-turn process behind the "--".
LEMMA ClaudeReads ==
  ASSUME NEW roots, NEW in, NEW extra, Given("claude", <<>>, roots, in, extra),
         NEW X, Adds("claude", <<>>, extra, X),
         NEW p, NEW said, SaysPaths(roots, in, extra, p, said),
         NEW a, <<a.mode>> \in Args, a.model \in Args, NEW s \in ClaudeShapes
  PROVE  LET args == ClaudeArgs(a, s, p)
         IN  /\ args \in Seq(Templates) /\ HasExtra(args)
             /\ Reads("claude", Filled(args, "extra", roots, in, extra), ClaudeSays(a, s, in, said, X), <<>>,
                      IF s.mode = PerTurn THEN <<in.prompt>> ELSE <<>>)
<1> DEFINE none == <<>>
           r == "claude"
           slot == "extra"
           f == ClaudeFront(a, s, p)
           D == ClaudeSays(a, s, in, said, X)
           x == Filled(f, slot, roots, in, extra)
           args == ClaudeArgs(a, s, p)
           text == in.prompt
<1>1. Says(r, none, roots, in, extra, f, D) /\ HasExtra(f)
  BY SaysClaudeFront
<1>2. r \in CLIs /\ roots \in Paths /\ in \in Inputs /\ extra \in Seq(Args)
  BY DEF Given
<1>3. f \in Seq(Templates)
  BY <1>1 DEF Says
<1>4. x \in Seq(Args) /\ Calm(r, none, Read(r, x)) /\ Read(r, x).options = D
  <2>1. Given(r, none, roots, in, extra) /\ none = <<>>
    OBVIOUS
  <2> HIDE DEF r, none, f, D
  <2> QED BY <1>1, <2>1, ReadsOptions
<1>5. text \in Args
  BY <1>2 DEF Inputs
<1> HIDE DEF D
<1>6. CASE s.mode = PerTurn
  <2> DEFINE q == <<Prompt>>
             w == << <<"--">>, text >>
  <2>1. args = f \o q
    BY <1>6, ClaudeArgsAre
  <2>2. Prompt \in Templates /\ Prompt.kind = "prompt" /\ Prompt.omit = FALSE /\ Prompt.firstOnly = FALSE /\ Prompt.system = FALSE
    BY PromptTypes
  <2>3. q \in Seq(Templates)
    BY <2>2, OneTemplate
  <2>4. Filled(q, slot, roots, in, extra) = w
    <3>1. TextGiven(Prompt, in) = text
      BY <2>2 DEF TextGiven
    <3>2. Filled(<<Prompt>>, slot, roots, in, extra) = << <<"--">>, TextGiven(Prompt, in) >>
      BY <2>2, <1>2, FilledPrompt
    <3> QED BY <3>1, <3>2
  <2>5. Reads(r, x \o w, Read(r, x).options, none, <<text>>)
    <3> HIDE DEF x, text, none, r
    <3> QED BY <1>2, <1>4, <1>5, CalmPrompt
  <2> HIDE DEF q, w, f, slot
  <2>6. Filled(f \o q, slot, roots, in, extra) = x \o w
    BY <1>2, <1>3, <2>3, <2>4, FilledConcat, ZenonT(30)
  <2>7. f \o q \in Seq(Templates) /\ HasExtra(f \o q)
    BY <1>1, <1>3, <2>3, HasExtraConcat, ConcatProperties
  <2> HIDE DEF x, text, args, none
  <2>8. /\ args \in Seq(Templates) /\ HasExtra(args)
        /\ Reads(r, Filled(args, slot, roots, in, extra), D, none, <<text>>)
    BY <1>4, <2>1, <2>5, <2>6, <2>7
  <2> QED BY <1>6, <2>8 DEF args, D, none, r, slot, text
<1>7. CASE s.mode # PerTurn
  <2>1. args = f \o none
    BY <1>7, ClaudeArgsAre
  <2>2. args = f
    <3> HIDE DEF f, args
    <3> QED BY <1>3, <2>1, ConcatEmptySeq DEF none
  <2>3. Reads(r, x, Read(r, x).options, none, none)
    <3>1. none = <<>>
      OBVIOUS
    <3> HIDE DEF x, none, r
    <3> QED BY <1>4, <3>1, ReadsCalm
  <2> HIDE DEF f, none, args
  <2>4. /\ args \in Seq(Templates) /\ HasExtra(args)
        /\ Reads(r, Filled(args, slot, roots, in, extra), D, none, none)
    BY <1>1, <1>3, <1>4, <2>2, <2>3
  <2> QED BY <1>7, <2>4 DEF args, D, none, r, slot
<1> QED BY <1>6, <1>7

-----------------------------------------------------------------------------
(* What Codex's command line says. *)

\* A word with a text behind it.
LEMMA WordRead ==
  ASSUME NEW r \in CLIs, NEW ws, NEW s, Calm(r, ws, s), s.list = "",
         NEW arg \in Args, arg # <<>>, NEW head, arg[1] = head, head \notin Dashed
  PROVE  ReadOne(r, s, arg) = Words1(s, arg)
<1>1. "--" \in Dashed
  BY DEF Dashed
<1>2. ~Only(arg, "--")
  BY <1>1, NotDashes
<1>3. head \notin Inline(r)
  BY FlagsAreDashed
<1>4. s.ended = FALSE /\ s.wants = ""
  BY DEF Calm
<1>5. ReadOne(r, s, arg) =
           IF s.ended THEN Text1(s, arg)
           ELSE IF s.wants # "" THEN Took1(s, s.wants, arg)
           ELSE IF Only(arg, "--") THEN Ends(s)
           ELSE IF head \in Inline(r) THEN Took1(s, head, Tail(arg))
           ELSE IF head \in Dashed
           THEN CASE ~(r = "codex" /\ Contains(s.words, <<"resume">>)) /\ Only(arg, head) /\ head \in Switches(r) ->
                       Took1(s, head, Nothing)
                  [] ~(r = "codex" /\ Contains(s.words, <<"resume">>)) /\ Only(arg, head) /\ head \in Valued(r) ->
                       Awaits(s, head)
                  [] ~(r = "codex" /\ Contains(s.words, <<"resume">>)) /\ Only(arg, head) /\ head \in Lists(r) ->
                       Lists1(s, head)
                  [] OTHER -> Spoils(s)
           ELSE IF s.list # "" THEN Says1(s, arg)
           ELSE Words1(s, arg)
  BY ReadIs
<1> QED BY <1>2, <1>3, <1>4, <1>5, Zenon

\* The subcommand's words leave the CLI calm.
LEMMA WordsCalm ==
  ASSUME NEW r, NEW ws, NEW s, Calm(r, ws, s), NEW arg \in Args
  PROVE  /\ Calm(r, Append(ws, arg), Words1(s, arg)) /\ Words1(s, arg).options = s.options
         /\ Words1(s, arg).list = s.list
<1> DEFINE w == Append(ws, arg)
           t == Words1(s, arg)
<1>1. s \in ReadState /\ s.words = ws
  BY DEF Calm
<1>2. ws \in Seq(Args)
  BY <1>1 DEF ReadState
<1>3. w \in Seq(Args)
  BY <1>2, AppendProperties
<1>4. t = [s EXCEPT !.words = w]
  BY <1>1 DEF Words1
<1> HIDE DEF w, t
<1>5. t \in ReadState /\ t.words = w
  BY <1>1, <1>3, <1>4 DEF ReadState
<1>6. t.text = s.text /\ t.ended = s.ended /\ t.wants = s.wants /\ t.bad = s.bad /\ t.list = s.list /\ t.options = s.options
  BY <1>1, <1>4 DEF ReadState
<1>7. s.text = <<>> /\ s.ended = FALSE /\ s.wants = "" /\ s.bad = FALSE /\ (r # "claude" => s.list = "")
  BY DEF Calm
<1>8. Calm(r, w, t)
  BY <1>5, <1>6, <1>7, Zenon DEF Calm
<1> QED BY <1>6, <1>8 DEF w, t

\* One more word on the command line of a CLI with no lists.
LEMMA OneMoreWord ==
  ASSUME NEW r \in CLIs, r # "claude", NEW ws, NEW b \in Seq(Args), Calm(r, ws, Read(r, b)),
         NEW arg \in Args, arg # <<>>, NEW head, arg[1] = head, head \notin Dashed
  PROVE  /\ Calm(r, Append(ws, arg), Read(r, Append(b, arg)))
         /\ Read(r, Append(b, arg)).options = Read(r, b).options
<1> DEFINE s == Read(r, b)
<1>1. s.list = ""
  BY Zenon DEF Calm
<1>2. Read(r, Append(b, arg)) = ReadOne(r, s, arg)
  BY ReadAppend
<1>3. Calm(r, ws, s)
  OBVIOUS
<1> HIDE DEF s
<1>4. ReadOne(r, s, arg) = Words1(s, arg)
  BY <1>1, <1>3, WordRead
<1>5. Calm(r, Append(ws, arg), Words1(s, arg)) /\ Words1(s, arg).options = s.options
  BY <1>3, WordsCalm
<1>6. Calm(r, Append(ws, arg), Read(r, Append(b, arg))) /\ Read(r, Append(b, arg)).options = s.options
  BY <1>2, <1>4, <1>5
<1> QED BY <1>6 DEF s

\* The words of a command line: the subcommand, and the session to resume.
ResumeWords(word, id) == IF id = <<>> THEN << <<word>> >> ELSE << <<word>>, <<"resume">>, id >>

\* The subcommands are no flags.
LEMMA NotFlags ==
  /\ "exec" \notin Dashed /\ "app-server" \notin Dashed /\ "run" \notin Dashed /\ "serve" \notin Dashed
  /\ "resume" \notin Dashed /\ "session" \notin Dashed
  BY DEF Dashed, Switches, Valued, Lists, Inline, StrictFlag, SkipFlag

\* The thread to resume, as Codex's convention writes it.
LEMMA FilledThread ==
  ASSUME NEW roots \in Paths, NEW in \in Inputs, NEW extra \in Seq(Args)
  PROVE  /\ Resume("resume") \in Templates
         /\ Filled(<<Resume("resume")>>, "extra", roots, in, extra)
              = IF in.resume = <<>> THEN <<>> ELSE << <<"resume">>, in.resume >>
<1> DEFINE k == "resume"
           f == <<k>>
           t == Resume(k)
           v == in.resume
           slot == "extra"
           none == <<>>
           w == ResolveTemplate(roots, t, in)
           p == Piece(t, slot, roots, in, extra)
<1>1. f \in Args /\ v \in Args
  BY WordsAre DEF Inputs
<1>2. k \in PieceKinds /\ t = Template(k, f)
  BY DEF PieceKinds, Resume
<1>3. t \in Templates
  <2> HIDE DEF f, t
  <2> QED BY <1>1, <1>2, TemplateType
<1>4. t.kind = k /\ t.value = f /\ t.firstOnly = FALSE
  BY DEF Resume, Template
<1>5. FlagValue(f, v) = IF v = <<>> THEN <<>> ELSE <<f, v>>
  <2>1. k \notin Joined
    BY DEF Joined
  <2> HIDE DEF k
  <2> QED BY <2>1, FlagThenValue
<1>6. k # slot
  OBVIOUS
<1> HIDE DEF t, f
<1>7. w = FlagValue(f, v)
  BY <1>4 DEF ResolveTemplate
<1>8. w \in Seq(Args)
  BY <1>3, ResolveType
<1> HIDE DEF w, k, slot
<1>9. p = none \o w
  <2>1. slot = "extra" /\ t.kind # slot
    BY <1>4, <1>6 DEF slot
  <2> QED BY <2>1 DEF Piece, w
<1>10. p = w
  BY <1>8, <1>9, ConcatEmptySeq
<1> HIDE DEF p
<1>11. Filled(<<t>>, slot, roots, in, extra) = p
  BY <1>3, FilledOne DEF p
<1>12. Filled(<<t>>, slot, roots, in, extra) = IF v = <<>> THEN <<>> ELSE <<f, v>>
  BY <1>5, <1>7, <1>10, <1>11
<1> QED BY <1>3, <1>12 DEF t, slot, f, k, v

\* Behind the options, the thread to resume and the prompt.
LEMMA ThreadReads ==
  ASSUME NEW word, NEW ws, ws = << <<word>> >>, NEW b \in Seq(Args),
         Calm("codex", ws, Read("codex", b)),
         NEW id \in Args, id = <<>> \/ id[1] \notin Dashed,
         NEW text \in Args, NEW thread, thread = IF id = <<>> THEN <<>> ELSE << <<"resume">>, id >>
  PROVE  Reads("codex", (b \o thread) \o << <<"--">>, text >>, Read("codex", b).options,
               ResumeWords(word, id), <<text>>)
<1> DEFINE r == "codex"
           c == b \o thread
<1>1. r \in CLIs /\ r # "claude"
  BY DEF CLIs
<1>2. CASE id = <<>>
  <2>1. c = b
    BY <1>2, ConcatEmptySeq
  <2>2. ResumeWords(word, id) = ws
    BY <1>2 DEF ResumeWords
  <2> HIDE DEF r, c
  <2>3. Calm(r, ws, Read(r, b))
    BY DEF r
  <2>4. Reads(r, b \o << <<"--">>, text >>, Read(r, b).options, ws, <<text>>)
    BY <1>1, <2>3, CalmPrompt
  <2>5. Reads(r, c \o << <<"--">>, text >>, Read(r, b).options, ResumeWords(word, id), <<text>>)
    BY <2>1, <2>2, <2>4
  <2> QED BY <2>5 DEF r, c
<1>3. CASE id # <<>>
  <2> DEFINE h == "resume"
             g == <<h>>
             b1 == Append(b, g)
             b2 == Append(b1, id)
             w1 == Append(ws, g)
             w2 == Append(w1, id)
             W == ResumeWords(word, id)
             f == <<word>>
  <2>1. g \in Args /\ h \notin Dashed /\ g # <<>> /\ g[1] = h
    BY WordsAre, NotFlags
  <2>2. id[1] \notin Dashed
    BY <1>3
  <2>3. thread = <<g, id>>
    BY <1>3
  <2>4. W = <<f, g, id>>
    BY <1>3 DEF ResumeWords
  <2>5. ws = <<f>>
    OBVIOUS
  <2> HIDE DEF g, h, r, f, W
  <2>6. c = b2
    BY <2>1, <2>3, TwoAreAppends
  <2>7. w2 = W
    <3>1. <<f, g>> = Append(<<f>>, g)
      BY PairIsAppend
    <3>2. <<f, g, id>> = Append(<<f, g>>, id)
      BY ThreeIsAppend
    <3> QED BY <2>4, <2>5, <3>1, <3>2
  <2>8. Calm(r, ws, Read(r, b))
    BY DEF r
  <2>9. Calm(r, w1, Read(r, b1)) /\ Read(r, b1).options = Read(r, b).options
    BY <1>1, <2>1, <2>8, OneMoreWord
  <2>10. b1 \in Seq(Args)
    BY <2>1, AppendProperties
  <2> HIDE DEF b1, w1
  <2>11. Calm(r, w2, Read(r, b2)) /\ Read(r, b2).options = Read(r, b1).options
    BY <1>1, <1>3, <2>2, <2>9, <2>10, OneMoreWord
  <2>12. b2 \in Seq(Args)
    BY <2>10, AppendProperties
  <2> HIDE DEF b2, w2, c
  <2>13. Reads(r, b2 \o << <<"--">>, text >>, Read(r, b2).options, w2, <<text>>)
    BY <1>1, <2>11, <2>12, CalmPrompt
  <2>14. Reads(r, c \o << <<"--">>, text >>, Read(r, b).options, W, <<text>>)
    BY <2>6, <2>7, <2>9, <2>11, <2>13
  <2> QED BY <2>14 DEF r, c, W
<1> QED BY <1>2, <1>3

\* Codex takes its model as a setting.
CodexModelSaid(a) == IF a.model = <<>> THEN {} ELSE {<<"-c", <<"model=">> \o a.model>>}

CodexModel(a) == IF a.model = <<>> THEN <<>> ELSE Lits(<<"-c">>) \o <<Lit(<<"model=">> \o a.model)>>

\* What Codex's per-turn process always asks.
Checks == {<<"--json", Nothing>>, <<"--skip-git-repo-check", Nothing>>}

\* The model's setting says itself.
LEMMA SaysCodexModel ==
  ASSUME NEW ws, NEW roots, NEW in, NEW extra, Given("codex", ws, roots, in, extra),
         NEW a, a.model \in Args
  PROVE  Says("codex", ws, roots, in, extra, CodexModel(a), CodexModelSaid(a))
<1> DEFINE r == "codex"
           v == <<"model=">> \o a.model
           x == CodexModel(a)
           D == CodexModelSaid(a)
<1>1. Given(r, ws, roots, in, extra)
  OBVIOUS
<1>2. CASE a.model = <<>>
  <2>1. x = <<>> /\ D = {}
    BY <1>2 DEF CodexModel, CodexModelSaid
  <2> HIDE DEF x, D, r
  <2>2. Says(r, ws, roots, in, extra, x, D)
    BY <2>1, SaysNothing
  <2> QED BY <2>2 DEF x, D, r
<1>3. CASE a.model # <<>>
  <2> DEFINE f == "-c"
             l == Lits(<<f>>)
             y == Lit(<<f>>)
             z == Lit(v)
  <2>1. v \in Args
    <3>1. <<"model=">> \in Args
      BY WordsAre
    <3> QED BY <3>1, ArgsConcat
  <2>2. x = l \o <<z>> /\ D = {<<f, v>>}
    BY <1>3 DEF CodexModel, CodexModelSaid
  <2>3. f \in Valued(r)
    BY DEF Valued
  <2>4. l = <<y>>
    BY LitsOne
  <2>5. <<y>> \o <<z>> = <<y, z>>
    <3> DEFINE U == {y, z}
    <3>1. y \in U /\ z \in U
      OBVIOUS
    <3> HIDE DEF U, y, z
    <3> QED BY <3>1, PairIsConcat
  <2>6. Says(r, ws, roots, in, extra, <<y, z>>, {<<f, v>>})
    <3> HIDE DEF v, f, r
    <3> QED BY <1>1, <2>1, <2>3, SaysValued DEF y, z
  <2> HIDE DEF l, y, z, x, D, r, v
  <2>7. Says(r, ws, roots, in, extra, x, D)
    BY <2>2, <2>4, <2>5, <2>6
  <2> QED BY <2>7 DEF x, D, r
<1> QED BY <1>2, <1>3

\* The two switches say themselves.
LEMMA SaysChecks ==
  ASSUME NEW ws, NEW roots, NEW in, NEW extra, Given("codex", ws, roots, in, extra)
  PROVE  Says("codex", ws, roots, in, extra, Lits(<<"--json", "--skip-git-repo-check">>), Checks)
<1> DEFINE r == "codex"
           f == "--json"
           g == "--skip-git-repo-check"
           x == Lits(<<f>>)
           y == Lits(<<g>>)
           D == {<<f, Nothing>>}
           E == {<<g, Nothing>>}
           F == <<f>>
           G == <<g>>
<1>1. Given(r, ws, roots, in, extra) /\ f \in Switches(r) /\ g \in Switches(r)
  BY DEF Switches
<1>2. Checks = D \union E
  BY DEF Checks
<1>3. f \in Parts /\ g \in Parts
  BY LiteralsAre
<1> HIDE DEF r, f, g
<1>4. Says(r, ws, roots, in, extra, Lits(F), D) /\ Says(r, ws, roots, in, extra, Lits(G), E)
  BY <1>1, SaysSwitch
<1>5. F \in Args /\ G \in Args
  BY <1>3, OneText
<1>6. F \o G = <<f, g>>
  BY <1>3, PairIsConcat
<1> HIDE DEF D, E, F, G
<1>7. Says(r, ws, roots, in, extra, Lits(F \o G), D \union E)
  BY <1>1, <1>4, <1>5, SaysLits
<1>8. Says(r, ws, roots, in, extra, Lits(<<f, g>>), Checks)
  BY <1>2, <1>6, <1>7
<1> QED BY <1>8 DEF f, g, r

\* Moving the brackets of joined parts.
LEMMA ConcatLeft ==
  ASSUME NEW S, NEW x \in Seq(S), NEW y \in Seq(S), NEW z \in Seq(S)
  PROVE  (x \o y) \o z = x \o (y \o z) /\ y \o z \in Seq(S) /\ x \o y \in Seq(S)
<1>1. (x \o y) \o z = x \o (y \o z)
  BY ConcatAssociative
<1>2. y \o z \in Seq(S) /\ x \o y \in Seq(S)
  BY ConcatProperties
<1> QED BY <1>1, <1>2

LEMMA ConcatsLeft ==
  \A S : \A x, y, z \in Seq(S) : (x \o y) \o z = x \o (y \o z) /\ y \o z \in Seq(S)
<1> SUFFICES ASSUME NEW S, NEW x \in Seq(S), NEW y \in Seq(S), NEW z \in Seq(S)
             PROVE  (x \o y) \o z = x \o (y \o z) /\ y \o z \in Seq(S)
  OBVIOUS
<1> QED BY ConcatLeft

\* The app-server takes its options and nothing else.
LEMMA CodexServes ==
  ASSUME NEW roots, NEW in, NEW extra, NEW ws, ws = << <<"app-server">> >>,
         Given("codex", ws, roots, in, extra), NEW X, Adds("codex", ws, extra, X),
         NEW a, a.model \in Args, NEW p
  PROVE  LET args == CodexArgs(a, Plain(JSONRPC), p)
         IN  /\ args \in Seq(Templates) /\ HasExtra(args)
             /\ Reads("codex", Filled(args, "extra", roots, in, extra), CodexModelSaid(a) \union X, ws, <<>>)
<1> DEFINE r == "codex"
           word == "app-server"
           f == <<word>>
           none == <<>>
           slot == "extra"
           h == Lits(f)
           m == CodexModel(a)
           M == CodexModelSaid(a)
           e == <<Extra>>
           args == CodexArgs(a, Plain(JSONRPC), p)
           T == Seq(Templates)
           S(seg, D) == Says(r, ws, roots, in, extra, seg, D)
<1>1. S(m, M) /\ S(e, X)
  <2>1. Given(r, ws, roots, in, extra) /\ Adds(r, ws, extra, X)
    OBVIOUS
  <2>2. S(m, M)
    BY SaysCodexModel
  <2> HIDE DEF r
  <2>3. S(e, X)
    BY <2>1, SaysExtra
  <2> QED BY <2>2, <2>3
<1>2. \A x, D, z, E : S(x, D) /\ S(z, E) => S(x \o z, D \union E)
  BY SaysBoth
<1>3. \A x, D : S(x, D) => x \in T
  BY DEF Says
<1>4. HasExtra(e)
  BY ExtraHasExtra
<1>5. \A x, z \in T : HasExtra(x) \/ HasExtra(z) => HasExtra(x \o z)
  BY HasExtraConcat
<1>6. f \in Args /\ word \notin Dashed
  BY WordsAre, NotFlags
<1>7. Plain(JSONRPC).mode = JSONRPC
  BY ClaudeShapesDiffer
<1>8. args = (h \o m) \o e
  BY <1>7, Zenon DEF CodexArgs, CodexModel
<1>9. h \in T
  BY <1>6, LitsType DEF Args
<1> HIDE DEF S, m, M, e, h, T
<1>10. S(m \o e, M \union X) /\ m \in T /\ e \in T
  BY <1>1, <1>2, <1>3
<1>11. (h \o m) \o e = h \o (m \o e) /\ m \o e \in T
  BY <1>9, <1>10, ConcatsLeft DEF T
<1>12. HasExtra(m \o e)
  BY <1>4, <1>5, <1>10
<1>13. HasExtra(h \o (m \o e))
  BY <1>5, <1>9, <1>11, <1>12
<1> DEFINE seg == m \o e
           D == M \union X
           b == Filled(h \o seg, slot, roots, in, extra)
<1>14. h \o seg \in T /\ b \in Seq(Args) /\ Calm(r, ws, Read(r, b)) /\ Read(r, b).options = D
  <2>1. /\ <<word>> \in Args /\ word \notin Dashed /\ ws = << <<word>> >>
        /\ Given(r, ws, roots, in, extra)
    BY <1>6
  <2>0. slot = "extra"
    OBVIOUS
  <2>2. Says(r, ws, roots, in, extra, seg, D)
    BY <1>10 DEF S
  <2> HIDE DEF seg, D, r, word, slot, b
  <2>3. LET c == Filled(Lits(<<word>>) \o seg, "extra", roots, in, extra)
        IN  /\ Lits(<<word>>) \o seg \in Seq(Templates)
            /\ c \in Seq(Args) /\ Calm(r, ws, Read(r, c)) /\ Read(r, c).options = D
    BY <2>1, <2>2, ReadsAfterWord
  <2>4. h = Lits(<<word>>)
    BY <2>1 DEF h
  <2>5. b = Filled(Lits(<<word>>) \o seg, "extra", roots, in, extra)
    BY <2>0, <2>4 DEF b
  <2> HIDE DEF h
  <2> QED BY <2>3, <2>4, <2>5 DEF T
<1>15. Reads(r, b, Read(r, b).options, ws, none)
  <2>1. none = <<>>
    OBVIOUS
  <2> HIDE DEF b, none, r
  <2> QED BY <1>14, <2>1, ReadsCalm
<1>16. args = h \o seg
  <2> HIDE DEF args
  <2> QED BY <1>8, <1>11
<1>17. HasExtra(h \o seg)
  BY <1>13
<1> HIDE DEF seg, D, args, none, r
<1>18. args \in T /\ HasExtra(args) /\ Reads(r, Filled(args, slot, roots, in, extra), D, ws, none)
  BY <1>14, <1>15, <1>16, <1>17
<1> QED BY <1>18 DEF T, args, D, M, none, r

\* A per-turn process takes its options, the thread to resume and the prompt.
LEMMA CodexExecs ==
  ASSUME NEW roots, NEW in, NEW extra, NEW ws, ws = << <<"exec">> >>,
         Given("codex", ws, roots, in, extra), NEW X, Adds("codex", ws, extra, X),
         NEW a, a.model \in Args, NEW p, NEW P, Says("codex", ws, roots, in, extra, p.projectDirs, P),
         in.resume = <<>> \/ in.resume[1] \notin Dashed
  PROVE  LET args == CodexArgs(a, Plain(PerTurn), p)
         IN  /\ args \in Seq(Templates) /\ HasExtra(args)
             /\ Reads("codex", Filled(args, "extra", roots, in, extra),
                      CodexModelSaid(a) \union X \union Checks \union P,
                      ResumeWords("exec", in.resume), <<in.prompt>>)
<1> DEFINE r == "codex"
           word == "exec"
           f == <<word>>
           slot == "extra"
           h == Lits(f)
           m == CodexModel(a)
           M == CodexModelSaid(a)
           e == <<Extra>>
           c == Lits(<<"--json", "--skip-git-repo-check">>)
           d == p.projectDirs
           t == <<Resume("resume")>>
           q == <<Prompt>>
           id == in.resume
           text == in.prompt
           args == CodexArgs(a, Plain(PerTurn), p)
           T == Seq(Templates)
           S(x, D) == Says(r, ws, roots, in, extra, x, D)
<1>1. S(m, M) /\ S(e, X) /\ S(c, Checks) /\ S(d, P)
  <2>1. Given(r, ws, roots, in, extra) /\ Adds(r, ws, extra, X)
    OBVIOUS
  <2>2. S(m, M) /\ S(c, Checks) /\ S(d, P)
    BY SaysCodexModel, SaysChecks
  <2> HIDE DEF r
  <2>3. S(e, X)
    BY <2>1, SaysExtra
  <2> QED BY <2>2, <2>3
<1>2. \A x, D, z, E : S(x, D) /\ S(z, E) => S(x \o z, D \union E)
  BY SaysBoth
<1>3. \A x, D : S(x, D) => x \in T
  BY DEF Says
<1>4. HasExtra(e)
  BY ExtraHasExtra
<1>5. \A x, z \in T : HasExtra(x) \/ HasExtra(z) => HasExtra(x \o z)
  BY HasExtraConcat
<1>6. f \in Args /\ word \notin Dashed
  BY WordsAre, NotFlags
<1>7. Plain(PerTurn).mode = PerTurn /\ PerTurn # JSONRPC
  BY ClaudeShapesDiffer DEF PerTurn, JSONRPC
<1>8. /\ roots \in Paths /\ in \in Inputs /\ extra \in Seq(Args) /\ r \in CLIs
      /\ id \in Args /\ text \in Args
  BY DEF Given, Inputs
<1>9. h \in T
  BY <1>6, LitsType DEF Args
<1>10. /\ Prompt \in Templates /\ Prompt.kind = "prompt" /\ Prompt.omit = FALSE /\ Prompt.firstOnly = FALSE
       /\ Prompt.system = FALSE
  BY PromptTypes
<1>11. q \in T /\ t \in T
  BY <1>8, <1>10, OneTemplate, FilledThread
<1>12. Filled(q, slot, roots, in, extra) = << <<"--">>, text >>
  <2>1. TextGiven(Prompt, in) = text
    BY <1>10 DEF TextGiven
  <2>2. Filled(<<Prompt>>, slot, roots, in, extra) = << <<"--">>, TextGiven(Prompt, in) >>
    BY <1>10, <1>8, FilledPrompt
  <2> QED BY <2>1, <2>2
<1> DEFINE thread == IF id = <<>> THEN <<>> ELSE << <<"resume">>, id >>
           last == << <<"--">>, text >>
<1>13. Filled(t, slot, roots, in, extra) = thread
  BY <1>8, FilledThread
<1>14. <<Resume("resume"), Prompt>> = t \o q
  BY <1>8, <1>10, FilledThread, PairIsConcat
<1>15. args = (h \o m \o e \o c \o d) \o (t \o q)
  <2>1. args = (h \o m \o e \o c \o d) \o <<Resume("resume"), Prompt>>
    BY <1>7, Zenon DEF CodexArgs, CodexModel
  <2> HIDE DEF h, m, e, c, d, t, q, args
  <2> QED BY <2>1, <1>14
<1> HIDE DEF S, m, M, e, c, d, h, T, t, q, args
<1>16. S(m \o e, M \union X) /\ m \in T /\ e \in T /\ c \in T /\ d \in T
  BY <1>1, <1>2, <1>3
<1>17. S(m \o e \o c, M \union X \union Checks)
  BY <1>1, <1>2, <1>16
<1>18. S(m \o e \o c \o d, M \union X \union Checks \union P)
  BY <1>1, <1>2, <1>17
<1> DEFINE seg == m \o e \o c \o d
           D == M \union X \union Checks \union P
           front == h \o seg
           b == Filled(front, slot, roots, in, extra)
<1>19. h \o m \o e \o c \o d = front
  <2> DEFINE C(x, y) == x \o y
             a1 == C(m, e)
             a2 == C(a1, c)
  <2>1. \A x, y, z \in T : C(C(x, y), z) = C(x, C(y, z)) /\ C(y, z) \in T
    BY ConcatsLeft DEF T
  <2>2. h \in T /\ m \in T /\ e \in T /\ c \in T /\ d \in T
    BY <1>9, <1>16
  <2>3. h \o m \o e \o c \o d = C(C(C(C(h, m), e), c), d) /\ front = C(h, C(a2, d))
    OBVIOUS
  <2> HIDE DEF C, front
  <2>4. a1 \in T /\ C(C(h, m), e) = C(h, a1)
    BY <2>1, <2>2
  <2> HIDE DEF a1
  <2>5. a2 \in T /\ C(C(h, a1), c) = C(h, a2)
    BY <2>1, <2>2, <2>4
  <2> HIDE DEF a2
  <2>6. C(C(h, a2), d) = C(h, C(a2, d))
    BY <2>1, <2>2, <2>5
  <2> QED BY <2>3, <2>4, <2>5, <2>6
<1>20. seg \in T
  BY <1>18, <1>3
<1>21. front \in T /\ t \o q \in T /\ front \o (t \o q) \in T
  <2> HIDE DEF seg
  <2> QED BY <1>9, <1>11, <1>20, ConcatProperties DEF T
<1>22. HasExtra(front \o (t \o q))
  <2>1. HasExtra(m \o e) /\ m \o e \in T
    BY <1>3, <1>4, <1>5, <1>16
  <2>2. HasExtra(m \o e \o c) /\ m \o e \o c \in T
    BY <1>3, <1>5, <1>16, <1>17, <2>1
  <2>3. HasExtra(seg)
    BY <1>5, <1>16, <2>2
  <2> HIDE DEF seg
  <2>4. HasExtra(front)
    BY <1>5, <1>9, <1>20, <2>3
  <2> HIDE DEF front
  <2> QED BY <1>5, <1>21, <2>4
<1>23. b \in Seq(Args) /\ Calm(r, ws, Read(r, b)) /\ Read(r, b).options = D
  <2>1. /\ <<word>> \in Args /\ word \notin Dashed /\ ws = << <<word>> >>
        /\ Given(r, ws, roots, in, extra)
    BY <1>6
  <2>0. slot = "extra"
    OBVIOUS
  <2>2. Says(r, ws, roots, in, extra, seg, D)
    BY <1>18 DEF S
  <2> HIDE DEF seg, D, r, word, slot, b
  <2>3. LET g == Filled(Lits(<<word>>) \o seg, "extra", roots, in, extra)
        IN  /\ Lits(<<word>>) \o seg \in Seq(Templates)
            /\ g \in Seq(Args) /\ Calm(r, ws, Read(r, g)) /\ Read(r, g).options = D
    BY <2>1, <2>2, ReadsAfterWord, SMTT(30)
  <2>4. h = Lits(<<word>>)
    BY <2>1 DEF h
  <2>5. b = Filled(Lits(<<word>>) \o seg, "extra", roots, in, extra)
    BY <2>0, <2>4 DEF b
  <2> QED BY <2>3, <2>5
<1>24. Filled(front \o (t \o q), slot, roots, in, extra) = (b \o thread) \o last
  <2> DEFINE F(x) == Filled(x, slot, roots, in, extra)
  <2>1. \A x, y \in T : F(x \o y) = F(x) \o F(y)
    BY <1>8, FilledConcat DEF T
  <2>2. F(t) = thread /\ F(q) = last /\ F(front) = b
    BY <1>12, <1>13
  <2>3. thread \in Seq(Args) /\ last \in Seq(Args)
    <3>1. F(t) \in Seq(Args) /\ F(q) \in Seq(Args)
      BY <1>8, <1>11, FilledType DEF T
    <3> QED BY <2>2, <3>1
  <2> HIDE DEF F, thread, last, b, front
  <2>4. F(front \o (t \o q)) = b \o (thread \o last)
    BY <1>11, <1>21, <2>1, <2>2
  <2>5. (b \o thread) \o last = b \o (thread \o last)
    BY <1>23, <2>3, ConcatsLeft, SMTT(30)
  <2> QED BY <2>4, <2>5 DEF F
<1>25. Reads(r, (b \o thread) \o last, Read(r, b).options, ResumeWords(word, id), <<text>>)
  <2>1. ws = << <<word>> >> /\ thread = (IF id = <<>> THEN <<>> ELSE << <<"resume">>, id >>)
    OBVIOUS
  <2>2. Calm("codex", ws, Read("codex", b)) /\ (id = <<>> \/ id[1] \notin Dashed)
    BY <1>23
  <2> HIDE DEF b, thread, word, id, text
  <2>3. Reads("codex", (b \o thread) \o << <<"--">>, text >>, Read("codex", b).options,
               ResumeWords(word, id), <<text>>)
    BY <1>8, <1>23, <2>1, <2>2, ThreadReads
  <2> QED BY <2>3
<1> HIDE DEF b, thread, last, front, seg, D
<1>26. args = front \o (t \o q)
  BY <1>15, <1>19
<1>27. /\ args \in T /\ HasExtra(args)
       /\ Reads(r, Filled(args, slot, roots, in, extra), D, ResumeWords(word, id), <<text>>)
  BY <1>21, <1>22, <1>23, <1>24, <1>25, <1>26
<1> QED BY <1>27 DEF T, args, D, M, r

-----------------------------------------------------------------------------
(* What OpenCode's and Antigravity's command lines say. *)

\* The part seg, filled in and read from the start, leaves the CLI between
\* two options with the words ws and the options D.
Starts(r, ws, roots, in, extra, seg, D) ==
  LET b == Filled(seg, "extra", roots, in, extra)
  IN  /\ seg \in Seq(Templates) /\ b \in Seq(Args)
      /\ Calm(r, ws, Read(r, b)) /\ Read(r, b).options = D

\* A subcommand's word, and the options behind it.
LEMMA StartsWord ==
  ASSUME NEW r, NEW ws, NEW roots, NEW in, NEW extra, Given(r, ws, roots, in, extra),
         NEW word, <<word>> \in Args, word \notin Dashed, ws = << <<word>> >>
  PROVE  Starts(r, ws, roots, in, extra, Lits(<<word>>), {})
<1> DEFINE w == <<word>>
           x == <<w>>
           b == Filled(Lits(w), "extra", roots, in, extra)
<1>1. r \in CLIs /\ roots \in Paths /\ in \in Inputs /\ extra \in Seq(Args)
  BY DEF Given
<1>2. Lits(w) = <<Lit(w)>>
  BY LitsOne
<1>3. Lits(w) \in Seq(Templates) /\ b = x
  <2>1. <<Lit(w)>> \in Seq(Templates) /\ Filled(<<Lit(w)>>, "extra", roots, in, extra) = <<w>>
    <3> HIDE DEF w
    <3> QED BY <1>1, FilledLit DEF w
  <2> QED BY <2>1, <1>2
<1>4. x = ws /\ x \in Seq(Args)
  <2> HIDE DEF w
  <2> QED BY OneOrTwo DEF w
<1>5. Calm(r, ws, Read(r, x)) /\ Read(r, x).options = {}
  BY <1>1, <1>4, WordCalm
<1> HIDE DEF b, x
<1> QED BY <1>3, <1>4, <1>5 DEF Starts, b, w

LEMMA StartsSays ==
  ASSUME NEW r, NEW ws, NEW roots, NEW in, NEW extra, Given(r, ws, roots, in, extra),
         NEW x, NEW D, Starts(r, ws, roots, in, extra, x, D),
         NEW z, NEW E, Says(r, ws, roots, in, extra, z, E)
  PROVE  Starts(r, ws, roots, in, extra, x \o z, D \union E)
<1> DEFINE slot == "extra"
           F(y) == Filled(y, slot, roots, in, extra)
           b == F(x)
           c == F(z)
<1>1. roots \in Paths /\ in \in Inputs /\ extra \in Seq(Args)
  BY DEF Given
<1>2. /\ x \in Seq(Templates) /\ b \in Seq(Args)
      /\ Calm(r, ws, Read(r, b)) /\ Read(r, b).options = D
  BY DEF Starts
<1>3. z \in Seq(Templates) /\ Adds(r, ws, c, E)
  BY DEF Says
<1>4. F(x \o z) = b \o c
  BY <1>1, <1>2, <1>3, FilledConcat, ZenonT(30)
<1>5. x \o z \in Seq(Templates)
  BY <1>2, <1>3, ConcatProperties
<1> HIDE DEF b, c
<1>6. b \o c \in Seq(Args)
  BY <1>2, <1>3, ConcatProperties DEF Adds
<1>7. Calm(r, ws, Read(r, b \o c)) /\ Read(r, b \o c).options = D \union E
  BY <1>2, <1>3 DEF Adds
<1> QED BY <1>4, <1>5, <1>6, <1>7 DEF Starts

\* The prompt, behind "--".
LEMMA StartsPrompt ==
  ASSUME NEW r, NEW ws, NEW roots, NEW in, NEW extra, Given(r, ws, roots, in, extra),
         NEW x, NEW D, Starts(r, ws, roots, in, extra, x, D),
         NEW t \in Templates, t.kind = "prompt", t.omit = FALSE, t.firstOnly = FALSE
  PROVE  /\ x \o <<t>> \in Seq(Templates)
         /\ Reads(r, Filled(x \o <<t>>, "extra", roots, in, extra), D, ws, <<TextGiven(t, in)>>)
<1> DEFINE slot == "extra"
           F(y) == Filled(y, slot, roots, in, extra)
           b == F(x)
           q == <<t>>
           text == TextGiven(t, in)
           last == << <<"--">>, text >>
<1>1. roots \in Paths /\ in \in Inputs /\ extra \in Seq(Args) /\ r \in CLIs
  BY DEF Given
<1>2. /\ x \in Seq(Templates) /\ b \in Seq(Args)
      /\ Calm(r, ws, Read(r, b)) /\ Read(r, b).options = D
  BY DEF Starts
<1>3. q \in Seq(Templates)
  BY OneTemplate
<1>4. F(q) = last
  BY <1>1, FilledPrompt
<1>5. text \in Args
  BY <1>1, TextGivenType
<1>6. Reads(r, b \o last, Read(r, b).options, ws, <<text>>)
  <2> HIDE DEF b, text
  <2> QED BY <1>1, <1>2, <1>5, CalmPrompt
<1> HIDE DEF q, last, b
<1>7. F(x \o q) = b \o last
  <2>1. F(x \o q) = F(x) \o F(q)
    BY <1>1, <1>2, <1>3, FilledConcat, ZenonT(30)
  <2> QED BY <1>4, <2>1 DEF b
<1>8. x \o q \in Seq(Templates)
  BY <1>2, <1>3, ConcatProperties
<1>9. Reads(r, F(x \o q), D, ws, <<text>>)
  BY <1>2, <1>6, <1>7
<1> QED BY <1>8, <1>9 DEF q

LEMMA StartsReads ==
  ASSUME NEW r, NEW ws, NEW roots, NEW in, NEW extra, NEW x, NEW D, Starts(r, ws, roots, in, extra, x, D)
  PROVE  /\ x \in Seq(Templates)
         /\ Reads(r, Filled(x, "extra", roots, in, extra), D, ws, <<>>)
<1> DEFINE b == Filled(x, "extra", roots, in, extra)
<1>1. x \in Seq(Templates) /\ Calm(r, ws, Read(r, b)) /\ Read(r, b).options = D
  BY DEF Starts
<1> HIDE DEF b
<1>2. Reads(r, b, Read(r, b).options, ws, <<>>)
  BY <1>1, ReadsCalm
<1> QED BY <1>1, <1>2 DEF b

\* The subcommand that serves.
LEMMA FindRuntime == Find("opencode", Plain(HTTPSSE), "runtime").flag = "serve"
<1> DEFINE s == Plain(HTTPSSE)
<1>1. s.mode = HTTPSSE /\ s = Plain(s.mode)
  BY PlainIsNotBare
<1> HIDE DEF s
<1>2. Find("opencode", s, "runtime") = Table[24]
  BY <1>1, ModeRows
<1>3. Table[24].flag = "serve"
  BY ArgumentRows
<1> QED BY <1>2, <1>3 DEF s

\* Lists of four and five, written as appends.
LEMMA FourAreAppends ==
  /\ \A a, b, c, d : <<a, b, c, d>> = Append(<<a, b, c>>, d)
  /\ \A a, b, c, d, e : <<a, b, c, d, e>> = Append(<<a, b, c, d>>, e)
  OBVIOUS

LEMMA FiveIs ==
  ASSUME NEW S, NEW a \in S, NEW b \in S, NEW c \in S, NEW d \in S, NEW e \in S
  PROVE  /\ <<a, b, c>> \o <<d>> = <<a, b, c, d>>
         /\ <<a, b, c>> \o <<d, e>> = <<a, b, c, d, e>>
         /\ <<a, b, c>> \in Seq(S)
<1> DEFINE x == <<a>>
           y == <<b, c>>
           z == <<a, b, c>>
           z4 == <<a, b, c, d>>
           z5 == <<a, b, c, d, e>>
           u == <<d>>
           v == <<e>>
           w == <<d, e>>
<1>1. x \in Seq(S) /\ y \in Seq(S) /\ u \in Seq(S) /\ v \in Seq(S) /\ w \in Seq(S)
  BY OneIn, TwoIn
<1>2. x \o y = z
  BY ThreeIs
<1>3. z4 = Append(z, d) /\ z5 = Append(z4, e)
  BY FourAreAppends
<1>4. u \o v = w
  BY PairIsConcat
<1> HIDE DEF x, y, z, z4, z5, w
<1>5. z \in Seq(S)
  BY <1>1, <1>2, ConcatProperties
<1>6. z4 = z \o u
  BY <1>3, <1>5, AppendIsConcat
<1>7. z4 \in Seq(S)
  BY <1>1, <1>5, <1>6, ConcatProperties
<1>8. z5 = z4 \o v
  BY <1>3, <1>7, AppendIsConcat
<1> HIDE DEF u, v
<1>9. (z \o u) \o v = z \o (u \o v)
  BY <1>1, <1>5, ConcatsLeft, SMTT(30)
<1>10. z5 = z \o w
  BY <1>4, <1>6, <1>8, <1>9
<1> QED BY <1>5, <1>6, <1>10 DEF z, z4, z5, u, w

\* Lists of literals in the pieces they say something in.
FourLits(a, b, c, d) == Lits(<<a, b, c, d>>) = (Lits(<<a>>) \o Lits(<<b, c>>)) \o Lits(<<d>>)

FiveLits(a, b, c, d, e) == Lits(<<a, b, c, d, e>>) = (Lits(<<a>>) \o Lits(<<b, c>>)) \o Lits(<<d, e>>)

LEMMA LitsFive == \A a, b, c, d, e \in Parts : FourLits(a, b, c, d) /\ FiveLits(a, b, c, d, e)
<1> SUFFICES ASSUME NEW a \in Parts, NEW b \in Parts, NEW c \in Parts, NEW d \in Parts, NEW e \in Parts
             PROVE  FourLits(a, b, c, d) /\ FiveLits(a, b, c, d, e)
  OBVIOUS
<1> DEFINE x == <<a>>
           y == <<b, c>>
           z == <<a, b, c>>
           u == <<d>>
           v == <<d, e>>
           z4 == <<a, b, c, d>>
           z5 == <<a, b, c, d, e>>
<1>1. z \o u = z4 /\ z \o v = z5 /\ z \in Seq(Parts)
  BY FiveIs
<1>2. x \o y = z
  BY ThreeIs
<1>3. x \in Seq(Parts) /\ y \in Seq(Parts) /\ u \in Seq(Parts) /\ v \in Seq(Parts)
  BY OneIn, TwoIn
<1> HIDE DEF x, y, z, u, v, z4, z5
<1>4. Lits(z) = Lits(x) \o Lits(y)
  BY <1>2, <1>3, LitsConcat
<1>5. Lits(z4) = Lits(z) \o Lits(u) /\ Lits(z5) = Lits(z) \o Lits(v)
  BY <1>1, <1>3, LitsConcat
<1>6. Lits(z4) = (Lits(x) \o Lits(y)) \o Lits(u) /\ Lits(z5) = (Lits(x) \o Lits(y)) \o Lits(v)
  BY <1>4, <1>5
<1> QED BY <1>6 DEF x, y, u, v, z4, z5, FourLits, FiveLits

\* Where OpenCode's server listens.
ServeSaid == {<<"--port", <<"0">>>>, <<"--hostname", <<"127.0.0.1">>>>}

\* The server: where it listens, and nothing else.
LEMMA OpencodeServes ==
  ASSUME NEW roots, NEW in, NEW extra, NEW ws, ws = << <<"serve">> >>,
         Given("opencode", ws, roots, in, extra), NEW X, Adds("opencode", ws, extra, X),
         NEW a, NEW agent, NEW p
  PROVE  LET args == OpencodeArgs(a, Plain(HTTPSSE), agent, p)
         IN  /\ args \in Seq(Templates) /\ HasExtra(args)
             /\ Reads("opencode", Filled(args, "extra", roots, in, extra), ServeSaid \union X, ws, <<>>)
<1> DEFINE r == "opencode"
           word == "serve"
           port == "--port"
           zero == "0"
           host == "--hostname"
           addr == "127.0.0.1"
           h == Lits(<<word>>)
           m == Lits(<<port, zero>>)
           k == Lits(<<host, addr>>)
           M == {<<port, <<zero>>>>}
           K == {<<host, <<addr>>>>}
           e == <<Extra>>
           args == OpencodeArgs(a, Plain(HTTPSSE), agent, p)
           T == Seq(Templates)
           St(x, D) == Starts(r, ws, roots, in, extra, x, D)
           S(x, D) == Says(r, ws, roots, in, extra, x, D)
           none == {}
<1>0. Given(r, ws, roots, in, extra) /\ Adds(r, ws, extra, X) /\ ws = << <<word>> >>
  OBVIOUS
<1>1. S(m, M) /\ S(k, K)
  <2>1. port \in Valued(r) /\ host \in Valued(r)
    BY DEF Valued
  <2>2. <<zero>> \in Args /\ <<addr>> \in Args
    BY WordsAre
  <2> HIDE DEF r, port, zero, host, addr
  <2>3. S(m, M)
    BY <1>0, <2>1, <2>2, SaysWord
  <2>4. S(k, K)
    BY <1>0, <2>1, <2>2, SaysWord
  <2> QED BY <2>3, <2>4
<1>2. S(e, X)
  <2> HIDE DEF r
  <2> QED BY <1>0, SaysExtra
<1>3. St(h, none)
  <2>1. <<word>> \in Args /\ word \notin Dashed
    BY WordsAre, NotFlags
  <2> HIDE DEF r, word
  <2> QED BY <1>0, <2>1, StartsWord
<1>4. \A x, D, z, E : St(x, D) /\ S(z, E) => St(x \o z, D \union E)
  BY StartsSays
<1>5. args = ((h \o m) \o k) \o e
  <2>1. /\ word \in Parts /\ port \in Parts /\ zero \in Parts /\ host \in Parts /\ addr \in Parts
    BY LiteralsAre
  <2>2. Find(r, Plain(HTTPSSE), "runtime").flag = word
    BY FindRuntime
  <2>3. Plain(HTTPSSE).mode = HTTPSSE
    BY ClaudeShapesDiffer
  <2>4. args = Lits(<<Find(r, Plain(HTTPSSE), "runtime").flag, port, zero, host, addr>>) \o e
    BY <2>3, Zenon DEF OpencodeArgs
  <2> HIDE DEF word, port, zero, host, addr, r, args, e
  <2>5. args = Lits(<<word, port, zero, host, addr>>) \o e
    BY <2>2, <2>4
  <2>6. Lits(<<word, port, zero, host, addr>>) = (h \o m) \o k
    <3>1. FiveLits(word, port, zero, host, addr)
      BY <2>1, LitsFive
    <3> QED BY <3>1 DEF FiveLits
  <2> QED BY <2>5, <2>6
<1>6. HasExtra(e)
  BY ExtraHasExtra
<1>7. \A x, z \in T : HasExtra(x) \/ HasExtra(z) => HasExtra(x \o z)
  BY HasExtraConcat
<1>8. \A x, D : (St(x, D) => x \in T) /\ (S(x, D) => x \in T)
  BY DEF Starts, Says
<1>9. ServeSaid = M \union K
  BY DEF ServeSaid
<1> HIDE DEF h, m, k, e, M, K, St, S, T, none
<1>10. St(h \o m, none \union M)
  BY <1>1, <1>3, <1>4
<1>11. St((h \o m) \o k, none \union M \union K)
  BY <1>1, <1>10, <1>4
<1>12. St(((h \o m) \o k) \o e, none \union M \union K \union X)
  BY <1>2, <1>11, <1>4
<1>13. HasExtra(((h \o m) \o k) \o e)
  BY <1>2, <1>6, <1>7, <1>8, <1>11
<1>14. none \union M \union K \union X = ServeSaid \union X
  BY <1>9 DEF none
<1> HIDE DEF args, r
<1>15. Starts(r, ws, roots, in, extra, args, ServeSaid \union X)
  BY <1>5, <1>12, <1>14 DEF St
<1>16. args \in Seq(Templates) /\ Reads(r, Filled(args, "extra", roots, in, extra), ServeSaid \union X, ws, <<>>)
  BY <1>15, StartsReads
<1>17. HasExtra(args)
  BY <1>5, <1>13
<1> QED BY <1>16, <1>17 DEF args, r

\* A run: its agent, model, project, session, and the text behind "--".
RunSaid(a, agent, in, P) ==
  {<<"--format", <<"json">>>>, <<"--agent", agent>>} \union OptionOf("--model", a.model) \union P
    \union OptionOf("--session", in.resume)

\* A run of OpenCode: what its command line is read as.
LEMMA OpencodeRuns ==
  ASSUME NEW roots, NEW in, NEW extra, NEW ws, ws = << <<"run">> >>,
         Given("opencode", ws, roots, in, extra), NEW X, Adds("opencode", ws, extra, X),
         NEW a, a.model \in Args, NEW agent \in Args, NEW p,
         NEW P, Says("opencode", ws, roots, in, extra, p.projectDirs, P)
  PROVE  LET args == OpencodeArgs(a, Plain(PerTurn), agent, p)
         IN  /\ args \in Seq(Templates) /\ HasExtra(args)
             /\ Reads("opencode", Filled(args, "extra", roots, in, extra), RunSaid(a, agent, in, P) \union X,
                      ws, <<PrefixSystem(in.prompt, in.system)>>)
<1> DEFINE r == "opencode"
           word == "run"
           format == "--format"
           json == "json"
           ag == "--agent"
           model == "--model"
           session == "--session"
           h == Lits(<<word>>)
           m == Lits(<<format, json>>)
           k == <<Lit(<<ag>>), Lit(agent)>>
           v == Value(model, a.model)
           d == p.projectDirs
           n == <<Resume(session)>>
           e == <<Extra>>
           t == WithSystem(Prompt)
           M == {<<format, <<json>>>>}
           K == {<<ag, agent>>}
           V == OptionOf(model, a.model)
           N == OptionOf(session, in.resume)
           args == OpencodeArgs(a, Plain(PerTurn), agent, p)
           T == Seq(Templates)
           St(x, D) == Starts(r, ws, roots, in, extra, x, D)
           S(x, D) == Says(r, ws, roots, in, extra, x, D)
           none == {}
<1>0. Given(r, ws, roots, in, extra) /\ Adds(r, ws, extra, X) /\ ws = << <<word>> >>
  OBVIOUS
<1>1. S(m, M) /\ S(k, K) /\ S(v, V) /\ S(d, P) /\ S(n, N) /\ S(e, X)
  <2>1. /\ format \in Valued(r) /\ ag \in Valued(r) /\ model \in Valued(r) /\ session \in Valued(r)
    BY DEF Valued
  <2>2. <<json>> \in Args
    BY WordsAre
  <2>3. session \notin Joined
    BY DEF Joined
  <2>4. S(d, P)
    OBVIOUS
  <2> HIDE DEF r, format, json, ag, model, session
  <2>5. S(m, M)
    BY <1>0, <2>1, <2>2, SaysWord
  <2>6. S(k, K)
    BY <1>0, <2>1, SaysValued
  <2>7. S(v, V)
    BY <1>0, <2>1, SaysValue
  <2>8. S(n, N)
    BY <1>0, <2>1, <2>3, SaysResume
  <2>9. S(e, X)
    BY <1>0, SaysExtra
  <2> QED BY <2>4, <2>5, <2>6, <2>7, <2>8, <2>9
<1>3. St(h, none)
  <2>1. <<word>> \in Args /\ word \notin Dashed
    BY WordsAre, NotFlags
  <2> HIDE DEF r, word
  <2> QED BY <1>0, <2>1, StartsWord
<1>4. \A x, D, z, E : St(x, D) /\ S(z, E) => St(x \o z, D \union E)
  BY StartsSays
<1>5. args = ((((((h \o m) \o k) \o v) \o d) \o n) \o e) \o <<t>>
  <2>1. /\ word \in Parts /\ format \in Parts /\ json \in Parts /\ ag \in Parts
    BY LiteralsAre
  <2>2. Plain(PerTurn).mode = PerTurn /\ PerTurn # HTTPSSE
    BY ClaudeShapesDiffer DEF PerTurn, HTTPSSE
  <2> DEFINE y == Lit(<<ag>>)
             z == Lit(agent)
             E3 == Extra
             n1 == Resume(session)
             L4 == Lits(<<word, format, json, ag>>)
  <2>3. args = L4 \o <<z>> \o v \o d \o <<n1, E3, t>>
    BY <2>2, Zenon DEF OpencodeArgs
  <2>4. Lits(<<ag>>) = <<y>>
    BY LitsOne
  <2>5. L4 = (h \o m) \o <<y>>
    <3> HIDE DEF word, format, json, ag, y
    <3>1. L4 = (h \o m) \o Lits(<<ag>>)
      <4>1. FourLits(word, format, json, ag)
        BY <2>1, LitsFive
      <4> QED BY <4>1 DEF FourLits
    <3> QED BY <3>1, <2>4
  <2>6. y \in Templates /\ z \in Templates /\ n1 \in Templates /\ E3 \in Templates /\ t \in Templates
    <3>1. <<ag>> \in Args
      BY WordsAre
    <3>2. <<n1>> \in T
      BY <1>1 DEF Says
    <3>3. n1 \in Templates
      <4> HIDE DEF n1
      <4> QED BY <3>2
    <3>4. y \in Templates
      <4> DEFINE f == <<ag>>
      <4> HIDE DEF f
      <4> QED BY <3>1, LitType DEF f
    <3> QED BY <3>3, <3>4, LitType, ExtraType, PromptTypes
  <2> HIDE DEF y, z, n1, E3, t, h, m, v, d, args
  <2>7. <<y>> \o <<z>> = <<y, z>>
    BY <2>6, PairIsConcat
  <2>8. (<<n1>> \o <<E3>>) \o <<t>> = <<n1, E3, t>>
    <3>1. <<n1>> \o <<E3>> = <<n1, E3>>
      BY <2>6, PairIsConcat
    <3>2. <<n1, E3>> \o <<t>> = <<n1, E3, t>>
      BY <2>6, ThreeIs
    <3> QED BY <3>1, <3>2
  <2> DEFINE C(x, u) == x \o u
             hm == C(h, m)
             y1 == <<y>>
             z1 == <<z>>
             n2 == <<n1>>
             e1 == <<E3>>
             t1 == <<t>>
             W == C(C(C(hm, C(y1, z1)), v), d)
             ne == C(n2, e1)
  <2>9. \A x, u, w \in T : C(C(x, u), w) = C(x, C(u, w)) /\ C(u, w) \in T
    BY ConcatsLeft
  <2>10. hm \in T /\ v \in T /\ d \in T
    <3>1. h \in T /\ m \in T /\ v \in T /\ d \in T
      BY <1>1, <1>3 DEF Starts, Says
    <3> HIDE DEF C, T
    <3> QED BY <3>1, <2>9
  <2>11. y1 \in T /\ z1 \in T /\ n2 \in T /\ e1 \in T /\ t1 \in T
    BY <2>6, OneTemplate
  <2>12. args = C(C(C(C(C(hm, y1), z1), v), d), C(ne, t1))
    BY <2>3, <2>5, <2>8
  <2>13. ((((((h \o m) \o k) \o v) \o d) \o n) \o e) \o <<t>> = C(C(C(W, n2), e1), t1)
    BY <2>7 DEF y, z, n1, E3
  <2> HIDE DEF C, T, y1, z1, n2, e1, t1, hm
  <2>14. C(C(hm, y1), z1) = C(hm, C(y1, z1)) /\ C(y1, z1) \in T
    BY <2>9, <2>10, <2>11
  <2>15. args = C(W, C(ne, t1))
    BY <2>12, <2>14
  <2>16. W \in T
    <3> DEFINE w0 == C(y1, z1)
    <3>1. w0 \in T
      BY <2>14
    <3> HIDE DEF w0
    <3>2. C(hm, w0) \in T
      BY <2>9, <2>10, <3>1
    <3>3. C(C(hm, w0), v) \in T
      BY <2>9, <2>10, <3>2
    <3>4. C(C(C(hm, w0), v), d) \in T
      BY <2>9, <2>10, <3>3
    <3> QED BY <3>4 DEF w0
  <2> HIDE DEF W
  <2>17. ne \in T /\ C(C(W, n2), e1) = C(W, ne)
    BY <2>9, <2>11, <2>16
  <2> HIDE DEF ne
  <2>18. C(C(W, ne), t1) = C(W, C(ne, t1))
    BY <2>9, <2>11, <2>16, <2>17
  <2> QED BY <2>13, <2>15, <2>17, <2>18
<1>6. HasExtra(e)
  BY ExtraHasExtra
<1>7. \A x, z \in T : HasExtra(x) \/ HasExtra(z) => HasExtra(x \o z)
  BY HasExtraConcat
<1>8. \A x, D : (St(x, D) => x \in T) /\ (S(x, D) => x \in T)
  BY DEF Starts, Says
<1>9. RunSaid(a, agent, in, P) = (M \union K) \union V \union P \union N
  <2> HIDE DEF V, N
  <2>1. RunSaid(a, agent, in, P) = {<<format, <<json>>>>, <<ag, agent>>} \union V \union P \union N
    BY DEF RunSaid, V, N
  <2> QED BY <2>1
<1>10. /\ t \in Templates /\ t.kind = "prompt" /\ t.omit = FALSE /\ t.firstOnly = FALSE
       /\ t.system = TRUE
  BY PromptTypes
<1>11. TextGiven(t, in) = PrefixSystem(in.prompt, in.system)
  BY <1>10 DEF TextGiven
<1> HIDE DEF h, m, k, v, d, n, e, t, M, K, V, N, St, S, T, none
<1>12. St(h \o m, none \union M)
  BY <1>1, <1>3, <1>4
<1>13. St((h \o m) \o k, none \union M \union K)
  BY <1>1, <1>12, <1>4
<1>14. St(((h \o m) \o k) \o v, none \union M \union K \union V)
  BY <1>1, <1>13, <1>4
<1>15. St((((h \o m) \o k) \o v) \o d, none \union M \union K \union V \union P)
  BY <1>1, <1>14, <1>4
<1>16. St(((((h \o m) \o k) \o v) \o d) \o n, none \union M \union K \union V \union P \union N)
  BY <1>1, <1>15, <1>4
<1>17. St((((((h \o m) \o k) \o v) \o d) \o n) \o e, none \union M \union K \union V \union P \union N \union X)
  BY <1>1, <1>16, <1>4
<1> DEFINE x == (((((h \o m) \o k) \o v) \o d) \o n) \o e
           D == RunSaid(a, agent, in, P) \union X
<1>18. none \union M \union K \union V \union P \union N \union X = D
  BY <1>9 DEF none
<1>19. HasExtra(x) /\ x \in T
  BY <1>1, <1>6, <1>7, <1>8, <1>16, <1>17
<1>20. args = x \o <<t>>
  BY <1>5
<1> HIDE DEF x, args, D, r
<1>21. Starts(r, ws, roots, in, extra, x, D)
  BY <1>17, <1>18 DEF St, x
<1>22. /\ x \o <<t>> \in Seq(Templates)
       /\ Reads(r, Filled(x \o <<t>>, "extra", roots, in, extra), D, ws, <<TextGiven(t, in)>>)
  BY <1>0, <1>10, <1>21, StartsPrompt
<1>23. HasExtra(x \o <<t>>)
  <2>1. <<t>> \in T
    BY <1>10, OneTemplate DEF T
  <2> QED BY <1>7, <1>19, <2>1
<1>24. /\ args \in Seq(Templates) /\ HasExtra(args)
       /\ Reads(r, Filled(args, "extra", roots, in, extra), D, ws, <<PrefixSystem(in.prompt, in.system)>>)
  BY <1>11, <1>20, <1>22, <1>23
<1> QED BY <1>24 DEF args, D, r

\* Antigravity's permission, as arguments and as options.
PermissionArgs(a) ==
  CASE a.permission = "bypass" -> Lits(<<SkipFlag>>)
    [] a.permission \in {"accept-edits", "plan"} -> Lits(<<"--mode", a.permission>>)
    [] OTHER -> <<>>

PermissionSaid(a) ==
  CASE a.permission = "bypass" -> {<<SkipFlag, Nothing>>}
    [] a.permission \in {"accept-edits", "plan"} -> {<<"--mode", <<a.permission>>>>}
    [] OTHER -> {}

\* Antigravity's prompt is joined to its flag.
InlinePrompt == WithSystem(Template("prompt-inline", <<"-p=">>))

\* What Antigravity's command line is to say.
AntigravitySays(a, in, P, X) ==
  {<<"--output-format", <<"stream-json">>>>} \union PermissionSaid(a) \union OptionOf("--model", a.model)
    \union OptionOf("--effort", a.effort) \union OptionOf("--agent", a.agent) \union X \union P
    \union OptionOf("--conversation", in.resume) \union {<<"-p=", PrefixSystem(in.prompt, in.system)>>}

\* The permission's arguments say it.
LEMMA SaysPermission ==
  ASSUME NEW ws, NEW roots, NEW in, NEW extra, Given("antigravity", ws, roots, in, extra),
         NEW a, <<a.permission>> \in Args
  PROVE  Says("antigravity", ws, roots, in, extra, PermissionArgs(a), PermissionSaid(a))
<1> DEFINE r == "antigravity"
           x == PermissionArgs(a)
           D == PermissionSaid(a)
           mode == "--mode"
           v == a.permission
<1>1. Given(r, ws, roots, in, extra)
  OBVIOUS
<1>2. SkipFlag \in Switches(r) /\ mode \in Valued(r)
  BY DEF Switches, Valued
<1>3. ASSUME v = "bypass" PROVE Says(r, ws, roots, in, extra, x, D)
  <2>1. x = Lits(<<SkipFlag>>) /\ D = {<<SkipFlag, Nothing>>}
    BY <1>3, Zenon DEF PermissionArgs, PermissionSaid
  <2> HIDE DEF x, D, r, v
  <2> QED BY <1>1, <1>2, <2>1, SaysSwitch
<1>4. ASSUME v # "bypass", v \in {"accept-edits", "plan"} PROVE Says(r, ws, roots, in, extra, x, D)
  <2>1. x = Lits(<<mode, v>>) /\ D = {<<mode, <<v>>>>}
    BY <1>4, Zenon DEF PermissionArgs, PermissionSaid
  <2> HIDE DEF x, D, r, v, mode
  <2>2. Says(r, ws, roots, in, extra, Lits(<<mode, v>>), {<<mode, <<v>>>>})
    BY <1>1, <1>2, SaysWord DEF v
  <2> QED BY <2>1, <2>2
<1>5. ASSUME v # "bypass", v \notin {"accept-edits", "plan"} PROVE Says(r, ws, roots, in, extra, x, D)
  <2>1. x = <<>> /\ D = {}
    BY <1>5, Zenon DEF PermissionArgs, PermissionSaid
  <2> HIDE DEF x, D, r
  <2> QED BY <2>1, SaysNothing
<1> HIDE DEF x, D
<1>6. Says(r, ws, roots, in, extra, x, D)
  BY <1>3, <1>4, <1>5
<1> QED BY <1>6 DEF x, D, r

\* The joined prompt says the prompt.
LEMMA SaysInline ==
  ASSUME NEW ws, NEW roots, NEW in, NEW extra, Given("antigravity", ws, roots, in, extra)
  PROVE  Says("antigravity", ws, roots, in, extra, <<InlinePrompt>>,
              {<<"-p=", PrefixSystem(in.prompt, in.system)>>})
<1> DEFINE r == "antigravity"
           f == "-p="
           w == <<f>>
           u == Template("prompt-inline", w)
           t == InlinePrompt
           v == PrefixSystem(in.prompt, in.system)
<1>1. Given(r, ws, roots, in, extra) /\ r \in CLIs /\ Open(r, ws) /\ in \in Inputs
  BY DEF Given
<1>2. f \in Inline(r) /\ w \in Args
  BY WordsAre DEF Inline
<1>3. u \in Templates
  <2>1. "prompt-inline" \in PieceKinds
    BY DEF PieceKinds
  <2> HIDE DEF w
  <2> QED BY <1>2, <2>1, TemplateType
<1>4. u.kind = "prompt-inline" /\ u.value = w /\ u.firstOnly = FALSE
  BY DEF Template
<1>5. t = [u EXCEPT !.system = TRUE]
  BY DEF InlinePrompt, WithSystem
<1> HIDE DEF u, t, w, f, r
<1>6. /\ t \in Templates /\ t.kind = "prompt-inline" /\ t.value = w /\ t.firstOnly = FALSE /\ t.system = TRUE
  BY <1>3, <1>4, <1>5 DEF Templates
<1>7. v \in Args
  BY <1>1, PrefixType DEF Inputs
<1> HIDE DEF v
<1>8. ResolveTemplate(roots, t, in) = <<w \o v>>
  BY <1>6 DEF ResolveTemplate, v
<1>9. Adds(r, ws, <<w \o v>>, {<<f, v>>})
  BY <1>1, <1>2, <1>7, AddsInline DEF w
<1>10. Adds(r, ws, ResolveTemplate(roots, t, in), {<<f, v>>})
  BY <1>8, <1>9
<1>11. Says(r, ws, roots, in, extra, <<t>>, {<<f, v>>})
  <2>1. t.kind # "extra"
    BY <1>6
  <2> QED BY <1>1, <1>6, <1>10, <2>1, SaysOne
<1> QED BY <1>11 DEF r, t, f, v

\* Antigravity's command line is read as meant.
LEMMA AntigravityReads ==
  ASSUME NEW roots, NEW in, NEW extra, NEW none, none = <<>>,
         Given("antigravity", none, roots, in, extra), NEW X, Adds("antigravity", none, extra, X),
         NEW a, a.model \in Args, a.effort \in Args, a.agent \in Args, <<a.permission>> \in Args,
         NEW p, NEW P, Says("antigravity", none, roots, in, extra, p.projectDirs, P)
  PROVE  LET args == AntigravityArgs(a, p)
         IN  /\ args \in Seq(Templates) /\ HasExtra(args)
             /\ Reads("antigravity", Filled(args, "extra", roots, in, extra), AntigravitySays(a, in, P, X),
                      none, none)
<1> DEFINE r == "antigravity"
           output == "--output-format"
           stream == "stream-json"
           model == "--model"
           effort == "--effort"
           ag == "--agent"
           conv == "--conversation"
           f == "-p="
           m == Lits(<<output, stream>>)
           c == PermissionArgs(a)
           v == Value(model, a.model)
           g == Value(effort, a.effort)
           h == Value(ag, a.agent)
           e == <<Extra>>
           d == p.projectDirs
           n == <<Resume(conv)>>
           q == <<InlinePrompt>>
           M == {<<output, <<stream>>>>}
           C == PermissionSaid(a)
           V == OptionOf(model, a.model)
           G == OptionOf(effort, a.effort)
           H == OptionOf(ag, a.agent)
           N == OptionOf(conv, in.resume)
           Q == {<<f, PrefixSystem(in.prompt, in.system)>>}
           args == AntigravityArgs(a, p)
           T == Seq(Templates)
           S(x, D) == Says(r, none, roots, in, extra, x, D)
<1>0. Given(r, none, roots, in, extra) /\ Adds(r, none, extra, X)
  OBVIOUS
<1>1. S(m, M) /\ S(v, V) /\ S(g, G) /\ S(h, H) /\ S(n, N) /\ S(e, X)
  <2>1. /\ output \in Valued(r) /\ model \in Valued(r) /\ effort \in Valued(r) /\ ag \in Valued(r)
        /\ conv \in Valued(r)
    BY DEF Valued
  <2>2. <<stream>> \in Args
    BY WordsAre
  <2>3. conv \notin Joined
    BY DEF Joined
  <2> HIDE DEF r, output, stream, model, effort, ag, conv
  <2>4. S(m, M)
    BY <1>0, <2>1, <2>2, SaysWord
  <2>5. S(v, V)
    BY <1>0, <2>1, SaysValue
  <2>6. S(g, G)
    BY <1>0, <2>1, SaysValue
  <2>7. S(h, H)
    BY <1>0, <2>1, SaysValue
  <2>8. S(n, N)
    BY <1>0, <2>1, <2>3, SaysResume
  <2>9. S(e, X)
    BY <1>0, SaysExtra
  <2> QED BY <2>4, <2>5, <2>6, <2>7, <2>8, <2>9
<1>2. S(c, C)
  BY SaysPermission
<1>3. S(q, Q)
  BY SaysInline
<1>4. S(d, P)
  OBVIOUS
<1>5. \A x, D, z, E : S(x, D) /\ S(z, E) => S(x \o z, D \union E)
  BY SaysBoth
<1>6. \A x, D : S(x, D) => x \in T
  BY DEF Says
<1>7. HasExtra(e)
  BY ExtraHasExtra
<1>8. \A x, z \in T : HasExtra(x) \/ HasExtra(z) => HasExtra(x \o z)
  BY HasExtraConcat
<1>9. args = m \o c \o v \o g \o h \o e \o d \o n \o q
  BY Zenon DEF AntigravityArgs, PermissionArgs, InlinePrompt
<1>10. AntigravitySays(a, in, P, X) = M \union C \union V \union G \union H \union X \union P \union N \union Q
  BY Zenon DEF AntigravitySays
<1> HIDE DEF S, T, m, c, v, g, h, e, d, n, q, M, C, V, G, H, N, Q, args
<1>11. S(m \o c, M \union C)
  BY <1>1, <1>2, <1>5
<1>12. S(m \o c \o v, M \union C \union V)
  BY <1>1, <1>11, <1>5
<1>13. S(m \o c \o v \o g, M \union C \union V \union G)
  BY <1>1, <1>12, <1>5
<1>14. S(m \o c \o v \o g \o h, M \union C \union V \union G \union H)
  BY <1>1, <1>13, <1>5
<1>15. S(m \o c \o v \o g \o h \o e, M \union C \union V \union G \union H \union X)
  BY <1>1, <1>14, <1>5
<1>16. S(m \o c \o v \o g \o h \o e \o d, M \union C \union V \union G \union H \union X \union P)
  BY <1>4, <1>15, <1>5
<1>17. S(m \o c \o v \o g \o h \o e \o d \o n, M \union C \union V \union G \union H \union X \union P \union N)
  BY <1>1, <1>16, <1>5
<1>18. S(m \o c \o v \o g \o h \o e \o d \o n \o q, M \union C \union V \union G \union H \union X \union P \union N \union Q)
  BY <1>3, <1>17, <1>5
<1>19. HasExtra(m \o c \o v \o g \o h \o e)
  BY <1>1, <1>14, <1>6, <1>7, <1>8
<1>20. HasExtra(m \o c \o v \o g \o h \o e \o d)
  BY <1>4, <1>15, <1>19, <1>6, <1>8
<1>21. HasExtra(m \o c \o v \o g \o h \o e \o d \o n)
  BY <1>1, <1>16, <1>20, <1>6, <1>8
<1>22. HasExtra(m \o c \o v \o g \o h \o e \o d \o n \o q)
  BY <1>3, <1>17, <1>21, <1>6, <1>8
<1> DEFINE D == AntigravitySays(a, in, P, X)
           b == Filled(args, "extra", roots, in, extra)
<1>23. S(args, D) /\ HasExtra(args)
  BY <1>9, <1>10, <1>18, <1>22
<1>24. args \in T
  BY <1>6, <1>23
<1> HIDE DEF D, b, r
<1>25. Calm(r, none, Read(r, b)) /\ Read(r, b).options = D
  BY <1>0, <1>23, ReadsOptions DEF S, b
<1>26. Reads(r, b, Read(r, b).options, none, <<>>)
  BY <1>25, ReadsCalm
<1>27. args \in Seq(Templates) /\ HasExtra(args) /\ Reads(r, b, D, none, none)
  BY <1>23, <1>24, <1>25, <1>26 DEF T
<1> QED BY <1>27 DEF args, b, D, r

-----------------------------------------------------------------------------
(* The two ways to a command line agree. *)

\* Parts that name no path give the same either way.
LEMMA AlikeOne ==
  ASSUME NEW in, NEW extra, NEW t \in Templates, t.kind \notin {"file", "root"}
  PROVE  Alike(in, extra, <<t>>, <<t>>)
<1> DEFINE x == <<t>>
<1>1. x \in Seq(Templates)
  BY OneTemplate
<1>2. \A i \in DOMAIN x : x[i].kind \notin {"file", "root"}
  OBVIOUS
<1> HIDE DEF x
<1>3. Alike(in, extra, x, x)
  BY <1>1, <1>2, AlikeRootless
<1> QED BY <1>3 DEF x

LEMMA AlikeLits ==
  ASSUME NEW in, NEW extra, NEW s \in Args
  PROVE  Alike(in, extra, Lits(s), Lits(s))
<1> DEFINE x == Lits(s)
<1>1. x \in Seq(Templates)
  BY LitsType DEF Args
<1>2. \A i \in DOMAIN x : x[i].kind \notin {"file", "root"}
  BY DEF Lits, Lit, Template
<1> HIDE DEF x
<1>3. Alike(in, extra, x, x)
  BY <1>1, <1>2, AlikeRootless
<1> QED BY <1>3 DEF x

LEMMA AlikeValue ==
  ASSUME NEW in \in Inputs, NEW extra \in Seq(Args), NEW flag, <<flag>> \in Args, NEW v \in Args
  PROVE  Alike(in, extra, Value(flag, v), Value(flag, v))
<1> DEFINE x == Value(flag, v)
           f == <<flag>>
<1>1. CASE v = <<>>
  <2>1. x = <<>>
    BY <1>1 DEF Value
  <2> HIDE DEF x
  <2>2. Alike(in, extra, x, x)
    BY <2>1, AlikeNothing
  <2> QED BY <2>2 DEF x
<1>2. CASE v # <<>>
  <2> DEFINE y == Lits(f)
             z == <<Lit(v)>>
  <2>1. x = y \o z
    BY <1>2 DEF Value
  <2>2. Alike(in, extra, y, y)
    BY AlikeLits
  <2>3. Lit(v) \in Templates /\ Lit(v).kind = "literal"
    BY LitType
  <2>4. Alike(in, extra, z, z)
    BY <2>3, AlikeOne
  <2> HIDE DEF y, z, x
  <2>5. Alike(in, extra, y \o z, y \o z)
    BY <2>2, <2>4, AlikeBoth
  <2>6. Alike(in, extra, x, x)
    BY <2>1, <2>5
  <2> QED BY <2>6 DEF x
<1> QED BY <1>1, <1>2

LEMMA AlikePieces ==
  ASSUME NEW in \in Inputs, NEW extra \in Seq(Args)
  PROVE  /\ Alike(in, extra, <<Extra>>, <<Extra>>)
         /\ Alike(in, extra, <<Prompt>>, <<Prompt>>)
         /\ Alike(in, extra, <<SystemTemplate>>, <<SystemTemplate>>)
         /\ \A f : <<f>> \in Args => Alike(in, extra, <<Resume(f)>>, <<Resume(f)>>)
<1>1. Alike(in, extra, <<Extra>>, <<Extra>>)
  BY ExtraType, AlikeOne
<1>2. Alike(in, extra, <<Prompt>>, <<Prompt>>)
  BY PromptTypes, AlikeOne
<1>3. Alike(in, extra, <<SystemTemplate>>, <<SystemTemplate>>)
  <2> DEFINE w == <<"--system-prompt=">>
             u == Template("system-prompt", w)
             t == SystemTemplate
  <2>1. w \in Args /\ "system-prompt" \in PieceKinds
    BY WordsAre DEF PieceKinds
  <2>2. u.kind = "system-prompt"
    BY DEF Template
  <2>3. t = [u EXCEPT !.firstOnly = TRUE]
    BY DEF SystemTemplate
  <2>4. u \in Templates
    <3> HIDE DEF w
    <3> QED BY <2>1, TemplateType
  <2> HIDE DEF u, t
  <2>5. t \in Templates /\ t.kind = "system-prompt"
    BY <2>2, <2>3, <2>4 DEF Templates
  <2>6. Alike(in, extra, <<t>>, <<t>>)
    BY <2>5, AlikeOne
  <2> QED BY <2>6 DEF t
<1>4. ASSUME NEW f, <<f>> \in Args PROVE Alike(in, extra, <<Resume(f)>>, <<Resume(f)>>)
  <2> DEFINE w == <<f>>
             t == Resume(f)
  <2>1. "resume" \in PieceKinds /\ t = Template("resume", w)
    BY DEF PieceKinds, Resume
  <2>2. t \in Templates
    <3> HIDE DEF w, t
    <3> QED BY <1>4, <2>1, TemplateType DEF w
  <2>3. t.kind = "resume"
    BY DEF Resume, Template
  <2> HIDE DEF t
  <2>4. Alike(in, extra, <<t>>, <<t>>)
    BY <2>2, <2>3, AlikeOne
  <2> QED BY <2>4 DEF t
<1> QED BY <1>1, <1>2, <1>3, <1>4

\* Claude's convention gives one command line over layout and over fields.
LEMMA ClaudeArgsAlike ==
  ASSUME NEW in \in Inputs, NEW extra \in Seq(Args), NEW p, NEW q, AlikePaths(in, extra, p, q),
         NEW a, <<a.mode>> \in Args, a.model \in Args, NEW s \in ClaudeShapes
  PROVE  Alike(in, extra, ClaudeArgs(a, s, p), ClaudeArgs(a, s, q))
<1> DEFINE A(x, y) == Alike(in, extra, x, y)
           none == <<>>
           fixed == ClaudeFixedArgs(a, s)
           model == Value("--model", a.model)
           strict == IF a.exclusive THEN Lits(<<StrictFlag>>) ELSE none
           m == ClaudeMcp(a, p)
           n == ClaudeMcp(a, q)
           b == ClaudeBody(a, s, p)
           c == ClaudeBody(a, s, q)
           sys == <<SystemTemplate>>
           res == <<Resume("--resume")>>
           e == <<Extra>>
           skip == IF a.skip THEN Lits(<<SkipFlag>>) ELSE none
           last == IF s.mode = PerTurn THEN <<Prompt>> ELSE none
<1>0. A(none, none)
  BY AlikeNothing
<1>1. \A x, y, z, w : A(x, y) /\ A(z, w) => A(x \o z, y \o w)
  BY AlikeBoth
<1>2. \A w \in Args : A(Lits(w), Lits(w))
  BY AlikeLits
<1>3. A(sys, sys) /\ A(e, e)
  BY AlikePieces
<1>4. A(res, res)
  <2>1. <<"--resume">> \in Args
    BY WordsAre
  <2> QED BY <2>1, AlikePieces
<1>5. A(model, model)
  <2>1. <<"--model">> \in Args
    BY WordsAre
  <2> QED BY <2>1, AlikeValue
<1>6. A(strict, strict) /\ A(skip, skip) /\ A(last, last)
  <2>1. <<StrictFlag>> \in Args /\ <<SkipFlag>> \in Args
    BY WordsAre DEF StrictFlag, SkipFlag
  <2>2. A(<<Prompt>>, <<Prompt>>)
    BY AlikePieces
  <2>3. A(Lits(<<StrictFlag>>), Lits(<<StrictFlag>>)) /\ A(Lits(<<SkipFlag>>), Lits(<<SkipFlag>>))
    BY <1>2, <2>1
  <2> HIDE DEF A, none
  <2> QED BY <1>0, <2>2, <2>3
<1>7. A(fixed, fixed)
  <2> DEFINE w1 == <<"-p", "--input-format", "stream-json">> \o Stream
             w2 == <<"-p">> \o Stream
             w3 == w2 \o <<"--bare">>
             w4 == <<"--input-format", a.mode>>
             y == IF a.mode # "" THEN Lits(w4) ELSE none
  <2>1. w1 \in Args /\ w2 \in Args
    BY StreamIs, ArgsConcat
  <2>2. w3 \in Args
    <3> HIDE DEF w2
    <3> QED BY <2>1, StreamIs, ArgsConcat
  <2>3. w4 \in Args
    <3> DEFINE f == <<"--input-format">>
               g == <<a.mode>>
    <3>1. "--input-format" \in Parts
      BY LiteralsAre
    <3>2. a.mode \in Parts
      <4> DEFINE md == a.mode
      <4>1. <<md>> \in Args
        OBVIOUS
      <4> HIDE DEF md
      <4>2. md \in Parts
        BY <4>1 DEF Args
      <4> QED BY <4>2 DEF md
    <3> QED BY <3>1, <3>2, TwoIn DEF Args
  <2>4. A(Lits(w1), Lits(w1)) /\ A(Lits(w2), Lits(w2)) /\ A(Lits(w3), Lits(w3)) /\ A(Lits(w4), Lits(w4))
    <3> HIDE DEF A, w1, w2, w3, w4
    <3> QED BY <1>2, <2>1, <2>2, <2>3
  <2>5. A(y, y)
    <3> HIDE DEF A, w4, none
    <3> QED BY <1>0, <2>4
  <2>6. \/ fixed = none \/ fixed = Lits(w1) \/ fixed = Lits(w3) \/ fixed = Lits(w2) \o y
    <3>1. CASE s = Plain(PTYMode)
      <4>1. s # Plain(Streaming) /\ s # Bare
        BY <3>1, ClaudeShapesDiffer
      <4>2. fixed = none
        BY <3>1, <4>1, Zenon DEF ClaudeFixedArgs
      <4> QED BY <4>2
    <3>2. CASE s = Plain(Streaming)
      <4>1. s # Bare /\ s # Plain(PTYMode)
        BY <3>2, ClaudeShapesDiffer
      <4>2. fixed = Lits(w1)
        BY <3>2, <4>1, Zenon DEF ClaudeFixedArgs
      <4> QED BY <4>2
    <3>3. CASE s = Bare
      <4>1. s # Plain(Streaming) /\ s # Plain(PTYMode)
        BY <3>3, ClaudeShapesDiffer
      <4>2. fixed = Lits(w3)
        BY <3>3, <4>1, Zenon DEF ClaudeFixedArgs
      <4> QED BY <4>2
    <3>4. CASE s = Plain(PerTurn)
      <4>1. s # Plain(Streaming) /\ s # Plain(PTYMode) /\ s # Bare
        BY <3>4, ClaudeShapesDiffer
      <4>2. fixed = Lits(w2) \o y
        BY <3>4, <4>1, Zenon DEF ClaudeFixedArgs
      <4> QED BY <4>2
    <3> HIDE DEF fixed, none, w1, w2, w3, y
    <3> QED BY <3>1, <3>2, <3>3, <3>4 DEF ClaudeShapes
  <2> HIDE DEF A, w1, w2, w3, y, none, fixed
  <2>7. A(Lits(w2) \o y, Lits(w2) \o y)
    BY <1>1, <2>4, <2>5
  <2> QED BY <1>0, <2>4, <2>6, <2>7
<1>8. /\ A(p.mcp, q.mcp) /\ A(p.projectDirs, q.projectDirs) /\ A(p.instructions, q.instructions)
      /\ A(p.settings, q.settings) /\ A(p.skillsDir, q.skillsDir)
  BY DEF AlikePaths
<1>9. m = p.mcp \o strict /\ n = q.mcp \o strict
  BY DEF ClaudeMcp
<1>10. \A x : /\ ClaudeFront(a, s, x) = res \o ClaudeBody(a, s, x) \o e \o x.projectDirs \o x.skillsDir \o skip
             /\ ClaudeArgs(a, s, x) = ClaudeFront(a, s, x) \o last
  BY ClaudeArgsAre, Zenon DEF ClaudeFront
<1>11. \A x : ClaudeBody(a, s, x) =
         CASE s = Plain(PTYMode) -> model \o ClaudeMcp(a, x)
           [] s = Plain(Streaming) -> (fixed \o model) \o ClaudeMcp(a, x)
           [] s = Bare -> (((fixed \o model) \o ClaudeMcp(a, x)) \o x.instructions) \o x.settings
           [] s = Plain(PerTurn) -> ((fixed \o model) \o ClaudeMcp(a, x)) \o sys
  <2> SUFFICES ASSUME NEW x
               PROVE  ClaudeBody(a, s, x) =
         CASE s = Plain(PTYMode) -> model \o ClaudeMcp(a, x)
           [] s = Plain(Streaming) -> (fixed \o model) \o ClaudeMcp(a, x)
           [] s = Bare -> (((fixed \o model) \o ClaudeMcp(a, x)) \o x.instructions) \o x.settings
           [] s = Plain(PerTurn) -> ((fixed \o model) \o ClaudeMcp(a, x)) \o sys
    OBVIOUS
  <2>1. CASE s = Plain(PTYMode)
    <3>1. ClaudeBody(a, s, x) = model \o ClaudeMcp(a, x)
      BY <2>1, ClaudeShapesDiffer DEF ClaudeBody
    <3> QED BY <2>1, <3>1, ClaudeShapesDiffer, Zenon
  <2>2. CASE s = Plain(Streaming)
    <3>1. s # Bare /\ s # Plain(PerTurn) /\ s # Plain(PTYMode) /\ s.mode = Streaming /\ s.mode # PTYMode
      BY <2>2, ClaudeShapesDiffer
    <3>2. fixed = Lits(<<"-p", "--input-format", "stream-json">> \o Stream)
      BY <2>2, <3>1, Zenon DEF ClaudeFixedArgs
    <3>3. ClaudeBody(a, s, x) = (Lits(<<"-p", "--input-format", "stream-json">> \o Stream) \o model) \o ClaudeMcp(a, x)
      BY <2>2, <3>1, Zenon DEF ClaudeBody
    <3>4. ClaudeBody(a, s, x) = (fixed \o model) \o ClaudeMcp(a, x)
      BY <3>2, <3>3
    <3> QED BY <2>2, <3>1, <3>4, Zenon
  <2>3. CASE s = Bare
    <3>1. s # Plain(PerTurn) /\ s # Plain(PTYMode) /\ s # Plain(Streaming) /\ s.mode # Streaming /\ s.mode # PTYMode
      BY <2>3, ClaudeShapesDiffer
    <3>2. fixed = Lits((<<"-p">> \o Stream) \o <<"--bare">>)
      BY <2>3, <3>1, Zenon DEF ClaudeFixedArgs
    <3>3. ClaudeBody(a, s, x)
            = (((Lits((<<"-p">> \o Stream) \o <<"--bare">>) \o model) \o ClaudeMcp(a, x)) \o x.instructions) \o x.settings
      BY <2>3, <3>1, Zenon DEF ClaudeBody
    <3> DEFINE L == Lits((<<"-p">> \o Stream) \o <<"--bare">>)
    <3> HIDE DEF fixed, L, model
    <3>4. ClaudeBody(a, s, x) = (((fixed \o model) \o ClaudeMcp(a, x)) \o x.instructions) \o x.settings
      BY <3>2, <3>3 DEF L
    <3> QED BY <2>3, <3>1, <3>4, Zenon
  <2>4. CASE s = Plain(PerTurn)
    <3>1. s # Bare /\ s # Plain(PTYMode) /\ s # Plain(Streaming) /\ s.mode # Streaming /\ s.mode # PTYMode
      BY <2>4, ClaudeShapesDiffer
    <3> DEFINE w == Lits(<<"-p">> \o Stream)
               y == IF a.mode # "" THEN Lits(<<"--input-format", a.mode>>) ELSE <<>>
    <3>2. fixed = w \o y
      BY <2>4, <3>1, Zenon DEF ClaudeFixedArgs
    <3>3. ClaudeBody(a, s, x) = (((w \o y) \o model) \o ClaudeMcp(a, x)) \o sys
      BY <2>4, <3>1, Zenon DEF ClaudeBody
    <3> HIDE DEF fixed, w, y, model, sys
    <3>4. ClaudeBody(a, s, x) = ((fixed \o model) \o ClaudeMcp(a, x)) \o sys
      BY <3>2, <3>3
    <3> QED BY <2>4, <3>1, <3>4, Zenon
  <2> QED BY <2>1, <2>2, <2>3, <2>4 DEF ClaudeShapes
<1> HIDE DEF A, none, fixed, model, strict, sys, res, e, skip, last
<1>12. A(m, n)
  BY <1>1, <1>6, <1>8, <1>9
<1>13. A(fixed \o model, fixed \o model)
  BY <1>1, <1>5, <1>7
<1> HIDE DEF m, n
<1>14. A((fixed \o model) \o m, (fixed \o model) \o n)
  BY <1>1, <1>12, <1>13
<1>15. A(b, c)
  <2>1. CASE s = Plain(PTYMode)
    <3>1. b = model \o m /\ c = model \o n
      BY <2>1, <1>11, ClaudeShapesDiffer, Zenon DEF m, n
    <3> HIDE DEF b, c
    <3> QED BY <1>1, <1>5, <1>12, <3>1
  <2>2. CASE s = Plain(Streaming)
    <3>1. b = (fixed \o model) \o m /\ c = (fixed \o model) \o n
      BY <2>2, <1>11, ClaudeShapesDiffer, Zenon DEF m, n
    <3> HIDE DEF b, c
    <3> QED BY <1>14, <3>1
  <2>3. CASE s = Bare
    <3> DEFINE u == (fixed \o model) \o m
               v == (fixed \o model) \o n
    <3>1. b = (u \o p.instructions) \o p.settings /\ c = (v \o q.instructions) \o q.settings
      BY <2>3, <1>11, ClaudeShapesDiffer, Zenon DEF m, n
    <3>2. A(u, v)
      BY <1>14
    <3> HIDE DEF b, c, u, v
    <3>3. A(u \o p.instructions, v \o q.instructions)
      BY <1>1, <1>8, <3>2
    <3> QED BY <1>1, <1>8, <3>1, <3>3
  <2>4. CASE s = Plain(PerTurn)
    <3> DEFINE u == (fixed \o model) \o m
               v == (fixed \o model) \o n
    <3>1. b = u \o sys /\ c = v \o sys
      BY <2>4, <1>11, ClaudeShapesDiffer, Zenon DEF m, n
    <3>2. A(u, v)
      BY <1>14
    <3> HIDE DEF b, c, u, v
    <3> QED BY <1>1, <1>3, <3>1, <3>2
  <2> QED BY <2>1, <2>2, <2>3, <2>4 DEF ClaudeShapes
<1>16. /\ ClaudeArgs(a, s, p) = (res \o b \o e \o p.projectDirs \o p.skillsDir \o skip) \o last
       /\ ClaudeArgs(a, s, q) = (res \o c \o e \o q.projectDirs \o q.skillsDir \o skip) \o last
  BY <1>10
<1> HIDE DEF b, c
<1>17. A(res \o b, res \o c)
  BY <1>1, <1>4, <1>15
<1>18. A(res \o b \o e, res \o c \o e)
  BY <1>1, <1>3, <1>17
<1>19. A(res \o b \o e \o p.projectDirs, res \o c \o e \o q.projectDirs)
  BY <1>1, <1>8, <1>18
<1>20. A(res \o b \o e \o p.projectDirs \o p.skillsDir, res \o c \o e \o q.projectDirs \o q.skillsDir)
  BY <1>1, <1>8, <1>19
<1>21. A(res \o b \o e \o p.projectDirs \o p.skillsDir \o skip, res \o c \o e \o q.projectDirs \o q.skillsDir \o skip)
  BY <1>1, <1>6, <1>20
<1>22. A((res \o b \o e \o p.projectDirs \o p.skillsDir \o skip) \o last, (res \o c \o e \o q.projectDirs \o q.skillsDir \o skip) \o last)
  BY <1>1, <1>6, <1>21
<1>23. A(ClaudeArgs(a, s, p), ClaudeArgs(a, s, q))
  BY <1>16, <1>22
<1> QED BY <1>23 DEF A

\* Joined pieces of four and five parts are arguments.
IsText4(a, b, c, d) == <<a, b, c, d>> \in Args

IsText5(a, b, c, d, e) == <<a, b, c, d, e>> \in Args

LEMMA FourOrFive == \A a, b, c, d, e \in Parts : IsText4(a, b, c, d) /\ IsText5(a, b, c, d, e)
<1> SUFFICES ASSUME NEW a \in Parts, NEW b \in Parts, NEW c \in Parts, NEW d \in Parts, NEW e \in Parts
             PROVE  IsText4(a, b, c, d) /\ IsText5(a, b, c, d, e)
  OBVIOUS
<1> DEFINE x == <<a, b, c>>
           y == <<d>>
           z == <<d, e>>
           u == <<a, b, c, d>>
           v == <<a, b, c, d, e>>
<1>1. x \o y = u /\ x \o z = v /\ x \in Seq(Parts)
  BY FiveIs
<1>2. y \in Seq(Parts) /\ z \in Seq(Parts)
  BY OneIn, TwoIn
<1> HIDE DEF x, y, z, u, v
<1>3. u \in Args /\ v \in Args
  BY <1>1, <1>2, ArgsConcat DEF Args
<1> QED BY <1>3 DEF u, v, IsText4, IsText5

LEMMA AlikeLit ==
  ASSUME NEW in, NEW extra, NEW v \in Args
  PROVE  Alike(in, extra, <<Lit(v)>>, <<Lit(v)>>)
<1>1. Lit(v) \in Templates /\ Lit(v).kind = "literal"
  BY LitType
<1> QED BY <1>1, AlikeOne

\* Codex's convention does, in each mode.
LEMMA CodexArgsAlike ==
  ASSUME NEW in \in Inputs, NEW extra \in Seq(Args), NEW p, NEW q,
         Alike(in, extra, p.projectDirs, q.projectDirs), NEW a, a.model \in Args, NEW s
  PROVE  Alike(in, extra, CodexArgs(a, s, p), CodexArgs(a, s, q))
<1> DEFINE A(x, y) == Alike(in, extra, x, y)
           none == <<>>
           w == <<"model=">> \o a.model
           c == <<"-c">>
           model == CodexModel(a)
           e == <<Extra>>
           w1 == <<"app-server">>
           w2 == <<"exec">>
           w3 == <<"--json", "--skip-git-repo-check">>
           serve == Lits(w1)
           exec == Lits(w2)
           checks == Lits(w3)
           t == <<Resume("resume")>>
           l == <<Prompt>>
           last == <<Resume("resume"), Prompt>>
<1>1. \A x, y, z, u : A(x, y) /\ A(z, u) => A(x \o z, y \o u)
  BY AlikeBoth
<1>2. \A u \in Args : A(Lits(u), Lits(u)) /\ A(<<Lit(u)>>, <<Lit(u)>>)
  BY AlikeLits, AlikeLit
<1>3. A(e, e) /\ A(t, t) /\ A(l, l)
  BY WordsAre, AlikePieces
<1>4. last = t \o l
  <2>1. Resume("resume") \in Templates /\ Prompt \in Templates
    <3>1. NoRoots \in Paths
      BY RootsAre
    <3> QED BY <3>1, FilledThread, PromptTypes
  <2> QED BY <2>1, PairIsConcat
<1>5. c \in Args /\ w1 \in Args /\ w2 \in Args
  BY WordsAre
<1>6. w3 \in Args
  <2>1. "--json" \in Parts /\ "--skip-git-repo-check" \in Parts
    BY LiteralsAre
  <2> QED BY <2>1, TwoIn DEF Args
<1>7. w \in Args
  <2>1. <<"model=">> \in Args
    BY WordsAre
  <2> QED BY <2>1, ArgsConcat
<1>8. A(none, none)
  BY AlikeNothing
<1>9. model = IF a.model = <<>> THEN none ELSE Lits(c) \o <<Lit(w)>>
  BY DEF CodexModel
<1>10. \A x : CodexArgs(a, s, x) = IF s.mode = JSONRPC THEN serve \o model \o e
                                   ELSE exec \o model \o e \o checks \o x.projectDirs \o last
  BY Zenon DEF CodexArgs, CodexModel
<1>11. A(p.projectDirs, q.projectDirs)
  OBVIOUS
<1> HIDE DEF A, w, c, w1, w2, w3
<1>12. A(serve, serve) /\ A(exec, exec) /\ A(checks, checks) /\ A(Lits(c), Lits(c)) /\ A(<<Lit(w)>>, <<Lit(w)>>)
  BY <1>2, <1>5, <1>6, <1>7
<1>13. A(model, model)
  <2> DEFINE x == Lits(c)
             y == <<Lit(w)>>
  <2>1. A(x, x) /\ A(y, y)
    BY <1>12
  <2> HIDE DEF x, y, none, model
  <2>2. A(x \o y, x \o y)
    BY <1>1, <2>1
  <2>3. model = none \/ model = x \o y
    BY <1>9 DEF x, y
  <2> QED BY <1>8, <2>2, <2>3
<1> HIDE DEF serve, exec, checks, model, e, t, l, last, none
<1>14. A(last, last)
  BY <1>1, <1>3, <1>4
<1>15. A(serve \o model \o e, serve \o model \o e)
  <2>1. A(serve \o model, serve \o model)
    BY <1>1, <1>12, <1>13
  <2> QED BY <1>1, <1>3, <2>1
<1>16. A(exec \o model \o e \o checks \o p.projectDirs \o last, exec \o model \o e \o checks \o q.projectDirs \o last)
  <2>1. A(exec \o model, exec \o model)
    BY <1>1, <1>12, <1>13
  <2>2. A(exec \o model \o e, exec \o model \o e)
    BY <1>1, <1>3, <2>1
  <2>3. A(exec \o model \o e \o checks, exec \o model \o e \o checks)
    BY <1>1, <1>12, <2>2
  <2>4. A(exec \o model \o e \o checks \o p.projectDirs, exec \o model \o e \o checks \o q.projectDirs)
    BY <1>1, <1>11, <2>3
  <2> QED BY <1>1, <1>14, <2>4
<1>17. A(CodexArgs(a, s, p), CodexArgs(a, s, q))
  <2>1. CASE s.mode = JSONRPC
    <3>1. CodexArgs(a, s, p) = serve \o model \o e /\ CodexArgs(a, s, q) = serve \o model \o e
      BY <1>10, <2>1
    <3> QED BY <1>15, <3>1
  <2>2. CASE s.mode # JSONRPC
    <3>1. /\ CodexArgs(a, s, p) = exec \o model \o e \o checks \o p.projectDirs \o last
          /\ CodexArgs(a, s, q) = exec \o model \o e \o checks \o q.projectDirs \o last
      BY <1>10, <2>2
    <3> QED BY <1>16, <3>1
  <2> QED BY <2>1, <2>2
<1> QED BY <1>17 DEF A

\* OpenCode's does.
LEMMA OpencodeArgsAlike ==
  ASSUME NEW in \in Inputs, NEW extra \in Seq(Args), NEW p, NEW q,
         Alike(in, extra, p.projectDirs, q.projectDirs), NEW a, a.model \in Args, NEW agent \in Args,
         NEW s, s = Plain(s.mode)
  PROVE  Alike(in, extra, OpencodeArgs(a, s, agent, p), OpencodeArgs(a, s, agent, q))
<1> DEFINE A(x, y) == Alike(in, extra, x, y)
           flag == Find("opencode", s, "runtime").flag
           w1 == <<flag, "--port", "0", "--hostname", "127.0.0.1">>
           w2 == <<"run", "--format", "json", "--agent">>
           serve == Lits(w1)
           run == Lits(w2)
           ag == <<Lit(agent)>>
           v == Value("--model", a.model)
           e == <<Extra>>
           t == <<Resume("--session")>>
           y == WithSystem(Prompt)
           l == <<y>>
           last == <<Resume("--session"), Extra, WithSystem(Prompt)>>
<1>1. \A x, u, z, w : A(x, u) /\ A(z, w) => A(x \o z, u \o w)
  BY AlikeBoth
<1>2. \A u \in Args : A(Lits(u), Lits(u)) /\ A(<<Lit(u)>>, <<Lit(u)>>)
  BY AlikeLits, AlikeLit
<1>3. A(e, e) /\ A(t, t)
  BY WordsAre, AlikePieces
<1>4. A(l, l)
  <2>1. y \in Templates /\ y.kind \notin {"file", "root"}
    BY PromptTypes
  <2> HIDE DEF y
  <2> QED BY <2>1, AlikeOne
<1>5. A(v, v)
  BY WordsAre, AlikeValue
<1>6. last = (t \o e) \o l
  <2> DEFINE n1 == Resume("--session")
             E == Extra
  <2>1. n1 \in Templates
    <3> DEFINE f == <<"--session">>
    <3>1. f \in Args /\ "resume" \in PieceKinds
      BY WordsAre DEF PieceKinds
    <3>2. n1 = Template("resume", f)
      BY DEF Resume
    <3> HIDE DEF f, n1
    <3> QED BY <3>1, <3>2, TemplateType
  <2>2. E \in Templates /\ y \in Templates
    BY ExtraType, PromptTypes
  <2> HIDE DEF n1, E, y
  <2>3. <<n1>> \o <<E>> = <<n1, E>>
    BY <2>1, <2>2, PairIsConcat
  <2>4. <<n1, E>> \o <<y>> = <<n1, E, y>>
    BY <2>1, <2>2, ThreeIs
  <2>5. (<<n1>> \o <<E>>) \o <<y>> = <<n1, E, y>>
    BY <2>3, <2>4
  <2> QED BY <2>5 DEF n1, E, y
<1>7. w2 \in Args
  <2>1. "run" \in Parts /\ "--format" \in Parts /\ "json" \in Parts /\ "--agent" \in Parts
    BY LiteralsAre
  <2> DEFINE a1 == "run"
             a2 == "--format"
             a3 == "json"
             a4 == "--agent"
  <2> HIDE DEF a1, a2, a3, a4
  <2>2. IsText4(a1, a2, a3, a4)
    BY <2>1, FourOrFive DEF a1, a2, a3, a4
  <2> QED BY <2>2 DEF IsText4, a1, a2, a3, a4
<1>8. s.mode = HTTPSSE => w1 \in Args
  <2> SUFFICES ASSUME s.mode = HTTPSSE PROVE w1 \in Args
    OBVIOUS
  <2>1. Find("opencode", s, "runtime") = Table[24]
    BY ModeRows
  <2>2. flag = "serve"
    BY <2>1, ArgumentRows
  <2> DEFINE a2 == "--port"
             a3 == "0"
             a4 == "--hostname"
             a5 == "127.0.0.1"
  <2>3. flag \in Parts /\ a2 \in Parts /\ a3 \in Parts /\ a4 \in Parts /\ a5 \in Parts
    BY <2>2, LiteralsAre
  <2> HIDE DEF flag, a2, a3, a4, a5
  <2>4. IsText5(flag, a2, a3, a4, a5)
    BY <2>3, FourOrFive
  <2> QED BY <2>4 DEF IsText5, a2, a3, a4, a5
<1>9. \A x : OpencodeArgs(a, s, agent, x) =
         IF s.mode = HTTPSSE THEN serve \o e ELSE run \o ag \o v \o x.projectDirs \o last
  BY Zenon DEF OpencodeArgs
<1>10. A(p.projectDirs, q.projectDirs)
  OBVIOUS
<1> HIDE DEF A, w1, w2
<1>11. A(run, run) /\ A(ag, ag) /\ (s.mode = HTTPSSE => A(serve, serve))
  BY <1>2, <1>7, <1>8
<1> HIDE DEF serve, run, ag, v, e, t, l, last
<1>12. A(last, last)
  <2>1. A(t \o e, t \o e)
    BY <1>1, <1>3
  <2>2. A((t \o e) \o l, (t \o e) \o l)
    BY <1>1, <1>4, <2>1
  <2> QED BY <1>6, <2>2
<1>13. CASE s.mode = HTTPSSE
  <2>1. OpencodeArgs(a, s, agent, p) = serve \o e /\ OpencodeArgs(a, s, agent, q) = serve \o e
    BY <1>9, <1>13
  <2>2. A(serve \o e, serve \o e)
    BY <1>1, <1>3, <1>11, <1>13
  <2>3. A(OpencodeArgs(a, s, agent, p), OpencodeArgs(a, s, agent, q))
    BY <2>1, <2>2
  <2> QED BY <2>3 DEF A
<1>14. CASE s.mode # HTTPSSE
  <2>1. /\ OpencodeArgs(a, s, agent, p) = run \o ag \o v \o p.projectDirs \o last
        /\ OpencodeArgs(a, s, agent, q) = run \o ag \o v \o q.projectDirs \o last
    BY <1>9, <1>14
  <2>2. A(run \o ag, run \o ag)
    BY <1>1, <1>11
  <2>3. A(run \o ag \o v, run \o ag \o v)
    BY <1>1, <1>5, <2>2
  <2>4. A(run \o ag \o v \o p.projectDirs, run \o ag \o v \o q.projectDirs)
    BY <1>1, <1>10, <2>3
  <2>5. A(run \o ag \o v \o p.projectDirs \o last, run \o ag \o v \o q.projectDirs \o last)
    BY <1>1, <1>12, <2>4
  <2>6. A(OpencodeArgs(a, s, agent, p), OpencodeArgs(a, s, agent, q))
    BY <2>1, <2>5
  <2> QED BY <2>6 DEF A
<1> QED BY <1>13, <1>14

\* Antigravity's permission names no path.
LEMMA AlikePermission ==
  ASSUME NEW in \in Inputs, NEW extra \in Seq(Args), NEW a, <<a.permission>> \in Args
  PROVE  Alike(in, extra, PermissionArgs(a), PermissionArgs(a))
<1> DEFINE x == PermissionArgs(a)
           v == a.permission
           w == <<"--mode", v>>
           f == <<SkipFlag>>
<1>1. f \in Args
  BY WordsAre DEF SkipFlag
<1>2. w \in Args
  <2>1. <<v>> \in Args /\ "--mode" \in Parts
    BY LiteralsAre
  <2> HIDE DEF v
  <2>2. v \in Parts
    BY <2>1 DEF Args
  <2> QED BY <2>1, <2>2, TwoIn DEF Args
<1>3. x = Lits(f) \/ x = Lits(w) \/ x = <<>>
  <2>1. CASE v = "bypass"
    <3>1. x = Lits(f)
      BY <2>1, Zenon DEF PermissionArgs
    <3> QED BY <3>1
  <2>2. CASE v # "bypass" /\ v \in {"accept-edits", "plan"}
    <3>1. x = Lits(w)
      BY <2>2, Zenon DEF PermissionArgs
    <3> QED BY <3>1
  <2>3. CASE v # "bypass" /\ v \notin {"accept-edits", "plan"}
    <3>1. x = <<>>
      BY <2>3, Zenon DEF PermissionArgs
    <3> QED BY <3>1
  <2> HIDE DEF x, f, w
  <2> QED BY <2>1, <2>2, <2>3
<1> HIDE DEF x, w, f
<1>4. Alike(in, extra, Lits(f), Lits(f)) /\ Alike(in, extra, Lits(w), Lits(w)) /\ Alike(in, extra, <<>>, <<>>)
  BY <1>1, <1>2, AlikeLits, AlikeNothing
<1>5. Alike(in, extra, x, x)
  BY <1>3, <1>4
<1> QED BY <1>5 DEF x

\* Antigravity's convention does.
LEMMA AntigravityArgsAlike ==
  ASSUME NEW in \in Inputs, NEW extra \in Seq(Args), NEW p, NEW q,
         Alike(in, extra, p.projectDirs, q.projectDirs),
         NEW a, a.model \in Args, a.effort \in Args, a.agent \in Args, <<a.permission>> \in Args
  PROVE  Alike(in, extra, AntigravityArgs(a, p), AntigravityArgs(a, q))
<1> DEFINE A(x, y) == Alike(in, extra, x, y)
           m == Lits(<<"--output-format", "stream-json">>)
           c == PermissionArgs(a)
           v == Value("--model", a.model)
           g == Value("--effort", a.effort)
           h == Value("--agent", a.agent)
           e == <<Extra>>
           n == <<Resume("--conversation")>>
           t == InlinePrompt
           l == <<t>>
<1>1. \A x, u, z, w : A(x, u) /\ A(z, w) => A(x \o z, u \o w)
  BY AlikeBoth
<1>2. A(m, m)
  <2>1. "--output-format" \in Parts /\ "stream-json" \in Parts
    BY LiteralsAre
  <2>2. <<"--output-format", "stream-json">> \in Args
    BY <2>1, TwoIn DEF Args
  <2> QED BY <2>2, AlikeLits
<1>3. A(c, c)
  BY AlikePermission
<1>4. A(v, v)
  BY WordsAre, AlikeValue
<1>5. A(g, g)
  BY WordsAre, AlikeValue
<1>6. A(h, h)
  BY WordsAre, AlikeValue
<1>7. A(e, e) /\ A(n, n)
  BY WordsAre, AlikePieces
<1>8. A(l, l)
  <2> DEFINE w == <<"-p=">>
             u == Template("prompt-inline", w)
  <2>1. w \in Args /\ "prompt-inline" \in PieceKinds
    BY WordsAre DEF PieceKinds
  <2>2. u.kind = "prompt-inline"
    BY DEF Template
  <2>3. t = [u EXCEPT !.system = TRUE]
    BY DEF InlinePrompt, WithSystem
  <2>4. u \in Templates
    <3> HIDE DEF w
    <3> QED BY <2>1, TemplateType
  <2> HIDE DEF u, t
  <2>5. t \in Templates /\ t.kind = "prompt-inline"
    BY <2>2, <2>3, <2>4 DEF Templates
  <2> QED BY <2>5, AlikeOne
<1>9. \A x : AntigravityArgs(a, x) = m \o c \o v \o g \o h \o e \o x.projectDirs \o n \o l
  BY Zenon DEF AntigravityArgs, PermissionArgs, InlinePrompt
<1>10. A(p.projectDirs, q.projectDirs)
  OBVIOUS
<1> HIDE DEF A, m, c, v, g, h, e, n, l
<1>11. A(m \o c, m \o c)
  BY <1>1, <1>2, <1>3
<1>12. A(m \o c \o v, m \o c \o v)
  BY <1>1, <1>4, <1>11
<1>13. A(m \o c \o v \o g, m \o c \o v \o g)
  BY <1>1, <1>5, <1>12
<1>14. A(m \o c \o v \o g \o h, m \o c \o v \o g \o h)
  BY <1>1, <1>6, <1>13
<1>15. A(m \o c \o v \o g \o h \o e, m \o c \o v \o g \o h \o e)
  BY <1>1, <1>7, <1>14
<1>16. A(m \o c \o v \o g \o h \o e \o p.projectDirs, m \o c \o v \o g \o h \o e \o q.projectDirs)
  BY <1>1, <1>10, <1>15
<1>17. A(m \o c \o v \o g \o h \o e \o p.projectDirs \o n, m \o c \o v \o g \o h \o e \o q.projectDirs \o n)
  BY <1>1, <1>7, <1>16
<1>18. A(m \o c \o v \o g \o h \o e \o p.projectDirs \o n \o l, m \o c \o v \o g \o h \o e \o q.projectDirs \o n \o l)
  BY <1>1, <1>8, <1>17
<1> DEFINE P == AntigravityArgs(a, p)
           Q == AntigravityArgs(a, q)
<1>20. P = m \o c \o v \o g \o h \o e \o p.projectDirs \o n \o l
  BY <1>9, Zenon
<1>21. Q = m \o c \o v \o g \o h \o e \o q.projectDirs \o n \o l
  BY <1>9, Zenon
<1> HIDE DEF P, Q
<1>19. A(P, Q)
  BY <1>18, <1>20, <1>21
<1> QED BY <1>19 DEF A, P, Q

\* The six, with the names they declare.
LEMMA AliasesAre ==
  /\ DOMAIN Builtin = 1..6 /\ Len(Builtin) = 6
  /\ Builtin[1] = Claude /\ Builtin[2] = Codex /\ Builtin[3] = OpenCode
  /\ Builtin[4] = Copilot /\ Builtin[5] = Pi /\ Builtin[6] = Antigravity
  /\ Claude.id = "claude" /\ Claude.aliases = <<"claude-code", "claudecode">>
  /\ Codex.id = "codex" /\ Codex.aliases = <<>>
  /\ OpenCode.id = "opencode" /\ OpenCode.aliases = <<"open-code">>
  /\ Copilot.id = "copilot" /\ Copilot.aliases = <<"copilot-cli">>
  /\ Pi.id = "pi" /\ Pi.aliases = <<"pi-acp">>
  /\ Antigravity.id = "antigravity" /\ Antigravity.aliases = <<"agy">>
<1>1. /\ DOMAIN Builtin = 1..6 /\ Len(Builtin) = 6
      /\ Builtin[1] = Claude /\ Builtin[2] = Codex /\ Builtin[3] = OpenCode
      /\ Builtin[4] = Copilot /\ Builtin[5] = Pi /\ Builtin[6] = Antigravity
  BY DEF Builtin
<1>2. \A id, aliases, binary, override, modes, projection, posture :
        LET d == Descriptor(id, aliases, binary, override, modes, projection, posture)
        IN  d.id = id /\ d.aliases = aliases
  BY DEF Descriptor
<1>3. Claude.id = "claude" /\ Claude.aliases = <<"claude-code", "claudecode">>
  BY <1>2 DEF Claude
<1>4. Codex.id = "codex" /\ Codex.aliases = <<>>
  BY <1>2 DEF Codex
<1>5. OpenCode.id = "opencode" /\ OpenCode.aliases = <<"open-code">>
  BY <1>2 DEF OpenCode
<1>6. Copilot.id = "copilot" /\ Copilot.aliases = <<"copilot-cli">>
  <2> DEFINE ms == Copilot.modes
             none == {}
  <2>1. Copilot = Descriptor("copilot", <<"copilot-cli">>, "copilot", "COPILOT_CLI_PATH", ms, none, "")
    BY DEF Copilot, Descriptor
  <2> HIDE DEF ms, none
  <2> QED BY <2>1 DEF Descriptor
<1>7. Pi.id = "pi" /\ Pi.aliases = <<"pi-acp">>
  <2> DEFINE ms == <<In("acp-stdio", <<"resume", "typed-events">>)>>
             none == {}
  <2>1. Pi = Descriptor("pi", <<"pi-acp">>, "pi-acp", "PIACP_CLI_PATH", ms, none, "")
    BY DEF Pi
  <2> HIDE DEF ms, none
  <2> QED BY <2>1 DEF Descriptor
<1>8. Antigravity.id = "antigravity" /\ Antigravity.aliases = <<"agy">>
  BY <1>2 DEF Antigravity
<1> QED BY <1>1, <1>3, <1>4, <1>5, <1>6, <1>7, <1>8

-----------------------------------------------------------------------------
(* What a launch reads in the registry. *)

\* The built-in descriptor of a runtime.
BuiltinOf(r) == Builtin[CHOOSE i \in 1..6 : Builtin[i].id = r]

\* What the posture carries by the built-in descriptor.
Promised(l) ==
  IF l.set.posture = "" THEN Carries(<<>>, {})
  ELSE PostureFor(BuiltinOf(l.conv.runtime), l.set.posture, l.conv.mode)

\* The ids are the runtimes, each has one place.
LEMMA RuntimesAre ==
  /\ \A i \in 1..6 : Builtin[i].id \in Runtime
  /\ \A r \in Runtime : \E i \in 1..6 : Builtin[i].id = r
  /\ \A i, j \in 1..6 : Builtin[i].id = Builtin[j].id => i = j
<1>1. \A i \in 1..6 : i = 1 \/ i = 2 \/ i = 3 \/ i = 4 \/ i = 5 \/ i = 6
  OBVIOUS
<1>2. /\ Builtin[1].id = "claude" /\ Builtin[2].id = "codex" /\ Builtin[3].id = "opencode"
      /\ Builtin[4].id = "copilot" /\ Builtin[5].id = "pi" /\ Builtin[6].id = "antigravity"
  BY AliasesAre
<1> QED BY <1>1, <1>2 DEF Runtime

\* There is one for each.
LEMMA BuiltinOfIs ==
  /\ BuiltinOf("claude") = Claude /\ BuiltinOf("codex") = Codex /\ BuiltinOf("opencode") = OpenCode
  /\ BuiltinOf("antigravity") = Antigravity
  /\ \A r \in Runtime : \E i \in 1..6 : BuiltinOf(r) = Builtin[i] /\ Builtin[i].id = r
<1>1. ASSUME NEW i \in 1..6 PROVE BuiltinOf(Builtin[i].id) = Builtin[i]
  <2> DEFINE c == CHOOSE j \in 1..6 : Builtin[j].id = Builtin[i].id
  <2>1. c \in 1..6 /\ Builtin[c].id = Builtin[i].id
    OBVIOUS
  <2>2. c = i
    BY <2>1, RuntimesAre
  <2> QED BY <2>2 DEF BuiltinOf
<1>2. \A r \in Runtime : \E i \in 1..6 : BuiltinOf(r) = Builtin[i] /\ Builtin[i].id = r
  BY <1>1, RuntimesAre
<1>3. BuiltinOf(Builtin[1].id) = Builtin[1] /\ BuiltinOf(Builtin[2].id) = Builtin[2]
      /\ BuiltinOf(Builtin[3].id) = Builtin[3] /\ BuiltinOf(Builtin[6].id) = Builtin[6]
  BY <1>1
<1> QED BY <1>2, <1>3, AliasesAre

\* What a convention says of itself.
ArgsOf(a, agent, p) ==
  CASE a.runtime = "claude" -> ClaudeArgs(a, ShapeOf(a), p)
    [] a.runtime = "codex" -> CodexArgs(a, ShapeOf(a), p)
    [] a.runtime = "opencode" -> OpencodeArgs(a, ShapeOf(a), agent, p)
    [] OTHER -> AntigravityArgs(a, p)

\* The environment a convention asks for: each name set to the boot directory.
Amendments(names) ==
  SetToSeq({ [name |-> n, value |-> "boot", op |-> "set", precedence |-> "provider-wins"] : n \in names })

\* A convention is made for its adapter's runtime and shape.
LEMMA ConventionFields ==
  ASSUME NEW a, NEW agent, NEW p
  PROVE  /\ Convention(a, agent, p).runtime = a.runtime
         /\ Convention(a, agent, p).mode = ShapeOf(a).mode
         /\ Convention(a, agent, p).variant = ShapeOf(a).variant
         /\ Convention(a, agent, p).argv = ArgsOf(a, agent, p)
         /\ Convention(a, agent, p).cwd = Find(a.runtime, ShapeOf(a), "native-config").cwd
         /\ Convention(a, agent, p).configRoot = Find(a.runtime, ShapeOf(a), "native-config").root
         /\ Convention(a, agent, p).env = Amendments(Find(a.runtime, ShapeOf(a), "native-config").env)
<1>1. \A e, r, s, args :
        /\ ConventionIn(e, r, s, args).runtime = r /\ ConventionIn(e, r, s, args).mode = s.mode
        /\ ConventionIn(e, r, s, args).variant = s.variant /\ ConventionIn(e, r, s, args).argv = args
        /\ ConventionIn(e, r, s, args).cwd = e.cwd /\ ConventionIn(e, r, s, args).configRoot = e.root
        /\ ConventionIn(e, r, s, args).env = Amendments(e.env)
  BY DEF ConventionIn, Amendments
<1>2. Convention(a, agent, p)
        = ConventionIn(Find(a.runtime, ShapeOf(a), "native-config"), a.runtime, ShapeOf(a), ArgsOf(a, agent, p))
  BY Zenon DEF Convention, NewConvention, ArgsOf
<1> QED BY <1>1, <1>2

\* What a projection's convention is made of.
Exclusively(a, opts) == [a EXCEPT !.exclusive = @ \/ opts.exclusive]

\* A projection's agent, paths and adapter.
ProjectedAgent(a, ctx) == IF a.runtime = "opencode" THEN AgentName(a, ctx) ELSE <<>>

ProjectedPaths(a, opts) ==
  IF a.runtime = "claude" THEN ClaudeLayoutPaths(ClaudeShape(a), opts.skills # {}) ELSE LayoutPaths(a)

ProjectedAdapter(a, opts) == IF a.runtime = "claude" THEN Exclusively(a, opts) ELSE a

\* ProjectLaunch's convention is made of those three.
LEMMA ConventionOfProjection ==
  ASSUME NEW a \in AdapterFields, NEW ctx, NEW opts
  PROVE  /\ Projected(a, ctx, opts).conv
              = Convention(ProjectedAdapter(a, opts), ProjectedAgent(a, ctx), ProjectedPaths(a, opts))
         /\ Projected(a, ctx, opts).conv.runtime = a.runtime
         /\ ProjectedAdapter(a, opts).runtime = a.runtime
<1>1. Exclusively(a, opts).runtime = a.runtime
  BY DEF AdapterFields, Exclusively
<1>2. ProjectedAdapter(a, opts).runtime = a.runtime
  BY <1>1 DEF ProjectedAdapter
<1>3. "claude" # "codex" /\ "claude" # "opencode" /\ "codex" # "opencode"
  OBVIOUS
<1>4. Projected(a, ctx, opts).conv
        = Convention(ProjectedAdapter(a, opts), ProjectedAgent(a, ctx), ProjectedPaths(a, opts))
  <2>1. CASE a.runtime = "claude"
    BY <1>3, <2>1, Zenon DEF Projected, ClaudeProjection, ProjectedAdapter, ProjectedAgent, ProjectedPaths, Exclusively
  <2>2. CASE a.runtime = "codex"
    BY <1>3, <2>2, Zenon DEF Projected, CodexProjection, ProjectedAdapter, ProjectedAgent, ProjectedPaths
  <2>3. CASE a.runtime = "opencode"
    BY <1>3, <2>3, Zenon DEF Projected, OpencodeProjection, ProjectedAdapter, ProjectedAgent, ProjectedPaths
  <2>4. CASE a.runtime \notin {"claude", "codex", "opencode"}
    <3>1. a.runtime # "claude" /\ a.runtime # "codex" /\ a.runtime # "opencode"
      BY <2>4
    <3> QED BY <3>1, Zenon DEF Projected, AntigravityProjection, ProjectedAdapter, ProjectedAgent, ProjectedPaths
  <2> QED BY <2>1, <2>2, <2>3, <2>4
<1>5. \A b, agent, p : Convention(b, agent, p).runtime = b.runtime
  BY ConventionFields
<1>6. Projected(a, ctx, opts).conv.runtime = ProjectedAdapter(a, opts).runtime
  <2> DEFINE b == ProjectedAdapter(a, opts)
             g == ProjectedAgent(a, ctx)
             q == ProjectedPaths(a, opts)
  <2> HIDE DEF b, g, q
  <2>1. Convention(b, g, q).runtime = b.runtime
    BY <1>5
  <2>2. Projected(a, ctx, opts).conv = Convention(b, g, q)
    BY <1>4 DEF b, g, q
  <2>3. Projected(a, ctx, opts).conv.runtime = b.runtime
    BY <2>1, <2>2
  <2> QED BY <2>3 DEF b
<1> QED BY <1>2, <1>4, <1>6

-----------------------------------------------------------------------------
(* The arguments made from an adapter's own fields. *)

\* Claude's path arguments, whatever its skills directory is.
LEMMA ClaudeFieldsSaid ==
  ASSUME NEW s, s = Bare \/ s = Plain(s.mode), NEW in, NEW extra, Given("claude", <<>>, NoRoots, in, extra),
         NEW b, b.mcpConfig = Roots["boot"] \o <<".mcp.json">>, b.promptFile = Roots["boot"] \o <<"CLAUDE.md">>,
         b.settings = Roots["boot"] \o <<".claude/settings.json">>, b.projectDirs = <<Roots["project"]>>,
         NEW dir \in Args, b.skillsDir = dir, dir = <<>> \/ dir[1] \notin Dashed
  PROVE  SaysPaths(NoRoots, in, extra, ClaudeFieldPaths(b, s), ClaudeSaid(s, dir))
<1> DEFINE r == "claude"
           none == <<>>
           q == ClaudeFieldPaths(b, s)
           said == ClaudeSaid(s, dir)
           c == [mcpConfig |-> Roots["boot"] \o <<".mcp.json">>, promptFile |-> Roots["boot"] \o <<"CLAUDE.md">>,
                 settings |-> Roots["boot"] \o <<".claude/settings.json">>, projectDirs |-> <<Roots["project"]>>,
                 skillsDir |-> none]
           p == ClaudeFieldPaths(c, s)
           told == ClaudeSaid(s, none)
           S(x, D) == Says(r, none, NoRoots, in, extra, x, D)
<1>1. Given(r, none, NoRoots, in, extra) /\ Given(r, none, LaunchRoots, in, extra)
  BY RootsAre DEF Given
<1>2. /\ c.mcpConfig = b.mcpConfig /\ c.promptFile = b.promptFile /\ c.settings = b.settings
      /\ c.projectDirs = b.projectDirs /\ c.skillsDir = none
  OBVIOUS
<1> HIDE DEF c
<1>3. SaysPaths(NoRoots, in, extra, p, told)
  <2> DEFINE no == FALSE
  <2>1. no \in BOOLEAN /\ none = IF no THEN Roots["boot"] ELSE <<>>
    OBVIOUS
  <2> HIDE DEF no, none
  <2>2. Given("claude", <<>>, LaunchRoots, in, extra)
    BY <1>1 DEF none
  <2> QED BY <1>2, <2>1, <2>2, ClaudePathsSaid
<1>4. /\ q.mcp = p.mcp /\ q.projectDirs = p.projectDirs /\ q.instructions = p.instructions
      /\ q.settings = p.settings
  BY <1>2 DEF ClaudeFieldPaths
<1>5. /\ said.mcp = told.mcp /\ said.projectDirs = told.projectDirs /\ said.instructions = told.instructions
      /\ said.settings = told.settings
  BY DEF ClaudeSaid
<1>6. S(q.skillsDir, said.skillsDir)
  <2>1. CASE s # Bare
    <3>1. q.skillsDir = <<>> /\ said.skillsDir = {}
      BY <2>1 DEF ClaudeFieldPaths, ClaudeSaid
    <3> HIDE DEF q, said, none
    <3>2. S(<<>>, {})
      BY SaysNothing
    <3> QED BY <3>1, <3>2
  <2>2. CASE s = Bare
    <3> DEFINE flag == "--add-dir"
    <3>1. Find(r, s, "skills").flag = flag
      <4>1. Find(r, s, "skills") = Table[8]
        BY <2>2, ClaudeRowsOf
      <4> QED BY <4>1, ArgumentRows, Zenon
    <3>2. q.skillsDir = FieldArg(flag, dir) /\ said.skillsDir = OptionOf(flag, dir)
      BY <2>2, <3>1 DEF ClaudeFieldPaths, ClaudeSaid
    <3>3. flag \in Lists("claude")
      BY DEF Lists
    <3> HIDE DEF flag, q, said, none
    <3>4. S(FieldArg(flag, dir), OptionOf(flag, dir))
      BY <1>1, <3>3, SaysFieldListed
    <3> QED BY <3>2, <3>4
  <2> QED BY <2>1, <2>2
<1>7. S(p.mcp, told.mcp) /\ S(p.projectDirs, told.projectDirs) /\ S(p.instructions, told.instructions)
      /\ S(p.settings, told.settings)
  BY <1>3 DEF SaysPaths
<1> HIDE DEF q, said, p, told
<1>8. S(q.mcp, said.mcp) /\ S(q.projectDirs, said.projectDirs) /\ S(q.instructions, said.instructions)
      /\ S(q.settings, said.settings)
  BY <1>4, <1>5, <1>7
<1> QED BY <1>6, <1>8 DEF SaysPaths, q, said, none

-----------------------------------------------------------------------------
(* What a posture adds. *)

\* The flags a posture may add.
PostureFlags == {"--permission-mode", "-c", SkipFlag, "--mode"}

\* The posture's arguments say X and nothing else, its environment sets one
\* variable no file is found by.
Postured(r, c, X) ==
  /\ \A ws : Open(r, ws) => Adds(r, ws, c.args, X)
  /\ \A o \in X : o[1] \in PostureFlags
  /\ \A v \in c.env : v[1] = "OPENCODE_PERMISSION"

\* A descriptor that carries no posture adds nothing.
LEMMA NoPosture == \A r, c : c.args = <<>> /\ c.env = {} => Postured(r, c, {})
  BY AddsNothing DEF Postured

\* What Carried reads of a descriptor.
LEMMA CarriesFields == \A args, env : Carries(args, env).args = args /\ Carries(args, env).env = env
  BY DEF Carries

\* Claude's permission mode, from its posture.
LEMMA ClaudePostured == ASSUME NEW p \in STRING PROVE \E X : Postured("claude", ClaudePosture(p), X)
<1> DEFINE value == CASE p = "accept-edits" -> "acceptEdits" [] p = "yolo" -> "bypassPermissions" [] OTHER -> p
           v == <<value>>
           X == {<<"--permission-mode", v>>}
           c == ClaudePosture(p)
<1>1. value \in Parts
  <2>1. value \in {"acceptEdits", "bypassPermissions", p}
    OBVIOUS
  <2>2. "acceptEdits" \in Parts /\ "bypassPermissions" \in Parts /\ p \in Parts
    BY LiteralsAre DEF Parts
  <2> HIDE DEF value
  <2> QED BY <2>1, <2>2
<1>2. c = Carries(<< <<"--permission-mode">>, v >>, {})
  BY Zenon DEF ClaudePosture
<1> HIDE DEF value, c
<1>3. v \in Args
  BY <1>1, OneText
<1> HIDE DEF v
<1>4. "--permission-mode" \in Valued("claude") /\ "claude" \in CLIs
  BY DEF Valued, CLIs
<1>5. \A ws : Open("claude", ws) => Adds("claude", ws, << <<"--permission-mode">>, v >>, X)
  BY <1>3, <1>4, AddsValued
<1>6. c.args = << <<"--permission-mode">>, v >> /\ c.env = {}
  BY <1>2, CarriesFields
<1>7. \A o \in X : o[1] \in PostureFlags
  BY DEF PostureFlags
<1> HIDE DEF X
<1>8. Postured("claude", c, X)
  BY <1>5, <1>6, <1>7, Zenon DEF Postured
<1> QED BY <1>8 DEF c

\* Codex's approval and sandbox settings.
LEMMA CodexPostured == ASSUME NEW p \in STRING PROVE \E X : Postured("codex", CodexPosture(p), X)
<1> DEFINE sandbox == CASE p = "accept-edits" -> "workspace-write"
                        [] p = "yolo" -> "danger-full-access" [] OTHER -> "read-only"
           approval == IF p \in {"plan", "yolo"} THEN "never" ELSE "on-request"
           v == <<"sandbox_mode=", sandbox>>
           w == <<"approval_policy=", approval>>
           X == {<<"-c", v>>, <<"-c", w>>}
           c == CodexPosture(p)
<1>1. sandbox \in Parts /\ approval \in Parts
  <2>1. sandbox \in {"workspace-write", "danger-full-access", "read-only"} /\ approval \in {"never", "on-request"}
    OBVIOUS
  <2>2. /\ "workspace-write" \in Parts /\ "danger-full-access" \in Parts /\ "read-only" \in Parts
        /\ "never" \in Parts /\ "on-request" \in Parts
    BY LiteralsAre
  <2> HIDE DEF sandbox, approval
  <2> QED BY <2>1, <2>2
<1>2. c = Carries(<< <<"-c">>, v, <<"-c">>, w >>, {})
  BY Zenon DEF CodexPosture
<1> HIDE DEF sandbox, approval, c
<1>3. v \in Args /\ w \in Args
  <2>1. "sandbox_mode=" \in Parts /\ "approval_policy=" \in Parts
    BY LiteralsAre
  <2> QED BY <1>1, <2>1, TwoIn DEF Args
<1> HIDE DEF v, w
<1>4. "-c" \in Valued("codex") /\ "codex" \in CLIs
  BY DEF Valued, CLIs
<1>5. ASSUME NEW ws, Open("codex", ws) PROVE Adds("codex", ws, << <<"-c">>, v, <<"-c">>, w >>, X)
  <2> DEFINE a == << <<"-c">>, v >>
             b == << <<"-c">>, w >>
             D == {<<"-c", v>>}
             E == {<<"-c", w>>}
  <2>1. Adds("codex", ws, a, D) /\ Adds("codex", ws, b, E)
    BY <1>3, <1>4, <1>5, AddsValued
  <2>2. << <<"-c">>, v, <<"-c">>, w >> = a \o b
    <3> DEFINE f == <<"-c">>
    <3> HIDE DEF f
    <3>1. <<f, v, f, w>> = <<f, v>> \o <<f, w>>
      OBVIOUS
    <3> QED BY <3>1 DEF f
  <2>3. X = D \union E
    OBVIOUS
  <2> HIDE DEF a, b, D, E, X
  <2>4. Adds("codex", ws, a \o b, D \union E)
    BY <2>1, AddsConcat
  <2> QED BY <2>2, <2>3, <2>4
<1>6. c.args = << <<"-c">>, v, <<"-c">>, w >> /\ c.env = {}
  BY <1>2, CarriesFields
<1>7. \A o \in X : o[1] \in PostureFlags
  BY DEF PostureFlags
<1> HIDE DEF X
<1>8. Postured("codex", c, X)
  BY <1>5, <1>6, <1>7, Zenon DEF Postured
<1> QED BY <1>8 DEF c

\* OpenCode's permission, in the environment.
LEMMA OpencodePostured == \A p : Postured("opencode", OpencodePosture(p), {})
<1> SUFFICES ASSUME NEW p PROVE Postured("opencode", OpencodePosture(p), {})
  OBVIOUS
<1> DEFINE E == {<<"OPENCODE_PERMISSION", p>>}
           c == OpencodePosture(p)
<1>1. c.args = <<>> /\ c.env = E
  BY CarriesFields, Zenon DEF OpencodePosture
<1>2. \A v \in E : v[1] = "OPENCODE_PERMISSION"
  OBVIOUS
<1> HIDE DEF E, c
<1>3. Postured("opencode", c, {})
  BY <1>1, <1>2, AddsNothing, Zenon DEF Postured
<1> QED BY <1>3 DEF c

\* Antigravity's skip flag.
LEMMA AntigravityPostured == ASSUME NEW p \in STRING PROVE \E X : Postured("antigravity", AntigravityPosture(p), X)
<1> DEFINE r == "antigravity"
           c == AntigravityPosture(p)
<1>1. "antigravity" \in CLIs
  BY DEF CLIs
<1>2. CASE p = "default"
  <2>1. c = Carries(<<>>, {})
    BY <1>2, Zenon DEF AntigravityPosture
  <2> HIDE DEF c
  <2>2. c.args = <<>> /\ c.env = {}
    BY <2>1, CarriesFields
  <2>3. Postured(r, c, {})
    BY <2>2, NoPosture
  <2> QED BY <2>3 DEF c
<1>3. CASE p = "yolo"
  <2> DEFINE X == {<<SkipFlag, Nothing>>}
  <2>1. c = Carries(<< <<SkipFlag>> >>, {})
    BY <1>3, Zenon DEF AntigravityPosture, SkipFlag
  <2>2. SkipFlag \in Switches(r)
    BY DEF Switches
  <2>3. \A ws : Open(r, ws) => Adds(r, ws, << <<SkipFlag>> >>, X)
    BY <1>1, <2>2, AddsSwitch
  <2>4. \A o \in X : o[1] \in PostureFlags
    BY DEF PostureFlags
  <2> HIDE DEF X, c
  <2>5. c.args = << <<SkipFlag>> >> /\ c.env = {}
    BY <2>1, CarriesFields
  <2>6. Postured(r, c, X)
    BY <2>3, <2>4, <2>5, Zenon DEF Postured
  <2> QED BY <2>6 DEF c
<1>4. CASE p # "default" /\ p # "yolo"
  <2> DEFINE v == <<p>>
             X == {<<"--mode", v>>}
  <2>1. c = Carries(<< <<"--mode">>, v >>, {})
    BY <1>4, Zenon DEF AntigravityPosture
  <2>2. v \in Args
    BY OneText DEF Parts
  <2>3. "--mode" \in Valued(r)
    BY DEF Valued
  <2> HIDE DEF v, c
  <2>4. \A ws : Open(r, ws) => Adds(r, ws, << <<"--mode">>, v >>, X)
    BY <1>1, <2>2, <2>3, AddsValued
  <2>5. \A o \in X : o[1] \in PostureFlags
    BY DEF PostureFlags
  <2> HIDE DEF X
  <2>6. c.args = << <<"--mode">>, v >> /\ c.env = {}
    BY <2>1, CarriesFields
  <2>7. Postured(r, c, X)
    BY <2>4, <2>5, <2>6, Zenon DEF Postured
  <2> QED BY <2>7 DEF c
<1> QED BY <1>2, <1>3, <1>4

\* Which posture each built-in carries.
LEMMA BuiltinPostures ==
  /\ BuiltinOf("claude").posture = "claude" /\ BuiltinOf("codex").posture = "codex"
  /\ BuiltinOf("opencode").posture = "opencode" /\ BuiltinOf("antigravity").posture = "antigravity"
<1>1. \A id, aliases, binary, override, modes, projection, posture :
        Descriptor(id, aliases, binary, override, modes, projection, posture).posture = posture
  BY DEF Descriptor
<1>2. Claude.posture = "claude"
  BY <1>1 DEF Claude
<1>3. Codex.posture = "codex"
  BY <1>1 DEF Codex
<1>4. OpenCode.posture = "opencode"
  BY <1>1 DEF OpenCode
<1>5. Antigravity.posture = "antigravity"
  BY <1>1 DEF Antigravity
<1> QED BY <1>2, <1>3, <1>4, <1>5, BuiltinOfIs

\* Whatever posture a launch carries.
LEMMA PostureSays ==
  ASSUME NEW l, l.conv.runtime \in CLIs, l.set.posture \in STRING, Promised(l).ok
  PROVE  \E X : Postured(l.conv.runtime, Promised(l), X)
<1> DEFINE r == l.conv.runtime
           p == l.set.posture
           d == BuiltinOf(r)
<1>1. CASE Promised(l) = Carries(<<>>, {})
  <2>1. Promised(l).args = <<>> /\ Promised(l).env = {}
    BY <1>1, CarriesFields
  <2> QED BY <2>1, NoPosture
<1>2. CASE Promised(l) = NoMapping
  <2>1. NoMapping.ok = FALSE
    BY DEF NoMapping
  <2> QED BY <1>2, <2>1, Zenon
<1>3. CASE Promised(l) # Carries(<<>>, {}) /\ Promised(l) # NoMapping
  <2>1. p # "" /\ Promised(l) = PostureFor(d, p, l.conv.mode)
    BY <1>3, Zenon DEF Promised
  <2>2. Promised(l) = CASE d.posture = "claude" -> ClaudePosture(p)
                        [] d.posture = "codex" -> CodexPosture(p)
                        [] d.posture = "opencode" -> OpencodePosture(p)
                        [] OTHER -> AntigravityPosture(p)
    BY <1>3, <2>1, Zenon DEF PostureFor
  <2>3. r = "claude" \/ r = "codex" \/ r = "opencode" \/ r = "antigravity"
    BY DEF CLIs
  <2>4. CASE r = "claude"
    <3>1. d.posture = "claude"
      BY <2>4, BuiltinPostures
    <3> QED BY <2>2, <2>4, <3>1, ClaudePostured
  <2>5. CASE r = "codex"
    <3>1. d.posture = "codex" /\ "codex" # "claude"
      BY <2>5, BuiltinPostures
    <3>2. Promised(l) = CodexPosture(p)
      BY <2>2, <3>1
    <3> QED BY <2>5, <3>2, CodexPostured
  <2>6. CASE r = "opencode"
    <3>1. d.posture = "opencode" /\ "opencode" # "claude" /\ "opencode" # "codex"
      BY <2>6, BuiltinPostures
    <3>2. Promised(l) = OpencodePosture(p)
      BY <2>2, <3>1
    <3> QED BY <2>6, <3>2, OpencodePostured
  <2>7. CASE r = "antigravity"
    <3>1. d.posture = "antigravity" /\ "antigravity" # "claude" /\ "antigravity" # "codex" /\ "antigravity" # "opencode"
      BY <2>7, BuiltinPostures
    <3>2. Promised(l) = AntigravityPosture(p)
      BY <2>2, <3>1
    <3> QED BY <2>7, <3>2, AntigravityPostured
  <2> QED BY <2>3, <2>4, <2>5, <2>6, <2>7
<1> QED BY <1>1, <1>2, <1>3

\* The shapes a runtime's adapter has.
LEMMA ShapesAre ==
  ASSUME NEW a
  PROVE  /\ a.runtime = "claude" => ShapeOf(a) \in ClaudeShapes
         /\ a.runtime = "codex" => ShapeOf(a) \in {Plain(JSONRPC), Plain(PerTurn)}
         /\ a.runtime = "opencode" => ShapeOf(a) \in {Plain(HTTPSSE), Plain(PerTurn)}
         /\ a.runtime = "antigravity" => ShapeOf(a) = Plain(PerTurn)
         /\ ShapeOf(a) = Bare => a.runtime = "claude"
         /\ ShapeOf(a) = Bare \/ ShapeOf(a) = Plain(ShapeOf(a).mode)
<1>1. a.runtime = "claude" => ShapeOf(a) = ClaudeShape(a)
  BY Zenon DEF ShapeOf
<1>2. ClaudeShape(a) \in ClaudeShapes
  <2>1. ClaudeShape(a) = Bare \/ ClaudeShape(a) = Plain(PTYMode) \/ ClaudeShape(a) = Plain(Streaming)
        \/ ClaudeShape(a) = Plain(PerTurn)
    BY DEF ClaudeShape
  <2> QED BY <2>1 DEF ClaudeShapes
<1>3. "codex" # "claude" /\ "opencode" # "claude" /\ "opencode" # "codex" /\ "antigravity" # "claude"
      /\ "antigravity" # "codex" /\ "antigravity" # "opencode"
  OBVIOUS
<1>4. a.runtime = "codex" => ShapeOf(a) = CodexShape(a)
  BY <1>3, Zenon DEF ShapeOf
<1>5. a.runtime = "opencode" => ShapeOf(a) = OpencodeShape(a)
  BY <1>3, Zenon DEF ShapeOf
<1>6. a.runtime \notin {"claude", "codex", "opencode"} => ShapeOf(a) = Plain(PerTurn)
  <2> SUFFICES ASSUME a.runtime \notin {"claude", "codex", "opencode"} PROVE ShapeOf(a) = Plain(PerTurn)
    OBVIOUS
  <2>1. a.runtime # "claude" /\ a.runtime # "codex" /\ a.runtime # "opencode"
    OBVIOUS
  <2> QED BY <2>1, Zenon DEF ShapeOf
<1>7. CodexShape(a) \in {Plain(JSONRPC), Plain(PerTurn)}
  <2>1. a.mode = "app-server" => CodexShape(a) = Plain(JSONRPC)
    BY Zenon DEF CodexShape
  <2>2. a.mode # "app-server" => CodexShape(a) = Plain(PerTurn)
    BY Zenon DEF CodexShape
  <2> QED BY <2>1, <2>2
<1>8. OpencodeShape(a) \in {Plain(HTTPSSE), Plain(PerTurn)}
  <2>1. a.mode = "serve-http" => OpencodeShape(a) = Plain(HTTPSSE)
    BY Zenon DEF OpencodeShape
  <2>2. a.mode # "serve-http" => OpencodeShape(a) = Plain(PerTurn)
    BY Zenon DEF OpencodeShape
  <2> QED BY <2>1, <2>2
<1>9. \A m : Plain(m) # Bare /\ Plain(m).mode = m
  BY PlainIsNotBare
<1>10. \A s \in ClaudeShapes : s = Bare \/ s = Plain(s.mode)
  BY <1>9 DEF ClaudeShapes
<1>11. ShapeOf(a) \in ClaudeShapes \union {Plain(JSONRPC), Plain(PerTurn), Plain(HTTPSSE)}
  BY <1>1, <1>2, <1>4, <1>5, <1>6, <1>7, <1>8
<1>12. ShapeOf(a) = Bare \/ ShapeOf(a) = Plain(ShapeOf(a).mode)
  BY <1>9, <1>10, <1>11
<1>13. ASSUME ShapeOf(a) = Bare, a.runtime # "claude" PROVE FALSE
  BY <1>4, <1>5, <1>6, <1>7, <1>8, <1>9, <1>13
<1> QED BY <1>1, <1>2, <1>3, <1>4, <1>5, <1>6, <1>7, <1>8, <1>12, <1>13

\* An adapter whose files are named in its fields.
Outfitted(b) ==
  /\ b.runtime \in CLIs /\ <<b.mode>> \in Args /\ b.model \in Args /\ b.effort \in Args /\ b.agent \in Args
  /\ <<b.permission>> \in Args /\ b.extra = <<>> /\ b.projectDirs = <<Roots["project"]>>
  /\ b.runtime = "claude" =>
       /\ b.mcpConfig = Roots["boot"] \o <<".mcp.json">> /\ b.promptFile = Roots["boot"] \o <<"CLAUDE.md">>
       /\ b.settings = Roots["boot"] \o <<".claude/settings.json">>
       /\ b.skillsDir \in Args /\ (b.skillsDir = <<>> \/ b.skillsDir[1] \notin Dashed)

\* What a CLI is to read of its command line: options, words, text.
Said(b, in, X) ==
  CASE b.runtime = "claude" -> ClaudeSays(b, ShapeOf(b), in, ClaudeSaid(ShapeOf(b), b.skillsDir), X)
    [] b.runtime = "codex" ->
         IF ShapeOf(b).mode = JSONRPC THEN CodexModelSaid(b) \union X
         ELSE CodexModelSaid(b) \union X \union Checks \union ProjectSaid("codex", ShapeOf(b))
    [] b.runtime = "opencode" ->
         IF ShapeOf(b).mode = HTTPSSE THEN ServeSaid \union X
         ELSE RunSaid(b, b.agent, in, ProjectSaid("opencode", ShapeOf(b))) \union X
    [] OTHER -> AntigravitySays(b, in, ProjectSaid("antigravity", Plain(PerTurn)), X)

\* The words a CLI is to read.
Spoken(b, in) ==
  CASE b.runtime = "codex" ->
         IF ShapeOf(b).mode = JSONRPC THEN << <<"app-server">> >> ELSE ResumeWords("exec", in.resume)
    [] b.runtime = "opencode" -> IF ShapeOf(b).mode = HTTPSSE THEN << <<"serve">> >> ELSE << <<"run">> >>
    [] OTHER -> <<>>

\* The texts a CLI is to read.
Told(b, in) ==
  CASE b.runtime \in {"claude", "codex"} -> IF ShapeOf(b).mode = PerTurn THEN <<in.prompt>> ELSE <<>>
    [] b.runtime = "opencode" -> IF ShapeOf(b).mode = PerTurn THEN <<PrefixSystem(in.prompt, in.system)>> ELSE <<>>
    [] OTHER -> <<>>

\* Extra arguments that say X wherever options may stand.
Inserted(r, extra, X) == \A ws : Open(r, ws) => Adds(r, ws, extra, X)

\* BuildArgs fills in the adapter's own convention.
LEMMA BuildArgsIs ==
  ASSUME NEW b, b.extra = <<>>, NEW in \in Inputs, NEW extra \in Seq(Args),
         NEW args, args = ArgsOf(b, b.agent, FieldPaths(b)), args \in Seq(Templates), HasExtra(args)
  PROVE  BuildArgs(b, in, extra) = Filled(args, "extra", NoRoots, in, extra)
<1> DEFINE c == Convention(b, b.agent, FieldPaths(b))
<1>1. c.argv = args
  BY ConventionFields
<1>2. b.extra \o extra = extra
  <2> DEFINE none == <<>>
  <2>1. none \o extra = extra
    BY ConcatEmptySeq
  <2> QED BY <2>1
<1>3. BuildArgs(b, in, extra) = Argv(c, NoRoots, in, extra)
  BY <1>2, Zenon DEF BuildArgs
<1> HIDE DEF c
<1>4. NoRoots \in Paths
  BY RootsAre
<1>5. Argv(c, NoRoots, in, extra) = Filled(c.argv, "extra", NoRoots, in, extra)
  BY <1>1, <1>4, ArgvIsFilled
<1> QED BY <1>1, <1>3, <1>5

\* What Claude reads of BuildArgs.
LEMMA ClaudeBuildReads ==
  ASSUME NEW b, Outfitted(b), b.runtime = "claude", NEW in \in Inputs, NEW extra \in Seq(Args),
         NEW X, Inserted("claude", extra, X)
  PROVE  Reads("claude", BuildArgs(b, in, extra), Said(b, in, X), Spoken(b, in), Told(b, in))
<1> DEFINE r == "claude"
           none == <<>>
           s == ShapeOf(b)
           p == ClaudeFieldPaths(b, s)
           said == ClaudeSaid(s, b.skillsDir)
           text == IF s.mode = PerTurn THEN <<in.prompt>> ELSE <<>>
           args == ClaudeArgs(b, s, p)
           said2 == ClaudeSays(b, s, in, said, X)
<1>1. Open(r, none) /\ r \in CLIs /\ NoRoots \in Paths
  BY RootsAre DEF Open, CLIs
<1>2. Given(r, none, NoRoots, in, extra)
  BY <1>1 DEF Given
<1>3. s \in ClaudeShapes /\ (s = Bare \/ s = Plain(s.mode))
  BY ShapesAre
<1> HIDE DEF s
<1>4. SaysPaths(NoRoots, in, extra, p, said)
  BY <1>2, <1>3, ClaudeFieldsSaid DEF Outfitted
<1>5. Adds(r, none, extra, X)
  BY <1>1 DEF Inserted
<1>6. /\ args \in Seq(Templates) /\ HasExtra(args)
      /\ Reads(r, Filled(args, "extra", NoRoots, in, extra), said2, none, text)
  <2> HIDE DEF p, said
  <2> QED BY <1>2, <1>3, <1>4, <1>5, ClaudeReads DEF Outfitted
<1>7. args = ArgsOf(b, b.agent, FieldPaths(b))
  BY Zenon DEF ArgsOf, FieldPaths, s
<1>8. "claude" # "codex" /\ "claude" # "opencode" /\ "claude" \in {"claude", "codex"}
  OBVIOUS
<1>9. Said(b, in, X) = said2
  BY Zenon DEF Said, s
<1>10. Spoken(b, in) = none
  BY <1>8, Zenon DEF Spoken
<1>11. Told(b, in) = text
  BY <1>8, Zenon DEF Told, s
<1> HIDE DEF p, said, text, args, said2, none
<1>12. BuildArgs(b, in, extra) = Filled(args, "extra", NoRoots, in, extra)
  BY <1>6, <1>7, BuildArgsIs DEF Outfitted
<1> QED BY <1>6, <1>9, <1>10, <1>11, <1>12

LEMMA OneWordOpen == \A r, word : word # "resume" => Open(r, << <<word>> >>)
  BY DEF Open, Contains

\* What Codex reads of BuildArgs.
LEMMA CodexBuildReads ==
  ASSUME NEW b, Outfitted(b), b.runtime = "codex", NEW in \in Inputs, NEW extra \in Seq(Args),
         NEW X, Inserted("codex", extra, X), in.resume = <<>> \/ in.resume[1] \notin Dashed
  PROVE  Reads("codex", BuildArgs(b, in, extra), Said(b, in, X), Spoken(b, in), Told(b, in))
<1> DEFINE r == "codex"
           s == ShapeOf(b)
           p == FieldPaths(b)
           args == CodexArgs(b, s, p)
<1>1. r \in CLIs /\ NoRoots \in Paths /\ LaunchRoots \in Paths /\ r \in OtherCLIs
  BY RootsAre DEF CLIs, OtherCLIs
<1>2. "codex" # "claude" /\ "codex" # "opencode" /\ "codex" \in {"claude", "codex"}
  OBVIOUS
<1>3. s = Plain(JSONRPC) \/ s = Plain(PerTurn)
  BY ShapesAre
<1>4. s = Plain(s.mode)
  BY <1>2, ShapesAre
<1>5. args = ArgsOf(b, b.agent, p)
  BY <1>2, Zenon DEF ArgsOf
<1>6. p.projectDirs = FieldProjectDirs(r, s, b.projectDirs)
  <2>1. p = [NoPaths EXCEPT !.projectDirs = FieldProjectDirs(r, s, b.projectDirs)]
    BY <1>2, Zenon DEF FieldPaths
  <2> QED BY <2>1 DEF NoPaths
<1>7. b.model \in Args /\ b.extra = <<>> /\ b.projectDirs = <<Roots["project"]>>
  BY DEF Outfitted
<1>8. (args \in Seq(Templates) /\ HasExtra(args)) => BuildArgs(b, in, extra) = Filled(args, "extra", NoRoots, in, extra)
  <2> HIDE DEF args, p
  <2> QED BY <1>5, <1>7, BuildArgsIs DEF p
<1>9. PerTurn # JSONRPC /\ Plain(PerTurn).mode = PerTurn /\ Plain(JSONRPC).mode = JSONRPC
  BY PlainIsNotBare DEF PerTurn, JSONRPC
<1>10. CASE s = Plain(JSONRPC)
  <2> DEFINE ws == << <<"app-server">> >>
             D == CodexModelSaid(b) \union X
  <2>1. Open(r, ws)
    BY OneWordOpen
  <2>2. Given(r, ws, NoRoots, in, extra) /\ Adds(r, ws, extra, X)
    BY <1>1, <2>1 DEF Given, Inserted
  <2>3. Said(b, in, X) = D /\ Spoken(b, in) = ws /\ Told(b, in) = <<>>
    <3>1. ShapeOf(b).mode = JSONRPC /\ ShapeOf(b).mode # PerTurn
      BY <1>9, <1>10
    <3>2. Said(b, in, X) = D
      BY <1>2, <3>1, Zenon DEF Said
    <3>3. Spoken(b, in) = ws
      BY <1>2, <3>1, Zenon DEF Spoken
    <3>4. Told(b, in) = <<>>
      BY <1>2, <3>1, Zenon DEF Told
    <3> QED BY <3>2, <3>3, <3>4
  <2>4. /\ args \in Seq(Templates) /\ HasExtra(args)
        /\ Reads(r, Filled(args, "extra", NoRoots, in, extra), D, ws, <<>>)
    <3>1. ws = << <<"app-server">> >>
      OBVIOUS
    <3> HIDE DEF p, ws
    <3> QED BY <1>7, <1>10, <2>2, <3>1, CodexServes
  <2> HIDE DEF args, D, ws
  <2> QED BY <1>8, <2>3, <2>4
<1>11. CASE s = Plain(PerTurn)
  <2> DEFINE ws == << <<"exec">> >>
             P == ProjectSaid(r, s)
             D == CodexModelSaid(b) \union X \union Checks \union P
  <2>1. Open(r, ws)
    BY OneWordOpen
  <2>2. Given(r, ws, NoRoots, in, extra) /\ Given(r, ws, LaunchRoots, in, extra) /\ Adds(r, ws, extra, X)
    BY <1>1, <2>1 DEF Given, Inserted
  <2>3. Said(b, in, X) = D /\ Spoken(b, in) = ResumeWords("exec", in.resume) /\ Told(b, in) = <<in.prompt>>
    <3>1. ShapeOf(b).mode # JSONRPC /\ ShapeOf(b).mode = PerTurn
      BY <1>9, <1>11
    <3>2. Said(b, in, X) = D
      BY <1>2, <3>1, Zenon DEF Said
    <3>3. Spoken(b, in) = ResumeWords("exec", in.resume)
      BY <1>2, <3>1, Zenon DEF Spoken
    <3>4. Told(b, in) = <<in.prompt>>
      BY <1>2, <3>1, Zenon DEF Told
    <3> QED BY <3>2, <3>3, <3>4
  <2>5. ws = << <<"exec">> >>
    OBVIOUS
  <2> HIDE DEF ws, p, s
  <2>6. Says(r, ws, NoRoots, in, extra, p.projectDirs, P)
    BY <1>1, <1>4, <1>6, <1>7, <2>2, ProjectPart
  <2>4. /\ args \in Seq(Templates) /\ HasExtra(args)
        /\ Reads(r, Filled(args, "extra", NoRoots, in, extra), D, ResumeWords("exec", in.resume), <<in.prompt>>)
    <3> HIDE DEF P
    <3> QED BY <1>7, <1>11, <2>2, <2>5, <2>6, CodexExecs
  <2> HIDE DEF args, D
  <2> QED BY <1>8, <2>3, <2>4
<1> QED BY <1>3, <1>10, <1>11

\* What OpenCode reads of BuildArgs.
LEMMA OpencodeBuildReads ==
  ASSUME NEW b, Outfitted(b), b.runtime = "opencode", NEW in \in Inputs, NEW extra \in Seq(Args),
         NEW X, Inserted("opencode", extra, X)
  PROVE  Reads("opencode", BuildArgs(b, in, extra), Said(b, in, X), Spoken(b, in), Told(b, in))
<1> DEFINE r == "opencode"
           s == ShapeOf(b)
           p == FieldPaths(b)
           args == OpencodeArgs(b, s, b.agent, p)
<1>1. r \in CLIs /\ NoRoots \in Paths /\ LaunchRoots \in Paths /\ r \in OtherCLIs
  BY RootsAre DEF CLIs, OtherCLIs
<1>2. "opencode" # "claude" /\ "opencode" # "codex" /\ "opencode" \notin {"claude", "codex"}
  OBVIOUS
<1>3. s = Plain(HTTPSSE) \/ s = Plain(PerTurn)
  BY ShapesAre
<1>4. s = Plain(s.mode)
  BY <1>2, ShapesAre
<1>5. args = ArgsOf(b, b.agent, p)
  BY <1>2, Zenon DEF ArgsOf
<1>6. p.projectDirs = FieldProjectDirs(r, s, b.projectDirs)
  <2>1. p = [NoPaths EXCEPT !.projectDirs = FieldProjectDirs(r, s, b.projectDirs)]
    BY <1>2, Zenon DEF FieldPaths
  <2> QED BY <2>1 DEF NoPaths
<1>7. b.model \in Args /\ b.agent \in Args /\ b.extra = <<>> /\ b.projectDirs = <<Roots["project"]>>
  BY DEF Outfitted
<1>8. (args \in Seq(Templates) /\ HasExtra(args)) => BuildArgs(b, in, extra) = Filled(args, "extra", NoRoots, in, extra)
  <2> HIDE DEF args, p
  <2> QED BY <1>5, <1>7, BuildArgsIs DEF p
<1>9. PerTurn # HTTPSSE /\ Plain(PerTurn).mode = PerTurn /\ Plain(HTTPSSE).mode = HTTPSSE
  BY PlainIsNotBare DEF PerTurn, HTTPSSE
<1>10. CASE s = Plain(HTTPSSE)
  <2> DEFINE ws == << <<"serve">> >>
             D == ServeSaid \union X
  <2>1. Open(r, ws)
    BY OneWordOpen
  <2>2. Given(r, ws, NoRoots, in, extra) /\ Adds(r, ws, extra, X)
    BY <1>1, <2>1 DEF Given, Inserted
  <2>3. Said(b, in, X) = D /\ Spoken(b, in) = ws /\ Told(b, in) = <<>>
    <3>1. ShapeOf(b).mode = HTTPSSE /\ ShapeOf(b).mode # PerTurn
      BY <1>9, <1>10
    <3>2. Said(b, in, X) = D
      BY <1>2, <3>1, Zenon DEF Said
    <3>3. Spoken(b, in) = ws
      BY <1>2, <3>1, Zenon DEF Spoken
    <3>4. Told(b, in) = <<>>
      BY <1>2, <3>1, Zenon DEF Told
    <3> QED BY <3>2, <3>3, <3>4
  <2>4. /\ args \in Seq(Templates) /\ HasExtra(args)
        /\ Reads(r, Filled(args, "extra", NoRoots, in, extra), D, ws, <<>>)
    <3>1. ws = << <<"serve">> >>
      OBVIOUS
    <3> HIDE DEF p, ws
    <3> QED BY <1>7, <1>10, <2>2, <3>1, OpencodeServes
  <2> HIDE DEF args, D, ws
  <2> QED BY <1>8, <2>3, <2>4
<1>11. CASE s = Plain(PerTurn)
  <2> DEFINE ws == << <<"run">> >>
             P == ProjectSaid(r, s)
             D == RunSaid(b, b.agent, in, P) \union X
             text == <<PrefixSystem(in.prompt, in.system)>>
  <2>1. Open(r, ws)
    BY OneWordOpen
  <2>2. Given(r, ws, NoRoots, in, extra) /\ Given(r, ws, LaunchRoots, in, extra) /\ Adds(r, ws, extra, X)
    BY <1>1, <2>1 DEF Given, Inserted
  <2>3. Said(b, in, X) = D /\ Spoken(b, in) = ws /\ Told(b, in) = text
    <3>1. ShapeOf(b).mode # HTTPSSE /\ ShapeOf(b).mode = PerTurn
      BY <1>9, <1>11
    <3>2. Said(b, in, X) = D
      BY <1>2, <3>1, Zenon DEF Said
    <3>3. Spoken(b, in) = ws
      BY <1>2, <3>1, Zenon DEF Spoken
    <3>4. Told(b, in) = text
      BY <1>2, <3>1, Zenon DEF Told
    <3> QED BY <3>2, <3>3, <3>4
  <2>5. ws = << <<"run">> >>
    OBVIOUS
  <2> HIDE DEF ws, p, s
  <2>6. Says(r, ws, NoRoots, in, extra, p.projectDirs, P)
    BY <1>1, <1>4, <1>6, <1>7, <2>2, ProjectPart
  <2>4. /\ args \in Seq(Templates) /\ HasExtra(args)
        /\ Reads(r, Filled(args, "extra", NoRoots, in, extra), D, ws, text)
    <3> HIDE DEF P
    <3> QED BY <1>7, <1>11, <2>2, <2>5, <2>6, OpencodeRuns
  <2> HIDE DEF args, D, text
  <2> QED BY <1>8, <2>3, <2>4
<1> QED BY <1>3, <1>10, <1>11

\* What Antigravity reads of BuildArgs.
LEMMA AntigravityBuildReads ==
  ASSUME NEW b, Outfitted(b), b.runtime = "antigravity", NEW in \in Inputs, NEW extra \in Seq(Args),
         NEW X, Inserted("antigravity", extra, X)
  PROVE  Reads("antigravity", BuildArgs(b, in, extra), Said(b, in, X), Spoken(b, in), Told(b, in))
<1> DEFINE r == "antigravity"
           s == Plain(PerTurn)
           p == FieldPaths(b)
           args == AntigravityArgs(b, p)
           none == <<>>
           P == ProjectSaid(r, s)
           D == AntigravitySays(b, in, P, X)
<1>1. r \in CLIs /\ NoRoots \in Paths /\ LaunchRoots \in Paths /\ r \in OtherCLIs
  BY RootsAre DEF CLIs, OtherCLIs
<1>2. "antigravity" # "claude" /\ "antigravity" # "codex" /\ "antigravity" # "opencode"
      /\ "antigravity" \notin {"claude", "codex"}
  OBVIOUS
<1>3. ShapeOf(b) = s
  BY ShapesAre
<1>4. s = Plain(s.mode)
  BY PlainIsNotBare
<1>5. args = ArgsOf(b, b.agent, p)
  BY <1>2, Zenon DEF ArgsOf
<1>6. p.projectDirs = FieldProjectDirs(r, s, b.projectDirs)
  <2>1. p = [NoPaths EXCEPT !.projectDirs = FieldProjectDirs(r, s, b.projectDirs)]
    BY <1>2, <1>3, Zenon DEF FieldPaths
  <2> QED BY <2>1 DEF NoPaths
<1>7. /\ b.model \in Args /\ b.agent \in Args /\ b.effort \in Args /\ <<b.permission>> \in Args
      /\ b.extra = <<>> /\ b.projectDirs = <<Roots["project"]>>
  BY DEF Outfitted
<1>8. Open(r, none)
  BY <1>2 DEF Open
<1>9. Said(b, in, X) = D
  BY <1>2, Zenon DEF Said
<1>10. Spoken(b, in) = none
  BY <1>2, Zenon DEF Spoken
<1>11. Told(b, in) = none
  BY <1>2, Zenon DEF Told
<1>12. Given(r, none, NoRoots, in, extra) /\ Given(r, none, LaunchRoots, in, extra) /\ Adds(r, none, extra, X)
  BY <1>1, <1>8 DEF Given, Inserted
<1>13. none = <<>>
  OBVIOUS
<1> HIDE DEF none, p, s
<1>14. Says(r, none, NoRoots, in, extra, p.projectDirs, P)
  BY <1>1, <1>4, <1>6, <1>7, <1>12, ProjectPart
<1>15. /\ args \in Seq(Templates) /\ HasExtra(args)
       /\ Reads(r, Filled(args, "extra", NoRoots, in, extra), D, none, none)
  <2> HIDE DEF P
  <2> QED BY <1>7, <1>12, <1>13, <1>14, AntigravityReads
<1> HIDE DEF args, D
<1>16. BuildArgs(b, in, extra) = Filled(args, "extra", NoRoots, in, extra)
  BY <1>5, <1>7, <1>15, BuildArgsIs DEF p
<1> QED BY <1>9, <1>10, <1>11, <1>15, <1>16

\* What each CLI reads of the arguments BuildArgs makes, for any text, system
\* prompt and session.
LEMMA BuildReads ==
  ASSUME NEW b, Outfitted(b), NEW in \in Inputs, NEW extra \in Seq(Args), NEW X, Inserted(b.runtime, extra, X),
         in.resume = <<>> \/ in.resume[1] \notin Dashed
  PROVE  Reads(b.runtime, BuildArgs(b, in, extra), Said(b, in, X), Spoken(b, in), Told(b, in))
<1>1. b.runtime = "claude" \/ b.runtime = "codex" \/ b.runtime = "opencode" \/ b.runtime = "antigravity"
  BY DEF Outfitted, CLIs
<1>2. CASE b.runtime = "claude"
  BY <1>2, ClaudeBuildReads
<1>3. CASE b.runtime = "codex"
  BY <1>3, CodexBuildReads
<1>4. CASE b.runtime = "opencode"
  BY <1>4, OpencodeBuildReads
<1>5. CASE b.runtime = "antigravity"
  BY <1>5, AntigravityBuildReads
<1> QED BY <1>1, <1>2, <1>3, <1>4, <1>5

-----------------------------------------------------------------------------
(* The two ways to a command line. *)

\* The adapter BuildArgs makes a projection's arguments from.
EquippedFor(a, ctx, opts) ==
  [WithFields(a) EXCEPT
     !.exclusive = a.exclusive \/ (a.runtime = "claude" /\ opts.exclusive),
     !.agent = IF a.runtime = "opencode" THEN AgentName(a, ctx) ELSE @,
     !.skillsDir = IF opts.skills = {} THEN <<>> ELSE Roots["boot"]]

\* What of an adapter no way changes.
SameButPaths(a, b) ==
  /\ b.runtime = a.runtime /\ b.mode = a.mode /\ b.bare = a.bare /\ b.model = a.model /\ b.skip = a.skip
  /\ b.permission = a.permission /\ b.effort = a.effort /\ b.extra = a.extra
  /\ b.approval = a.approval /\ b.sandbox = a.sandbox

\* The adapter's fields name the launch's paths.
Pathed(a, b) ==
  /\ b.projectDirs = <<Roots["project"]>>
  /\ a.runtime = "claude" =>
       /\ b.mcpConfig = Roots["boot"] \o <<".mcp.json">> /\ b.promptFile = Roots["boot"] \o <<"CLAUDE.md">>
       /\ b.settings = Roots["boot"] \o <<".claude/settings.json">>

\* withFields changes those fields only.
LEMMA WithFieldsIs ==
  ASSUME NEW a \in AdapterFields
  PROVE  LET b == WithFields(a)
         IN  /\ SameButPaths(a, b) /\ Pathed(a, b)
             /\ b.exclusive = a.exclusive /\ b.agent = a.agent /\ b.skillsDir = a.skillsDir
             /\ DOMAIN b = DOMAIN a
<1> DEFINE x == Roots["boot"] \o <<".mcp.json">>
           y == Roots["boot"] \o <<"CLAUDE.md">>
           z == Roots["boot"] \o <<".claude/settings.json">>
           w == <<Roots["project"]>>
           c == [a EXCEPT !.mcpConfig = x, !.promptFile = y, !.settings = z, !.projectDirs = w]
           d == [a EXCEPT !.projectDirs = w]
           b == WithFields(a)
<1>1. a.runtime = "claude" => b = c
  BY Zenon DEF WithFields, BareInjectionPaths
<1>2. a.runtime # "claude" => b = d
  BY Zenon DEF WithFields
<1> HIDE DEF x, y, z, w, b
<1>3. /\ c.runtime = a.runtime /\ c.mode = a.mode /\ c.bare = a.bare /\ c.model = a.model /\ c.skip = a.skip
      /\ c.permission = a.permission /\ c.effort = a.effort /\ c.extra = a.extra
      /\ c.approval = a.approval /\ c.sandbox = a.sandbox
      /\ c.projectDirs = w /\ c.mcpConfig = x /\ c.promptFile = y /\ c.settings = z
      /\ c.exclusive = a.exclusive /\ c.agent = a.agent /\ c.skillsDir = a.skillsDir
      /\ DOMAIN c = DOMAIN a
  BY DEF AdapterFields
<1>4. /\ d.runtime = a.runtime /\ d.mode = a.mode /\ d.bare = a.bare /\ d.model = a.model /\ d.skip = a.skip
      /\ d.permission = a.permission /\ d.effort = a.effort /\ d.extra = a.extra
      /\ d.approval = a.approval /\ d.sandbox = a.sandbox
      /\ d.projectDirs = w /\ d.exclusive = a.exclusive /\ d.agent = a.agent /\ d.skillsDir = a.skillsDir
      /\ DOMAIN d = DOMAIN a
  BY DEF AdapterFields
<1> HIDE DEF c, d
<1>5. CASE a.runtime = "claude"
  BY <1>1, <1>3, <1>5 DEF SameButPaths, Pathed, x, y, z, w, b
<1>6. CASE a.runtime # "claude"
  BY <1>2, <1>4, <1>6 DEF SameButPaths, Pathed, w, b
<1> QED BY <1>5, <1>6

\* So does outfitting the adapter.
LEMMA EquippedIs ==
  ASSUME NEW a \in AdapterFields, NEW ctx, NEW opts
  PROVE  LET b == EquippedFor(a, ctx, opts)
         IN  /\ SameButPaths(a, b) /\ Pathed(a, b)
             /\ b.exclusive = (a.exclusive \/ (a.runtime = "claude" /\ opts.exclusive))
             /\ b.agent = IF a.runtime = "opencode" THEN AgentName(a, ctx) ELSE a.agent
             /\ b.skillsDir = IF opts.skills = {} THEN <<>> ELSE Roots["boot"]
<1> DEFINE w == WithFields(a)
           x == a.exclusive \/ (a.runtime = "claude" /\ opts.exclusive)
           y == IF a.runtime = "opencode" THEN AgentName(a, ctx) ELSE w.agent
           z == IF opts.skills = {} THEN <<>> ELSE Roots["boot"]
           b == [w EXCEPT !.exclusive = x, !.agent = y, !.skillsDir = z]
<1>1. EquippedFor(a, ctx, opts) = b
  BY Zenon DEF EquippedFor
<1>2. /\ SameButPaths(a, w) /\ Pathed(a, w) /\ w.agent = a.agent /\ DOMAIN w = DOMAIN a
  BY WithFieldsIs
<1>3. "exclusive" \in DOMAIN a /\ "agent" \in DOMAIN a /\ "skillsDir" \in DOMAIN a
  BY DEF AdapterFields
<1>4. y = IF a.runtime = "opencode" THEN AgentName(a, ctx) ELSE a.agent
  BY <1>2
<1> HIDE DEF w, x, y, z
<1>0. \A name \in DOMAIN w \ {"exclusive", "agent", "skillsDir"} : b[name] = w[name]
  OBVIOUS
<1>5a. {"runtime", "mode", "bare", "model", "skip", "permission", "effort", "extra", "approval", "sandbox",
        "projectDirs", "mcpConfig", "promptFile", "settings"} \subseteq DOMAIN w
  BY <1>2 DEF AdapterFields
<1> HIDE DEF b
<1>5. /\ b.runtime = w.runtime /\ b.mode = w.mode /\ b.bare = w.bare /\ b.model = w.model /\ b.skip = w.skip
      /\ b.permission = w.permission /\ b.effort = w.effort /\ b.extra = w.extra
      /\ b.approval = w.approval /\ b.sandbox = w.sandbox
      /\ b.projectDirs = w.projectDirs /\ b.mcpConfig = w.mcpConfig /\ b.promptFile = w.promptFile
      /\ b.settings = w.settings
  BY <1>0, <1>5a
<1>6. b.exclusive = x /\ b.agent = y /\ b.skillsDir = z
  BY <1>2, <1>3 DEF b
<1> HIDE DEF b
<1>7. SameButPaths(a, b) /\ Pathed(a, b)
  BY <1>2, <1>5 DEF SameButPaths, Pathed
<1> QED BY <1>1, <1>4, <1>6, <1>7 DEF x, z

-----------------------------------------------------------------------------
(* A projection's arguments are those of its equipped adapter. *)

\* Adapters alike in what no way changes have one Claude convention.
LEMMA SameClaudeArgs ==
  ASSUME NEW a, NEW b, NEW s, NEW p, b.model = a.model, b.exclusive = a.exclusive, b.mode = a.mode, b.skip = a.skip
  PROVE  ClaudeArgs(b, s, p) = ClaudeArgs(a, s, p)
BY Zenon DEF ClaudeArgs

\* One Codex convention.
LEMMA SameCodexArgs ==
  ASSUME NEW a, NEW b, NEW s, NEW p, b.model = a.model
  PROVE  CodexArgs(b, s, p) = CodexArgs(a, s, p)
BY Zenon DEF CodexArgs

\* One OpenCode convention.
LEMMA SameOpencodeArgs ==
  ASSUME NEW a, NEW b, NEW s, NEW agent, NEW p, b.model = a.model
  PROVE  OpencodeArgs(b, s, agent, p) = OpencodeArgs(a, s, agent, p)
BY Zenon DEF OpencodeArgs

\* One Antigravity convention.
LEMMA SameAntigravityArgs ==
  ASSUME NEW a, NEW b, NEW p, b.model = a.model, b.permission = a.permission, b.effort = a.effort, b.agent = a.agent
  PROVE  AntigravityArgs(b, p) = AntigravityArgs(a, p)
BY Zenon DEF AntigravityArgs

\* One shape.
LEMMA SameShape ==
  ASSUME NEW a, NEW b, b.runtime = a.runtime, b.bare = a.bare, b.mode = a.mode
  PROVE  ShapeOf(b) = ShapeOf(a)
<1>1. ClaudeShape(b) = ClaudeShape(a) /\ CodexShape(b) = CodexShape(a) /\ OpencodeShape(b) = OpencodeShape(a)
  BY Zenon DEF ClaudeShape, CodexShape, OpencodeShape
<1> QED BY <1>1, Zenon DEF ShapeOf

\* Both ways outfit an adapter.
LEMMA EquippedOutfitted ==
  ASSUME NEW a \in Adapters, NEW ctx \in Contexts, NEW opts
  PROVE  /\ Outfitted(EquippedFor(a, ctx, opts)) /\ Outfitted(WithFields(a))
         /\ AgentName(a, ctx) \in Args
         /\ ShapeOf(EquippedFor(a, ctx, opts)) = ShapeOf(a) /\ ShapeOf(WithFields(a)) = ShapeOf(a)
<1> DEFINE b == EquippedFor(a, ctx, opts)
           c == WithFields(a)
<1>1. a \in AdapterFields /\ ctx \in ContextFields /\ (a.skillsDir = <<>> \/ a.skillsDir[1] \notin Dashed)
  BY LaunchAssumption
<1>2. /\ SameButPaths(a, c) /\ Pathed(a, c) /\ c.agent = a.agent /\ c.skillsDir = a.skillsDir
  BY <1>1, WithFieldsIs
<1>3. /\ SameButPaths(a, b) /\ Pathed(a, b)
      /\ b.agent = IF a.runtime = "opencode" THEN AgentName(a, ctx) ELSE a.agent
      /\ b.skillsDir = IF opts.skills = {} THEN <<>> ELSE Roots["boot"]
  BY <1>1, EquippedIs
<1> HIDE DEF b, c
<1>4. ctx.agent \in Texts /\ a.agent \in Texts /\ a.skillsDir \in Texts /\ a.model \in Texts /\ a.effort \in Texts
      /\ a.mode \in STRING /\ a.permission \in STRING /\ a.extra = <<>> /\ a.runtime \in CLIs
  BY <1>1 DEF AdapterFields, ContextFields, CLIs
<1>5. /\ ctx.agent \in Args /\ a.agent \in Args /\ a.skillsDir \in Args /\ a.model \in Args /\ a.effort \in Args
      /\ <<a.mode>> \in Args /\ <<a.permission>> \in Args
  BY <1>4, TextsAreArgs, OneText
<1>6. AgentName(a, ctx) \in Args
  BY <1>5, WordsAre DEF AgentName
<1>7. b.agent \in Args
  BY <1>3, <1>5, <1>6
<1>8. b.skillsDir \in Args /\ (b.skillsDir = <<>> \/ b.skillsDir[1] \notin Dashed)
  <2>1. <<>> \in Args
    BY EmptySeq DEF Args
  <2> QED BY <1>3, <2>1, RootsAre
<1>9. Outfitted(b)
  BY <1>3, <1>4, <1>5, <1>7, <1>8 DEF Outfitted, SameButPaths, Pathed
<1>10. Outfitted(c)
  BY <1>1, <1>2, <1>4, <1>5 DEF Outfitted, SameButPaths, Pathed
<1>11. ShapeOf(b) = ShapeOf(a) /\ ShapeOf(c) = ShapeOf(a)
  BY <1>2, <1>3, SameShape DEF SameButPaths
<1> QED BY <1>6, <1>9, <1>10, <1>11 DEF b, c

\* Two conventions, one over the layout and one over the fields, that give
\* the same command line.
Twins(in, extra, x, y) == Alike(in, extra, x, y) /\ HasExtra(x) /\ HasExtra(y)

\* What a turn's agreement comes down to.
LEMMA TwinsAgree ==
  ASSUME NEW in \in Inputs, NEW extra \in Seq(Args), NEW c, NEW b, b.extra = <<>>,
         NEW x, NEW y, Twins(in, extra, x, y), c.argv = x, y = ArgsOf(b, b.agent, FieldPaths(b))
  PROVE  Argv(c, LaunchRoots, in, extra) = BuildArgs(b, in, extra)
<1>1. /\ x \in Seq(Templates) /\ y \in Seq(Templates) /\ HasExtra(x) /\ HasExtra(y)
      /\ Filled(x, "extra", LaunchRoots, in, extra) = Filled(y, "extra", NoRoots, in, extra)
  BY DEF Twins, Alike
<1>2. LaunchRoots \in Paths
  BY RootsAre
<1>3. Argv(c, LaunchRoots, in, extra) = Filled(x, "extra", LaunchRoots, in, extra)
  BY <1>1, <1>2, ArgvIsFilled
<1>4. BuildArgs(b, in, extra) = Filled(y, "extra", NoRoots, in, extra)
  BY <1>1, BuildArgsIs
<1> QED BY <1>1, <1>3, <1>4

\* Claude's two conventions are such a pair.
LEMMA ClaudeTwins ==
  ASSUME NEW b, Outfitted(b), b.runtime = "claude", NEW withSkills \in BOOLEAN,
         b.skillsDir = IF withSkills THEN Roots["boot"] ELSE <<>>,
         NEW in \in Inputs, NEW extra \in Seq(Args), NEW X, Inserted("claude", extra, X),
         NEW s, s = ShapeOf(b)
  PROVE  Twins(in, extra, ClaudeArgs(b, s, ClaudeLayoutPaths(s, withSkills)), ClaudeArgs(b, s, ClaudeFieldPaths(b, s)))
<1> DEFINE r == "claude"
           none == <<>>
           p == ClaudeLayoutPaths(s, withSkills)
           q == ClaudeFieldPaths(b, s)
           said == ClaudeSaid(s, b.skillsDir)
           x == ClaudeArgs(b, s, p)
           y == ClaudeArgs(b, s, q)
<1>1. Open(r, none) /\ r \in CLIs /\ NoRoots \in Paths /\ LaunchRoots \in Paths
  BY RootsAre DEF Open, CLIs
<1>2. Given(r, none, NoRoots, in, extra) /\ Given(r, none, LaunchRoots, in, extra)
  BY <1>1 DEF Given
<1>3. s \in ClaudeShapes /\ (s = Bare \/ s = Plain(s.mode))
  BY ShapesAre
<1>4. SaysPaths(LaunchRoots, in, extra, p, said) /\ SaysPaths(NoRoots, in, extra, q, said) /\ AlikePaths(in, extra, p, q)
  BY <1>2, <1>3, ClaudePathsSaid DEF Outfitted
<1>5. Adds(r, none, extra, X)
  BY <1>1 DEF Inserted
<1>6. HasExtra(x) /\ HasExtra(y)
  <2> HIDE DEF p, q, said
  <2>1. HasExtra(x)
    BY <1>2, <1>3, <1>4, <1>5, ClaudeReads DEF Outfitted
  <2>2. HasExtra(y)
    BY <1>2, <1>3, <1>4, <1>5, ClaudeReads DEF Outfitted
  <2> QED BY <2>1, <2>2
<1>7. Alike(in, extra, x, y)
  <2> HIDE DEF p, q
  <2> QED BY <1>3, <1>4, ClaudeArgsAlike DEF Outfitted
<1> QED BY <1>6, <1>7 DEF Twins

\* Codex's are.
LEMMA CodexTwins ==
  ASSUME NEW b, Outfitted(b), b.runtime = "codex", NEW s, s = ShapeOf(b),
         NEW in \in Inputs, NEW extra \in Seq(Args), NEW X, Inserted("codex", extra, X),
         in.resume = <<>> \/ in.resume[1] \notin Dashed,
         NEW p, p.projectDirs = LayoutProjectDirs("codex", s),
         NEW q, q.projectDirs = FieldProjectDirs("codex", s, b.projectDirs)
  PROVE  Twins(in, extra, CodexArgs(b, s, p), CodexArgs(b, s, q))
<1> DEFINE r == "codex"
           P == ProjectSaid(r, s)
           x == CodexArgs(b, s, p)
           y == CodexArgs(b, s, q)
<1>1. r \in CLIs /\ NoRoots \in Paths /\ LaunchRoots \in Paths /\ r \in OtherCLIs
  BY RootsAre DEF CLIs, OtherCLIs
<1>2. "codex" # "claude" /\ "codex" # "opencode"
  OBVIOUS
<1>3. (s = Plain(JSONRPC) \/ s = Plain(PerTurn)) /\ s = Plain(s.mode)
  <2>1. s = Plain(JSONRPC) \/ s = Plain(PerTurn)
    BY ShapesAre
  <2>2. s = Plain(s.mode)
    BY <1>2, ShapesAre
  <2> QED BY <2>1, <2>2
<1>4. b.model \in Args /\ b.projectDirs = <<Roots["project"]>>
  BY DEF Outfitted
<1> DEFINE ws == IF s = Plain(PerTurn) THEN << <<"exec">> >> ELSE << <<"app-server">> >>
<1>5. Open(r, << <<"exec">> >>) /\ Open(r, << <<"app-server">> >>)
  BY OneWordOpen
<1>6. Open(r, ws)
  BY <1>5
<1>7. ws = << <<"exec">> >> \/ s # Plain(PerTurn)
  OBVIOUS
<1>8. ws = << <<"app-server">> >> \/ s = Plain(PerTurn)
  OBVIOUS
<1> HIDE DEF ws
<1>9. Given(r, ws, NoRoots, in, extra) /\ Given(r, ws, LaunchRoots, in, extra) /\ Adds(r, ws, extra, X)
  BY <1>1, <1>6 DEF Given, Inserted
<1>10. /\ Says(r, ws, LaunchRoots, in, extra, p.projectDirs, P)
       /\ Says(r, ws, NoRoots, in, extra, q.projectDirs, P)
       /\ Alike(in, extra, p.projectDirs, q.projectDirs)
  BY <1>1, <1>3, <1>4, <1>9, ProjectPart
<1>11. HasExtra(x) /\ HasExtra(y)
  <2> HIDE DEF P
  <2>1. CASE s = Plain(PerTurn)
    <3>1. HasExtra(x)
      BY <1>4, <1>7, <1>9, <1>10, <2>1, CodexExecs
    <3>2. HasExtra(y)
      BY <1>4, <1>7, <1>9, <1>10, <2>1, CodexExecs
    <3> QED BY <3>1, <3>2
  <2>2. CASE s # Plain(PerTurn)
    <3>1. s = Plain(JSONRPC) /\ ws = << <<"app-server">> >>
      BY <1>3, <1>8, <2>2
    <3>2. HasExtra(x)
      BY <1>4, <1>9, <3>1, CodexServes
    <3>3. HasExtra(y)
      BY <1>4, <1>9, <3>1, CodexServes
    <3> QED BY <3>2, <3>3
  <2> QED BY <2>1, <2>2
<1>12. Alike(in, extra, x, y)
  BY <1>4, <1>10, CodexArgsAlike
<1> QED BY <1>11, <1>12 DEF Twins

\* OpenCode's are.
LEMMA OpencodeTwins ==
  ASSUME NEW b, Outfitted(b), b.runtime = "opencode", NEW s, s = ShapeOf(b),
         NEW in \in Inputs, NEW extra \in Seq(Args), NEW X, Inserted("opencode", extra, X),
         NEW p, p.projectDirs = LayoutProjectDirs("opencode", s),
         NEW q, q.projectDirs = FieldProjectDirs("opencode", s, b.projectDirs)
  PROVE  Twins(in, extra, OpencodeArgs(b, s, b.agent, p), OpencodeArgs(b, s, b.agent, q))
<1> DEFINE r == "opencode"
           P == ProjectSaid(r, s)
           x == OpencodeArgs(b, s, b.agent, p)
           y == OpencodeArgs(b, s, b.agent, q)
<1>1. r \in CLIs /\ NoRoots \in Paths /\ LaunchRoots \in Paths /\ r \in OtherCLIs
  BY RootsAre DEF CLIs, OtherCLIs
<1>2. "opencode" # "claude" /\ "opencode" # "codex"
  OBVIOUS
<1>3. (s = Plain(HTTPSSE) \/ s = Plain(PerTurn)) /\ s = Plain(s.mode)
  <2>1. s = Plain(HTTPSSE) \/ s = Plain(PerTurn)
    BY ShapesAre
  <2>2. s = Plain(s.mode)
    BY <1>2, ShapesAre
  <2> QED BY <2>1, <2>2
<1>4. b.model \in Args /\ b.agent \in Args /\ b.projectDirs = <<Roots["project"]>>
  BY DEF Outfitted
<1> DEFINE ws == IF s = Plain(PerTurn) THEN << <<"run">> >> ELSE << <<"serve">> >>
<1>5. Open(r, << <<"run">> >>) /\ Open(r, << <<"serve">> >>)
  BY OneWordOpen
<1>6. Open(r, ws)
  BY <1>5
<1>7. ws = << <<"run">> >> \/ s # Plain(PerTurn)
  OBVIOUS
<1>8. ws = << <<"serve">> >> \/ s = Plain(PerTurn)
  OBVIOUS
<1> HIDE DEF ws
<1>9. Given(r, ws, NoRoots, in, extra) /\ Given(r, ws, LaunchRoots, in, extra) /\ Adds(r, ws, extra, X)
  BY <1>1, <1>6 DEF Given, Inserted
<1>10. /\ Says(r, ws, LaunchRoots, in, extra, p.projectDirs, P)
       /\ Says(r, ws, NoRoots, in, extra, q.projectDirs, P)
       /\ Alike(in, extra, p.projectDirs, q.projectDirs)
  BY <1>1, <1>3, <1>4, <1>9, ProjectPart
<1>11. HasExtra(x) /\ HasExtra(y)
  <2> HIDE DEF P
  <2>1. CASE s = Plain(PerTurn)
    <3>1. HasExtra(x)
      BY <1>4, <1>7, <1>9, <1>10, <2>1, OpencodeRuns
    <3>2. HasExtra(y)
      BY <1>4, <1>7, <1>9, <1>10, <2>1, OpencodeRuns
    <3> QED BY <3>1, <3>2
  <2>2. CASE s # Plain(PerTurn)
    <3>1. s = Plain(HTTPSSE) /\ ws = << <<"serve">> >>
      BY <1>3, <1>8, <2>2
    <3>2. HasExtra(x)
      BY <1>9, <3>1, OpencodeServes
    <3>3. HasExtra(y)
      BY <1>9, <3>1, OpencodeServes
    <3> QED BY <3>2, <3>3
  <2> QED BY <2>1, <2>2
<1>12. Alike(in, extra, x, y)
  BY <1>3, <1>4, <1>10, OpencodeArgsAlike
<1> QED BY <1>11, <1>12 DEF Twins

\* Antigravity's are.
LEMMA AntigravityTwins ==
  ASSUME NEW b, Outfitted(b), b.runtime = "antigravity", NEW s, s = Plain(PerTurn),
         NEW in \in Inputs, NEW extra \in Seq(Args), NEW X, Inserted("antigravity", extra, X),
         NEW p, p.projectDirs = LayoutProjectDirs("antigravity", s),
         NEW q, q.projectDirs = FieldProjectDirs("antigravity", s, b.projectDirs)
  PROVE  Twins(in, extra, AntigravityArgs(b, p), AntigravityArgs(b, q))
<1> DEFINE r == "antigravity"
           none == <<>>
           P == ProjectSaid(r, s)
           x == AntigravityArgs(b, p)
           y == AntigravityArgs(b, q)
<1>1. r \in CLIs /\ NoRoots \in Paths /\ LaunchRoots \in Paths /\ r \in OtherCLIs
  BY RootsAre DEF CLIs, OtherCLIs
<1>2. Open(r, none)
  BY DEF Open
<1>3. s = Plain(s.mode)
  BY PlainIsNotBare
<1>4. /\ b.model \in Args /\ b.agent \in Args /\ b.effort \in Args /\ <<b.permission>> \in Args
      /\ b.projectDirs = <<Roots["project"]>>
  BY DEF Outfitted
<1>9. Given(r, none, NoRoots, in, extra) /\ Given(r, none, LaunchRoots, in, extra) /\ Adds(r, none, extra, X)
  BY <1>1, <1>2 DEF Given, Inserted
<1>5. none = <<>>
  OBVIOUS
<1> HIDE DEF none
<1>10. /\ Says(r, none, LaunchRoots, in, extra, p.projectDirs, P)
       /\ Says(r, none, NoRoots, in, extra, q.projectDirs, P)
       /\ Alike(in, extra, p.projectDirs, q.projectDirs)
  BY <1>1, <1>3, <1>4, <1>9, ProjectPart
<1>11. HasExtra(x) /\ HasExtra(y)
  <2> HIDE DEF P
  <2>1. HasExtra(x)
    BY <1>4, <1>5, <1>9, <1>10, AntigravityReads
  <2>2. HasExtra(y)
    BY <1>4, <1>5, <1>9, <1>10, AntigravityReads
  <2> QED BY <2>1, <2>2
<1>12. Alike(in, extra, x, y)
  BY <1>4, <1>10, AntigravityArgsAlike
<1> QED BY <1>11, <1>12 DEF Twins

\* A projection for Claude gives BuildArgs' command line.
LEMMA ClaudeProjects ==
  ASSUME NEW a \in Adapters, a.runtime = "claude", NEW ctx \in Contexts, NEW opts \in Options,
         NEW in \in Inputs, NEW extra \in Seq(Args), NEW X, Inserted("claude", extra, X)
  PROVE  LET b == EquippedFor(a, ctx, opts)
         IN  Twins(in, extra, ArgsOf(ProjectedAdapter(a, opts), ProjectedAgent(a, ctx), ProjectedPaths(a, opts)),
                   ArgsOf(b, b.agent, FieldPaths(b)))
<1> DEFINE b == EquippedFor(a, ctx, opts)
           w == ProjectedAdapter(a, opts)
           g == ProjectedAgent(a, ctx)
           s == ShapeOf(b)
           withSkills == opts.skills # {}
           p == ClaudeLayoutPaths(s, withSkills)
           q == ClaudeFieldPaths(b, s)
<1>1. a \in AdapterFields
  BY LaunchAssumption
<1>2. /\ SameButPaths(a, b) /\ b.exclusive = (a.exclusive \/ opts.exclusive)
      /\ b.skillsDir = IF opts.skills = {} THEN <<>> ELSE Roots["boot"]
  BY <1>1, EquippedIs
<1>3. Outfitted(b) /\ ShapeOf(b) = ShapeOf(a)
  BY EquippedOutfitted
<1>4. w = Exclusively(a, opts)
  BY DEF ProjectedAdapter
<1>5. /\ w.runtime = a.runtime /\ w.mode = a.mode /\ w.bare = a.bare /\ w.model = a.model /\ w.skip = a.skip
      /\ w.exclusive = (a.exclusive \/ opts.exclusive)
  BY <1>1, <1>4 DEF Exclusively, AdapterFields
<1>6. ShapeOf(w) = ShapeOf(a)
  <2> HIDE DEF w
  <2> QED BY <1>5, SameShape
<1>7. ShapeOf(a) = ClaudeShape(a)
  BY Zenon DEF ShapeOf
<1>8. ProjectedPaths(a, opts) = p
  BY <1>3, <1>7, Zenon DEF ProjectedPaths
<1>9. ArgsOf(w, g, p) = ClaudeArgs(w, s, p)
  <2> HIDE DEF w, g, p
  <2>1. ShapeOf(w) = s
    BY <1>3, <1>6
  <2> HIDE DEF s
  <2> QED BY <1>5, <2>1, Zenon DEF ArgsOf
<1>10. ClaudeArgs(w, s, p) = ClaudeArgs(b, s, p)
  <2> HIDE DEF w, b, s, p
  <2> QED BY <1>2, <1>5, SameClaudeArgs DEF SameButPaths
<1>11. b.runtime = "claude"
  BY <1>2 DEF SameButPaths
<1>12. ArgsOf(b, b.agent, FieldPaths(b)) = ClaudeArgs(b, s, q)
  <2> HIDE DEF b
  <2> QED BY <1>11, Zenon DEF ArgsOf, FieldPaths
<1> HIDE DEF b, w, g
<1>13. Twins(in, extra, ClaudeArgs(b, s, p), ClaudeArgs(b, s, q))
  <2> HIDE DEF s
  <2>1. s = ShapeOf(b) /\ withSkills \in BOOLEAN /\ b.skillsDir = IF withSkills THEN Roots["boot"] ELSE <<>>
    BY <1>2 DEF s
  <2> HIDE DEF withSkills
  <2> QED BY <1>3, <1>11, <2>1, ClaudeTwins
<1> QED BY <1>8, <1>9, <1>10, <1>12, <1>13, Zenon DEF b, w, g

\* So does one for any other CLI.
LEMMA OtherProjects ==
  ASSUME NEW a \in Adapters, a.runtime # "claude", NEW ctx \in Contexts, NEW opts \in Options,
         NEW in \in Inputs, in.resume = <<>> \/ in.resume[1] \notin Dashed,
         NEW extra \in Seq(Args), NEW X, Inserted(a.runtime, extra, X)
  PROVE  LET b == EquippedFor(a, ctx, opts)
         IN  Twins(in, extra, ArgsOf(ProjectedAdapter(a, opts), ProjectedAgent(a, ctx), ProjectedPaths(a, opts)),
                   ArgsOf(b, b.agent, FieldPaths(b)))
<1> DEFINE b == EquippedFor(a, ctx, opts)
           s == ShapeOf(b)
           p == LayoutPaths(a)
           q == FieldPaths(b)
           g == ProjectedAgent(a, ctx)
<1>1. a \in AdapterFields
  BY LaunchAssumption
<1>2. SameButPaths(a, b) /\ b.agent = IF a.runtime = "opencode" THEN AgentName(a, ctx) ELSE a.agent
  BY <1>1, EquippedIs
<1>3. Outfitted(b) /\ ShapeOf(b) = ShapeOf(a)
  BY EquippedOutfitted
<1>4. ProjectedAdapter(a, opts) = a /\ ProjectedPaths(a, opts) = p
  BY DEF ProjectedAdapter, ProjectedPaths
<1>5. p.projectDirs = LayoutProjectDirs(a.runtime, s)
  BY <1>3 DEF LayoutPaths, NoPaths
<1> HIDE DEF b
<1>6. b.runtime = a.runtime
  BY <1>2 DEF SameButPaths
<1>7. q.projectDirs = FieldProjectDirs(a.runtime, s, b.projectDirs)
  <2>1. q = [NoPaths EXCEPT !.projectDirs = FieldProjectDirs(b.runtime, s, b.projectDirs)]
    BY <1>6, Zenon DEF FieldPaths
  <2> QED BY <1>6, <2>1 DEF NoPaths
<1> DEFINE x == ArgsOf(a, g, p)
           y == ArgsOf(b, b.agent, q)
<1>8. "claude" # "codex" /\ "claude" # "opencode" /\ "codex" # "opencode" /\ "antigravity" # "codex"
      /\ "antigravity" # "opencode" /\ "antigravity" # "claude"
  OBVIOUS
<1>9. s = ShapeOf(b) /\ s = ShapeOf(a)
  BY <1>3
<1> HIDE DEF s, p, q
<1>10. CASE a.runtime = "codex"
  <2>1. x = CodexArgs(a, s, p)
    BY <1>8, <1>9, <1>10, Zenon DEF ArgsOf
  <2>2. y = CodexArgs(b, s, q)
    BY <1>6, <1>8, <1>9, <1>10, Zenon DEF ArgsOf
  <2>3. CodexArgs(b, s, p) = CodexArgs(a, s, p)
    BY <1>2, SameCodexArgs DEF SameButPaths
  <2>4. Twins(in, extra, CodexArgs(b, s, p), CodexArgs(b, s, q))
    BY <1>3, <1>5, <1>6, <1>7, <1>9, <1>10, CodexTwins
  <2>5. Twins(in, extra, x, y)
    <3> HIDE DEF x, y
    <3> QED BY <2>1, <2>2, <2>3, <2>4
  <2> QED BY <1>4, <2>5, Zenon DEF b, q
<1>11. CASE a.runtime = "opencode"
  <2>5. g = b.agent
    BY <1>2, <1>11 DEF ProjectedAgent
  <2>1. x = OpencodeArgs(a, s, g, p)
    BY <1>8, <1>9, <1>11, Zenon DEF ArgsOf
  <2>2. y = OpencodeArgs(b, s, b.agent, q)
    BY <1>6, <1>8, <1>9, <1>11, Zenon DEF ArgsOf
  <2> HIDE DEF g
  <2>3. OpencodeArgs(b, s, b.agent, p) = OpencodeArgs(a, s, g, p)
    BY <1>2, <2>5, SameOpencodeArgs DEF SameButPaths
  <2>4. Twins(in, extra, OpencodeArgs(b, s, b.agent, p), OpencodeArgs(b, s, b.agent, q))
    BY <1>3, <1>5, <1>6, <1>7, <1>9, <1>11, OpencodeTwins
  <2>6. Twins(in, extra, x, y)
    <3> HIDE DEF x, y
    <3> QED BY <2>1, <2>2, <2>3, <2>4
  <2> QED BY <1>4, <2>6, Zenon DEF b, q, g
<1>12. CASE a.runtime = "antigravity"
  <2>5. s = Plain(PerTurn) /\ b.agent = a.agent
    <3>1. s = Plain(PerTurn)
      BY <1>6, <1>9, <1>12, ShapesAre
    <3> QED BY <1>2, <1>8, <1>12, <3>1
  <2>1. x = AntigravityArgs(a, p)
    BY <1>8, <1>9, <1>12, Zenon DEF ArgsOf
  <2>2. y = AntigravityArgs(b, q)
    BY <1>6, <1>8, <1>9, <1>12, Zenon DEF ArgsOf
  <2>3. AntigravityArgs(b, p) = AntigravityArgs(a, p)
    BY <1>2, <2>5, SameAntigravityArgs DEF SameButPaths
  <2>4. Twins(in, extra, AntigravityArgs(b, p), AntigravityArgs(b, q))
    BY <1>3, <1>5, <1>6, <1>7, <2>5, <1>12, AntigravityTwins
  <2>6. Twins(in, extra, x, y)
    <3> HIDE DEF x, y
    <3> QED BY <2>1, <2>2, <2>3, <2>4
  <2> QED BY <1>4, <2>6, Zenon DEF b, q
<1>13. a.runtime = "codex" \/ a.runtime = "opencode" \/ a.runtime = "antigravity"
  BY <1>1 DEF AdapterFields
<1> QED BY <1>10, <1>11, <1>12, <1>13

\* A projection gives a turn the command line BuildArgs gives it.
LEMMA ProjectionArgv ==
  ASSUME NEW a \in Adapters, NEW ctx \in Contexts, NEW opts \in Options,
         NEW in \in Inputs, in.resume = <<>> \/ in.resume[1] \notin Dashed,
         NEW extra \in Seq(Args), NEW X, Inserted(a.runtime, extra, X)
  PROVE  Argv(Projected(a, ctx, opts).conv, LaunchRoots, in, extra) = BuildArgs(EquippedFor(a, ctx, opts), in, extra)
<1> DEFINE b == EquippedFor(a, ctx, opts)
           c == Projected(a, ctx, opts).conv
           w == ProjectedAdapter(a, opts)
           g == ProjectedAgent(a, ctx)
           p == ProjectedPaths(a, opts)
           x == ArgsOf(w, g, p)
           y == ArgsOf(b, b.agent, FieldPaths(b))
<1>1. a \in AdapterFields
  BY LaunchAssumption
<1>2. c = Convention(w, g, p)
  BY <1>1, ConventionOfProjection
<1>3. c.argv = x
  <2> HIDE DEF w, g, p
  <2>1. Convention(w, g, p).argv = ArgsOf(w, g, p)
    BY ConventionFields
  <2> HIDE DEF c
  <2> QED BY <1>2, <2>1
<1>4. Twins(in, extra, x, y)
  <2>1. CASE a.runtime = "claude"
    BY <2>1, ClaudeProjects
  <2>2. CASE a.runtime # "claude"
    BY <2>2, OtherProjects
  <2> QED BY <2>1, <2>2
<1>5. b.extra = <<>>
  BY EquippedOutfitted DEF Outfitted
<1>6. y = ArgsOf(b, b.agent, FieldPaths(b))
  OBVIOUS
<1> HIDE DEF b, c, x, y
<1>7. Argv(c, LaunchRoots, in, extra) = BuildArgs(b, in, extra)
  BY <1>3, <1>4, <1>5, <1>6, TwinsAgree
<1> QED BY <1>7 DEF b, c

-----------------------------------------------------------------------------
(* What the CLI reads of a turn, flag by flag. *)

\* The values a flag has among the options D.
ValuesIn(D, flag) == { o[2] : o \in { x \in D : x[1] = flag } }

\* The flags that carry a turn's texts, and the options that are not theirs.
Textual == {"--system-prompt=", "-p="}

\* The options that carry no text.
Kept(D) == { o \in D : o[1] \notin Textual }

\* D has options of these flags only.
Under(D, flags) == \A o \in D : o[1] \in flags

Present(text) == IF text = <<>> THEN {} ELSE {text}

\* Options put together.
LEMMA ValuesOfUnion == \A D, E, flag : ValuesIn(D \union E, flag) = ValuesIn(D, flag) \union ValuesIn(E, flag)
  BY DEF ValuesIn

LEMMA UnderUnion == \A D, E, flags : Under(D \union E, flags) <=> Under(D, flags) /\ Under(E, flags)
  BY DEF Under

LEMMA UnderWider == \A D, flags, more : Under(D, flags) /\ flags \subseteq more => Under(D, more)
  BY DEF Under

LEMMA NoValues == \A D, flags, flag : Under(D, flags) /\ flag \notin flags => ValuesIn(D, flag) = {}
  BY DEF Under, ValuesIn

\* One option, and none.
LEMMA OneValue ==
  ASSUME NEW flag, NEW v
  PROVE  ValuesIn({<<flag, v>>}, flag) = {v} /\ Under({<<flag, v>>}, {flag})
<1> DEFINE o == <<flag, v>>
<1>1. o[1] = flag /\ o[2] = v
  OBVIOUS
<1> HIDE DEF o
<1>2. ValuesIn({o}, flag) = {v} /\ Under({o}, {flag})
  BY <1>1 DEF ValuesIn, Under
<1> QED BY <1>2 DEF o

LEMMA NothingUnder == \A flags, flag : Under({}, flags) /\ ValuesIn({}, flag) = {}
  BY DEF Under, ValuesIn

\* An option that is left out when its text is empty.
LEMMA OptionValue ==
  ASSUME NEW flag, NEW text
  PROVE  ValuesIn(OptionOf(flag, text), flag) = Present(text) /\ Under(OptionOf(flag, text), {flag})
<1>1. CASE text = <<>>
  BY <1>1, NothingUnder DEF OptionOf, Present
<1>2. CASE text # <<>>
  BY <1>2, OneValue DEF OptionOf, Present
<1> QED BY <1>1, <1>2

\* What an adapter's own arguments say, for one session, without the turn's
\* texts and the posture.
ClaudeBase(b, s, id) ==
  ((((((OptionOf("--resume", id) \union ClaudeFixed(b, s)) \union OptionOf("--model", b.model))
    \union ClaudeSaid(s, b.skillsDir).mcp) \union StrictSaid(b))
    \union (IF s = Bare THEN ClaudeSaid(s, b.skillsDir).instructions \union ClaudeSaid(s, b.skillsDir).settings ELSE {}))
    \union ClaudeSaid(s, b.skillsDir).projectDirs \union ClaudeSaid(s, b.skillsDir).skillsDir) \union SkipSaid(b)

\* What each command line says but for the texts and the extra arguments.
CodexBase(b, s) ==
  IF s.mode = JSONRPC THEN CodexModelSaid(b) ELSE CodexModelSaid(b) \union Checks \union ProjectSaid("codex", s)

OpencodeBase(b, s, id) ==
  IF s.mode = HTTPSSE THEN ServeSaid
  ELSE {<<"--format", <<"json">>>>} \union {<<"--agent", b.agent>>} \union OptionOf("--model", b.model)
         \union ProjectSaid("opencode", s) \union OptionOf("--session", id)

AntigravityBase(b, id) ==
  ((({<<"--output-format", <<"stream-json">>>>} \union PermissionSaid(b)) \union OptionOf("--model", b.model))
    \union (OptionOf("--effort", b.effort) \union OptionOf("--agent", b.agent)))
    \union (ProjectSaid("antigravity", Plain(PerTurn)) \union OptionOf("--conversation", id))

Base(b, id) ==
  CASE b.runtime = "claude" -> ClaudeBase(b, ShapeOf(b), id)
    [] b.runtime = "codex" -> CodexBase(b, ShapeOf(b))
    [] b.runtime = "opencode" -> OpencodeBase(b, ShapeOf(b), id)
    [] OTHER -> AntigravityBase(b, id)

\* What it says of the turn's texts.
TextSaid(b, in) ==
  CASE b.runtime = "claude" -> IF ShapeOf(b) = Plain(PerTurn) THEN SystemOption(in) ELSE {}
    [] b.runtime = "antigravity" -> {<<"-p=", PrefixSystem(in.prompt, in.system)>>}
    [] OTHER -> {}

\* These and the extra arguments are all it says.
LEMMA SaidIs ==
  ASSUME NEW b, b.runtime \in CLIs, NEW in, NEW X
  PROVE  Said(b, in, X) = Base(b, in.resume) \union X \union TextSaid(b, in)
<1> DEFINE s == ShapeOf(b)
           id == in.resume
<1>1. "codex" # "claude" /\ "opencode" # "claude" /\ "opencode" # "codex" /\ "antigravity" # "claude"
      /\ "antigravity" # "codex" /\ "antigravity" # "opencode"
  OBVIOUS
<1>2. CASE b.runtime = "claude"
  <2> DEFINE said == ClaudeSaid(s, b.skillsDir)
             T == IF s = Plain(PerTurn) THEN SystemOption(in) ELSE {}
  <2>1. Said(b, in, X) = ClaudeSays(b, s, in, said, X) /\ Base(b, id) = ClaudeBase(b, s, id) /\ TextSaid(b, in) = T
    BY <1>2, Zenon DEF Said, Base, TextSaid
  <2>2. ClaudeSays(b, s, in, said, X) = ClaudeBase(b, s, id) \union X \union T
    <3> DEFINE A == OptionOf("--resume", id)
               B == ClaudeFixed(b, s)
               C == OptionOf("--model", b.model)
               M == said.mcp
               S == StrictSaid(b)
               I == IF s = Bare THEN said.instructions \union said.settings ELSE {}
               P == said.projectDirs
               D == said.skillsDir
               K == SkipSaid(b)
    <3>1. ClaudeSays(b, s, in, said, X) = A \union (((B \union C) \union (M \union S)) \union I \union T) \union X
            \union P \union D \union K
      BY Zenon DEF ClaudeSays, ClaudeBodySaid
    <3>2. ClaudeBase(b, s, id) = ((((((A \union B) \union C) \union M) \union S) \union I) \union P \union D) \union K
      BY Zenon DEF ClaudeBase
    <3> HIDE DEF A, B, C, M, S, I, P, D, K, T
    <3> QED BY <3>1, <3>2
  <2> QED BY <2>1, <2>2
<1>3. CASE b.runtime = "codex"
  <2>1. Base(b, id) = CodexBase(b, s) /\ TextSaid(b, in) = {}
    BY <1>1, <1>3, Zenon DEF Base, TextSaid
  <2>2. CASE s.mode = JSONRPC
    <3>1. Said(b, in, X) = CodexModelSaid(b) \union X
      BY <1>1, <1>3, <2>2, Zenon DEF Said
    <3>2. CodexBase(b, s) = CodexModelSaid(b)
      BY <2>2, Zenon DEF CodexBase
    <3> QED BY <2>1, <3>1, <3>2
  <2>3. CASE s.mode # JSONRPC
    <3>1. Said(b, in, X) = CodexModelSaid(b) \union X \union Checks \union ProjectSaid("codex", s)
      BY <1>1, <1>3, <2>3, Zenon DEF Said
    <3>2. CodexBase(b, s) = CodexModelSaid(b) \union Checks \union ProjectSaid("codex", s)
      BY <2>3, Zenon DEF CodexBase
    <3> QED BY <2>1, <3>1, <3>2
  <2> QED BY <2>2, <2>3
<1>4. CASE b.runtime = "opencode"
  <2>1. Base(b, id) = OpencodeBase(b, s, id) /\ TextSaid(b, in) = {}
    BY <1>1, <1>4, Zenon DEF Base, TextSaid
  <2>2. CASE s.mode = HTTPSSE
    <3>1. Said(b, in, X) = ServeSaid \union X
      BY <1>1, <1>4, <2>2, Zenon DEF Said
    <3>2. OpencodeBase(b, s, id) = ServeSaid
      BY <2>2, Zenon DEF OpencodeBase
    <3> QED BY <2>1, <3>1, <3>2
  <2>3. CASE s.mode # HTTPSSE
    <3> DEFINE P == ProjectSaid("opencode", s)
               F == <<"--format", <<"json">>>>
               A == <<"--agent", b.agent>>
               M == OptionOf("--model", b.model)
               R == OptionOf("--session", id)
    <3>1. Said(b, in, X) = {F, A} \union M \union P \union R \union X
      BY <1>1, <1>4, <2>3, Zenon DEF Said, RunSaid
    <3>2. OpencodeBase(b, s, id) = {F} \union {A} \union M \union P \union R
      BY <2>3, Zenon DEF OpencodeBase
    <3> HIDE DEF P, F, A, M, R
    <3> QED BY <2>1, <3>1, <3>2
  <2> QED BY <2>2, <2>3
<1>5. CASE b.runtime = "antigravity"
  <2> DEFINE O == {<<"--output-format", <<"stream-json">>>>}
             P == PermissionSaid(b)
             M == OptionOf("--model", b.model)
             E == OptionOf("--effort", b.effort)
             A == OptionOf("--agent", b.agent)
             D == ProjectSaid("antigravity", Plain(PerTurn))
             R == OptionOf("--conversation", id)
             T == {<<"-p=", PrefixSystem(in.prompt, in.system)>>}
  <2>1. Base(b, id) = ((((O \union P) \union M) \union (E \union A)) \union (D \union R)) /\ TextSaid(b, in) = T
    BY <1>1, <1>5, Zenon DEF Base, TextSaid, AntigravityBase
  <2>2. Said(b, in, X) = O \union P \union M \union E \union A \union X \union D \union R \union T
    BY <1>1, <1>5, Zenon DEF Said, AntigravitySays
  <2> HIDE DEF O, P, M, E, A, D, R, T
  <2> QED BY <2>1, <2>2
<1> QED BY <1>2, <1>3, <1>4, <1>5 DEF CLIs

\* Claude's fixed options, by their flags.
LEMMA FixedFlags ==
  ASSUME NEW b, NEW s
  PROVE  Under(ClaudeFixed(b, s), {"-p", "--verbose", "--bare", "--input-format", "--output-format"})
<1> DEFINE F == {"-p", "--verbose", "--bare", "--input-format", "--output-format"}
           J == {<<"--input-format", <<"stream-json">>>>}
           I == IF b.mode # "" THEN {<<"--input-format", <<b.mode>>>>} ELSE {}
           K == {<<"--bare", Nothing>>}
<1>1. \A v, f : f \in F => Under({<<f, v>>}, F)
  <2> SUFFICES ASSUME NEW v, NEW f, f \in F PROVE Under({<<f, v>>}, F)
    OBVIOUS
  <2> DEFINE D == {<<f, v>>}
             E == {f}
  <2>1. Under(D, E)
    BY OneValue
  <2>2. E \subseteq F
    OBVIOUS
  <2> HIDE DEF D, E, F
  <2>3. Under(D, F)
    BY <2>1, <2>2, UnderWider
  <2> QED BY <2>3 DEF D
<1>2. Under(Dashp, F)
  BY <1>1 DEF Dashp
<1>3. Under(Outputs, F)
  <2> DEFINE v == <<"stream-json">>
  <2> HIDE DEF v
  <2>1. Outputs = {<<"--output-format", v>>} \union {<<"--verbose", Nothing>>}
    BY DEF Outputs, v
  <2>2. Under({<<"--output-format", v>>}, F) /\ Under({<<"--verbose", Nothing>>}, F)
    BY <1>1
  <2> QED BY <2>1, <2>2, UnderUnion
<1>4. Under(J, F) /\ Under(K, F) /\ Under({}, F)
  BY <1>1, NothingUnder
<1>5. Under(I, F)
  <2>1. CASE b.mode # ""
    <3> DEFINE v == <<b.mode>>
    <3>1. I = {<<"--input-format", v>>}
      BY <2>1, Zenon
    <3> HIDE DEF v
    <3> QED BY <1>1, <3>1
  <2>2. CASE ~(b.mode # "")
    <3>1. I = {}
      BY <2>2, Zenon
    <3> QED BY <1>4, <3>1
  <2> QED BY <2>1, <2>2
<1>6. \/ ClaudeFixed(b, s) = {} \/ ClaudeFixed(b, s) = Dashp \union J \union Outputs
      \/ ClaudeFixed(b, s) = Dashp \union Outputs \union K \/ ClaudeFixed(b, s) = Dashp \union Outputs \union I
  <2> HIDE DEF J, K, I
  <2>1. ClaudeFixed(b, s) = CASE s = Plain(PTYMode) -> {}
          [] s = Plain(Streaming) -> Dashp \union J \union Outputs
          [] s = Bare -> Dashp \union Outputs \union K
          [] OTHER -> Dashp \union Outputs \union I
    BY Zenon DEF ClaudeFixed, J, K, I
  <2> QED BY <2>1
<1> HIDE DEF F, J, I, K
<1>7. Under(ClaudeFixed(b, s), F)
  BY <1>2, <1>3, <1>4, <1>5, <1>6, UnderUnion
<1> QED BY <1>7 DEF F

\* What the strict flag says.
Strictly(b) == IF b.exclusive THEN {Nothing} ELSE {}

\* Options that are there under a condition.
LEMMA SwitchSaid ==
  ASSUME NEW b
  PROVE  /\ ValuesIn(StrictSaid(b), StrictFlag) = Strictly(b)
         /\ Under(StrictSaid(b), {StrictFlag}) /\ Under(SkipSaid(b), {SkipFlag})
  BY OneValue, NothingUnder DEF StrictSaid, SkipSaid, Strictly

\* What each flag a CLI looks a file or a session up by says.
LEMMA ClaudeBaseSays ==
  ASSUME NEW b, NEW s, NEW id
  PROVE  LET D == ClaudeBase(b, s, id)
         IN  /\ ValuesIn(D, "--resume") = Present(id)
             /\ ValuesIn(D, "--session") = {} /\ ValuesIn(D, "--conversation") = {}
             /\ ValuesIn(D, "--mcp-config") = {Roots["boot"] \o <<".mcp.json">>}
             /\ ValuesIn(D, StrictFlag) = Strictly(b)
             /\ (s = Bare => ValuesIn(D, "--add-dir") = {Roots["project"]} \union Present(b.skillsDir))
             /\ (s = Bare => ValuesIn(D, "--append-system-prompt-file") = {Roots["boot"] \o <<"CLAUDE.md">>})
<1> DEFINE said == ClaudeSaid(s, b.skillsDir)
           F == {"-p", "--verbose", "--bare", "--input-format", "--output-format"}
           A == OptionOf("--resume", id)
           B == ClaudeFixed(b, s)
           C == OptionOf("--model", b.model)
           M == said.mcp
           S == StrictSaid(b)
           I == IF s = Bare THEN said.instructions \union said.settings ELSE {}
           P == said.projectDirs
           D == said.skillsDir
           K == SkipSaid(b)
           mcp == Roots["boot"] \o <<".mcp.json">>
           prompt == Roots["boot"] \o <<"CLAUDE.md">>
           settings == Roots["boot"] \o <<".claude/settings.json">>
           project == Roots["project"]
           X == ClaudeBase(b, s, id)
<1>1. X = ((((((A \union B) \union C) \union M) \union S) \union I) \union P \union D) \union K
  BY Zenon DEF ClaudeBase
<1>2. Under(B, F) /\ Under(S, {StrictFlag}) /\ Under(K, {SkipFlag})
      /\ ValuesIn(S, StrictFlag) = Strictly(b)
  BY FixedFlags, SwitchSaid
<1>3. ValuesIn(A, "--resume") = Present(id) /\ Under(A, {"--resume"}) /\ Under(C, {"--model"})
  BY OptionValue
<1>4. M = {<<"--mcp-config", mcp>>} /\ P = {<<"--add-dir", project>>}
  <2> DEFINE i == IF s = Bare THEN {<<"--append-system-prompt-file", prompt>>} ELSE {}
             n == IF s = Bare THEN {<<"--settings", settings>>} ELSE {}
             k == IF s = Bare THEN OptionOf("--add-dir", b.skillsDir) ELSE {}
             m == {<<"--mcp-config", mcp>>}
             p == {<<"--add-dir", project>>}
  <2>1. said = [mcp |-> m, projectDirs |-> p, instructions |-> i, settings |-> n, skillsDir |-> k]
    BY Zenon DEF ClaudeSaid
  <2> HIDE DEF said, i, n, k, m, p
  <2>2. said.mcp = m /\ said.projectDirs = p
    BY <2>1
  <2> QED BY <2>2 DEF m, p
<1>5. D = (IF s = Bare THEN OptionOf("--add-dir", b.skillsDir) ELSE {})
      /\ I = (IF s = Bare THEN {<<"--append-system-prompt-file", prompt>>} \union {<<"--settings", settings>>} ELSE {})
  <2> DEFINE i == IF s = Bare THEN {<<"--append-system-prompt-file", prompt>>} ELSE {}
             n == IF s = Bare THEN {<<"--settings", settings>>} ELSE {}
             k == IF s = Bare THEN OptionOf("--add-dir", b.skillsDir) ELSE {}
             m == {<<"--mcp-config", mcp>>}
             p == {<<"--add-dir", project>>}
  <2>1. said = [mcp |-> m, projectDirs |-> p, instructions |-> i, settings |-> n, skillsDir |-> k]
    BY Zenon DEF ClaudeSaid
  <2> HIDE DEF said, i, n, k, m, p
  <2>2. said.instructions = i /\ said.settings = n /\ said.skillsDir = k
    BY <2>1
  <2> QED BY <2>2 DEF i, n, k
<1> HIDE DEF mcp, prompt, settings, project, said, A, B, C, M, S, P, K, X
<1>6. ValuesIn(M, "--mcp-config") = {mcp} /\ Under(M, {"--mcp-config"})
      /\ ValuesIn(P, "--add-dir") = {project} /\ Under(P, {"--add-dir"})
  BY <1>4, OneValue
<1>7. Under(D, {"--add-dir"}) /\ (s = Bare => ValuesIn(D, "--add-dir") = Present(b.skillsDir))
  BY <1>5, OptionValue, NothingUnder
<1>8. Under(I, {"--append-system-prompt-file", "--settings"})
      /\ (s = Bare => ValuesIn(I, "--append-system-prompt-file") = {prompt})
  <2> DEFINE G == {"--append-system-prompt-file", "--settings"}
             U == {<<"--append-system-prompt-file", prompt>>}
             V == {<<"--settings", settings>>}
  <2>1. /\ Under(U, {"--append-system-prompt-file"}) /\ Under(V, {"--settings"}) /\ Under({}, G)
        /\ ValuesIn(U, "--append-system-prompt-file") = {prompt}
    BY OneValue, NothingUnder
  <2>2. I = (IF s = Bare THEN U \union V ELSE {})
    BY <1>5
  <2> HIDE DEF U, V, I
  <2>3. Under(U, G) /\ Under(V, G) /\ ValuesIn(V, "--append-system-prompt-file") = {}
    BY <2>1, UnderWider, NoValues
  <2>4. Under(U \union V, G)
        /\ ValuesIn(U \union V, "--append-system-prompt-file") = {prompt}
    BY <2>1, <2>3, UnderUnion, ValuesOfUnion
  <2>5. CASE s = Bare
    BY <2>2, <2>4, <2>5
  <2>6. CASE s # Bare
    BY <2>1, <2>2, <2>6
  <2> QED BY <2>5, <2>6
<1> HIDE DEF I, D
<1>9. \A f : ValuesIn(X, f) = ValuesIn(A, f) \union ValuesIn(B, f) \union ValuesIn(C, f) \union ValuesIn(M, f)
              \union ValuesIn(S, f) \union ValuesIn(I, f) \union ValuesIn(P, f) \union ValuesIn(D, f) \union ValuesIn(K, f)
  <2> DEFINE U1 == A \union B
             U2 == U1 \union C
             U3 == U2 \union M
             U4 == U3 \union S
             U5 == U4 \union I
             U6 == U5 \union P
             U7 == U6 \union D
  <2>1. U1 = A \union B /\ U2 = U1 \union C /\ U3 = U2 \union M /\ U4 = U3 \union S /\ U5 = U4 \union I
        /\ U6 = U5 \union P /\ U7 = U6 \union D
    OBVIOUS
  <2>2. X = U7 \union K
    BY <1>1
  <2> HIDE DEF U1, U2, U3, U4, U5, U6, U7
  <2>3. \A G, E, H, f : G = E \union H => ValuesIn(G, f) = ValuesIn(E, f) \union ValuesIn(H, f)
    BY DEF ValuesIn
  <2>4. \A f : /\ ValuesIn(U1, f) = ValuesIn(A, f) \union ValuesIn(B, f)
               /\ ValuesIn(U2, f) = ValuesIn(U1, f) \union ValuesIn(C, f)
               /\ ValuesIn(U3, f) = ValuesIn(U2, f) \union ValuesIn(M, f)
               /\ ValuesIn(U4, f) = ValuesIn(U3, f) \union ValuesIn(S, f)
    BY <2>1, <2>3
  <2>5. \A f : /\ ValuesIn(U5, f) = ValuesIn(U4, f) \union ValuesIn(I, f)
               /\ ValuesIn(U6, f) = ValuesIn(U5, f) \union ValuesIn(P, f)
               /\ ValuesIn(U7, f) = ValuesIn(U6, f) \union ValuesIn(D, f)
               /\ ValuesIn(X, f) = ValuesIn(U7, f) \union ValuesIn(K, f)
    BY <2>1, <2>2, <2>3
  <2> QED BY <2>4, <2>5
<1>10. \A f : f \notin F => ValuesIn(B, f) = {}
  BY <1>2, NoValues
<1> HIDE DEF F
<1>11. \A f : (f # "--resume" => ValuesIn(A, f) = {}) /\ (f # "--model" => ValuesIn(C, f) = {})
              /\ (f # "--mcp-config" => ValuesIn(M, f) = {}) /\ (f # StrictFlag => ValuesIn(S, f) = {})
              /\ (f # "--add-dir" => ValuesIn(P, f) = {} /\ ValuesIn(D, f) = {}) /\ (f # SkipFlag => ValuesIn(K, f) = {})
              /\ (f \notin {"--append-system-prompt-file", "--settings"} => ValuesIn(I, f) = {})
  <2>1. \A E, g, f : Under(E, {g}) /\ f # g => ValuesIn(E, f) = {}
    BY DEF Under, ValuesIn
  <2>2. \A E, G, f : Under(E, G) /\ f \notin G => ValuesIn(E, f) = {}
    BY NoValues
  <2>3. \A f : f \notin {"--append-system-prompt-file", "--settings"} => ValuesIn(I, f) = {}
    BY <1>8, <2>2
  <2>4. \A f : f # StrictFlag => ValuesIn(S, f) = {}
    BY <1>2, <2>1
  <2>5. \A f : f # SkipFlag => ValuesIn(K, f) = {}
    BY <1>2, <2>1
  <2>6. \A f : (f # "--resume" => ValuesIn(A, f) = {}) /\ (f # "--model" => ValuesIn(C, f) = {})
    BY <1>3, <2>1
  <2>7. \A f : (f # "--mcp-config" => ValuesIn(M, f) = {})
               /\ (f # "--add-dir" => ValuesIn(P, f) = {} /\ ValuesIn(D, f) = {})
    BY <1>6, <1>7, <2>1
  <2> QED BY <2>3, <2>4, <2>5, <2>6, <2>7
<1>12. /\ ValuesIn(X, "--resume") = Present(id) /\ ValuesIn(X, "--session") = {} /\ ValuesIn(X, "--conversation") = {}
       /\ ValuesIn(X, "--mcp-config") = {mcp}
  BY <1>3, <1>6, <1>9, <1>10, <1>11 DEF F, StrictFlag, SkipFlag
<1>13. ValuesIn(X, StrictFlag) = Strictly(b)
  BY <1>2, <1>9, <1>10, <1>11 DEF F, StrictFlag, SkipFlag
<1>14. ASSUME s = Bare
       PROVE  /\ ValuesIn(X, "--add-dir") = {project} \union Present(b.skillsDir)
              /\ ValuesIn(X, "--append-system-prompt-file") = {prompt}
  BY <1>6, <1>7, <1>8, <1>9, <1>10, <1>11, <1>14 DEF F, StrictFlag, SkipFlag
<1> QED BY <1>12, <1>13, <1>14 DEF X, mcp, prompt, project

\* The session is the only value OpenCode resumes with.
LEMMA OpencodeBaseSays ==
  ASSUME NEW b, NEW s, NEW id
  PROVE  LET D == OpencodeBase(b, s, id)
         IN  /\ ValuesIn(D, "--resume") = {} /\ ValuesIn(D, "--conversation") = {}
             /\ s.mode = HTTPSSE => ValuesIn(D, "--session") = {}
             /\ s.mode # HTTPSSE => ValuesIn(D, "--session") = Present(id) /\ ValuesIn(D, "--agent") = {b.agent}
<1> DEFINE X == OpencodeBase(b, s, id)
           json == <<"json">>
           F == {<<"--format", json>>}
           A == {<<"--agent", b.agent>>}
           M == OptionOf("--model", b.model)
           P == ProjectSaid("opencode", s)
           R == OptionOf("--session", id)
<1> HIDE DEF json
<1>1. CASE s.mode = HTTPSSE
  <2> DEFINE zero == <<"0">>
             home == <<"127.0.0.1">>
             U == {<<"--port", zero>>}
             V == {<<"--hostname", home>>}
  <2>1. X = U \union V
    BY <1>1 DEF OpencodeBase, ServeSaid
  <2> HIDE DEF zero, home, X
  <2>2. Under(U, {"--port"}) /\ Under(V, {"--hostname"})
    BY OneValue
  <2> HIDE DEF U, V
  <2>3. \A f : f # "--port" /\ f # "--hostname" => ValuesIn(U, f) = {} /\ ValuesIn(V, f) = {}
    BY <2>2 DEF Under, ValuesIn
  <2>4. \A f : f # "--port" /\ f # "--hostname" => ValuesIn(X, f) = {}
    BY <2>1, <2>3 DEF ValuesIn
  <2> QED BY <1>1, <2>4 DEF X
<1>2. CASE s.mode # HTTPSSE
  <2>1. X = (((F \union A) \union M) \union P) \union R
    BY <1>2, Zenon DEF OpencodeBase, json
  <2>2. Under(F, {"--format"}) /\ Under(A, {"--agent"}) /\ ValuesIn(A, "--agent") = {b.agent}
    BY OneValue
  <2>3. Under(M, {"--model"}) /\ Under(R, {"--session"}) /\ ValuesIn(R, "--session") = Present(id)
    BY OptionValue
  <2>4. Under(P, {"--dir"})
    <3> DEFINE project == Roots["project"]
               D == {<<"--dir", project>>}
    <3>1. ProjectFlag("opencode") = "--dir"
      BY Zenon DEF ProjectFlag
    <3>2. P = D \/ P = {}
      BY <3>1 DEF ProjectSaid
    <3> HIDE DEF project, P
    <3>3. Under(D, {"--dir"})
      BY OneValue
    <3>4. \A E : E = {} => Under(E, {"--dir"})
      BY DEF Under
    <3> HIDE DEF D
    <3> QED BY <3>2, <3>3, <3>4
  <2> HIDE DEF X, F, A, M, P, R
  <2>5. \A f : ValuesIn(X, f) = ValuesIn(F, f) \union ValuesIn(A, f) \union ValuesIn(M, f) \union ValuesIn(P, f)
                 \union ValuesIn(R, f)
    <3> DEFINE U1 == F \union A
               U2 == U1 \union M
               U3 == U2 \union P
    <3>1. U1 = F \union A /\ U2 = U1 \union M /\ U3 = U2 \union P /\ X = U3 \union R
      BY <2>1
    <3> HIDE DEF U1, U2, U3
    <3>2. \A G, E, H, f : G = E \union H => ValuesIn(G, f) = ValuesIn(E, f) \union ValuesIn(H, f)
      BY DEF ValuesIn
    <3>3. \A f : /\ ValuesIn(U1, f) = ValuesIn(F, f) \union ValuesIn(A, f)
                 /\ ValuesIn(U2, f) = ValuesIn(U1, f) \union ValuesIn(M, f)
                 /\ ValuesIn(U3, f) = ValuesIn(U2, f) \union ValuesIn(P, f)
                 /\ ValuesIn(X, f) = ValuesIn(U3, f) \union ValuesIn(R, f)
      BY <3>1, <3>2
    <3> QED BY <3>3
  <2>6. \A E, g, f : Under(E, {g}) /\ f # g => ValuesIn(E, f) = {}
    BY DEF Under, ValuesIn
  <2>7. \A f : /\ f # "--format" => ValuesIn(F, f) = {}
               /\ f # "--agent" => ValuesIn(A, f) = {}
               /\ f # "--model" => ValuesIn(M, f) = {}
               /\ f # "--dir" => ValuesIn(P, f) = {}
               /\ f # "--session" => ValuesIn(R, f) = {}
    BY <2>2, <2>3, <2>4, <2>6
  <2>8. ValuesIn(X, "--resume") = {} /\ ValuesIn(X, "--conversation") = {}
    BY <2>5, <2>7
  <2>9. ValuesIn(X, "--session") = Present(id)
    BY <2>3, <2>5, <2>7
  <2>10. ValuesIn(X, "--agent") = {b.agent}
    BY <2>2, <2>5, <2>7
  <2> QED BY <1>2, <2>8, <2>9, <2>10 DEF X
<1> QED BY <1>1, <1>2

\* The conversation is the only value Antigravity resumes with.
LEMMA AntigravityBaseSays ==
  ASSUME NEW b, NEW id
  PROVE  LET D == AntigravityBase(b, id)
         IN  /\ ValuesIn(D, "--resume") = {} /\ ValuesIn(D, "--session") = {} /\ ValuesIn(D, "-p=") = {}
             /\ ValuesIn(D, "--conversation") = Present(id)
<1> DEFINE X == AntigravityBase(b, id)
           stream == <<"stream-json">>
           O == {<<"--output-format", stream>>}
           P == PermissionSaid(b)
           M == OptionOf("--model", b.model)
           E == OptionOf("--effort", b.effort)
           A == OptionOf("--agent", b.agent)
           D == ProjectSaid("antigravity", Plain(PerTurn))
           R == OptionOf("--conversation", id)
<1>1. X = (((O \union P) \union M) \union (E \union A)) \union (D \union R)
  BY Zenon DEF AntigravityBase
<1> HIDE DEF stream
<1>2. Under(O, {"--output-format"})
  BY OneValue
<1>3. Under(M, {"--model"}) /\ Under(E, {"--effort"}) /\ Under(A, {"--agent"}) /\ Under(R, {"--conversation"})
      /\ ValuesIn(R, "--conversation") = Present(id)
  BY OptionValue
<1>4. Under(P, {SkipFlag, "--mode"})
  <2> DEFINE v == <<b.permission>>
             G == {SkipFlag, "--mode"}
             U == {<<SkipFlag, Nothing>>}
             V == {<<"--mode", v>>}
  <2>1. P = (CASE b.permission = "bypass" -> U [] b.permission \in {"accept-edits", "plan"} -> V [] OTHER -> {})
    BY Zenon DEF PermissionSaid
  <2>2. P = U \/ P = V \/ P = {}
    BY <2>1
  <2> HIDE DEF v, P
  <2>3. Under(U, {SkipFlag}) /\ Under(V, {"--mode"}) /\ Under({}, G)
    BY OneValue, NothingUnder
  <2> HIDE DEF U, V
  <2>4. Under(U, G) /\ Under(V, G)
    BY <2>3, UnderWider
  <2> QED BY <2>2, <2>3, <2>4 DEF G
<1>5. Under(D, {"--add-dir"})
  <2> DEFINE project == Roots["project"]
             V == {<<"--add-dir", project>>}
  <2>1. ProjectFlag("antigravity") = "--add-dir"
    BY Zenon DEF ProjectFlag
  <2>2. D = V \/ D = {}
    BY <2>1 DEF ProjectSaid
  <2> HIDE DEF project, D
  <2>3. Under(V, {"--add-dir"})
    BY OneValue
  <2>4. \A Q : Q = {} => Under(Q, {"--add-dir"})
    BY DEF Under
  <2> HIDE DEF V
  <2> QED BY <2>2, <2>3, <2>4
<1> HIDE DEF X, O, P, M, E, A, D, R
<1>6. \A f : ValuesIn(X, f) = ValuesIn(O, f) \union ValuesIn(P, f) \union ValuesIn(M, f) \union ValuesIn(E, f)
               \union ValuesIn(A, f) \union ValuesIn(D, f) \union ValuesIn(R, f)
  <2> DEFINE U1 == O \union P
             U2 == U1 \union M
             U3 == E \union A
             U4 == U2 \union U3
             U5 == D \union R
  <2>1. U1 = O \union P /\ U2 = U1 \union M /\ U3 = E \union A /\ U4 = U2 \union U3 /\ U5 = D \union R /\ X = U4 \union U5
    BY <1>1
  <2> HIDE DEF U1, U2, U3, U4, U5
  <2>2. \A G, K, H, f : G = K \union H => ValuesIn(G, f) = ValuesIn(K, f) \union ValuesIn(H, f)
    BY DEF ValuesIn
  <2>3. \A f : /\ ValuesIn(U1, f) = ValuesIn(O, f) \union ValuesIn(P, f)
               /\ ValuesIn(U2, f) = ValuesIn(U1, f) \union ValuesIn(M, f)
               /\ ValuesIn(U3, f) = ValuesIn(E, f) \union ValuesIn(A, f)
    BY <2>1, <2>2
  <2>4. \A f : /\ ValuesIn(U4, f) = ValuesIn(U2, f) \union ValuesIn(U3, f)
               /\ ValuesIn(U5, f) = ValuesIn(D, f) \union ValuesIn(R, f)
               /\ ValuesIn(X, f) = ValuesIn(U4, f) \union ValuesIn(U5, f)
    BY <2>1, <2>2
  <2> QED BY <2>3, <2>4
<1>7. \A K, g, f : Under(K, {g}) /\ f # g => ValuesIn(K, f) = {}
  BY DEF Under, ValuesIn
<1>8. \A f : /\ f # "--output-format" => ValuesIn(O, f) = {}
             /\ f # "--model" => ValuesIn(M, f) = {}
             /\ f # "--effort" => ValuesIn(E, f) = {}
             /\ f # "--agent" => ValuesIn(A, f) = {}
             /\ f # "--add-dir" => ValuesIn(D, f) = {}
             /\ f # "--conversation" => ValuesIn(R, f) = {}
  BY <1>2, <1>3, <1>5, <1>7
<1>9. \A f : f # SkipFlag /\ f # "--mode" => ValuesIn(P, f) = {}
  BY <1>4 DEF Under, ValuesIn
<1>10. ValuesIn(X, "--resume") = {} /\ ValuesIn(X, "--session") = {} /\ ValuesIn(X, "-p=") = {}
  BY <1>6, <1>8, <1>9 DEF SkipFlag
<1>11. ValuesIn(X, "--conversation") = Present(id)
  BY <1>3, <1>6, <1>8, <1>9 DEF SkipFlag
<1> QED BY <1>10, <1>11 DEF X
=============================================================================
