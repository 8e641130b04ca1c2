----------------------------- MODULE EditorProofs -----------------------------
(***************************************************************************)
(* Proofs about Editor, for any number of terminals, files, rows and bytes *)
(* and any sequence of keys.                                               *)
(***************************************************************************)
EXTENDS Editor, FiniteSetTheorems, SequenceTheorems, WellFoundedInduction, TLAPS

\* What a row shows of line l.
LineText(b, l) == IF l < TotalLines(b) THEN RenderLine(b, l) ELSE <<>>

EdType ==
  [path : Paths, buf : Seq(Bytes), cursor : Nat, top : Nat, pref : Nat, keep : BOOLEAN,
   dirty : BOOLEAN, first : BOOLEAN, prevLine : Nat, prevTop : Nat, prevTotal : Nat]

\* The buffer and the cursor stay inside their bounds.
EdOK(e) == e \in EdType /\ Len(e.buf) <= MaxBytes /\ e.cursor <= Len(e.buf)

EditorTypes ==
  /\ EdOK(ed)
  /\ files \in [Paths -> Contents]
  /\ screen \in [Terminals -> [0 .. Rows - 1 -> Seq(Bytes)]]
  /\ pc \in [Terminals -> {"shell", "edit", "unsaved", "menu", "prompt"}]
  /\ sole \in BOOLEAN /\ intact \in BOOLEAN
  /\ pending \subseteq Terminals

\* While somebody edits, the drawing cache is that of the last draw_editor.
Drawn ==
  Editing # {} =>
    /\ ~ed.first /\ ed.prevTop = ed.top
    /\ ed.prevLine = LineOf(ed.buf, ed.cursor)
    /\ ed.prevTotal = TotalLines(ed.buf)

\* What a terminal that edits alone has changed since the last save makes the
\* buffer dirty.
SoleOK ==
  sole => /\ \A t, u \in Editing : t = u
          /\ \A t \in pending \intersect Editing : ed.dirty

EditorInv ==
  EditorTypes /\ Drawn /\ SoleOK /\ CursorVisible /\ ScreenShowsBuffer /\ CleanIsSaved

-----------------------------------------------------------------------------
(* Numbers.                                                                *)

LEMMA LeastElement ==
  ASSUME NEW S \in SUBSET Nat, S # {}
  PROVE  Min(S) \in S /\ \A y \in S : Min(S) <= y
<1> DEFINE R == {p \in Nat \X Nat : p[1] < p[2]}
<1>1. IsWellFoundedOn(R, Nat)
  BY NatLessThanWellFounded, Zenon DEF OpToRel
<1> HIDE DEF R
<1>2. PICK x \in S : \A y \in S : ~(<<y, x>> \in R)
  BY <1>1, WFMin
<1>3. \A u, v \in Nat : u < v => <<u, v>> \in R
  BY SMT DEF R
<1>4. \A y \in S : y \in Nat /\ x \in Nat /\ ~(y < x)
  BY <1>2, <1>3, Zenon
<1>5. \A y \in S : x =< y
  BY <1>4
<1> QED
  BY <1>5, Zenon DEF Min

LEMMA MinIs ==
  ASSUME NEW S \in SUBSET Nat, NEW x \in S, \A y \in S : x <= y
  PROVE  Min(S) = x
<1> DEFINE m == Min(S)
<1>1. m \in S /\ m <= x /\ x <= m
  BY LeastElement
<1>2. m \in Nat /\ x \in Nat
  BY <1>1
<1> HIDE DEF m
<1>3. m = x
  BY <1>1, <1>2
<1> QED
  BY <1>3 DEF m

LEMMA GreatestElement ==
  ASSUME NEW n \in Nat, NEW S \in SUBSET (0 .. n), S # {}
  PROVE  Max(S) \in S
<1> DEFINE T == {n - i : i \in S}
<1>1. T \in SUBSET Nat /\ T # {}
  <2>1. \A i \in S : i \in 0 .. n /\ n - i \in Nat
    OBVIOUS
  <2> QED
    BY <2>1
<1>2. Min(T) \in T /\ \A y \in T : Min(T) <= y
  BY <1>1, LeastElement
<1> DEFINE m == Min(T)
<1> HIDE DEF m
<1>3. PICK i \in S : m = n - i
  BY <1>2 DEF m
<1>4. \A j \in S : m <= n - j
  BY <1>2 DEF m
<1>5. \A j \in S : i >= j
  BY <1>3, <1>4
<1> QED
  BY <1>5, Zenon DEF Max

LEMMA MinOfTwo ==
  ASSUME NEW a \in Nat, NEW c \in Nat
  PROVE  Min({a, c}) = IF a <= c THEN a ELSE c
<1>1. {a, c} \in SUBSET Nat
  OBVIOUS
<1>2. CASE a <= c
  BY <1>1, <1>2, MinIs
<1>3. CASE ~(a <= c)
  <2>1. c \in {a, c} /\ \A y \in {a, c} : c <= y
    BY <1>3
  <2> QED
    BY <1>1, <1>3, <2>1, MinIs
<1> QED
  BY <1>2, <1>3

-----------------------------------------------------------------------------
(* Lines.                                                                  *)

LEMMA LinesFinite ==
  ASSUME NEW b, NEW n \in Nat
  PROVE  /\ IsFiniteSet(Newlines(b, n)) /\ LineOf(b, n) \in Nat
         /\ \A m \in 0 .. n : LineOf(b, m) <= LineOf(b, n)
<1>1. IsFiniteSet(1 .. n)
  BY FS_Interval
<1>2. \A S : S \subseteq 1 .. n => IsFiniteSet(S) /\ Cardinality(S) \in Nat
  BY <1>1, FS_Subset, FS_CardinalityType
<1>3. \A m \in 0 .. n : Newlines(b, m) \subseteq Newlines(b, n)
  BY DEF Newlines
<1>4. Newlines(b, n) \subseteq 1 .. n
  BY DEF Newlines
<1>5. IsFiniteSet(Newlines(b, n))
  BY <1>2, <1>4
<1> QED
  BY <1>2, <1>3, <1>4, <1>5, FS_Subset DEF LineOf

LEMMA LineSteps ==
  ASSUME NEW b
  PROVE  /\ LineOf(b, 0) = 0
         /\ \A n \in Nat : LineOf(b, n + 1) = LineOf(b, n) + IF b[n + 1] = NL THEN 1 ELSE 0
<1>1. Newlines(b, 0) = {}
  BY DEF Newlines
<1>2. ASSUME NEW n \in Nat
      PROVE  LineOf(b, n + 1) = LineOf(b, n) + IF b[n + 1] = NL THEN 1 ELSE 0
  <2>1. IsFiniteSet(Newlines(b, n)) /\ LineOf(b, n) \in Nat
    BY LinesFinite
  <2>2. CASE b[n + 1] = NL
    <3>1. Newlines(b, n + 1) = Newlines(b, n) \union {n + 1} /\ n + 1 \notin Newlines(b, n)
      BY <2>2 DEF Newlines
    <3> QED
      BY <2>1, <2>2, <3>1, FS_AddElement DEF LineOf
  <2>3. CASE b[n + 1] # NL
    <3>1. Newlines(b, n + 1) = Newlines(b, n)
      BY <2>3 DEF Newlines
    <3> QED
      BY <2>1, <2>3, <3>1 DEF LineOf
  <2> QED
    BY <2>2, <2>3
<1> QED
  BY <1>1, <1>2, FS_EmptySet DEF LineOf

\* No line is skipped.
LEMMA EveryLine ==
  ASSUME NEW b, NEW n \in Nat, NEW l \in 0 .. LineOf(b, n)
  PROVE  \E i \in 0 .. n : LineOf(b, i) = l
<1>1. \A i \in Nat : LineOf(b, i) \in Nat
  BY LinesFinite
<1> DEFINE S == {i \in 0 .. n : LineOf(b, i) >= l}
<1>2. S \in SUBSET Nat /\ n \in S
  BY <1>1
<1> DEFINE m == Min(S)
<1>3. m \in S /\ \A y \in S : m <= y
  BY <1>2, LeastElement
<1> HIDE DEF m
<1>4. CASE m = 0
  BY <1>1, <1>3, <1>4, LineSteps
<1>5. CASE m # 0
  <2>1. m - 1 \in 0 .. n /\ m - 1 \notin S /\ m - 1 \in Nat /\ (m - 1) + 1 = m
    BY <1>3, <1>5
  <2>2. LineOf(b, m) <= LineOf(b, m - 1) + 1
    <3>1. LineOf(b, (m - 1) + 1) = LineOf(b, m - 1) + IF b[(m - 1) + 1] = NL THEN 1 ELSE 0
      BY <2>1, LineSteps
    <3> QED
      BY <1>1, <2>1, <3>1
  <2> QED
    BY <1>1, <1>3, <2>1, <2>2
<1> QED
  BY <1>4, <1>5

\* Positions the searches of the editor yield.
LEMMA LinePositions ==
  ASSUME NEW b \in Seq(Bytes)
  PROVE  /\ \A l : PosForLine(b, l) \in 0 .. Len(b)
         /\ \A pos \in 0 .. Len(b) : LineEnd(b, pos) \in pos .. Len(b) /\ LineStart(b, pos) \in 0 .. pos
         /\ \A l : RenderLine(b, l) \in Seq(Bytes)
<1>1. ASSUME NEW l PROVE PosForLine(b, l) \in 0 .. Len(b)
  <2> DEFINE S == {i \in 0 .. Len(b) : LineOf(b, i) = l} \union {Len(b)}
  <2>1. S \in SUBSET Nat /\ S # {} /\ S \subseteq 0 .. Len(b)
    OBVIOUS
  <2>2. Min(S) \in S
    BY <2>1, LeastElement
  <2> QED
    BY <2>1, <2>2 DEF PosForLine
<1>2. ASSUME NEW pos \in 0 .. Len(b) PROVE LineEnd(b, pos) \in pos .. Len(b)
  <2> DEFINE S == {i \in pos .. Len(b) : i = Len(b) \/ b[i + 1] = NL}
  <2>1. S \in SUBSET Nat /\ Len(b) \in S /\ S \subseteq pos .. Len(b)
    OBVIOUS
  <2>2. Min(S) \in S
    BY <2>1, LeastElement
  <2> QED
    BY <2>1, <2>2 DEF LineEnd
<1>3. ASSUME NEW pos \in 0 .. Len(b) PROVE LineStart(b, pos) \in 0 .. pos
  <2> DEFINE S == {i \in 0 .. pos : i = 0 \/ b[i] = NL}
  <2>1. pos \in Nat /\ S \in SUBSET (0 .. pos) /\ 0 \in S
    OBVIOUS
  <2>2. Max(S) \in S
    BY <2>1, GreatestElement
  <2> QED
    BY <2>1, <2>2 DEF LineStart
<1>4. ASSUME NEW l PROVE RenderLine(b, l) \in Seq(Bytes)
  <2> DEFINE s == PosForLine(b, l)
             e == LineEnd(b, s)
  <2>1. s \in 0 .. Len(b) /\ e \in s .. Len(b)
    BY <1>1, <1>2
  <2> HIDE DEF s, e
  <2>2. s + 1 \in Int /\ e \in Int /\ \A i \in s + 1 .. e : b[i] \in Bytes
    BY <2>1
  <2>3. SubSeq(b, s + 1, e) \in Seq(Bytes)
    BY <2>2, SubSeqProperties
  <2> QED
    BY <2>3 DEF RenderLine, s, e
<1> QED
  BY <1>1, <1>2, <1>3, <1>4

-----------------------------------------------------------------------------
(* Lines after a change in one place.                                      *)

\* The text u is b with k bytes inserted after position p.
Spliced(b, u, p, k) ==
  /\ b \in Seq(Bytes) /\ u \in Seq(Bytes) /\ p \in 0 .. Len(b) /\ k \in Nat
  /\ Len(u) = Len(b) + k
  /\ \A i \in 1 .. p : u[i] = b[i]
  /\ \A i \in p + 1 .. Len(b) : u[i + k] = b[i]

LEMMA LinesBefore ==
  ASSUME NEW b, NEW u, NEW p, NEW k, Spliced(b, u, p, k), NEW n \in 0 .. p
  PROVE  LineOf(u, n) = LineOf(b, n)
<1>1. Newlines(u, n) = Newlines(b, n)
  BY DEF Newlines, Spliced
<1> QED
  BY <1>1 DEF LineOf

LEMMA LinesAfter ==
  ASSUME NEW b, NEW u, NEW p, NEW k, Spliced(b, u, p, k), NEW n \in p .. Len(b)
  PROVE  LineOf(u, n + k) - LineOf(u, p + k) = LineOf(b, n) - LineOf(b, p)
<1>1. p \in Nat /\ k \in Nat /\ Len(b) \in Nat /\ n \in Nat /\ p + k \in Nat
  BY DEF Spliced
<1>2. \A i \in Nat : LineOf(b, i) \in Nat /\ LineOf(u, i) \in Nat
  BY LinesFinite
<1> DEFINE Bad == {i \in p .. Len(b) : LineOf(u, i + k) - LineOf(u, p + k) # LineOf(b, i) - LineOf(b, p)}
<1> SUFFICES ASSUME Bad # {} PROVE FALSE
  OBVIOUS
<1> DEFINE m == Min(Bad)
<1>3. m \in Bad /\ \A y \in Bad : m <= y
  <2>1. Bad \in SUBSET Nat
    BY <1>1
  <2> QED
    BY <2>1, LeastElement
<1>4. m \in p .. Len(b) /\ \A y \in Bad : m <= y
  BY <1>3
<1>5. LineOf(u, m + k) - LineOf(u, p + k) # LineOf(b, m) - LineOf(b, p)
  BY <1>3
<1>6. p \notin Bad
  <2>1. LineOf(u, p + k) \in Nat /\ LineOf(b, p) \in Nat
    BY <1>1, <1>2, Zenon
  <2> QED
    BY <2>1
<1>7. m # p
  BY <1>3, <1>6
<1> DEFINE j == m - 1
<1>8. j \notin Bad
  <2> HIDE DEF m, Bad
  <2> QED
    BY <1>1, <1>4
<1>9. LineOf(u, j + k) - LineOf(u, p + k) = LineOf(b, j) - LineOf(b, p)
  <2>1. j \in p .. Len(b)
    <3> HIDE DEF m, Bad
    <3> QED
      BY <1>1, <1>4, <1>7
  <2> QED
    BY <1>8, <2>1
<1> HIDE DEF m, Bad
<1>10. /\ j \in Nat /\ j + 1 = m /\ j + k \in Nat /\ (j + k) + 1 = m + k
       /\ m \in p + 1 .. Len(b)
  BY <1>1, <1>4, <1>7
<1>11. u[m + k] = b[m]
  BY <1>10 DEF Spliced
<1>12. LineOf(b, m) = LineOf(b, j) + IF b[m] = NL THEN 1 ELSE 0
  BY <1>10, LineSteps
<1>13. LineOf(u, m + k) = LineOf(u, j + k) + IF b[m] = NL THEN 1 ELSE 0
  BY <1>10, <1>11, LineSteps
<1> HIDE DEF j
<1>14. /\ LineOf(u, j + k) \in Nat /\ LineOf(b, j) \in Nat /\ LineOf(u, p + k) \in Nat
       /\ LineOf(b, p) \in Nat
  BY <1>1, <1>2, <1>10, Zenon
<1> DEFINE d == IF b[m] = NL THEN 1 ELSE 0
<1>15. d \in Nat
  OBVIOUS
<1>16. LineOf(b, m) = LineOf(b, j) + d /\ LineOf(u, m + k) = LineOf(u, j + k) + d
  BY <1>12, <1>13
<1> HIDE DEF d
<1> DEFINE w == LineOf(u, j + k)
           x == LineOf(u, p + k)
           y == LineOf(b, j)
           z == LineOf(b, p)
<1>17. w - x = y - z /\ w \in Nat /\ x \in Nat /\ y \in Nat /\ z \in Nat /\ (w + d) - x # (y + d) - z
  BY <1>5, <1>9, <1>14, <1>16
<1> HIDE DEF w, x, y, z
<1> QED
  BY <1>15, <1>17

\* What is inserted holds no newline.
LEMMA LinesWithin ==
  ASSUME NEW b, NEW u, NEW p, NEW k, Spliced(b, u, p, k),
         \A i \in p + 1 .. p + k : u[i] # NL, NEW n \in p .. p + k
  PROVE  LineOf(u, n) = LineOf(b, p)
<1>1. Newlines(u, n) = Newlines(b, p)
  BY DEF Newlines, Spliced
<1> QED
  BY <1>1 DEF LineOf

LEMMA SameTotal ==
  ASSUME NEW b, NEW u, NEW p, NEW k, Spliced(b, u, p, k), \A i \in p + 1 .. p + k : u[i] # NL
  PROVE  TotalLines(u) = TotalLines(b)
<1>1. p \in Nat /\ k \in Nat /\ Len(b) \in p .. Len(b) /\ Len(u) = Len(b) + k /\ p + k \in p .. p + k
      /\ Len(b) \in Nat
  BY DEF Spliced
<1>2. LineOf(u, Len(u)) - LineOf(u, p + k) = LineOf(b, Len(b)) - LineOf(b, p)
  BY <1>1, LinesAfter
<1>3. LineOf(u, p + k) = LineOf(b, p)
  BY <1>1, LinesWithin
<1>4. LineOf(u, Len(u)) \in Nat /\ LineOf(b, p) \in Nat /\ LineOf(b, Len(b)) \in Nat
  BY <1>1, LinesFinite
<1> QED
  BY <1>2, <1>3, <1>4 DEF TotalLines

\* One newline more is one line more.
LEMMA OneMore ==
  ASSUME NEW b, NEW u, NEW p, Spliced(b, u, p, 1), u[p + 1] = NL
  PROVE  TotalLines(u) = TotalLines(b) + 1
<1>1. p \in Nat /\ Len(b) \in p .. Len(b) /\ Len(u) = Len(b) + 1 /\ Len(b) \in Nat /\ p \in 0 .. p
  BY DEF Spliced
<1>2. LineOf(u, Len(u)) - LineOf(u, p + 1) = LineOf(b, Len(b)) - LineOf(b, p)
  BY <1>1, LinesAfter
<1>3. LineOf(u, p + 1) = LineOf(u, p) + 1
  BY <1>1, LineSteps
<1>5. LineOf(u, p) = LineOf(b, p)
  BY <1>1, LinesBefore
<1>4. LineOf(u, Len(u)) \in Nat /\ LineOf(b, p) \in Nat /\ LineOf(b, Len(b)) \in Nat
  BY <1>1, LinesFinite
<1> QED
  BY <1>1, <1>2, <1>3, <1>4, <1>5 DEF TotalLines

LEMMA MonotoneLines ==
  ASSUME NEW b, NEW n \in Nat, NEW m \in 0 .. n
  PROVE  LineOf(b, m) <= LineOf(b, n) /\ LineOf(b, m) \in Nat /\ LineOf(b, n) \in Nat
  BY LinesFinite

\* The same bytes d further make the same row.
LEMMA RowIs ==
  ASSUME NEW b \in Seq(Bytes), NEW u \in Seq(Bytes), NEW s \in Nat, NEW e \in Nat, NEW d \in Nat,
         s <= e, e <= Len(b), e + d <= Len(u), \A i \in s + 1 .. e : u[i + d] = b[i],
         NEW lo, lo = s + d + 1, NEW hi, hi = e + d
  PROVE  SubSeq(u, lo, hi) = SubSeq(b, s + 1, e)
<1>1. Len(b) \in Nat /\ Len(u) \in Nat
  OBVIOUS
<1>2. \A x \in 1 .. e - s : u[(s + x) + d] = b[s + x]
  <2> SUFFICES ASSUME NEW x \in 1 .. e - s PROVE u[(s + x) + d] = b[s + x]
    OBVIOUS
  <2>1. s + x \in s + 1 .. e
    OBVIOUS
  <2> QED
    BY <2>1
<1> DEFINE v == SubSeq(b, s + 1, e)
           w == SubSeq(u, s + d + 1, e + d)
<1>3. \A i \in s + 1 .. e : b[i] \in Bytes
  BY <1>1
<1>4. /\ v \in Seq(Bytes) /\ Len(v) = IF s + 1 <= e THEN e - (s + 1) + 1 ELSE 0
      /\ \A x \in 1 .. e - (s + 1) + 1 : v[x] = b[s + 1 + x - 1]
  BY <1>1, <1>3, SubSeqProperties
<1>5. \A i \in s + d + 1 .. e + d : u[i] \in Bytes
  BY <1>1
<1>6. /\ w \in Seq(Bytes)
      /\ Len(w) = IF s + d + 1 <= e + d THEN e + d - (s + d + 1) + 1 ELSE 0
      /\ \A x \in 1 .. e + d - (s + d + 1) + 1 : w[x] = u[s + d + 1 + x - 1]
  BY <1>1, <1>5, SubSeqProperties
<1> HIDE DEF v, w
<1>7. Len(v) = e - s /\ Len(w) = e - s
  BY <1>1, <1>4, <1>6
<1>8. \A x \in 1 .. e - s : v[x] = b[s + x]
  <2> SUFFICES ASSUME NEW x \in 1 .. e - s PROVE v[x] = b[s + x]
    OBVIOUS
  <2>1. x \in 1 .. e - (s + 1) + 1 /\ s + 1 + x - 1 = s + x
    BY <1>1
  <2> QED
    BY <1>4, <2>1
<1>9. \A x \in 1 .. e - s : w[x] = u[(s + x) + d]
  <2> SUFFICES ASSUME NEW x \in 1 .. e - s PROVE w[x] = u[(s + x) + d]
    OBVIOUS
  <2>1. x \in 1 .. e + d - (s + d + 1) + 1 /\ s + d + 1 + x - 1 = (s + x) + d
    BY <1>1
  <2> QED
    BY <1>6, <2>1
<1>10. \A x \in 1 .. e - s : v[x] = w[x]
  BY <1>2, <1>8, <1>9
<1>11. v = w
  BY <1>4, <1>6, <1>7, <1>10, SeqEqual
<1> QED
  BY <1>11, Zenon DEF v, w

\* Lines above the change stay where they are.
LEMMA RowsAbove ==
  ASSUME NEW b, NEW u, NEW p, NEW k, Spliced(b, u, p, k),
         \A i \in p + 1 .. p + k : u[i] # NL, NEW l \in Nat, l < LineOf(b, p)
  PROVE  RenderLine(u, l) = RenderLine(b, l)
<1>1. /\ p \in Nat /\ k \in Nat /\ Len(b) \in Nat /\ Len(u) = Len(b) + k /\ p <= Len(b)
      /\ Len(u) \in Nat
  BY DEF Spliced
<1> DEFINE L  == LineOf(b, p)
           Sb == {i \in 0 .. Len(b) : LineOf(b, i) = l} \union {Len(b)}
           Su == {i \in 0 .. Len(u) : LineOf(u, i) = l} \union {Len(u)}
           s  == Min(Sb)
<1>2. L \in Nat
  BY <1>1, LinesFinite
<1>3. PICK i0 \in 0 .. p : LineOf(b, i0) = l
  BY <1>1, <1>2, EveryLine
<1>4. /\ \A i \in p .. Len(b) : LineOf(b, i) >= L
      /\ \A i \in p .. Len(u) : LineOf(u, i) >= L
  <2>1. ASSUME NEW i \in p .. Len(b) PROVE LineOf(b, i) >= L
    <3>1. i \in Nat /\ p \in 0 .. i
      BY <1>1
    <3> QED
      BY <3>1, MonotoneLines
  <2>2. ASSUME NEW i \in p .. Len(u) PROVE LineOf(u, i) >= L
    <3>1. i \in Nat /\ p \in 0 .. i /\ p \in p .. p + k
      BY <1>1
    <3>2. LineOf(u, p) = L
      BY <3>1, LinesWithin
    <3> QED
      BY <3>1, <3>2, MonotoneLines
  <2> QED
    BY <2>1, <2>2
<1>5. i0 < p
  <2>1. i0 # p
    BY <1>3
  <2> QED
    BY <1>1, <2>1
<1>6. \A i \in 0 .. p : LineOf(u, i) = LineOf(b, i)
  BY LinesBefore
<1>7. s \in Sb /\ \A y \in Sb : s <= y
  <2>1. Sb \in SUBSET Nat /\ Sb # {}
    BY <1>1
  <2> QED
    BY <2>1, LeastElement
<1>8. s \in 0 .. Len(b) /\ s <= i0 /\ LineOf(b, s) = l
  <2>1. i0 \in Sb
    BY <1>1, <1>3
  <2>2. s <= i0 /\ (s = Len(b) \/ LineOf(b, s) = l) /\ s \in 0 .. Len(b)
    BY <1>1, <1>7, <2>1
  <2> HIDE DEF s, Sb
  <2> QED
    BY <1>1, <1>5, <2>2
<1>9. s \in Su /\ \A y \in Su : s <= y /\ y \in Nat
  <2> HIDE DEF s
  <2>1. s \in 0 .. p /\ s < p
    BY <1>1, <1>5, <1>8
  <2>2. s \in Su
    BY <1>1, <1>6, <1>8, <2>1
  <2>3. ASSUME NEW y \in Su PROVE s <= y /\ y \in Nat
    <3>1. CASE y >= p
      BY <1>1, <2>1, <2>3, <3>1
    <3>2. CASE y < p
      <4>1. y \in 0 .. p /\ LineOf(u, y) = l
        BY <1>1, <2>3, <3>2
      <4>2. y \in Sb
        BY <1>1, <1>6, <4>1
      <4> QED
        BY <1>7, <4>1, <4>2
    <3>3. y \in Nat
      BY <1>1, <2>3
    <3> QED
      BY <1>1, <3>1, <3>2, <3>3
  <2> QED
    BY <2>2, <2>3
<1>10. PosForLine(b, l) = s /\ PosForLine(u, l) = s
  <2>1. Su \in SUBSET Nat
    BY <1>1
  <2>2. Min(Su) = s
    <3> HIDE DEF s, Su
    <3> QED
      BY <1>9, <2>1, MinIs
  <2> QED
    BY <2>2 DEF PosForLine
<1> HIDE DEF s, Sb, Su, L
<1> DEFINE Eb == {i \in s .. Len(b) : i = Len(b) \/ b[i + 1] = NL}
           Eu == {i \in s .. Len(u) : i = Len(u) \/ u[i + 1] = NL}
           e  == Min(Eb)
<1>11. s \in Nat /\ s < p
  BY <1>1, <1>5, <1>8
<1>12. PICK j \in s .. p - 1 : b[j + 1] = NL
  <2> SUFFICES ASSUME \A j \in s .. p - 1 : b[j + 1] # NL PROVE FALSE
    OBVIOUS
  <2>1. Newlines(b, p) = Newlines(b, s)
    <3>1. \A i \in s + 1 .. p : b[i] # NL
      <4> SUFFICES ASSUME NEW i \in s + 1 .. p PROVE b[i] # NL
        OBVIOUS
      <4>1. i - 1 \in s .. p - 1 /\ (i - 1) + 1 = i
        BY <1>1, <1>11
      <4> QED
        BY <4>1
    <3> QED
      BY <1>1, <1>11, <3>1 DEF Newlines
  <2>2. l = LineOf(b, p)
    BY <1>8, <2>1 DEF LineOf
  <2> QED
    BY <2>2
<1>13. e \in Eb /\ \A y \in Eb : e <= y
  <2>1. Eb \in SUBSET Nat /\ Len(b) \in Eb
    BY <1>1, <1>11
  <2> QED
    BY <2>1, LeastElement
<1>14. e \in s .. Len(b) /\ e <= j /\ e < p /\ b[e + 1] = NL
  <2>1. j \in Eb
    BY <1>1, <1>11, <1>12
  <2>2. e <= j /\ e \in s .. Len(b) /\ (e = Len(b) \/ b[e + 1] = NL)
    BY <1>13, <2>1
  <2> HIDE DEF e, Eb
  <2> QED
    BY <1>1, <1>11, <2>2
<1>15. \A i \in 1 .. p : u[i] = b[i]
  BY DEF Spliced
<1>16. e \in Eu /\ \A y \in Eu : e <= y
  <2> HIDE DEF e
  <2>1. e + 1 \in 1 .. p /\ e \in s .. Len(u)
    BY <1>1, <1>11, <1>14
  <2>2. e \in Eu
    BY <1>14, <1>15, <2>1
  <2>3. ASSUME NEW y \in Eu PROVE e <= y
    <3>1. CASE y >= p
      BY <1>1, <1>11, <1>14, <2>3, <3>1
    <3>2. CASE y < p
      <4>1. y \in Nat /\ s <= y /\ u[y + 1] = NL /\ y + 1 \in 1 .. p /\ y \in s .. Len(b)
        BY <1>1, <1>11, <2>3, <3>2
      <4>2. y \in Eb
        BY <1>15, <4>1
      <4> QED
        BY <1>13, <4>2
    <3>3. y \in Nat
      BY <1>1, <1>11, <2>3
    <3> QED
      BY <1>1, <3>1, <3>2, <3>3
  <2> QED
    BY <2>2, <2>3
<1>17. LineEnd(b, s) = e /\ LineEnd(u, s) = e
  <2>1. Eu \in SUBSET Nat
    BY <1>1, <1>11
  <2>2. Min(Eu) = e
    <3> HIDE DEF e, Eu
    <3> QED
      BY <1>16, <2>1, MinIs
  <2> QED
    BY <2>2 DEF LineEnd
<1> HIDE DEF e, Eb, Eu
<1>18. SubSeq(u, s + 1, e) = SubSeq(b, s + 1, e)
  <2>1. \A i \in s + 1 .. e : i \in 1 .. p /\ i + 0 = i
    BY <1>1, <1>11, <1>14
  <2>3. \A i \in s + 1 .. e : u[i + 0] = b[i]
    BY <1>15, <2>1
  <2>2. /\ b \in Seq(Bytes) /\ u \in Seq(Bytes) /\ e \in Nat /\ 0 \in Nat /\ s <= e /\ e <= Len(b)
        /\ e + 0 <= Len(u) /\ s + 1 = s + 0 + 1 /\ e = e + 0
    BY <1>1, <1>11, <1>14 DEF Spliced
  <2> QED
    BY <1>11, <2>3, <2>2, RowIs
<1> QED
  BY <1>10, <1>17, <1>18 DEF RenderLine

\* Lines below the change move as a whole.
LEMMA RowsBelow ==
  ASSUME NEW b, NEW u, NEW p, NEW k, Spliced(b, u, p, k),
         \A i \in p + 1 .. p + k : u[i] # NL, NEW l \in Nat, l > LineOf(b, p)
  PROVE  RenderLine(u, l) = RenderLine(b, l)
<1>1. /\ p \in Nat /\ k \in Nat /\ Len(b) \in Nat /\ Len(u) = Len(b) + k /\ p <= Len(b)
      /\ Len(u) \in Nat /\ p + k \in Nat
  BY DEF Spliced
<1> DEFINE L  == LineOf(b, p)
           Sb == {i \in 0 .. Len(b) : LineOf(b, i) = l} \union {Len(b)}
           Su == {i \in 0 .. Len(u) : LineOf(u, i) = l} \union {Len(u)}
           s  == Min(Sb)
<1>2. L \in Nat
  BY <1>1, LinesFinite
<1>3. \A i \in 0 .. p : LineOf(b, i) <= L
  BY <1>1, MonotoneLines
<1>4. \A i \in 0 .. p + k : LineOf(u, i) <= L
  <2>1. p + k \in p .. p + k
    BY <1>1
  <2>2. LineOf(u, p + k) = L
    BY <2>1, LinesWithin
  <2> QED
    BY <1>1, <2>2, MonotoneLines
<1>5. \A i \in p .. Len(b) : LineOf(u, i + k) = LineOf(b, i)
  <2> SUFFICES ASSUME NEW i \in p .. Len(b) PROVE LineOf(u, i + k) = LineOf(b, i)
    OBVIOUS
  <2>1. p + k \in p .. p + k /\ i \in Nat /\ i + k \in Nat
    BY <1>1
  <2>2. LineOf(u, p + k) = L
    BY <2>1, LinesWithin
  <2>3. LineOf(u, i + k) - LineOf(u, p + k) = LineOf(b, i) - L
    BY LinesAfter
  <2>4. LineOf(u, i + k) \in Nat /\ LineOf(b, i) \in Nat
    BY <2>1, LinesFinite
  <2> HIDE DEF L
  <2> QED
    BY <1>2, <2>2, <2>3, <2>4
<1>6. s \in Sb /\ \A y \in Sb : s <= y
  <2>1. Sb \in SUBSET Nat /\ Sb # {}
    BY <1>1
  <2> QED
    BY <2>1, LeastElement
<1>7. \A i \in Sb : i \in p .. Len(b)
  <2> SUFFICES ASSUME NEW i \in Sb PROVE i \in p .. Len(b)
    OBVIOUS
  <2>1. CASE i = Len(b)
    BY <1>1, <2>1
  <2>2. CASE i \in 0 .. Len(b) /\ LineOf(b, i) = l
    <3>1. i \notin 0 .. p
      <4>1. i \in 0 .. p => l <= L
        BY <1>3, <2>2
      <4> QED
        BY <1>2, <4>1
    <3> QED
      BY <1>1, <2>2, <3>1
  <2> QED
    BY <2>1, <2>2
<1>8. s \in p .. Len(b) /\ s \in Nat
  BY <1>1, <1>6, <1>7
<1>9. s + k \in Su
  <2>1. s = Len(b) \/ LineOf(b, s) = l
    BY <1>6
  <2> HIDE DEF s, Sb
  <2>2. s + k \in 0 .. Len(u) /\ LineOf(u, s + k) = LineOf(b, s)
    BY <1>1, <1>5, <1>8
  <2> QED
    BY <1>1, <2>1, <2>2
<1>10. \A y \in Su : s + k <= y
  <2> SUFFICES ASSUME NEW y \in Su PROVE s + k <= y
    OBVIOUS
  <2>1. CASE y = Len(u)
    <3> HIDE DEF s
    <3> QED
      BY <1>1, <1>8, <2>1
  <2>2. CASE y \in 0 .. Len(u) /\ LineOf(u, y) = l
    <3>1. y \notin 0 .. p + k
      <4>1. y \in 0 .. p + k => l <= L
        BY <1>4, <2>2
      <4> QED
        BY <1>2, <4>1
    <3>2. y - k \in p .. Len(b) /\ (y - k) + k = y /\ y - k \in 0 .. Len(b)
      BY <1>1, <2>2, <3>1
    <3>3. LineOf(b, y - k) = l
      BY <1>5, <2>2, <3>2
    <3>4. y - k \in Sb
      BY <3>2, <3>3
    <3>5. s <= y - k
      BY <1>6, <3>4
    <3> HIDE DEF s
    <3> QED
      BY <1>1, <1>8, <2>2, <3>2, <3>5
  <2> QED
    BY <2>1, <2>2
<1>11. PosForLine(b, l) = s /\ PosForLine(u, l) = s + k
  <2>1. Su \in SUBSET Nat
    BY <1>1
  <2>2. Min(Su) = s + k
    <3> HIDE DEF s, Su
    <3> QED
      BY <1>9, <1>10, <2>1, MinIs
  <2> QED
    BY <2>2 DEF PosForLine
<1> HIDE DEF s, Sb, Su, L
<1> DEFINE Eb == {i \in s .. Len(b) : i = Len(b) \/ b[i + 1] = NL}
           Eu == {i \in s + k .. Len(u) : i = Len(u) \/ u[i + 1] = NL}
           e  == Min(Eb)
<1>12. e \in Eb /\ \A y \in Eb : e <= y
  <2>1. Eb \in SUBSET Nat /\ Len(b) \in Eb
    BY <1>1, <1>8
  <2> QED
    BY <2>1, LeastElement
<1>13. e \in s .. Len(b) /\ (e = Len(b) \/ b[e + 1] = NL)
  BY <1>12
<1>14. \A i \in p + 1 .. Len(b) : u[i + k] = b[i]
  BY DEF Spliced
<1>15. e + k \in Eu
  <2>0. e \in Nat /\ s <= e /\ e <= Len(b) /\ p <= s
    BY <1>8, <1>13
  <2> HIDE DEF e
  <2>1. e + k \in s + k .. Len(u) /\ (e = Len(b) => e + k = Len(u))
    BY <1>1, <1>8, <2>0
  <2>4. (e + k) + 1 = (e + 1) + k
    BY <1>1, <2>0
  <2>2. e # Len(b) => e + 1 \in p + 1 .. Len(b) /\ (e + k) + 1 = (e + 1) + k
    BY <1>1, <1>8, <2>0, <2>4
  <2>3. e # Len(b) => u[(e + k) + 1] = NL
    BY <1>13, <1>14, <2>2
  <2> QED
    BY <2>1, <2>3
<1>16. \A y \in Eu : e + k <= y
  <2> SUFFICES ASSUME NEW y \in Eu PROVE e + k <= y
    OBVIOUS
  <2>1. y \in s + k .. Len(u) /\ (y = Len(u) \/ u[y + 1] = NL)
    OBVIOUS
  <2>2. y - k \in s .. Len(b) /\ (y = Len(u) => y - k = Len(b))
    BY <1>1, <1>8, <2>1
  <2>3. y # Len(u) => (y - k) + 1 \in p + 1 .. Len(b) /\ ((y - k) + 1) + k = y + 1
    BY <1>1, <1>8, <2>1
  <2>4. y # Len(u) => b[(y - k) + 1] = NL
    BY <1>14, <2>1, <2>3
  <2>5. y - k \in Eb
    BY <2>2, <2>4
  <2>6. e <= y - k
    BY <1>12, <2>5
  <2> HIDE DEF e, Eb, Eu
  <2> QED
    BY <1>1, <1>8, <1>13, <2>1, <2>6
<1>17. LineEnd(b, s) = e /\ LineEnd(u, s + k) = e + k
  <2>1. Eu \in SUBSET Nat
    BY <1>1, <1>8
  <2>2. Min(Eu) = e + k
    <3> HIDE DEF e, Eu
    <3> QED
      BY <1>15, <1>16, <2>1, MinIs
  <2> QED
    BY <2>2 DEF LineEnd
<1> HIDE DEF e, Eb, Eu
<1> DEFINE lo == (s + k) + 1
           hi == e + k
<1>18. SubSeq(u, lo, hi) = SubSeq(b, s + 1, e)
  <2>4. \A i \in s + 1 .. e : i \in p + 1 .. Len(b)
    BY <1>1, <1>8, <1>13
  <2>1. \A i \in s + 1 .. e : u[i + k] = b[i]
    BY <1>14, <2>4
  <2>2. /\ b \in Seq(Bytes) /\ u \in Seq(Bytes) /\ e \in Nat /\ k \in Nat /\ s <= e /\ e <= Len(b)
        /\ e + k <= Len(u)
    BY <1>1, <1>8, <1>13 DEF Spliced
  <2>3. lo = s + k + 1 /\ hi = e + k
    BY <1>1, <1>8
  <2> HIDE DEF lo, hi
  <2> QED
    BY <1>8, <2>1, <2>2, <2>3, RowIs
<1> QED
  BY <1>11, <1>17, <1>18 DEF RenderLine

\* A change without newlines shows in its own line only.
LEMMA OtherRows ==
  ASSUME NEW b, NEW u, NEW p, NEW k, Spliced(b, u, p, k),
         \A i \in p + 1 .. p + k : u[i] # NL, NEW l \in Nat, l # LineOf(b, p)
  PROVE  LineText(u, l) = LineText(b, l)
<1>1. LineOf(b, p) \in Nat
  BY LinesFinite DEF Spliced
<1>2. l < LineOf(b, p) \/ l > LineOf(b, p)
  BY <1>1
<1>3. RenderLine(u, l) = RenderLine(b, l)
  BY <1>2, RowsAbove, RowsBelow
<1> QED
  BY <1>3, SameTotal DEF LineText

-----------------------------------------------------------------------------
(* Changes of the buffer.                                                  *)

\* Only text, cursor, preferred column and the dirty flag change.
SameCache(e, u) ==
  /\ u.path = e.path /\ u.top = e.top /\ u.first = e.first
  /\ u.prevLine = e.prevLine /\ u.prevTop = e.prevTop /\ u.prevTotal = e.prevTotal

\* What has changed shows in the line of the cursor before or after the change,
\* unless the number of lines has changed.
Shown(e, u) ==
  /\ u.prevLine = e.prevLine /\ u.prevTop = e.prevTop /\ u.prevTotal = e.prevTotal
  /\ TotalLines(u.buf) = TotalLines(e.buf) =>
       \A l \in Nat : l \notin {LineOf(e.buf, e.cursor), LineOf(u.buf, u.cursor)} =>
         LineText(u.buf, l) = LineText(e.buf, l)

\* What every key does to g_ed: a change makes it dirty, and shows in the line
\* of the cursor before or after it unless the number of lines has changed.
Edited(e, u) ==
  /\ EdOK(u) /\ SameCache(e, u)
  /\ (u.buf = e.buf /\ u.dirty = e.dirty) \/ u.dirty
  /\ TotalLines(u.buf) = TotalLines(e.buf) =>
       \A l \in Nat : l \notin {LineOf(e.buf, e.cursor), LineOf(u.buf, u.cursor)} =>
         LineText(u.buf, l) = LineText(e.buf, l)

\* b without the bytes after position p, and the rest.
LEMMA Halves ==
  ASSUME NEW b \in Seq(Bytes), NEW p \in 0 .. Len(b), NEW q \in p .. Len(b)
  PROVE  /\ SubSeq(b, 1, p) \in Seq(Bytes) /\ Len(SubSeq(b, 1, p)) = p
         /\ \A i \in 1 .. p : SubSeq(b, 1, p)[i] = b[i]
         /\ SubSeq(b, q + 1, Len(b)) \in Seq(Bytes) /\ Len(SubSeq(b, q + 1, Len(b))) = Len(b) - q
         /\ \A i \in 1 .. Len(b) - q : SubSeq(b, q + 1, Len(b))[i] = b[q + i]
<1> DEFINE n == Len(b)
           v == SubSeq(b, 1, p)
           w == SubSeq(b, q + 1, n)
<1>1. n \in Nat /\ p \in Nat /\ q \in Nat /\ p <= q /\ q <= n /\ \A i \in 1 .. n : b[i] \in Bytes
  OBVIOUS
<1> HIDE DEF n
<1>2. /\ v \in Seq(Bytes) /\ Len(v) = IF 1 <= p THEN p - 1 + 1 ELSE 0
      /\ \A i \in 1 .. p - 1 + 1 : v[i] = b[1 + i - 1]
  <2>1. 1 \in Int /\ p \in Int /\ \A i \in 1 .. p : b[i] \in Bytes
    BY <1>1
  <2> QED
    BY <2>1, SubSeqProperties
<1>3. /\ w \in Seq(Bytes) /\ Len(w) = IF q + 1 <= n THEN n - (q + 1) + 1 ELSE 0
      /\ \A i \in 1 .. n - (q + 1) + 1 : w[i] = b[q + 1 + i - 1]
  <2>1. q + 1 \in Int /\ n \in Int /\ \A i \in q + 1 .. n : b[i] \in Bytes
    BY <1>1
  <2> QED
    BY <2>1, SubSeqProperties
<1> HIDE DEF v, w
<1>4. p - 1 + 1 = p /\ \A i \in 1 .. p : 1 + i - 1 = i
  BY <1>1
<1>5. n - (q + 1) + 1 = n - q /\ \A i \in 1 .. n - q : q + 1 + i - 1 = q + i
  BY <1>1
<1>6. Len(v) = p /\ Len(w) = n - q
  BY <1>1, <1>2, <1>3
<1>7. \A i \in 1 .. p : v[i] = b[i]
  BY <1>2, <1>4
<1>8. \A i \in 1 .. n - q : w[i] = b[q + i]
  BY <1>3, <1>5
<1> QED
  BY <1>2, <1>3, <1>6, <1>7, <1>8 DEF v, w, n

\* The text t is x and then y.
IsJoin(t, x, y) ==
  /\ t \in Seq(Bytes) /\ Len(t) = Len(x) + Len(y)
  /\ \A i \in 1 .. Len(x) : t[i] = x[i]
  /\ \A i \in 1 .. Len(y) : t[Len(x) + i] = y[i]

\* The text t is x, then y and then z.
IsJoinOfThree(t, x, y, z) ==
  /\ t \in Seq(Bytes) /\ Len(t) = Len(x) + Len(y) + Len(z)
  /\ \A i \in 1 .. Len(x) : t[i] = x[i]
  /\ \A i \in 1 .. Len(y) : t[Len(x) + i] = y[i]
  /\ \A i \in 1 .. Len(z) : t[Len(x) + Len(y) + i] = z[i]

LEMMA JoinedTwo ==
  ASSUME NEW x \in Seq(Bytes), NEW y \in Seq(Bytes), NEW t, t = x \o y
  PROVE  IsJoin(t, x, y)
<1> DEFINE a == Len(x)
           b == Len(y)
<1>1. a \in Nat /\ b \in Nat
  OBVIOUS
<1>2. /\ t \in Seq(Bytes) /\ Len(t) = a + b
      /\ \A i \in 1 .. a + b : t[i] = IF i <= a THEN x[i] ELSE y[i - a]
  BY ConcatProperties
<1> HIDE DEF a, b
<1>3. \A i \in 1 .. a : t[i] = x[i]
  BY <1>1, <1>2
<1>4. \A i \in 1 .. b : t[a + i] = y[i]
  <2> SUFFICES ASSUME NEW i \in 1 .. b PROVE t[a + i] = y[i]
    OBVIOUS
  <2>1. a + i \in 1 .. a + b /\ ~(a + i <= a) /\ (a + i) - a = i
    BY <1>1
  <2> QED
    BY <1>2, <2>1
<1> QED
  BY <1>2, <1>3, <1>4 DEF a, b, IsJoin

\* Two sequences and what lies between them.
LEMMA Joined ==
  ASSUME NEW x \in Seq(Bytes), NEW y \in Seq(Bytes), NEW z \in Seq(Bytes), NEW t, t = x \o y \o z
  PROVE  IsJoinOfThree(t, x, y, z)
<1> DEFINE s == x \o y
           a == Len(x)
           b == Len(y)
           c == Len(z)
<1>1. a \in Nat /\ b \in Nat /\ c \in Nat
  OBVIOUS
<1>3. t = s \o z /\ s = x \o y
  OBVIOUS
<1> HIDE DEF s
<1>2. IsJoin(s, x, y)
  BY <1>3, JoinedTwo
<1>8. /\ s \in Seq(Bytes) /\ Len(s) = a + b
      /\ \A i \in 1 .. a : s[i] = x[i]
      /\ \A i \in 1 .. b : s[a + i] = y[i]
  BY <1>2 DEF IsJoin
<1>9. IsJoin(t, s, z)
  BY <1>3, <1>8, JoinedTwo
<1>4. /\ t \in Seq(Bytes) /\ Len(t) = Len(s) + c
      /\ \A i \in 1 .. Len(s) : t[i] = s[i]
      /\ \A i \in 1 .. c : t[Len(s) + i] = z[i]
  BY <1>9 DEF IsJoin
<1> HIDE DEF a, b, c
<1>5. \A i \in 1 .. a : t[i] = x[i]
  BY <1>1, <1>8, <1>4
<1>6. \A i \in 1 .. b : t[a + i] = y[i]
  <2> SUFFICES ASSUME NEW i \in 1 .. b PROVE t[a + i] = y[i]
    OBVIOUS
  <2>1. a + i \in 1 .. a + b
    BY <1>1
  <2> QED
    BY <1>8, <1>4, <2>1
<1>7. \A i \in 1 .. c : t[a + b + i] = z[i]
  BY <1>8, <1>4
<1> QED
  BY <1>1, <1>8, <1>4, <1>5, <1>6, <1>7 DEF a, b, c, IsJoinOfThree

\* insert_at_cursor
LEMMA InsertIs ==
  ASSUME NEW e, EdOK(e), NEW c \in Bytes, NEW n \in Nat, NEW u, u = Insert(e, c, n)
  PROVE  \E k \in 0 .. n :
           /\ EdOK(u) /\ SameCache(e, u) /\ u.cursor = e.cursor + k
           /\ Spliced(e.buf, u.buf, e.cursor, k)
           /\ \A i \in e.cursor + 1 .. e.cursor + k : u.buf[i] = c
           /\ u.dirty = (e.dirty \/ k > 0)
           /\ n > 0 /\ Len(e.buf) < MaxBytes => k > 0
<1> DEFINE b == e.buf
           p == e.cursor
           k == Min({n, MaxBytes - Len(e.buf)})
           x == SubSeq(b, 1, p)
           y == [i \in 1 .. k |-> c]
           z == SubSeq(b, p + 1, Len(b))
<1>1. /\ e \in EdType /\ b \in Seq(Bytes) /\ p \in 0 .. Len(b) /\ MaxBytes \in Nat
      /\ Len(b) \in Nat /\ Len(b) <= MaxBytes /\ p \in Nat
  BY EditorAssumption DEF EdOK, EdType
<1>2. k = IF n <= MaxBytes - Len(b) THEN n ELSE MaxBytes - Len(b)
  <2>1. MaxBytes - Len(b) \in Nat
    BY <1>1
  <2> QED
    BY <2>1, MinOfTwo
<1>3. u = [e EXCEPT !.buf = x \o y \o z, !.cursor = p + k, !.dirty = e.dirty \/ k > 0]
  BY DEF Insert
<1> HIDE DEF k
<1>4. k \in 0 .. n /\ k \in Nat /\ Len(b) + k <= MaxBytes /\ (n > 0 /\ Len(b) < MaxBytes => k > 0)
  <2> DEFINE m == MaxBytes - Len(b)
  <2>1. m \in Nat /\ Len(b) + m = MaxBytes /\ (Len(b) < MaxBytes => m > 0)
    BY <1>1
  <2>2. k = IF n <= m THEN n ELSE m
    BY <1>2
  <2> HIDE DEF m, b
  <2> QED
    BY <1>1, <2>1, <2>2
<1>5. y \in Seq(Bytes) /\ Len(y) = k /\ \A i \in 1 .. k : y[i] = c
  BY <1>4
<1>6. /\ x \in Seq(Bytes) /\ Len(x) = p /\ \A i \in 1 .. p : x[i] = b[i]
      /\ z \in Seq(Bytes) /\ Len(z) = Len(b) - p /\ \A i \in 1 .. Len(b) - p : z[i] = b[p + i]
  <2>1. p \in p .. Len(b)
    BY <1>1
  <2> QED
    BY <1>1, <2>1, Halves, Zenon
<1> DEFINE t == x \o y \o z
<1>0. t = x \o y \o z
  OBVIOUS
<1> HIDE DEF x, y, z, t
<1>7. /\ t \in Seq(Bytes) /\ Len(t) = Len(x) + Len(y) + Len(z)
      /\ \A i \in 1 .. Len(x) : t[i] = x[i]
      /\ \A i \in 1 .. Len(y) : t[Len(x) + i] = y[i]
      /\ \A i \in 1 .. Len(z) : t[Len(x) + Len(y) + i] = z[i]
  <2>1. x \in Seq(Bytes) /\ y \in Seq(Bytes) /\ z \in Seq(Bytes)
    BY <1>5, <1>6
  <2>2. IsJoinOfThree(t, x, y, z)
    BY <1>0, <2>1, Joined, Zenon
  <2> QED
    BY <2>2 DEF IsJoinOfThree
<1>8. Len(t) = Len(b) + k
  <2>1. Len(t) = p + k + (Len(b) - p)
    BY <1>5, <1>6, <1>7, Zenon
  <2> HIDE DEF b, p
  <2> QED
    BY <1>1, <1>4, <2>1
<1>9. \A i \in 1 .. p : t[i] = b[i]
  BY <1>6, <1>7
<1>10. \A i \in p + 1 .. p + k : t[i] = c
  <2> SUFFICES ASSUME NEW i \in p + 1 .. p + k PROVE t[i] = c
    OBVIOUS
  <2>1. i - p \in 1 .. k /\ p + (i - p) = i
    BY <1>1, <1>4
  <2>2. t[p + (i - p)] = y[i - p]
    BY <1>5, <1>6, <1>7, <2>1, Zenon
  <2>3. y[i - p] = c
    BY <1>5, <2>1, Zenon
  <2> QED
    BY <2>1, <2>2, <2>3, Zenon
<1>11. \A i \in p + 1 .. Len(b) : t[i + k] = b[i]
  <2> SUFFICES ASSUME NEW i \in p + 1 .. Len(b) PROVE t[i + k] = b[i]
    OBVIOUS
  <2>1. i - p \in 1 .. Len(b) - p /\ p + (i - p) = i /\ p + k + (i - p) = i + k
    <3> DEFINE len == Len(b)
    <3>1. len \in Nat /\ p \in Nat /\ k \in Nat /\ i \in p + 1 .. len
      BY <1>1, <1>4
    <3> HIDE DEF len, b, p
    <3>2. i - p \in 1 .. len - p /\ p + (i - p) = i /\ p + k + (i - p) = i + k
      BY <3>1
    <3> QED
      BY <3>2 DEF len
  <2>2. t[p + k + (i - p)] = z[i - p]
    BY <1>5, <1>6, <1>7, <2>1, Zenon
  <2>3. z[i - p] = b[p + (i - p)]
    BY <1>6, <2>1
  <2> QED
    BY <2>1, <2>2, <2>3
<1>12. /\ u.buf = t /\ u.cursor = p + k /\ u.dirty = (e.dirty \/ k > 0) /\ SameCache(e, u)
  BY <1>1, <1>3 DEF EdType, SameCache, t
<1>13. u \in EdType
  <2>1. p + k \in Nat /\ (e.dirty \/ k > 0) \in BOOLEAN
    BY <1>1, <1>4
  <2> QED
    BY <1>1, <1>3, <1>7, <2>1 DEF EdType, t
<1>14. EdOK(u)
  BY <1>1, <1>4, <1>8, <1>12, <1>13 DEF EdOK
<1>15. Spliced(b, t, p, k)
  BY <1>1, <1>4, <1>7, <1>8, <1>9, <1>11 DEF Spliced
<1> QED
  BY <1>4, <1>10, <1>12, <1>14, <1>15

\* RemoveAt is the insertion of one byte, backwards.
LEMMA RemoveIs ==
  ASSUME NEW b \in Seq(Bytes), NEW p \in Nat, p < Len(b), NEW u, u = RemoveAt(b, p + 1)
  PROVE  u \in Seq(Bytes) /\ Len(b) = Len(u) + 1 /\ Spliced(u, b, p, 1)
<1> DEFINE x == SubSeq(b, 1, p)
           z == SubSeq(b, p + 1 + 1, Len(b))
           n == Len(b)
<1>1. n \in Nat /\ p \in 0 .. n /\ p + 1 \in p .. n
  OBVIOUS
<1>2. u = x \o z
  <2>1. (p + 1) - 1 = p
    OBVIOUS
  <2>2. u = SubSeq(b, 1, (p + 1) - 1) \o z
    BY DEF RemoveAt
  <2> QED
    BY <2>1, <2>2, Zenon
<1>3. /\ x \in Seq(Bytes) /\ Len(x) = p /\ \A i \in 1 .. p : x[i] = b[i]
      /\ z \in Seq(Bytes) /\ Len(z) = n - (p + 1) /\ \A i \in 1 .. n - (p + 1) : z[i] = b[p + 1 + i]
  BY <1>1, Halves
<1> HIDE DEF x, z, n
<1>4. /\ u \in Seq(Bytes) /\ Len(u) = Len(x) + Len(z)
      /\ \A i \in 1 .. Len(x) : u[i] = x[i]
      /\ \A i \in 1 .. Len(z) : u[Len(x) + i] = z[i]
  <2>1. x \in Seq(Bytes) /\ z \in Seq(Bytes)
    BY <1>3
  <2>2. IsJoin(u, x, z)
    BY <1>2, <2>1, JoinedTwo, Zenon
  <2> QED
    BY <2>2 DEF IsJoin
<1>5. Len(u) = n - 1
  BY <1>1, <1>3, <1>4
<1>6. \A i \in 1 .. p : b[i] = u[i]
  BY <1>3, <1>4
<1>7. \A i \in p + 1 .. Len(u) : b[i + 1] = u[i]
  <2> SUFFICES ASSUME NEW i \in p + 1 .. Len(u) PROVE b[i + 1] = u[i]
    OBVIOUS
  <2>1. i - p \in 1 .. n - (p + 1) /\ p + (i - p) = i /\ p + 1 + (i - p) = i + 1
    BY <1>1, <1>5
  <2>2. u[p + (i - p)] = z[i - p]
    BY <1>3, <1>4, <2>1
  <2>3. z[i - p] = b[p + 1 + (i - p)]
    BY <1>3, <2>1
  <2> QED
    BY <2>1, <2>2, <2>3
<1>8. Len(b) = Len(u) + 1 /\ p \in 0 .. Len(u)
  BY <1>1, <1>5 DEF n
<1> QED
  BY <1>4, <1>6, <1>7, <1>8 DEF Spliced

\* A character goes: its line changes, or it was a newline and there is a line less.
LEMMA Removed ==
  ASSUME NEW b \in Seq(Bytes), NEW p \in Nat, p < Len(b), NEW u, u = RemoveAt(b, p + 1),
         TotalLines(u) = TotalLines(b), NEW l \in Nat, l # LineOf(u, p)
  PROVE  LineText(u, l) = LineText(b, l)
<1>1. u \in Seq(Bytes) /\ Spliced(u, b, p, 1)
  BY RemoveIs
<1>2. CASE b[p + 1] = NL
  <2>1. TotalLines(b) = TotalLines(u) + 1
    BY <1>1, <1>2, OneMore
  <2>2. TotalLines(u) \in Nat
    BY <1>1, LinesFinite DEF TotalLines
  <2> QED
    BY <2>1, <2>2
<1>3. CASE b[p + 1] # NL
  <2>1. \A i \in p + 1 .. p + 1 : b[i] # NL
    BY <1>3
  <2> QED
    BY <1>1, <2>1, OtherRows
<1> QED
  BY <1>2, <1>3

LEMMA DeleteForwardIs ==
  ASSUME NEW e, EdOK(e)
  PROVE  Edited(e, DeleteForward(e))
<1> DEFINE u == DeleteForward(e)
           b == e.buf
           p == e.cursor
<1>1. e \in EdType /\ b \in Seq(Bytes) /\ p \in Nat /\ Len(b) <= MaxBytes /\ p <= Len(b)
      /\ MaxBytes \in Nat /\ Len(b) \in Nat
  BY EditorAssumption DEF EdOK, EdType
<1>2. CASE p >= Len(b)
  <2>1. u = e
    BY <1>2 DEF DeleteForward
  <2> QED
    BY <2>1, Zenon DEF Edited, SameCache
<1>3. CASE p < Len(b)
  <2> DEFINE r == RemoveAt(b, p + 1)
  <2>1. u = [e EXCEPT !.buf = r, !.dirty = TRUE]
    BY <1>1, <1>3 DEF DeleteForward
  <2>2. r \in Seq(Bytes) /\ Len(b) = Len(r) + 1 /\ Len(r) \in Nat
    <3>1. r \in Seq(Bytes) /\ Len(b) = Len(r) + 1
      BY <1>1, <1>3, RemoveIs
    <3> HIDE DEF r
    <3> QED
      BY <3>1
  <2>3. TotalLines(r) = TotalLines(b) =>
          \A l \in Nat : l # LineOf(r, p) => LineText(r, l) = LineText(b, l)
    BY <1>1, <1>3, Removed
  <2> HIDE DEF r
  <2>4. /\ u \in EdType /\ u.buf = r /\ u.cursor = p /\ u.dirty = TRUE /\ SameCache(e, u)
    BY <1>1, <2>1, <2>2 DEF EdType, SameCache
  <2>5. p <= Len(r) /\ Len(r) <= MaxBytes
    BY <1>1, <1>3, <2>2
  <2> QED
    BY <2>3, <2>4, <2>5 DEF Edited, EdOK
<1> QED
  BY <1>1, <1>2, <1>3

LEMMA DeleteBackspaceIs ==
  ASSUME NEW e, EdOK(e)
  PROVE  Edited(e, DeleteBackspace(e))
<1> DEFINE u == DeleteBackspace(e)
           b == e.buf
           p == e.cursor - 1
<1>1. e \in EdType /\ b \in Seq(Bytes) /\ e.cursor \in Nat /\ Len(b) <= MaxBytes /\ e.cursor <= Len(b)
      /\ MaxBytes \in Nat /\ Len(b) \in Nat
  BY EditorAssumption DEF EdOK, EdType
<1>2. CASE e.cursor = 0
  <2>1. u = e
    BY <1>2 DEF DeleteBackspace
  <2> QED
    BY <2>1, Zenon DEF Edited, SameCache
<1>3. CASE e.cursor # 0
  <2> DEFINE r == RemoveAt(b, p + 1)
  <2>0. p \in Nat /\ p < Len(b) /\ p + 1 = e.cursor
    BY <1>1, <1>3
  <2>1. u = [e EXCEPT !.buf = r, !.cursor = p, !.dirty = TRUE]
    BY <1>1, <1>3, <2>0 DEF DeleteBackspace
  <2> HIDE DEF p
  <2>2. r \in Seq(Bytes) /\ Len(b) = Len(r) + 1 /\ Len(r) \in Nat
    <3>1. r \in Seq(Bytes) /\ Len(b) = Len(r) + 1
      BY <1>1, <2>0, RemoveIs
    <3> HIDE DEF r
    <3> QED
      BY <3>1
  <2>3. TotalLines(r) = TotalLines(b) =>
          \A l \in Nat : l # LineOf(r, p) => LineText(r, l) = LineText(b, l)
    BY <1>1, <2>0, Removed
  <2> HIDE DEF r
  <2>4. /\ u \in EdType /\ u.buf = r /\ u.cursor = p /\ u.dirty = TRUE /\ SameCache(e, u)
    BY <1>1, <2>0, <2>1, <2>2 DEF EdType, SameCache
  <2>5. p <= Len(r) /\ Len(r) <= MaxBytes
    BY <1>1, <2>0, <2>2
  <2> QED
    BY <2>3, <2>4, <2>5 DEF Edited, EdOK
<1> QED
  BY <1>2, <1>3

LEMMA InsertTextIs ==
  ASSUME NEW e, EdOK(e), NEW c \in Bytes \ {NL}, NEW n \in Nat
  PROVE  Edited(e, Insert(e, c, n))
<1> DEFINE u == Insert(e, c, n)
<1>1. PICK k \in 0 .. n :
           /\ EdOK(u) /\ SameCache(e, u) /\ u.cursor = e.cursor + k
           /\ Spliced(e.buf, u.buf, e.cursor, k)
           /\ \A i \in e.cursor + 1 .. e.cursor + k : u.buf[i] = c
           /\ u.dirty = (e.dirty \/ k > 0)
           /\ n > 0 /\ Len(e.buf) < MaxBytes => k > 0
  BY InsertIs
<1> HIDE DEF u
<1>2. \A i \in e.cursor + 1 .. e.cursor + k : u.buf[i] # NL
  BY <1>1
<1>3. \A l \in Nat : l # LineOf(e.buf, e.cursor) => LineText(u.buf, l) = LineText(e.buf, l)
  BY <1>1, <1>2, OtherRows
<1>4. e.dirty \in BOOLEAN /\ u.dirty \in BOOLEAN
  BY <1>1 DEF EdOK, EdType
<1>5. (u.buf = e.buf /\ u.dirty = e.dirty) \/ u.dirty
  <2>1. CASE k > 0
    BY <1>1, <2>1
  <2>2. CASE ~(k > 0)
    <3>1. u.dirty = e.dirty
      BY <1>1, <1>4, <2>2
    <3>2. k = 0 /\ Len(e.buf) \in Nat /\ e.cursor \in Nat
      BY <1>1, <2>2 DEF Spliced
    <3>3. \A i \in 1 .. e.cursor : u.buf[i] = e.buf[i]
      BY <1>1 DEF Spliced
    <3>4. \A i \in e.cursor + 1 .. Len(e.buf) : u.buf[i] = e.buf[i]
      BY <1>1, <3>2 DEF Spliced
    <3>5. u.buf \in Seq(Bytes) /\ e.buf \in Seq(Bytes) /\ Len(u.buf) = Len(e.buf)
      BY <1>1, <3>2 DEF Spliced
    <3>6. \A i \in 1 .. Len(e.buf) : u.buf[i] = e.buf[i]
      BY <3>2, <3>3, <3>4
    <3>7. u.buf = e.buf
      BY <3>5, <3>6, SeqEqual
    <3> QED
      BY <3>1, <3>7
  <2> QED
    BY <2>1, <2>2
<1> QED
  BY <1>1, <1>3, <1>5 DEF Edited, u

LEMMA IndentNat ==
  ASSUME NEW s \in Seq(Bytes)
  PROVE  Indent(s) \in Nat
<1> DEFINE lead == {i \in 1 .. Len(s) : \A j \in 1 .. i : s[j] \in {Spc, Tab}}
           tabs == {i \in lead : s[i] = Tab}
<1>1. IsFiniteSet(1 .. Len(s))
  BY FS_Interval
<1>2. lead \ tabs \subseteq 1 .. Len(s) /\ tabs \subseteq 1 .. Len(s)
  OBVIOUS
<1>3. Cardinality(lead \ tabs) \in Nat /\ Cardinality(tabs) \in Nat
  BY <1>1, <1>2, FS_Subset, FS_CardinalityType, Zenon
<1>4. TabSpaces \in Nat
  BY EditorAssumption
<1> HIDE DEF lead, tabs
<1>5. TabSpaces * Cardinality(tabs) \in Nat
  BY <1>3, <1>4
<1>6. Cardinality(lead \ tabs) + TabSpaces * Cardinality(tabs) \in Nat
  BY <1>3, <1>5
<1> QED
  BY <1>6 DEF Indent, lead, tabs

LEMMA InsertNewlineIs ==
  ASSUME NEW e, EdOK(e)
  PROVE  Edited(e, InsertNewline(e))
<1> DEFINE v == InsertNewline(e)
           n == Indent(SubSeq(e.buf, LineStart(e.buf, e.cursor) + 1, e.cursor))
           u == Insert(e, NL, 1)
           w == Insert(u, Spc, n)
<1>1. CASE Len(e.buf) >= MaxBytes
  <2>1. v = e
    BY <1>1 DEF InsertNewline
  <2> QED
    BY <2>1, Zenon DEF Edited, SameCache
<1>2. CASE ~(Len(e.buf) >= MaxBytes)
  <2>1. v = w
    BY <1>2 DEF InsertNewline
  <2>2. n \in Nat
    <3> DEFINE s == LineStart(e.buf, e.cursor)
               m == e.cursor
    <3>1. e.buf \in Seq(Bytes) /\ m \in 0 .. Len(e.buf)
      BY DEF EdOK, EdType
    <3>2. s \in 0 .. m
      BY <3>1, LinePositions
    <3> HIDE DEF s, m
    <3>3. s + 1 \in Int /\ m \in Int /\ \A i \in s + 1 .. m : e.buf[i] \in Bytes
      BY <3>1, <3>2
    <3>4. SubSeq(e.buf, s + 1, m) \in Seq(Bytes)
      BY <3>1, <3>3, SubSeqProperties
    <3> QED
      BY <3>4, IndentNat DEF s, m
  <2>3. Len(e.buf) < MaxBytes /\ NL \in Bytes /\ Spc \in Bytes \ {NL}
    <3>1. Len(e.buf) \in Nat /\ MaxBytes \in Nat
      BY EditorAssumption DEF EdOK, EdType
    <3>2. NL \in Bytes /\ Spc \in Bytes
      BY Zenon DEF Bytes
    <3>3. Spc # NL
      BY DEF Spc, NL
    <3> QED
      BY <1>2, <3>1, <3>2, <3>3
  <2> HIDE DEF n
  <2>4. PICK k \in 0 .. 1 :
           /\ EdOK(u) /\ SameCache(e, u) /\ u.cursor = e.cursor + k
           /\ Spliced(e.buf, u.buf, e.cursor, k)
           /\ \A i \in e.cursor + 1 .. e.cursor + k : u.buf[i] = NL
           /\ u.dirty = (e.dirty \/ k > 0)
           /\ 1 > 0 /\ Len(e.buf) < MaxBytes => k > 0
    BY <2>3, InsertIs
  <2> HIDE DEF u
  <2>5. PICK j \in 0 .. n :
           /\ EdOK(w) /\ SameCache(u, w) /\ w.cursor = u.cursor + j
           /\ Spliced(u.buf, w.buf, u.cursor, j)
           /\ \A i \in u.cursor + 1 .. u.cursor + j : w.buf[i] = Spc
           /\ w.dirty = (u.dirty \/ j > 0)
           /\ n > 0 /\ Len(u.buf) < MaxBytes => j > 0
    BY <2>2, <2>3, <2>4, InsertIs
  <2> HIDE DEF w, v
  <2>6. k = 1 /\ e.cursor \in Nat
    BY <2>3, <2>4 DEF Spliced
  <2>7. TotalLines(u.buf) = TotalLines(e.buf) + 1
    <3>1. u.buf[e.cursor + 1] = NL /\ Spliced(e.buf, u.buf, e.cursor, 1)
      BY <2>4, <2>6
    <3> QED
      BY <3>1, OneMore
  <2>8. TotalLines(w.buf) = TotalLines(u.buf)
    <3>1. \A i \in u.cursor + 1 .. u.cursor + j : w.buf[i] # NL
      BY <2>3, <2>5
    <3> QED
      BY <2>5, <3>1, SameTotal
  <2>9. TotalLines(e.buf) \in Nat
    BY LinesFinite DEF EdOK, EdType, TotalLines
  <2>10. TotalLines(w.buf) # TotalLines(e.buf)
    BY <2>7, <2>8, <2>9
  <2>11. w.dirty
    <3>0. k > 0
      BY <2>6
    <3>1. u.dirty = TRUE
      BY <2>4, <3>0, Zenon
    <3>2. w.dirty = TRUE
      BY <2>5, <3>1
    <3> QED
      BY <3>2
  <2>12. SameCache(e, w)
    BY <2>4, <2>5 DEF SameCache
  <2> QED
    BY <2>1, <2>5, <2>10, <2>11, <2>12 DEF Edited, v
<1> QED
  BY <1>1, <1>2

\* Switching keep_pref_col off changes nothing else.
LEMMA KeepOff ==
  ASSUME NEW e, EdOK(e), NEW f, f = [e EXCEPT !.keep = FALSE]
  PROVE  EdOK(f) /\ \A u : Edited(f, u) => Edited(e, u)
<1>1. /\ f \in EdType /\ f.path = e.path /\ f.buf = e.buf /\ f.cursor = e.cursor /\ f.top = e.top
      /\ f.dirty = e.dirty /\ f.first = e.first /\ f.prevLine = e.prevLine
      /\ f.prevTop = e.prevTop /\ f.prevTotal = e.prevTotal
  BY DEF EdOK, EdType
<1>2. EdOK(f)
  BY <1>1 DEF EdOK
<1> QED
  BY <1>1, <1>2 DEF Edited, SameCache

\* A key that moves the cursor only.
LEMMA CursorOnly ==
  ASSUME NEW e, EdOK(e), NEW u, EdOK(u), SameCache(e, u), u.buf = e.buf, u.dirty = e.dirty
  PROVE  Edited(e, u)
  BY DEF Edited

LEMMA MoveIs ==
  ASSUME NEW e, EdOK(e), NEW d \in {-1, 1}
  PROVE  Edited(e, Move(e, d))
<1> DEFINE n == Len(e.buf)
           c == e.cursor + d
           m == Min({n, c})
           x == Max({0, m})
           u == Move(e, d)
<1>1. e \in EdType /\ n \in Nat /\ e.cursor \in 0 .. n /\ Len(e.buf) <= MaxBytes
  BY DEF EdOK, EdType
<1>2. c \in -1 .. n + 1
  <2> HIDE DEF n
  <2> QED
    BY <1>1
<1> HIDE DEF c, n
<1>3. x \in 0 .. n
  <2>1. CASE c < 0
    <3>1. c = -1 /\ c <= n
      BY <1>1, <1>2, <2>1
    <3>2. m = c
      BY <1>1, <3>1 DEF Min
    <3> HIDE DEF m
    <3>3. x = 0
      BY <3>1, <3>2 DEF Max
    <3> QED
      BY <1>1, <3>3
  <2>2. CASE ~(c < 0)
    <3>1. c \in Nat
      BY <1>1, <1>2, <2>2
    <3>2. m \in 0 .. n
      BY <1>1, <3>1, MinOfTwo
    <3> HIDE DEF m
    <3>3. {0, m} \in SUBSET (0 .. n) /\ {0, m} # {}
      BY <1>1, <3>2
    <3>4. x \in {0, m}
      BY <1>1, <3>3, GreatestElement
    <3> QED
      BY <3>3, <3>4
  <2> QED
    BY <2>1, <2>2
<1>4. u = [e EXCEPT !.cursor = x, !.keep = FALSE]
  BY DEF Move, c, n
<1> HIDE DEF x, u
<1>5. u \in EdType /\ u.buf = e.buf /\ u.cursor = x /\ u.dirty = e.dirty /\ SameCache(e, u)
  <2>1. x \in Nat
    BY <1>3
  <2> QED
    BY <1>1, <1>4, <2>1 DEF EdType, SameCache
<1>6. EdOK(u)
  BY <1>1, <1>3, <1>5 DEF EdOK, n
<1>7. Edited(e, u)
  BY <1>5, <1>6, CursorOnly
<1> QED
  BY <1>7 DEF u

LEMMA MoveLineIs ==
  ASSUME NEW e, EdOK(e), NEW to
  PROVE  Edited(e, MoveLine(e, to))
<1> DEFINE b == e.buf
           col  == e.cursor - LineStart(b, e.cursor)
           pref == IF e.keep THEN e.pref ELSE col
           c == IF to \in 0 .. TotalLines(b) - 1 THEN PosForLineCol(b, to, pref) ELSE e.cursor
           u == MoveLine(e, to)
<1>1. e \in EdType /\ b \in Seq(Bytes) /\ e.cursor \in 0 .. Len(b) /\ Len(b) <= MaxBytes
      /\ e.pref \in Nat /\ e.cursor \in Nat /\ Len(b) \in Nat
  BY DEF EdOK, EdType
<1>2. pref \in Nat
  <2>1. LineStart(b, e.cursor) \in 0 .. e.cursor
    BY <1>1, LinePositions
  <2>2. col \in Nat
    BY <1>1, <2>1
  <2> HIDE DEF col
  <2> QED
    BY <1>1, <2>2
<1>3. u = [e EXCEPT !.pref = pref, !.keep = TRUE, !.cursor = c]
  BY DEF MoveLine
<1> HIDE DEF pref
<1>4. c \in 0 .. Len(b)
  <2> DEFINE s == PosForLine(b, to)
             f == LineEnd(b, s)
  <2>1. s \in 0 .. Len(b)
    BY <1>1, LinePositions
  <2>2. f \in s .. Len(b)
    BY <1>1, <2>1, LinePositions
  <2>3. PosForLineCol(b, to, pref) = Min({s + pref, f})
    BY DEF PosForLineCol
  <2> HIDE DEF s, f
  <2>4. s + pref \in Nat /\ f \in Nat
    BY <1>1, <1>2, <2>1, <2>2
  <2>5. Min({s + pref, f}) = IF s + pref <= f THEN s + pref ELSE f
    BY <2>4, MinOfTwo
  <2>6. PosForLineCol(b, to, pref) \in 0 .. Len(b)
    BY <1>1, <1>2, <2>1, <2>2, <2>3, <2>4, <2>5
  <2> QED
    BY <1>1, <2>6
<1> HIDE DEF c, u
<1>5. u \in EdType /\ u.buf = b /\ u.cursor = c /\ u.dirty = e.dirty /\ SameCache(e, u)
  <2>1. c \in Nat
    BY <1>1, <1>4
  <2> HIDE DEF b
  <2> QED
    BY <1>1, <1>2, <1>3, <2>1 DEF EdType, SameCache, b
<1>6. EdOK(u)
  BY <1>1, <1>4, <1>5 DEF EdOK
<1>7. Edited(e, u)
  BY <1>5, <1>6, CursorOnly
<1> QED
  BY <1>7 DEF u

-----------------------------------------------------------------------------
(* draw_editor.                                                            *)

LEMMA TopFollows ==
  ASSUME NEW e, EdOK(e), NEW v, v = EnsureVisible(e)
  PROVE  /\ v \in EdType /\ v.buf = e.buf /\ v.cursor = e.cursor /\ v.path = e.path
         /\ v.dirty = e.dirty /\ v.first = e.first /\ v.prevLine = e.prevLine
         /\ v.prevTop = e.prevTop /\ v.prevTotal = e.prevTotal
         /\ LineOf(e.buf, e.cursor) \in v.top .. v.top + Rows - 1
<1> DEFINE line == LineOf(e.buf, e.cursor)
<1>1. e \in EdType /\ e.top \in Nat /\ e.cursor \in Nat /\ Rows \in Nat \ {0}
  BY EditorAssumption DEF EdOK, EdType
<1>2. line \in Nat
  BY <1>1, LinesFinite
<1>3. v = IF line < e.top THEN [e EXCEPT !.top = line]
          ELSE IF line >= e.top + Rows THEN [e EXCEPT !.top = (line - Rows) + 1] ELSE e
  <2>1. line - Rows + 1 = (line - Rows) + 1
    BY <1>1, <1>2
  <2> QED
    BY <2>1 DEF EnsureVisible
<1> HIDE DEF line
<1>4. PICK top \in Nat : v = [e EXCEPT !.top = top] /\ line \in top .. top + Rows - 1
  <2>1. CASE line < e.top
    <3>1. line \in line .. line + Rows - 1
      BY <1>1, <1>2
    <3> QED
      BY <1>2, <1>3, <2>1, <3>1
  <2>2. CASE ~(line < e.top) /\ line >= e.top + Rows
    <3> DEFINE m == (line - Rows) + 1
    <3>1. m \in Nat /\ line \in m .. m + Rows - 1
      BY <1>1, <1>2, <2>2
    <3>2. v = [e EXCEPT !.top = m]
      BY <1>3, <2>2
    <3> HIDE DEF m
    <3> QED
      BY <3>1, <3>2
  <2>3. CASE ~(line < e.top) /\ ~(line >= e.top + Rows)
    <3>1. line \in e.top .. e.top + Rows - 1
      BY <1>1, <1>2, <2>3
    <3>2. v = [e EXCEPT !.top = e.top]
      BY <1>1, <1>3, <2>3 DEF EdType
    <3> QED
      BY <1>1, <3>1, <3>2
  <2> QED
    BY <2>1, <2>2, <2>3
<1>5. /\ v \in EdType /\ v.top = top /\ v.buf = e.buf /\ v.cursor = e.cursor /\ v.path = e.path
      /\ v.dirty = e.dirty /\ v.first = e.first /\ v.prevLine = e.prevLine
      /\ v.prevTop = e.prevTop /\ v.prevTotal = e.prevTotal
  BY <1>1, <1>4 DEF EdType
<1> QED
  BY <1>4, <1>5 DEF line

\* What draw_editor leaves in g_ed.
LEMMA DrawsCache ==
  ASSUME NEW t \in Terminals, NEW e, EdOK(e), Draw(t, e)
  PROVE  /\ EdOK(ed') /\ ed'.buf = e.buf /\ ed'.cursor = e.cursor /\ ed'.path = e.path
         /\ ed'.dirty = e.dirty /\ ~ed'.first /\ ed'.prevTop = ed'.top
         /\ ed'.prevLine = LineOf(e.buf, e.cursor) /\ ed'.prevTotal = TotalLines(e.buf)
         /\ LineOf(e.buf, e.cursor) \in ed'.top .. ed'.top + Rows - 1
<1> DEFINE v == EnsureVisible(e)
           line == LineOf(v.buf, v.cursor)
           total == TotalLines(v.buf)
<1>1. /\ v \in EdType /\ v.buf = e.buf /\ v.cursor = e.cursor /\ v.path = e.path
      /\ v.dirty = e.dirty /\ LineOf(e.buf, e.cursor) \in v.top .. v.top + Rows - 1
  BY TopFollows
<1>2. ed' = [v EXCEPT !.first = FALSE, !.prevLine = line, !.prevTop = v.top, !.prevTotal = total]
  BY DEF Draw
<1> HIDE DEF v
<1>3. line \in Nat /\ total \in Nat
  BY <1>1, LinesFinite DEF EdType, TotalLines
<1>4. line = LineOf(e.buf, e.cursor) /\ total = TotalLines(e.buf)
  BY <1>1
<1> HIDE DEF line, total
<1>5. /\ ed' \in EdType /\ ed'.buf = v.buf /\ ed'.cursor = v.cursor /\ ed'.path = v.path
      /\ ed'.dirty = v.dirty /\ ed'.first = FALSE /\ ed'.top = v.top /\ ed'.prevTop = v.top
      /\ ed'.prevLine = line /\ ed'.prevTotal = total
  BY <1>1, <1>2, <1>3 DEF EdType
<1>6. EdOK(ed')
  BY <1>1, <1>5 DEF EdOK
<1> QED
  BY <1>1, <1>4, <1>5, <1>6

\* What it writes: every row, or those of two lines of the view that was there before.
LEMMA DrawsRows ==
  ASSUME NEW t \in Terminals, NEW e, EdOK(e), Draw(t, e),
         screen \in [Terminals -> [0 .. Rows - 1 -> Seq(Bytes)]]
  PROVE  /\ screen' \in [Terminals -> [0 .. Rows - 1 -> Seq(Bytes)]]
         /\ \/ \A r \in 0 .. Rows - 1 : screen'[t][r] = LineText(e.buf, ed'.top + r)
            \/ /\ ~e.first /\ ed'.top = e.prevTop /\ TotalLines(e.buf) = e.prevTotal
               /\ \A r \in 0 .. Rows - 1 :
                    screen'[t][r] = IF ed'.top + r \in {LineOf(e.buf, e.cursor), e.prevLine}
                                    THEN LineText(e.buf, ed'.top + r) ELSE screen[t][r]
<1> DEFINE v == EnsureVisible(e)
           line == LineOf(v.buf, v.cursor)
           all == FullRedraw(v)
           row == [r \in 0 .. Rows - 1 |->
                     IF all \/ v.top + r \in {line, v.prevLine}
                     THEN LineText(v.buf, v.top + r) ELSE screen[t][r]]
<1>1. /\ v \in EdType /\ v.buf = e.buf /\ v.cursor = e.cursor /\ v.prevLine = e.prevLine
      /\ v.first = e.first /\ v.prevTop = e.prevTop /\ v.prevTotal = e.prevTotal
  BY TopFollows
<1>2. ed'.top = v.top
  BY <1>1 DEF Draw, EdType
<1>3. screen' = [screen EXCEPT ![t] = row]
  BY Zenon DEF Draw, LineText
<1> HIDE DEF v
<1>4. \A l : LineText(v.buf, l) \in Seq(Bytes)
  <2> SUFFICES ASSUME NEW l PROVE LineText(v.buf, l) \in Seq(Bytes)
    OBVIOUS
  <2>1. v.buf \in Seq(Bytes)
    BY <1>1 DEF EdType
  <2>2. RenderLine(v.buf, l) \in Seq(Bytes)
    BY <2>1, LinePositions
  <2>3. <<>> \in Seq(Bytes)
    OBVIOUS
  <2> QED
    BY <2>2, <2>3 DEF LineText
<1>5. row \in [0 .. Rows - 1 -> Seq(Bytes)]
  <2>1. \A r \in 0 .. Rows - 1 : screen[t][r] \in Seq(Bytes)
    OBVIOUS
  <2> QED
    BY <1>4, <2>1
<1>6. \A r \in 0 .. Rows - 1 :
        row[r] = IF all \/ v.top + r \in {line, v.prevLine}
                 THEN LineText(v.buf, v.top + r) ELSE screen[t][r]
  OBVIOUS
<1> HIDE DEF row
<1>7. screen' \in [Terminals -> [0 .. Rows - 1 -> Seq(Bytes)]] /\ screen'[t] = row
  BY <1>3, <1>5
<1>8. CASE all
  <2>1. \A r \in 0 .. Rows - 1 : screen'[t][r] = LineText(e.buf, ed'.top + r)
    BY <1>1, <1>2, <1>6, <1>7, <1>8
  <2> QED
    BY <1>7, <2>1
<1>9. CASE ~all
  <2>1. ~v.first /\ v.top = v.prevTop /\ TotalLines(v.buf) = v.prevTotal
    BY <1>9 DEF FullRedraw
  <2>2. \A r \in 0 .. Rows - 1 :
          screen'[t][r] = IF ed'.top + r \in {LineOf(e.buf, e.cursor), e.prevLine}
                          THEN LineText(e.buf, ed'.top + r) ELSE screen[t][r]
    BY <1>1, <1>2, <1>6, <1>7, <1>9
  <2> QED
    BY <1>1, <1>2, <1>7, <2>1, <2>2
<1> QED
  BY <1>8, <1>9

-----------------------------------------------------------------------------
(* What the actions have in common.                                        *)

LEMMA EditingIs ==
  ASSUME NEW t \in Terminals, NEW m, pc' = [pc EXCEPT ![t] = m],
         pc \in [Terminals -> {"shell", "edit", "unsaved", "menu", "prompt"}]
  PROVE  /\ m = "shell" => Editing' = Editing \ {t}
         /\ m # "shell" => Editing' = Editing \union {t}
  BY DEF Editing

\* A terminal t has drawn g_ed, as e, and waits at m for a key.
LEMMA AfterDraw ==
  ASSUME EditorInv, NEW t \in Terminals, NEW e, EdOK(e), Draw(t, e),
         NEW m \in {"edit", "unsaved", "menu", "prompt"}, pc' = [pc EXCEPT ![t] = m],
         SoleOK', sole' => e.first \/ (sole /\ pc[t] # "shell" /\ Shown(ed, e))
  PROVE  /\ Drawn' /\ CursorVisible' /\ ScreenShowsBuffer'
         /\ EdOK(ed') /\ ed'.buf = e.buf /\ ed'.path = e.path /\ ed'.dirty = e.dirty
         /\ screen' \in [Terminals -> [0 .. Rows - 1 -> Seq(Bytes)]]
         /\ pc' \in [Terminals -> {"shell", "edit", "unsaved", "menu", "prompt"}]
<1>1. /\ EdOK(ed') /\ ed'.buf = e.buf /\ ed'.cursor = e.cursor /\ ed'.path = e.path
      /\ ed'.dirty = e.dirty /\ ~ed'.first /\ ed'.prevTop = ed'.top
      /\ ed'.prevLine = LineOf(e.buf, e.cursor) /\ ed'.prevTotal = TotalLines(e.buf)
      /\ LineOf(e.buf, e.cursor) \in ed'.top .. ed'.top + Rows - 1
  BY DrawsCache
<1>2. /\ screen \in [Terminals -> [0 .. Rows - 1 -> Seq(Bytes)]]
      /\ pc \in [Terminals -> {"shell", "edit", "unsaved", "menu", "prompt"}]
      /\ EdOK(ed)
  BY DEF EditorInv, EditorTypes
<1>3. /\ screen' \in [Terminals -> [0 .. Rows - 1 -> Seq(Bytes)]]
      /\ \/ \A r \in 0 .. Rows - 1 : screen'[t][r] = LineText(e.buf, ed'.top + r)
         \/ /\ ~e.first /\ ed'.top = e.prevTop /\ TotalLines(e.buf) = e.prevTotal
            /\ \A r \in 0 .. Rows - 1 :
                 screen'[t][r] = IF ed'.top + r \in {LineOf(e.buf, e.cursor), e.prevLine}
                                 THEN LineText(e.buf, ed'.top + r) ELSE screen[t][r]
  BY <1>2, DrawsRows
<1>4. pc' \in [Terminals -> {"shell", "edit", "unsaved", "menu", "prompt"}]
  BY <1>2
<1>5. t \in Editing'
  BY <1>2 DEF Editing
<1>6. Drawn' /\ CursorVisible'
  BY <1>1 DEF Drawn, CursorVisible
<1>7. sole' => \A r \in 0 .. Rows - 1 : screen'[t][r] = LineText(e.buf, ed'.top + r)
  <2> SUFFICES ASSUME sole', NEW r \in 0 .. Rows - 1,
                      ~e.first /\ ed'.top = e.prevTop /\ TotalLines(e.buf) = e.prevTotal,
                      screen'[t][r] = IF ed'.top + r \in {LineOf(e.buf, e.cursor), e.prevLine}
                                      THEN LineText(e.buf, ed'.top + r) ELSE screen[t][r]
               PROVE  screen'[t][r] = LineText(e.buf, ed'.top + r)
    BY <1>3
  <2>1. sole /\ t \in Editing /\ Shown(ed, e)
    BY DEF Editing
  <2>2. /\ ed.prevTop = ed.top /\ ed.prevLine = LineOf(ed.buf, ed.cursor)
        /\ ed.prevTotal = TotalLines(ed.buf)
    BY <2>1 DEF EditorInv, Drawn
  <2>3. screen[t][r] = LineText(ed.buf, ed.top + r)
    BY <2>1 DEF EditorInv, ScreenShowsBuffer, LineText
  <2>4. /\ e.prevTop = ed.top /\ e.prevLine = LineOf(ed.buf, ed.cursor)
        /\ TotalLines(e.buf) = TotalLines(ed.buf)
    BY <2>1, <2>2 DEF Shown
  <2>5. \A l \in Nat : l \notin {LineOf(ed.buf, ed.cursor), LineOf(e.buf, e.cursor)} =>
          LineText(e.buf, l) = LineText(ed.buf, l)
    BY <2>1, <2>4 DEF Shown
  <2>6. ed'.top + r \in Nat /\ ed'.top = ed.top
    BY <1>2, <2>4 DEF EdOK, EdType
  <2> QED
    BY <2>3, <2>4, <2>5, <2>6
<1>8. ScreenShowsBuffer'
  <2>1. \A u \in Editing' : sole' => u = t
    BY <1>5 DEF SoleOK
  <2>2. \A u \in Editing' : sole' => \A r \in 0 .. Rows - 1 :
          screen'[u][r] = LineText(ed'.buf, ed'.top + r)
    BY <1>1, <1>7, <2>1
  <2> QED
    BY <2>2 DEF ScreenShowsBuffer, LineText
<1> QED
  BY <1>1, <1>3, <1>4, <1>6, <1>8

\* The editor of t returns, after a save perhaps.
LEMMA AfterQuit ==
  ASSUME EditorInv, NEW t \in Terminals, pc' = [pc EXCEPT ![t] = "shell"],
         screen' = [screen EXCEPT ![t] = Blank], sole' = sole,
         ed'.buf = ed.buf, ed'.cursor = ed.cursor, ed'.top = ed.top, ed'.first = ed.first,
         ed'.prevLine = ed.prevLine, ed'.prevTop = ed.prevTop, ed'.prevTotal = ed.prevTotal
  PROVE  /\ Drawn' /\ CursorVisible' /\ ScreenShowsBuffer' /\ Editing' = Editing \ {t}
         /\ screen' \in [Terminals -> [0 .. Rows - 1 -> Seq(Bytes)]]
         /\ pc' \in [Terminals -> {"shell", "edit", "unsaved", "menu", "prompt"}]
<1>1. /\ screen \in [Terminals -> [0 .. Rows - 1 -> Seq(Bytes)]]
      /\ pc \in [Terminals -> {"shell", "edit", "unsaved", "menu", "prompt"}]
  BY DEF EditorInv, EditorTypes
<1>2. Editing' = Editing \ {t}
  BY <1>1, EditingIs
<1>3. Blank \in [0 .. Rows - 1 -> Seq(Bytes)]
  BY DEF Blank
<1>4. /\ screen' \in [Terminals -> [0 .. Rows - 1 -> Seq(Bytes)]]
      /\ pc' \in [Terminals -> {"shell", "edit", "unsaved", "menu", "prompt"}]
      /\ \A u \in Editing' : screen'[u] = screen[u]
  <2>1. \A u \in Editing' : u \in Terminals /\ u # t
    BY <1>2 DEF Editing
  <2> QED
    BY <1>1, <1>3, <2>1
<1>5. Drawn' /\ CursorVisible'
  BY <1>2 DEF EditorInv, Drawn, CursorVisible
<1>6. ScreenShowsBuffer'
  BY <1>2, <1>4 DEF EditorInv, ScreenShowsBuffer
<1> QED
  BY <1>2, <1>4, <1>5, <1>6

LEMMA Saves ==
  ASSUME EditorTypes, NEW p \in Paths, NEW ok \in BOOLEAN, SaveToPath(ed, p, ok)
  PROVE  /\ files' \in [Paths -> Contents] /\ intact' \in BOOLEAN
         /\ ok => files'[p].data = ed.buf /\ pending' = {}
         /\ ~ok => /\ pending' = pending
                   /\ intact' => intact /\ p # ed.path
                   /\ \A q \in Paths \ {p} : files'[q] = files[q]
<1>1. files \in [Paths -> Contents] /\ intact \in BOOLEAN /\ ed.buf \in Seq(Bytes)
  BY DEF EditorTypes, EdOK, EdType
<1>2. \A s \in Seq(Bytes) : File(s) \in Contents /\ File(s).data = s
  BY DEF File, Contents
<1>3. \A f \in Wrecks(p, ed.buf) : f \in Contents
  <2>1. <<>> \in Seq(Bytes)
    OBVIOUS
  <2>2. Wrecks(p, ed.buf) \subseteq {files[p], File(<<>>), File(ed.buf)}
    BY DEF Wrecks
  <2> QED
    BY <1>1, <1>2, <2>1, <2>2
<1>4. CASE ok
  BY <1>1, <1>2, <1>4 DEF SaveToPath
<1>5. CASE ~ok
  BY <1>1, <1>3, <1>5 DEF SaveToPath
<1> QED
  BY <1>4, <1>5

LEMMA SavedIs ==
  ASSUME NEW e, EdOK(e), NEW p \in Paths, NEW ok \in BOOLEAN, NEW u, u = Saved(e, p, ok)
  PROVE  /\ EdOK(u) /\ u.buf = e.buf /\ u.cursor = e.cursor /\ u.top = e.top /\ u.first = e.first
         /\ u.prevLine = e.prevLine /\ u.prevTop = e.prevTop /\ u.prevTotal = e.prevTotal
         /\ ok => u.path = p /\ ~u.dirty
         /\ ~ok => u = e
<1>1. CASE ok
  <2>1. u = [e EXCEPT !.dirty = FALSE, !.path = p]
    BY <1>1 DEF Saved
  <2> QED
    BY <1>1, <2>1 DEF EdOK, EdType
<1>2. CASE ~ok
  BY <1>2 DEF Saved
<1> QED
  BY <1>1, <1>2

-----------------------------------------------------------------------------
(* Every action keeps the invariant.                                       *)

LEMMA OpenKeeps ==
  ASSUME EditorInv, NEW t \in Terminals, NEW p \in Paths, EditorOpen(t, p)
  PROVE  EditorInv'
<1>1. /\ files \in [Paths -> Contents] /\ pending \subseteq Terminals
      /\ pc \in [Terminals -> {"shell", "edit", "unsaved", "menu", "prompt"}]
  BY DEF EditorInv, EditorTypes
<1>2. PICK s \in Readable(p) : Draw(t, Loaded(p, s)) /\ intact' = (s = files[p].data)
  BY DEF EditorOpen
<1>3. s \in Seq(Bytes) /\ Len(s) <= MaxBytes
  <2> DEFINE d == files[p].data
             m == Min({MaxBytes, Len(d)})
             whole == SubSeq(d, 1, m)
  <2>1. d \in Seq(Bytes) /\ Len(d) \in Nat /\ MaxBytes \in Nat
    BY <1>1, EditorAssumption DEF Contents
  <2>2. m \in 0 .. Len(d) /\ m <= MaxBytes
    BY <2>1, MinOfTwo
  <2>3. whole \in Seq(Bytes) /\ Len(whole) = m
    <3> HIDE DEF d, m
    <3>1. Len(d) \in m .. Len(d)
      BY <2>1, <2>2
    <3> QED
      BY <2>1, <2>2, <3>1, Halves
  <2>4. s = whole \/ \E n \in 0 .. Len(whole) : s = SubSeq(whole, 1, n)
    BY Zenon DEF Readable
  <2> HIDE DEF d, m, whole
  <2>5. CASE s = whole
    BY <2>2, <2>3, <2>5
  <2>6. CASE \E n \in 0 .. Len(whole) : s = SubSeq(whole, 1, n)
    <3>1. PICK n \in 0 .. Len(whole) : s = SubSeq(whole, 1, n)
      BY <2>6
    <3>2. Len(whole) \in n .. Len(whole)
      BY <2>2, <2>3
    <3>3. s \in Seq(Bytes) /\ Len(s) = n
      BY <2>3, <3>1, <3>2, Halves
    <3> QED
      BY <2>1, <2>2, <2>3, <3>3
  <2> QED
    BY <2>4, <2>5, <2>6
<1> DEFINE e == Loaded(p, s)
<1>4. /\ EdOK(e) /\ e.first = TRUE /\ e.dirty = FALSE /\ e.buf = s /\ e.path = p
  BY <1>3 DEF Loaded, EdOK, EdType
<1> HIDE DEF e
<1>5. /\ pc' = [pc EXCEPT ![t] = "edit"] /\ files' = files /\ pending' = pending \ {t}
      /\ sole' = \A u \in Terminals \ {t} : pc[u] = "shell"
  BY Zenon DEF EditorOpen, Key
<1>6. Editing' = Editing \union {t}
  BY <1>1, <1>5 DEF Editing
<1>7. sole' \in BOOLEAN /\ (sole' => Editing' = {t})
  BY <1>5, <1>6 DEF Editing
<1>8. SoleOK'
  BY <1>5, <1>7 DEF SoleOK
<1>9. /\ Drawn' /\ CursorVisible' /\ ScreenShowsBuffer'
      /\ EdOK(ed') /\ ed'.buf = e.buf /\ ed'.path = e.path /\ ed'.dirty = e.dirty
      /\ screen' \in [Terminals -> [0 .. Rows - 1 -> Seq(Bytes)]]
      /\ pc' \in [Terminals -> {"shell", "edit", "unsaved", "menu", "prompt"}]
  <2>1. Draw(t, e)
    BY <1>2 DEF e
  <2> QED
    BY <1>4, <1>5, <1>8, <2>1, AfterDraw
<1>10. CleanIsSaved'
  BY <1>2, <1>4, <1>5, <1>9 DEF CleanIsSaved
<1>11. EditorTypes'
  BY <1>1, <1>2, <1>5, <1>7, <1>9 DEF EditorTypes
<1> QED
  BY <1>8, <1>9, <1>10, <1>11 DEF EditorInv

LEMMA HandleKeeps ==
  ASSUME EditorInv, NEW t \in Terminals, NEW e, Edited(ed, e), Handle(t, e)
  PROVE  EditorInv'
<1>1. /\ files \in [Paths -> Contents] /\ pending \subseteq Terminals /\ sole \in BOOLEAN
      /\ intact \in BOOLEAN /\ EdOK(e) /\ ed.dirty \in BOOLEAN /\ e.dirty \in BOOLEAN
      /\ pc \in [Terminals -> {"shell", "edit", "unsaved", "menu", "prompt"}]
  BY DEF EditorInv, EditorTypes, Edited, EdOK, EdType
<1>2. /\ pc[t] = "edit" /\ pc' = [pc EXCEPT ![t] = "edit"] /\ Draw(t, e)
      /\ files' = files /\ sole' = sole /\ intact' = intact
      /\ pending' = IF e.buf = ed.buf THEN pending ELSE pending \union {t}
  BY DEF Handle, Key
<1>3. t \in Editing /\ Editing' = Editing
  <2>1. Editing' = Editing \union {t}
    BY <1>1, <1>2, EditingIs
  <2> QED
    BY <1>2, <2>1 DEF Editing
<1>4. (e.buf = ed.buf /\ e.dirty = ed.dirty) \/ e.dirty
  BY DEF Edited
<1>5. ed'.dirty = e.dirty
  BY <1>1, <1>2, DrawsCache
<1>6. SoleOK'
  BY <1>1, <1>2, <1>3, <1>4, <1>5 DEF EditorInv, SoleOK
<1>7. /\ Drawn' /\ CursorVisible' /\ ScreenShowsBuffer'
      /\ EdOK(ed') /\ ed'.buf = e.buf /\ ed'.path = e.path /\ ed'.dirty = e.dirty
      /\ screen' \in [Terminals -> [0 .. Rows - 1 -> Seq(Bytes)]]
      /\ pc' \in [Terminals -> {"shell", "edit", "unsaved", "menu", "prompt"}]
  <2>1. pc[t] # "shell" /\ Shown(ed, e)
    BY <1>2 DEF Edited, SameCache, Shown
  <2> QED
    BY <1>1, <1>2, <1>6, <2>1, AfterDraw
<1>8. e.path = ed.path
  BY DEF Edited, SameCache
<1>9. CleanIsSaved'
  BY <1>2, <1>4, <1>7, <1>8 DEF EditorInv, CleanIsSaved
<1>10. EditorTypes'
  BY <1>1, <1>2, <1>7 DEF EditorTypes
<1> QED
  BY <1>6, <1>7, <1>9, <1>10 DEF EditorInv

LEMMA ArrowKeeps ==
  ASSUME EditorInv, NEW t \in Terminals, ArrowKey(t)
  PROVE  EditorInv'
<1>1. EdOK(ed)
  BY DEF EditorInv, EditorTypes
<1>2. PICK d \in {-1, 1} :
        Handle(t, Move(ed, d)) \/ Handle(t, MoveLine(ed, LineOf(ed.buf, ed.cursor) + d))
  BY DEF ArrowKey
<1>3. CASE Handle(t, Move(ed, d))
  BY <1>1, <1>3, MoveIs, HandleKeeps
<1>4. CASE Handle(t, MoveLine(ed, LineOf(ed.buf, ed.cursor) + d))
  BY <1>1, <1>4, MoveLineIs, HandleKeeps
<1> QED
  BY <1>2, <1>3, <1>4

LEMMA TextKeeps ==
  ASSUME EditorInv, NEW t \in Terminals, TextKey(t)
  PROVE  EditorInv'
<1> DEFINE e == [ed EXCEPT !.keep = FALSE]
<1>1. EdOK(e) /\ \A u : Edited(e, u) => Edited(ed, u)
  BY KeepOff DEF EditorInv, EditorTypes
<1>2. \/ Handle(t, DeleteForward(e)) \/ Handle(t, DeleteBackspace(e))
      \/ Handle(t, InsertNewline(e)) \/ Handle(t, Insert(e, Spc, TabSpaces))
      \/ \E c \in Chars : Handle(t, Insert(e, c, 1))
  BY Zenon DEF TextKey
<1> HIDE DEF e
<1>3. PICK u : Edited(e, u) /\ Handle(t, u)
  <2>1. Edited(e, DeleteForward(e)) /\ Edited(e, DeleteBackspace(e)) /\ Edited(e, InsertNewline(e))
    BY <1>1, DeleteForwardIs, DeleteBackspaceIs, InsertNewlineIs
  <2>2. Edited(e, Insert(e, Spc, TabSpaces))
    <3>1. Spc \in Bytes \ {NL}
      <4>1. Spc \in Bytes
        BY Zenon DEF Bytes
      <4>2. Spc # NL
        BY DEF Spc, NL
      <4> QED
        BY <4>1, <4>2
    <3>2. TabSpaces \in Nat
      BY EditorAssumption
    <3> QED
      BY <1>1, <3>1, <3>2, InsertTextIs
  <2>3. \A c \in Chars : Edited(e, Insert(e, c, 1))
    <3>1. \A c \in Chars : c \in Bytes \ {NL}
      BY EditorAssumption DEF Bytes
    <3> QED
      BY <1>1, <3>1, InsertTextIs
  <2> QED
    BY <1>2, <2>1, <2>2, <2>3, Zenon
<1> QED
  BY <1>1, <1>3, HandleKeeps

LEMMA StatusKeeps ==
  ASSUME EditorInv, NEW t \in Terminals, NEW l \in {"edit", "unsaved", "menu", "prompt"},
         NEW m \in {"edit", "unsaved", "menu"}, StatusKey(t, l, m)
  PROVE  EditorInv'
<1>1. /\ files \in [Paths -> Contents] /\ pending \subseteq Terminals /\ sole \in BOOLEAN
      /\ intact \in BOOLEAN /\ EdOK(ed)
      /\ pc \in [Terminals -> {"shell", "edit", "unsaved", "menu", "prompt"}]
  BY DEF EditorInv, EditorTypes
<1>2. /\ pc[t] = l /\ pc' = [pc EXCEPT ![t] = m] /\ Draw(t, ed)
      /\ files' = files /\ sole' = sole /\ intact' = intact /\ pending' = pending
  BY DEF StatusKey, Key
<1>3. Editing' = Editing
  <2>1. Editing' = Editing \union {t}
    BY <1>1, <1>2, EditingIs
  <2> QED
    BY <1>2, <2>1 DEF Editing
<1>4. ed'.dirty = ed.dirty
  BY <1>1, <1>2, DrawsCache
<1>5. SoleOK'
  BY <1>2, <1>3, <1>4 DEF EditorInv, SoleOK
<1>6. Shown(ed, ed) /\ pc[t] # "shell"
  BY <1>2 DEF Shown
<1>7. /\ Drawn' /\ CursorVisible' /\ ScreenShowsBuffer'
      /\ EdOK(ed') /\ ed'.buf = ed.buf /\ ed'.path = ed.path /\ ed'.dirty = ed.dirty
      /\ screen' \in [Terminals -> [0 .. Rows - 1 -> Seq(Bytes)]]
      /\ pc' \in [Terminals -> {"shell", "edit", "unsaved", "menu", "prompt"}]
  BY <1>1, <1>2, <1>5, <1>6, AfterDraw
<1>8. CleanIsSaved'
  BY <1>2, <1>7 DEF EditorInv, CleanIsSaved
<1>9. EditorTypes'
  BY <1>1, <1>2, <1>7 DEF EditorTypes
<1> QED
  BY <1>5, <1>7, <1>8, <1>9 DEF EditorInv

\* A save after which the editor draws and goes on.
LEMMA SaveKeeps ==
  ASSUME EditorInv, NEW t \in Terminals, NEW l \in {"edit", "unsaved", "menu", "prompt"},
         NEW p \in Paths, NEW ok \in BOOLEAN, Key(t, l, "edit"), sole' = sole,
         SaveToPath(ed, p, ok), Draw(t, Saved(ed, p, ok))
  PROVE  EditorInv'
<1> DEFINE e == Saved(ed, p, ok)
<1>1. /\ EditorTypes /\ pending \subseteq Terminals /\ sole \in BOOLEAN
      /\ EdOK(ed) /\ ed.dirty \in BOOLEAN /\ ed.path \in Paths
      /\ pc \in [Terminals -> {"shell", "edit", "unsaved", "menu", "prompt"}]
  BY DEF EditorInv, EditorTypes, EdOK, EdType
<1>2. pc[t] = l /\ pc' = [pc EXCEPT ![t] = "edit"]
  BY DEF Key
<1>3. /\ files' \in [Paths -> Contents] /\ intact' \in BOOLEAN
      /\ ok => files'[p].data = ed.buf /\ pending' = {}
      /\ ~ok => /\ pending' = pending
                /\ intact' => intact /\ p # ed.path
                /\ \A q \in Paths \ {p} : files'[q] = files[q]
  BY <1>1, Saves
<1>4. /\ EdOK(e) /\ e.buf = ed.buf /\ e.cursor = ed.cursor /\ e.top = ed.top /\ e.first = ed.first
      /\ e.prevLine = ed.prevLine /\ e.prevTop = ed.prevTop /\ e.prevTotal = ed.prevTotal
      /\ ok => e.path = p /\ ~e.dirty
      /\ ~ok => e = ed
  BY <1>1, SavedIs
<1>5. Draw(t, e)
  OBVIOUS
<1> HIDE DEF e
<1>6. Editing' = Editing /\ t \in Editing
  <2>1. Editing' = Editing \union {t}
    BY <1>1, <1>2 DEF Editing
  <2> QED
    BY <1>2, <2>1 DEF Editing
<1>7. ed'.dirty = e.dirty
  BY <1>4, <1>5, DrawsCache
<1>8. SoleOK'
  <2>1. CASE ok
    BY <1>3, <1>6, <2>1 DEF EditorInv, SoleOK
  <2>2. CASE ~ok
    BY <1>3, <1>4, <1>6, <1>7, <2>2 DEF EditorInv, SoleOK
  <2> QED
    BY <2>1, <2>2
<1>9. /\ Drawn' /\ CursorVisible' /\ ScreenShowsBuffer'
      /\ EdOK(ed') /\ ed'.buf = e.buf /\ ed'.path = e.path /\ ed'.dirty = e.dirty
      /\ screen' \in [Terminals -> [0 .. Rows - 1 -> Seq(Bytes)]]
      /\ pc' \in [Terminals -> {"shell", "edit", "unsaved", "menu", "prompt"}]
  <2>1. pc[t] # "shell" /\ Shown(ed, e)
    BY <1>2, <1>4 DEF Shown
  <2> QED
    BY <1>2, <1>4, <1>5, <1>8, <2>1, AfterDraw
<1>10. CleanIsSaved'
  <2>1. CASE ok
    BY <1>3, <1>4, <1>9, <2>1 DEF CleanIsSaved
  <2>2. CASE ~ok
    BY <1>1, <1>3, <1>4, <1>9, <2>2 DEF EditorInv, CleanIsSaved
  <2> QED
    BY <2>1, <2>2
<1>11. EditorTypes'
  <2>1. pending' \subseteq Terminals
    BY <1>1, <1>3
  <2> QED
    BY <1>1, <1>3, <1>9, <2>1 DEF EditorTypes
<1> QED
  BY <1>8, <1>9, <1>10, <1>11 DEF EditorInv

\* A save after which the editor returns.
LEMMA SaveAndQuitKeeps ==
  ASSUME EditorInv, NEW t \in Terminals, Quit(t, "unsaved"), SaveToPath(ed, ed.path, TRUE),
         ed' = Saved(ed, ed.path, TRUE)
  PROVE  EditorInv'
<1>1. /\ EditorTypes /\ EdOK(ed) /\ ed.path \in Paths /\ sole \in BOOLEAN
  BY DEF EditorInv, EditorTypes, EdOK, EdType
<1>2. /\ pc' = [pc EXCEPT ![t] = "shell"] /\ screen' = [screen EXCEPT ![t] = Blank] /\ sole' = sole
  BY DEF Quit, Key
<1>3. /\ files' \in [Paths -> Contents] /\ intact' \in BOOLEAN
      /\ files'[ed.path].data = ed.buf /\ pending' = {}
  BY <1>1, Saves
<1>4. /\ EdOK(ed') /\ ed'.buf = ed.buf /\ ed'.cursor = ed.cursor /\ ed'.top = ed.top
      /\ ed'.first = ed.first /\ ed'.prevLine = ed.prevLine /\ ed'.prevTop = ed.prevTop
      /\ ed'.prevTotal = ed.prevTotal /\ ed'.path = ed.path
  <2>1. ed' = [ed EXCEPT !.dirty = FALSE, !.path = ed.path]
    BY DEF Saved
  <2> QED
    BY <1>1, <2>1 DEF EdOK, EdType
<1>5. /\ Drawn' /\ CursorVisible' /\ ScreenShowsBuffer' /\ Editing' = Editing \ {t}
      /\ screen' \in [Terminals -> [0 .. Rows - 1 -> Seq(Bytes)]]
      /\ pc' \in [Terminals -> {"shell", "edit", "unsaved", "menu", "prompt"}]
  BY <1>2, <1>4, AfterQuit
<1>6. SoleOK'
  BY <1>2, <1>3, <1>5 DEF EditorInv, SoleOK
<1>7. CleanIsSaved'
  BY <1>3, <1>4 DEF CleanIsSaved
<1>8. EditorTypes'
  BY <1>1, <1>2, <1>3, <1>4, <1>5 DEF EditorTypes
<1> QED
  BY <1>5, <1>6, <1>7, <1>8 DEF EditorInv

\* The editor returns and leaves g_ed as it is.
LEMMA QuitKeeps ==
  ASSUME EditorInv, NEW t \in Terminals, NEW l, Quit(t, l), UNCHANGED <<ed, files, intact>>,
         pending' = pending \/ pending' = pending \ {t}
  PROVE  EditorInv'
<1>1. /\ EditorTypes /\ pending \subseteq Terminals /\ sole \in BOOLEAN
  BY DEF EditorInv, EditorTypes
<1>2. /\ pc' = [pc EXCEPT ![t] = "shell"] /\ screen' = [screen EXCEPT ![t] = Blank] /\ sole' = sole
      /\ ed' = ed /\ files' = files /\ intact' = intact
  BY DEF Quit, Key
<1>3. /\ Drawn' /\ CursorVisible' /\ ScreenShowsBuffer' /\ Editing' = Editing \ {t}
      /\ screen' \in [Terminals -> [0 .. Rows - 1 -> Seq(Bytes)]]
      /\ pc' \in [Terminals -> {"shell", "edit", "unsaved", "menu", "prompt"}]
  BY <1>2, AfterQuit
<1>4. SoleOK'
  BY <1>2, <1>3 DEF EditorInv, SoleOK
<1>5. CleanIsSaved'
  BY <1>2 DEF EditorInv, CleanIsSaved
<1>6. EditorTypes'
  BY <1>1, <1>2, <1>3 DEF EditorTypes
<1> QED
  BY <1>3, <1>4, <1>5, <1>6 DEF EditorInv

\* The menu goes on to ask for a path.
LEMMA AskPathKeeps ==
  ASSUME EditorInv, NEW t \in Terminals, Key(t, "menu", "prompt"),
         UNCHANGED <<ed, files, screen, sole, intact, pending>>
  PROVE  EditorInv'
<1>1. /\ EditorTypes
      /\ pc \in [Terminals -> {"shell", "edit", "unsaved", "menu", "prompt"}]
  BY DEF EditorInv, EditorTypes
<1>2. /\ pc[t] = "menu" /\ pc' = [pc EXCEPT ![t] = "prompt"] /\ ed' = ed /\ files' = files
      /\ screen' = screen /\ sole' = sole /\ intact' = intact /\ pending' = pending
  BY DEF Key
<1>3. Editing' = Editing
  BY <1>1, <1>2 DEF Editing
<1>4. EditorTypes'
  BY <1>1, <1>2 DEF EditorTypes
<1>5. Drawn' /\ CursorVisible' /\ SoleOK' /\ CleanIsSaved'
  BY <1>2, <1>3 DEF EditorInv, Drawn, CursorVisible, SoleOK, CleanIsSaved
<1>6. ScreenShowsBuffer'
  BY <1>2, <1>3 DEF EditorInv, ScreenShowsBuffer
<1> QED
  BY <1>4, <1>5, <1>6 DEF EditorInv

LEMMA SaveKeyKeeps ==
  ASSUME EditorInv, NEW t \in Terminals, NEW l \in {"edit", "unsaved", "menu", "prompt"},
         NEW p \in Paths, SaveKey(t, l, p)
  PROVE  EditorInv'
<1>1. PICK ok \in BOOLEAN : SaveToPath(ed, p, ok) /\ Draw(t, Saved(ed, p, ok))
  BY DEF SaveKey
<1>2. Key(t, l, "edit") /\ sole' = sole
  BY DEF SaveKey
<1> QED
  BY <1>1, <1>2, SaveKeeps

LEMMA InitHolds ==
  ASSUME Init
  PROVE  EditorInv
<1> DEFINE p == CHOOSE q \in Paths : TRUE
           e == Loaded(p, <<>>)
<1>1. p \in Paths /\ MaxBytes \in Nat
  BY EditorAssumption
<1>2. ed = [e EXCEPT !.first = FALSE]
  BY DEF Init
<1> HIDE DEF p
<1>3. e \in EdType /\ e.buf = <<>> /\ e.cursor = 0
  BY <1>1 DEF Loaded, EdType
<1> HIDE DEF e
<1>4. ed \in EdType /\ ed.buf = <<>> /\ ed.cursor = 0
  BY <1>2, <1>3 DEF EdType
<1>5. EdOK(ed)
  BY <1>1, <1>4 DEF EdOK
<1>6. Blank \in [0 .. Rows - 1 -> Seq(Bytes)]
  BY DEF Blank
<1>7. /\ files \in [Paths -> Contents] /\ screen \in [Terminals -> [0 .. Rows - 1 -> Seq(Bytes)]]
      /\ pc \in [Terminals -> {"shell", "edit", "unsaved", "menu", "prompt"}]
      /\ sole = TRUE /\ intact = FALSE /\ pending = {}
  BY <1>6, EditorAssumption DEF Init
<1>8. Editing = {}
  BY DEF Init, Editing
<1>9. EditorTypes
  BY <1>5, <1>7 DEF EditorTypes
<1> QED
  BY <1>7, <1>8, <1>9
     DEF EditorInv, Drawn, SoleOK, CursorVisible, ScreenShowsBuffer, CleanIsSaved

LEMMA NextKeeps ==
  ASSUME EditorInv, [Next]_vars
  PROVE  EditorInv'
<1>1. CASE UNCHANGED vars
  BY <1>1 DEF EditorInv, EditorTypes, Drawn, SoleOK, CursorVisible, ScreenShowsBuffer,
              CleanIsSaved, Editing, vars
<1>2. CASE Next
  <2>0. PICK t \in Terminals :
          \/ \E p \in Paths : EditorOpen(t, p)
          \/ ArrowKey(t) \/ TextKey(t) \/ SaveKey(t, "edit", ed.path) \/ F10Key(t)
          \/ Answer(t) \/ StatusKey(t, "edit", "menu") \/ Menu(t) \/ Prompt(t)
    BY <1>2 DEF Next
  <2>p. ed.path \in Paths
    BY DEF EditorInv, EditorTypes, EdOK, EdType
  <2>1. CASE \E p \in Paths : EditorOpen(t, p)
    BY <2>1, OpenKeeps
  <2>2. CASE ArrowKey(t)
    BY <2>2, ArrowKeeps
  <2>3. CASE TextKey(t)
    BY <2>3, TextKeeps
  <2>4. CASE SaveKey(t, "edit", ed.path)
    BY <2>4, <2>p, SaveKeyKeeps
  <2>5. CASE F10Key(t)
    <3>1. CASE StatusKey(t, "edit", "unsaved")
      BY <3>1, StatusKeeps
    <3>2. CASE Quit(t, "edit") /\ UNCHANGED <<ed, files, intact, pending>>
      BY <3>2, QuitKeeps
    <3> QED
      BY <2>5, <3>1, <3>2 DEF F10Key
  <2>6. CASE Answer(t)
    <3>1. CASE Quit(t, "unsaved") /\ pending' = pending \ {t} /\ UNCHANGED <<ed, files, intact>>
      BY <3>1, QuitKeeps
    <3>2. CASE Quit(t, "unsaved") /\ SaveToPath(ed, ed.path, TRUE) /\ ed' = Saved(ed, ed.path, TRUE)
      BY <3>2, SaveAndQuitKeeps
    <3>3. CASE /\ Key(t, "unsaved", "edit") /\ SaveToPath(ed, ed.path, FALSE)
               /\ Draw(t, Saved(ed, ed.path, FALSE)) /\ UNCHANGED sole
      BY <2>p, <3>3, SaveKeeps
    <3>4. CASE StatusKey(t, "unsaved", "edit")
      BY <3>4, StatusKeeps
    <3> QED
      BY <2>6, <3>1, <3>2, <3>3, <3>4 DEF Answer
  <2>7. CASE StatusKey(t, "edit", "menu")
    BY <2>7, StatusKeeps
  <2>8. CASE Menu(t)
    <3>1. CASE SaveKey(t, "menu", ed.path)
      BY <2>p, <3>1, SaveKeyKeeps
    <3>2. CASE Key(t, "menu", "prompt") /\ UNCHANGED <<ed, files, screen, sole, intact, pending>>
      BY <3>2, AskPathKeeps
    <3>3. CASE Quit(t, "menu") /\ UNCHANGED <<ed, files, intact, pending>>
      BY <3>3, QuitKeeps
    <3>4. CASE StatusKey(t, "menu", "edit")
      BY <3>4, StatusKeeps
    <3> QED
      BY <2>8, <3>1, <3>2, <3>3, <3>4 DEF Menu
  <2>9. CASE Prompt(t)
    <3>1. CASE \E p \in Paths : SaveKey(t, "prompt", p)
      BY <3>1, SaveKeyKeeps
    <3>2. CASE StatusKey(t, "prompt", "edit")
      BY <3>2, StatusKeeps
    <3> QED
      BY <2>9, <3>1, <3>2 DEF Prompt
  <2> QED
    BY <2>0, <2>1, <2>2, <2>3, <2>4, <2>5, <2>6, <2>7, <2>8, <2>9
<1> QED
  BY <1>1, <1>2

-----------------------------------------------------------------------------
(* Theorems.                                                               *)

\* Whatever the terminals type, load, save and quit, in any order: the invariant
\* of the editor holds after every key, its text and cursor within bounds.
THEOREM EditorInvariance == Spec => []EditorInv
<1>1. Init => EditorInv
  BY InitHolds
<1>2. EditorInv /\ [Next]_vars => EditorInv'
  BY NextKeeps
<1> QED
  BY <1>1, <1>2, PTL DEF Spec

\* The cursor is on one of the rows that ensure_cursor_visible left in view, also
\* when several terminals move, edit and load in the one g_ed.
THEOREM CursorVisibleCorrect == Spec => []CursorVisible
<1>1. EditorInv => CursorVisible
  BY DEF EditorInv
<1> QED
  BY <1>1, EditorInvariance, PTL

\* The two lines that draw_editor redraws when the view and the number of lines are
\* as before are all that a key can have changed, for every text and every key.
THEOREM ScreenShowsBufferCorrect == Spec => []ScreenShowsBuffer
<1>1. EditorInv => ScreenShowsBuffer
  BY DEF EditorInv
<1> QED
  BY <1>1, EditorInvariance, PTL

\* A buffer that is not dirty is what its file holds, unless a load or a save
\* of the file was cut short.
THEOREM CleanIsSavedCorrect == Spec => []CleanIsSaved
<1>1. EditorInv => CleanIsSaved
  BY DEF EditorInv
<1> QED
  BY <1>1, EditorInvariance, PTL

\* A terminal that edits alone and has changed something since the last save does
\* not return from the editor before it was asked.
THEOREM AsksBeforeDiscardingCorrect == Spec => AsksBeforeDiscarding
<1> DEFINE Asks == \A t \in pending : sole /\ pc[t] \in {"edit", "menu"} => pc'[t] # "shell"
<1>1. EditorInv /\ [Next]_vars => [Asks]_vars
  <2> SUFFICES ASSUME EditorInv, Next, NEW t \in pending, sole, pc[t] \in {"edit", "menu"}
               PROVE  pc'[t] # "shell"
    BY DEF vars
  <2>1. t \in Terminals /\ pc \in [Terminals -> {"shell", "edit", "unsaved", "menu", "prompt"}]
    BY DEF EditorInv, EditorTypes
  <2>2. ed.dirty
    BY <2>1 DEF EditorInv, SoleOK, Editing
  <2>3. PICK u \in Terminals :
          \/ \E p \in Paths : EditorOpen(u, p)
          \/ ArrowKey(u) \/ TextKey(u) \/ SaveKey(u, "edit", ed.path) \/ F10Key(u)
          \/ Answer(u) \/ StatusKey(u, "edit", "menu") \/ Menu(u) \/ Prompt(u)
    BY DEF Next
  <2>4. \A l, m : Key(u, l, m) => pc[u] = l /\ pc' = [pc EXCEPT ![u] = m]
    BY DEF Key
  <2>5. (\E l : \E m \in {"edit", "unsaved", "menu", "prompt"} : Key(u, l, m)) \/ Key(u, "unsaved", "shell")
    <3>1. \A v, l, m : StatusKey(v, l, m) => Key(v, l, m)
      BY DEF StatusKey
    <3>2. \A v, e : Handle(v, e) => Key(v, "edit", "edit")
      BY DEF Handle
    <3>3. \A v, l, p : SaveKey(v, l, p) => Key(v, l, "edit")
      BY DEF SaveKey
    <3>4. \A v, l : Quit(v, l) => Key(v, l, "shell")
      BY DEF Quit
    <3>5. CASE \E p \in Paths : EditorOpen(u, p)
      BY <3>5 DEF EditorOpen
    <3>6. CASE ArrowKey(u)
      BY <3>2, <3>6 DEF ArrowKey
    <3>7. CASE TextKey(u)
      BY <3>2, <3>7 DEF TextKey
    <3>8. CASE F10Key(u)
      BY <2>2, <3>1, <3>8 DEF F10Key
    <3>9. CASE Answer(u)
      BY <3>1, <3>4, <3>9 DEF Answer
    <3>10. CASE Menu(u)
      BY <2>2, <3>1, <3>3, <3>10 DEF Menu
    <3>11. CASE Prompt(u)
      BY <3>1, <3>3, <3>11 DEF Prompt
    <3>12. CASE SaveKey(u, "edit", ed.path) \/ StatusKey(u, "edit", "menu")
      BY <3>1, <3>3, <3>12
    <3> QED
      BY <2>3, <3>5, <3>6, <3>7, <3>8, <3>9, <3>10, <3>11, <3>12
  <2>6. CASE \E l : \E m \in {"edit", "unsaved", "menu", "prompt"} : Key(u, l, m)
    BY <2>1, <2>4, <2>6
  <2>7. CASE Key(u, "unsaved", "shell")
    BY <2>1, <2>4, <2>7
  <2> QED
    BY <2>5, <2>6, <2>7
<1> QED
  BY <1>1, EditorInvariance, PTL DEF Spec, AsksBeforeDiscarding
=============================================================================
