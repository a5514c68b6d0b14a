------------------------------ MODULE TtyProofs ------------------------------
(***************************************************************************)
(* Proofs about Tty for every size of screen and font that satisfies        *)
(* ScreenAssumption: the cursor never leaves the frame buffer, and on a      *)
(* screen of whole lines the console is a window on the last lines.         *)
(***************************************************************************)
EXTENDS Tty, TLAPS

-----------------------------------------------------------------------------
(* Division by the height of a line.                                        *)

LEMMA DivMod ==
  ASSUME NEW a \in Nat, NEW c \in Nat, c > 0
  PROVE  a \div c \in Nat /\ a % c \in 0 .. c - 1 /\ a = c * (a \div c) + (a % c)
BY SMT

LEMMA DivUnique ==
  ASSUME NEW a \in Nat, NEW c \in Nat, c > 0, NEW q \in Nat, c * q <= a, a < c * q + c
  PROVE  a \div c = q /\ a % c = a - c * q
BY SMT

LEMMA MulNext ==
  ASSUME NEW c \in Int, NEW q \in Int
  PROVE  c * (q + 1) = c * q + c
BY SMT

\* One line further down is the next quotient.
LEMMA DivStep ==
  ASSUME NEW a \in Nat, NEW c \in Nat, c > 0
  PROVE  (a + c) \div c = (a \div c) + 1 /\ (a + c) % c = a % c
<1> DEFINE q == a \div c
           r == a % c
<1>1. q \in Nat /\ r \in 0 .. c - 1 /\ a = c * q + r
  BY DivMod
<1> HIDE DEF q, r
<1>2. /\ c * (q + 1) = c * q + c /\ c * q \in Nat /\ q + 1 \in Nat /\ a + c \in Nat
      /\ c * (q + 1) <= a + c /\ a + c < c * (q + 1) + c
  BY <1>1, MulNext
<1>3. (a + c) \div c = q + 1 /\ (a + c) % c = (a + c) - c * (q + 1)
  BY <1>1, <1>2, DivUnique
<1> QED
  BY <1>1, <1>2, <1>3 DEF q, r

\* The pixel rows of the line that starts at a have its quotient.
LEMMA DivSame ==
  ASSUME NEW a \in Nat, NEW p \in Nat, NEW c \in Nat, c > 0, a % c = 0, a <= p, p < a + c
  PROVE  p \div c = a \div c
<1> DEFINE q == a \div c
<1>1. q \in Nat /\ a = c * q
  BY DivMod
<1> HIDE DEF q
<1>2. p \div c = q
  BY <1>1, DivUnique
<1> QED
  BY <1>2 DEF q

\* Multiples of c that differ do so by c at least.
LEMMA MultipleGap ==
  ASSUME NEW a \in Nat, NEW b \in Nat, NEW c \in Nat, c > 0, a % c = 0, b % c = 0, a < b
  PROVE  a + c <= b
<1> DEFINE p == a \div c
           q == b \div c
<1>1. p \in Nat /\ q \in Nat /\ a = c * p /\ b = c * q
  BY DivMod
<1> HIDE DEF p, q
<1> QED
  BY <1>1, SMT

-----------------------------------------------------------------------------
(* The cursor.                                                              *)

\* TypeOK and InBounds, which need each other.
CursorInv == TypeOK /\ InBounds

LEMMA ScreenFacts ==
  ASSUME fb \in Screens
  PROVE  /\ fb.charsize \in Nat \ {0} /\ fb.height \in Nat /\ fb.height >= fb.charsize
         /\ fb.width \in Nat /\ fb.width >= 9
         /\ fb.pixels_per_scan_line \in Nat /\ fb.pixels_per_scan_line >= fb.width
BY ScreenAssumption

\* What a step to the next line does to the cursor.
LEMMA DownCursor ==
  ASSUME CursorInv, NEW shown \in [Rows -> SUBSET (0 .. MAXLINES)],
         line < MAXLINES, move_tty_cursor_down(shown), fb' = fb
  PROVE  CursorInv'
<1>1. /\ fb.charsize \in Nat \ {0} /\ fb.height \in Nat
      /\ fb.pixels_per_scan_line \in Nat /\ fb.pixels_per_scan_line >= 9
      /\ fb \in Screens /\ MAXLINES \in Nat
  BY ScreenFacts, ScreenAssumption DEF CursorInv, TypeOK
<1>2. line' \in 0 .. MAXLINES /\ x' = 0
  BY <1>1 DEF CursorInv, TypeOK, move_tty_cursor_down
<1>3. y' \in Nat /\ y' + fb.charsize <= fb.height
  BY <1>1 DEF CursorInv, TypeOK, InBounds, move_tty_cursor_down, AtBottom
<1>4. ink' \in [Rows -> SUBSET (0 .. MAXLINES)]
  <2>1. \A p \in Rows : p + fb.charsize < fb.height => p + fb.charsize \in Rows
    BY <1>1 DEF Rows
  <2>2. Scrolled(shown) \in [Rows -> SUBSET (0 .. MAXLINES)]
    BY <2>1 DEF Scrolled
  <2> QED
    BY <2>2 DEF move_tty_cursor_down
<1>5. Rows' = Rows
  BY DEF Rows
<1> QED
  BY <1>1, <1>2, <1>3, <1>4, <1>5 DEF CursorInv, TypeOK, InBounds

LEMMA AdvanceCursor ==
  ASSUME CursorInv, NEW shown \in [Rows -> SUBSET (0 .. MAXLINES)],
         line < MAXLINES, Advance(shown), fb' = fb
  PROVE  CursorInv'
<1>1. CASE x + 9 + 9 > fb.width
  BY <1>1, DownCursor DEF Advance
<1>2. CASE ~(x + 9 + 9 > fb.width)
  <2>1. ink' = shown /\ x' = x + 9 /\ y' = y /\ line' = line
    BY <1>2 DEF Advance
  <2>2. x' \in Nat /\ x' + 8 <= fb.pixels_per_scan_line
    BY <1>2, <2>1, ScreenFacts DEF CursorInv, TypeOK
  <2>3. Rows' = Rows
    BY DEF Rows
  <2> QED
    BY <2>1, <2>2, <2>3 DEF CursorInv, TypeOK, InBounds
<1> QED
  BY <1>1, <1>2

LEMMA PutCharType ==
  ASSUME TypeOK PROVE put_char(ink) \in [Rows -> SUBSET (0 .. MAXLINES)]
BY DEF TypeOK, put_char

LEMMA BlankType == Blank \in [Rows -> SUBSET (0 .. MAXLINES)]
BY DEF Blank

\* CursorInv is an invariant of the console.
THEOREM CursorInvariant == Spec => []CursorInv
<1>1. Init => CursorInv
  <2> SUFFICES ASSUME Init PROVE CursorInv
    OBVIOUS
  <2>1. fb \in Screens /\ line \in 0 .. MAXLINES
    BY ScreenAssumption DEF Init
  <2> QED
    BY <2>1, ScreenFacts, BlankType DEF Init, CursorInv, TypeOK, InBounds
<1>2. CursorInv /\ [Next]_vars => CursorInv'
  <2> SUFFICES ASSUME CursorInv, [Next]_vars PROVE CursorInv'
    OBVIOUS
  <2>1. CASE Char
    BY <2>1, PutCharType, AdvanceCursor DEF Char, CursorInv
  <2>2. CASE Tab
    BY <2>2, AdvanceCursor DEF Tab, CursorInv, TypeOK
  <2>3. CASE Newline
    BY <2>3, DownCursor DEF Newline, CursorInv, TypeOK
  <2>4. CASE \E reset_cursor \in BOOLEAN : Clear(reset_cursor)
    <3>1. PICK reset_cursor \in BOOLEAN : Clear(reset_cursor)
      BY <2>4
    <3>2. /\ fb' = fb /\ line' = line /\ ink' = Blank /\ Rows' = Rows
          /\ (x' = 0 /\ y' = 0) \/ (x' = x /\ y' = y)
      BY <3>1 DEF Clear, Rows
    <3>3. fb \in Screens
      BY DEF CursorInv, TypeOK
    <3>4. /\ fb.height >= fb.charsize /\ fb.pixels_per_scan_line >= 9
          /\ fb.charsize \in Nat /\ fb.height \in Nat /\ fb.pixels_per_scan_line \in Nat
      BY <3>3, ScreenFacts
    <3> QED
      BY <3>2, <3>4, BlankType DEF CursorInv, TypeOK, InBounds
  <2>5. CASE UNCHANGED vars
    BY <2>5 DEF vars, CursorInv, TypeOK, InBounds, Rows
  <2> QED
    BY <2>1, <2>2, <2>3, <2>4, <2>5 DEF Next
<1> QED
  BY <1>1, <1>2, PTL DEF Spec

\* Type correctness of the console.
THEOREM TypeCorrect == Spec => []TypeOK
BY CursorInvariant, PTL DEF CursorInv

\* A glyph that put_char draws at the cursor lies inside the frame buffer, for
\* every screen and font.
THEOREM CursorInBounds == Spec => []InBounds
BY CursorInvariant, PTL DEF CursorInv

-----------------------------------------------------------------------------
(* The window.                                                              *)

\* The line whose row pixel row p is, when the cursor's row shows the current
\* one.
LineAt(p) == line - (y \div fb.charsize) + (p \div fb.charsize)

Shows(shown) ==
  \A p \in Rows : shown[p] \subseteq IF p >= y + fb.charsize THEN {} ELSE {LineAt(p)}

\* Window, with the row below the cursor's still on the screen.
WindowInv ==
  /\ CursorInv
  /\ WholeLines => /\ y % fb.charsize = 0
                   /\ y + 2 * fb.charsize <= fb.height
                   /\ Shows(ink)

\* The scroll, or the step down, moves every line with its row.
LEMMA DownWindow ==
  ASSUME CursorInv, CursorInv', WholeLines, y % fb.charsize = 0,
         y + 2 * fb.charsize <= fb.height,
         NEW shown \in [Rows -> SUBSET (0 .. MAXLINES)], Shows(shown),
         move_tty_cursor_down(shown), fb' = fb
  PROVE  /\ y' % fb.charsize = 0 /\ y' + 2 * fb.charsize <= fb.height
         /\ Shows(ink)'
<1> DEFINE c == fb.charsize
           h == fb.height
           k == y \div c
<1>1. c \in Nat /\ c > 0 /\ h \in Nat /\ y \in Nat /\ line \in Nat /\ h % c = 0 /\ Rows' = Rows
  BY ScreenFacts DEF CursorInv, TypeOK, WholeLines, Rows
<1>2. k \in Nat
  BY <1>1, DivMod
<1>3. \A p \in Rows : p \in Nat /\ p < h
  BY <1>1 DEF Rows
<1>4. \A p \in Rows : p \div c \in Nat
  BY <1>1, <1>3, DivMod
<1>5. line' = line + 1
  BY DEF move_tty_cursor_down
<1>6. CASE AtBottom
  <2>1. y' = y /\ ink' = Scrolled(shown) /\ y + 2 * c = h
    BY <1>1, <1>6 DEF move_tty_cursor_down, AtBottom
  <2>2. ASSUME NEW p \in Rows
        PROVE  ink'[p] \subseteq IF p >= y' + c THEN {} ELSE {line' - k + (p \div c)}
    <3>1. CASE p + c < h
      <4>1. p + c \in Rows /\ p \in Nat /\ p + c \in Nat
        BY <1>1, <1>3, <3>1 DEF Rows
      <4>2. ink'[p] = shown[p + c]
        BY <2>1, <3>1 DEF Scrolled
      <4>3. (p + c) \div c = (p \div c) + 1
        BY <1>1, <4>1, DivStep
      <4>4. shown[p + c] \subseteq IF p + c >= y + c THEN {} ELSE {line - k + ((p + c) \div c)}
        BY <4>1 DEF Shows, LineAt
      <4>7. CASE p + c >= y + c
        BY <4>2, <4>4, <4>7
      <4>8. CASE ~(p + c >= y + c)
        <5>1. ~(p >= y' + c)
          BY <1>1, <2>1, <4>1, <4>8
        <5>2. line - k + ((p + c) \div c) = line' - k + (p \div c)
          BY <1>1, <1>2, <1>4, <1>5, <4>3
        <5> QED
          BY <4>2, <4>4, <4>8, <5>1, <5>2
      <4> QED
        BY <4>7, <4>8
    <3>2. CASE ~(p + c < h)
      <4>1. p >= y + c
        BY <1>1, <1>3, <2>1, <3>2
      <4>2. ink'[p] = shown[p]
        BY <2>1, <3>2 DEF Scrolled
      <4>3. shown[p] = {}
        BY <4>1 DEF Shows
      <4> QED
        BY <4>2, <4>3
    <3> QED
      BY <3>1, <3>2
  <2>3. Shows(ink)'
    BY <1>1, <2>1, <2>2 DEF Shows, LineAt
  <2> QED
    BY <1>1, <2>1, <2>3
<1>7. CASE ~AtBottom
  <2>1. y' = y + c /\ ink' = shown /\ y + 2 * c < h
    BY <1>1, <1>7 DEF move_tty_cursor_down, AtBottom
  <2>2. (y + c) \div c = k + 1 /\ (y + c) % c = 0
    BY <1>1, DivStep
  <2>3. (y + 2 * c) % c = 0 /\ y + 2 * c \in Nat
    <3>1. ((y + c) + c) % c = (y + c) % c
      <4>1. y + c \in Nat
        BY <1>1
      <4> QED
        BY <1>1, <4>1, DivStep
    <3>2. (y + c) + c = y + 2 * c
      BY <1>1
    <3> QED
      BY <1>1, <2>2, <3>1, <3>2
  <2>4. (y + 2 * c) + c <= h
    BY <1>1, <2>1, <2>3, MultipleGap
  <2>5. ASSUME NEW p \in Rows
        PROVE  ink'[p] \subseteq IF p >= y' + c THEN {} ELSE {line' - (k + 1) + (p \div c)}
    <3>1. line - k + (p \div c) = (line + 1) - (k + 1) + (p \div c)
      BY <1>1, <1>2, <1>4
    <3>2. shown[p] \subseteq IF p >= y + c THEN {} ELSE {line - k + (p \div c)}
      BY DEF Shows, LineAt
    <3>3. p >= y' + c => p >= y + c
      BY <1>1, <1>3, <2>1
    <3>4. CASE p >= y + c
      BY <2>1, <3>2, <3>4
    <3>5. CASE ~(p >= y + c)
      BY <1>5, <2>1, <3>1, <3>2, <3>3, <3>5
    <3> QED
      BY <3>4, <3>5
  <2>6. Shows(ink)'
    BY <1>1, <2>1, <2>2, <2>5 DEF Shows, LineAt
  <2>7. y' + 2 * c <= h
    BY <1>1, <2>1, <2>4
  <2> QED
    BY <2>1, <2>2, <2>6, <2>7
<1> QED
  BY <1>6, <1>7

\* A glyph inks the cursor's row with the current line.
LEMMA PutCharShows ==
  ASSUME CursorInv, y % fb.charsize = 0, Shows(ink)
  PROVE  Shows(put_char(ink))
<1> DEFINE c == fb.charsize
<1>1. c \in Nat /\ c > 0 /\ y \in Nat /\ line \in Nat /\ fb.height \in Nat /\ y \div c \in Nat
  BY ScreenFacts, DivMod DEF CursorInv, TypeOK
<1> SUFFICES ASSUME NEW p \in Rows
             PROVE  put_char(ink)[p] \subseteq IF p >= y + c THEN {} ELSE {LineAt(p)}
  BY DEF Shows
<1>2. p \in Nat /\ ink[p] \subseteq IF p >= y + c THEN {} ELSE {LineAt(p)}
  BY <1>1 DEF Rows, Shows
<1>3. CASE y <= p /\ p < y + c
  <2>1. p \div c = y \div c
    BY <1>1, <1>2, <1>3, DivSame
  <2>2. LineAt(p) = line
    BY <1>1, <2>1 DEF LineAt
  <2>3. put_char(ink)[p] = ink[p] \cup {line} /\ ~(p >= y + c)
    BY <1>1, <1>2, <1>3 DEF put_char
  <2> QED
    BY <1>2, <2>2, <2>3
<1>4. CASE ~(y <= p /\ p < y + c)
  BY <1>2, <1>4 DEF put_char
<1> QED
  BY <1>3, <1>4

LEMMA AdvanceWindow ==
  ASSUME CursorInv, CursorInv', WholeLines, y % fb.charsize = 0,
         y + 2 * fb.charsize <= fb.height,
         NEW shown \in [Rows -> SUBSET (0 .. MAXLINES)], Shows(shown),
         Advance(shown), fb' = fb
  PROVE  /\ y' % fb.charsize = 0 /\ y' + 2 * fb.charsize <= fb.height
         /\ Shows(ink)'
<1>1. CASE x + 9 + 9 > fb.width
  BY <1>1, DownWindow DEF Advance
<1>2. CASE ~(x + 9 + 9 > fb.width)
  BY <1>2 DEF Advance, Shows, LineAt, Rows
<1> QED
  BY <1>1, <1>2

\* WindowInv is an invariant of the console.
THEOREM WindowInvariant == Spec => []WindowInv
<1>1. Init /\ CursorInv => WindowInv
  <2> SUFFICES ASSUME Init, CursorInv PROVE WindowInv
    OBVIOUS
  <2>1. fb.charsize \in Nat /\ fb.charsize > 0 /\ fb.height \in Nat
    BY ScreenFacts DEF CursorInv, TypeOK
  <2>2. y = 0 /\ y % fb.charsize = 0
    BY <2>1 DEF Init
  <2> QED
    BY <2>1, <2>2 DEF Init, WindowInv, WholeLines, Shows, Blank
<1>2. WindowInv /\ CursorInv' /\ [Next]_vars => WindowInv'
  <2> SUFFICES ASSUME WindowInv, CursorInv', [Next]_vars, WholeLines'
               PROVE  /\ y' % fb'.charsize = 0
                      /\ y' + 2 * fb'.charsize <= fb'.height
                      /\ Shows(ink)'
    BY DEF WindowInv
  <2>1. fb' = fb /\ WholeLines /\ Rows' = Rows
    BY DEF Next, Char, Tab, Newline, Clear, vars, WholeLines, Rows
  <2>2. /\ CursorInv /\ y % fb.charsize = 0 /\ y + 2 * fb.charsize <= fb.height
        /\ Shows(ink) /\ ink \in [Rows -> SUBSET (0 .. MAXLINES)]
        /\ put_char(ink) \in [Rows -> SUBSET (0 .. MAXLINES)]
    BY <2>1, PutCharType DEF WindowInv, CursorInv, TypeOK
  <2>3. CASE Char
    BY <2>1, <2>2, <2>3, PutCharShows, AdvanceWindow DEF Char
  <2>4. CASE Tab
    BY <2>1, <2>2, <2>4, AdvanceWindow DEF Tab
  <2>5. CASE Newline
    BY <2>1, <2>2, <2>5, DownWindow DEF Newline
  <2>6. CASE \E reset_cursor \in BOOLEAN : Clear(reset_cursor)
    <3>1. PICK reset_cursor \in BOOLEAN : Clear(reset_cursor)
      BY <2>6
    <3>2. fb.charsize \in Nat /\ fb.charsize > 0 /\ fb.height \in Nat
      BY <2>2, ScreenFacts DEF CursorInv, TypeOK
    <3>3. 0 % fb.charsize = 0 /\ 0 + 2 * fb.charsize <= fb.height
      BY <2>1, <3>2 DEF WholeLines
    <3>4. y' = 0 \/ y' = y
      BY <3>1 DEF Clear
    <3>5. Shows(ink)'
      BY <2>1, <3>1 DEF Clear, Shows, Blank
    <3> QED
      BY <2>1, <2>2, <3>3, <3>4, <3>5
  <2>7. CASE UNCHANGED vars
    BY <2>1, <2>2, <2>7 DEF vars, Shows, LineAt
  <2> QED
    BY <2>3, <2>4, <2>5, <2>6, <2>7 DEF Next
<1> QED
  BY <1>1, <1>2, CursorInvariant, PTL DEF Spec

\* On a screen of whole lines the console shows the last lines, each in its own
\* row, with nothing below the cursor's.
THEOREM WindowOfLines == Spec => []Window
<1>1. WindowInv => Window
  BY DEF WindowInv, Window, Shows, LineAt
<1> QED
  BY <1>1, WindowInvariant, PTL

=============================================================================
