--------------------------------- MODULE Tty ---------------------------------
(***************************************************************************)
(* The text console, drivers/vga/framebuffer.c: a cursor in pixels over the *)
(* frame buffer kmain took from the boot loader.  tty_print is one action   *)
(* per character of the string.                                             *)
(*                                                                          *)
(* Of the pixels the model keeps which text lines have left ink in each     *)
(* pixel row (ink): what a scroll moves, and what it forgets, are whole      *)
(* pixel rows.  Lines are numbered as the cursor begins them.               *)
(***************************************************************************)
EXTENDS Integers

CONSTANTS
  Screens,   \* [width, height, pixels_per_scan_line, charsize]: boot loader and font
  MAXLINES   \* bound: lines begun

\* A screen has room for a glyph and the gap behind it; the pitch is at least the width.
ASSUME ScreenAssumption ==
  /\ MAXLINES \in Nat
  /\ \A s \in Screens :
       /\ s.charsize \in Nat \ {0}
       /\ s.height \in Nat /\ s.height >= s.charsize
       /\ s.width \in Nat /\ s.width >= 9
       /\ s.pixels_per_scan_line \in Nat /\ s.pixels_per_scan_line >= s.width

VARIABLES
  fb,     \* the frame buffer and the font
  x, y,   \* cursor_position
  ink,    \* pixel row -> lines with pixels in it
  line    \* lines begun so far

vars == <<fb, x, y, ink, line>>

Rows == 0 .. fb.height - 1
Blank == [p \in Rows |-> {}]

\* init_tty_renderer, then tty_clear(BGREEN, true) as in kernel_init.
Init ==
  /\ fb \in Screens
  /\ x = 0 /\ y = 0
  /\ ink = Blank
  /\ line = 0

\* The bottom line is reached one line before the bottom.
AtBottom == y + fb.charsize >= fb.height - fb.charsize

\* memmove of all pixel rows but the first charsize ones to the top; the last
\* charsize rows keep what they show.
Scrolled(shown) ==
  [p \in Rows |-> IF p + fb.charsize < fb.height THEN shown[p + fb.charsize] ELSE shown[p]]

\* Mutants of move_tty_cursor_down: it scrolls only when the cursor is past the
\* last row; the scroll leaves the pixels where they are.
CursorDownLate(shown) ==
  /\ line' = line + 1
  /\ x' = 0
  /\ IF y + fb.charsize > fb.height
     THEN ink' = Scrolled(shown) /\ y' = y
     ELSE ink' = shown /\ y' = y + fb.charsize

CursorDownStill(shown) ==
  /\ line' = line + 1
  /\ x' = 0
  /\ ink' = shown
  /\ y' = IF AtBottom THEN y ELSE y + fb.charsize

\* With the pixels shown at the time.  Callers have set x to 0; the scroll
\* branch leaves it so.
move_tty_cursor_down(shown) ==
  /\ line' = line + 1
  /\ x' = 0
  /\ IF AtBottom
     THEN ink' = Scrolled(shown) /\ y' = y
     ELSE ink' = shown /\ y' = y + fb.charsize

\* Mutant of put_char: it draws one pixel row too many.
PutTall(shown) ==
  [p \in Rows \cup {y + fb.charsize} |->
     IF y <= p /\ p < y + fb.charsize THEN shown[p] \cup {line}
     ELSE IF p = y + fb.charsize THEN {line} ELSE shown[p]]

put_char(shown) ==
  [p \in Rows |-> IF y <= p /\ p < y + fb.charsize THEN shown[p] \cup {line} ELSE shown[p]]

\* A step of 9 pixels, and the wrap at the end of the loop of tty_print.
Advance(shown) ==
  IF x + 9 + 9 > fb.width THEN move_tty_cursor_down(shown)
  ELSE /\ ink' = shown /\ x' = x + 9
       /\ UNCHANGED <<y, line>>

Char ==
  /\ line < MAXLINES
  /\ Advance(put_char(ink))
  /\ UNCHANGED fb

Tab ==
  /\ line < MAXLINES
  /\ Advance(ink)
  /\ UNCHANGED fb

\* The wrap test of the loop then finds x = 0: width >= 9.
Newline ==
  /\ line < MAXLINES
  /\ move_tty_cursor_down(ink)
  /\ UNCHANGED fb

Clear(reset_cursor) ==
  /\ ink' = Blank
  /\ IF reset_cursor THEN x' = 0 /\ y' = 0 ELSE UNCHANGED <<x, y>>
  /\ UNCHANGED <<fb, line>>

Next ==
  \/ Char
  \/ Tab
  \/ Newline
  \/ \E reset_cursor \in BOOLEAN : Clear(reset_cursor)

Spec == Init /\ [][Next]_vars

-----------------------------------------------------------------------------

\* Type invariant.
TypeOK ==
  /\ fb \in Screens
  /\ x \in Nat /\ y \in Nat
  /\ ink \in [Rows -> SUBSET (0 .. MAXLINES)]
  /\ line \in 0 .. MAXLINES

\* Wherever the cursor is, a glyph that put_char draws there lies inside the
\* frame buffer, whatever the size of the screen and of the font.
InBounds == x + 8 <= fb.pixels_per_scan_line /\ y + fb.charsize <= fb.height

\* The screen is a whole number of text lines, at least two.
WholeLines == fb.height % fb.charsize = 0 /\ fb.height >= 2 * fb.charsize

\* On such a screen the console shows the last lines, each in its own row: the
\* row k rows above the cursor holds the line begun k lines ago and no other,
\* and the rows below the cursor's are empty.
Window ==
  WholeLines =>
    /\ y % fb.charsize = 0
    /\ \A p \in Rows :
         ink[p] \subseteq IF p >= y + fb.charsize THEN {}
                          ELSE {line - (y \div fb.charsize) + (p \div fb.charsize)}

=============================================================================
