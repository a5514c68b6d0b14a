-------------------------------- MODULE MCTty --------------------------------
(***************************************************************************)
(* Tty with a font of 4 pixel rows, on screens of two to four text lines:   *)
(* a whole number of them, or with pixel rows left over, or one line only;  *)
(* and of one to three columns.                                             *)
(***************************************************************************)
EXTENDS Tty

Screen(w, h) == [width |-> w, height |-> h, pixels_per_scan_line |-> w + 1, charsize |-> 4]

SomeScreens == {Screen(w, h) : w \in {9, 20, 27}, h \in {4, 8, 12, 16} \cup {6, 10, 15}}

\* 1080 pixel rows and a font of 16 in small: the last line is half a line high.
HalfLine == {Screen(20, 10)}

=============================================================================
