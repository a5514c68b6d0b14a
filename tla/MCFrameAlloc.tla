---------------------------- MODULE MCFrameAlloc ----------------------------
(***************************************************************************)
(* FrameAlloc on the region sizes around the caps of add_frame_region, and  *)
(* the mutants of its operations.                                           *)
(***************************************************************************)
EXTENDS FrameAlloc

\* No page, one page, three pages and a ragged end, and more pages than the
\* caps let in.
SomeRegions == {[base |-> 65536, length |-> n] : n \in {0, 4096, 12300, 501 * 4096}}

=============================================================================
