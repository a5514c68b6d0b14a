----------------------------- MODULE MCHeapLock -----------------------------
(***************************************************************************)
(* Three cores, calls for one page and for several, and every pointer that a *)
(* waiting core may have in rax.                                            *)
(***************************************************************************)
EXTENDS HeapLock

ThreeCores == {"c0", "c1", "c2"}
HeapStart == 8192

=============================================================================
