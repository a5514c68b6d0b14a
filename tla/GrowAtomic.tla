----------------------------- MODULE GrowAtomic -----------------------------
(***************************************************************************)
(* What the callers of grow_heap rely on: each call is given, in one step,  *)
(* the region that begins where the one before it ended.                    *)
(***************************************************************************)
EXTENDS Integers, Sequences

CONSTANTS KHEAPSTART, Sizes, PAGE

VARIABLES end, granted

Init ==
  /\ end = KHEAPSTART
  /\ granted = << >>

Grow(n) ==
  /\ granted' = Append(granted, [start |-> end, size |-> n])
  /\ end' = end + n * PAGE

Next == \E n \in Sizes : Grow(n)

Spec == Init /\ [][Next]_<<end, granted>>

=============================================================================
