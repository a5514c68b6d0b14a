------------------------------- MODULE MCVmm -------------------------------
(***************************************************************************)
(* Vmm with two-entry page tables (16 pages), six frames on the list and a  *)
(* kernel image of one page, whose end is page aligned or not.  The heap    *)
(* starts inside a table the boot loader made and grows across the           *)
(* boundaries at which one, two and three new tables are needed.            *)
(***************************************************************************)
EXTENDS Vmm

P(n) == 4096 * n

MCRegion == {P(n) : n \in 10 .. 15}
BootTables == {P(n) : n \in 1 .. 5}       \* PML4, PUD, PMD, PT, image page
MCRAM == MCRegion \cup BootTables

\* Entries of a frame that was never cleared look present.
MCJunk == [i \in Idx |-> P(10) + 3]

\* The image page is page 2; it lies at table indices 0, 0, 1, 0.
MCBootPhys ==
  [f \in BootTables |->
     CASE f = P(1) -> [i \in Idx |-> IF i = 0 THEN P(2) + 3 ELSE 0]
       [] f = P(2) -> [i \in Idx |-> IF i = 0 THEN P(3) + 3 ELSE 0]
       [] f = P(3) -> [i \in Idx |-> IF i = 1 THEN P(4) + 3 ELSE 0]
       [] f = P(4) -> [i \in Idx |-> IF i = 0 THEN P(5) + 3 ELSE 0]
       [] f = P(5) -> [i \in Idx |-> 7]]

MCBootLayouts ==
  {[kheapstart |-> P(3),       phys |-> MCBootPhys],
   [kheapstart |-> P(2) + 100, phys |-> MCBootPhys]}

=============================================================================
