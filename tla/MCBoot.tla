------------------------------- MODULE MCBoot -------------------------------
(***************************************************************************)
(* Boot with every single answer missing or none, memory maps in which the  *)
(* region is the second entry, a later one, too small or not there, with the *)
(* page at virtAddr unused or holding the list, a frame of it or the loader's *)
(* data, and from none to all of the tables missing.                        *)
(***************************************************************************)
EXTENDS Boot

SomeAnswers == {AllAnswers} \cup {AllAnswers \ {a} : a \in AllAnswers}

P(n) == 4096 * n
E(b, n, t) == [base |-> P(b), length |-> P(n), type |-> t]

SomeMaps ==
  {<<E(1, 150, "usable"), E(256, 501, "usable")>>,
   <<E(1, 150, "usable"), E(200, 5, "usable"), E(256, 501, "usable"), E(1000, 900, "usable")>>,
   <<E(1, 600, "usable"), E(1000, 700, "reserved"), E(2000, 501, "usable")>>,
   <<E(1, 600, "usable"), E(1000, 700, "reclaimable"), E(2000, 501, "usable")>>,
   <<E(1, 150, "kernel"), E(256, 700, "usable"), E(1000, 500, "usable")>>,
   <<E(1, 139, "usable"), E(140, 5, "usable"), E(256, 501, "usable")>>,
   <<E(1, 100, "usable"), E(136, 600, "usable")>>}

SomeMissing == [virt : {0, 3}, heap : {0, 2}]

\* Aligned; with the headers or the first block across the page's end; unaligned,
\* with none or one of the kernel's variables before the end.
SomeEnds == [kend : {0, 3950, 4000}, tail : {{}}]
       \cup [kend : {100}, tail : {{}, {"vmm"}, {"r"}, {"kheap_spinlock"}}]

=============================================================================
