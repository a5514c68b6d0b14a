-------------------------------- MODULE Paging --------------------------------
(***************************************************************************)
(* arch/paging/paging.c as operators on a record s with fields              *)
(*   mem    the words of the free-frame list (module FrameList),            *)
(*   phys   what each frame of RAM holds when it is read as a page table,   *)
(*   at     the table a walk has reached, or the result of the operation.   *)
(* Null in at is the C NULL; Fault is the exception that an access outside  *)
(* RAM raises: isr_exception_handler halts the machine.                     *)
(*                                                                          *)
(* Tables are addressed by their physical address: PHYSICAL_ADDRESS_OFFSET  *)
(* is added by phys_to_virt_translation on every access and cancels out.    *)
(* Entries keep the encoding of the code: a frame address with the          *)
(* attribute bits PAGE_PRESENT | PAGE_RW in the low bits.                   *)
(***************************************************************************)
EXTENDS FrameList

CONSTANTS
  RAM,      \* the frames that exist: the managed region and the boot tables
  CR3,      \* physical address of the active PML4
  FANOUT    \* entries of a page table, 512 in the code

ASSUME PagingAssumption ==
  /\ RAM \subseteq {f \in 1 .. LIST - 4097 : f % 4096 = 0}
  /\ CR3 \in RAM
  /\ FANOUT \in Nat /\ FANOUT > 0

Fault == -1
Stopped == {Null, Fault}

Idx == 0 .. FANOUT - 1
EmptyTable == [i \in Idx |-> 0]

create_basic_page_attributes == 3
is_page_table_present(e) == e % 2 = 1
page_table_phys_address(e) == e - (e % 4096)

\* (frame & PAGE_ADDR_MASK) | create_basic_page_attributes()
Entry(frame) == frame - (frame % 4096) + create_basic_page_attributes

calculate_pt_indices(addr) ==
  LET p == addr \div 4096 IN
  [pgd |-> (p \div (FANOUT * FANOUT * FANOUT)) % FANOUT,
   pud |-> (p \div (FANOUT * FANOUT)) % FANOUT,
   pmd |-> (p \div FANOUT) % FANOUT,
   pt  |-> p % FANOUT]

\* Mutant of create_new_page_table: the new table is not cleared.
NewTableDirty(s) ==
  LET r == pop_frame_list(s.mem) IN
  [s EXCEPT !.mem = r.mem, !.at = IF r.ret = Null \/ r.ret \in RAM THEN r.ret ELSE Fault]

\* A popped address outside RAM faults in the memset.
create_new_page_table(s) ==
  LET r == pop_frame_list(s.mem) IN
  CASE r.ret = Null   -> [s EXCEPT !.mem = r.mem, !.at = Null]
    [] r.ret \in RAM  -> [mem  |-> r.mem,
                          phys |-> [s.phys EXCEPT ![r.ret] = EmptyTable],
                          at   |-> r.ret]
    [] OTHER          -> [s EXCEPT !.mem = r.mem, !.at = Fault]

\* Mutant of ChildTable: a new table is not linked to its parent.
ChildUnlinked(s, i) ==
  IF s.at \in Stopped THEN s
  ELSE IF is_page_table_present(s.phys[s.at][i])
  THEN [s EXCEPT !.at = page_table_phys_address(s.phys[s.at][i])]
  ELSE create_new_page_table(s)

\* One level of map_to_page: the child table of entry i of table s.at, created
\* and linked when the entry is not present.  A level that failed ends the walk
\* and leaves the tables created above it linked.
ChildTable(s, i) ==
  IF s.at \in Stopped THEN s
  ELSE IF is_page_table_present(s.phys[s.at][i])
  THEN [s EXCEPT !.at = page_table_phys_address(s.phys[s.at][i])]
  ELSE LET c == create_new_page_table(s) IN
       IF c.at \in Stopped THEN c
       ELSE [c EXCEPT !.phys[s.at][i] = Entry(c.at)]

\* Called with pml4VirtAddress = NULL: the walk starts at CR3.
map_to_page(s, addr, frame) ==
  LET ix == calculate_pt_indices(addr)
      t  == ChildTable(ChildTable(ChildTable([s EXCEPT !.at = CR3],
                                             ix.pgd), ix.pud), ix.pmd)
  IN  IF t.at \in Stopped THEN t
      ELSE [t EXCEPT !.phys[t.at][ix.pt] = Entry(frame), !.at = addr]

\* fetch_page_table_entry: the walk of map_to_page without creating anything.
Descend(phys, t, i) ==
  IF t = Null \/ ~is_page_table_present(phys[t][i]) THEN Null
  ELSE page_table_phys_address(phys[t][i])

LeafTable(phys, addr) ==
  LET ix == calculate_pt_indices(addr) IN
  Descend(phys, Descend(phys, Descend(phys, CR3, ix.pgd), ix.pud), ix.pmd)

\* The frame the page of addr is mapped to, Null when it is not mapped.
Translate(phys, addr) ==
  Descend(phys, LeafTable(phys, addr), calculate_pt_indices(addr).pt)

\* Mutant of unmap_page: the whole leaf table is cleared.
UnmapTable(phys, addr) ==
  [ret  |-> Null,
   phys |-> IF Translate(phys, addr) = Null THEN phys
            ELSE [phys EXCEPT ![LeafTable(phys, addr)] = EmptyTable]]

\* Mutant of unmap_page: the frame is returned, the TLB not flushed.
UnmapNoFlush(phys, addr) ==
  [ret  |-> Translate(phys, addr),
   phys |-> IF Translate(phys, addr) = Null THEN phys
            ELSE [phys EXCEPT ![LeafTable(phys, addr)]
                                [calculate_pt_indices(addr).pt] = 0]]

\* Clears the entry of a mapped page.  Every path returns NULL.
unmap_page(phys, addr) ==
  [ret  |-> Null,
   phys |-> IF Translate(phys, addr) = Null THEN phys
            ELSE [phys EXCEPT ![LeafTable(phys, addr)]
                                [calculate_pt_indices(addr).pt] = 0]]

=============================================================================
