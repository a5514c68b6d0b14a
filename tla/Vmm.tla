--------------------------------- MODULE Vmm ---------------------------------
(***************************************************************************)
(* The virtual memory manager, memory/vmm.c, over the frame list and the    *)
(* page tables, with grow_heap of memory/heap.c: what kmalloc's buckets are *)
(* made of.  mmap and munmap are one action per loop iteration.             *)
(*                                                                          *)
(* A fault halts the machine (isr_exception_handler never returns).         *)
(***************************************************************************)
EXTENDS Paging, FiniteSets

CONSTANTS
  Region,      \* frames on the list when init_vmm runs
  JunkTable,   \* what a frame nobody has cleared holds
  BootLayouts, \* [kheapstart, phys]: values of &kEnd and the boot loader's tables
  Sizes,       \* page counts create_bucket asks mmap for
  MAXHEAP,     \* bound: address the model's heap may grow to
  NULLCALLS    \* bound: calls of alloc_page with a NULL address

\* The pages of the address space: four levels of tables.
Pages == {4096 * p : p \in 0 .. FANOUT * FANOUT * FANOUT * FANOUT - 1}

\* RAM when init_vmm runs.
BootRam(b) == [f \in RAM |-> IF f \in Region THEN JunkTable ELSE b.phys[f]]

\* The present entries of the tables T, what they lead to, and the tables of each
\* level of the tree under CR3.
Present(p, T) == {q \in T \X Idx : is_page_table_present(p[q[1]][q[2]])}
Target(p, q) == page_table_phys_address(p[q[1]][q[2]])
Children(p, T) == {Target(p, q) : q \in Present(p, T)}
Puds(p) == Children(p, {CR3})
Pmds(p) == Children(p, Puds(p))
Pts(p) == Children(p, Pmds(p))
Tables(p) == {CR3} \cup Puds(p) \cup Pmds(p) \cup Pts(p)
Mapped(p) == Children(p, Pts(p))

\* No two present entries lead to the same address, and none leads back to the root.
Tree(p) ==
  /\ \A q, r \in Present(p, Tables(p)) : Target(p, q) = Target(p, r) => q = r
  /\ CR3 \notin Children(p, Tables(p))

\* The boot loader's tables are a tree that uses no frame of the region and maps
\* nothing above the kernel image.  Its mapping of all of RAM at
\* PHYSICAL_ADDRESS_OFFSET is left out: no operation reads or changes it.
ASSUME VmmAssumption ==
  /\ Region \subseteq RAM \ {CR3}
  /\ IsFiniteSet(Region) /\ Cardinality(Region) \in 1 .. SLOTS
  /\ JunkTable \in [Idx -> Nat]
  /\ Sizes \subseteq Nat \ {0}
  /\ MAXHEAP \in Nat /\ NULLCALLS \in Nat
  /\ MAXHEAP <= 4096 * (FANOUT * FANOUT * FANOUT * FANOUT)
  /\ \A b \in BootLayouts :
       /\ b.kheapstart \in 1 .. MAXHEAP - 1
       /\ BootRam(b) \in [RAM -> [Idx -> Nat]]
       /\ Tree(BootRam(b))
       /\ Children(BootRam(b), Tables(BootRam(b))) \subseteq RAM \ Region
       /\ \A a \in Pages : a >= b.kheapstart => Translate(BootRam(b), a) = Null

VARIABLES
  KHEAPSTART,  \* &kEnd, fixed by the link
  K_HEAP_END,
  mem, phys,   \* frame list and RAM
  loop,        \* the loop of mmap or munmap that is running
  ret,         \* result of the last operation
  halted,      \* an exception has stopped the machine
  live,        \* regions mmap returned and munmap has not taken back
  boot,        \* the boot loader's phys, to compare with
  tlb,         \* translations, <<page, frame>>, that the TLB may hold
  leaks,       \* frames given up by remapping, unmapping or a failed mapping
  nulls        \* calls of alloc_page(NULL) so far

vars == <<KHEAPSTART, K_HEAP_END, mem, phys, loop, ret, halted, live, boot,
          tlb, leaks, nulls>>

Idle == [op |-> "idle"]

\* numFrames has gone below zero: a pop has found the list empty.
Spent(m) == m[NUMFRAMES] > SLOTS

PageOf(addr) == addr - (addr % 4096)

\* The list add_frame_region leaves: the frames of the region in some order.
FilledList(order) ==
  LET n == Cardinality(Region) IN
  [w \in Words |->
     CASE w = HEAD      -> Slot(n)
       [] w = NEXTFREE  -> Slot(n - 1)
       [] w = NUMFRAMES -> n
       [] OTHER -> IF (w - Slot(0)) \div 8 < n THEN order[(w - Slot(0)) \div 8] ELSE 0]

\* Mutant of alloc_page: the popped frame is not tested.
AllocUnchecked(s, addr) ==
  LET r == pop_frame_list(s.mem) IN
  IF addr = Null THEN [s EXCEPT !.mem = r.mem, !.at = Null]
  ELSE map_to_page([s EXCEPT !.mem = r.mem], addr, r.ret)

\* Pops a frame first; with no address the frame is dropped, and so it is when
\* map_to_page cannot allocate a table.
alloc_page(s, addr) ==
  LET r == pop_frame_list(s.mem) IN
  IF r.ret = Null \/ addr = Null
  THEN [s EXCEPT !.mem = r.mem, !.at = Null]
  ELSE map_to_page([s EXCEPT !.mem = r.mem], addr, r.ret)

\* How many frames of the region alloc_page(s, addr) = t leaves unreachable:
\* the one popped for a mapping that failed, the one a new mapping replaced.
Dropped(s, t, addr) ==
  IF t.at \in Stopped
  THEN IF pop_frame_list(s.mem).ret \in Region THEN 1 ELSE 0
  ELSE IF Translate(s.phys, addr) \in Region THEN 1 ELSE 0

\* The TLB may take in every translation of the tables, and keeps it: the kernel
\* neither reloads CR3 nor executes invlpg (external).
Translations(p) == {<<a, Translate(p, a)>> : a \in {b \in Pages : Translate(p, b) # Null}}

State == [mem |-> mem, phys |-> phys, at |-> Null]

AllocAt(addr) ==
  LET t == alloc_page(State, addr) IN
  /\ mem' = t.mem
  /\ phys' = t.phys
  /\ tlb' = tlb \cup Translations(t.phys)
  /\ ret' = t.at
  /\ halted' = (t.at = Fault)
  /\ leaks' = leaks + Dropped(State, t, addr)

Init ==
  /\ \E b \in BootLayouts :
       /\ KHEAPSTART = b.kheapstart
       /\ phys = BootRam(b)
       /\ boot = phys
       /\ tlb = Translations(phys)
  /\ K_HEAP_END = KHEAPSTART   \* init_heap
  /\ \E order \in [0 .. Cardinality(Region) - 1 -> Region] :
       /\ \A i, j \in DOMAIN order : i < j => order[i] < order[j]
       /\ mem = FilledList(order)
  /\ loop = [op |-> "init"]
  /\ ret = Null
  /\ halted = FALSE
  /\ live = {}
  /\ leaks = 0
  /\ nulls = 0

\* init_vmm maps the first heap page itself.
InitVmm ==
  /\ ~halted /\ loop.op = "init"
  /\ AllocAt(KHEAPSTART)
  /\ loop' = Idle
  /\ UNCHANGED <<KHEAPSTART, K_HEAP_END, live, boot, nulls>>

\* Mutant of Mmap: grow_heap does not move K_HEAP_END.
MmapNoGrow(n) ==
  /\ ~halted /\ loop = Idle
  /\ K_HEAP_END + n * 4096 <= MAXHEAP
  /\ loop' = [op |-> "mmap", addr |-> K_HEAP_END, start |-> K_HEAP_END, size |-> n]
  /\ UNCHANGED <<KHEAPSTART, K_HEAP_END, mem, phys, ret, halted, live, boot, tlb, leaks, nulls>>

\* grow_heap(n), then the loop for (addr = start; addr < start + n; addr += 0x1000).
Mmap(n) ==
  /\ ~halted /\ loop = Idle
  /\ K_HEAP_END + n * 4096 <= MAXHEAP
  /\ K_HEAP_END' = K_HEAP_END + n * 4096
  /\ loop' = [op |-> "mmap", addr |-> K_HEAP_END, start |-> K_HEAP_END, size |-> n]
  /\ UNCHANGED <<KHEAPSTART, mem, phys, ret, halted, live, boot, tlb, leaks, nulls>>

MmapPage ==
  /\ ~halted /\ loop.op = "mmap"
  /\ loop.addr < loop.start + loop.size
  /\ AllocAt(loop.addr)
  /\ loop' = [loop EXCEPT !.addr = @ + 4096]
  /\ UNCHANGED <<KHEAPSTART, K_HEAP_END, live, boot, nulls>>

\* The result is the start of the region whatever alloc_page answered.
MmapReturn ==
  /\ ~halted /\ loop.op = "mmap"
  /\ loop.addr >= loop.start + loop.size
  /\ ret' = loop.start
  /\ live' = live \cup {[start |-> loop.start, size |-> loop.size,
                         frame |-> Translate(phys, loop.start)]}
  /\ loop' = Idle
  /\ UNCHANGED <<KHEAPSTART, K_HEAP_END, mem, phys, halted, boot, tlb, leaks, nulls>>

\* remove_bucket never unmaps the bucket at KHEAPSTART.
Munmap(r) ==
  /\ ~halted /\ loop = Idle
  /\ r.start # KHEAPSTART
  /\ live' = live \ {r}
  /\ loop' = [op |-> "munmap", addr |-> r.start, start |-> r.start, size |-> r.size]
  /\ UNCHANGED <<KHEAPSTART, K_HEAP_END, mem, phys, ret, halted, boot, tlb, leaks, nulls>>

MunmapPage ==
  LET u == unmap_page(phys, loop.addr) IN
  /\ ~halted /\ loop.op = "munmap"
  /\ loop.addr < loop.start + loop.size
  /\ phys' = u.phys
  /\ tlb' = tlb \cup Translations(u.phys)
  /\ ret' = u.ret
  /\ mem' = IF u.ret # Null THEN push_frame_list(mem, u.ret) ELSE mem
  /\ leaks' = leaks + (IF u.ret = Null /\ Translate(phys, loop.addr) \in Region
                       THEN 1 ELSE 0)
  /\ loop' = [loop EXCEPT !.addr = @ + 4096]
  /\ UNCHANGED <<KHEAPSTART, K_HEAP_END, halted, live, boot, nulls>>

MunmapReturn ==
  /\ ~halted /\ loop.op = "munmap"
  /\ loop.addr >= loop.start + loop.size
  /\ loop' = Idle
  /\ UNCHANGED <<KHEAPSTART, K_HEAP_END, mem, phys, ret, halted, live, boot, tlb, leaks, nulls>>

\* alloc_page is public: vmm.h allows a NULL address.
AllocPageNull ==
  /\ ~halted /\ loop = Idle
  /\ nulls < NULLCALLS
  /\ nulls' = nulls + 1
  /\ AllocAt(Null)
  /\ UNCHANGED <<KHEAPSTART, K_HEAP_END, loop, live, boot>>

Next ==
  \/ InitVmm
  \/ \E n \in Sizes : Mmap(n)
  \/ MmapPage
  \/ MmapReturn
  \/ \E r \in live : Munmap(r)
  \/ MunmapPage
  \/ MunmapReturn
  \/ AllocPageNull

Spec == Init /\ [][Next]_vars

-----------------------------------------------------------------------------

FreeFrames(m) == IF Spent(m) THEN {} ELSE {m[Slot(i)] : i \in 0 .. m[NUMFRAMES] - 1}

\* Type invariant.
TypeOK ==
  /\ KHEAPSTART \in Nat /\ K_HEAP_END \in Nat
  /\ mem \in [Words -> Nat]
  /\ phys \in [RAM -> [Idx -> Nat]]
  /\ loop.op \in {"init", "idle", "mmap", "munmap"}
  /\ ret \in Nat \cup {Fault}
  /\ halted \in BOOLEAN
  /\ leaks \in Nat /\ nulls \in 0 .. NULLCALLS

\* No frame serves two purposes: every present entry of every page table leads
\* to an address of its own, so that no frame is a table twice, a table and a
\* mapped page, or mapped by two pages; none of them is on the free list, and
\* none is the PML4.
OneUse ==
  /\ Tree(phys)
  /\ Children(phys, Tables(phys)) \cap FreeFrames(mem) = {}

\* The address that an exhausted list hands out by mistake never becomes a page
\* table: an operation ends at its first NULL, so the bogus pop is always the
\* data page of the next alloc_page.  No table walk leaves RAM, and until the list
\* has been found empty no page is mapped outside it.
TablesInRam ==
  /\ ~halted
  /\ Tables(phys) \subseteq RAM
  /\ ~Spent(mem) => Mapped(phys) \subseteq RAM

\* Where the frames go: the frames that are neither free, nor a table, nor
\* mapped are exactly as many as were given up by a replaced mapping, by an
\* unmapped page and by a mapping that failed; no other step loses one.
FrameAccounting ==
  Cardinality(Region \ (FreeFrames(mem) \cup Tables(phys) \cup Mapped(phys))) = leaks

\* Nothing flushes the TLB, and yet a translation that is out of date leads to no
\* frame in use: a frame whose page was unmapped or mapped anew is never on the
\* list, a page table or mapped again.
StaleApart ==
  \A e \in tlb :
    Translate(phys, e[1]) # e[2] => e[2] \notin FreeFrames(mem) \cup Tables(phys) \cup Mapped(phys)

\* The first page of a region mmap returned keeps its frame for as long as the
\* region is live, whatever is mapped and unmapped beside it; and when the kernel
\* image ends on a page boundary the heap takes no page from it: what the boot
\* loader mapped stays mapped where it was.
MappingsKept ==
  /\ \A r \in live : Translate(phys, r.start) = r.frame
  /\ KHEAPSTART % 4096 = 0 =>
       \A a \in Pages : Translate(boot, a) # Null => Translate(phys, a) = Translate(boot, a)

\* A step changes the translation of no page but the one it maps or unmaps.
OtherPagesKept ==
  [][\A a \in Pages : Translate(phys, a) # Translate(phys', a)
       => a = PageOf(IF loop.op = "init" THEN KHEAPSTART ELSE loop.addr)]_vars

\* bucket->size is the "Number of pages assigned to bucket" (bucketalloc.c): all
\* pages of a region mmap returned are mapped.
RegionBacked ==
  \A r \in live : \A k \in 0 .. r.size - 1 : Translate(phys, r.start + 4096 * k) # Null

\* unmap_page "Returns phys address of frame that was unmapped or null if it
\* wasn't mapped" (paging.h).
UnmapReturnsFrame ==
  [][MunmapPage => ret' = Translate(phys, loop.addr)]_vars

=============================================================================
