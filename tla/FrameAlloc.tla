----------------------------- MODULE FrameAlloc -----------------------------
(***************************************************************************)
(* The physical frame allocator of memory/framealloc.c: init_frame_list and *)
(* add_frame_region fill the list once from the region read_memory_map      *)
(* chose, then callers pop frames (create_new_page_table, alloc_page) and    *)
(* push frames they hold (munmap).                                          *)
(*                                                                          *)
(* A push after a pop has found the list empty writes through a head that   *)
(* points into the list's own fields, which is undefined in C; no caller     *)
(* does it, and Push is disabled there.                                     *)
(***************************************************************************)
EXTENDS FrameList, FiniteSets

CONSTANTS
  Regions,    \* memory map entries the list may be filled from
  JUNK,       \* content of memory nobody has written
  FRAME_CAP,  \* 100: add_frame_region stops once numFrames exceeds it
  BYTE_CAP    \* 30000 - 1: and once the offset reaches it

PAGE == 4096   \* the 0x1000 of add_frame_region

ASSUME RegionAssumption ==
  /\ FRAME_CAP \in Nat /\ BYTE_CAP \in Nat
  /\ FRAME_CAP < SLOTS
  /\ JUNK \in Nat
  /\ \A r \in Regions : /\ r.base \in Nat /\ r.base > 0
                        /\ r.length \in Nat
                        /\ r.base + r.length + PAGE < LIST

VARIABLES
  mem,      \* the words of the list
  region,   \* the memory map entry passed to init_frame_list
  pc,       \* "start", "fill" (in add_frame_region), "ready"
  x,        \* loop offset of add_frame_region
  ret,      \* result of the last pop_frame_list
  held,     \* frames handed out and not pushed back
  spent     \* a pop has returned NULL

vars == <<mem, region, pc, x, ret, held, spent>>

Init ==
  /\ mem = [w \in Words |-> JUNK]
  /\ region \in Regions
  /\ pc = "start"
  /\ x = 0
  /\ ret = Null
  /\ held = {}
  /\ spent = FALSE

InitList ==
  /\ pc = "start"
  /\ mem' = init_frame_list(mem)
  /\ pc' = "fill"
  /\ UNCHANGED <<region, x, ret, held, spent>>

\* Mutant of AddFrame: the page behind the region is pushed as well.
AddFrameBehind ==
  /\ pc = "fill"
  /\ x <= region.length
  /\ mem' = push_frame_list(mem, region.base + x)
  /\ IF mem'[NUMFRAMES] > FRAME_CAP \/ x >= BYTE_CAP
     THEN pc' = "ready" /\ x' = x
     ELSE pc' = "fill" /\ x' = x + PAGE
  /\ UNCHANGED <<region, ret, held, spent>>

\* One iteration of the loop of add_frame_region with its two breaks.
AddFrame ==
  /\ pc = "fill"
  /\ x < region.length
  /\ mem' = push_frame_list(mem, region.base + x)
  /\ IF mem'[NUMFRAMES] > FRAME_CAP \/ x >= BYTE_CAP
     THEN pc' = "ready" /\ x' = x
     ELSE pc' = "fill" /\ x' = x + PAGE
  /\ UNCHANGED <<region, ret, held, spent>>

EndRegion ==
  /\ pc = "fill"
  /\ x >= region.length
  /\ pc' = "ready"
  /\ UNCHANGED <<mem, region, x, ret, held, spent>>

Pop ==
  LET r == pop_frame_list(mem) IN
  /\ pc = "ready"
  /\ mem' = r.mem
  /\ ret' = r.ret
  /\ held' = IF spent \/ r.ret = Null THEN held ELSE held \cup {r.ret}
  /\ spent' = (spent \/ r.ret = Null)
  /\ UNCHANGED <<region, pc, x>>

Push(f) ==
  /\ pc = "ready"
  /\ ~spent
  /\ f \in held
  /\ mem[HEAD] \in Words
  /\ mem' = push_frame_list(mem, f)
  /\ held' = held \ {f}
  /\ UNCHANGED <<region, pc, x, ret, spent>>

Next ==
  \/ InitList
  \/ AddFrame
  \/ EndRegion
  \/ Pop
  \/ \E f \in held : Push(f)

Spec == Init /\ [][Next]_vars

-----------------------------------------------------------------------------

\* Every page that begins in a region, whether add_frame_region reaches it or not.
RegionFrames(r) ==
  {f \in {r.base + PAGE * k : k \in 0 .. r.length \div PAGE} : f < r.base + r.length}

Used == mem[NUMFRAMES]
OnList == {mem[Slot(i)] : i \in 0 .. Used - 1}

\* Type invariant: the list is a memory of natural-number words, the results
\* and the frames handed out are addresses.
TypeOK ==
  /\ mem \in [Words -> Nat]
  /\ region \in Regions
  /\ pc \in {"start", "fill", "ready"}
  /\ x \in Nat
  /\ ret \in Nat
  /\ held \subseteq Nat
  /\ spent \in BOOLEAN

\* The three fields of struct FreeFrameList agree with each other until a pop
\* has found the list empty: head is the first unused slot, nextFree the slot
\* below it (or NULL on a list that never held a frame), numFrames the number
\* of slots in use.
ListShape ==
  pc # "start" /\ ~spent =>
    /\ Used \in 0 .. SLOTS
    /\ mem[HEAD] = Slot(Used)
    /\ \/ mem[NEXTFREE] = mem[HEAD] - 8
       \/ Used = 0 /\ mem[NEXTFREE] = Null

\* A physical frame has one owner: no frame is on the free list twice, none is
\* both free and in a caller's hands, and all of them are pages of the region.
OneOwner ==
  pc # "start" /\ ~spent =>
    /\ \A i, j \in 0 .. Used - 1 : i # j => mem[Slot(i)] # mem[Slot(j)]
    /\ OnList \cap held = {}
    /\ OnList \cup held \subseteq RegionFrames(region)

\* What the pops of an exhausted list return, since the test for the last slot
\* compares with the list's address and not with the first slot's: NULL, and
\* once the address of the nextFree field itself, after which the list stays
\* empty for good.
Exhausted ==
  spent => \/ ret = Null
           \/ ret = NEXTFREE /\ mem[NEXTFREE] = Null

\* A pop never returns a frame that a caller still holds, not even after the
\* list has run empty.
NeverTwice == [][Pop => ret' \notin held]_vars

\* What "Frame list empty so operation fails" (vmm.c) and "If no usable frame
\* available indicate failed operation" (paging.c) say of pop_frame_list: once
\* the list has been found empty, and as nothing is pushed any more, every pop
\* returns NULL.
EmptyFails == spent => ret = Null

\* Refinement mapping: the slots in use are the stack of FrameStack.
SlotStack ==
  IF pc = "start" \/ spent THEN << >> ELSE [i \in 1 .. Used |-> mem[Slot(i - 1)]]

Stack == INSTANCE FrameStack WITH
  Frame <- UNION {RegionFrames(r) : r \in Regions}, stack <- SlotStack

\* Refinement: until the first NULL the words of the list behave as a LIFO
\* stack of distinct frames.
IsStack == Stack!StackSpec

=============================================================================
