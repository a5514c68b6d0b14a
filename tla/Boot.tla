-------------------------------- MODULE Boot --------------------------------
(***************************************************************************)
(* The boot sequence, kmain (main.c) and kernel_init (kernel.c), from the   *)
(* boot loader's answers to the final halt, with the exceptions that may     *)
(* stop it (isr.c) and the setting up of the serial port.  The components    *)
(* that it starts appear by what they take from the rest of the machine:     *)
(* frames from the list, pages under the heap, the kernel's own variables.   *)
(*                                                                          *)
(* The free-frame list is a stack here; module FrameAlloc shows that it is  *)
(* one until it is empty, and starved records that it was found empty.      *)
(* The page tables appear by how many of them a mapping has to create, and  *)
(* by two translations: of the heap's first page, and of one direct-map page. *)
(* Undefined behaviour (a pointer read from a page that was replaced, a      *)
(* list written over the boot loader's data) ends in "wild" or "fault", or   *)
(* goes unnoticed.                                                          *)
(***************************************************************************)
EXTENDS Interrupts

CONSTANTS
  Answers,   \* sets of things the boot loader provides
  Maps,      \* memory maps: sequences of [base, length, type]
  Missing,   \* [virt, heap]: tables that the two mappings have to create
  Ends,      \* [kend, tail]: &kEnd within its page, variables in the image's last page
  Ports,     \* whether a read of the line status register has bit 0 set at first
  MAXNEST    \* exceptions within exceptions that the stack has room for

\* The variables that the steps after alloc_page(KHEAPSTART) read.  KHEAPSTART, a
\* static that nothing writes, is a constant in the build (-O2).
KernelVars == {"vmm", "K_HEAP_END", "kheap_spinlock", "global_renderer", "r",
               "PHYSICAL_ADDRESS_OFFSET"}
Console == {"global_renderer", "r"}
AllAnswers == {"revision", "framebuffer", "modules", "font", "magic", "memmap", "hhdm"}
EntryTypes == {"usable", "reclaimable", "kernel", "reserved"}
MemmapEntries == [base : Nat \ {0}, length : Nat, type : EntryTypes]
Null == 0

\* The page of 0xffff80000008c990, counted from 0xffff800000000000.
LOWPAGE == 140 * 4096

\* The frames that the heap's first page is translated to, one after the other:
\* the image's last page when &kEnd lies in it, init_vmm's and create_bucket's.
HeapFrames == {"none", "image", "first", "second"}

\* Entries are page aligned, and the boot protocol lets no other entry begin
\* inside a usable one.
ASSUME BootAssumption ==
  /\ Answers \subseteq SUBSET AllAnswers
  /\ Maps \subseteq Seq(MemmapEntries)
  /\ \A m \in Maps : Len(m) >= 2 /\ \A i \in DOMAIN m :
       /\ m[i].base % 4096 = 0
       /\ \A j \in DOMAIN m \ {i} : m[j].type = "usable" =>
            m[i].base < m[j].base \/ m[j].base + m[j].length <= m[i].base
  /\ \A t \in Missing : t.virt \in 0 .. 3 /\ t.heap \in 0 .. 2
  /\ \A e \in Ends : e.kend \in 0 .. 4095 /\ e.tail \subseteq KernelVars
  /\ Ports \subseteq BOOLEAN
  /\ MAXNEST \in Nat

VARIABLES
  env,       \* what the boot loader left: answers, map, missing, kend, tail, and
             \* direct: the direct map begins at 0xffff800000000000
  pc,        \* the step kmain or kernel_init is at; "done" is the final halt
  ready,     \* bit 0 of the line status register
  uart,      \* registers of the serial port, as init_serial leaves them
  list,      \* the frames on the free-frame list
  place,     \* physical address of the list
  handed,    \* frames popped
  starved,   \* a pop has found the list empty
  console,   \* global_renderer is set
  returned,  \* kernel_init has returned, and with it the frame buffer's description
  idt,       \* the interrupt table
  vec,       \* vector of the last exception
  nest,      \* exceptions not returned from
  came,      \* interrupts that have come
  pte,       \* the frame in the table entry of the heap's first page
  tlb,       \* the frame that the TLB has for it
  written,   \* the frame with the headers of the first bucket
  shadow     \* a page that is read through the direct map has been replaced

frames == <<list, place, handed, starved>>
screen == <<console, returned>>
traps  == <<vec, nest, came>>
pages  == <<pte, tlb, written, shadow>>
vars   == <<env, pc, ready, uart, frames, screen, idt, traps, pages>>

-----------------------------------------------------------------------------
(* Memory map and frame list.                                               *)

Usable(map) == {i \in DOMAIN map : map[i].type = "usable"}
Least(S) == CHOOSE i \in S : \A j \in S : i <= j

\* Mutants of read_memory_map: the flag isFirst is never cleared; the type is
\* not looked at.
ReadAlwaysFirst(map) == Null
ReadTypeless(map) ==
  LET big == {i \in DOMAIN map \ {1} : map[i].length \div 4096 > 500} IN
  IF big = {} THEN Null ELSE Least(big)

\* The index of the first usable entry of more than 500 pages, the first usable
\* entry of all left aside.
read_memory_map(map) ==
  LET big == {i \in Usable(map) : /\ \E j \in Usable(map) : j < i
                                  /\ map[i].length \div 4096 > 500}
  IN  IF big = {} THEN Null ELSE Least(big)

\* Mutant of add_frame_region: the cap on the offset is missing.
AddNoByteCap(region) ==
  LET K == {k \in 1 .. 101 : 4096 * (k - 1) < region.length} IN
  [k \in K |-> region.base + 4096 * (k - 1)]

\* The k-th page is pushed when it begins inside the region and the page before
\* it broke off neither at 100 frames nor at an offset of 30000 - 1.
add_frame_region(region) ==
  LET K == {k \in 1 .. 101 : /\ 4096 * (k - 1) < region.length
                             /\ 4096 * (k - 2) < 30000 - 1}
  IN  [k \in K |-> region.base + 4096 * (k - 1)]

\* Mutant of PopFrames: the oldest frames are popped first.
PopOldest(n) ==
  /\ list' = SubSeq(list, n + 1, Len(list))
  /\ handed' = handed \cup {list[i] : i \in 1 .. n}
  /\ starved' = (starved \/ n > Len(list))

\* n pops, the newest frame first.
PopFrames(n) ==
  LET left == IF n > Len(list) THEN 0 ELSE Len(list) - n IN
  /\ list' = SubSeq(list, 1, left)
  /\ handed' = handed \cup {list[i] : i \in left + 1 .. Len(list)}
  /\ starved' = (starved \/ n > Len(list))

-----------------------------------------------------------------------------
(* kmain.                                                                   *)

\* The registers after a reset, with the divisor of 9600 baud (external).
ResetLine ==
  [data |-> 0, ier |-> 0, low |-> 12, high |-> 0, fcr |-> 0, lcr |-> 0, mcr |-> 0]

Init ==
  /\ env \in {[answers |-> a, map |-> m, missing |-> t, kend |-> e.kend, tail |-> e.tail,
               direct |-> d] :
                a \in Answers, m \in Maps, t \in Missing, e \in Ends, d \in BOOLEAN}
  /\ (env.kend # 0 => env.missing.heap = 0)   \* the image's last page is mapped
  /\ (env.direct => env.missing.virt = 0)      \* and so are the direct map's first
  /\ pc = "entry"
  /\ ready \in Ports /\ uart = ResetLine
  /\ list = << >> /\ place = Null /\ handed = {} /\ starved = FALSE
  /\ console = FALSE /\ returned = FALSE
  /\ idt = NoTable /\ vec = 0 /\ nest = 0 /\ came = {}
  /\ pte = (IF env.kend = 0 THEN "none" ELSE "image") /\ tlb = "none" /\ written = "none"
  /\ shadow = FALSE

HasAll(S) == S \subseteq env.answers

\* The register behind offset r of the port (external): with bit 7 of the line
\* control register set, offsets 0 and 1 are the divisor.
Register(u, r) ==
  CASE r = 0 -> IF u.lcr >= 128 THEN "low" ELSE "data"
    [] r = 1 -> IF u.lcr >= 128 THEN "high" ELSE "ier"
    [] r = 2 -> "fcr"
    [] r = 3 -> "lcr"
    [] r = 4 -> "mcr"

outb(u, r, v) == [u EXCEPT ![Register(u, r)] = v]

\* Mutant of init_serial: the divisor is written after the line control.
InitSerialLate(u) ==
  outb(outb(outb(outb(outb(u, 1, 0), 3, 128), 3, 3), 0, 3), 1, 0)

\* Interrupts off, divisor 3, eight bits without parity; the queue and the modem
\* control are set last.
init_serial(u) ==
  outb(outb(outb(outb(outb(outb(outb(u, 1, 0), 3, 128), 0, 3), 1, 0), 3, 3), 2, 199), 4, 11)

\* Base revision and frame buffer; init_serial.
Entry ==
  /\ pc = "entry"
  /\ IF HasAll({"revision", "framebuffer"})
     THEN pc' = "serial" /\ uart' = init_serial(uart)
     ELSE pc' = "hcf" /\ uart' = uart
  /\ UNCHANGED <<env, ready, frames, screen, idt, traps, pages>>

\* The first write_serial_string spins until bit 0 is set.  Nothing ever reads
\* the receive buffer, so the bit stays set and no later write waits.
WriteSerial ==
  /\ pc = "serial"
  /\ ready
  /\ pc' = "font"
  /\ UNCHANGED <<env, ready, uart, frames, screen, idt, traps, pages>>

\* The loader passed modules, and one has the font's name in its path.
getFile == HasAll({"modules", "font"})

\* getFile and the check of the font's magic number.
FetchFont ==
  /\ pc = "font"
  /\ pc' = IF getFile /\ HasAll({"magic"}) THEN "answers" ELSE "hcf"
  /\ UNCHANGED <<env, ready, uart, frames, screen, idt, traps, pages>>

\* Memory map and direct map; init_paging.
CheckAnswers ==
  /\ pc = "answers"
  /\ pc' = IF HasAll({"memmap", "hhdm"}) THEN "tty" ELSE "hcf"
  /\ UNCHANGED <<env, ready, uart, frames, screen, idt, traps, pages>>

-----------------------------------------------------------------------------
(* kernel_init.                                                             *)

\* The step ends in an exception, or goes on to another.
BadPointer == {13, 14}
Raise(vectors) == pc' = "fault" /\ vec' \in vectors
GoOn(steps) == pc' \in steps /\ vec' = vec

\* Mutant of InitTty: idt_assemble is not called.
InitTtyNoIdt ==
  /\ pc = "tty"
  /\ console' = TRUE
  /\ pc' = "map"
  /\ UNCHANGED <<env, ready, uart, frames, returned, idt, traps, pages>>

InitTty ==
  /\ pc = "tty"
  /\ console' = TRUE
  /\ pc' = "idt"
  /\ UNCHANGED <<env, ready, uart, frames, returned, idt, traps, pages>>

\* idt_reload ends in sti: from here on maskable interrupts come through (Irq).
IdtAssemble ==
  /\ pc = "idt"
  /\ idt' = idt_assemble
  /\ pc' = "map"
  /\ UNCHANGED <<env, ready, uart, frames, screen, traps, pages>>

\* read_memory_map and init_frame_list.  Without a region add_frame_region
\* reads through NULL; a reserved entry is not part of the direct map; a list
\* written over the loader's data or the kernel may or may not do harm.
InitFrameList ==
  /\ pc = "map"
  /\ place' = env.map[2].base
  /\ IF read_memory_map(env.map) = Null \/ env.map[2].type = "reserved"
     THEN Raise({14}) /\ list' = list
     ELSE /\ list' = add_frame_region(env.map[read_memory_map(env.map)])
          /\ GoOn(IF env.map[2].type = "usable" THEN {"virt"} ELSE {"virt", "wild"})
  /\ UNCHANGED <<env, ready, uart, handed, starved, screen, idt, nest, came, pages>>

\* What the kernel goes on reading through the direct map: the list, the frames on
\* it that may become tables, and what the loader left (tables, stack, font).
Needed(page) ==
  \/ page = place
  \/ \E i \in DOMAIN list' : list'[i] = page
  \/ \E i \in DOMAIN env.map : /\ env.map[i].type \in {"reclaimable", "kernel"}
                               /\ env.map[i].base <= page
                               /\ page < env.map[i].base + env.map[i].length

\* map_to_page(virtAddr, pop_frame_list(...)), the write to it, and init_heap.  When
\* virtAddr is an address of the direct map its page is replaced by the frame
\* popped: what lies in the physical page is out of reach once the TLB drops it.
MapVirtAddr ==
  /\ pc = "virt"
  /\ PopFrames(1 + env.missing.virt)
  /\ shadow' = (env.direct /\ Needed(LOWPAGE))
  /\ pc' = "vmm"
  /\ UNCHANGED <<env, ready, uart, place, screen, idt, traps, pte, tlb, written>>

\* alloc_page(KHEAPSTART).  When the image ends inside that page the mapping
\* replaces it by a frame with other contents.
InitVmm ==
  /\ pc = "vmm"
  /\ PopFrames(1 + env.missing.heap)
  /\ pte' = "first"
  /\ pc' = "kmalloc_init"
  /\ UNCHANGED <<env, ready, uart, place, screen, idt, traps, tlb, written, shadow>>

\* The frame that an access to the heap's first page goes to.  Nothing flushes the
\* TLB, so it may be one that the entry no longer has.
Used == IF tlb = "none" THEN pte ELSE tlb

\* The kernel's variables that are out of reach.
Lost == IF env.kend # 0 /\ Used # "image" THEN env.tail ELSE {}

\* create_bucket: println, grow_heap and alloc_page read the kernel's variables,
\* and the page is mapped once more.  Only a lost lock may go unnoticed.
KmallocInit ==
  /\ pc = "kmalloc_init"
  /\ \/ /\ Lost # {}
        /\ Raise(BadPointer) \/ GoOn({"wild"})
        /\ UNCHANGED <<list, handed, starved, pte>>
     \/ /\ Lost \subseteq {"kheap_spinlock"}
        /\ PopFrames(1)
        /\ pte' = "second"
        /\ GoOn({"headers"})
  /\ UNCHANGED <<env, ready, uart, place, screen, idt, nest, came, tlb, written, shadow>>

\* The two headers are written, into the one page that is mapped.
WriteHeaders ==
  /\ pc = "headers"
  /\ IF env.kend + 64 + 60 > 4096
     THEN Raise({14}) /\ written' = written
     ELSE GoOn({"kmalloc"}) /\ written' = Used
  /\ UNCHANGED <<env, ready, uart, frames, screen, idt, nest, came, pte, tlb, shadow>>

\* println, and kmalloc(8), which reads the headers and clears 64 bytes behind the
\* second.  In a frame where nobody wrote them, the lock, the sizes and the
\* pointers are whatever lies there.
Kmalloc ==
  /\ pc = "kmalloc"
  /\ IF Lost \cap Console # {} \/ Used # written
     THEN Raise(BadPointer) \/ GoOn({"wild"})
     ELSE IF env.kend + 64 + 60 + 64 > 4096 THEN Raise({14}) ELSE GoOn({"kfree"})
  /\ UNCHANGED <<env, ready, uart, frames, screen, idt, nest, came, pages>>

\* The number is written and printed, kfree merges its pebble with the one behind,
\* whose cleared header counts as free, and kernel_init returns.  A header that is
\* not there has another magic, most likely, and kfree returns at once.
Kfree ==
  /\ pc = "kfree"
  /\ IF Lost \cap Console # {} THEN Raise(BadPointer) \/ GoOn({"wild"})
     ELSE GoOn({"done"}) \/ (Used # written /\ (Raise(BadPointer) \/ GoOn({"wild"})))
  /\ returned' = (pc' = "done")
  /\ UNCHANGED <<env, ready, uart, frames, console, idt, nest, came, pages>>

-----------------------------------------------------------------------------
(* Exceptions.                                                              *)

\* The processor looks for the gate (external).  Without one, or without room
\* on the stack, the exceptions that follow shut the machine down.
Deliver ==
  /\ pc = "fault"
  /\ IF Found(idt, vec) /\ nest < MAXNEST
     THEN pc' = "handler" /\ nest' = nest + 1
     ELSE pc' = "shutdown" /\ nest' = nest
  /\ UNCHANGED <<env, ready, uart, frames, screen, idt, vec, came, pages>>

\* isr_exception_handler prints to the console and to the serial port and halts.
\* The renderer may be lost, or point to the description of the frame buffer that
\* was on kernel_init's stack: then the print may fault, write anywhere, or work.
isr_exception_handler ==
  /\ pc = "handler"
  /\ IF returned \/ Lost \cap Console # {}
     THEN Raise(BadPointer) \/ GoOn({"wild", "halted"})
     ELSE ready /\ GoOn({"halted"})
  /\ UNCHANGED <<env, ready, uart, frames, screen, idt, nest, came, pages>>

KernelStep ==
  \/ Entry \/ WriteSerial \/ FetchFont \/ CheckAnswers
  \/ InitTty \/ IdtAssemble \/ InitFrameList \/ MapVirtAddr
  \/ InitVmm \/ KmallocInit \/ WriteHeaders \/ Kmalloc \/ Kfree
  \/ Deliver \/ isr_exception_handler

\* A non-maskable interrupt, once (external).
Nmi ==
  /\ "nmi" \notin came /\ pc \notin {"shutdown", "wild"}
  /\ came' = came \cup {"nmi"}
  /\ vec' = 2
  /\ pc' = "fault"
  /\ UNCHANGED <<env, ready, uart, frames, screen, idt, nest, pages>>

\* A maskable interrupt, once (external), when the loader left one unmasked.  There
\* is no gate from 32 on, which makes it exception 13, and the timer's vector after
\* a reset is that of exception 8.  The gates are trap gates and hcf does not
\* clear the flag, so one may come at any time after the sti.
Irq ==
  /\ idt # NoTable
  /\ "irq" \notin came /\ pc \notin {"shutdown", "wild"}
  /\ came' = came \cup {"irq"}
  /\ vec' \in {8, 13}
  /\ pc' = "fault"
  /\ UNCHANGED <<env, ready, uart, frames, screen, idt, nest, pages>>

\* The device receives a character (external).
SerialInput ==
  /\ ~ready
  /\ ready' = TRUE
  /\ UNCHANGED <<env, pc, uart, frames, screen, idt, traps, pages>>

\* The processor takes the entry of the heap's page into the TLB, for an access
\* or ahead of one, and drops it again (external).
Fill ==
  /\ tlb = "none" /\ pte # "none"
  /\ tlb' = pte
  /\ UNCHANGED <<env, pc, ready, uart, frames, screen, idt, traps, pte, written, shadow>>

Evict ==
  /\ tlb # "none"
  /\ tlb' = "none"
  /\ UNCHANGED <<env, pc, ready, uart, frames, screen, idt, traps, pte, written, shadow>>

\* The TLB drops the replaced page of the direct map (external), and the kernel
\* finds a frame with other contents in the place of its list, stack or tables.
Uncover ==
  /\ shadow
  /\ pc \notin {"done", "halted", "shutdown", "wild"}
  /\ Raise(BadPointer) \/ GoOn({"wild"})
  /\ UNCHANGED <<env, ready, uart, frames, screen, idt, nest, came, pages>>

Next == KernelStep \/ Nmi \/ Irq \/ SerialInput \/ Fill \/ Evict \/ Uncover

\* The processor goes on executing; the device and the TLB need not act.
Spec == Init /\ [][Next]_vars /\ WF_vars(KernelStep)

-----------------------------------------------------------------------------

Steps == {"entry", "serial", "font", "answers", "tty", "idt", "map", "virt", "vmm",
          "kmalloc_init", "headers", "kmalloc", "kfree", "done", "hcf", "fault", "handler", "halted",
          "shutdown", "wild"}

\* Type invariant; the caps of add_frame_region let nine frames in.
TypeOK ==
  /\ pc \in Steps
  /\ list \in Seq(Nat) /\ Len(list) <= 9
  /\ place \in Nat /\ handed \subseteq Nat
  /\ {pte, tlb, written} \subseteq HeapFrames
  /\ came \subseteq {"nmi", "irq"}
  /\ vec \in Exceptions /\ nest \in 0 .. MAXNEST
  /\ ready \in BOOLEAN /\ starved \in BOOLEAN /\ console \in BOOLEAN
  /\ returned \in BOOLEAN /\ shadow \in BOOLEAN

\* Every frame on the list or handed out is a whole page of usable memory, and
\* none is in the first usable entry, which read_memory_map passes over.
RegionSound ==
  \A f \in handed \cup {list[i] : i \in DOMAIN list} :
    \E i \in Usable(env.map) :
      /\ i # Least(Usable(env.map))
      /\ env.map[i].base <= f
      /\ f + 4096 <= env.map[i].base + env.map[i].length

\* The nine frames suffice: whatever tables the boot loader has left out, no pop
\* of the boot sequence finds the list empty.  Even when entries[1], where
\* kernel_init puts the list, is the region that the frames come from, the page
\* that holds the list is not handed out: it was pushed first, and the boot takes
\* at most eight of the nine frames.
FramesSuffice == ~starved /\ place \notin handed

\* Before anything is printed the serial line has 38400 baud, eight bits and its
\* queue, the divisor registers are out of the way of its data, no divisor was
\* sent as data, and its interrupts, for which there is no gate, are off.
LineSet ==
  console => uart = [data |-> 0, ier |-> 0, low |-> 3, high |-> 0,
                     fcr |-> 199, lcr |-> 3, mcr |-> 11]

\* Although the limit is computed with the wrong size, every exception finds its
\* gate once the table is loaded; and whether or not the processor pushes an
\* error code, the handler's frame has the vector and the interrupted state in
\* the same words: one above those that isr_stack_frame_t gives to them.
EveryException ==
  idt # NoTable =>
    \A v \in Raised :
      /\ Found(idt, v)
      /\ \A k \in 6 .. Len(isr_stack_frame_t) : Frame(v)[k] = isr_stack_frame_t[k]

\* An exception of the kernel's own, or a maskable interrupt, that stops the boot
\* ends in the handler's message, also when an NMI or the other of them comes in
\* between: unless the page that holds the renderer, or one read through the
\* direct map, was replaced, or kernel_init has returned.
FaultReported ==
  [](pc = "fault" /\ vec # 2 /\ ~returned /\ ~shadow
       /\ (env.kend = 0 \/ env.tail \cap Console = {})
     => <>(pc = "halted"))

\* The heap's headers and the first block fit into the one page that is mapped,
\* and that page holds no variable of the kernel.
GoodEnd == env.kend + 64 + 60 + 64 <= 4096 /\ (env.kend = 0 \/ env.tail = {})

\* Nothing comes from outside, the page at virtAddr was not needed, and the headers
\* are read from the frame that they were written to.
Undisturbed == came = {} /\ ~shadow /\ (written = "none" \/ Used = written)

\* The boot comes to its end: given all answers, a memory map with a region to
\* choose and a usable second entry, and a serial port whose line status has bit
\* 0 set in the end, and as long as the boot is left undisturbed.
BootCompletes ==
  /\ env.answers = AllAnswers
  /\ \E i, j \in Usable(env.map) : i < j /\ env.map[j].length >= 501 * 4096
  /\ env.map[2].type = "usable"
  /\ GoodEnd
  /\ <>ready /\ []Undisturbed
  => <>(pc = "done")

=============================================================================
