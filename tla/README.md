# Froggy OS: TLA+ models and proofs

Froggy OS is a small x86-64 kernel booted by Limine. `kmain` (main.c) checks
the boot loader's answers, `kernel_init` (kernel.c) brings up the console, the
interrupt table, the frame allocator, paging, the heap and `kmalloc`, runs one
`kmalloc`/`kfree` pair and halts. One core runs, no process is ever started,
and the only interrupts with a handler are exceptions and the NMI, whose handler
halts the machine. A maskable interrupt, which the `sti` at the end of `idt_reload` lets
through, finds no gate and becomes an exception. There is a spinlock, for cores that the kernel does not start
yet. So most of what is hard in this kernel is not concurrency. It is memory: an
allocator over words that it keeps in the memory it manages, page tables built
with frames from that allocator, a heap on top of both whose lists live between
the blocks it hands out, and a console that moves pixels in place. Each is
correct or not over long sequences of legal calls, at exhaustion, and at sizes
on a boundary.

All paths below are relative to `src/kernel/src/`.

## 1. Inventory

| Component | State | Operations | Calls | What makes it correct |
|---|---|---|---|---|
| Frame allocator, memory/framealloc.c | `head`, `nextFree`, `numFrames` and the slots behind them | `init_frame_list`, `add_frame_region`, `push_frame_list`, `pop_frame_list` | called by paging and vmm | every frame has one owner; an empty list fails |
| Page tables, arch/paging | tables in frames, CR3 | `map_to_page`, `create_new_page_table`, `unmap_page` | pops frames | a frame serves one purpose; a mapping changes one page |
| Virtual memory manager, memory/vmm.c, memory/heap.c | `K_HEAP_END`, the frame list | `init_vmm`, `alloc_page`, `mmap`, `munmap`, `grow_heap` | frame list, page tables | regions stay mapped; frames are accounted for |
| Bucket allocator, klibc/bucketalloc.c | chain of buckets, list of pebbles in each, cached `largest_free` | `kmalloc_init`, `kmalloc`, `kfree`, `krealloc` | `mmap`, `munmap`, `memset`, `memcpy` | blocks disjoint and large enough; lists intact; free neighbours merged |
| Console, drivers/vga/framebuffer.c | cursor, pixels | `tty_print`, `tty_clear`, `put_char`, `move_tty_cursor_down` | `memmove` | no write outside the frame buffer; each text row shows one line |
| Memory map, memory/memorymap.c | none | `read_memory_map` | serial port | region chosen is usable and apart from the list |
| Boot, main.c, kernel.c | the order of all of the above | `kmain`, `kernel_init` | everything | every step finds what it needs |
| Interrupts, arch/interrupts | IDT, `vectors` | `idt_assemble`, the stubs, `isr_exception_handler` | console, serial port | every exception finds its gate, in one frame layout, and is reported |
| Serial port, drivers/uart.c | the device's registers | `init_serial`, `write_serial` | none | the line is set up before it is used; every write ends |
| Spinlocks, klibc/spinlock.* | one bit | acquire, release | called by the heap and by `kmalloc` | mutual exclusion, and the waiter gets the lock |
| Formatting and strings, klibc/string, main.c | buffers | `printf` and its kin, `itoa`, `utoa`, `ultoa`, `strstr`, `memmove`, `memcpy`, `memset` | console, serial port | the digits of the number; each piece of a format prints its own text; no write outside the buffer |

The behaviours a test would hardly reach are the `hazards` of `PROJECT.json`,
each with its line: exhaustion between two levels of a page-table walk,
unsigned counters below zero, end tests that are off by words, rounding with a
wrong mask, caches that go stale, pages replaced under those who use them,
memory given up on error paths, and lists that must survive every order of splits and
merges. A hazard whose outcome nothing in the repository forbids has no property, and a
note that says so.

## 2. Modules

`FrameList` holds the words of the free-frame list and the C functions on them
as operators on a memory image. `FrameAlloc` and `Vmm` both build on it.

| Module | Models | State and actions |
|---|---|---|
| `FrameList` | framealloc.c on words | operators `init_frame_list`, `push_frame_list`, `pop_frame_list` |
| `FrameStack` | what its callers rely on | abstract LIFO stack: `SPush`, `SPop`, `SEmpty` |
| `FrameAlloc` | the allocator on its own | `InitList`, one `AddFrame` per iteration of `add_frame_region`, `EndRegion`, `Pop`, `Push` |
| `Paging` | arch/paging as operators on list and RAM | `create_new_page_table`, `map_to_page`, `unmap_page`; entries keep their encoding |
| `Vmm` | vmm.c and heap.c over both | `InitVmm`; `Mmap`, `MmapPage`, `MmapReturn`; `Munmap`, `MunmapPage`, `MunmapReturn`; `AllocPageNull` |
| `BucketAlloc` | bucketalloc.c, byte sizes and offsets of the code | `Kmalloc`, `Kfree`, `Krealloc`; one operator per C function |
| `HeapLock` | spinlock.asm around `grow_heap`, several cores | one action per instruction on shared memory: `Call`, `Bts`, `Spin`, `Read`, `Add`, `Unlock` |
| `GrowAtomic` | what the callers of `grow_heap` rely on | abstract: `Grow`, a region in one step |
| `Strings` | itoa.c, ultoa.c and the string and memory functions of main.c | operators on byte arrays, texts and 64-bit words |
| `Printf` | printf.c, and one call of each function of `Strings` | `Enter`, `Plain`, `Percent`, `String`, `Number`, `Unknown`, `Emit`: turns of the loop of `_vprintf` |
| `Tty` | framebuffer.c | `Char`, `Tab`, `Newline` (iterations of `tty_print`), `Clear` |
| `Interrupts` | idt.c, isr.asm, isr.h as operators | the table, and the words on the stack when the handler is called |
| `Boot` | main.c, kernel.c, memorymap.c, uart.c, isr.c over `Interrupts` | one action per step of `kmain` and `kernel_init`, from `Entry` to `KmallocInit`, `WriteHeaders`, `Kmalloc` and `Kfree`; `Deliver` and `isr_exception_handler`; `Nmi`, `Irq`, `SerialInput`, `Fill`, `Evict` and `Uncover` for the machine |
| `FrameAllocProofs`, `TtyProofs`, `HeapLockProofs`, `BootProofs`, `VmmProofs`, `BucketAllocProofs`, `PrintfProofs` | theorems | `HeapLayoutProofs` has the lemmas on the lists of headers that `BucketAllocProofs` rests on |
| `MC...` | values for TLC | |

How the models relate to the code:

* **FrameList.** Addresses are byte addresses, and the slots follow the three
  fields of `struct FreeFrameList` as in memory. This matters: when the list is
  exhausted, `nextFree` walks down onto `numFrames` and onto itself, and the
  model reads what is there. `numFrames` wraps at `WORDMOD`. A push onto a list
  that has been found empty writes through a pointer into the list's own fields.
  No caller does it and `Push` is disabled there.
* **Paging, Vmm.** Tables are addressed physically; the direct-map offset that
  `phys_to_virt_translation` adds cancels out. An access outside RAM is the
  exception whose handler halts (`Fault`). `map_to_page` uses CR3 without
  masking its low bits when it walks, which are taken to be zero. `tlb`
  collects every translation that the processor could ever have cached, since no
  code flushes one. The first mapping that `kernel_init` makes by hand (kernel.c:62) is in
  `Boot`; huge pages are left out. `Munmap` takes any region but the first, as `remove_bucket` does.
  `boot`, `live`, `leaks` and `nulls` are history variables.
* **BucketAlloc.** Headers are records at their byte address. The model's
  records keep the fields that decide something; `magic` is a Boolean and
  `alignment` is never read. `memset` over headers zeroes exactly the fields it
  reaches. Once header bytes are replaced by data (a copy or a torn split) the
  heap is `"wild"` and the model stops. A traversal that never meets NULL is
  `"hung"`, one that leaves the headers is `"fault"`. The bytes of a bucket, and no
  others, are taken as accessible, although `mmap` maps one page of it (run `vmm_backed`):
  this module is about the lists, `Vmm` about the pages. The heap's lock is
  always free here, with one caller; `HeapLock` has several. What callers write into a block that
  is too small for them is not modelled. The variable `clean` is TRUE while
  every size passed in so far is one the arithmetic of kmalloc and
  SPLIT_PEBBLE gets right and every copy of krealloc reads only bytes of buckets; the
  invariants are about such histories. This
  is a real restriction, in both parts. `kernel_init`'s own `kmalloc(8)` is not such a call:
  it places a pebble of size 0 and zeroes 64 bytes over the header behind it. And
  krealloc copies as many bytes as the new block has from the old one, which is always smaller:
  `CopyBlock` faults when the source, the bytes behind the old block, leaves the buckets (`Readable`),
  as it does for a block near the end of the last one. The source may also overlap the new block, so
  that krealloc does not give `memcpy` the separate regions that its restrict pointers ask for. The
  copy goes up and the new block lies behind the old one then, so what the old block held is copied as it
  was; the rest of the new block's contents is not modelled.
* **HeapLock.** A core that finds the lock taken waits on `[rax]`, a register that
  nothing loads (the `mov rax, rdi` is commented out). The model lets it point to
  the lock, to a word whose bit 0 is clear or set, or nowhere, which faults and
  halts that core. The serial prints inside `grow_heap` are left out; `regions` is a history
  variable. The kernel starts one core today, so this module is about the lock's
  purpose, not about what the present boot does.
* **Strings, Printf.** A 64-bit number is a tuple of four 16-bit limbs, so that all
  64 bits count while TLC's integers have 32. A buffer is a function from offsets to
  characters; a text without a terminator in it is `Overrun`. `itoa` clears
  `BASE_MAX_DIGIT_MAP[base] + 1` bytes, and what lies behind them is the caller's:
  `fill` is zero or junk. Negating `INT64_MIN` is undefined, and the model takes either
  of the results that a build can give. `Loop` is a loop of the code, as a recursive function of the number
  of turns; `Once` only orders TLC's evaluation.
  A format is given in pieces, each with its argument and the text it stands for, so
  that the property can say what `_vprintf`, which sees characters only, should print.
  What calls there may be is stated by `CallsAssumption` and `PrintsAssumption`: memcpy's regions are
  apart (its pointers are restrict; krealloc, its only caller with blocks that may not be, is dealt with in
  `BucketAlloc`), a buffer has room for the longest numeral of its base, and a piece
  is one of the six kinds that `IsPiece` lists, with an argument of the type that its flags ask for.
* **Tty.** A pixel row is represented by the set of lines with ink in it.
  Glyph contents, colours, and pixel columns are left out, apart from the bound
  on `x`. `line` numbers the lines and is bounded by `MAXLINES`.
* **Boot.** The parts that boot starts appear by what they take: frames, pages
  under the heap, the kernel's own variables. The frame list is a stack of
  frames, which `FrameAlloc` shows it to be until it is found empty, and
  `starved` records that. Page tables appear as the number of tables that each
  mapping has to create (`Missing`), at most three for the first address and
  two for the heap, whose upper levels the kernel image already has. `kernel_init`
  puts the list at `entries[1]` of the memory map whatever that is: over the
  loader's data, the outcome is either unnoticed or `"wild"`; in a reserved
  range, which the direct map leaves out, it faults. `kEnd` is not aligned by the
  linker script, so `KHEAPSTART` is usually inside the image's last page, and the
  first `alloc_page` replaces that page. `tail` is the set of kernel variables in
  it, `pte` the frame that the page table has for the heap's first page (the image's, then
  `init_vmm`'s, then `create_bucket`'s), and `tlb` the one that the processor has cached:
  `Fill` and `Evict` may act at any time, also ahead of an access, and nothing flushes. An access
  goes to `Used`; the variables are `Lost` when that is not the image's page. The
  bucket's headers go to the frame in use when they are written (`written`), and
  when kmalloc uses another one it reads what nobody wrote there. `kfree` merges its pebble with
  the one behind, whose header kmalloc's memset has cleared, since zeroed flags mean free.
  The address that `kernel_init` maps by hand, 0xffff80000008c990, lies in the direct map when that begins
  at 0xffff800000000000 (`direct`), Limine's default. Then the page of physical 0x8c000 is
  replaced, and `shadow` says that the list, a frame of it or the loader's data lies there: once the TLB
  drops the old translation (`Uncover`), anything may happen. After the `sti` of `idt_reload` a maskable
  interrupt may come (`Irq`), as vector 13, since there is no gate from 32 on, or as 8, the timer's
  vector after a reset; the gates are trap gates and `hcf` leaves the flag set, so it may come
  inside the handler and after the halt too. The serial port's writer waits for bit 0 of the
  line status, which says that a character has come in; since nothing reads the
  receive buffer, the bit stays set once it is. `outb` goes to the divisor or to the data
  and interrupt registers by the state of DLAB. An exception is a vector: the processor
  looks for its gate below the table's limit and pushes its frame, and the handler prints through
  `global_renderer`. That structure points to a parameter of `kernel_init`; once
  `returned`, the print may work, fault again (up to `MAXNEST` times) or write anywhere.

## 3. Runs

| Run | Checks | Bounds and why |
|---|---|---|
| `frame_alloc` | `TypeOK`, `ListShape`, `OneOwner`, `Exhausted`, `NeverTwice`, refinement `IsStack` | regions of 0, 1, 4 (ragged) and 501 pages, of which a frame is a page that begins inside; the caps are 11 frames and 12287 bytes instead of 100 and 29999, so both the end of the region and the byte cap end a fill. In the code the byte cap always ends it before the frame cap can |
| `vmm` | `TypeOK`, `OneUse`, `TablesInRam`, `FrameAccounting`, `MappingsKept`, `StaleApart`, `OtherPagesKept` | tables of two entries give four levels over 16 pages; six frames run out at every level of a walk; aligned and unaligned `kEnd` |
| `bucket_alloc` | `NeverStuck`, `Tiling`, `BlocksSafe`, `Coalesced`, `BucketChain`, `GrowsForNeed`, `OthersKept` | three buckets, three live blocks, six pebbles; sizes that share a bucket, fill it, and do not fit the bucket made for them; growing copies that stay within the bucket, and that leave it |
| `tty` | `TypeOK`, `InBounds`, `Window` | fonts of 4 rows, screens of 1 to 4 lines with and without left-over pixel rows, 1 to 3 columns, six lines: every screen scrolls |
| `heap_lock` | `TypeOK`, `Mutex`, `RegionsApart`, liveness `SomeoneEnters`, refinement `IsAtomic` | three cores, three calls (`MAXCALLS`), two sizes, every kind of `rax`: two cores wait while a third is inside |
| `printf` | `MovesBytes`, `FindsFirst`, `WritesNumeral`, `PrintsPieces`, liveness `Contained` | all moves within five bytes; all texts of four and three letters over two; twenty numbers around powers of two and ten and the ends of 32 and 64 bits in bases 2 to 17 and 36, in buffers of 40 and 100 bytes; formats of up to three pieces and a buffer of 23 bytes, so that some formats just fill it, some just fail to |
| `boot` | `TypeOK`, `FramesSuffice`, `RegionSound`, `LineSet`, `EveryException`, liveness `BootCompletes` and `FaultReported` | each loader answer missing in turn, and none; memory maps with no, one and several regions, at and below 501 pages, with the list inside and outside the region, and the page at 0x8c000 unused, the list's, a frame's or the loader's; no table missing or all (the proof has every number); `kEnd` on a boundary, inside a page with none or one variable before it, and with the headers or the first block across the page's end; line status set and clear; an NMI and a maskable interrupt at any point; exceptions nested three deep, which is as many as a fault and the two interrupts need |
| `frame_alloc_empty` | violates `EmptyFails` | see below |
| `vmm_backed`, `vmm_unmap` | violate `RegionBacked`, `UnmapReturnsFrame` | |
| `bucket_holds`, `bucket_split` | violate `BlockHoldsRequest`, `SplitFits` | |

`CHECK_DEADLOCK FALSE` is set everywhere: a halted machine, a hung traversal and
a model at its bound stop, and a kernel that is not called does nothing.

**Fairness.** `Boot` assumes weak fairness of `KernelStep`: the processor goes on
executing. The serial device, the TLB and the interrupts are not assumed to
act; `BootCompletes` has the status bit's coming (`<>ready`) as a hypothesis,
because without it `kmain` spins for ever in its first write. It also asks for a `kEnd` whose
page holds none of the variables in use and has room for the headers and the first block (`GoodEnd`), and
for an undisturbed boot (`Undisturbed`): no NMI or other interrupt, which halts the machine; nothing needed in the
page at 0x8c000; and headers that are read from the frame they were written to. The code
guarantees none of these, and each was found necessary: TLC has a boot that does not end without it.
The last one fails for an aligned `kEnd` as well, when the processor caches `init_vmm`'s frame
before `create_bucket` maps the page again and drops it later. `FaultReported` needs no such hypothesis for the bit:
a fault comes after the first write, and the bit stays set. It excepts the boots that have lost the renderer's page or one of
the direct map, and the time after `kernel_init` has returned. `HeapLock` assumes weak fairness of each
core's `Step`: a core in a call goes on executing, and none has to call. That is
not enough for each core to get the lock, and `SomeoneEnters` claims that some core does.
`Printf` assumes weak fairness of its only thread. The other components act only
when called, and are checked for safety. Their endless loops are states (`"hung"`) that
`NeverStuck` excludes.

What the violated properties show:

* *Exhaustion* (`EmptyFails`). The test for the last slot compares with the
  list's address, two words below the right one. After the last frame, a pop
  reads `numFrames`, which is 0, and answers NULL; the next one answers with
  the address of `nextFree`. `Exhausted` pins down that this happens once, and
  `TablesInRam` that the bogus address only ever becomes a data page: an
  operation ends at its first NULL, so the bogus pop is the first pop of the
  next `alloc_page`.
* *mmap* (`RegionBacked`). The loop counts bytes against a page count and maps
  one page.
* *unmap_page* (`UnmapReturnsFrame`). It always returns NULL, so frames are
  never freed. `FrameAccounting` counts all losses exactly: replaced mappings,
  unmapped pages, failed mappings and `alloc_page(NULL)` (vmm.h promises an
  address there, the code has a TODO).
* *kmalloc sizes* (`BlockHoldsRequest`). The mask rounds most sizes down.
* *SPLIT_PEBBLE* (`SplitFits`). Shrinking a block of 16384 bytes to 8001 twice
  wraps the size of the tail. A shrunk block's tail also keeps its in-use flag
  and is lost until the machine stops.
What `boot` shows beside: the nine frames that `add_frame_region` lets in are
enough for every set of missing tables, with one to spare; and that one matters,
since it is the page that holds the list when `entries[1]` is the region chosen
(`FramesSuffice`). One more frame taken at boot would break it. The table's limit is
computed with the wrong size, which hides the vectors from 160 on and none of the
exceptions. The frame that the stubs build is the same for all exceptions, but one word
off `isr_stack_frame_t`, which has a `cr1` where the code pushes two words; nothing reads the
frame so far (`EveryException`).

Other facts that the passing runs rest on: `largest_free` counts pebbles in use, so it
overestimates and never hides room, which is what `GrowsForNeed` needs. On a screen
that is no whole number of lines high a scroll neither moves nor clears the last pixel rows, so
`Window` is about the other screens. A stale translation leads to no frame in use
(`StaleApart`) only because `unmap_page` loses the frame: returning it, as its comment
says, would need a flush. `itoa` is right in every base and for every buffer but for
the longest negative numbers, which need a zeroed one, and `INT64_MIN` (`WritesNumeral`). In
a format, a letter `i`, `u`, `h`, `l` or `p` of the text right after a number is taken for a flag
(`Unambiguous`), and a text of exactly 1024 bytes has no terminator (`Contained`). `println` ends with a
space and a line break (`tty_break`, framebuffer.c:126), where printf.h:19 says a new line character;
`PrintsPieces` states what the code does.

Every property of a passing run has a mutant: a named operator next to the
definition it alters, in the same module (`PopSigned`, `SplitNoBacklink`, ...),
with which TLC finds the property violated.

## 4. Proofs

`FrameAllocProofs` proves for every set of regions, list address, number of
slots, word width and cap that satisfy `ListAssumption` and
`RegionAssumption`:

* `TypeCorrect`, `ListSafe` (`ListShape`), `OneOwnerEach` (`OneOwner`),
  `ExhaustedSafe`, `NoFrameTwice` and `Refinement` (`Spec => IsStack`).

The inductive invariant `IInv` adds to the properties what they leave open:
held frames are pages of the region, that is, not addresses of the list
(`HeldInRegion`, needed once the list is exhausted and `OneOwner` is silent);
nobody holds a frame before the fill ends (`Unused`); while filling, slot `i`
holds page `i` of the region and the loop offset is `numFrames` pages
(`Filling`), which is why no frame is pushed twice; and the three states of an
exhausted list (`AfterEmpty`). The assumptions used are
that the slots hold more than `FRAME_CAP` frames and that physical frames lie
below the list's direct-map address.

`TtyProofs` proves `CursorInBounds` for every screen and font with room for one
glyph, and `WindowOfLines` for the pixels. `CursorInv` is `TypeOK` with `InBounds`
and the bound on `x` that the wrap keeps; `WindowInv` describes the ink of each
row by its distance from the cursor, with the cursor on a line boundary and
never below the last line but one when the screen scrolls.

`HeapLockProofs` proves for every set of cores, sizes and pointers, and any bound on the
calls, `TypeCorrect`, `MutualExclusion` (`Mutex`),
`DisjointRegions` (`RegionsApart`) and `Refinement` (`Spec => IsAtomic`). `Mutex`, which ties
the bit to the cores inside, is inductive with the types; for the regions `LInv` adds that the
region of the core inside ends at `K_HEAP_END` once it has added its pages (`Current`), and that
all regions handed out lie below it (`Below`). In the refinement a call takes effect at
`Add`: from there to `Unlock` its region counts as granted. Nothing in the argument depends on
`rax`, so the stray wait can cost time or a core and never a region.

`VmmProofs` proves for every region, fan-out of the tables, boot layout, set of sizes and
sequence of calls `VmmTyped` (`TypeOK`), `VmmOneUse`, `VmmTablesInRam`, `VmmFrameAccounting`,
`VmmStaleApart`, `VmmMappingsKept` and the action property `VmmOtherPagesKept`. Its lemmas
come in three layers:

* *The list.* It is in one of three states: `Filled` with n frames, `Drained` by the pop that
  found it empty, `Dead` after the one that answered with the address of `nextFree`
  (`Bogus` is the page of that address). `PopList` says which state a pop leads to and what it
  returns.
* *The tree.* `Leads` turns the tables into a relation between entries and addresses. `Linked`
  and `Written` describe the only two writes, a new table hung from an entry and a leaf entry
  set or cleared; `LinkSound`, `LinkWalks`, `WriteSound` and `WriteWalks` say what they do to
  the levels, to `Tree` and to the walk of every address.
* *The operations.* `ChildGrows` and `WalkGrows` take map_to_page down the levels: frames of the
  list become tables and no translation changes. `AllocPage` and `UnmapPage` add the leaf
  entry, and say which frames come into use, which go, and that at most one page is mapped
  differently (`Moves`). `OnePage` has the arithmetic: addresses below 4096 FANOUT^4 with the
  same four indices lie in one page.

The inductive invariant `VInv` is stronger than the properties in four places. `OneUse` and
`TablesInRam` are not inductive alone: that no table is bogus holds because a walk starts with the
pop of the data page, so that within the walk the list is never `Drained`, and the bogus page can
be mapped only when the list is `Dead`, which says that it is popped once (`OK`). `StaleApart`
needs to know that what the TLB holds are frames, or the bogus page after that pop
(`Tlb`): a frame that is out of use never comes back, since no step puts one on the list.
`MappingsKept` needs that live regions and the region of a running loop are disjoint, lie between
`KHEAPSTART` and `K_HEAP_END` and begin at the same offset of their pages (`Heap`, `Regions`,
`Loop`), so that no two of them share a page, and that the boot loader maps nothing above the image
(`Image`). `FrameAccounting` is kept by counting: an operation gives up at most one frame of the
region, which was in use before (`CountLost`).

`VmmAssumption` is what the proofs ask of the constants: the frames of the region are RAM, not the
PML4, and fit the slots; the boot loader's tables are a tree with a frame of its own under
each entry, outside the region, that maps nothing above the kernel image; and the heap stays within
the address space. The loader's second mapping of all RAM, at the direct-map
offset, is left out of the tables (no operation of vmm.c changes it; the one of kernel.c:62 that does is in
`Boot`), and is why the first of these can be asked. What an uncleared frame holds (`JunkTable`) is arbitrary.

`BootProofs` proves for every set of answers, memory map, choice of missing tables and end of
the image `BootTyped`, `BootFramesSuffice`, `BootRegionSound`, `BootLineSet` and
`BootEveryException`. `BInv` says that the list is always the first pages of the region chosen and
the rest of the nine is handed out (`Laid`), and how many are left at the steps that still need
some (`Supply`); at which steps the registers of the serial port are set (`Serial`);
and that the table is none or the one assembled (`Tables`). That the page of the list is not handed
out then follows from the order of the pages, and that the region is usable from the least indices
that `read_memory_map` picks. The frame layout is proved vector by vector for both kinds of
stub. `BootAssumption` asks of a memory map what the boot protocol promises of it: at least two
entries, page-aligned, usable ones overlapping no other.

`BucketAllocProofs` proves for every start and end of the heap, word width, set of sizes and number
of blocks `NeverStuckHolds`, `TilingHolds`, `BlocksSafeHolds`, `CoalescedHolds`, `BucketChainHolds`
and the action properties `OthersKeptHolds` and `GrowsForNeedHolds`. As the properties themselves,
the theorems are about histories in which every size is one that the arithmetic gets right and krealloc's
copies stay within the buckets (`clean`); what happens with other sizes is what `bucket_holds` and
`bucket_split` show, and a copy that leaves the buckets faults. `HeapAssumption`
asks that the heap does not begin at NULL, that the bucket of `kmalloc_init` fits below `MAXHEAP`, and
that a word holds twice any address of the heap, so that no sum of two sizes wraps. The argument goes
in four layers, the first two in `HeapLayoutProofs`:

* *Traversals.* `Hops` is a recursive function over the number of hops. `CanHop` shows that the
  equation which defines it has a solution (there is no least length without one), `HopsAre` unfolds
  it, and `WalkList` says what a traversal visits: when the links lead up in some rank, all members of
  the list, and then NULL, within as many hops as there are headers (by the pigeonhole principle). The rank
  is the address for the pebbles of a bucket (`PebbleList`), and for the chain of buckets it is the
  reverse, behind the first one, since insert_bucket puts each new bucket second (`BucketList`).
* *Layout.* `Layout` describes ps and bs without traversals: each pebble lies in its bucket
  and touches the ones that it is linked to (`PebbleOK`), no two headers or buckets overlap, a bucket
  begins with a pebble. `Splits`, `Merges`, `Marks` and `Refreshes` are the four ways in which headers
  change; a split, a merge, a flag and a refreshed cache keep the layout.
* *Operations.* One lemma for each function: `PlacePebble`, `GrowHeap` (create_bucket and insert_bucket),
  `KmallocIs`, `MeltPrev`, `AbsorbNext`, `ReleaseIs`, `KfreeIs`, and `Shrinks`, `Moves` and `Frees` for
  krealloc. `SplitRoom` has the arithmetic of SPLIT_PEBBLE, and `ClearKeeps` and `CopyKeeps` show
  that memset and memcpy of a block reach no header. `Kept` carries the headers in use through all of them.
* *Calls.* `Called` is what the three have in common, so that `HeldKept` and `LiveKept` need one proof.

The inductive invariant `HInv` is stronger than the properties in three places. `Cached` says that
`largest_free` is at least the size of every pebble of the bucket, in use or not, which is why a merge that
would make it too small refreshes it and a shrinking krealloc, which refreshes nothing, does no
harm; `GrowsForNeed` follows. `Chain` has the order of the buckets, which `NeverStuck` needs for the
traversal of the chain to end. And kfree passes through heaps that are not `Merged`: `MergedBut` allows
the pebble just freed to have free neighbours, and `UsedBefore` what melt_prev has settled of
them when absorb_next begins. That the end of the heap moves only in create_bucket (`EndFields` to `EndFreeOld`)
holds in every heap, since `GrowsForNeed` is also about the step that ends a clean history.

`PrintfProofs` proves for every memory, every pair of texts, all 2^64 values, all bases and buffers with
room, and every format of any length, `MovesBytesHolds`, `FindsFirstHolds`, `WritesNumeralHolds` and
`PrintsPiecesHolds`; and `HeldHolds`, the safety half of `Contained`: for every size of the buffer,
_vprintf stays in it when the text is shorter. The assumptions are those on the calls, above. In five layers:

* *Loops.* `Turns` are the states of a loop, one for each turn. `CanTurn` and `SameTurns` say that a
  loop has them and no others, and `Induct` is induction over the turns, with the set of the turns that have
  a property in place of the property: the set needs no schema, and a least element outside it is the
  contradiction (`HasLeast`). Copies go up or down, and `CopiesUp` and `CopiesDown` say that no byte is
  read after it was overwritten, which is where the direction of memmove matters. A state of strstr's search is
  a place with a partial match behind it and no occurrence further left (`Found`), and every turn makes a
  step of at most (Len(hay) + 1) (Len(needle) + 1) (`Steps`).
* *Numbers.* `Num` is the value of four limbs, `NumDivides` long division. `Remainders` is the chain of
  quotients from the value down to zero; that it has at most as many links as the table of digits
  says follows from the powers of the base (`DigitsEnough`), row by row of the table.
* *Numerals.* `NumeralIs` reads a chain back from the left and gets the value. `UtoaWrites`, `ItoaWrites`,
  `ItoaWritesSign` and `UltoaWrites` say that the buffer holds just the chain's characters and where
  the terminator is: for the longest negative numbers it is one byte behind the cleared ones.
* *Pieces.* `Concats` joins the fields of the pieces; `ConcatChars` finds each piece in the format. `Kinds`
  says what the first two characters tell of a piece.
* *The loop of _vprintf.* `Progress` is its invariant: a turn begins between two pieces, with the
  arguments and the text of the pieces behind it, or one character further, behind a sign that
  was dropped because no specifier follows. There is one lemma for each action (`PlainStep`, `PercentStep`,
  `StringStep`, `NumberStep`, `UnknownStep`, `EndStep`). `NumberStep` is the one that needs `Unambiguous`: the loop over the
  flags stops where the piece ends (`FlagsAre`).

`PrintfInv` puts these together: what a finished call has returned (`PureInv`), `Progress` while
_vprintf runs (`PrintInv`), and no step outside the buffer (`HeldInv`), which needs that what has been
printed is never longer than what is to be printed (`LoopShort`).

All inductive invariants but `PrintfInv`, which quantifies over the joined pieces, were also checked by TLC as
invariants of the runs.

Only model-checked: liveness under fairness (`BootCompletes`, `FaultReported`, `SomeoneEnters`, `Contained`),
which is beyond the prover. Induction with a property as a parameter is too; where the code needs
induction over data (`HopsAre`, `WalkList`, `Induct`), a least counterexample takes its place.

## 5. Not modelled

* Code that the kernel never calls: `clear_tty_line`, `draw_char`,
  `create_kernel_page_tables`, `identity_map_page`, `get_frame_status`,
  `idt_allocate_vector`, `idt_free_vector`, `memcmp`, `checkStringEndsWith`, `uitoa` and
  `iltoa` (the loop of `ultoa` again), and the copies in `src/libc`.
* Stubs that change nothing: `atoi`, `free_page`, `init_frame_bitmap`.
* The way back from an exception (`popacrd`, `popagrd`, `iretq`), which is never
  taken.
* `BucketAlloc` over the pages of `Vmm`. With `mmap` as it is every bucket has one page, and
  every bucket of more faults at the first touch of its second: the run would repeat `vmm_backed`.
* The totals that `read_memory_map` prints: it declares `ultoa` with an `int`, and the
  number of bytes it prints is called KiB.
* The build files and the boot loader.

## 6. Plan

All safety properties of the runs are proved. Liveness stays with TLC. Steps worth taking with changes to the code: when
`mmap` maps all pages of a region, `BucketAlloc` over the pages of `Vmm`; when `unmap_page` returns frames,
a TLB flush in `Vmm`, without which `StaleApart` fails.
