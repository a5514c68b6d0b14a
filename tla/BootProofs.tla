----------------------------- MODULE BootProofs -----------------------------
(***************************************************************************)
(* Proofs about Boot for every set of boot loader's answers, every memory   *)
(* map, every number of missing tables and every end of the kernel image    *)
(* that satisfy BootAssumption: the frames of the region suffice, all of    *)
(* them are usable memory, the serial line is set up before it is used, and *)
(* every exception finds its gate.                                          *)
(***************************************************************************)
EXTENDS Boot, SequenceTheorems, WellFoundedInduction, TLAPS

-----------------------------------------------------------------------------
(* The inductive invariant.                                                 *)

\* The entry that the frames come from, and the k-th page of it.
Chosen == read_memory_map(env.map)
Page(k) == env.map[Chosen].base + 4096 * (k - 1)

\* What the boot loader left is one of the environments of Init.
EnvOK ==
  /\ env.map \in Maps
  /\ env.missing.virt \in 0 .. 3 /\ env.missing.heap \in 0 .. 2
  /\ env.kend \in 0 .. 4095 /\ env.tail \subseteq KernelVars
  /\ env.kend # 0 => env.missing.heap = 0

\* The pages on the list are the first ones of the region, and the rest of the
\* nine is handed out.
Laid ==
  /\ Chosen # Null
  /\ place = env.map[2].base
  /\ Len(list) \in 1 .. 9
  /\ \A k \in 1 .. Len(list) : list[k] = Page(k)
  /\ handed = {Page(k) : k \in Len(list) + 1 .. 9}

\* Before init_frame_list nothing is on the list, and after it enough for the
\* steps that are still to come.
Before == {"entry", "serial", "font", "answers", "tty", "idt", "map"}

Supply ==
  /\ starved = FALSE
  /\ (list = << >> /\ handed = {}) \/ Laid
  /\ pc \in Before => list = << >> /\ handed = {} /\ place = Null
  /\ pc = "virt" => Laid /\ Len(list) = 9
  /\ pc = "vmm" => Laid /\ Len(list) >= 5
  /\ pc = "kmalloc_init" => Laid /\ Len(list) >= 2

\* The registers of the serial port when init_serial is through, and on the way.
Line ==
  [data |-> 0, ier |-> 0, low |-> 3, high |-> 0, fcr |-> 199, lcr |-> 3, mcr |-> 11]

Regs(w, f, l, m) ==
  [data |-> 0, ier |-> 0, low |-> w, high |-> 0, fcr |-> f, lcr |-> l, mcr |-> m]

Serial ==
  /\ pc = "entry" => uart = ResetLine
  /\ pc \in {"serial", "font", "answers", "tty"} \/ console => uart = Line

Tables == idt \in {NoTable, idt_assemble}

BInv == TypeOK /\ EnvOK /\ Supply /\ Serial /\ Tables

-----------------------------------------------------------------------------
(* The memory map and the region chosen from it.                            *)

LessThan == {p \in Nat \X Nat : p[1] < p[2]}

\* A set of numbers that is not empty has a least element, and Least is it.
LEMMA LeastIsLeast ==
  ASSUME NEW S, S \subseteq Nat, S # {}
  PROVE  Least(S) \in S /\ \A j \in S : Least(S) <= j
<1>1. IsWellFoundedOn(LessThan, Nat)
  BY NatLessThanWellFounded, Zenon DEF OpToRel, LessThan
<1>2. PICK x \in S : \A y \in S : ~ (<<y, x>> \in LessThan)
  BY <1>1, WFMin
<1>3. ASSUME NEW y \in S
      PROVE  x <= y
  <2>1. x \in Nat /\ y \in Nat
    OBVIOUS
  <2>2. <<y, x>> \in LessThan <=> y < x
    BY <2>1 DEF LessThan
  <2> QED
    BY <1>2, <2>1, <2>2
<1> QED
  BY <1>3 DEF Least

\* What BootAssumption says of one map.
LEMMA MapFacts ==
  ASSUME NEW m \in Maps
  PROVE  /\ Len(m) \in Nat /\ Len(m) >= 2 /\ DOMAIN m = 1 .. Len(m)
         /\ \A i \in DOMAIN m : /\ m[i].base \in Nat \ {0} /\ m[i].length \in Nat
                                /\ m[i].type \in EntryTypes
         /\ \A i \in DOMAIN m : \A j \in DOMAIN m \ {i} : m[j].type = "usable" =>
              m[i].base < m[j].base \/ m[j].base + m[j].length <= m[i].base
<1>1. m \in Seq(MemmapEntries) /\ Len(m) >= 2
  BY BootAssumption
<1>2. Len(m) \in Nat /\ DOMAIN m = 1 .. Len(m)
  BY <1>1, LenProperties
<1>3. ASSUME NEW i \in DOMAIN m
      PROVE  m[i] \in MemmapEntries
  BY <1>1, <1>2, <1>3, ElementOfSeq
<1>4. \A e \in MemmapEntries :
        e.base \in Nat \ {0} /\ e.length \in Nat /\ e.type \in EntryTypes
  BY DEF MemmapEntries
<1>5. \A i \in DOMAIN m : \A j \in DOMAIN m \ {i} : m[j].type = "usable" =>
        m[i].base < m[j].base \/ m[j].base + m[j].length <= m[i].base
  BY BootAssumption
<1> QED
  BY <1>1, <1>2, <1>3, <1>4, <1>5

\* The region that read_memory_map returns is usable, has more than 500 pages
\* and is not the first usable entry.
LEMMA ChosenRegion ==
  ASSUME NEW m \in Maps, read_memory_map(m) # Null
  PROVE  /\ read_memory_map(m) \in Usable(m)
         /\ read_memory_map(m) \in DOMAIN m
         /\ read_memory_map(m) # Least(Usable(m))
         /\ m[read_memory_map(m)].base \in Nat
         /\ m[read_memory_map(m)].length \in Nat
         /\ m[read_memory_map(m)].length >= 501 * 4096
<1> DEFINE big == {i \in Usable(m) : /\ \E j \in Usable(m) : j < i
                                     /\ m[i].length \div 4096 > 500}
           r == read_memory_map(m)
<1>1. Usable(m) \subseteq DOMAIN m /\ DOMAIN m \subseteq Nat
  BY MapFacts DEF Usable
<1>2. big # {} /\ r = Least(big)
  BY DEF read_memory_map
<1>3. r \in big
  BY <1>1, <1>2, LeastIsLeast
<1>4. r \in Usable(m) /\ r \in DOMAIN m /\ r \in Nat
  BY <1>1, <1>3
<1>5. PICK j \in Usable(m) : j < r
  BY <1>3
<1>6. Least(Usable(m)) <= j /\ Least(Usable(m)) \in Nat
  BY <1>1, <1>5, LeastIsLeast
<1>7. m[r].base \in Nat /\ m[r].length \in Nat
  BY <1>4, MapFacts
<1>8. m[r].length \div 4096 > 500
  BY <1>3
<1>9. m[r].length >= 501 * 4096
  BY <1>7, <1>8
<1> QED
  BY <1>1, <1>4, <1>5, <1>6, <1>7, <1>9

\* The caps let nine pages of such a region in.
LEMMA NinePages ==
  ASSUME NEW m \in Maps, read_memory_map(m) # Null, NEW s,
         s = add_frame_region(m[read_memory_map(m)])
  PROVE  /\ \A k \in 1 .. 9 : s[k] = m[read_memory_map(m)].base + 4096 * (k - 1)
         /\ s \in Seq(Nat) /\ Len(s) = 9
<1> DEFINE g == m[read_memory_map(m)]
           K == {k \in 1 .. 101 : /\ 4096 * (k - 1) < g.length
                                  /\ 4096 * (k - 2) < 30000 - 1}
<1>1. g.base \in Nat /\ g.length \in Nat /\ g.length >= 501 * 4096
  BY ChosenRegion
<1>2. s = [k \in K |-> g.base + 4096 * (k - 1)]
  BY DEF add_frame_region
<1> HIDE DEF g
<1>3. K = 1 .. 9
  BY <1>1
<1> HIDE DEF K
<1>4. s \in [1 .. 9 -> Nat]
  BY <1>1, <1>2, <1>3
<1>5. s \in Seq(Nat)
  BY <1>4, 9 \in Nat, SeqDef, Zenon
<1>6. DOMAIN s = 1 .. 9
  BY <1>4
<1>7. Len(s) = 9
  BY <1>5, <1>6, LenProperties
<1>8. \A k \in 1 .. 9 : s[k] = g.base + 4096 * (k - 1)
  BY <1>2, <1>3
<1> QED
  BY <1>5, <1>7, <1>8 DEF g

-----------------------------------------------------------------------------
(* The frames.                                                              *)

\* The pages of the chosen region are numbers, and different ones.
LEMMA PageFacts ==
  ASSUME EnvOK, Chosen # Null
  PROVE  /\ \A k \in 1 .. 9 : Page(k) \in Nat
         /\ \A j, k \in 1 .. 9 : Page(j) = Page(k) => j = k
BY ChosenRegion DEF EnvOK, Chosen, Page

\* n pops that leave a frame take the last n pages of those on the list.
LEMMA PopLaid ==
  ASSUME EnvOK, Laid, list \in Seq(Nat), starved = FALSE, NEW n \in Nat, n < Len(list),
         PopFrames(n), UNCHANGED <<env, place>>
  PROVE  /\ Laid' /\ Len(list)' = Len(list) - n
         /\ list' \in Seq(Nat) /\ handed' \subseteq Nat /\ starved' = FALSE
<1>0. PICK l \in 1 .. 9 : l = Len(list)
  BY DEF Laid
<1> DEFINE left == l - n
<1>1. left \in 1 .. 9 /\ left <= l /\ left \in 1 .. l /\ ~(n > l)
  <2>1. n < l
    BY <1>0
  <2> HIDE <1>0
  <2> QED
    BY <2>1
<1>2. /\ list' = SubSeq(list, 1, left)
      /\ handed' = handed \cup {list[i] : i \in left + 1 .. l}
      /\ starved' = FALSE
  BY <1>0, <1>1 DEF PopFrames
<1> HIDE DEF left
<1>3. /\ list' \in Seq(Nat) /\ Len(list') = left
      /\ \A k \in 1 .. left : list'[k] = list[k]
  BY <1>0, <1>1, <1>2, SubSeqProperties
<1>4. Chosen' = Chosen /\ \A k : Page(k)' = Page(k)
  BY DEF Chosen, Page
<1>5. handed' = {Page(k) : k \in left + 1 .. 9}
  <2>1. \A i \in left + 1 .. l : i \in 1 .. l
    BY <1>1
  <2>2. {list[i] : i \in left + 1 .. l} = {Page(k) : k \in left + 1 .. l}
    BY <1>0, <2>1 DEF Laid
  <2>3. \A k : k \in left + 1 .. 9 <=> k \in left + 1 .. l \/ k \in l + 1 .. 9
    BY <1>1
  <2>4. handed = {Page(k) : k \in l + 1 .. 9}
    BY <1>0 DEF Laid
  <2> QED
    BY <1>2, <2>2, <2>3, <2>4, Zenon
<1>6. handed' \subseteq Nat
  <2>1. \A k \in left + 1 .. 9 : k \in 1 .. 9
    BY <1>1
  <2>2. \A k \in left + 1 .. 9 : Page(k) \in Nat
    BY <2>1, PageFacts DEF Laid
  <2> QED
    BY <1>5, <2>2
<1>7. Laid'
  <2>1. \A k \in 1 .. left : k \in 1 .. l
    BY <1>1
  <2>2. \A k \in 1 .. Len(list') : list'[k] = Page(k)'
    BY <2>1, <1>0, <1>3, <1>4 DEF Laid
  <2>3. handed' = {Page(k)' : k \in Len(list') + 1 .. 9}
    BY <1>3, <1>4, <1>5
  <2>4. Chosen' # Null /\ place' = env'.map[2].base /\ Len(list') \in 1 .. 9
    BY <1>1, <1>3, <1>4 DEF Laid
  <2> QED
    BY <2>2, <2>3, <2>4 DEF Laid
<1> QED
  BY <1>0, <1>2, <1>3, <1>6, <1>7 DEF left

\* A step that leaves the frames alone and does not enter a step that needs
\* them keeps the supply.
LEMMA SupplyKept ==
  ASSUME BInv, UNCHANGED <<env, frames>>,
         \/ pc' = pc
         \/ /\ pc' \notin {"virt", "vmm", "kmalloc_init"}
            /\ pc' \in Before => pc \in Before
  PROVE  EnvOK' /\ Supply'
<1>1. list' = list /\ place' = place /\ handed' = handed /\ starved' = starved /\ env' = env
  BY DEF frames
<1>2. EnvOK' /\ (Laid' <=> Laid)
  BY <1>1 DEF BInv, EnvOK, Laid, Chosen, Page
<1> QED
  BY <1>1, <1>2 DEF BInv, Supply

-----------------------------------------------------------------------------
(* The invariant is inductive.                                              *)

\* BInv holds at the entry of the kernel.
LEMMA BootInit == Init => BInv
<1> SUFFICES ASSUME Init PROVE BInv
  OBVIOUS
<1>1. EnvOK
  <2>1. PICK a \in Answers, m \in Maps, t \in Missing, e \in Ends, d \in BOOLEAN :
          env = [answers |-> a, map |-> m, missing |-> t, kend |-> e.kend, tail |-> e.tail,
                 direct |-> d]
    BY DEF Init
  <2>2. /\ t.virt \in 0 .. 3 /\ t.heap \in 0 .. 2
        /\ e.kend \in 0 .. 4095 /\ e.tail \subseteq KernelVars
    BY BootAssumption
  <2>3. env.kend # 0 => env.missing.heap = 0
    BY DEF Init
  <2> QED
    BY <2>1, <2>2, <2>3 DEF EnvOK
<1>2. TypeOK
  <2>1. << >> \in Seq(Nat) /\ Len(<< >>) = 0
    OBVIOUS
  <2>2. ready \in BOOLEAN /\ 0 \in 0 .. MAXNEST
    BY BootAssumption DEF Init
  <2>3. 0 \in Exceptions
    BY DEF Exceptions, IDT_CPU_EXCEPTION_COUNT
  <2>4. /\ ready \in BOOLEAN /\ starved \in BOOLEAN /\ console \in BOOLEAN
        /\ returned \in BOOLEAN /\ shadow \in BOOLEAN
    BY <2>2 DEF Init
  <2>5. list \in Seq(Nat) /\ Len(list) <= 9 /\ place \in Nat /\ handed \subseteq Nat
    BY <2>1 DEF Init, Null
  <2>6. pc \in Steps /\ came \subseteq {"nmi", "irq"} /\ {pte, tlb, written} \subseteq HeapFrames
    BY DEF Init, Steps, HeapFrames
  <2>7. vec \in Exceptions /\ nest \in 0 .. MAXNEST
    BY <2>2, <2>3 DEF Init
  <2> QED
    BY <2>4, <2>5, <2>6, <2>7, Zenon DEF TypeOK
<1>3. Supply
  BY DEF Init, Supply, Before
<1>4. Serial /\ Tables
  BY DEF Init, Serial, Tables
<1> QED
  BY <1>1, <1>2, <1>3, <1>4 DEF BInv

\* The seven writes of init_serial, each to the register that the divisor latch
\* bit selects.
LEMMA SerialSet == init_serial(ResetLine) = Line
<1>1. ResetLine = Regs(12, 0, 0, 0) /\ Line = Regs(3, 199, 3, 11)
  BY DEF ResetLine, Line, Regs
<1>2. outb(Regs(12, 0, 0, 0), 1, 0) = Regs(12, 0, 0, 0)
  <2>1. Register(Regs(12, 0, 0, 0), 1) = "ier"
    BY DEF Register, Regs
  <2> QED
    BY <2>1 DEF outb, Regs
<1>3. outb(Regs(12, 0, 0, 0), 3, 128) = Regs(12, 0, 128, 0)
  <2>1. Register(Regs(12, 0, 0, 0), 3) = "lcr"
    BY DEF Register, Regs
  <2> QED
    BY <2>1 DEF outb, Regs
<1>4. outb(Regs(12, 0, 128, 0), 0, 3) = Regs(3, 0, 128, 0)
  <2>1. Register(Regs(12, 0, 128, 0), 0) = "low"
    BY DEF Register, Regs
  <2> QED
    BY <2>1 DEF outb, Regs
<1>5. outb(Regs(3, 0, 128, 0), 1, 0) = Regs(3, 0, 128, 0)
  <2>1. Register(Regs(3, 0, 128, 0), 1) = "high"
    BY DEF Register, Regs
  <2> QED
    BY <2>1 DEF outb, Regs
<1>6. outb(Regs(3, 0, 128, 0), 3, 3) = Regs(3, 0, 3, 0)
  <2>1. Register(Regs(3, 0, 128, 0), 3) = "lcr"
    BY DEF Register, Regs
  <2> QED
    BY <2>1 DEF outb, Regs
<1>7. outb(Regs(3, 0, 3, 0), 2, 199) = Regs(3, 199, 3, 0)
  <2>1. Register(Regs(3, 0, 3, 0), 2) = "fcr"
    BY DEF Register, Regs
  <2> QED
    BY <2>1 DEF outb, Regs
<1>8. outb(Regs(3, 199, 3, 0), 4, 11) = Regs(3, 199, 3, 11)
  <2>1. Register(Regs(3, 199, 3, 0), 4) = "mcr"
    BY DEF Register, Regs
  <2> QED
    BY <2>1 DEF outb, Regs
<1> QED
  BY <1>1, <1>2, <1>3, <1>4, <1>5, <1>6, <1>7, <1>8 DEF init_serial

\* Faults are exceptions.
LEMMA VectorsTyped ==
  BadPointer \cup {8, 13, 14} \subseteq Exceptions /\ {14} \subseteq Exceptions /\ 2 \in Exceptions
BY DEF BadPointer, Exceptions, IDT_CPU_EXCEPTION_COUNT

\* Every step of the boot keeps BInv.
LEMMA BootStep == BInv /\ [Next]_vars => BInv'
<1> SUFFICES ASSUME BInv, [Next]_vars PROVE BInv'
  OBVIOUS
<1> USE DEF BInv
<1>0. TypeOK
  BY Zenon
<1>1. CASE Entry
  <2>1. EnvOK' /\ Supply'
    BY <1>1, SupplyKept DEF Entry, Before
  <2>2. TypeOK'
    BY <1>1 DEF Entry, TypeOK, Steps, frames, screen, traps, pages
  <2>3. Serial' /\ Tables'
    BY <1>1, SerialSet DEF Entry, Serial, Tables, screen, Steps, TypeOK
  <2> QED
    BY <2>1, <2>2, <2>3
<1>2. CASE WriteSerial \/ FetchFont \/ CheckAnswers
  <2>1. EnvOK' /\ Supply'
    BY <1>2, SupplyKept DEF WriteSerial, FetchFont, CheckAnswers, Before
  <2>2. TypeOK' /\ Serial' /\ Tables'
    BY <1>2 DEF WriteSerial, FetchFont, CheckAnswers, TypeOK, Steps, frames, screen, traps,
       pages, Serial, Tables
  <2> QED
    BY <2>1, <2>2
<1>3. CASE InitTty \/ IdtAssemble
  <2>1. EnvOK' /\ Supply'
    BY <1>3, SupplyKept DEF InitTty, IdtAssemble, Before
  <2>2. TypeOK'
    BY <1>3 DEF InitTty, IdtAssemble, TypeOK, Steps, frames, screen, traps, pages
  <2>3. Serial' /\ Tables'
    BY <1>3 DEF InitTty, IdtAssemble, Serial, Tables, screen
  <2> QED
    BY <2>1, <2>2, <2>3
<1>4. CASE InitFrameList
  <2>1. PICK m \in Maps : m = env.map
    BY DEF EnvOK
  <2>2. m[2].base \in Nat /\ place' = m[2].base /\ env' = env
    BY <1>4, <2>1, MapFacts DEF InitFrameList
  <2>3. handed' = {} /\ starved' = FALSE /\ list = << >>
    BY <1>4 DEF InitFrameList, Supply, Before
  <2>4. CASE pc' = "fault" /\ vec' \in {14} /\ list' = list
    BY <1>4, <2>2, <2>3, <2>4, VectorsTyped
    DEF InitFrameList, TypeOK, EnvOK, Supply, Serial, Tables, Before, Steps, screen, pages
  <2>5. CASE /\ read_memory_map(m) # Null
             /\ list' = add_frame_region(m[read_memory_map(m)])
             /\ pc' \in {"virt", "wild"} /\ vec' = vec
    <3> DEFINE r == read_memory_map(m)
    <3>1. /\ \A k \in 1 .. 9 : list'[k] = m[r].base + 4096 * (k - 1)
          /\ list' \in Seq(Nat) /\ Len(list') = 9
      BY <2>5, NinePages
    <3>2. Chosen' = r /\ Chosen' # Null /\ \A k : Page(k)' = m[r].base + 4096 * (k - 1)
      BY <2>1, <2>2, <2>5 DEF Chosen, Page
    <3>3. \A k \in 1 .. 9 : list'[k] = Page(k)'
      BY <2>1, <2>2, <3>1 DEF Chosen, Page
    <3>4. {Page(k)' : k \in 10 .. 9} = {}
      OBVIOUS
    <3>5. Laid'
      <4>1. Len(list)' = 9 /\ Len(list)' \in 1 .. 9
        BY <3>1
      <4>2. \A k \in 1 .. Len(list)' : list'[k] = Page(k)'
        BY <3>3, <4>1
      <4>3. handed' = {Page(k)' : k \in Len(list)' + 1 .. 9}
        BY <2>3, <3>4, <4>1
      <4> QED
        BY <2>1, <2>2, <3>2, <4>1, <4>2, <4>3 DEF Laid
    <3>6. Supply' /\ EnvOK'
      <4>1. Len(list)' = 9
        BY <3>1
      <4> QED
        BY <2>2, <2>3, <2>5, <4>1, <3>5 DEF Supply, EnvOK, Before
    <3>7. TypeOK'
      <4>1. pc' \in Steps /\ Len(list)' <= 9 /\ handed' \subseteq Nat
        BY <2>3, <2>5, <3>1 DEF Steps
      <4>2. UNCHANGED <<ready, console, returned, came, nest, pte, tlb, written, shadow, starved>>
        BY <1>4, Zenon DEF InitFrameList, screen, pages
      <4> QED
        BY <1>0, <2>2, <2>5, <3>1, <4>1, <4>2, Zenon DEF TypeOK
    <3>8. Serial' /\ Tables'
      BY <1>4, <2>5 DEF InitFrameList, Serial, Tables, screen
    <3> QED
      BY <3>6, <3>7, <3>8
  <2> QED
    BY <1>4, <2>1, <2>4, <2>5 DEF InitFrameList, Raise, GoOn
<1>5. CASE MapVirtAddr
  <2>1. PICK n \in 1 .. 4 : n = 1 + env.missing.virt
    BY DEF EnvOK
  <2>2. PICK l \in {9} : l = Len(list)
    BY <1>5 DEF MapVirtAddr, Supply
  <2>4. l - n \in 5 .. 9 /\ n \in Nat /\ n < l
    OBVIOUS
  <2>3. /\ Laid' /\ Len(list)' = l - n
        /\ list' \in Seq(Nat) /\ handed' \subseteq Nat /\ starved' = FALSE
    <3>1. n < Len(list) /\ PopFrames(n)
      BY <1>5, <2>1, <2>2, <2>4 DEF MapVirtAddr
    <3> QED
      BY <1>5, <2>2, <2>4, <3>1, PopLaid DEF MapVirtAddr, Supply, TypeOK
  <2>5. Supply' /\ EnvOK'
    BY <1>5, <2>3, <2>4 DEF MapVirtAddr, Supply, EnvOK, Before
  <2>6. TypeOK'
    <3>1. pc' \in Steps /\ Len(list)' <= 9
      BY <1>5, <2>3, <2>4 DEF MapVirtAddr, Steps
    <3>2. UNCHANGED <<ready, console, returned, came, vec, nest, place, pte, tlb, written>>
      BY <1>5, Zenon DEF MapVirtAddr, screen, traps
    <3>3. shadow' \in BOOLEAN
      BY <1>5, Zenon DEF MapVirtAddr
    <3> QED
      BY <1>0, <2>3, <3>1, <3>2, <3>3, Zenon DEF TypeOK
  <2>7. Serial' /\ Tables'
    BY <1>5 DEF MapVirtAddr, Serial, Tables, screen
  <2> QED
    BY <2>5, <2>6, <2>7
<1>6. CASE InitVmm
  <2>1. PICK n \in 1 .. 3 : n = 1 + env.missing.heap
    BY DEF EnvOK
  <2>2. PICK l \in 5 .. 9 : l = Len(list)
    BY <1>6 DEF InitVmm, Supply, Laid
  <2>4. l - n \in 2 .. 9 /\ n \in Nat /\ n < l
    OBVIOUS
  <2>3. /\ Laid' /\ Len(list)' = l - n
        /\ list' \in Seq(Nat) /\ handed' \subseteq Nat /\ starved' = FALSE
    <3>1. n < Len(list) /\ PopFrames(n)
      BY <1>6, <2>1, <2>2, <2>4 DEF InitVmm
    <3> QED
      BY <1>6, <2>2, <2>4, <3>1, PopLaid DEF InitVmm, Supply, TypeOK
  <2>5. Supply' /\ EnvOK'
    BY <1>6, <2>3, <2>4 DEF InitVmm, Supply, EnvOK, Before
  <2>6. pte' \in HeapFrames
    BY <1>6 DEF InitVmm, HeapFrames
  <2>7. TypeOK'
    <3>1. pc' \in Steps /\ Len(list)' <= 9
      BY <1>6, <2>3, <2>4 DEF InitVmm, Steps
    <3>2. UNCHANGED <<ready, console, returned, came, vec, nest, place, tlb, written, shadow>>
      BY <1>6, Zenon DEF InitVmm, screen, traps
    <3> QED
      BY <1>0, <2>3, <2>6, <3>1, <3>2, Zenon DEF TypeOK
  <2>8. Serial' /\ Tables'
    BY <1>6 DEF InitVmm, Serial, Tables, screen
  <2> QED
    BY <2>5, <2>7, <2>8
<1>7. CASE KmallocInit
  <2>1. PICK l \in 2 .. 9 : l = Len(list)
    BY <1>7 DEF KmallocInit, Supply, Laid
  <2>2. /\ Laid' /\ Len(list)' \in {l, l - 1}
        /\ list' \in Seq(Nat) /\ handed' \subseteq Nat /\ starved' = FALSE
    <3>1. 1 < l /\ 1 \in Nat
      OBVIOUS
    <3>2. /\ EnvOK /\ Laid /\ list \in Seq(Nat) /\ starved = FALSE /\ handed \subseteq Nat
          /\ UNCHANGED <<env, place>>
      BY <1>7 DEF KmallocInit, Supply, TypeOK
    <3>3. 1 < Len(list)
      BY <2>1, <3>1
    <3>4. CASE PopFrames(1)
      BY <2>1, <3>1, <3>2, <3>3, <3>4, PopLaid
    <3>5. CASE UNCHANGED <<list, handed, starved>>
      <4>1. Laid'
        BY <3>2, <3>5 DEF Laid, Chosen, Page
      <4> QED
        BY <2>1, <3>2, <3>5, <4>1
    <3> QED
      BY <1>7, <3>4, <3>5 DEF KmallocInit
  <2>3. pc' \in {"fault", "wild", "headers"} /\ vec' \in Exceptions
    BY <1>7, VectorsTyped DEF KmallocInit, Raise, GoOn, TypeOK
  <2>4. l - 1 \in 1 .. 9
    OBVIOUS
  <2>5. Supply' /\ EnvOK'
    BY <1>7, <2>2, <2>3 DEF KmallocInit, Supply, EnvOK, Before
  <2>6. TypeOK'
    <3>1. pc' \in Steps /\ Len(list)' <= 9
      BY <2>2, <2>3, <2>4 DEF Steps
    <3>2. UNCHANGED <<ready, console, returned, came, nest, place, tlb, written, shadow>>
      BY <1>7, Zenon DEF KmallocInit, screen
    <3>3. pte' = pte \/ pte' = "second"
      BY <1>7, Zenon DEF KmallocInit
    <3>4. pte' \in HeapFrames
      BY <1>0, <3>3 DEF TypeOK, HeapFrames
    <3> QED
      BY <1>0, <2>2, <2>3, <3>1, <3>2, <3>4, Zenon DEF TypeOK
  <2>7. Serial' /\ Tables'
    BY <1>7, <2>3 DEF KmallocInit, Serial, Tables, screen
  <2> QED
    BY <2>5, <2>6, <2>7
<1>8. CASE WriteHeaders \/ Kmalloc \/ Kfree \/ isr_exception_handler \/ Uncover
  <2>1. pc' \in {"fault", "wild", "kmalloc", "kfree", "done", "halted"} /\ vec' \in Exceptions
    BY <1>8, VectorsTyped DEF WriteHeaders, Kmalloc, Kfree, isr_exception_handler, Uncover, Raise, GoOn, TypeOK
  <2>2. EnvOK' /\ Supply'
    <3>1. UNCHANGED <<env, frames>>
      BY <1>8, Zenon DEF WriteHeaders, Kmalloc, Kfree, isr_exception_handler, Uncover
    <3> QED
      BY <2>1, <3>1, SupplyKept DEF Before
  <2>3. TypeOK'
    <3>1. returned' = returned \/ returned' \in BOOLEAN
      BY <1>8, Zenon DEF WriteHeaders, Kmalloc, Kfree, isr_exception_handler, Uncover, screen
    <3>2. /\ UNCHANGED <<ready, starved, console, came, pte, tlb, shadow>>
          /\ UNCHANGED <<list, place, handed, nest>>
      BY <1>8, Zenon DEF WriteHeaders, Kmalloc, Kfree, isr_exception_handler, Uncover, frames, screen, pages
    <3>3. pc' \in Steps
      BY <2>1 DEF Steps
    <3>4. written' = written \/ written' = Used
      <4>1. WriteHeaders => written' = written \/ written' = Used
        BY DEF WriteHeaders
      <4>2. Kmalloc \/ Kfree \/ isr_exception_handler \/ Uncover => written' = written
        BY Zenon DEF Kmalloc, Kfree, isr_exception_handler, Uncover, pages
      <4> QED
        BY <1>8, <4>1, <4>2, Zenon
    <3>5. written' \in HeapFrames
      <4>1. Used \in {pte, tlb}
        BY DEF Used
      <4> QED
        BY <1>0, <3>4, <4>1 DEF TypeOK
    <3> QED
      BY <1>0, <2>1, <3>1, <3>2, <3>3, <3>5, Zenon DEF TypeOK
  <2>4. Serial' /\ Tables'
    <3>1. UNCHANGED <<uart, console, idt>>
      BY <1>8, Zenon DEF WriteHeaders, Kmalloc, Kfree, isr_exception_handler, Uncover, screen
    <3> QED
      BY <2>1, <3>1 DEF Serial, Tables
  <2> QED
    BY <2>2, <2>3, <2>4
<1>9. CASE Deliver
  <2>1. pc' \in {"handler", "shutdown"} /\ nest' \in 0 .. MAXNEST
    BY <1>9, BootAssumption DEF Deliver, TypeOK
  <2>2. EnvOK' /\ Supply'
    BY <1>9, <2>1, SupplyKept DEF Deliver, Before
  <2>3. TypeOK' /\ Serial' /\ Tables'
    BY <1>9, <2>1 DEF Deliver, TypeOK, Steps, frames, screen, pages, Serial, Tables
  <2> QED
    BY <2>2, <2>3
<1>10. CASE Nmi \/ Irq
  <2>1. EnvOK' /\ Supply'
    BY <1>10, SupplyKept DEF Nmi, Irq, Before
  <2>2. Serial' /\ Tables'
    BY <1>10 DEF Nmi, Irq, screen, Serial, Tables
  <2>3. came' \subseteq {"nmi", "irq"}
    BY <1>0, <1>10, Zenon DEF Nmi, Irq, TypeOK
  <2>4. vec' \in Exceptions /\ pc' \in Steps
    BY <1>10, VectorsTyped DEF Nmi, Irq, Steps
  <2>5. UNCHANGED <<ready, list, place, handed, starved, console, returned, nest, pte, tlb, written, shadow>>
    BY <1>10, Zenon DEF Nmi, Irq, frames, screen, pages
  <2>6. TypeOK'
    BY <1>0, <2>3, <2>4, <2>5, Zenon DEF TypeOK
  <2> QED
    BY <2>1, <2>2, <2>6
<1>11. CASE SerialInput \/ Fill \/ Evict
  <2>1. EnvOK' /\ Supply'
    BY <1>11, SupplyKept DEF SerialInput, Fill, Evict
  <2>2. TypeOK'
    <3>1. /\ ready' = ready \/ ready' = TRUE
          /\ tlb' = tlb \/ tlb' = pte \/ tlb' = "none"
          /\ UNCHANGED <<pc, list, place, handed, starved, vec, nest, console, returned, came, pte, written, shadow>>
      BY <1>11, Zenon DEF SerialInput, Fill, Evict, frames, screen, traps, pages
    <3>2. tlb' \in HeapFrames
      BY <1>0, <3>1 DEF TypeOK, HeapFrames
    <3> QED
      BY <1>0, <3>1, <3>2, Zenon DEF TypeOK
  <2>3. Serial' /\ Tables'
    BY <1>11 DEF SerialInput, Fill, Evict, screen, Serial, Tables
  <2> QED
    BY <2>1, <2>2, <2>3
<1>12. CASE UNCHANGED vars
  <2>1. EnvOK' /\ Supply'
    BY <1>12, SupplyKept DEF vars
  <2>2. TypeOK' /\ Serial' /\ Tables'
    BY <1>12 DEF vars, TypeOK, frames, screen, traps, pages, Serial, Tables
  <2> QED
    BY <2>1, <2>2
<1> QED
  BY <1>1, <1>2, <1>3, <1>4, <1>5, <1>6, <1>7, <1>8, <1>9, <1>10, <1>11, <1>12
  DEF Next, KernelStep

\* BInv holds in every reachable state.
LEMMA BootInductive == Spec => []BInv
BY BootInit, BootStep, PTL DEF Spec

-----------------------------------------------------------------------------
(* The stack under an exception.                                            *)

\* What lies below the registers, with or without an error code of the
\* processor's.
Interrupted == <<"ss", "rsp", "rflags", "cs", "rip", "error_code", "vector">>

StackWord == {Interrupted[i] : i \in 1 .. 7} \cup {XframePushes[i] : i \in 1 .. 21}

\* The words of two sequences put together.
LEMMA Joined ==
  ASSUME NEW S, NEW p, NEW q, p \in Seq(S), q \in Seq(S)
  PROVE  /\ p \o q \in Seq(S) /\ Len(p \o q) = Len(p) + Len(q)
         /\ \A i \in 1 .. Len(p) : (p \o q)[i] = p[i]
         /\ \A i \in 1 .. Len(q) : (p \o q)[Len(p) + i] = q[i]
<1>0. Len(p) \in Nat /\ Len(q) \in Nat
  BY LenProperties
<1>1. p \o q \in Seq(S) /\ Len(p \o q) = Len(p) + Len(q)
  BY ConcatProperties
<1>2. \A i \in 1 .. Len(p) + Len(q) :
        (p \o q)[i] = IF i <= Len(p) THEN p[i] ELSE q[i - Len(p)]
  BY ConcatProperties
<1>3. PICK m \in Nat, n \in Nat : m = Len(p) /\ n = Len(q)
  BY <1>0
<1>4. ASSUME NEW i \in 1 .. n
      PROVE  (p \o q)[m + i] = q[i]
  <2>1. m + i \in 1 .. m + n /\ ~(m + i <= m) /\ (m + i) - m = i
    OBVIOUS
  <2> QED
    BY <1>2, <1>3, <2>1
<1>5. ASSUME NEW i \in 1 .. m
      PROVE  (p \o q)[i] = p[i]
  <2>1. i \in 1 .. m + n /\ i <= m
    OBVIOUS
  <2> QED
    BY <1>2, <1>3, <2>1
<1> QED
  BY <1>1, <1>3, <1>4, <1>5, Zenon

\* A sequence of m words of the stack, and one that is p followed by q.
Words(p, m) == p \in Seq(StackWord) /\ Len(p) = m
Joins(r, p, m, q, n) ==
  (\A i \in 1 .. m : r[i] = p[i]) /\ (\A i \in 1 .. n : r[m + i] = q[i])

\* Two runs of stack words, one after the other.
LEMMA JoinedAs ==
  ASSUME NEW p, NEW q, NEW m \in Nat, NEW n \in Nat, Words(p, m), Words(q, n)
  PROVE  Words(p \o q, m + n) /\ Joins(p \o q, p, m, q, n)
<1>1. p \in Seq(StackWord) /\ q \in Seq(StackWord)
  BY DEF Words
<1>2. p \o q \in Seq(StackWord) /\ Len(p \o q) = Len(p) + Len(q)
  BY <1>1, Joined
<1>3. \A i \in 1 .. Len(p) : (p \o q)[i] = p[i]
  BY <1>1, Joined
<1>4. \A i \in 1 .. Len(q) : (p \o q)[Len(p) + i] = q[i]
  BY <1>1, Joined
<1> QED
  BY <1>2, <1>3, <1>4, Zenon DEF Words, Joins

\* The stack has the same words in the same places for every vector.
LEMMA StackWords ==
  ASSUME NEW v \in Raised
  PROVE  LET s == CpuPushes(v) \o StubPushes(v) \o XframePushes IN
         /\ Len(s) = 28
         /\ \A i \in 1 .. 7 : s[i] = Interrupted[i]
         /\ \A i \in 1 .. 21 : s[7 + i] = XframePushes[i]
<1> DEFINE five == <<"ss", "rsp", "rflags", "cs", "rip">>
           err == <<"error_code">>
           vct == <<"vector">>
           x == CpuPushes(v) \o StubPushes(v)
<1>1. Words(five, 5) /\ Words(err, 1) /\ Words(vct, 1)
  BY DEF Words, StackWord, Interrupted
<1>2. /\ \A i \in 1 .. 5 : five[i] = Interrupted[i]
      /\ err[1] = Interrupted[6] /\ vct[1] = Interrupted[7]
  BY DEF Interrupted
<1>3. Words(XframePushes, 21)
  BY DEF Words, StackWord, XframePushes
<1>4. x = (five \o err) \o vct \/ x = five \o (err \o vct)
  <2> HIDE DEF five, err, vct
  <2>1. five \o << >> = five /\ << >> \o vct = vct
    BY <1>1, ConcatEmptySeq DEF Words
  <2> QED
    BY <2>1 DEF CpuPushes, StubPushes, CpuErrors, ErrStubs, five, err, vct
<1> HIDE DEF five, err, vct, x
<1>0. /\ 1 \in Nat /\ 2 \in Nat /\ 5 \in Nat /\ 6 \in Nat /\ 7 \in Nat /\ 21 \in Nat
      /\ 5 + 1 = 6 /\ 1 + 1 = 2 /\ 6 + 1 = 7 /\ 5 + 2 = 7 /\ 7 + 21 = 28
  OBVIOUS
<1>5. Words(x, 7) /\ \A i \in 1 .. 7 : x[i] = Interrupted[i]
  <2>1. CASE x = (five \o err) \o vct
    <3> DEFINE w == five \o err
    <3>1. Words(w, 6) /\ Joins(w, five, 5, err, 1)
      BY <1>0, <1>1, JoinedAs, Zenon
    <3> HIDE DEF w
    <3>2. Words(w \o vct, 7) /\ Joins(w \o vct, w, 6, vct, 1)
      BY <1>0, <1>1, <3>1, JoinedAs, Zenon
    <3>3. Words(x, 7) /\ Joins(x, w, 6, vct, 1)
      BY <2>1, <3>2, Zenon DEF w
    <3> QED
      BY <1>2, <3>1, <3>3 DEF Joins
  <2>2. CASE x = five \o (err \o vct)
    <3> DEFINE w == err \o vct
    <3>1. Words(w, 2) /\ Joins(w, err, 1, vct, 1)
      BY <1>0, <1>1, JoinedAs, Zenon
    <3> HIDE DEF w
    <3>2. Words(five \o w, 7) /\ Joins(five \o w, five, 5, w, 2)
      BY <1>0, <1>1, <3>1, JoinedAs, Zenon
    <3>3. Words(x, 7) /\ Joins(x, five, 5, w, 2)
      BY <2>2, <3>2, Zenon DEF w
    <3> QED
      BY <1>2, <3>1, <3>3 DEF Joins
  <2> QED
    BY <1>4, <2>1, <2>2
<1> DEFINE s == x \o XframePushes
<1>6. Words(s, 28) /\ Joins(s, x, 7, XframePushes, 21)
  BY <1>0, <1>3, <1>5, JoinedAs, Zenon
<1> HIDE DEF s
<1>7. /\ Len(s) = 28 /\ \A i \in 1 .. 7 : s[i] = Interrupted[i]
      /\ \A i \in 1 .. 21 : s[7 + i] = XframePushes[i]
  BY <1>5, <1>6 DEF Words, Joins
<1> QED
  BY <1>7, Zenon DEF s, x

-----------------------------------------------------------------------------
(* The theorems.                                                            *)

\* Type correctness of the boot sequence.
THEOREM BootTyped == Spec => []TypeOK
<1>1. BInv => TypeOK
  BY DEF BInv
<1> QED
  BY <1>1, BootInductive, PTL

\* Whatever memory map and tables the boot loader leaves, no pop of the boot
\* sequence finds the list empty, and the page that holds the list is not handed
\* out.
THEOREM BootFramesSuffice == Spec => []FramesSuffice
<1>1. BInv => FramesSuffice
  <2> SUFFICES ASSUME BInv, Laid PROVE place \notin handed
    BY DEF BInv, Supply, FramesSuffice
  <2>1. PICK m \in Maps : m = env.map
    BY DEF BInv, EnvOK
  <2> DEFINE c == read_memory_map(m)
  <2>2. /\ c \in DOMAIN m /\ m[c].type = "usable"
        /\ m[c].base \in Nat /\ m[c].length \in Nat /\ m[c].length >= 501 * 4096
    <3>1. c # Null
      BY <2>1 DEF Laid, Chosen
    <3>2. c \in Usable(m) => m[c].type = "usable"
      BY DEF Usable
    <3> QED
      BY <3>1, <3>2, ChosenRegion
  <2>3. 2 \in DOMAIN m /\ m[2].base \in Nat
    BY MapFacts
  <2>4. c # 2 => m[2].base < m[c].base \/ m[c].base + m[c].length <= m[2].base
    BY <2>2, <2>3, MapFacts
  <2>5. place = m[2].base /\ \A k : Page(k) = m[c].base + 4096 * (k - 1)
    BY <2>1 DEF Laid, Page, Chosen
  <2>6. PICK l \in 1 .. 9 : handed = {Page(k) : k \in l + 1 .. 9}
    BY DEF Laid
  <2>7. ASSUME NEW k \in l + 1 .. 9
        PROVE  m[2].base # m[c].base + 4096 * (k - 1)
    <3>1. k \in 2 .. 9
      OBVIOUS
    <3> HIDE DEF c
    <3> QED
      BY <2>2, <2>3, <2>4, <3>1
  <2> QED
    BY <2>5, <2>6, <2>7
<1> QED
  BY <1>1, BootInductive, PTL

\* Every frame that the boot sequence has to give or has given is a whole page
\* of a usable entry other than the first.
THEOREM BootRegionSound == Spec => []RegionSound
<1>1. BInv => RegionSound
  <2> SUFFICES ASSUME BInv, NEW f \in handed \cup {list[i] : i \in DOMAIN list}
               PROVE  \E i \in Usable(env.map) :
                        /\ i # Least(Usable(env.map))
                        /\ env.map[i].base <= f
                        /\ f + 4096 <= env.map[i].base + env.map[i].length
    BY DEF RegionSound
  <2>1. list \in Seq(Nat) /\ DOMAIN list = 1 .. Len(list)
    BY LenProperties DEF BInv, TypeOK
  <2>2. Laid
    BY <2>1, EmptySeq DEF BInv, Supply
  <2>3. PICK m \in Maps : m = env.map
    BY DEF BInv, EnvOK
  <2> DEFINE c == read_memory_map(m)
  <2>4. /\ c \in Usable(m) /\ c # Least(Usable(m))
        /\ m[c].base \in Nat /\ m[c].length \in Nat /\ m[c].length >= 501 * 4096
    BY <2>2, <2>3, ChosenRegion DEF Laid, Chosen
  <2>5. \A k : Page(k) = m[c].base + 4096 * (k - 1)
    BY <2>3 DEF Page, Chosen
  <2>6. PICK l \in 1 .. 9 : l = Len(list)
    BY <2>2 DEF Laid
  <2>7. PICK k \in 1 .. 9 : f = Page(k)
    <3>1. \A k \in l + 1 .. 9 : k \in 1 .. 9
      OBVIOUS
    <3>2. \A k \in 1 .. l : k \in 1 .. 9
      OBVIOUS
    <3>3. f \in handed => \E k \in 1 .. 9 : f = Page(k)
      BY <2>2, <2>6, <3>1, Zenon DEF Laid
    <3>4. f \in {list[i] : i \in DOMAIN list} => \E k \in 1 .. 9 : f = Page(k)
      BY <2>1, <2>2, <2>6, <3>2, Zenon DEF Laid
    <3> QED
      BY <3>3, <3>4
  <2>8. m[c].base <= f /\ f + 4096 <= m[c].base + m[c].length
    <3> HIDE DEF c
    <3> QED
      BY <2>4, <2>5, <2>7
  <2> QED
    BY <2>3, <2>4, <2>8
<1> QED
  BY <1>1, BootInductive, PTL

\* The serial line is set up before anything is printed.
THEOREM BootLineSet == Spec => []LineSet
<1>1. BInv => LineSet
  BY DEF BInv, Serial, LineSet, Line
<1> QED
  BY <1>1, BootInductive, PTL

\* Once the table is loaded every exception finds its gate, and the handler
\* finds the vector and the interrupted state in the same words whether or not
\* the processor pushes an error code.
THEOREM BootEveryException == Spec => []EveryException
<1>1. ASSUME NEW v \in Raised
      PROVE  Found(idt_assemble, v)
  BY DEF Raised, Exceptions, Found, idt_assemble, IDT_CPU_EXCEPTION_COUNT,
     SIZEOF_idtr_t, SIZEOF_idt_entry_t, IDT_MAX_DESCRIPTORS
<1>2. ASSUME NEW v \in Raised, NEW k \in 6 .. Len(isr_stack_frame_t)
      PROVE  Frame(v)[k] = isr_stack_frame_t[k]
  <2> DEFINE s == CpuPushes(v) \o StubPushes(v) \o XframePushes
  <2>1. /\ Len(s) = 28
        /\ \A i \in 1 .. 7 : s[i] = Interrupted[i]
        /\ \A i \in 1 .. 21 : s[7 + i] = XframePushes[i]
    BY StackWords
  <2>2. Len(isr_stack_frame_t) = 27
    BY DEF isr_stack_frame_t
  <2> HIDE DEF s
  <2>3. Frame(v)[k] = s[28 - k]
    <3>1. Frame(v) = [i \in 0 .. Len(s) - 1 |-> s[Len(s) - i]]
      BY DEF Frame, s
    <3>2. k \in 0 .. 27
      BY <2>2
    <3> QED
      BY <2>1, <3>1, <3>2
  <2>4. CASE k >= 21
    <3>1. k \in 21 .. 27 /\ 28 - k \in 1 .. 7
      BY <2>2, <2>4
    <3>2. s[28 - k] = Interrupted[28 - k]
      BY <2>1, <3>1
    <3> QED
      BY <2>3, <3>1, <3>2 DEF isr_stack_frame_t, Interrupted
  <2>5. CASE k < 21
    <3>1. k \in 6 .. 20 /\ 21 - k \in 1 .. 21 /\ 28 - k = 7 + (21 - k)
      BY <2>2, <2>5
    <3>2. s[28 - k] = XframePushes[21 - k]
      BY <2>1, <3>1
    <3> QED
      BY <2>3, <3>1, <3>2 DEF isr_stack_frame_t, XframePushes
  <2> QED
    BY <2>2, <2>4, <2>5
<1>3. BInv => EveryException
  BY <1>1, <1>2 DEF BInv, Tables, EveryException
<1> QED
  BY <1>3, BootInductive, PTL

=============================================================================
