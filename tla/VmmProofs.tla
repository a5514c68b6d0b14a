------------------------------ MODULE VmmProofs ------------------------------
(***************************************************************************)
(* Proofs about the virtual memory manager, for every region, size of page  *)
(* tables, boot layout and sequence of calls: frames have one use, tables   *)
(* stay in RAM, lost frames are counted, stale translations lead nowhere in *)
(* use, and a step changes the translation of its own page only.            *)
(*                                                                          *)
(* The first part has the lemmas about the operators of FrameList and        *)
(* Paging: what a pop leaves of the list, and what linking a table, mapping  *)
(* a page and unmapping one do to the tree under CR3 and to the translation  *)
(* of every address.                                                        *)
(***************************************************************************)
EXTENDS Vmm, FiniteSetTheorems, TLAPS

-----------------------------------------------------------------------------
(* The list.                                                                *)

\* The list with n frames left: the pointers, the count and the slots agree.
Filled(m, n) ==
  /\ n \in 0 .. SLOTS
  /\ m[HEAD] = Slot(n) /\ m[NEXTFREE] = Slot(n - 1) /\ m[NUMFRAMES] = n
  /\ \A i \in 0 .. n - 1 : m[Slot(i)] \in Region
  /\ \A i, j \in 0 .. n - 1 : m[Slot(i)] = m[Slot(j)] => i = j

\* The list after the pop that found it empty, and after the one that then handed
\* out the address of its own field nextFree.
Drained(m) ==
  m[HEAD] = Slot(-1) /\ m[NEXTFREE] = NEXTFREE /\ m[NUMFRAMES] = WORDMOD - 1
Dead(m) ==
  m[HEAD] = Slot(-2) /\ m[NEXTFREE] = Null /\ m[NUMFRAMES] = WORDMOD - 2

ListOK(m) ==
  /\ m \in [Words -> Nat]
  /\ (\E n \in 0 .. SLOTS : Filled(m, n)) \/ Drained(m) \/ Dead(m)

\* The address of the page that the bogus pop names.
Bogus == PageOf(NEXTFREE)

\* Where the fields and the slots of the list lie.
LEMMA WordFacts ==
  /\ LIST \in Nat /\ LIST > 0 /\ SLOTS \in Nat
  /\ WORDMOD \in Nat /\ WORDMOD > LIST + 8 * SLOTS + 32
  /\ HEAD = LIST /\ NEXTFREE = LIST + 8 /\ NUMFRAMES = LIST + 16
  /\ \A i \in Int : Slot(i) = LIST + 24 + 8 * i
  /\ HEAD \in Words /\ NEXTFREE \in Words /\ NUMFRAMES \in Words
  /\ \A i \in 0 .. SLOTS - 1 : Slot(i) \in Words
BY ListAssumption DEF HEAD, NEXTFREE, NUMFRAMES, Slot, Words

\* The fields that a pop leaves.
LEMMA PopFields ==
  ASSUME NEW m \in [Words -> Nat], m[NEXTFREE] # Null
  PROVE  LET r == pop_frame_list(m) IN
         /\ r.ret = m[m[NEXTFREE]]
         /\ r.mem[NEXTFREE] = IF m[NEXTFREE] - 8 # LIST THEN m[NEXTFREE] - 8 ELSE Null
         /\ r.mem[NUMFRAMES] = (m[NUMFRAMES] + WORDMOD - 1) % WORDMOD
         /\ r.mem[HEAD] = m[HEAD] - 8
         /\ \A i \in 0 .. SLOTS - 1 : r.mem[Slot(i)] = m[Slot(i)]
         /\ m[HEAD] >= 8 /\ m[NEXTFREE] >= 8 => r.mem \in [Words -> Nat]
<1> DEFINE nf == IF m[NEXTFREE] - 8 # LIST THEN m[NEXTFREE] - 8 ELSE Null
           nn == (m[NUMFRAMES] + WORDMOD - 1) % WORDMOD
           w == [m EXCEPT ![NEXTFREE] = nf, ![NUMFRAMES] = nn, ![HEAD] = m[HEAD] - 8]
<1>1. pop_frame_list(m) = [ret |-> m[m[NEXTFREE]], mem |-> w]
  BY DEF pop_frame_list
<1>2. /\ w[NEXTFREE] = nf /\ w[NUMFRAMES] = nn /\ w[HEAD] = m[HEAD] - 8
      /\ \A i \in 0 .. SLOTS - 1 : w[Slot(i)] = m[Slot(i)]
  <2> HIDE DEF nf, nn
  <2> QED
    BY WordFacts
<1>3. m[HEAD] >= 8 /\ m[NEXTFREE] >= 8 => w \in [Words -> Nat]
  <2>1. m[NUMFRAMES] \in Nat /\ m[HEAD] \in Nat /\ m[NEXTFREE] \in Nat
    BY WordFacts
  <2>2. nn \in Nat
    BY <2>1, WordFacts
  <2>3. m[HEAD] >= 8 /\ m[NEXTFREE] >= 8 => nf \in Nat /\ m[HEAD] - 8 \in Nat
    BY <2>1 DEF Null
  <2> HIDE DEF nf, nn
  <2> QED
    BY <2>2, <2>3
<1> HIDE DEF w
<1> QED
  BY <1>1, <1>2, <1>3

\* numFrames counts down and wraps below zero.
LEMMA CountDown ==
  /\ \A n \in 1 .. SLOTS : (n + WORDMOD - 1) % WORDMOD = n - 1
  /\ (0 + WORDMOD - 1) % WORDMOD = WORDMOD - 1
  /\ (WORDMOD - 1 + WORDMOD - 1) % WORDMOD = WORDMOD - 2
<1>1. WORDMOD \in Nat /\ WORDMOD > SLOTS + 2 /\ SLOTS \in Nat
  BY WordFacts
<1>2. \A n \in 1 .. SLOTS : (n + WORDMOD - 1) % WORDMOD = n - 1
  <2> TAKE n \in 1 .. SLOTS
  <2>1. n + WORDMOD - 1 = WORDMOD * 1 + (n - 1) /\ n - 1 \in 0 .. WORDMOD - 1
    BY <1>1
  <2> QED
    BY <1>1, <2>1
<1>3. (0 + WORDMOD - 1) % WORDMOD = WORDMOD - 1
  BY <1>1
<1>4. (WORDMOD - 1 + WORDMOD - 1) % WORDMOD = WORDMOD - 2
  BY <1>1
<1> QED
  BY <1>2, <1>3, <1>4

\* What a pop does: it takes the last frame, or finds the list empty, or returns
\* the address of nextFree; the frames left stay in their slots.
TakesFrame(m, r) ==
  /\ r.ret \in FreeFrames(m) /\ r.ret \in Region
  /\ FreeFrames(r.mem) = FreeFrames(m) \ {r.ret}
  /\ ~Spent(m) /\ ~Spent(r.mem)
FindsNothing(m, r) ==
  /\ r.ret = Null
  /\ FreeFrames(m) = {} /\ FreeFrames(r.mem) = {}
  /\ Spent(r.mem)
  /\ Dead(m) <=> Dead(r.mem)
  /\ ~Drained(m)
TakesBogus(m, r) ==
  /\ r.ret = NEXTFREE
  /\ FreeFrames(m) = {} /\ FreeFrames(r.mem) = {}
  /\ Spent(m) /\ Spent(r.mem)
  /\ Drained(m) /\ Dead(r.mem)

\* The states of the list exclude each other; which frames are free in each.
LEMMA SpentFacts ==
  ASSUME NEW m
  PROVE  /\ \A n : Filled(m, n) => /\ ~Spent(m) /\ ~Drained(m) /\ ~Dead(m)
                                   /\ FreeFrames(m) = {m[Slot(i)] : i \in 0 .. n - 1}
         /\ Drained(m) => Spent(m) /\ FreeFrames(m) = {} /\ ~Dead(m)
         /\ Dead(m) => Spent(m) /\ FreeFrames(m) = {} /\ ~Drained(m)
<1>1. \A n : Filled(m, n) => ~Spent(m)
  BY WordFacts DEF Filled, Spent
<1>2. Drained(m) \/ Dead(m) => Spent(m)
  BY WordFacts DEF Drained, Dead, Spent
<1>3. Drained(m) => ~Dead(m)
  BY WordFacts DEF Drained, Dead
<1> QED
  BY <1>1, <1>2, <1>3 DEF FreeFrames, Filled

\* A pop leads from one state of the list to another and does one of the three things.
LEMMA PopList ==
  ASSUME NEW m, ListOK(m)
  PROVE  LET r == pop_frame_list(m) IN
         /\ ListOK(r.mem)
         /\ TakesFrame(m, r) \/ FindsNothing(m, r) \/ TakesBogus(m, r)
         /\ TakesFrame(m, r) => ~Drained(m) /\ ~Dead(m) /\ ~Drained(r.mem) /\ ~Dead(r.mem)
<1> DEFINE r == pop_frame_list(m)
<1>0. m \in [Words -> Nat]
  BY DEF ListOK
<1>1. ASSUME NEW n \in 1 .. SLOTS, Filled(m, n)
      PROVE  ListOK(r.mem) /\ TakesFrame(m, r) /\ ~Drained(r.mem) /\ ~Dead(r.mem)
  <2>1. /\ m[NEXTFREE] = LIST + 24 + 8 * (n - 1) /\ m[NEXTFREE] = Slot(n - 1)
        /\ m[HEAD] = LIST + 24 + 8 * n
    BY <1>1, WordFacts DEF Filled
  <2>2. m[NEXTFREE] # Null /\ m[NEXTFREE] - 8 # LIST /\ m[HEAD] >= 8 /\ m[NEXTFREE] >= 8
    BY <2>1, WordFacts DEF Null
  <2>3. /\ r.ret = m[Slot(n - 1)] /\ r.mem[NEXTFREE] = m[NEXTFREE] - 8
        /\ r.mem[NUMFRAMES] = n - 1 /\ r.mem[HEAD] = m[HEAD] - 8
        /\ \A i \in 0 .. SLOTS - 1 : r.mem[Slot(i)] = m[Slot(i)]
        /\ r.mem \in [Words -> Nat]
    <3>1. (m[NUMFRAMES] + WORDMOD - 1) % WORDMOD = n - 1
      BY <1>1, CountDown DEF Filled
    <3> QED
      BY <1>0, <2>1, <2>2, <3>1, PopFields
  <2> HIDE DEF r
  <2>4. Filled(r.mem, n - 1)
    <3>1. /\ r.mem[HEAD] = Slot(n - 1) /\ r.mem[NEXTFREE] = Slot((n - 1) - 1)
      BY <2>1, <2>3, WordFacts
    <3>2. n - 1 \in 0 .. SLOTS /\ \A i \in 0 .. (n - 1) - 1 : i \in 0 .. SLOTS - 1 /\ i \in 0 .. n - 1
      BY WordFacts
    <3> QED
      BY <1>1, <2>3, <3>1, <3>2 DEF Filled
  <2>5. /\ FreeFrames(m) = {m[Slot(i)] : i \in 0 .. n - 1} /\ ~Spent(m)
        /\ FreeFrames(r.mem) = {r.mem[Slot(i)] : i \in 0 .. (n - 1) - 1} /\ ~Spent(r.mem)
        /\ ~Drained(r.mem) /\ ~Dead(r.mem)
    BY <1>1, <2>4, SpentFacts
  <2>6. FreeFrames(r.mem) = FreeFrames(m) \ {r.ret}
    <3>1. 0 .. n - 1 = 0 .. (n - 1) - 1 \cup {n - 1}
      OBVIOUS
    <3>2. \A i \in 0 .. (n - 1) - 1 : i \in 0 .. n - 1 /\ i \in 0 .. SLOTS - 1 /\ i # n - 1
      BY WordFacts
    <3>3. \A i, j \in 0 .. n - 1 : m[Slot(i)] = m[Slot(j)] => i = j
      BY <1>1 DEF Filled
    <3>4. n - 1 \in 0 .. n - 1
      OBVIOUS
    <3> QED
      BY <2>3, <2>5, <3>1, <3>2, <3>3, <3>4
  <2>7. r.ret \in FreeFrames(m) /\ r.ret \in Region
    <3>1. n - 1 \in 0 .. n - 1
      OBVIOUS
    <3> QED
      BY <1>1, <2>3, <2>5, <3>1 DEF Filled
  <2> QED
    BY <2>3, <2>4, <2>5, <2>6, <2>7, <2>4 DEF ListOK, TakesFrame, Filled
<1>2. ASSUME Filled(m, 0)
      PROVE  ListOK(r.mem) /\ FindsNothing(m, r)
  <2>1. /\ m[NEXTFREE] = LIST + 16 /\ m[NEXTFREE] = NUMFRAMES
        /\ m[HEAD] = LIST + 24 /\ m[NUMFRAMES] = 0
    BY <1>2, WordFacts DEF Filled
  <2>2. m[NEXTFREE] # Null /\ m[NEXTFREE] - 8 # LIST /\ m[HEAD] >= 8 /\ m[NEXTFREE] >= 8
    BY <2>1, WordFacts DEF Null
  <2>3. /\ r.ret = Null /\ r.mem[NEXTFREE] = m[NEXTFREE] - 8
        /\ r.mem[NUMFRAMES] = WORDMOD - 1 /\ r.mem[HEAD] = m[HEAD] - 8
        /\ r.mem \in [Words -> Nat]
    <3>1. (m[NUMFRAMES] + WORDMOD - 1) % WORDMOD = WORDMOD - 1
      BY <2>1, CountDown
    <3> QED
      BY <1>0, <2>1, <2>2, <3>1, PopFields DEF Null
  <2> HIDE DEF r
  <2>4. Drained(r.mem)
    BY <2>1, <2>3, WordFacts DEF Drained
  <2>5. FreeFrames(m) = {} /\ ~Dead(m) /\ ~Drained(m)
    BY <1>2, SpentFacts
  <2> QED
    BY <2>3, <2>4, <2>5, SpentFacts DEF ListOK, FindsNothing
<1>3. ASSUME Drained(m)
      PROVE  ListOK(r.mem) /\ TakesBogus(m, r)
  <2>1. /\ m[NEXTFREE] = LIST + 8 /\ m[NEXTFREE] = NEXTFREE
        /\ m[HEAD] = LIST + 16 /\ m[NUMFRAMES] = WORDMOD - 1
    BY <1>3, WordFacts DEF Drained
  <2>2. m[NEXTFREE] # Null /\ m[NEXTFREE] - 8 = LIST /\ m[HEAD] >= 8 /\ m[NEXTFREE] >= 8
    BY <2>1, WordFacts DEF Null
  <2>3. /\ r.ret = NEXTFREE /\ r.mem[NEXTFREE] = Null
        /\ r.mem[NUMFRAMES] = WORDMOD - 2 /\ r.mem[HEAD] = m[HEAD] - 8
        /\ r.mem \in [Words -> Nat]
    <3>1. (m[NUMFRAMES] + WORDMOD - 1) % WORDMOD = WORDMOD - 2
      BY <2>1, CountDown
    <3> QED
      BY <1>0, <2>1, <2>2, <3>1, PopFields DEF Null
  <2> HIDE DEF r
  <2>4. Dead(r.mem)
    BY <2>1, <2>3, WordFacts DEF Dead
  <2> QED
    BY <1>3, <2>3, <2>4, SpentFacts DEF ListOK, TakesBogus
<1>4. ASSUME Dead(m)
      PROVE  ListOK(r.mem) /\ FindsNothing(m, r)
  <2>1. r = [ret |-> Null, mem |-> m]
    BY <1>4 DEF pop_frame_list, Dead
  <2>2. r.ret = Null /\ r.mem = m
    BY <2>1
  <2> QED
    BY <1>4, <2>2, SpentFacts DEF FindsNothing
<1>5. CASE Drained(m) \/ Dead(m)
  <2> HIDE DEF r
  <2>1. Drained(m) => ~TakesFrame(m, r)
    BY SpentFacts DEF TakesFrame
  <2>2. Dead(m) => ~TakesFrame(m, r)
    BY SpentFacts DEF TakesFrame
  <2> QED
    BY <1>3, <1>4, <1>5, <2>1, <2>2 DEF r
<1>6. CASE \E n \in 0 .. SLOTS : Filled(m, n)
  <2>1. PICK n \in 0 .. SLOTS : Filled(m, n)
    BY <1>6
  <2>2. ~Drained(m) /\ ~Dead(m)
    BY <2>1, SpentFacts
  <2>3. CASE n = 0
    <3>1. FindsNothing(m, r) => ~TakesFrame(m, r)
      BY DEF FindsNothing, TakesFrame
    <3> HIDE DEF r
    <3> QED
      BY <1>2, <2>1, <2>3, <3>1 DEF r
  <2>4. CASE n # 0
    <3>1. n \in 1 .. SLOTS
      BY <2>4, WordFacts
    <3> HIDE DEF r
    <3> QED
      BY <1>1, <2>1, <2>2, <3>1 DEF r
  <2> QED
    BY <2>3, <2>4
<1> QED
  BY <1>5, <1>6 DEF ListOK

-----------------------------------------------------------------------------
(* The tree.                                                                *)

\* Entry i of table t is present and leads to x.
Leads(p, t, i, x) ==
  is_page_table_present(p[t][i]) /\ page_table_phys_address(p[t][i]) = x

\* Everything that a present entry of a table leads to.
Targets(p) == Children(p, Tables(p))

\* Children, entry by entry.
LEMMA KidsAre ==
  ASSUME NEW p, NEW T
  PROVE  \A x : x \in Children(p, T) <=> \E t \in T, i \in Idx : Leads(p, t, i, x)
<1>1. ASSUME NEW x, x \in Children(p, T)
      PROVE  \E t \in T, i \in Idx : Leads(p, t, i, x)
  <2>1. PICK q \in Present(p, T) : x = Target(p, q)
    BY <1>1 DEF Children
  <2>2. q[1] \in T /\ q[2] \in Idx /\ is_page_table_present(p[q[1]][q[2]])
    BY DEF Present
  <2> QED
    BY <2>1, <2>2 DEF Leads, Target
<1>2. ASSUME NEW x, NEW t \in T, NEW i \in Idx, Leads(p, t, i, x)
      PROVE  x \in Children(p, T)
  <2>1. <<t, i>> \in Present(p, T) /\ Target(p, <<t, i>>) = x
    BY <1>2 DEF Present, Target, Leads
  <2> QED
    BY <2>1 DEF Children
<1> QED
  BY <1>1, <1>2

\* Tree, entry by entry.
LEMMA TreeIs ==
  ASSUME NEW p
  PROVE  Tree(p) <=>
           /\ \A t, u \in Tables(p) : \A i, j \in Idx : \A x :
                Leads(p, t, i, x) /\ Leads(p, u, j, x) => t = u /\ i = j
           /\ CR3 \notin Targets(p)
<1>1. ASSUME Tree(p), NEW t \in Tables(p), NEW u \in Tables(p), NEW i \in Idx, NEW j \in Idx,
             NEW x, Leads(p, t, i, x), Leads(p, u, j, x)
      PROVE  t = u /\ i = j
  <2>1. /\ <<t, i>> \in Present(p, Tables(p)) /\ Target(p, <<t, i>>) = x
        /\ <<u, j>> \in Present(p, Tables(p)) /\ Target(p, <<u, j>>) = x
    BY <1>1 DEF Present, Target, Leads
  <2>2. <<t, i>> = <<u, j>>
    BY <1>1, <2>1 DEF Tree
  <2> QED
    BY <2>2
<1>2. ASSUME \A t, u \in Tables(p) : \A i, j \in Idx : \A x :
               Leads(p, t, i, x) /\ Leads(p, u, j, x) => t = u /\ i = j,
             NEW q \in Present(p, Tables(p)), NEW r \in Present(p, Tables(p)),
             Target(p, q) = Target(p, r)
      PROVE  q = r
  <2>1. /\ q \in Tables(p) \X Idx /\ Leads(p, q[1], q[2], Target(p, q))
        /\ r \in Tables(p) \X Idx /\ Leads(p, r[1], r[2], Target(p, q))
    BY <1>2 DEF Present, Target, Leads
  <2>2. q[1] = r[1] /\ q[2] = r[2]
    BY <1>2, <2>1
  <2> QED
    BY <2>1, <2>2
<1> QED
  BY <1>1, <1>2 DEF Tree, Targets

\* The four levels and the pages they map.
Level(p, k) ==
  IF k = 0 THEN {CR3}
  ELSE IF k = 1 THEN Puds(p)
  ELSE IF k = 2 THEN Pmds(p)
  ELSE IF k = 3 THEN Pts(p)
  ELSE Mapped(p)

\* The tables lie in RAM, no frame is used twice.
Sound(p) ==
  /\ p \in [RAM -> [Idx -> Nat]]
  /\ Tables(p) \subseteq RAM
  /\ Mapped(p) \subseteq RAM \cup {Bogus}
  /\ Tree(p)

\* Each level is what the one above leads to.
LEMMA LevelsAre ==
  ASSUME NEW p
  PROVE  /\ \A x : x \in Puds(p) <=> \E t \in {CR3}, i \in Idx : Leads(p, t, i, x)
         /\ \A x : x \in Pmds(p) <=> \E t \in Puds(p), i \in Idx : Leads(p, t, i, x)
         /\ \A x : x \in Pts(p) <=> \E t \in Pmds(p), i \in Idx : Leads(p, t, i, x)
         /\ \A x : x \in Mapped(p) <=> \E t \in Pts(p), i \in Idx : Leads(p, t, i, x)
<1>1. Puds(p) = Children(p, {CR3})
  BY DEF Puds
<1>2. Pmds(p) = Children(p, Puds(p))
  BY DEF Pmds
<1>3. Pts(p) = Children(p, Pmds(p))
  BY DEF Pts
<1>4. Mapped(p) = Children(p, Pts(p))
  BY DEF Mapped
<1>5. \A x : x \in Puds(p) <=> \E t \in {CR3}, i \in Idx : Leads(p, t, i, x)
  BY <1>1, KidsAre
<1>6. \A x : x \in Pmds(p) <=> \E t \in Puds(p), i \in Idx : Leads(p, t, i, x)
  BY <1>2, KidsAre
<1>7. \A x : x \in Pts(p) <=> \E t \in Pmds(p), i \in Idx : Leads(p, t, i, x)
  BY <1>3, KidsAre
<1>8. \A x : x \in Mapped(p) <=> \E t \in Pts(p), i \in Idx : Leads(p, t, i, x)
  BY <1>4, KidsAre
<1> QED
  BY <1>5, <1>6, <1>7, <1>8

\* What the tables lead to: the levels below the root and the mapped pages.
LEMMA TargetsAre ==
  ASSUME NEW p
  PROVE  Targets(p) = Puds(p) \cup Pmds(p) \cup Pts(p) \cup Mapped(p)
<1>1. \A x : x \in Targets(p) <=> \E t \in Tables(p), i \in Idx : Leads(p, t, i, x)
  BY KidsAre DEF Targets
<1>2. /\ \A x : x \in Puds(p) <=> \E t \in {CR3}, i \in Idx : Leads(p, t, i, x)
      /\ \A x : x \in Pmds(p) <=> \E t \in Puds(p), i \in Idx : Leads(p, t, i, x)
      /\ \A x : x \in Pts(p) <=> \E t \in Pmds(p), i \in Idx : Leads(p, t, i, x)
      /\ \A x : x \in Mapped(p) <=> \E t \in Pts(p), i \in Idx : Leads(p, t, i, x)
  BY LevelsAre
<1>3. \A t : t \in Tables(p) <=> t \in {CR3} \/ t \in Puds(p) \/ t \in Pmds(p) \/ t \in Pts(p)
  BY DEF Tables
<1> QED
  BY <1>1, <1>2, <1>3

\* No table is at two levels, and none is a mapped page.
LEMMA LevelsApart ==
  ASSUME NEW p, Tree(p)
  PROVE  /\ CR3 \notin Puds(p) \cup Pmds(p) \cup Pts(p) \cup Mapped(p)
         /\ Puds(p) \cap (Pmds(p) \cup Pts(p) \cup Mapped(p)) = {}
         /\ Pmds(p) \cap (Pts(p) \cup Mapped(p)) = {}
         /\ Pts(p) \cap Mapped(p) = {}
<1>1. CR3 \notin Puds(p) \cup Pmds(p) \cup Pts(p) \cup Mapped(p)
  BY TargetsAre, TreeIs
<1>2. \A t, u \in Tables(p) : \A i, j \in Idx : \A x :
        Leads(p, t, i, x) /\ Leads(p, u, j, x) => t = u
  BY TreeIs
<1>3. /\ \A x : x \in Puds(p) <=> \E t \in {CR3}, i \in Idx : Leads(p, t, i, x)
      /\ \A x : x \in Pmds(p) <=> \E t \in Puds(p), i \in Idx : Leads(p, t, i, x)
      /\ \A x : x \in Pts(p) <=> \E t \in Pmds(p), i \in Idx : Leads(p, t, i, x)
      /\ \A x : x \in Mapped(p) <=> \E t \in Pts(p), i \in Idx : Leads(p, t, i, x)
  BY LevelsAre
<1>4. \A t : t \in Tables(p) <=> t \in {CR3} \/ t \in Puds(p) \/ t \in Pmds(p) \/ t \in Pts(p)
  BY DEF Tables
<1>5. Puds(p) \cap (Pmds(p) \cup Pts(p) \cup Mapped(p)) = {}
  BY <1>1, <1>2, <1>3, <1>4
<1>6. Pmds(p) \cap (Pts(p) \cup Mapped(p)) = {}
  BY <1>2, <1>3, <1>4, <1>5
<1>7. Pts(p) \cap Mapped(p) = {}
  BY <1>2, <1>3, <1>4, <1>6
<1> QED
  BY <1>1, <1>5, <1>6, <1>7

\* The arithmetic of an entry.
LEMMA EntryIs ==
  ASSUME NEW f \in Nat
  PROVE  /\ Entry(f) \in Nat /\ is_page_table_present(Entry(f))
         /\ page_table_phys_address(Entry(f)) = PageOf(f)
         /\ PageOf(f) \in Nat
         /\ f % 4096 = 0 => PageOf(f) = f
BY DEF Entry, is_page_table_present, page_table_phys_address, PageOf,
       create_basic_page_attributes

\* Frames are page-aligned and not NULL; the bogus address lies outside RAM.
LEMMA RamFacts ==
  /\ \A f \in RAM : f \in Nat /\ f # Null /\ PageOf(f) = f
  /\ Bogus \in Nat /\ Bogus # Null /\ Bogus \notin RAM
  /\ NEXTFREE \notin RAM /\ NEXTFREE # Null /\ NEXTFREE \in Nat
  /\ Null \notin RAM
  /\ CR3 \in RAM /\ CR3 \notin Region /\ Region \subseteq RAM
<1>1. CR3 \in RAM /\ CR3 \notin Region /\ Region \subseteq RAM
  BY PagingAssumption, VmmAssumption
<1>2. \A f \in RAM : f \in 1 .. LIST - 4097 /\ f % 4096 = 0
  BY PagingAssumption
<1>3. \A f \in RAM : f \in Nat /\ f # Null /\ PageOf(f) = f
  BY <1>2, EntryIs DEF Null
<1>4. LIST \in Nat /\ LIST > 4097
  BY <1>1, <1>2, WordFacts
<1>5. Bogus \in Nat /\ Bogus > LIST - 4097
  BY <1>4, WordFacts DEF Bogus, PageOf
<1>6. NEXTFREE \in Nat /\ NEXTFREE > LIST - 4097
  BY <1>4, WordFacts
<1> QED
  BY <1>1, <1>2, <1>3, <1>4, <1>5, <1>6 DEF Null

-----------------------------------------------------------------------------
(* A new table.                                                             *)

\* In q the new, empty table f hangs from entry i of table t of p.
Linked(p, q, t, i, f) ==
  /\ q \in [RAM -> [Idx -> Nat]]
  /\ \A u \in RAM, j \in Idx : \A x :
       Leads(q, u, j, x) <=> /\ u # f
                             /\ IF u = t /\ j = i THEN x = f ELSE Leads(p, u, j, x)

\* The two writes of create_new_page_table and its caller link a table.
LEMMA LinkIs ==
  ASSUME NEW p \in [RAM -> [Idx -> Nat]], NEW t \in RAM, NEW i \in Idx, NEW f \in RAM, t # f,
         NEW q, q = [[p EXCEPT ![f] = EmptyTable] EXCEPT ![t][i] = Entry(f)]
  PROVE  Linked(p, q, t, i, f)
<1>1. Entry(f) \in Nat /\ is_page_table_present(Entry(f)) /\ page_table_phys_address(Entry(f)) = f
  BY EntryIs, RamFacts
<1>2. EmptyTable \in [Idx -> Nat] /\ \A j \in Idx : ~is_page_table_present(EmptyTable[j])
  BY DEF EmptyTable, is_page_table_present
<1>3. q \in [RAM -> [Idx -> Nat]]
  BY <1>1, <1>2
<1>4. q[f] = EmptyTable
  OBVIOUS
<1>5. \A j \in Idx : q[t][j] = IF j = i THEN Entry(f) ELSE p[t][j]
  OBVIOUS
<1>6. \A u \in RAM : u # f /\ u # t => q[u] = p[u]
  OBVIOUS
<1> QED
  BY <1>1, <1>2, <1>3, <1>4, <1>5, <1>6 DEF Linked, Leads

\* What the tables of a set lead to after the link.
KidsAfterLink(p, q, t, f, X) ==
  /\ t \notin X => Children(q, X) = Children(p, X)
  /\ t \notin X => Children(q, X \cup {f}) = Children(p, X)
  /\ t \in X => Children(q, X) = Children(p, X) \cup {f}

\* Only the set with the table that got the link leads further than before.
LEMMA LinkKids ==
  ASSUME NEW p, NEW q, NEW t \in RAM, NEW i \in Idx, NEW f \in RAM, t # f,
         \A x : ~Leads(p, t, i, x), Linked(p, q, t, i, f), NEW X, X \subseteq RAM, f \notin X
  PROVE  KidsAfterLink(p, q, t, f, X)
<1>1. /\ \A j \in Idx : \A x : ~Leads(q, f, j, x)
      /\ \A u \in RAM, j \in Idx : \A x : u # f /\ u # t => (Leads(q, u, j, x) <=> Leads(p, u, j, x))
      /\ \A j \in Idx : \A x : Leads(q, t, j, x) <=> Leads(p, t, j, x) \/ (j = i /\ x = f)
  BY DEF Linked
<1>2. /\ \A x : x \in Children(p, X) <=> \E u \in X, j \in Idx : Leads(p, u, j, x)
      /\ \A x : x \in Children(q, X) <=> \E u \in X, j \in Idx : Leads(q, u, j, x)
      /\ \A x : x \in Children(q, X \cup {f}) <=> \E u \in X \cup {f}, j \in Idx : Leads(q, u, j, x)
  BY KidsAre
<1>3. ASSUME t \notin X
      PROVE  \A u \in X, j \in Idx : \A x : Leads(q, u, j, x) <=> Leads(p, u, j, x)
  BY <1>1, <1>3
<1>4. ASSUME t \notin X
      PROVE  \A x : x \in Children(q, X) <=> x \in Children(p, X)
  BY <1>2, <1>3, <1>4
<1>5. ASSUME t \notin X
      PROVE  \A x : x \in Children(q, X \cup {f}) <=> x \in Children(p, X)
  <2>1. ASSUME NEW x, x \in Children(q, X \cup {f}) PROVE x \in Children(p, X)
    <3>1. PICK u \in X \cup {f}, j \in Idx : Leads(q, u, j, x)
      BY <1>2, <2>1
    <3>2. u \in X
      BY <1>1, <3>1
    <3> QED
      BY <1>2, <1>3, <1>5, <3>1, <3>2
  <2>2. ASSUME NEW x, x \in Children(p, X) PROVE x \in Children(q, X \cup {f})
    <3>1. PICK u \in X, j \in Idx : Leads(p, u, j, x)
      BY <1>2, <2>2
    <3>2. Leads(q, u, j, x) /\ u \in X \cup {f}
      BY <1>3, <1>5, <3>1
    <3> QED
      BY <1>2, <3>2
  <2> QED
    BY <2>1, <2>2
<1>6. ASSUME t \in X
      PROVE  \A x : x \in Children(q, X) <=> x \in Children(p, X) \cup {f}
  <2>1. ASSUME NEW x, x \in Children(q, X) PROVE x \in Children(p, X) \cup {f}
    <3>1. PICK u \in X, j \in Idx : Leads(q, u, j, x)
      BY <1>2, <2>1
    <3>2. Leads(p, u, j, x) \/ x = f
      BY <1>1, <3>1
    <3> QED
      BY <1>2, <3>2
  <2>2. ASSUME NEW x, x \in Children(p, X) PROVE x \in Children(q, X)
    <3>1. PICK u \in X, j \in Idx : Leads(p, u, j, x)
      BY <1>2, <2>2
    <3>2. Leads(q, u, j, x)
      BY <1>1, <3>1
    <3> QED
      BY <1>2, <3>2
  <2>3. f \in Children(q, X)
    BY <1>1, <1>2, <1>6
  <2> QED
    BY <2>1, <2>2, <2>3
<1>7. \A Y, Z : (\A x : x \in Y <=> x \in Z) => Y = Z
  OBVIOUS
<1> QED
  BY <1>4, <1>5, <1>6, <1>7 DEF KidsAfterLink

\* The tree with the new table: one level has one more member.
LEMMA LinkLevels ==
  ASSUME NEW p, Sound(p), NEW q, NEW k \in 0 .. 2, NEW t \in Level(p, k), NEW i \in Idx,
         \A x : ~Leads(p, t, i, x),
         NEW f \in RAM, f \notin Tables(p) \cup Mapped(p), Linked(p, q, t, i, f)
  PROVE  /\ t \in RAM /\ t # f
         /\ Puds(q) = IF k = 0 THEN Puds(p) \cup {f} ELSE Puds(p)
         /\ Pmds(q) = IF k = 1 THEN Pmds(p) \cup {f} ELSE Pmds(p)
         /\ Pts(q) = IF k = 2 THEN Pts(p) \cup {f} ELSE Pts(p)
         /\ Mapped(q) = Mapped(p)
<1> DEFINE A == Puds(p)  B == Pmds(p)  C == Pts(p)  D == Mapped(p)
<1>1. /\ {CR3} \subseteq RAM /\ A \subseteq RAM /\ B \subseteq RAM /\ C \subseteq RAM
      /\ f \notin {CR3} /\ f \notin A /\ f \notin B /\ f \notin C /\ f \notin D
  BY RamFacts DEF Sound, Tables
<1>2. /\ CR3 \notin A /\ CR3 \notin B /\ CR3 \notin C
      /\ A \cap B = {} /\ A \cap C = {} /\ B \cap C = {}
  BY LevelsApart DEF Sound
<1>3. /\ A = Children(p, {CR3}) /\ B = Children(p, A)
      /\ C = Children(p, B) /\ D = Children(p, C)
  BY DEF Puds, Pmds, Pts, Mapped
<1>4. /\ Puds(q) = Children(q, {CR3}) /\ Pmds(q) = Children(q, Puds(q))
      /\ Pts(q) = Children(q, Pmds(q)) /\ Mapped(q) = Children(q, Pts(q))
  BY DEF Puds, Pmds, Pts, Mapped
<1>5. t \in IF k = 0 THEN {CR3} ELSE IF k = 1 THEN A ELSE B
  BY DEF Level
<1> HIDE DEF A, B, C, D
<1>6. t \in RAM /\ t # f
  BY <1>1, <1>5
<1>7. \A X : X \subseteq RAM /\ f \notin X =>
        /\ t \notin X => Children(q, X) = Children(p, X)
        /\ t \notin X => Children(q, X \cup {f}) = Children(p, X)
        /\ t \in X => Children(q, X) = Children(p, X) \cup {f}
  <2>1. \A X : X \subseteq RAM /\ f \notin X => KidsAfterLink(p, q, t, f, X)
    BY <1>6, LinkKids, Zenon
  <2> QED
    BY <2>1 DEF KidsAfterLink
<1>8. CASE k = 0
  <2>1. t \in {CR3} /\ t \notin A /\ t \notin B /\ t \notin C
    BY <1>2, <1>5, <1>8
  <2>2. Puds(q) = A \cup {f}
    BY <1>1, <1>3, <1>4, <1>7, <2>1
  <2>3. Pmds(q) = B
    BY <1>1, <1>3, <1>4, <1>7, <2>1, <2>2
  <2>4. Pts(q) = C
    BY <1>1, <1>3, <1>4, <1>7, <2>1, <2>3
  <2>5. Mapped(q) = D
    BY <1>1, <1>3, <1>4, <1>7, <2>1, <2>4
  <2> QED
    BY <1>6, <1>8, <2>2, <2>3, <2>4, <2>5 DEF A, B, C, D
<1>9. CASE k = 1
  <2>1. t \notin {CR3} /\ t \in A /\ t \notin B /\ t \notin C
    BY <1>2, <1>5, <1>9
  <2>2. Puds(q) = A
    BY <1>1, <1>3, <1>4, <1>7, <2>1
  <2>3. Pmds(q) = B \cup {f}
    BY <1>1, <1>3, <1>4, <1>7, <2>1, <2>2
  <2>4. Pts(q) = C
    BY <1>1, <1>3, <1>4, <1>7, <2>1, <2>3
  <2>5. Mapped(q) = D
    BY <1>1, <1>3, <1>4, <1>7, <2>1, <2>4
  <2> QED
    BY <1>6, <1>9, <2>2, <2>3, <2>4, <2>5 DEF A, B, C, D
<1>10. CASE k = 2
  <2>1. t \notin {CR3} /\ t \notin A /\ t \in B /\ t \notin C
    BY <1>2, <1>5, <1>10
  <2>2. Puds(q) = A
    BY <1>1, <1>3, <1>4, <1>7, <2>1
  <2>3. Pmds(q) = B
    BY <1>1, <1>3, <1>4, <1>7, <2>1, <2>2
  <2>4. Pts(q) = C \cup {f}
    BY <1>1, <1>3, <1>4, <1>7, <2>1, <2>3
  <2>5. Mapped(q) = D
    BY <1>1, <1>3, <1>4, <1>7, <2>1, <2>4
  <2> QED
    BY <1>6, <1>10, <2>2, <2>3, <2>4, <2>5 DEF A, B, C, D
<1> QED
  BY <1>8, <1>9, <1>10

\* The tree stays a tree.
LEMMA LinkSound ==
  ASSUME NEW p, Sound(p), NEW q, NEW k \in 0 .. 2, NEW t \in Level(p, k), NEW i \in Idx,
         \A x : ~Leads(p, t, i, x),
         NEW f \in RAM, f \notin Tables(p) \cup Mapped(p), Linked(p, q, t, i, f)
  PROVE  /\ Sound(q)
         /\ Tables(q) = Tables(p) \cup {f} /\ Mapped(q) = Mapped(p)
         /\ f \in Level(q, k + 1)
<1>1. /\ t \in RAM /\ t # f
      /\ Puds(q) = IF k = 0 THEN Puds(p) \cup {f} ELSE Puds(p)
      /\ Pmds(q) = IF k = 1 THEN Pmds(p) \cup {f} ELSE Pmds(p)
      /\ Pts(q) = IF k = 2 THEN Pts(p) \cup {f} ELSE Pts(p)
      /\ Mapped(q) = Mapped(p)
  BY LinkLevels
<1>2. k = 0 \/ k = 1 \/ k = 2
  OBVIOUS
<1>3. Tables(q) = Tables(p) \cup {f}
  BY <1>1, <1>2 DEF Tables
<1>4. f \in Level(q, k + 1)
  BY <1>1, <1>2 DEF Level
<1>5. Targets(q) = Targets(p) \cup {f} /\ f \notin Targets(p)
  BY <1>1, <1>2, TargetsAre DEF Tables
<1>6. CR3 \notin Targets(q)
  <2>1. CR3 \notin Targets(p) /\ CR3 # f
    BY TreeIs DEF Sound, Tables
  <2> QED
    BY <1>5, <2>1
<1>7. \A u \in Tables(p), j \in Idx : \A x : Leads(p, u, j, x) => x \in Targets(p)
  BY KidsAre DEF Targets
<1>8. ASSUME NEW u \in Tables(q), NEW v \in Tables(q), NEW j \in Idx, NEW l \in Idx, NEW x,
             Leads(q, u, j, x), Leads(q, v, l, x)
      PROVE  u = v /\ j = l
  <2>1. u \in RAM /\ v \in RAM
    BY <1>3 DEF Sound
  <2>2. u # f /\ v # f
    BY <1>8, <2>1 DEF Linked
  <2>3. u \in Tables(p) /\ v \in Tables(p)
    BY <1>3, <2>2
  <2>4. /\ IF u = t /\ j = i THEN x = f ELSE Leads(p, u, j, x)
        /\ IF v = t /\ l = i THEN x = f ELSE Leads(p, v, l, x)
    BY <1>8, <2>1 DEF Linked
  <2>5. Leads(p, u, j, x) /\ Leads(p, v, l, x) => u = v /\ j = l
    BY <2>3, TreeIs DEF Sound
  <2>6. ~Leads(p, u, j, f) /\ ~Leads(p, v, l, f)
    BY <1>5, <1>7, <2>3
  <2> QED
    BY <2>4, <2>5, <2>6
<1>9. Tree(q)
  BY <1>6, <1>8, TreeIs
<1>10. q \in [RAM -> [Idx -> Nat]]
  BY DEF Linked
<1> QED
  BY <1>1, <1>3, <1>4, <1>9, <1>10 DEF Sound

-----------------------------------------------------------------------------
(* Walks.                                                                   *)

\* One step of a walk.
LEMMA DescendIs ==
  ASSUME NEW p, NEW t, NEW i
  PROVE  /\ t # Null => \A x : Leads(p, t, i, x) => Descend(p, t, i) = x
         /\ (\A x : ~Leads(p, t, i, x)) => Descend(p, t, i) = Null
         /\ Descend(p, t, i) # Null => t # Null /\ Leads(p, t, i, Descend(p, t, i))
         /\ Descend(p, Null, i) = Null
BY DEF Descend, Leads

\* The indices of an address are indices of tables.
LEMMA IndicesIn ==
  ASSUME NEW a \in Nat
  PROVE  LET ix == calculate_pt_indices(a) IN
         ix.pgd \in Idx /\ ix.pud \in Idx /\ ix.pmd \in Idx /\ ix.pt \in Idx
<1>1. FANOUT \in Nat /\ FANOUT > 0
  BY PagingAssumption
<1>2. \A n \in Nat : n % FANOUT \in Idx
  BY <1>1 DEF Idx
<1>3. \A m, n \in Nat : m > 0 /\ n > 0 => m * n \in Nat /\ m * n > 0
  OBVIOUS
<1>4. \A n \in Nat, m \in Nat : m > 0 => n \div m \in Nat
  OBVIOUS
<1>5. /\ FANOUT * FANOUT \in Nat /\ FANOUT * FANOUT > 0
      /\ FANOUT * FANOUT * FANOUT \in Nat /\ FANOUT * FANOUT * FANOUT > 0
  BY <1>1, <1>3
<1>6. a \div 4096 \in Nat
  OBVIOUS
<1> QED
  BY <1>1, <1>2, <1>4, <1>5, <1>6 DEF calculate_pt_indices

\* The tables that a walk passes, and where it ends.
LEMMA WalkIs ==
  ASSUME NEW p, NEW a
  PROVE  LET ix == calculate_pt_indices(a)
             d1 == Descend(p, CR3, ix.pgd)
             d2 == Descend(p, d1, ix.pud)
             d3 == Descend(p, d2, ix.pmd)
         IN  LeafTable(p, a) = d3 /\ Translate(p, a) = Descend(p, d3, ix.pt)
BY DEF LeafTable, Translate

\* A walk goes down level by level.
LEMMA DescendIn ==
  ASSUME NEW p, NEW i \in Idx
  PROVE  /\ Descend(p, CR3, i) \in Puds(p) \cup {Null}
         /\ \A u \in Puds(p) \cup {Null} : Descend(p, u, i) \in Pmds(p) \cup {Null}
         /\ \A u \in Pmds(p) \cup {Null} : Descend(p, u, i) \in Pts(p) \cup {Null}
         /\ \A u \in Pts(p) \cup {Null} : Descend(p, u, i) \in Mapped(p) \cup {Null}
<1>1. \A u : Descend(p, u, i) # Null => u # Null /\ Leads(p, u, i, Descend(p, u, i))
  BY DescendIs
<1> QED
  BY <1>1, LevelsAre

\* LeafTable and Translate stay in the tree.
LEMMA WalkIn ==
  ASSUME NEW p, NEW a \in Nat
  PROVE  LeafTable(p, a) \in Pts(p) \cup {Null} /\ Translate(p, a) \in Mapped(p) \cup {Null}
<1> DEFINE ix == calculate_pt_indices(a)
           d1 == Descend(p, CR3, ix.pgd)
           d2 == Descend(p, d1, ix.pud)
           d3 == Descend(p, d2, ix.pmd)
<1>1. ix.pgd \in Idx /\ ix.pud \in Idx /\ ix.pmd \in Idx /\ ix.pt \in Idx
  BY IndicesIn
<1>2. LeafTable(p, a) = d3 /\ Translate(p, a) = Descend(p, d3, ix.pt)
  BY WalkIs
<1> HIDE DEF ix
<1>3. d1 \in Puds(p) \cup {Null}
  BY <1>1, DescendIn
<1> HIDE DEF d1
<1>4. d2 \in Pmds(p) \cup {Null}
  BY <1>1, <1>3, DescendIn
<1> HIDE DEF d2
<1>5. d3 \in Pts(p) \cup {Null}
  BY <1>1, <1>4, DescendIn
<1> HIDE DEF d3
<1>6. Descend(p, d3, ix.pt) \in Mapped(p) \cup {Null}
  BY <1>1, <1>5, DescendIn
<1> QED
  BY <1>2, <1>5, <1>6

\* Linking an empty table changes the translation of no address, and no step of
\* a walk that led somewhere.
LEMMA LinkWalks ==
  ASSUME NEW p, Sound(p), NEW q, NEW k \in 0 .. 2, NEW t \in Level(p, k), NEW i \in Idx,
         \A x : ~Leads(p, t, i, x),
         NEW f \in RAM, f \notin Tables(p) \cup Mapped(p), Linked(p, q, t, i, f)
  PROVE  /\ \A u \in Tables(p), j \in Idx :
              Descend(p, u, j) # Null => Descend(q, u, j) = Descend(p, u, j)
         /\ Descend(q, t, i) = f
         /\ \A a \in Nat : Translate(q, a) = Translate(p, a)
<1>1. t \in RAM /\ t # f /\ t # Null /\ f # Null
  BY LinkLevels, RamFacts
<1>2. t \notin Pts(p) /\ t \in Tables(p)
  <2>1. k = 0 \/ k = 1 \/ k = 2
    OBVIOUS
  <2> QED
    BY <2>1, LevelsApart DEF Sound, Level, Tables
<1>3. Descend(p, t, i) = Null /\ Descend(q, t, i) = f
  <2>1. Leads(q, t, i, f)
    BY <1>1 DEF Linked
  <2> QED
    BY <1>1, <2>1, DescendIs
<1>4. \A j \in Idx : Descend(q, f, j) = Null
  <2>1. \A j \in Idx : \A x : ~Leads(q, f, j, x)
    BY DEF Linked
  <2> QED
    BY <2>1, DescendIs
<1>5. ASSUME NEW u \in Tables(p), NEW j \in Idx, ~(u = t /\ j = i)
      PROVE  Descend(q, u, j) = Descend(p, u, j)
  <2>1. u \in RAM /\ u # f /\ u # Null
    BY RamFacts DEF Sound
  <2>2. \A x : Leads(q, u, j, x) <=> Leads(p, u, j, x)
    BY <1>5, <2>1 DEF Linked
  <2>3. CASE \E x : Leads(p, u, j, x)
    BY <2>1, <2>2, <2>3, DescendIs
  <2>4. CASE \A x : ~Leads(p, u, j, x)
    BY <2>1, <2>2, <2>4, DescendIs
  <2> QED
    BY <2>3, <2>4
<1>6. \A u \in Tables(p), j \in Idx :
        Descend(p, u, j) # Null => Descend(q, u, j) = Descend(p, u, j)
  BY <1>3, <1>5
<1>7. \A j : Descend(q, Null, j) = Null /\ Descend(p, Null, j) = Null
  BY DescendIs
<1>8. \A d \in Tables(p) \cup {Null}, e \in Tables(p) \cup {Null, f}, j \in Idx :
        (e = d \/ (d = Null /\ e = f)) =>
          \/ Descend(q, e, j) = Descend(p, d, j)
          \/ d = t /\ Descend(p, d, j) = Null /\ Descend(q, e, j) = f
  BY <1>3, <1>4, <1>5, <1>7
<1>9. ASSUME NEW a \in Nat
      PROVE  Translate(q, a) = Translate(p, a)
  <2> DEFINE ix == calculate_pt_indices(a)
             d1 == Descend(p, CR3, ix.pgd)
             d2 == Descend(p, d1, ix.pud)
             d3 == Descend(p, d2, ix.pmd)
             e1 == Descend(q, CR3, ix.pgd)
             e2 == Descend(q, e1, ix.pud)
             e3 == Descend(q, e2, ix.pmd)
  <2>1. ix.pgd \in Idx /\ ix.pud \in Idx /\ ix.pmd \in Idx /\ ix.pt \in Idx
    BY IndicesIn
  <2>2. Translate(p, a) = Descend(p, d3, ix.pt) /\ Translate(q, a) = Descend(q, e3, ix.pt)
    BY WalkIs
  <2> HIDE DEF ix
  <2>3. d1 \in Puds(p) \cup {Null} /\ (e1 = d1 \/ (d1 = Null /\ e1 = f))
    <3>1. CR3 \in Tables(p)
      BY DEF Tables
    <3> QED
      BY <1>8, <2>1, <3>1, DescendIn
  <2> HIDE DEF d1, e1
  <2>4. d2 \in Pmds(p) \cup {Null} /\ (e2 = d2 \/ (d2 = Null /\ e2 = f))
    <3>1. d1 \in Tables(p) \cup {Null} /\ e1 \in Tables(p) \cup {Null, f}
      BY <2>3 DEF Tables
    <3> QED
      BY <1>8, <2>1, <2>3, <3>1, DescendIn
  <2> HIDE DEF d2, e2
  <2>5. d3 \in Pts(p) \cup {Null} /\ (e3 = d3 \/ (d3 = Null /\ e3 = f))
    <3>1. d2 \in Tables(p) \cup {Null} /\ e2 \in Tables(p) \cup {Null, f}
      BY <2>4 DEF Tables
    <3> QED
      BY <1>8, <2>1, <2>4, <3>1, DescendIn
  <2> HIDE DEF d3, e3
  <2>6. d3 \in Tables(p) \cup {Null} /\ e3 \in Tables(p) \cup {Null, f}
    BY <2>5 DEF Tables
  <2>7. d3 # t
    BY <1>1, <1>2, <2>5
  <2> QED
    BY <1>8, <2>1, <2>2, <2>5, <2>6, <2>7
<1> QED
  BY <1>3, <1>6, <1>9

-----------------------------------------------------------------------------
(* A page mapped or unmapped.                                               *)

\* In q entry i of the leaf table t leads to the addresses in G: one or none.
Written(p, q, t, i, G) ==
  /\ q \in [RAM -> [Idx -> Nat]]
  /\ \A u \in RAM, j \in Idx : \A x :
       Leads(q, u, j, x) <=> IF u = t /\ j = i THEN x \in G ELSE Leads(p, u, j, x)

\* The write of map_to_page and the one of unmap_page.
LEMMA WriteIs ==
  ASSUME NEW p \in [RAM -> [Idx -> Nat]], NEW t \in RAM, NEW i \in Idx, NEW q
  PROVE  /\ \A f \in Nat : q = [p EXCEPT ![t][i] = Entry(f)] => Written(p, q, t, i, {PageOf(f)})
         /\ q = [p EXCEPT ![t][i] = 0] => Written(p, q, t, i, {})
<1>1. ASSUME NEW e \in Nat, q = [p EXCEPT ![t][i] = e]
      PROVE  /\ q \in [RAM -> [Idx -> Nat]]
             /\ \A u \in RAM, j \in Idx : q[u][j] = IF u = t /\ j = i THEN e ELSE p[u][j]
  BY <1>1
<1>2. ASSUME NEW f \in Nat, q = [p EXCEPT ![t][i] = Entry(f)]
      PROVE  Written(p, q, t, i, {PageOf(f)})
  <2>1. /\ Entry(f) \in Nat /\ is_page_table_present(Entry(f))
        /\ page_table_phys_address(Entry(f)) = PageOf(f)
    BY EntryIs
  <2>2. /\ q \in [RAM -> [Idx -> Nat]]
        /\ \A u \in RAM, j \in Idx : q[u][j] = IF u = t /\ j = i THEN Entry(f) ELSE p[u][j]
    BY <1>1, <1>2, <2>1
  <2> QED
    BY <2>1, <2>2 DEF Written, Leads
<1>3. ASSUME q = [p EXCEPT ![t][i] = 0]
      PROVE  Written(p, q, t, i, {})
  <2>1. ~is_page_table_present(0)
    BY DEF is_page_table_present
  <2>2. /\ q \in [RAM -> [Idx -> Nat]]
        /\ \A u \in RAM, j \in Idx : q[u][j] = IF u = t /\ j = i THEN 0 ELSE p[u][j]
    BY <1>1, <1>3
  <2> QED
    BY <2>1, <2>2 DEF Written, Leads
<1> QED
  BY <1>2, <1>3

\* The tables stay where they are; the pages mapped lose what the entry led to
\* and gain what it leads to now.
LEMMA WriteLevels ==
  ASSUME NEW p, Sound(p), NEW q, NEW t \in Pts(p), NEW i \in Idx, NEW G, Written(p, q, t, i, G)
  PROVE  /\ Puds(q) = Puds(p) /\ Pmds(q) = Pmds(p) /\ Pts(q) = Pts(p)
         /\ \A x : x \in Mapped(q) <=> x \in G \/ (x \in Mapped(p) /\ ~Leads(p, t, i, x))
<1> DEFINE A == Puds(p)  B == Pmds(p)  C == Pts(p)
<1>1. {CR3} \subseteq RAM /\ A \subseteq RAM /\ B \subseteq RAM /\ C \subseteq RAM
  BY RamFacts DEF Sound, Tables
<1>2. CR3 \notin C /\ A \cap C = {} /\ B \cap C = {}
  BY LevelsApart DEF Sound
<1>3. /\ A = Children(p, {CR3}) /\ B = Children(p, A) /\ C = Children(p, B)
  BY DEF Puds, Pmds, Pts
<1>4. /\ Puds(q) = Children(q, {CR3}) /\ Pmds(q) = Children(q, Puds(q))
      /\ Pts(q) = Children(q, Pmds(q))
  BY DEF Puds, Pmds, Pts
<1> HIDE DEF A, B, C
<1>5. ASSUME NEW X, X \subseteq RAM, t \notin X
      PROVE  Children(q, X) = Children(p, X)
  <2>1. \A u \in X, j \in Idx : \A x : Leads(q, u, j, x) <=> Leads(p, u, j, x)
    BY <1>5 DEF Written
  <2>2. /\ \A x : x \in Children(p, X) <=> \E u \in X, j \in Idx : Leads(p, u, j, x)
        /\ \A x : x \in Children(q, X) <=> \E u \in X, j \in Idx : Leads(q, u, j, x)
    BY KidsAre
  <2>3. \A x : x \in Children(q, X) <=> x \in Children(p, X)
    BY <2>1, <2>2
  <2> QED
    BY <2>3
<1>6. t \notin {CR3} /\ t \notin A /\ t \notin B /\ t \in RAM /\ t \in C
  BY <1>1, <1>2 DEF C
<1>7. Puds(q) = A
  BY <1>1, <1>3, <1>4, <1>5, <1>6
<1>8. Pmds(q) = B
  BY <1>1, <1>3, <1>4, <1>5, <1>6, <1>7
<1>9. Pts(q) = C
  BY <1>1, <1>3, <1>4, <1>5, <1>6, <1>8
<1>10. /\ \A x : x \in Mapped(p) <=> \E u \in C, j \in Idx : Leads(p, u, j, x)
       /\ \A x : x \in Mapped(q) <=> \E u \in C, j \in Idx : Leads(q, u, j, x)
  BY <1>9, LevelsAre DEF C
<1>11. \A u \in C, j \in Idx : \A x :
         Leads(q, u, j, x) <=> IF u = t /\ j = i THEN x \in G ELSE Leads(p, u, j, x)
  BY <1>1 DEF Written
<1>12. \A u \in C, j \in Idx : \A x : Leads(p, u, j, x) /\ Leads(p, t, i, x) => u = t /\ j = i
  <2>1. C \subseteq Tables(p)
    BY DEF C, Tables
  <2> QED
    BY <1>6, <2>1, TreeIs DEF Sound
<1>13. ASSUME NEW x, x \in Mapped(q)
       PROVE  x \in G \/ (x \in Mapped(p) /\ ~Leads(p, t, i, x))
  <2>1. PICK u \in C, j \in Idx : Leads(q, u, j, x)
    BY <1>10, <1>13
  <2>2. CASE u = t /\ j = i
    BY <1>11, <2>1, <2>2
  <2>3. CASE ~(u = t /\ j = i)
    <3>1. Leads(p, u, j, x)
      BY <1>11, <2>1, <2>3
    <3> QED
      BY <1>10, <1>12, <2>3, <3>1
  <2> QED
    BY <2>2, <2>3
<1>14. ASSUME NEW x, x \in G \/ (x \in Mapped(p) /\ ~Leads(p, t, i, x))
       PROVE  x \in Mapped(q)
  <2>1. CASE x \in G
    BY <1>6, <1>10, <1>11, <2>1
  <2>2. CASE x \in Mapped(p) /\ ~Leads(p, t, i, x)
    <3>1. PICK u \in C, j \in Idx : Leads(p, u, j, x)
      BY <1>10, <2>2
    <3>2. Leads(q, u, j, x)
      BY <1>11, <2>2, <3>1
    <3> QED
      BY <1>10, <3>2
  <2> QED
    BY <1>14, <2>1, <2>2
<1> QED
  BY <1>7, <1>8, <1>9, <1>13, <1>14 DEF A, B, C

\* Mapping a page to a frame that is not in use, or unmapping it, keeps the tree sound.
LEMMA WriteSound ==
  ASSUME NEW p, Sound(p), NEW q, NEW t \in Pts(p), NEW i \in Idx, NEW G, Written(p, q, t, i, G),
         G \subseteq RAM \cup {Bogus}, G \cap (Tables(p) \cup Mapped(p)) = {}
  PROVE  Sound(q) /\ Tables(q) = Tables(p)
<1>1. /\ Puds(q) = Puds(p) /\ Pmds(q) = Pmds(p) /\ Pts(q) = Pts(p)
      /\ \A x : x \in Mapped(q) <=> x \in G \/ (x \in Mapped(p) /\ ~Leads(p, t, i, x))
  BY WriteLevels
<1>2. Tables(q) = Tables(p)
  BY <1>1 DEF Tables
<1>3. CR3 \notin Targets(q)
  <2>1. CR3 \notin Targets(p) /\ CR3 \notin G
    BY TreeIs DEF Sound, Tables
  <2>2. /\ Targets(p) = Puds(p) \cup Pmds(p) \cup Pts(p) \cup Mapped(p)
        /\ Targets(q) = Puds(q) \cup Pmds(q) \cup Pts(q) \cup Mapped(q)
    BY TargetsAre
  <2> QED
    BY <1>1, <2>1, <2>2
<1>4. ASSUME NEW u \in Tables(q), NEW v \in Tables(q), NEW j \in Idx, NEW l \in Idx, NEW x,
             Leads(q, u, j, x), Leads(q, v, l, x)
      PROVE  u = v /\ j = l
  <2>1. u \in RAM /\ v \in RAM /\ u \in Tables(p) /\ v \in Tables(p)
    BY <1>2 DEF Sound
  <2>2. /\ IF u = t /\ j = i THEN x \in G ELSE Leads(p, u, j, x)
        /\ IF v = t /\ l = i THEN x \in G ELSE Leads(p, v, l, x)
    BY <1>4, <2>1 DEF Written
  <2>3. Leads(p, u, j, x) /\ Leads(p, v, l, x) => u = v /\ j = l
    BY <2>1, TreeIs DEF Sound
  <2>4. x \in G => ~Leads(p, u, j, x) /\ ~Leads(p, v, l, x)
    <3>1. Leads(p, u, j, x) \/ Leads(p, v, l, x) => x \in Targets(p)
      BY <2>1, KidsAre DEF Targets
    <3>2. Targets(p) \subseteq Tables(p) \cup Mapped(p)
      BY TargetsAre DEF Tables
    <3> QED
      BY <3>1, <3>2
  <2> QED
    BY <2>2, <2>3, <2>4
<1>5. Tree(q)
  BY <1>3, <1>4, TreeIs
<1>6. Mapped(q) \subseteq RAM \cup {Bogus}
  BY <1>1 DEF Sound
<1>7. q \in [RAM -> [Idx -> Nat]]
  BY DEF Written
<1> QED
  BY <1>2, <1>5, <1>6, <1>7 DEF Sound

\* Only the addresses whose walk ends at the entry are translated differently.
LEMMA WriteWalks ==
  ASSUME NEW p, Sound(p), NEW q, NEW t \in Pts(p), NEW i \in Idx, NEW G, Written(p, q, t, i, G),
         NEW a \in Nat
  PROVE  /\ LeafTable(q, a) = LeafTable(p, a)
         /\ Translate(q, a) = IF LeafTable(p, a) = t /\ calculate_pt_indices(a).pt = i
                              THEN Descend(q, t, i) ELSE Translate(p, a)
<1>1. \A u \in Tables(p) \cup {Null}, j \in Idx :
        ~(u = t /\ j = i) => Descend(q, u, j) = Descend(p, u, j)
  <2>1. ASSUME NEW u \in Tables(p), NEW j \in Idx, ~(u = t /\ j = i)
        PROVE  Descend(q, u, j) = Descend(p, u, j)
    <3>1. u \in RAM /\ u # Null
      BY RamFacts DEF Sound
    <3>2. \A x : Leads(q, u, j, x) <=> Leads(p, u, j, x)
      BY <2>1, <3>1 DEF Written
    <3>3. CASE \E x : Leads(p, u, j, x)
      BY <3>1, <3>2, <3>3, DescendIs
    <3>4. CASE \A x : ~Leads(p, u, j, x)
      BY <3>1, <3>2, <3>4, DescendIs
    <3> QED
      BY <3>3, <3>4
  <2>2. \A j : Descend(q, Null, j) = Null /\ Descend(p, Null, j) = Null
    BY DescendIs
  <2> QED
    BY <2>1, <2>2
<1>2. t # CR3 /\ t \notin Puds(p) /\ t \notin Pmds(p) /\ t # Null
  BY LevelsApart, RamFacts DEF Sound, Tables
<1> DEFINE ix == calculate_pt_indices(a)
           d1 == Descend(p, CR3, ix.pgd)
           d2 == Descend(p, d1, ix.pud)
           d3 == Descend(p, d2, ix.pmd)
           e1 == Descend(q, CR3, ix.pgd)
           e2 == Descend(q, e1, ix.pud)
           e3 == Descend(q, e2, ix.pmd)
<1>3. ix.pgd \in Idx /\ ix.pud \in Idx /\ ix.pmd \in Idx /\ ix.pt \in Idx
  BY IndicesIn
<1>4. /\ Translate(p, a) = Descend(p, d3, ix.pt) /\ Translate(q, a) = Descend(q, e3, ix.pt)
      /\ LeafTable(p, a) = d3 /\ LeafTable(q, a) = e3
  BY WalkIs
<1> HIDE DEF ix
<1>5. d1 \in Puds(p) \cup {Null} /\ e1 = d1
  <2>1. CR3 \in Tables(p) \cup {Null}
    BY DEF Tables
  <2> QED
    BY <1>1, <1>2, <1>3, <2>1, DescendIn
<1> HIDE DEF d1, e1
<1>6. d2 \in Pmds(p) \cup {Null} /\ e2 = d2
  <2>1. d1 \in Tables(p) \cup {Null} /\ d1 # t
    BY <1>2, <1>5 DEF Tables
  <2> QED
    BY <1>1, <1>3, <1>5, <2>1, DescendIn
<1> HIDE DEF d2, e2
<1>7. d3 \in Pts(p) \cup {Null} /\ e3 = d3
  <2>1. d2 \in Tables(p) \cup {Null} /\ d2 # t
    BY <1>2, <1>6 DEF Tables
  <2> QED
    BY <1>1, <1>3, <1>6, <2>1, DescendIn
<1> HIDE DEF d3, e3
<1>8. d3 \in Tables(p) \cup {Null}
  BY <1>7 DEF Tables
<1>9. Translate(q, a) = IF d3 = t /\ ix.pt = i THEN Descend(q, t, i) ELSE Translate(p, a)
  BY <1>1, <1>3, <1>4, <1>7, <1>8
<1> QED
  BY <1>4, <1>7, <1>9 DEF ix

-----------------------------------------------------------------------------
(* The operations.                                                          *)

Records == [mem : [Words -> Nat], phys : [RAM -> [Idx -> Nat]], at : Int]

\* List and tree are sound and share no frame; the page of the bogus pop is mapped
\* after that pop at the earliest.
OK(s) ==
  /\ s \in Records
  /\ ListOK(s.mem)
  /\ Sound(s.phys)
  /\ FreeFrames(s.mem) \cap (Tables(s.phys) \cup Mapped(s.phys)) = {}
  /\ Bogus \in Mapped(s.phys) => Dead(s.mem)

\* From s to u frames of the list have become tables and nothing else has changed.
Grows(s, u) ==
  /\ FreeFrames(u.mem) \subseteq FreeFrames(s.mem)
  /\ Tables(s.phys) \subseteq Tables(u.phys)
  /\ Tables(u.phys) \cup FreeFrames(u.mem) = Tables(s.phys) \cup FreeFrames(s.mem)
  /\ Mapped(u.phys) = Mapped(s.phys)
  /\ Dead(u.mem) <=> Dead(s.mem)
  /\ \A v \in Tables(s.phys), j \in Idx :
       Descend(s.phys, v, j) # Null => Descend(u.phys, v, j) = Descend(s.phys, v, j)
  /\ \A a \in Nat : Translate(u.phys, a) = Translate(s.phys, a)

\* The list holds frames of the region only.
LEMMA FreeInRegion ==
  ASSUME NEW m, ListOK(m)
  PROVE  FreeFrames(m) \subseteq Region
<1>1. ASSUME NEW n \in 0 .. SLOTS, Filled(m, n) PROVE FreeFrames(m) \subseteq Region
  <2>1. FreeFrames(m) = {m[Slot(i)] : i \in 0 .. n - 1}
    BY <1>1, SpentFacts
  <2> QED
    BY <1>1, <2>1 DEF Filled
<1>2. Drained(m) \/ Dead(m) => FreeFrames(m) = {}
  BY SpentFacts
<1> QED
  BY <1>1, <1>2 DEF ListOK

\* A step down an entry that is present.
LEMMA LevelDown ==
  ASSUME NEW p, NEW k \in 0 .. 2, NEW t \in Level(p, k), NEW i \in Idx, NEW x, Leads(p, t, i, x)
  PROVE  x \in Level(p, k + 1)
<1>1. k = 0 \/ k = 1 \/ k = 2
  OBVIOUS
<1> QED
  BY <1>1, LevelsAre DEF Level

\* The four levels are tables.
LEMMA LevelInTables ==
  ASSUME NEW p, NEW k \in 0 .. 3
  PROVE  Level(p, k) \subseteq Tables(p)
<1>1. k = 0 \/ k = 1 \/ k = 2 \/ k = 3
  OBVIOUS
<1> QED
  BY <1>1 DEF Level, Tables

\* One level of map_to_page: the child is a table of the next level, or the walk stops
\* with a sound tree.  The list must not be drained before it: the table would be bogus.
LEMMA ChildGrows ==
  ASSUME NEW s, OK(s), NEW k \in 0 .. 2, NEW i \in Idx,
         s.at = Null \/ (s.at \in Level(s.phys, k) /\ ~Drained(s.mem)),
         NEW u, u = ChildTable(s, i)
  PROVE  /\ OK(u) /\ Grows(s, u)
         /\ u.at # Null => /\ s.at # Null
                           /\ u.at \in Level(u.phys, k + 1) /\ ~Drained(u.mem)
                           /\ u.at = Descend(u.phys, s.at, i)
<1> DEFINE p == s.phys
           t == s.at
<1>1. s \in Records /\ p \in [RAM -> [Idx -> Nat]]
  BY DEF OK, Records
<1>2. CASE t = Null
  <2>1. u = s
    BY <1>2 DEF ChildTable, Stopped
  <2> QED
    BY <1>2, <2>1 DEF Grows
<1>3. ASSUME t # Null
      PROVE  t \in Level(p, k) /\ t \in Tables(p) /\ t \in RAM /\ ~Drained(s.mem) /\ t \notin Stopped
  <2>1. t \in Level(p, k) /\ ~Drained(s.mem)
    BY <1>3
  <2>2. t \in Tables(p) /\ t \in RAM
    <3>1. k \in 0 .. 3
      OBVIOUS
    <3> QED
      BY <2>1, <3>1, LevelInTables DEF OK, Sound
  <2>3. t \in Nat
    BY <2>2, RamFacts
  <2> QED
    BY <1>3, <2>1, <2>2, <2>3 DEF Stopped, Fault
<1>4. CASE t # Null /\ is_page_table_present(p[t][i])
  <2> DEFINE x == page_table_phys_address(p[t][i])
  <2>1. u = [s EXCEPT !.at = x]
    BY <1>3, <1>4 DEF ChildTable
  <2>2. Leads(p, t, i, x)
    BY <1>4 DEF Leads
  <2>3. x \in Int
    <3>1. p[t][i] \in Nat
      BY <1>1, <1>3, <1>4
    <3> QED
      BY <3>1 DEF page_table_phys_address
  <2> HIDE DEF x
  <2>4. u \in Records /\ u.mem = s.mem /\ u.phys = p /\ u.at = x
    BY <1>1, <2>1, <2>3 DEF Records
  <2>5. OK(u) /\ Grows(s, u)
    BY <2>4 DEF OK, Grows
  <2>6. x = Descend(p, t, i)
    BY <1>4, <2>2, DescendIs
  <2>7. x \in Level(p, k + 1)
    BY <1>3, <1>4, <2>2, LevelDown
  <2> QED
    BY <1>3, <1>4, <2>4, <2>5, <2>6, <2>7
<1>5. CASE t # Null /\ ~is_page_table_present(p[t][i])
  <2> DEFINE r == pop_frame_list(s.mem)
             c == create_new_page_table(s)
  <2>0. \A x : ~Leads(p, t, i, x)
    BY <1>5 DEF Leads
  <2>1. u = IF c.at \in Stopped THEN c ELSE [c EXCEPT !.phys[t][i] = Entry(c.at)]
    BY <1>3, <1>5 DEF ChildTable
  <2>2. ListOK(r.mem) /\ r.mem \in [Words -> Nat]
    <3>1. ListOK(r.mem)
      BY PopList DEF OK
    <3> QED
      BY <3>1 DEF ListOK
  <2>3. TakesFrame(s.mem, r) \/ FindsNothing(s.mem, r)
    <3>1. ~Drained(s.mem)
      BY <1>3, <1>5
    <3> QED
      BY <3>1, PopList DEF OK, TakesBogus
  <2>4. CASE FindsNothing(s.mem, r)
    <3>1. r.ret = Null
      BY <2>4 DEF FindsNothing
    <3>2. c = [s EXCEPT !.mem = r.mem, !.at = Null]
      <4>1. r.ret \notin RAM
        BY <3>1, RamFacts
      <4> QED
        BY <3>1, <4>1 DEF create_new_page_table
    <3> HIDE DEF r, c
    <3>3. c \in Records /\ c.mem = r.mem /\ c.phys = p /\ c.at = Null
      <4>1. c = [mem |-> r.mem, phys |-> p, at |-> Null]
        BY <1>1, <3>2 DEF Records
      <4>2. Null \in Int
        BY DEF Null
      <4> QED
        BY <1>1, <2>2, <4>1, <4>2 DEF Records
    <3>4. u = c
      BY <2>1, <3>3 DEF Stopped
    <3>5. OK(u)
      BY <2>2, <2>4, <3>3, <3>4 DEF OK, FindsNothing
    <3>6. Grows(s, u)
      BY <2>4, <3>3, <3>4 DEF Grows, FindsNothing
    <3> QED
      BY <3>3, <3>4, <3>5, <3>6
  <2>5. CASE TakesFrame(s.mem, r)
    <3> DEFINE f == r.ret
    <3>1. /\ f \in FreeFrames(s.mem) /\ f \in Region /\ f \in RAM
          /\ FreeFrames(r.mem) = FreeFrames(s.mem) \ {f}
          /\ ~Drained(r.mem) /\ ~Dead(r.mem) /\ ~Dead(s.mem)
      <4>1. ~Drained(r.mem) /\ ~Dead(r.mem) /\ ~Dead(s.mem)
        BY <2>5, PopList DEF OK
      <4> QED
        BY <2>5, <4>1, RamFacts DEF TakesFrame
    <3>2. f # Null /\ f \notin Stopped /\ f \in Int
      BY <3>1, RamFacts DEF Stopped, Fault
    <3>3. f \notin Tables(p) \cup Mapped(p) /\ f # t
      BY <1>3, <1>5, <3>1 DEF OK
    <3>4. c = [mem |-> r.mem, phys |-> [p EXCEPT ![f] = EmptyTable], at |-> f]
      BY <3>1, <3>2 DEF create_new_page_table
    <3> HIDE DEF r, c, f
    <3> DEFINE q == [[p EXCEPT ![f] = EmptyTable] EXCEPT ![t][i] = Entry(f)]
    <3>5. u = [mem |-> r.mem, phys |-> q, at |-> f]
      BY <2>1, <3>2, <3>4
    <3>6. Linked(p, q, t, i, f)
      BY <1>1, <1>3, <1>5, <3>1, <3>3, LinkIs
    <3> HIDE DEF q
    <3>7. Sound(p) /\ t \in Level(p, k)
      BY <1>3, <1>5 DEF OK
    <3> HIDE DEF p, t
    <3>8. /\ Sound(q) /\ Tables(q) = Tables(p) \cup {f} /\ Mapped(q) = Mapped(p)
          /\ f \in Level(q, k + 1)
      BY <2>0, <3>1, <3>3, <3>6, <3>7, LinkSound
    <3>9. /\ \A v \in Tables(p), j \in Idx :
               Descend(p, v, j) # Null => Descend(q, v, j) = Descend(p, v, j)
          /\ Descend(q, t, i) = f
          /\ \A a \in Nat : Translate(q, a) = Translate(p, a)
      BY <2>0, <3>1, <3>3, <3>6, <3>7, LinkWalks
    <3>10. u.mem = r.mem /\ u.phys = q /\ u.at = f
      BY <3>5
    <3>11. u \in Records
      BY <2>2, <3>2, <3>5, <3>8 DEF Records, Sound
    <3>12. OK(u)
      <4>1. FreeFrames(s.mem) \cap (Tables(p) \cup Mapped(p)) = {} /\ Bogus \notin Mapped(p)
        BY <3>1 DEF OK, p
      <4> QED
        BY <2>2, <3>1, <3>8, <3>10, <3>11, <4>1 DEF OK
    <3>13. Grows(s, u)
      BY <3>1, <3>8, <3>9, <3>10 DEF Grows, p
    <3> QED
      BY <1>5, <3>1, <3>8, <3>9, <3>10, <3>12, <3>13 DEF t
  <2> QED
    BY <2>3, <2>4, <2>5
<1> QED
  BY <1>2, <1>4, <1>5

\* Grows is transitive.
LEMMA GrowsTwice ==
  ASSUME NEW s, NEW u, NEW w, Grows(s, u), Grows(u, w)
  PROVE  Grows(s, w)
<1>1. \A v \in Tables(s.phys), j \in Idx :
        Descend(s.phys, v, j) # Null => Descend(w.phys, v, j) = Descend(s.phys, v, j)
  BY DEF Grows
<1>2. \A a \in Nat : Translate(w.phys, a) = Translate(s.phys, a)
  BY DEF Grows
<1>3. /\ FreeFrames(w.mem) \subseteq FreeFrames(s.mem)
      /\ Tables(s.phys) \subseteq Tables(w.phys)
      /\ Tables(w.phys) \cup FreeFrames(w.mem) = Tables(s.phys) \cup FreeFrames(s.mem)
      /\ Mapped(w.phys) = Mapped(s.phys)
      /\ Dead(w.mem) <=> Dead(s.mem)
  BY DEF Grows
<1> QED
  BY <1>1, <1>2, <1>3 DEF Grows

\* The walk of map_to_page through the three upper levels: it ends at the leaf
\* table of the address, or has found the list empty.
LEMMA WalkGrows ==
  ASSUME NEW s, OK(s), ~Drained(s.mem), NEW addr \in Nat,
         NEW ix, ix = calculate_pt_indices(addr),
         NEW u, u = ChildTable(ChildTable(ChildTable([s EXCEPT !.at = CR3], ix.pgd), ix.pud), ix.pmd)
  PROVE  /\ OK(u) /\ Grows(s, u)
         /\ u.at # Null => u.at \in Pts(u.phys) /\ u.at = LeafTable(u.phys, addr)
<1> DEFINE u0 == [s EXCEPT !.at = CR3]
           u1 == ChildTable(u0, ix.pgd)
           u2 == ChildTable(u1, ix.pud)
           u3 == ChildTable(u2, ix.pmd)
<1>0. ix.pgd \in Idx /\ ix.pud \in Idx /\ ix.pmd \in Idx /\ ix.pt \in Idx
  BY IndicesIn
<1>1. /\ u0 \in Records /\ u0.mem = s.mem /\ u0.phys = s.phys /\ u0.at = CR3
  <2>1. CR3 \in Int /\ s \in Records
    BY RamFacts DEF OK
  <2> QED
    BY <2>1 DEF Records
<1>2. u = u3
  OBVIOUS
<1> HIDE DEF u0
<1>3. /\ OK(u0) /\ Grows(s, u0) /\ u0.at \in Level(u0.phys, 0) /\ ~Drained(u0.mem)
      /\ u0.at # Null
  <2>1. OK(u0) /\ Grows(s, u0)
    BY <1>1 DEF OK, Grows
  <2>2. CR3 \in Level(u0.phys, 0) /\ CR3 # Null
    BY RamFacts DEF Level
  <2> QED
    BY <1>1, <2>1, <2>2
<1>4. /\ OK(u1) /\ Grows(u0, u1)
      /\ u1.at # Null => /\ u1.at \in Level(u1.phys, 1) /\ ~Drained(u1.mem)
                         /\ u1.at = Descend(u1.phys, CR3, ix.pgd)
  <2>1. 0 \in 0 .. 2 /\ 0 + 1 = 1
    OBVIOUS
  <2> QED
    BY <1>0, <1>1, <1>3, <2>1, ChildGrows
<1> HIDE DEF u1
<1>5. /\ OK(u2) /\ Grows(u1, u2)
      /\ u2.at # Null => /\ u1.at # Null
                         /\ u2.at \in Level(u2.phys, 2) /\ ~Drained(u2.mem)
                         /\ u2.at = Descend(u2.phys, u1.at, ix.pud)
  <2>1. 1 \in 0 .. 2 /\ 1 + 1 = 2
    OBVIOUS
  <2> QED
    BY <1>0, <1>4, <2>1, ChildGrows
<1> HIDE DEF u2
<1>6. /\ OK(u3) /\ Grows(u2, u3)
      /\ u3.at # Null => /\ u2.at # Null
                         /\ u3.at \in Level(u3.phys, 3)
                         /\ u3.at = Descend(u3.phys, u2.at, ix.pmd)
  <2>1. 2 \in 0 .. 2 /\ 2 + 1 = 3
    OBVIOUS
  <2> QED
    BY <1>0, <1>5, <2>1, ChildGrows
<1> HIDE DEF u3
<1>7. Grows(s, u3)
  <2>1. Grows(s, u1)
    BY <1>3, <1>4, GrowsTwice
  <2>2. Grows(s, u2)
    BY <1>5, <2>1, GrowsTwice
  <2> QED
    BY <1>6, <2>2, GrowsTwice
<1>8. ASSUME u3.at # Null
      PROVE  u3.at \in Pts(u3.phys) /\ u3.at = LeafTable(u3.phys, addr)
  <2>1. u2.at # Null /\ u1.at # Null
    BY <1>5, <1>6, <1>8
  <2>2. Grows(u1, u3)
    BY <1>5, <1>6, GrowsTwice
  <2>3. CR3 \in Tables(u1.phys) /\ u1.at \in Tables(u1.phys) /\ u1.at \in Tables(u2.phys)
    <3>1. u1.at \in Tables(u1.phys)
      <4>1. 1 \in 0 .. 3
        OBVIOUS
      <4> QED
        BY <1>4, <2>1, <4>1, LevelInTables
    <3> QED
      BY <1>5, <3>1 DEF Grows, Tables
  <2>4. Descend(u3.phys, CR3, ix.pgd) = u1.at
    BY <1>0, <1>4, <2>1, <2>2, <2>3 DEF Grows
  <2>5. Descend(u3.phys, u1.at, ix.pud) = u2.at
    BY <1>0, <1>5, <1>6, <2>1, <2>3 DEF Grows
  <2>6. LeafTable(u3.phys, addr) =
          Descend(u3.phys, Descend(u3.phys, Descend(u3.phys, CR3, ix.pgd), ix.pud), ix.pmd)
    BY WalkIs
  <2>7. u3.at \in Pts(u3.phys)
    BY <1>6, <1>8 DEF Level
  <2> QED
    BY <1>6, <1>8, <2>4, <2>5, <2>6, <2>7
<1> QED
  BY <1>2, <1>6, <1>7, <1>8

\* Two walks that end at the same entry have taken the same way.
LEMMA OneWay ==
  ASSUME NEW p, Sound(p), NEW a \in Nat, NEW b \in Nat, LeafTable(p, a) # Null
  PROVE  LeafTable(p, a) = LeafTable(p, b) /\ calculate_pt_indices(a).pt = calculate_pt_indices(b).pt
           <=> calculate_pt_indices(a) = calculate_pt_indices(b)
<1> DEFINE ix == calculate_pt_indices(a)
           d1 == Descend(p, CR3, ix.pgd)
           d2 == Descend(p, d1, ix.pud)
           d3 == Descend(p, d2, ix.pmd)
           jx == calculate_pt_indices(b)
           e1 == Descend(p, CR3, jx.pgd)
           e2 == Descend(p, e1, jx.pud)
           e3 == Descend(p, e2, jx.pmd)
<1>1. /\ ix.pgd \in Idx /\ ix.pud \in Idx /\ ix.pmd \in Idx /\ ix.pt \in Idx
      /\ jx.pgd \in Idx /\ jx.pud \in Idx /\ jx.pmd \in Idx /\ jx.pt \in Idx
  BY IndicesIn
<1>2. LeafTable(p, a) = d3 /\ LeafTable(p, b) = e3
  BY WalkIs
<1>3. ix.pgd = jx.pgd /\ ix.pud = jx.pud /\ ix.pmd = jx.pmd /\ ix.pt = jx.pt => ix = jx
  BY DEF calculate_pt_indices
<1> HIDE DEF ix, jx
<1>4. ASSUME NEW u \in Tables(p), NEW v \in Tables(p), NEW i \in Idx, NEW j \in Idx,
             Descend(p, u, i) = Descend(p, v, j), Descend(p, u, i) # Null
      PROVE  u = v /\ i = j
  <2>1. Leads(p, u, i, Descend(p, u, i)) /\ Leads(p, v, j, Descend(p, u, i))
    BY <1>4, DescendIs
  <2> QED
    BY <2>1, TreeIs DEF Sound
<1>5. ASSUME d3 = e3
      PROVE  ix.pgd = jx.pgd /\ ix.pud = jx.pud /\ ix.pmd = jx.pmd
  <2>1. d3 # Null /\ e3 # Null
    BY <1>2, <1>5
  <2>2. d1 \in Puds(p) \cup {Null} /\ e1 \in Puds(p) \cup {Null}
    BY <1>1, DescendIn
  <2>3. d2 \in Pmds(p) \cup {Null} /\ e2 \in Pmds(p) \cup {Null}
    <3> HIDE DEF d1, e1
    <3> QED
      BY <1>1, <2>2, DescendIn
  <2>4. d2 # Null /\ e2 # Null
    <3> HIDE DEF d2, e2
    <3> QED
      BY <2>1, DescendIs
  <2>5. d1 # Null /\ e1 # Null
    <3> HIDE DEF d1, e1
    <3> QED
      BY <2>4, DescendIs
  <2>6. /\ d1 \in Tables(p) /\ e1 \in Tables(p) /\ d2 \in Tables(p) /\ e2 \in Tables(p)
        /\ CR3 \in Tables(p)
    <3> HIDE DEF d1, e1, d2, e2
    <3> QED
      BY <2>2, <2>3, <2>4, <2>5 DEF Tables
  <2>7. d2 = e2 /\ ix.pmd = jx.pmd
    <3> HIDE DEF d2, e2
    <3> QED
      BY <1>1, <1>4, <1>5, <2>1, <2>6
  <2>8. d1 = e1 /\ ix.pud = jx.pud
    <3> HIDE DEF d1, e1
    <3> QED
      BY <1>1, <1>4, <2>4, <2>6, <2>7
  <2>9. ix.pgd = jx.pgd
    BY <1>1, <1>4, <2>5, <2>6, <2>8
  <2> QED
    BY <2>7, <2>8, <2>9
<1>6. ix = jx => d3 = e3
  OBVIOUS
<1> HIDE DEF d3, e3
<1> QED
  BY <1>2, <1>3, <1>5, <1>6 DEF ix, jx

\* Two addresses of one page.
SamePage(a, b) == calculate_pt_indices(a) = calculate_pt_indices(b)

\* From p to q the page of addr has been mapped to y, or unmapped when y is Null.
Remaps(p, q, addr, y) ==
  /\ \A a \in Nat : Translate(q, a) = IF SamePage(a, addr) THEN y ELSE Translate(p, a)
  /\ \A x : x \in Mapped(q) <=> (x = y /\ y # Null) \/ (x \in Mapped(p) /\ x # Translate(p, addr))

\* A write to the leaf entry of addr changes the translation of its page only.
LEMMA WriteRemaps ==
  ASSUME NEW p, Sound(p), NEW addr \in Nat, NEW t, t = LeafTable(p, addr), t # Null,
         NEW i, i = calculate_pt_indices(addr).pt, NEW q, NEW G, Written(p, q, t, i, G),
         NEW y, G = IF y = Null THEN {} ELSE {y}
  PROVE  Remaps(p, q, addr, y)
<1>1. t \in Pts(p) /\ i \in Idx /\ t \in RAM
  BY WalkIn, IndicesIn DEF Sound, Tables
<1>2. Descend(q, t, i) = y
  <2>1. \A x : Leads(q, t, i, x) <=> x \in G
    BY <1>1 DEF Written
  <2> QED
    BY <2>1, DescendIs
<1>3. ASSUME NEW a \in Nat
      PROVE  Translate(q, a) = IF SamePage(a, addr) THEN y ELSE Translate(p, a)
  <2>1. Translate(q, a) = IF LeafTable(p, a) = t /\ calculate_pt_indices(a).pt = i
                          THEN y ELSE Translate(p, a)
    BY <1>1, <1>2, WriteWalks
  <2>2. LeafTable(p, a) = t /\ calculate_pt_indices(a).pt = i <=> SamePage(a, addr)
    BY OneWay DEF SamePage
  <2> QED
    BY <2>1, <2>2
<1>4. \A x \in Mapped(p) : Leads(p, t, i, x) <=> x = Translate(p, addr)
  <2>1. Translate(p, addr) = Descend(p, t, i)
    BY WalkIs
  <2>2. \A x \in Mapped(p) : x # Null
    BY RamFacts DEF Sound
  <2> QED
    BY <2>1, <2>2, DescendIs
<1>5. \A x : x \in Mapped(q) <=> x \in G \/ (x \in Mapped(p) /\ ~Leads(p, t, i, x))
  BY <1>1, WriteLevels
<1>6. \A x : x \in G <=> x = y /\ y # Null
  OBVIOUS
<1> QED
  BY <1>3, <1>4, <1>5, <1>6 DEF Remaps

\* map_to_page: the tables on the way exist afterwards, and the page is mapped to
\* the frame unless the list was empty.
LEMMA MapPage ==
  ASSUME NEW s, OK(s), ~Drained(s.mem), NEW addr \in Nat \ {0}, NEW g \in Nat,
         NEW y, y = PageOf(g), y \in RAM \cup {Bogus},
         y \notin FreeFrames(s.mem) \cup Tables(s.phys) \cup Mapped(s.phys),
         y = Bogus => Dead(s.mem),
         NEW t, t = map_to_page(s, addr, g)
  PROVE  /\ OK(t)
         /\ \/ t.at = Null /\ Grows(s, t)
            \/ /\ t.at = addr /\ \E u : /\ Grows(s, u) /\ Sound(u.phys)
                                        /\ t.mem = u.mem /\ Tables(t.phys) = Tables(u.phys)
                                        /\ Remaps(u.phys, t.phys, addr, y)
<1> DEFINE ix == calculate_pt_indices(addr)
           u == ChildTable(ChildTable(ChildTable([s EXCEPT !.at = CR3], ix.pgd), ix.pud), ix.pmd)
<1>1. t = IF u.at \in Stopped THEN u
          ELSE [u EXCEPT !.phys[u.at][ix.pt] = Entry(g), !.at = addr]
  BY DEF map_to_page
<1>2. /\ OK(u) /\ Grows(s, u)
      /\ u.at # Null => u.at \in Pts(u.phys) /\ u.at = LeafTable(u.phys, addr)
  BY WalkGrows
<1>3. ix.pt \in Idx
  BY IndicesIn
<1> HIDE DEF u
<1>4. CASE u.at = Null
  <2>1. t = u
    BY <1>1, <1>4 DEF Stopped
  <2> QED
    BY <1>2, <1>4, <2>1
<1>5. CASE u.at # Null
  <2> DEFINE p == u.phys
             q == [p EXCEPT ![u.at][ix.pt] = Entry(g)]
  <2>1. u.at \in Pts(p) /\ u.at = LeafTable(p, addr) /\ u.at \in RAM /\ Sound(p)
    BY <1>2, <1>5 DEF OK, Sound, Tables
  <2>2. u.at \notin Stopped
    BY <1>5, <2>1, RamFacts DEF Stopped, Fault
  <2>3. u \in Records /\ p \in [RAM -> [Idx -> Nat]]
    BY <1>2 DEF OK, Sound
  <2>4. Written(p, q, u.at, ix.pt, {y})
    BY <1>3, <2>1, <2>3, WriteIs
  <2>5. t = [mem |-> u.mem, phys |-> q, at |-> addr]
    <3>1. t = [u EXCEPT !.phys[u.at][ix.pt] = Entry(g), !.at = addr]
      BY <1>1, <2>2
    <3> QED
      BY <2>3, <3>1 DEF Records
  <2> HIDE DEF q, ix
  <2>6. t.mem = u.mem /\ t.phys = q /\ t.at = addr
    BY <2>5
  <2>7. y \notin Tables(p) /\ y \notin Mapped(p) /\ y \notin FreeFrames(u.mem)
    BY <1>2 DEF Grows
  <2> HIDE DEF p
  <2>8. Sound(q) /\ Tables(q) = Tables(p)
    BY <1>3, <2>1, <2>4, <2>7, WriteSound
  <2>9. Remaps(p, q, addr, y)
    <3>1. y # Null
      BY RamFacts
    <3>2. addr \in Nat /\ u.at # Null
      BY <1>5
    <3> QED
      BY <2>1, <2>4, <3>1, <3>2, WriteRemaps DEF ix
  <2>10. t \in Records
    <3>1. u.mem \in [Words -> Nat] /\ q \in [RAM -> [Idx -> Nat]] /\ addr \in Int
      BY <2>3, <2>8 DEF Records, Sound
    <3> QED
      BY <2>5, <3>1 DEF Records
  <2>11. OK(t)
    <3>1. \A x \in Mapped(q) : x = y \/ x \in Mapped(p)
      BY <2>9 DEF Remaps
    <3>2. /\ ListOK(u.mem) /\ FreeFrames(u.mem) \cap (Tables(p) \cup Mapped(p)) = {}
          /\ Bogus \in Mapped(p) => Dead(u.mem)
      BY <1>2 DEF OK, p
    <3>3. y = Bogus => Dead(u.mem)
      BY <1>2 DEF Grows
    <3> QED
      BY <2>6, <2>7, <2>8, <2>10, <3>1, <3>2, <3>3 DEF OK
  <2> QED
    BY <1>2, <2>1, <2>6, <2>8, <2>9, <2>11 DEF p
<1> QED
  BY <1>4, <1>5

\* Everything in use, and the frames of the region that are not.
Use(m, p) == FreeFrames(m) \cup Tables(p) \cup Mapped(p)
Lost(m, p) == Region \ Use(m, p)

\* What an operation on the page of addr does to translations and frames: it
\* changes no other page, a frame it takes from the page is out of use, and no
\* frame comes into use again.
Moves(m, p, n, q, addr) ==
  /\ \A a \in Nat : ~SamePage(a, addr) => Translate(q, a) = Translate(p, a)
  /\ \A a \in Nat : Translate(p, a) # Null /\ Translate(q, a) # Translate(p, a)
                      => Translate(p, a) \notin Use(n, q)
  /\ Use(n, q) \subseteq Use(m, p) \cup {Bogus}
  /\ Dead(m) => Dead(n) /\ Use(n, q) \subseteq Use(m, p)

\* The translation depends on the page only.
LEMMA TranslatePage ==
  ASSUME NEW p, NEW a, NEW b, SamePage(a, b)
  PROVE  Translate(p, a) = Translate(p, b)
BY DEF SamePage, Translate, LeafTable

\* Mapping or unmapping a page after the tables have grown.
Remapped(s, n, q, addr, y) ==
  /\ \A a \in Nat : ~SamePage(a, addr) => Translate(q, a) = Translate(s.phys, a)
  /\ \A a \in Nat : Translate(s.phys, a) # Null /\ Translate(q, a) # Translate(s.phys, a)
                      => Translate(s.phys, a) \notin Use(n, q)
  /\ \A z : z \in Use(n, q) <=>
              \/ z = y /\ y # Null
              \/ z \in Use(s.mem, s.phys) /\ z # Translate(s.phys, addr)

\* Tables grown and then a page written: what comes into and goes out of use.
LEMMA RemapMoves ==
  ASSUME NEW s, OK(s), NEW addr \in Nat, NEW u, Grows(s, u), Sound(u.phys), NEW n, NEW q, NEW y,
         n = u.mem, Tables(q) = Tables(u.phys), Remaps(u.phys, q, addr, y),
         y \notin Use(s.mem, s.phys)
  PROVE  Remapped(s, n, q, addr, y)
<1>1. /\ \A a \in Nat : Translate(u.phys, a) = Translate(s.phys, a)
      /\ Mapped(u.phys) = Mapped(s.phys)
      /\ Tables(u.phys) \cup FreeFrames(u.mem) = Tables(s.phys) \cup FreeFrames(s.mem)
  BY DEF Grows
<1>2. \A a \in Nat : Translate(q, a) = IF SamePage(a, addr) THEN y ELSE Translate(s.phys, a)
  BY <1>1 DEF Remaps
<1> DEFINE x == Translate(s.phys, addr)
<1>3. \A z : z \in Mapped(q) <=> (z = y /\ y # Null) \/ (z \in Mapped(s.phys) /\ z # x)
  BY <1>1 DEF Remaps
<1>4. x \in Mapped(s.phys) \cup {Null}
  BY WalkIn
<1>5. x \notin Tables(s.phys) \cup FreeFrames(s.mem)
  <2>1. \A z \in Mapped(s.phys) : z \notin Tables(s.phys) \cup FreeFrames(s.mem)
    BY LevelsApart DEF OK, Sound, Tables
  <2>2. Null \notin Tables(s.phys) \cup FreeFrames(s.mem)
    BY RamFacts, FreeInRegion DEF OK, Sound
  <2> QED
    BY <1>4, <2>1, <2>2
<1> HIDE DEF x
<1>6. \A z : z \in Use(n, q) <=>
               (z = y /\ y # Null) \/ (z \in Use(s.mem, s.phys) /\ z # x)
  <2>1. \A z : z \in Use(n, q) <=> z \in Tables(u.phys) \cup FreeFrames(u.mem) \/ z \in Mapped(q)
    BY DEF Use
  <2>2. \A z : z \in Use(s.mem, s.phys) <=>
                 z \in Tables(s.phys) \cup FreeFrames(s.mem) \/ z \in Mapped(s.phys)
    BY DEF Use
  <2> QED
    BY <1>1, <1>3, <1>5, <2>1, <2>2
<1>7. ASSUME NEW a \in Nat, Translate(s.phys, a) # Null, Translate(q, a) # Translate(s.phys, a)
      PROVE  Translate(s.phys, a) \notin Use(n, q)
  <2>1. SamePage(a, addr) /\ Translate(q, a) = y
    BY <1>2, <1>7
  <2>2. Translate(s.phys, a) = x
    BY <2>1, TranslatePage DEF x
  <2> QED
    BY <1>6, <1>7, <2>1, <2>2
<1> QED
  BY <1>2, <1>6, <1>7 DEF x, Remapped

\* The frame of the region that a call of alloc_page gives up.
Gone(s, t, addr) ==
  Region \cap (IF t.at \in Stopped THEN {pop_frame_list(s.mem).ret} ELSE {Translate(s.phys, addr)})

\* What alloc_page keeps, changes and loses, for every list and tree.
LEMMA AllocPage ==
  ASSUME NEW s, OK(s), NEW addr \in Nat, NEW t, t = alloc_page(s, addr)
  PROVE  /\ OK(t) /\ t.at \in Nat
         /\ addr = Null => t.phys = s.phys
         /\ Moves(s.mem, s.phys, t.mem, t.phys, addr)
         /\ Lost(t.mem, t.phys) = Lost(s.mem, s.phys) \cup Gone(s, t, addr)
         /\ Gone(s, t, addr) \cap Lost(s.mem, s.phys) = {}
<1> DEFINE r == pop_frame_list(s.mem)
           f == r.ret
<1>1. /\ ListOK(r.mem)
      /\ TakesFrame(s.mem, r) \/ FindsNothing(s.mem, r) \/ TakesBogus(s.mem, r)
      /\ TakesFrame(s.mem, r) => ~Dead(s.mem) /\ ~Drained(r.mem) /\ ~Dead(r.mem)
  BY PopList DEF OK
<1>2. /\ s \in Records /\ r.mem \in [Words -> Nat] /\ FreeFrames(s.mem) \subseteq Region
      /\ FreeFrames(s.mem) \cap (Tables(s.phys) \cup Mapped(s.phys)) = {}
      /\ Bogus \in Mapped(s.phys) => Dead(s.mem)
      /\ Tables(s.phys) \subseteq RAM /\ Sound(s.phys) /\ ListOK(s.mem)
  BY <1>1, FreeInRegion DEF OK, ListOK, Sound
<1>3. t = IF f = Null \/ addr = Null THEN [s EXCEPT !.mem = r.mem, !.at = Null]
          ELSE map_to_page([s EXCEPT !.mem = r.mem], addr, f)
  BY DEF alloc_page
<1>4. Gone(s, t, addr) = Region \cap (IF t.at \in Stopped THEN {f} ELSE {Translate(s.phys, addr)})
  BY DEF Gone
<1>5. /\ FreeFrames(r.mem) = FreeFrames(s.mem) \ {f}
      /\ f \in Region => f \in FreeFrames(s.mem)
      /\ Dead(s.mem) => Dead(r.mem)
  <2>1. Null \notin Region /\ NEXTFREE \notin Region
    BY RamFacts
  <2>2. CASE TakesFrame(s.mem, r)
    BY <1>1, <2>2 DEF TakesFrame
  <2>3. CASE FindsNothing(s.mem, r)
    BY <2>1, <2>3 DEF FindsNothing
  <2>4. CASE TakesBogus(s.mem, r)
    <3>1. ~Dead(s.mem)
      BY <2>4, SpentFacts DEF TakesBogus
    <3> QED
      BY <2>1, <2>4, <3>1 DEF TakesBogus
  <2> QED
    BY <1>1, <2>2, <2>3, <2>4
<1>6. Bogus \in Mapped(s.phys) => Dead(r.mem)
  BY <1>2, <1>5
<1>7. f \in Nat
  <2>1. f \in Region \/ f = Null \/ f = NEXTFREE
    BY <1>1 DEF TakesFrame, FindsNothing, TakesBogus
  <2> QED
    BY <2>1, RamFacts DEF Null
<1> HIDE DEF r, f
<1>8. CASE f = Null \/ addr = Null
  <2>1. t = [s EXCEPT !.mem = r.mem, !.at = Null]
    BY <1>3, <1>8
  <2>2. t \in Records /\ t.mem = r.mem /\ t.phys = s.phys /\ t.at = Null
    <3>1. t = [mem |-> r.mem, phys |-> s.phys, at |-> Null]
      BY <1>2, <2>1 DEF Records
    <3>2. Null \in Int
      BY DEF Null
    <3> QED
      BY <1>2, <3>1, <3>2 DEF Records
  <2>3. OK(t)
    BY <1>1, <1>2, <1>5, <1>6, <2>2 DEF OK
  <2>4. /\ Use(t.mem, t.phys) \subseteq Use(s.mem, s.phys)
        /\ \A z \in Use(s.mem, s.phys) : z = f \/ z \in Use(t.mem, t.phys)
        /\ f \in Region => f \in Use(s.mem, s.phys) /\ f \notin Use(t.mem, t.phys)
    BY <1>2, <1>5, <2>2 DEF Use
  <2>5. Moves(s.mem, s.phys, t.mem, t.phys, addr)
    BY <1>5, <2>2, <2>4 DEF Moves
  <2>6. Gone(s, t, addr) = Region \cap {f}
    BY <1>4, <2>2 DEF Stopped
  <2>7. /\ Lost(t.mem, t.phys) = Lost(s.mem, s.phys) \cup Gone(s, t, addr)
        /\ Gone(s, t, addr) \cap Lost(s.mem, s.phys) = {}
    BY <2>4, <2>6 DEF Lost
  <2> QED
    BY <2>2, <2>3, <2>5, <2>7 DEF Null
<1>9. CASE f # Null /\ addr # Null
  <2> DEFINE s1 == [s EXCEPT !.mem = r.mem]
             y == PageOf(f)
  <2>1. t = map_to_page(s1, addr, f)
    BY <1>3, <1>9
  <2>2. s1 \in Records /\ s1.mem = r.mem /\ s1.phys = s.phys
    BY <1>2 DEF Records
  <2> HIDE DEF s1
  <2>3. OK(s1)
    BY <1>1, <1>2, <1>5, <1>6, <2>2 DEF OK
  <2>4. TakesFrame(s.mem, r) \/ TakesBogus(s.mem, r)
    BY <1>1, <1>9 DEF FindsNothing, f
  <2>5. /\ ~Drained(r.mem) /\ ~Dead(s.mem)
        /\ y \in RAM \cup {Bogus} /\ y \notin Use(r.mem, s.phys) /\ (y = Bogus => Dead(r.mem))
        /\ (y \in Use(s.mem, s.phys) /\ y = f) \/ (y = Bogus /\ f \notin Region)
    <3>1. CASE TakesFrame(s.mem, r)
      <4>1. f \in FreeFrames(s.mem) /\ f \in RAM /\ f \notin Tables(s.phys) \cup Mapped(s.phys)
        BY <1>2, <3>1, RamFacts DEF TakesFrame, f
      <4>2. y = f /\ y # Bogus
        BY <4>1, RamFacts
      <4> QED
        BY <1>1, <1>5, <3>1, <4>1, <4>2 DEF Use
    <3>2. CASE TakesBogus(s.mem, r)
      <4>1. f = NEXTFREE /\ y = Bogus
        BY <3>2 DEF TakesBogus, f, Bogus
      <4>2. ~Dead(s.mem) /\ Dead(r.mem) /\ ~Drained(r.mem) /\ FreeFrames(r.mem) = {}
        BY <3>2, SpentFacts DEF TakesBogus
      <4>3. Bogus \notin Use(r.mem, s.phys) /\ NEXTFREE \notin Region
        BY <1>2, <4>2, RamFacts DEF Use
      <4> QED
        BY <4>1, <4>2, <4>3
    <3> QED
      BY <2>4, <3>1, <3>2
  <2> HIDE DEF y
  <2>6. addr \in Nat \ {0} /\ addr \notin Stopped
    BY <1>9 DEF Null, Stopped, Fault
  <2>7. /\ OK(t)
        /\ \/ t.at = Null /\ Grows(s1, t)
           \/ /\ t.at = addr /\ \E u : /\ Grows(s1, u) /\ Sound(u.phys)
                                       /\ t.mem = u.mem /\ Tables(t.phys) = Tables(u.phys)
                                       /\ Remaps(u.phys, t.phys, addr, y)
    <3>1. y \notin FreeFrames(s1.mem) \cup Tables(s1.phys) \cup Mapped(s1.phys)
      BY <2>2, <2>5 DEF Use
    <3>2. y = PageOf(f)
      BY DEF y
    <3> QED
      BY <1>7, <2>1, <2>2, <2>3, <2>5, <2>6, <3>1, <3>2, MapPage
  <2>8. /\ Use(r.mem, s.phys) \subseteq Use(s.mem, s.phys)
        /\ \A z \in Use(s.mem, s.phys) : z = f \/ z \in Use(r.mem, s.phys)
        /\ f \in Region => f \in Use(s.mem, s.phys) /\ f \notin Use(r.mem, s.phys)
    BY <1>2, <1>5 DEF Use
  <2>9. CASE t.at = Null /\ Grows(s1, t)
    <3>1. Use(t.mem, t.phys) = Use(r.mem, s.phys)
      BY <2>2, <2>9 DEF Use, Grows
    <3>2. \A a \in Nat : Translate(t.phys, a) = Translate(s.phys, a)
      BY <2>2, <2>9 DEF Grows
    <3>3. Moves(s.mem, s.phys, t.mem, t.phys, addr)
      BY <2>5, <2>8, <3>1, <3>2 DEF Moves
    <3>4. Gone(s, t, addr) = Region \cap {f}
      BY <1>4, <2>9 DEF Stopped
    <3>5. /\ Lost(t.mem, t.phys) = Lost(s.mem, s.phys) \cup Gone(s, t, addr)
          /\ Gone(s, t, addr) \cap Lost(s.mem, s.phys) = {}
      BY <2>8, <3>1, <3>4 DEF Lost
    <3> QED
      BY <1>9, <2>7, <2>9, <3>3, <3>5 DEF Null
  <2>10. CASE /\ t.at = addr
              /\ \E u : /\ Grows(s1, u) /\ Sound(u.phys)
                        /\ t.mem = u.mem /\ Tables(t.phys) = Tables(u.phys)
                        /\ Remaps(u.phys, t.phys, addr, y)
    <3> DEFINE x == Translate(s.phys, addr)
    <3>1. PICK u : /\ Grows(s1, u) /\ Sound(u.phys)
                   /\ t.mem = u.mem /\ Tables(t.phys) = Tables(u.phys)
                   /\ Remaps(u.phys, t.phys, addr, y)
      BY <2>10
    <3>2. /\ \A a \in Nat : ~SamePage(a, addr) => Translate(t.phys, a) = Translate(s1.phys, a)
          /\ \A a \in Nat : Translate(s1.phys, a) # Null /\ Translate(t.phys, a) # Translate(s1.phys, a)
                              => Translate(s1.phys, a) \notin Use(t.mem, t.phys)
          /\ \A z : z \in Use(t.mem, t.phys) <=>
                      \/ z = y /\ y # Null
                      \/ z \in Use(s1.mem, s1.phys) /\ z # Translate(s1.phys, addr)
      <4>1. y \notin Use(s1.mem, s1.phys)
        BY <2>2, <2>5
      <4>2. Remapped(s1, t.mem, t.phys, addr, y)
        BY <2>3, <3>1, <4>1, RemapMoves
      <4> QED
        BY <4>2 DEF Remapped
    <3>3. y # Null
      BY <2>5, RamFacts
    <3>4. Moves(s.mem, s.phys, t.mem, t.phys, addr)
      BY <2>2, <2>5, <2>8, <3>2 DEF Moves
    <3>5. Gone(s, t, addr) = Region \cap {x}
      BY <1>4, <2>6, <2>10
    <3>6. \A z \in Region : z \in Use(t.mem, t.phys) <=> z \in Use(s.mem, s.phys) /\ z # x
      <4>1. f \in Region => y = f
        BY <2>5
      <4>2. y = Bogus => y \notin Region
        BY RamFacts
      <4>3. x \notin FreeFrames(s.mem)
        <5>1. x \in Mapped(s.phys) \cup {Null}
          BY WalkIn
        <5>2. Null \notin FreeFrames(s.mem)
          BY <1>2, RamFacts
        <5> QED
          BY <1>2, <5>1, <5>2
      <4>4. f \in Region => f # x
        BY <1>5, <4>3
      <4> HIDE DEF x
      <4> QED
        BY <2>2, <2>5, <2>8, <3>2, <3>3, <4>1, <4>2, <4>4 DEF x
    <3>7. x \in Region => x \in Use(s.mem, s.phys)
      <4>1. x \in Mapped(s.phys) \cup {Null}
        BY WalkIn
      <4>2. Null \notin Region
        BY RamFacts
      <4> QED
        BY <4>1, <4>2 DEF Use
    <3> HIDE DEF x
    <3>8. /\ Lost(t.mem, t.phys) = Lost(s.mem, s.phys) \cup Gone(s, t, addr)
          /\ Gone(s, t, addr) \cap Lost(s.mem, s.phys) = {}
      BY <3>5, <3>6, <3>7 DEF Lost
    <3> QED
      BY <1>9, <2>7, <2>10, <3>4, <3>8
  <2> QED
    BY <2>7, <2>9, <2>10
<1> QED
  BY <1>8, <1>9

\* The record with the same list and tables.
LEMMA OKState ==
  ASSUME NEW t, OK(t), NEW w, w = [mem |-> t.mem, phys |-> t.phys, at |-> Null]
  PROVE  OK(w)
<1>1. t.mem \in [Words -> Nat] /\ t.phys \in [RAM -> [Idx -> Nat]] /\ Null \in Int
  BY DEF OK, Records, Null
<1>2. w \in Records
  BY <1>1 DEF Records
<1>3. w.mem = t.mem /\ w.phys = t.phys
  OBVIOUS
<1> QED
  BY <1>2, <1>3 DEF OK

\* unmap_page.
LEMMA UnmapPage ==
  ASSUME NEW s, OK(s), NEW addr \in Nat, NEW u, u = unmap_page(s.phys, addr)
  PROVE  /\ OK([mem |-> s.mem, phys |-> u.phys, at |-> Null])
         /\ Moves(s.mem, s.phys, s.mem, u.phys, addr)
         /\ Lost(s.mem, u.phys) = Lost(s.mem, s.phys) \cup (Region \cap {Translate(s.phys, addr)})
         /\ Region \cap {Translate(s.phys, addr)} \cap Lost(s.mem, s.phys) = {}
<1> DEFINE p == s.phys
           x == Translate(p, addr)
           t == LeafTable(p, addr)
           i == calculate_pt_indices(addr).pt
           w == [mem |-> s.mem, phys |-> u.phys, at |-> Null]
<1>1. u.phys = IF x = Null THEN p ELSE [p EXCEPT ![t][i] = 0]
  BY DEF unmap_page
<1>2. /\ p \in [RAM -> [Idx -> Nat]] /\ Sound(p) /\ ListOK(s.mem)
      /\ FreeFrames(s.mem) \cap (Tables(p) \cup Mapped(p)) = {}
      /\ Bogus \in Mapped(p) => Dead(s.mem)
  BY DEF OK, Sound
<1>3. Null \notin Region /\ Null \notin Use(s.mem, p)
  <2>1. FreeFrames(s.mem) \subseteq RAM
    BY <1>2, FreeInRegion, RamFacts
  <2> QED
    BY <1>2, <2>1, RamFacts DEF Use, Sound
<1>4. x \in Mapped(p) \cup {Null} /\ t \in Pts(p) \cup {Null} /\ i \in Idx
  BY WalkIn, IndicesIn
<1>5. x \in Region => x \in Use(s.mem, p)
  BY <1>3, <1>4 DEF Use
<1>6. CASE x = Null
  <2>1. u.phys = p
    BY <1>1, <1>6
  <2>2. OK(w)
    BY <2>1, OKState
  <2> QED
    BY <1>1, <1>3, <1>6, <2>1, <2>2 DEF Moves
<1>7. CASE x # Null
  <2>1. t # Null
    <3>1. x = Descend(p, t, i)
      BY WalkIs
    <3> QED
      BY <1>7, <3>1, DescendIs
  <2>2. t \in RAM /\ t \in Pts(p)
    BY <1>2, <1>4, <2>1 DEF Sound, Tables
  <2> DEFINE q == u.phys
  <2>3. Written(p, q, t, i, {})
    BY <1>1, <1>2, <1>4, <1>7, <2>2, WriteIs
  <2>4. Remaps(p, q, addr, Null)
    <3>1. {} = IF Null = Null THEN {} ELSE {Null}
      OBVIOUS
    <3> QED
      BY <1>2, <2>1, <2>3, <3>1, WriteRemaps
  <2> HIDE DEF t, i, q
  <2>5. Sound(q) /\ Tables(q) = Tables(p)
    BY <1>2, <1>4, <2>2, <2>3, WriteSound
  <2>6. Grows(s, s)
    BY DEF Grows
  <2>7. Remapped(s, s.mem, q, addr, Null)
    BY <1>2, <1>3, <2>4, <2>5, <2>6, RemapMoves
  <2>8. \A z \in Mapped(q) : z \in Mapped(p)
    BY <2>4 DEF Remaps
  <2>9. OK(w)
    <3>1. s.mem \in [Words -> Nat] /\ q \in [RAM -> [Idx -> Nat]] /\ Null \in Int
      BY <2>5 DEF OK, Records, Sound, Null
    <3>2. w \in Records
      BY <3>1 DEF Records, q
    <3>3. w.mem = s.mem /\ w.phys = q
      BY DEF q
    <3> HIDE DEF w
    <3> QED
      BY <1>2, <2>5, <2>8, <3>2, <3>3 DEF OK
  <2>10. \A z : z \in Use(s.mem, q) <=> z \in Use(s.mem, p) /\ z # x
    BY <2>7 DEF Remapped
  <2>11. Moves(s.mem, p, s.mem, q, addr)
    <3>1. Use(s.mem, q) \subseteq Use(s.mem, p)
      BY <2>10
    <3> QED
      BY <2>7, <3>1 DEF Moves, Remapped
  <2> HIDE DEF x, p
  <2>12. /\ Lost(s.mem, q) = Lost(s.mem, p) \cup (Region \cap {x})
         /\ Region \cap {x} \cap Lost(s.mem, p) = {}
    BY <1>5, <2>10 DEF Lost
  <2> QED
    BY <1>1, <2>9, <2>11, <2>12 DEF p, q, x
<1> QED
  BY <1>6, <1>7

-----------------------------------------------------------------------------
(* Pages and indices.                                                       *)

\* Quotient and remainder.
LEMMA DivDef ==
  ASSUME NEW n \in Nat, NEW d \in Nat, d > 0
  PROVE  n \div d \in Nat /\ n % d \in 0 .. d - 1 /\ n = d * (n \div d) + (n % d)
OBVIOUS

\* Multiples of d lie d apart.
LEMMA TimesMore ==
  ASSUME NEW d \in Nat, NEW a \in Nat, NEW b \in Nat, d > 0, a < b
  PROVE  d * a + d <= d * b
<1>1. PICK c \in Nat : b = a + 1 + c
  <2>1. b - a - 1 \in Nat
    OBVIOUS
  <2> QED
    BY <2>1
<1>2. d * b = d * a + d + d * c
  BY <1>1
<1>3. d * c \in Nat
  OBVIOUS
<1>4. d * a \in Nat
  OBVIOUS
<1> QED
  BY <1>2, <1>3, <1>4

\* Quotient and remainder are unique.
LEMMA OneQuotient ==
  ASSUME NEW d \in Nat, d > 0, NEW a \in Nat, NEW b \in Nat,
         NEW r \in 0 .. d - 1, NEW s \in 0 .. d - 1, d * a + r = d * b + s
  PROVE  a = b
<1>0. d * a \in Nat /\ d * b \in Nat
  OBVIOUS
<1>1. ~(a < b)
  <2> SUFFICES ASSUME a < b PROVE FALSE
    OBVIOUS
  <2>1. d * a + d <= d * b
    BY TimesMore
  <2> QED
    BY <1>0, <2>1
<1>2. ~(b < a)
  <2> SUFFICES ASSUME b < a PROVE FALSE
    OBVIOUS
  <2>1. d * b + d <= d * a
    BY TimesMore
  <2> QED
    BY <1>0, <2>1
<1> QED
  BY <1>1, <1>2

\* A shift by two levels is two shifts by one.
LEMMA DivDiv ==
  ASSUME NEW n \in Nat, NEW m \in Nat, NEW d \in Nat, m > 0, d > 0
  PROVE  (n \div m) \div d = n \div (m * d)
<1> DEFINE q == n \div m
           r == n % m
           k == q \div d
           l == q % d
           M == m * d
           s == m * l + r
<1>1. q \in Nat /\ r \in 0 .. m - 1 /\ n = m * q + r
  BY DivDef
<1> HIDE DEF q, r
<1>2. k \in Nat /\ l \in 0 .. d - 1 /\ q = d * k + l
  BY <1>1, DivDef
<1> HIDE DEF k, l
<1>3. M \in Nat /\ M > 0
  OBVIOUS
<1>4. m * q = m * (d * k) + m * l
  BY <1>1, <1>2
<1>5. m * (d * k) = M * k
  BY <1>2
<1>6. m * l \in Nat /\ m * l + m <= M
  BY <1>2, TimesMore
<1>7. s \in 0 .. M - 1
  BY <1>1, <1>3, <1>6
<1>8. n = M * k + s
  <2> DEFINE A == m * q
             B == m * (d * k)
             C == M * k
             E == m * l
  <2>1. C \in Nat /\ E \in Nat
    BY <1>2, <1>3
  <2>2. n = A + r /\ A = B + E /\ B = C
    BY <1>1, <1>4, <1>5
  <2>3. r \in Nat
    BY <1>1
  <2> HIDE DEF A, B, C, E
  <2>4. n = C + (E + r)
    BY <2>1, <2>2, <2>3
  <2> QED
    BY <2>4 DEF C, E
<1> HIDE DEF M, s
<1>9. n \div M \in Nat /\ n % M \in 0 .. M - 1 /\ n = M * (n \div M) + (n % M)
  BY <1>3, DivDef
<1>10. k = n \div M
  BY <1>2, <1>3, <1>7, <1>8, <1>9, OneQuotient
<1> QED
  BY <1>10 DEF k, q, M

Space == 4096 * (FANOUT * FANOUT * FANOUT * FANOUT)

\* Two addresses with the same indices lie in the same page.
LEMMA OnePage ==
  ASSUME NEW a \in Nat, NEW b \in Nat, a < Space, b < Space, SamePage(a, b)
  PROVE  PageOf(a) = PageOf(b)
<1> DEFINE F == FANOUT
           M2 == FANOUT * FANOUT
           M3 == FANOUT * FANOUT * FANOUT
           M4 == FANOUT * FANOUT * FANOUT * FANOUT
           P == a \div 4096
           Q == b \div 4096
<1>1. F \in Nat /\ F > 0
  BY PagingAssumption
<1>2. M2 \in Nat /\ M2 > 0 /\ M3 \in Nat /\ M3 > 0 /\ M4 \in Nat
  <2>1. M2 \in Nat /\ M2 > 0
    BY <1>1
  <2>2. M3 \in Nat /\ M3 > 0
    <3>1. M3 = M2 * F
      OBVIOUS
    <3> HIDE DEF M2, M3
    <3> QED
      BY <1>1, <2>1, <3>1
  <2>3. M4 \in Nat
    <3>1. M4 = M3 * F
      OBVIOUS
    <3> HIDE DEF M3, M4
    <3> QED
      BY <1>1, <2>2, <3>1
  <2> QED
    BY <2>1, <2>2, <2>3
<1>3. M2 = F * F /\ M3 = M2 * F /\ M4 = M3 * F
  OBVIOUS
<1>4. P \in Nat /\ Q \in Nat /\ P < M4 /\ Q < M4
  <2>1. a < 4096 * M4 /\ b < 4096 * M4
    BY DEF Space
  <2> HIDE DEF M4
  <2> QED
    BY <1>2, <2>1
<1>5. /\ (P \div M3) % F = (Q \div M3) % F /\ (P \div M2) % F = (Q \div M2) % F
      /\ (P \div F) % F = (Q \div F) % F /\ P % F = Q % F
  BY DEF SamePage, calculate_pt_indices
<1> HIDE DEF F, M2, M3, M4, P, Q
<1>6. ASSUME NEW n \in Nat, n < M4
      PROVE  /\ n \div M3 = (n \div M3) % F
             /\ n \div M2 = F * (n \div M3) + ((n \div M2) % F)
             /\ n \div F = F * (n \div M2) + ((n \div F) % F)
             /\ n = F * (n \div F) + (n % F)
  <2>1. n \div M3 \in Nat /\ n % M3 \in 0 .. M3 - 1 /\ n = M3 * (n \div M3) + (n % M3)
    BY <1>2, DivDef
  <2>2. n \div M3 < F
    <3> DEFINE k == n \div M3
    <3> SUFFICES ASSUME ~(k < F) PROVE FALSE
      OBVIOUS
    <3>1. k \in Nat /\ n % M3 \in Nat /\ n = M3 * k + (n % M3)
      BY <1>2, <2>1
    <3> HIDE DEF k
    <3>2. M3 * F <= M3 * k /\ M3 * F \in Nat /\ M3 * k \in Nat
      <4>1. F = k \/ F < k
        BY <1>1, <3>1
      <4>2. F < k => M3 * F + M3 <= M3 * k
        BY <1>1, <1>2, <3>1, TimesMore
      <4>3. M3 * F \in Nat /\ M3 * k \in Nat
        BY <1>1, <1>2, <3>1
      <4> QED
        BY <1>2, <4>1, <4>2, <4>3
    <3> QED
      BY <1>2, <1>3, <1>6, <3>1, <3>2
  <2>3. n \div M3 = (n \div M3) % F
    <3> DEFINE k == n \div M3
    <3>1. k \in Nat /\ k < F
      BY <2>1, <2>2
    <3> HIDE DEF k
    <3>2. k = k % F
      BY <1>1, <3>1
    <3> QED
      BY <3>2 DEF k
  <2>4. (n \div M2) \div F = n \div M3 /\ (n \div F) \div F = n \div M2
    BY <1>1, <1>2, <1>3, DivDiv
  <2>5. n \div M2 \in Nat /\ n \div F \in Nat
    BY <1>1, <1>2, DivDef
  <2>6. n \div M2 = F * ((n \div M2) \div F) + ((n \div M2) % F)
    BY <1>1, <2>5, DivDef
  <2>7. n \div F = F * ((n \div F) \div F) + ((n \div F) % F)
    BY <1>1, <2>5, DivDef
  <2>8. n = F * (n \div F) + (n % F)
    BY <1>1, DivDef
  <2> QED
    BY <2>3, <2>4, <2>6, <2>7, <2>8, Zenon
<1>7. /\ P \div M3 = (P \div M3) % F
      /\ P \div M2 = F * (P \div M3) + ((P \div M2) % F)
      /\ P \div F = F * (P \div M2) + ((P \div F) % F)
      /\ P = F * (P \div F) + (P % F)
  BY <1>4, <1>6
<1>8. /\ Q \div M3 = (Q \div M3) % F
      /\ Q \div M2 = F * (Q \div M3) + ((Q \div M2) % F)
      /\ Q \div F = F * (Q \div M2) + ((Q \div F) % F)
      /\ Q = F * (Q \div F) + (Q % F)
  BY <1>4, <1>6
<1>9. P = Q
  <2>1. P \div M3 = Q \div M3
    BY <1>5, <1>7, <1>8, Zenon
  <2>2. P \div M2 = Q \div M2
    BY <1>5, <1>7, <1>8, <2>1, Zenon
  <2>3. P \div F = Q \div F
    BY <1>5, <1>7, <1>8, <2>2, Zenon
  <2> QED
    BY <1>5, <1>7, <1>8, <2>3, Zenon
<1> QED
  BY <1>9 DEF P, Q, PageOf

-----------------------------------------------------------------------------
(* The invariant of the virtual memory manager.                             *)

\* The heap grows in whole pages from KHEAPSTART: a region of it.
InHeap(start, size) ==
  /\ start \in Nat /\ size \in Nat \ {0}
  /\ start >= KHEAPSTART /\ start % 4096 = KHEAPSTART % 4096
  /\ start + 4096 * size <= K_HEAP_END

\* Two regions without a common byte.
Disjoint(r, q) ==
  r.start + 4096 * r.size <= q.start \/ q.start + 4096 * q.size <= r.start

Heap ==
  /\ KHEAPSTART \in Nat \ {0} /\ K_HEAP_END \in Nat
  /\ KHEAPSTART < MAXHEAP /\ KHEAPSTART <= K_HEAP_END /\ K_HEAP_END <= MAXHEAP
  /\ K_HEAP_END % 4096 = KHEAPSTART % 4096

\* The regions that mmap has returned.
Regions ==
  /\ \A r \in live : InHeap(r.start, r.size)
  /\ \A r, q \in live : r # q => Disjoint(r, q)

\* A loop over the pages of a region that is not, or no longer, live.
InLoop ==
  /\ loop \in [op : {"mmap", "munmap"}, addr : Nat, start : Nat, size : Nat]
  /\ InHeap(loop.start, loop.size)
  /\ loop.addr >= loop.start /\ loop.addr % 4096 = KHEAPSTART % 4096
  /\ \A r \in live : Disjoint(r, loop)

Loop ==
  \/ loop = [op |-> "init"] /\ live = {}
  \/ loop = Idle
  \/ InLoop

\* The counters, and the result of the last call.
Counts ==
  /\ ret \in Nat /\ halted = FALSE
  /\ leaks \in Nat /\ nulls \in 0 .. NULLCALLS

\* What the TLB holds is a page and a frame; the bogus page is there after the
\* bogus pop at the earliest.
Tlb ==
  \A e \in tlb : /\ e[1] \in Nat /\ e[2] \in RAM \cup {Bogus}
                 /\ e[2] = Bogus => Dead(mem)

\* The boot loader's tables map nothing above the kernel image.
Image == \A a \in Pages : a >= KHEAPSTART => Translate(boot, a) = Null

VInv ==
  /\ Heap /\ Regions /\ Loop /\ Counts
  /\ OK(State)
  /\ FrameAccounting
  /\ Tlb /\ StaleApart
  /\ Image /\ MappingsKept

-----------------------------------------------------------------------------
(* One operation on one page.                                               *)

\* Frames that go are counted one by one.
LEMMA CountLost ==
  ASSUME NEW A, NEW B, NEW x, A \subseteq Region,
         B = A \cup (Region \cap {x}), Region \cap {x} \cap A = {}
  PROVE  /\ Cardinality(A) \in Nat
         /\ x \in Region => Cardinality(B) = Cardinality(A) + 1
         /\ x \notin Region => Cardinality(B) = Cardinality(A)
<1>1. IsFiniteSet(A) /\ Cardinality(A) \in Nat
  <2>1. IsFiniteSet(A)
    BY VmmAssumption, FS_Subset
  <2> QED
    BY <2>1, FS_CardinalityType
<1>2. ASSUME x \in Region PROVE Cardinality(B) = Cardinality(A) + 1
  <2>1. B = A \cup {x} /\ x \notin A
    BY <1>2
  <2> QED
    BY <1>1, <2>1, FS_AddElement
<1>3. x \notin Region => B = A
  OBVIOUS
<1> QED
  BY <1>1, <1>2, <1>3

\* alloc_page as a step.
LEMMA AllocStep ==
  ASSUME OK(State), FrameAccounting, leaks \in Nat, NEW addr \in Nat, AllocAt(addr)
  PROVE  /\ OK(State)' /\ FrameAccounting'
         /\ ret' \in Nat /\ halted' = FALSE /\ leaks' \in Nat
         /\ tlb' = tlb \cup Translations(phys')
         /\ Moves(mem, phys, mem', phys', addr)
         /\ addr = Null => phys' = phys
<1> DEFINE t == alloc_page(State, addr)
           x == IF t.at \in Stopped THEN pop_frame_list(mem).ret ELSE Translate(phys, addr)
<1>0. State.mem = mem /\ State.phys = phys
  BY DEF State
<1>1. /\ mem' = t.mem /\ phys' = t.phys /\ tlb' = tlb \cup Translations(t.phys)
      /\ ret' = t.at /\ halted' = (t.at = Fault) /\ leaks' = leaks + Dropped(State, t, addr)
  BY DEF AllocAt
<1>2. /\ OK(t) /\ t.at \in Nat
      /\ addr = Null => t.phys = State.phys
      /\ Moves(State.mem, State.phys, t.mem, t.phys, addr)
      /\ Lost(t.mem, t.phys) = Lost(State.mem, State.phys) \cup Gone(State, t, addr)
      /\ Gone(State, t, addr) \cap Lost(State.mem, State.phys) = {}
  BY AllocPage
<1>3. Gone(State, t, addr) = Region \cap {x}
  BY <1>0 DEF Gone
<1>4. Dropped(State, t, addr) = IF x \in Region THEN 1 ELSE 0
  BY <1>0 DEF Dropped
<1> HIDE DEF t, x
<1>5. /\ Cardinality(Lost(mem, phys)) \in Nat
      /\ x \in Region => Cardinality(Lost(mem', phys')) = Cardinality(Lost(mem, phys)) + 1
      /\ x \notin Region => Cardinality(Lost(mem', phys')) = Cardinality(Lost(mem, phys))
  <2>1. Lost(mem, phys) \subseteq Region
    BY DEF Lost
  <2> QED
    BY <1>0, <1>1, <1>2, <1>3, <2>1, CountLost
<1>6. Cardinality(Lost(mem, phys)) = leaks
  BY DEF FrameAccounting, Lost, Use
<1>7. Cardinality(Lost(mem', phys')) = leaks' /\ leaks' \in Nat
  BY <1>1, <1>4, <1>5, <1>6
<1>8. FrameAccounting'
  BY <1>7 DEF FrameAccounting, Lost, Use
<1>9. OK(State)'
  <2>1. State' = [mem |-> t.mem, phys |-> t.phys, at |-> Null]
    BY <1>1 DEF State
  <2>2. OK(State')
    BY <1>2, <2>1, OKState
  <2> QED
    BY <2>2 DEF OK
<1>10. halted' = FALSE
  <2>1. t.at # Fault
    BY <1>2 DEF Fault
  <2> QED
    BY <1>1, <2>1
<1> QED
  BY <1>0, <1>1, <1>2, <1>7, <1>8, <1>9, <1>10

\* unmap_page as a step.
LEMMA UnmapStep ==
  ASSUME OK(State), FrameAccounting, leaks \in Nat, loop.addr \in Nat, MunmapPage
  PROVE  /\ OK(State)' /\ FrameAccounting'
         /\ ret' \in Nat /\ leaks' \in Nat
         /\ tlb' = tlb \cup Translations(phys')
         /\ mem' = mem
         /\ Moves(mem, phys, mem', phys', loop.addr)
<1> DEFINE u == unmap_page(phys, loop.addr)
           x == Translate(phys, loop.addr)
           w == [mem |-> mem, phys |-> u.phys, at |-> Null]
<1>0. State.mem = mem /\ State.phys = phys
  BY DEF State
<1>1. u.ret = Null
  BY DEF unmap_page
<1>2. /\ phys' = u.phys /\ tlb' = tlb \cup Translations(u.phys) /\ ret' = u.ret
      /\ mem' = mem /\ leaks' = leaks + (IF x \in Region THEN 1 ELSE 0)
  BY <1>1 DEF MunmapPage
<1>5. /\ OK(w)
      /\ Moves(mem, phys, mem, u.phys, loop.addr)
      /\ Lost(mem, u.phys) = Lost(mem, phys) \cup (Region \cap {x})
      /\ Region \cap {x} \cap Lost(mem, phys) = {}
  BY <1>0, UnmapPage
<1> HIDE DEF u
<1>6. /\ Cardinality(Lost(mem, phys)) \in Nat
      /\ x \in Region => Cardinality(Lost(mem', phys')) = Cardinality(Lost(mem, phys)) + 1
      /\ x \notin Region => Cardinality(Lost(mem', phys')) = Cardinality(Lost(mem, phys))
  <2>1. Lost(mem, phys) \subseteq Region
    BY DEF Lost
  <2> QED
    BY <1>0, <1>2, <1>5, <2>1, CountLost
<1>7. Cardinality(Lost(mem, phys)) = leaks
  BY DEF FrameAccounting, Lost, Use
<1>8. Cardinality(Lost(mem', phys')) = leaks' /\ leaks' \in Nat
  BY <1>2, <1>6, <1>7
<1>9. FrameAccounting'
  BY <1>8 DEF FrameAccounting, Lost, Use
<1>10. OK(State)'
  <2>1. State' = w
    BY <1>2 DEF State
  <2>2. OK(State')
    BY <1>5, <2>1
  <2> QED
    BY <2>2 DEF OK
<1> QED
  BY <1>0, <1>1, <1>2, <1>5, <1>8, <1>9, <1>10 DEF Null

-----------------------------------------------------------------------------
(* Translations.                                                            *)

\* A page is its own page and lies in the address space.
LEMMA PagesNat == Pages \subseteq Nat /\ \A a \in Pages : a < Space /\ PageOf(a) = a
<1> DEFINE M == FANOUT * FANOUT * FANOUT * FANOUT
<1>1. M \in Nat
  BY PagingAssumption
<1>2. Pages = {4096 * p : p \in 0 .. M - 1} /\ Space = 4096 * M
  BY DEF Pages, Space
<1> HIDE DEF M
<1>3. \A p \in 0 .. M - 1 : 4096 * p \in Nat /\ 4096 * p < 4096 * M /\ (4096 * p) % 4096 = 0
  BY <1>1
<1>4. \A a \in Pages : a \in Nat /\ a < Space /\ a % 4096 = 0
  BY <1>2, <1>3
<1> QED
  BY <1>4, EntryIs

\* What the TLB may take in leads to a mapped page.
LEMMA TranslationsAre ==
  ASSUME NEW p, NEW e \in Translations(p)
  PROVE  e[1] \in Nat /\ e[2] = Translate(p, e[1]) /\ e[2] \in Mapped(p)
<1>1. PICK a \in Pages : Translate(p, a) # Null /\ e = <<a, Translate(p, a)>>
  BY DEF Translations
<1>2. e[1] = a /\ e[2] = Translate(p, a) /\ a \in Nat
  BY <1>1, PagesNat
<1> QED
  BY <1>1, <1>2, WalkIn

\* The TLB after a step that moves frames.
LEMMA MovesTlb ==
  ASSUME OK(State), OK(State)', Tlb, StaleApart, NEW addr, Moves(mem, phys, mem', phys', addr),
         tlb' = tlb \cup Translations(phys')
  PROVE  Tlb' /\ StaleApart'
<1>0. /\ State.mem = mem /\ State.phys = phys
      /\ (State.mem)' = mem' /\ (State.phys)' = phys'
  BY DEF State
<1>1. /\ Mapped(phys') \subseteq RAM \cup {Bogus}
      /\ Bogus \in Mapped(phys') => Dead(mem')
  BY <1>0 DEF OK, Sound
<1>2. ASSUME NEW e \in tlb'
      PROVE  e[1] \in Nat /\ e[2] \in RAM \cup {Bogus} /\ (e[2] = Bogus => Dead(mem'))
  <2>1. CASE e \in tlb
    BY <2>1 DEF Tlb, Moves
  <2>2. CASE e \in Translations(phys')
    BY <1>1, <2>2, TranslationsAre
  <2> QED
    BY <1>2, <2>1, <2>2
<1>3. ASSUME NEW e \in tlb', Translate(phys', e[1]) # e[2]
      PROVE  e[2] \notin Use(mem', phys')
  <2>1. e \in tlb
    BY <1>3, TranslationsAre
  <2>2. e[1] \in Nat /\ e[2] \in RAM \cup {Bogus} /\ (e[2] = Bogus => Dead(mem))
    BY <2>1 DEF Tlb
  <2>3. CASE Translate(phys, e[1]) = e[2]
    <3>1. e[2] # Null
      BY <2>2, RamFacts
    <3> QED
      BY <1>3, <2>2, <2>3, <3>1 DEF Moves
  <2>4. CASE Translate(phys, e[1]) # e[2]
    <3>1. e[2] \notin Use(mem, phys)
      BY <2>1, <2>4 DEF StaleApart, Use
    <3> QED
      BY <2>2, <3>1 DEF Moves
  <2> QED
    BY <2>3, <2>4
<1>4. Tlb'
  BY <1>2 DEF Tlb
<1>5. StaleApart'
  BY <1>3 DEF StaleApart, Use
<1> QED
  BY <1>4, <1>5

\* The heap lies in the address space.
LEMMA SpaceFacts == Space \in Nat /\ MAXHEAP \in Nat /\ MAXHEAP <= Space
<1> DEFINE M == FANOUT * FANOUT * FANOUT * FANOUT
<1>1. M \in Nat
  BY PagingAssumption
<1>2. MAXHEAP \in Nat /\ MAXHEAP <= 4096 * M
  BY VmmAssumption
<1> HIDE DEF M
<1>3. 4096 * M \in Nat
  BY <1>1
<1> QED
  BY <1>2, <1>3 DEF Space, M

\* Addresses at the same place of two pages.
LEMMA PagesApart ==
  ASSUME NEW x \in Nat, NEW y \in Nat, x % 4096 = y % 4096, x # y
  PROVE  PageOf(x) # PageOf(y)
<1>1. PICK k \in 0 .. 4095 : k = x % 4096
  OBVIOUS
<1>2. PageOf(x) = x - k /\ PageOf(y) = y - k
  BY <1>1 DEF PageOf
<1> QED
  BY <1>2

\* A step on a page of the heap changes that page only.
LEMMA MovesPage ==
  ASSUME NEW addr \in Nat, addr < MAXHEAP, Moves(mem, phys, mem', phys', addr),
         NEW a \in Nat, a < Space, Translate(phys, a) # Translate(phys', a)
  PROVE  PageOf(a) = PageOf(addr)
<1>1. SamePage(a, addr)
  BY DEF Moves
<1>2. addr < Space
  BY SpaceFacts
<1> QED
  BY <1>1, <1>2, OnePage

\* The mappings that are to be kept after a step on a page of the heap.
LEMMA MovesMappings ==
  ASSUME Heap, Regions, Image, MappingsKept, NEW addr \in Nat,
         addr >= KHEAPSTART, addr < MAXHEAP, addr % 4096 = KHEAPSTART % 4096,
         \A r \in live : addr < r.start \/ addr >= r.start + 4096 * r.size,
         Moves(mem, phys, mem', phys', addr),
         UNCHANGED <<KHEAPSTART, boot, live>>
  PROVE  MappingsKept'
<1>1. ASSUME NEW r \in live
      PROVE  Translate(phys', r.start) = Translate(phys, r.start)
  <2>1. /\ r.start \in Nat /\ r.size \in Nat \ {0} /\ r.start % 4096 = KHEAPSTART % 4096
        /\ r.start + 4096 * r.size <= MAXHEAP
    BY SpaceFacts DEF Regions, InHeap, Heap
  <2>2. r.start < Space
    BY <2>1, SpaceFacts
  <2>3. PageOf(r.start) # PageOf(addr)
    <3>1. addr # r.start
      BY <2>1
    <3> QED
      BY <2>1, <3>1, PagesApart
  <2> QED
    BY <2>1, <2>2, <2>3, MovesPage
<1>2. ASSUME KHEAPSTART % 4096 = 0, NEW a \in Pages, Translate(boot, a) # Null
      PROVE  Translate(phys', a) = Translate(phys, a)
  <2>1. a \in Nat /\ a < Space /\ PageOf(a) = a
    BY PagesNat
  <2>2. a < KHEAPSTART
    BY <1>2, <2>1 DEF Image, Heap
  <2>3. PageOf(addr) >= KHEAPSTART
    BY <1>2 DEF PageOf, Heap
  <2>4. PageOf(addr) \in Nat
    BY EntryIs
  <2>5. PageOf(a) # PageOf(addr)
    BY <2>1, <2>2, <2>3, <2>4 DEF Heap
  <2> QED
    BY <2>1, <2>5, MovesPage
<1>3. \A r \in live' : Translate(phys', r.start) = r.frame
  BY <1>1 DEF MappingsKept
<1>4. ASSUME KHEAPSTART' % 4096 = 0, NEW a \in Pages, Translate(boot', a) # Null
      PROVE  Translate(phys', a) = Translate(boot', a)
  BY <1>2, <1>4 DEF MappingsKept
<1> QED
  BY <1>3, <1>4 DEF MappingsKept

-----------------------------------------------------------------------------
(* The initial states.                                                      *)

\* The list that add_frame_region leaves holds each frame of the region once.
LEMMA FullList ==
  ASSUME NEW order \in [0 .. Cardinality(Region) - 1 -> Region],
         \A i, j \in DOMAIN order : i < j => order[i] < order[j],
         NEW m, m = FilledList(order)
  PROVE  ListOK(m) /\ FreeFrames(m) = Region
<1> DEFINE n == Cardinality(Region)
<1>1. n \in 1 .. SLOTS /\ IsFiniteSet(Region)
  BY VmmAssumption
<1>2. /\ m = [w \in Words |-> CASE w = HEAD -> Slot(n)
                                [] w = NEXTFREE -> Slot(n - 1)
                                [] w = NUMFRAMES -> n
                                [] OTHER -> IF (w - Slot(0)) \div 8 < n
                                            THEN order[(w - Slot(0)) \div 8] ELSE 0]
      /\ order \in [0 .. n - 1 -> Region]
      /\ \A i, j \in 0 .. n - 1 : i < j => order[i] < order[j]
  BY DEF FilledList
<1> HIDE DEF n
<1>3. \A i \in 0 .. n - 1 : order[i] \in Region /\ order[i] \in Nat
  BY <1>2, RamFacts
<1>4. \A i, j \in 0 .. n - 1 : order[i] = order[j] => i = j
  <2> TAKE i, j \in 0 .. n - 1
  <2>1. i \in Int /\ j \in Int /\ order[i] \in Nat /\ order[j] \in Nat
    BY <1>3
  <2>2. (i < j => order[i] < order[j]) /\ (j < i => order[j] < order[i])
    BY <1>2
  <2> HIDE DEF n
  <2> QED
    BY <2>1, <2>2
<1>5. /\ m[HEAD] = Slot(n) /\ m[NEXTFREE] = Slot(n - 1) /\ m[NUMFRAMES] = n
  <2>1. HEAD # NEXTFREE /\ HEAD # NUMFRAMES /\ NEXTFREE # NUMFRAMES
    BY WordFacts
  <2> QED
    BY <1>2, <2>1, WordFacts
<1>6. ASSUME NEW i \in 0 .. SLOTS - 1
      PROVE  m[Slot(i)] = IF i < n THEN order[i] ELSE 0
  <2>1. /\ Slot(i) \in Words
        /\ Slot(i) # HEAD /\ Slot(i) # NEXTFREE /\ Slot(i) # NUMFRAMES
        /\ Slot(i) - Slot(0) = 8 * i
    <3>1. Slot(i) = LIST + 24 + 8 * i /\ Slot(0) = LIST + 24 + 8 * 0
      BY DEF Slot
    <3>2. Slot(i) \in Words
      BY DEF Words
    <3>3. LIST \in Nat /\ HEAD = LIST /\ NEXTFREE = LIST + 8 /\ NUMFRAMES = LIST + 16
      BY WordFacts
    <3> QED
      BY <3>1, <3>2, <3>3
  <2>2. (8 * i) \div 8 = i
    BY WordFacts
  <2> QED
    BY <1>2, <2>1, <2>2
<1>7. \A i \in 0 .. n - 1 : m[Slot(i)] = order[i]
  <2> TAKE i \in 0 .. n - 1
  <2>1. i \in 0 .. SLOTS - 1 /\ i < n
    BY <1>1, WordFacts
  <2> QED
    BY <1>6, <2>1
<1>8. Filled(m, n)
  <2>1. n \in 0 .. SLOTS
    BY <1>1
  <2>2. \A i \in 0 .. n - 1 : m[Slot(i)] \in Region
    BY <1>3, <1>7
  <2>3. \A i, j \in 0 .. n - 1 : m[Slot(i)] = m[Slot(j)] => i = j
    BY <1>4, <1>7
  <2> QED
    BY <1>5, <2>1, <2>2, <2>3 DEF Filled
<1>9. m \in [Words -> Nat]
  <2>1. DOMAIN m = Words /\ m = [w \in Words |-> m[w]]
    BY <1>2
  <2>2. \A i \in 0 .. SLOTS - 1 : m[Slot(i)] \in Nat
    <3> TAKE i \in 0 .. SLOTS - 1
    <3>1. i < n => i \in 0 .. n - 1
      BY <1>1
    <3> QED
      BY <1>3, <1>6, <3>1
  <2>3. Slot(n) \in Nat /\ Slot(n - 1) \in Nat /\ n \in Nat
    <3>1. n \in Nat \ {0} /\ LIST \in Nat
      BY <1>1, WordFacts
    <3> QED
      BY <3>1 DEF Slot
  <2>4. \A w \in Words : m[w] \in Nat
    <3> TAKE w \in Words
    <3>1. w \in {HEAD, NEXTFREE, NUMFRAMES} \/ \E i \in 0 .. SLOTS - 1 : w = Slot(i)
      BY DEF Words
    <3> QED
      BY <1>5, <2>2, <2>3, <3>1
  <2> QED
    BY <2>1, <2>4
<1>10. ListOK(m)
  <2>1. n \in 0 .. SLOTS
    BY <1>1
  <2> QED
    BY <1>8, <1>9, <2>1 DEF ListOK
<1>11. order \in Surjection(0 .. n - 1, Region)
  <2>1. order \in Injection(0 .. n - 1, Region)
    BY <1>2, <1>4 DEF Injection, IsInjective
  <2>2. Cardinality(0 .. n - 1) = n
    <3>1. n - 1 \in Int /\ n \in Int /\ ~(0 > n - 1) /\ n - 1 - 0 + 1 = n
      BY <1>1
    <3>2. Cardinality(0 .. n - 1) = IF 0 > n - 1 THEN 0 ELSE n - 1 - 0 + 1
      BY <3>1, FS_Interval
    <3> QED
      BY <3>1, <3>2
  <2>3. Cardinality(0 .. n - 1) = Cardinality(Region)
    BY <2>2 DEF n
  <2> QED
    BY <1>1, <2>1, <2>3, FS_Injection
<1>12. FreeFrames(m) = Region
  <2>1. FreeFrames(m) = {m[Slot(i)] : i \in 0 .. n - 1}
    BY <1>8, SpentFacts
  <2>2. \A f \in Region : \E i \in 0 .. n - 1 : order[i] = f
    BY <1>11 DEF Surjection
  <2> QED
    BY <1>3, <1>7, <2>1, <2>2
<1> QED
  BY <1>10, <1>12

\* The boot loader's tables are sound and use no frame of the list.
LEMMA BootSound ==
  ASSUME NEW b \in BootLayouts, NEW p, p = BootRam(b)
  PROVE  /\ Sound(p) /\ Region \cap (Tables(p) \cup Mapped(p)) = {}
         /\ Bogus \notin Mapped(p)
<1>1. /\ p \in [RAM -> [Idx -> Nat]] /\ Tree(p)
      /\ Targets(p) \subseteq RAM \ Region
  BY VmmAssumption DEF Targets
<1>2. Puds(p) \cup Pmds(p) \cup Pts(p) \cup Mapped(p) \subseteq RAM \ Region
  BY <1>1, TargetsAre
<1>3. CR3 \in RAM \ Region /\ Bogus \notin RAM
  BY RamFacts
<1>4. Tables(p) \subseteq RAM \ Region /\ Mapped(p) \subseteq RAM \ Region
  BY <1>2, <1>3 DEF Tables
<1> QED
  BY <1>1, <1>3, <1>4 DEF Sound

\* VInv holds when init_vmm starts.
LEMMA VmmInit == Init => VInv
<1> SUFFICES ASSUME Init PROVE VInv
  OBVIOUS
<1>1. PICK b \in BootLayouts : /\ KHEAPSTART = b.kheapstart /\ phys = BootRam(b)
                               /\ boot = phys /\ tlb = Translations(phys)
  BY DEF Init
<1>2. PICK order \in [0 .. Cardinality(Region) - 1 -> Region] :
             /\ \A i, j \in DOMAIN order : i < j => order[i] < order[j]
             /\ mem = FilledList(order)
  BY DEF Init
<1>3. /\ K_HEAP_END = KHEAPSTART /\ loop = [op |-> "init"] /\ ret = Null /\ halted = FALSE
      /\ live = {} /\ leaks = 0 /\ nulls = 0
  BY DEF Init
<1>4. ListOK(mem) /\ FreeFrames(mem) = Region
  BY <1>2, FullList
<1>5. Sound(phys) /\ Region \cap (Tables(phys) \cup Mapped(phys)) = {} /\ Bogus \notin Mapped(phys)
  BY <1>1, BootSound
<1>6. Heap
  <2>1. b.kheapstart \in 1 .. MAXHEAP - 1 /\ MAXHEAP \in Nat
    BY VmmAssumption
  <2> QED
    BY <1>1, <1>3, <2>1 DEF Heap
<1>7. Regions /\ Loop
  BY <1>3 DEF Regions, Loop
<1>8. Counts
  BY <1>3, VmmAssumption DEF Counts, Null
<1>9. OK(State)
  <2>1. State.mem = mem /\ State.phys = phys
    BY DEF State
  <2>2. State \in Records
    BY <1>4, <1>5 DEF State, Records, ListOK, Sound, Null
  <2> QED
    BY <1>4, <1>5, <2>1, <2>2 DEF OK
<1>10. FrameAccounting
  <2>1. Region \ (FreeFrames(mem) \cup Tables(phys) \cup Mapped(phys)) = {}
    BY <1>4
  <2> QED
    BY <1>3, <2>1, FS_EmptySet DEF FrameAccounting
<1>11. Tlb
  <2>1. \A e \in tlb : e[1] \in Nat /\ e[2] \in Mapped(phys)
    BY <1>1, TranslationsAre
  <2> QED
    BY <1>5, <2>1 DEF Tlb, Sound
<1>12. StaleApart
  <2>1. \A e \in tlb : e[2] = Translate(phys, e[1])
    BY <1>1, TranslationsAre
  <2> QED
    BY <2>1 DEF StaleApart
<1>13. Image
  BY <1>1, VmmAssumption DEF Image
<1>14. MappingsKept
  BY <1>1, <1>3 DEF MappingsKept
<1> QED
  BY <1>6, <1>7, <1>8, <1>9, <1>10, <1>11, <1>12, <1>13, <1>14 DEF VInv

-----------------------------------------------------------------------------
(* The steps.                                                               *)

\* Which loop runs.
LEMMA LoopIs ==
  ASSUME Loop
  PROVE  /\ loop.op = "init" => live = {}
         /\ loop.op \in {"mmap", "munmap"} => InLoop
<1>1. CASE loop = [op |-> "init"] /\ live = {}
  BY <1>1
<1>2. CASE loop = Idle
  BY <1>2 DEF Idle
<1>3. CASE InLoop
  BY <1>3 DEF InLoop
<1> QED
  BY <1>1, <1>2, <1>3 DEF Loop

\* The page that such a loop is at lies in the heap and in no live region.
LEMMA LoopPage ==
  ASSUME Heap, Regions, InLoop, loop.addr < loop.start + loop.size
  PROVE  /\ loop.addr \in Nat /\ loop.addr >= KHEAPSTART /\ loop.addr < MAXHEAP
         /\ loop.addr % 4096 = KHEAPSTART % 4096
         /\ \A r \in live : loop.addr < r.start \/ loop.addr >= r.start + 4096 * r.size
<1>1. PICK a \in Nat, s \in Nat, n \in Nat : a = loop.addr /\ s = loop.start /\ n = loop.size
  BY DEF InLoop
<1>2. /\ s >= KHEAPSTART /\ s + 4096 * n <= K_HEAP_END
      /\ a >= s /\ a % 4096 = KHEAPSTART % 4096 /\ a < s + n
  BY <1>1 DEF InLoop, InHeap
<1>3. /\ KHEAPSTART \in Nat /\ K_HEAP_END \in Nat /\ MAXHEAP \in Nat
      /\ K_HEAP_END <= MAXHEAP
  BY SpaceFacts DEF Heap
<1>4. a >= KHEAPSTART /\ a < s + 4096 * n /\ a < MAXHEAP
  BY <1>2, <1>3
<1>5. ASSUME NEW r \in live
      PROVE  a < r.start \/ a >= r.start + 4096 * r.size
  <2>1. PICK u \in Nat, k \in Nat : u = r.start /\ k = r.size
    BY DEF Regions, InHeap
  <2>2. u + 4096 * k <= s \/ s + 4096 * n <= u
    BY <1>1, <2>1 DEF InLoop, Disjoint
  <2>3. a < u \/ a >= u + 4096 * k
    BY <1>2, <1>4, <2>2
  <2> QED
    BY <2>1, <2>3
<1> QED
  BY <1>1, <1>2, <1>4, <1>5

\* One iteration.
LEMMA LoopTurn ==
  ASSUME Heap, Regions, InLoop, loop' = [loop EXCEPT !.addr = @ + 4096],
         UNCHANGED <<KHEAPSTART, K_HEAP_END, live>>
  PROVE  Heap' /\ Regions' /\ Loop'
<1>1. PICK a \in Nat, s \in Nat, n \in Nat : a = loop.addr /\ s = loop.start /\ n = loop.size
  BY DEF InLoop
<1>2. a >= s /\ a % 4096 = KHEAPSTART % 4096
  BY <1>1 DEF InLoop
<1>3. a + 4096 \in Nat /\ a + 4096 >= s /\ (a + 4096) % 4096 = a % 4096
  BY <1>2
<1>4. /\ loop' \in [op : {"mmap", "munmap"}, addr : Nat, start : Nat, size : Nat]
      /\ loop'.addr = a + 4096 /\ loop'.start = s /\ loop'.size = n
  BY <1>1, <1>3 DEF InLoop
<1>5. InHeap(s, n) /\ InHeap(s, n)'
  BY <1>1 DEF InLoop, InHeap
<1>6. \A r \in live' : Disjoint(r, loop')
  <2>1. \A r \in live : Disjoint(r, loop)
    BY DEF InLoop
  <2> QED
    BY <1>1, <1>4, <2>1 DEF Disjoint
<1>7. Loop'
  <2>1. InHeap(loop.start, loop.size)'
    BY <1>4, <1>5 DEF InHeap
  <2>2. loop'.addr >= loop'.start /\ loop'.addr % 4096 = KHEAPSTART' % 4096
    BY <1>2, <1>3, <1>4
  <2> QED
    BY <1>4, <1>6, <2>1, <2>2 DEF Loop, InLoop
<1>8. Heap'
  BY DEF Heap
<1>9. Regions'
  BY DEF Regions, InHeap
<1> QED
  BY <1>7, <1>8, <1>9

\* A step that touches neither the list nor the tables.
LEMMA MemoryKept ==
  ASSUME VInv, UNCHANGED <<KHEAPSTART, mem, phys, boot, tlb, leaks>>
  PROVE  /\ OK(State)' /\ FrameAccounting' /\ Tlb' /\ StaleApart' /\ Image'
         /\ UNCHANGED live => MappingsKept'
<1>1. OK(State)'
  BY DEF VInv, OK, State
<1>2. FrameAccounting' /\ Tlb' /\ StaleApart' /\ Image'
  BY DEF VInv, FrameAccounting, Tlb, StaleApart, Image
<1>3. UNCHANGED live => MappingsKept'
  BY DEF VInv, MappingsKept
<1> QED
  BY <1>1, <1>2, <1>3

\* A step of alloc_page or unmap_page on a page of the heap.
LEMMA PageStep ==
  ASSUME VInv, OK(State)', NEW addr \in Nat,
         addr >= KHEAPSTART, addr < MAXHEAP, addr % 4096 = KHEAPSTART % 4096,
         \A r \in live : addr < r.start \/ addr >= r.start + 4096 * r.size,
         Moves(mem, phys, mem', phys', addr), tlb' = tlb \cup Translations(phys'),
         UNCHANGED <<KHEAPSTART, boot, live>>
  PROVE  Tlb' /\ StaleApart' /\ Image' /\ MappingsKept'
<1>1. Heap /\ Regions /\ OK(State) /\ Tlb /\ StaleApart /\ Image /\ MappingsKept
  BY DEF VInv
<1>2. Tlb' /\ StaleApart'
  BY <1>1, MovesTlb
<1>3. MappingsKept'
  BY <1>1, MovesMappings
<1>4. Image'
  BY <1>1 DEF Image
<1> QED
  BY <1>2, <1>3, <1>4

\* init_vmm maps the first page of the heap.
LEMMA InitVmmStep == VInv /\ InitVmm => VInv'
<1> SUFFICES ASSUME VInv, InitVmm PROVE VInv'
  OBVIOUS
<1>1. /\ loop.op = "init" /\ AllocAt(KHEAPSTART) /\ loop' = Idle
      /\ UNCHANGED <<KHEAPSTART, K_HEAP_END, live, boot, nulls>>
  BY DEF InitVmm
<1>2. /\ Heap /\ Regions /\ Loop /\ Counts
      /\ OK(State) /\ FrameAccounting /\ leaks \in Nat
  BY DEF VInv, Counts
<1>3. KHEAPSTART \in Nat /\ KHEAPSTART < MAXHEAP
  BY <1>2 DEF Heap
<1>4. /\ OK(State)' /\ FrameAccounting'
      /\ ret' \in Nat /\ halted' = FALSE /\ leaks' \in Nat
      /\ tlb' = tlb \cup Translations(phys')
      /\ Moves(mem, phys, mem', phys', KHEAPSTART)
  BY <1>1, <1>2, <1>3, AllocStep
<1>5. live = {}
  BY <1>1, <1>2, LoopIs
<1>6. Tlb' /\ StaleApart' /\ Image' /\ MappingsKept'
  <2>1. KHEAPSTART >= KHEAPSTART
    BY <1>3
  <2> QED
    BY <1>1, <1>3, <1>4, <1>5, <2>1, PageStep
<1>7. Heap' /\ Regions' /\ Loop' /\ Counts'
  BY <1>1, <1>2, <1>4, <1>5 DEF Heap, Regions, Loop, Counts
<1> QED
  BY <1>4, <1>6, <1>7 DEF VInv

\* mmap takes its region from the end of the heap.
LEMMA MmapStep == ASSUME NEW n \in Sizes PROVE VInv /\ Mmap(n) => VInv'
<1> SUFFICES ASSUME VInv, Mmap(n) PROVE VInv'
  OBVIOUS
<1>1. /\ K_HEAP_END + n * 4096 <= MAXHEAP
      /\ K_HEAP_END' = K_HEAP_END + n * 4096
      /\ loop' = [op |-> "mmap", addr |-> K_HEAP_END, start |-> K_HEAP_END, size |-> n]
      /\ UNCHANGED <<KHEAPSTART, mem, phys, ret, halted, live, boot, tlb, leaks, nulls>>
  BY DEF Mmap
<1>2. Heap /\ Regions /\ Counts
  BY DEF VInv
<1>3. n \in Nat \ {0}
  BY VmmAssumption
<1>4. Heap'
  BY <1>1, <1>2, <1>3, SpaceFacts DEF Heap
<1>5. ASSUME NEW r \in live
      PROVE  InHeap(r.start, r.size)' /\ r.start + 4096 * r.size <= K_HEAP_END
  <2>1. PICK u, k : u = r.start /\ k = r.size
    OBVIOUS
  <2>2. InHeap(u, k)
    BY <2>1, <1>2 DEF Regions
  <2>3. u + 4096 * k <= K_HEAP_END /\ InHeap(u, k)'
    BY <1>1, <1>2, <1>3, <2>2 DEF InHeap, Heap
  <2> QED
    BY <2>1, <2>3
<1>6. Regions'
  BY <1>1, <1>2, <1>5 DEF Regions
<1>7. Loop'
  <2>1. InHeap(loop.start, loop.size)'
    <3>1. loop'.start = K_HEAP_END /\ loop'.size = n
      BY <1>1
    <3> QED
      BY <1>1, <1>2, <1>3, <3>1 DEF InHeap, Heap
  <2>2. \A r \in live' : Disjoint(r, loop')
    BY <1>1, <1>5 DEF Disjoint
  <2>3. /\ loop' \in [op : {"mmap", "munmap"}, addr : Nat, start : Nat, size : Nat]
        /\ loop'.addr >= loop'.start /\ loop'.addr % 4096 = KHEAPSTART' % 4096
    BY <1>1, <1>2, <1>3 DEF Heap
  <2> QED
    BY <2>1, <2>2, <2>3 DEF Loop, InLoop
<1>8. Counts'
  BY <1>1, <1>2 DEF Counts
<1>9. OK(State)' /\ FrameAccounting' /\ Tlb' /\ StaleApart' /\ Image' /\ MappingsKept'
  BY <1>1, MemoryKept
<1> QED
  BY <1>4, <1>6, <1>7, <1>8, <1>9 DEF VInv

\* An iteration of mmap.
LEMMA MmapPageStep == VInv /\ MmapPage => VInv'
<1> SUFFICES ASSUME VInv, MmapPage PROVE VInv'
  OBVIOUS
<1>1. /\ loop.op = "mmap" /\ loop.addr < loop.start + loop.size
      /\ AllocAt(loop.addr) /\ loop' = [loop EXCEPT !.addr = @ + 4096]
      /\ UNCHANGED <<KHEAPSTART, K_HEAP_END, live, boot, nulls>>
  BY DEF MmapPage
<1>2. /\ Heap /\ Regions /\ Loop /\ Counts
      /\ OK(State) /\ FrameAccounting /\ leaks \in Nat
  BY DEF VInv, Counts
<1>3. InLoop
  BY <1>1, <1>2, LoopIs
<1>4. /\ loop.addr \in Nat /\ loop.addr >= KHEAPSTART /\ loop.addr < MAXHEAP
      /\ loop.addr % 4096 = KHEAPSTART % 4096
      /\ \A r \in live : loop.addr < r.start \/ loop.addr >= r.start + 4096 * r.size
  BY <1>1, <1>2, <1>3, LoopPage
<1>5. /\ OK(State)' /\ FrameAccounting'
      /\ ret' \in Nat /\ halted' = FALSE /\ leaks' \in Nat
      /\ tlb' = tlb \cup Translations(phys')
      /\ Moves(mem, phys, mem', phys', loop.addr)
  <2>1. PICK a \in Nat : a = loop.addr
    BY <1>4
  <2>2. AllocAt(a)
    BY <1>1, <2>1
  <2>3. /\ OK(State)' /\ FrameAccounting'
        /\ ret' \in Nat /\ halted' = FALSE /\ leaks' \in Nat
        /\ tlb' = tlb \cup Translations(phys')
        /\ Moves(mem, phys, mem', phys', a)
    BY <1>2, <2>2, AllocStep
  <2> QED
    BY <2>1, <2>3
<1>6. Tlb' /\ StaleApart' /\ Image' /\ MappingsKept'
  BY <1>1, <1>4, <1>5, PageStep
<1>7. Heap' /\ Regions' /\ Loop'
  BY <1>1, <1>2, <1>3, LoopTurn
<1>8. Counts'
  BY <1>1, <1>2, <1>5 DEF Counts
<1> QED
  BY <1>5, <1>6, <1>7, <1>8 DEF VInv

\* The region of mmap becomes live.
LEMMA MmapReturnStep == VInv /\ MmapReturn => VInv'
<1> SUFFICES ASSUME VInv, MmapReturn PROVE VInv'
  OBVIOUS
<1> DEFINE x == [start |-> loop.start, size |-> loop.size, frame |-> Translate(phys, loop.start)]
<1>1. /\ loop.op = "mmap" /\ ret' = loop.start /\ live' = live \cup {x} /\ loop' = Idle
      /\ UNCHANGED <<KHEAPSTART, K_HEAP_END, mem, phys, halted, boot, tlb, leaks, nulls>>
  BY DEF MmapReturn
<1>2. Heap /\ Regions /\ Loop /\ Counts /\ MappingsKept
  BY DEF VInv
<1>3. InLoop
  BY <1>1, <1>2, LoopIs
<1>4. x.start = loop.start /\ x.size = loop.size /\ x.frame = Translate(phys, x.start)
  OBVIOUS
<1> HIDE DEF x
<1>5. InHeap(x.start, x.size) /\ \A r \in live : Disjoint(r, x) /\ Disjoint(x, r)
  BY <1>3, <1>4 DEF InLoop, Disjoint
<1>6. Regions'
  <2>1. \A r \in live' : InHeap(r.start, r.size)
    BY <1>1, <1>2, <1>5 DEF Regions
  <2>2. \A r \in live' : InHeap(r.start, r.size)'
    BY <1>1, <2>1 DEF InHeap
  <2>3. \A r, q \in live' : r # q => Disjoint(r, q)
    BY <1>1, <1>2, <1>5 DEF Regions
  <2> QED
    BY <2>2, <2>3 DEF Regions
<1>7. Heap' /\ Loop'
  BY <1>1, <1>2 DEF Heap, Loop
<1>8. Counts'
  <2>1. ret' \in Nat
    BY <1>1, <1>3 DEF InLoop
  <2> QED
    BY <1>1, <1>2, <2>1 DEF Counts
<1>9. MappingsKept'
  BY <1>1, <1>2, <1>4 DEF MappingsKept
<1>10. OK(State)' /\ FrameAccounting' /\ Tlb' /\ StaleApart' /\ Image'
  BY <1>1, MemoryKept
<1> QED
  BY <1>6, <1>7, <1>8, <1>9, <1>10 DEF VInv

\* The region that munmap is given is live no longer.
LEMMA MunmapStep == ASSUME NEW r \in live PROVE VInv /\ Munmap(r) => VInv'
<1> SUFFICES ASSUME VInv, Munmap(r) PROVE VInv'
  OBVIOUS
<1>1. /\ live' = live \ {r}
      /\ loop' = [op |-> "munmap", addr |-> r.start, start |-> r.start, size |-> r.size]
      /\ UNCHANGED <<KHEAPSTART, K_HEAP_END, mem, phys, ret, halted, boot, tlb, leaks, nulls>>
  BY DEF Munmap
<1>2. Heap /\ Regions /\ Counts /\ MappingsKept
  BY DEF VInv
<1>3. PICK s, n : s = r.start /\ n = r.size
  OBVIOUS
<1>4. InHeap(s, n) /\ InHeap(s, n)'
  BY <1>1, <1>2, <1>3 DEF Regions, InHeap
<1>5. Heap'
  BY <1>1, <1>2 DEF Heap
<1>6. Regions'
  BY <1>1, <1>2 DEF Regions, InHeap
<1>7. Loop'
  <2>1. loop' = [op |-> "munmap", addr |-> s, start |-> s, size |-> n]
    BY <1>1, <1>3
  <2>2. s \in Nat /\ n \in Nat /\ s >= s /\ s % 4096 = KHEAPSTART' % 4096
    BY <1>1, <1>4 DEF InHeap
  <2>3. InHeap(loop.start, loop.size)'
    BY <1>4, <2>1 DEF InHeap
  <2>4. \A q \in live' : Disjoint(q, loop')
    <3>1. \A q \in live' : Disjoint(q, r)
      BY <1>1, <1>2 DEF Regions
    <3>2. loop'.start = r.start /\ loop'.size = r.size
      BY <1>1
    <3> QED
      BY <3>1, <3>2 DEF Disjoint
  <2>5. /\ loop' \in [op : {"mmap", "munmap"}, addr : Nat, start : Nat, size : Nat]
        /\ loop'.addr >= loop'.start /\ loop'.addr % 4096 = KHEAPSTART' % 4096
    BY <2>1, <2>2
  <2> QED
    BY <2>3, <2>4, <2>5 DEF Loop, InLoop
<1>8. Counts'
  BY <1>1, <1>2 DEF Counts
<1>9. MappingsKept'
  BY <1>1, <1>2 DEF MappingsKept
<1>10. OK(State)' /\ FrameAccounting' /\ Tlb' /\ StaleApart' /\ Image'
  BY <1>1, MemoryKept
<1> QED
  BY <1>5, <1>6, <1>7, <1>8, <1>9, <1>10 DEF VInv

\* An iteration of munmap.
LEMMA MunmapPageStep == VInv /\ MunmapPage => VInv'
<1> SUFFICES ASSUME VInv, MunmapPage PROVE VInv'
  OBVIOUS
<1>1. /\ loop.op = "munmap" /\ loop.addr < loop.start + loop.size
      /\ loop' = [loop EXCEPT !.addr = @ + 4096]
      /\ UNCHANGED <<KHEAPSTART, K_HEAP_END, halted, live, boot, nulls>>
  BY DEF MunmapPage
<1>2. /\ Heap /\ Regions /\ Loop /\ Counts
      /\ OK(State) /\ FrameAccounting /\ leaks \in Nat
  BY DEF VInv, Counts
<1>3. InLoop
  BY <1>1, <1>2, LoopIs
<1>4. /\ loop.addr \in Nat /\ loop.addr >= KHEAPSTART /\ loop.addr < MAXHEAP
      /\ loop.addr % 4096 = KHEAPSTART % 4096
      /\ \A r \in live : loop.addr < r.start \/ loop.addr >= r.start + 4096 * r.size
  BY <1>1, <1>2, <1>3, LoopPage
<1>5. /\ OK(State)' /\ FrameAccounting'
      /\ ret' \in Nat /\ leaks' \in Nat
      /\ tlb' = tlb \cup Translations(phys')
      /\ Moves(mem, phys, mem', phys', loop.addr)
  BY <1>2, <1>4, UnmapStep
<1>6. Tlb' /\ StaleApart' /\ Image' /\ MappingsKept'
  BY <1>1, <1>4, <1>5, PageStep
<1>7. Heap' /\ Regions' /\ Loop'
  BY <1>1, <1>2, <1>3, LoopTurn
<1>8. Counts'
  BY <1>1, <1>2, <1>5 DEF Counts
<1> QED
  BY <1>5, <1>6, <1>7, <1>8 DEF VInv

\* The end of munmap.
LEMMA MunmapReturnStep == VInv /\ MunmapReturn => VInv'
<1> SUFFICES ASSUME VInv, MunmapReturn PROVE VInv'
  OBVIOUS
<1>1. /\ loop' = Idle
      /\ UNCHANGED <<KHEAPSTART, K_HEAP_END, mem, phys, ret, halted, live, boot, tlb, leaks, nulls>>
  BY DEF MunmapReturn
<1>2. Heap /\ Regions /\ Counts
  BY DEF VInv
<1>3. Heap' /\ Regions' /\ Loop' /\ Counts'
  BY <1>1, <1>2 DEF Heap, Regions, InHeap, Loop, Counts
<1>4. OK(State)' /\ FrameAccounting' /\ Tlb' /\ StaleApart' /\ Image' /\ MappingsKept'
  BY <1>1, MemoryKept
<1> QED
  BY <1>3, <1>4 DEF VInv

\* alloc_page(NULL) loses a frame and changes no table.
LEMMA AllocPageNullStep == VInv /\ AllocPageNull => VInv'
<1> SUFFICES ASSUME VInv, AllocPageNull PROVE VInv'
  OBVIOUS
<1>1. /\ loop = Idle /\ nulls < NULLCALLS /\ nulls' = nulls + 1 /\ AllocAt(Null)
      /\ UNCHANGED <<KHEAPSTART, K_HEAP_END, loop, live, boot>>
  BY DEF AllocPageNull
<1>2. /\ Heap /\ Regions /\ Loop /\ Counts /\ Tlb /\ StaleApart /\ Image /\ MappingsKept
      /\ OK(State) /\ FrameAccounting /\ leaks \in Nat
  BY DEF VInv, Counts
<1>3. Null \in Nat
  BY DEF Null
<1>4. /\ OK(State)' /\ FrameAccounting'
      /\ ret' \in Nat /\ halted' = FALSE /\ leaks' \in Nat
      /\ tlb' = tlb \cup Translations(phys')
      /\ Moves(mem, phys, mem', phys', Null)
      /\ phys' = phys
  BY <1>1, <1>2, <1>3, AllocStep
<1>5. Tlb' /\ StaleApart'
  BY <1>2, <1>4, MovesTlb
<1>6. Image' /\ MappingsKept'
  BY <1>1, <1>2, <1>4 DEF Image, MappingsKept
<1>7. Heap' /\ Regions' /\ Loop'
  BY <1>1, <1>2 DEF Heap, Regions, InHeap, Loop
<1>8. Counts'
  BY <1>1, <1>2, <1>4, VmmAssumption DEF Counts
<1> QED
  BY <1>4, <1>5, <1>6, <1>7, <1>8 DEF VInv

\* Every step keeps VInv.
LEMMA VmmStep == VInv /\ [Next]_vars => VInv'
<1> SUFFICES ASSUME VInv, [Next]_vars PROVE VInv'
  OBVIOUS
<1>1. CASE InitVmm
  BY <1>1, InitVmmStep
<1>2. ASSUME NEW n \in Sizes, Mmap(n) PROVE VInv'
  BY <1>2, MmapStep
<1>3. CASE MmapPage
  BY <1>3, MmapPageStep
<1>4. CASE MmapReturn
  BY <1>4, MmapReturnStep
<1>5. ASSUME NEW r \in live, Munmap(r) PROVE VInv'
  BY <1>5, MunmapStep
<1>6. CASE MunmapPage
  BY <1>6, MunmapPageStep
<1>7. CASE MunmapReturn
  BY <1>7, MunmapReturnStep
<1>8. CASE AllocPageNull
  BY <1>8, AllocPageNullStep
<1>9. CASE UNCHANGED vars
  <2>1. UNCHANGED <<KHEAPSTART, K_HEAP_END, mem, phys, loop, ret, halted, live, boot,
                    tlb, leaks, nulls>>
    BY <1>9 DEF vars
  <2>2. Heap /\ Regions /\ Loop /\ Counts
    BY DEF VInv
  <2>3. Heap' /\ Regions' /\ Counts'
    BY <2>1, <2>2 DEF Heap, Regions, InHeap, Counts
  <2>4. Loop'
    BY <2>1, <2>2 DEF Loop, InLoop, InHeap
  <2>5. OK(State)' /\ FrameAccounting' /\ Tlb' /\ StaleApart' /\ Image' /\ MappingsKept'
    BY <2>1, MemoryKept
  <2> QED
    BY <2>3, <2>4, <2>5 DEF VInv
<1> QED
  BY <1>1, <1>2, <1>3, <1>4, <1>5, <1>6, <1>7, <1>8, <1>9 DEF Next

-----------------------------------------------------------------------------
(* The theorems.                                                            *)

\* VInv holds in every state that mmap, munmap and alloc_page reach.
THEOREM VmmInvariant == Spec => []VInv
<1>1. Init => VInv
  BY VmmInit
<1>2. VInv /\ [Next]_vars => VInv'
  BY VmmStep
<1> QED
  BY <1>1, <1>2, PTL DEF Spec

\* The state of the memory manager stays typed: the frame list is words, the tables
\* are tables, and the call counters stay in their bounds.
THEOREM VmmTyped == Spec => []TypeOK
<1>1. VInv => TypeOK
  <2> SUFFICES ASSUME VInv PROVE TypeOK
    OBVIOUS
  <2>1. Heap /\ Loop /\ Counts /\ OK(State)
    BY DEF VInv
  <2>2. mem \in [Words -> Nat] /\ phys \in [RAM -> [Idx -> Nat]]
    BY <2>1 DEF OK, Records, State
  <2>3. loop.op \in {"init", "idle", "mmap", "munmap"}
    BY <2>1 DEF Loop, InLoop, Idle
  <2>4. /\ KHEAPSTART \in Nat /\ K_HEAP_END \in Nat /\ ret \in Nat
        /\ leaks \in Nat /\ nulls \in 0 .. NULLCALLS
    BY <2>1 DEF Heap, Counts
  <2>5. halted \in BOOLEAN
    BY <2>1 DEF Counts
  <2> QED
    BY <2>2, <2>3, <2>4, <2>5, Zenon DEF TypeOK
<1> QED
  BY <1>1, VmmInvariant, PTL

\* No frame is free and used, or used twice, however pages are mapped by alloc_page
\* and unmapped by unmap_page, at every size of the tables and after any number of
\* failed allocations.
THEOREM VmmOneUse == Spec => []OneUse
<1>1. VInv => OneUse
  <2> SUFFICES ASSUME VInv PROVE OneUse
    OBVIOUS
  <2>1. OK(State) /\ State.mem = mem /\ State.phys = phys
    BY DEF VInv, State
  <2>2. Tree(phys) /\ FreeFrames(mem) \cap (Tables(phys) \cup Mapped(phys)) = {}
    BY <2>1 DEF OK, Sound
  <2>3. Children(phys, Tables(phys)) \subseteq Tables(phys) \cup Mapped(phys)
    BY TargetsAre DEF Targets, Tables
  <2> QED
    BY <2>2, <2>3 DEF OneUse
<1> QED
  BY <1>1, VmmInvariant, PTL

\* The address that pop_frame_list returns by mistake after the list has run empty
\* never becomes a page table, so that no walk of map_to_page faults; and a page is
\* mapped outside RAM after that pop only.
THEOREM VmmTablesInRam == Spec => []TablesInRam
<1>1. VInv => TablesInRam
  <2> SUFFICES ASSUME VInv PROVE TablesInRam
    OBVIOUS
  <2>1. OK(State) /\ State.mem = mem /\ State.phys = phys /\ halted = FALSE
    BY DEF VInv, State, Counts
  <2>2. /\ Tables(phys) \subseteq RAM /\ Mapped(phys) \subseteq RAM \cup {Bogus}
        /\ Bogus \in Mapped(phys) => Dead(mem)
    BY <2>1 DEF OK, Sound
  <2>3. Dead(mem) => Spent(mem)
    BY SpentFacts
  <2> QED
    BY <2>1, <2>2, <2>3 DEF TablesInRam
<1> QED
  BY <1>1, VmmInvariant, PTL

\* The frames of the region that are neither free nor in use are as many as the
\* replaced, failed and removed mappings gave up: no other step loses a frame.
THEOREM VmmFrameAccounting == Spec => []FrameAccounting
<1>1. VInv => FrameAccounting
  BY DEF VInv
<1> QED
  BY <1>1, VmmInvariant, PTL

\* Without any flush of the TLB a translation that is out of date leads to no frame
\* that is free, a table or mapped.
THEOREM VmmStaleApart == Spec => []StaleApart
<1>1. VInv => StaleApart
  BY DEF VInv
<1> QED
  BY <1>1, VmmInvariant, PTL

\* The first page of a region that mmap returned keeps its frame while the region is
\* live, and the pages of the kernel image keep theirs when it ends on a page boundary.
THEOREM VmmMappingsKept == Spec => []MappingsKept
<1>1. VInv => MappingsKept
  BY DEF VInv
<1> QED
  BY <1>1, VmmInvariant, PTL

\* A step of alloc_page or unmap_page changes the translation of the page it is
\* called for and of no other.
THEOREM VmmOtherPagesKept == Spec => OtherPagesKept
<1> DEFINE Kept == \A a \in Pages : Translate(phys, a) # Translate(phys', a)
                     => a = PageOf(IF loop.op = "init" THEN KHEAPSTART ELSE loop.addr)
<1>1. ASSUME VInv, [Next]_vars
      PROVE  [Kept]_vars
  <2>1. /\ Heap /\ Regions /\ Loop /\ OK(State) /\ FrameAccounting /\ leaks \in Nat
        /\ KHEAPSTART \in Nat /\ KHEAPSTART < MAXHEAP
    BY <1>1 DEF VInv, Counts, Heap
  <2>2. ASSUME NEW addr \in Nat, addr < MAXHEAP, Moves(mem, phys, mem', phys', addr),
               addr = IF loop.op = "init" THEN KHEAPSTART ELSE loop.addr
        PROVE  Kept
    <3>1. ASSUME NEW a \in Pages, Translate(phys, a) # Translate(phys', a)
          PROVE  a = PageOf(addr)
      <4>1. a \in Nat /\ a < Space /\ PageOf(a) = a
        BY PagesNat
      <4> QED
        BY <2>2, <3>1, <4>1, MovesPage
    <3> QED
      BY <2>2, <3>1
  <2>3. CASE InitVmm
    <3>1. loop.op = "init" /\ AllocAt(KHEAPSTART)
      BY <2>3 DEF InitVmm
    <3>2. PICK k \in Nat : k = KHEAPSTART
      BY <2>1
    <3>3. Moves(mem, phys, mem', phys', k) /\ k < MAXHEAP
      BY <2>1, <3>1, <3>2, AllocStep
    <3> QED
      BY <2>2, <3>1, <3>2, <3>3
  <2>4. ASSUME loop.op \in {"mmap", "munmap"}, loop.addr < loop.start + loop.size
        PROVE  loop.addr \in Nat /\ loop.addr < MAXHEAP
    <3>1. InLoop
      BY <2>1, <2>4, LoopIs
    <3> QED
      BY <2>1, <2>4, <3>1, LoopPage
  <2>5. CASE MmapPage
    <3>1. loop.op = "mmap" /\ loop.addr < loop.start + loop.size /\ AllocAt(loop.addr)
      BY <2>5 DEF MmapPage
    <3>2. PICK k \in Nat : k = loop.addr /\ k < MAXHEAP
      BY <2>4, <3>1
    <3>3. AllocAt(k)
      BY <3>1, <3>2
    <3>4. Moves(mem, phys, mem', phys', k)
      BY <2>1, <3>3, AllocStep
    <3> QED
      BY <2>2, <3>1, <3>2, <3>4
  <2>6. CASE MunmapPage
    <3>1. loop.op = "munmap" /\ loop.addr < loop.start + loop.size
      BY <2>6 DEF MunmapPage
    <3>2. PICK k \in Nat : k = loop.addr /\ k < MAXHEAP
      BY <2>4, <3>1
    <3>3. Moves(mem, phys, mem', phys', k)
      BY <2>1, <2>6, <3>2, UnmapStep
    <3> QED
      BY <2>2, <3>1, <3>2, <3>3
  <2>7. CASE AllocPageNull
    <3>1. AllocAt(Null) /\ Null \in Nat
      BY <2>7 DEF AllocPageNull, Null
    <3>2. phys' = phys
      BY <2>1, <3>1, AllocStep
    <3> QED
      BY <3>2
  <2>8. CASE \/ \E n \in Sizes : Mmap(n)
             \/ MmapReturn
             \/ \E r \in live : Munmap(r)
             \/ MunmapReturn
    <3>1. phys' = phys
      BY <2>8 DEF Mmap, MmapReturn, Munmap, MunmapReturn
    <3> QED
      BY <3>1
  <2> HIDE DEF Kept
  <2> QED
    BY <1>1, <2>3, <2>5, <2>6, <2>7, <2>8 DEF Next
<1>2. VInv /\ [Next]_vars => [Kept]_vars
  BY <1>1
<1>3. OtherPagesKept <=> [][Kept]_vars
  BY DEF OtherPagesKept
<1> QED
  BY <1>2, <1>3, VmmInvariant, PTL DEF Spec

=============================================================================
