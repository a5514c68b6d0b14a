-------------------------- MODULE FrameAllocProofs --------------------------
(***************************************************************************)
(* Proofs about FrameAlloc for every list address, number of slots, word    *)
(* size and memory map that satisfy ListAssumption and RegionAssumption:    *)
(* the invariants of the frame list, the action property NeverTwice, and    *)
(* that the words of the list implement FrameStack.                         *)
(***************************************************************************)
EXTENDS FrameAlloc, Sequences, TLAPS

-----------------------------------------------------------------------------
(* The inductive invariant.                                                 *)

\* Frames in callers' hands are pages of the region, after exhaustion too.
HeldInRegion == held \subseteq RegionFrames(region)

\* The fill starts at the first page, and nobody holds a frame before it ends.
Unused ==
  /\ pc = "start" => x = 0
  /\ pc # "ready" => held = {} /\ ~spent

\* add_frame_region has pushed the pages of the region one after the other,
\* and the slots it has still to write exist.
Filling ==
  pc = "fill" =>
    /\ Used <= FRAME_CAP
    /\ x = PAGE * Used
    /\ \A i \in 0 .. Used - 1 : mem[Slot(i)] = region.base + PAGE * i

\* The states of an exhausted list: empty for good; nextFree about to hand out
\* its own address; and having done so.
AfterEmpty ==
  spent => \/ ret = Null /\ mem[NEXTFREE] = Null
           \/ ret = Null /\ mem[NEXTFREE] = NEXTFREE /\ mem[HEAD] = NUMFRAMES
           \/ ret = NEXTFREE /\ mem[NEXTFREE] = Null

IInv ==
  /\ TypeOK
  /\ ListShape
  /\ OneOwner
  /\ HeldInRegion
  /\ Unused
  /\ Filling
  /\ AfterEmpty

-----------------------------------------------------------------------------
(* What the list operations do to the words of the list.                    *)

\* uint64_t arithmetic that does not wrap.
LEMMA ModSmall ==
  ASSUME NEW a \in Nat, NEW m \in Nat, a < m
  PROVE  a % m = a
BY SMT

\* Subtracting one from a nonzero uint64_t.
LEMMA ModLess ==
  ASSUME NEW a \in Nat, NEW m \in Nat, a > 0, a <= m
  PROVE  (a + m - 1) % m = a - 1
BY SMT

\* The fields and the slots of the list are different words.
LEMMA WordsDistinct ==
  /\ {HEAD, NEXTFREE, NUMFRAMES} \subseteq Words
  /\ HEAD # NEXTFREE /\ HEAD # NUMFRAMES /\ NEXTFREE # NUMFRAMES
  /\ \A i \in 0 .. SLOTS - 1 : /\ Slot(i) \in Words
                               /\ Slot(i) \notin {HEAD, NEXTFREE, NUMFRAMES}
  /\ \A i, j \in Nat : i # j => Slot(i) # Slot(j)
  /\ \A i \in Nat : Slot(i) \in Nat /\ Slot(i + 1) = Slot(i) + 8
<1>1. /\ {HEAD, NEXTFREE, NUMFRAMES} \subseteq Words
      /\ \A i \in 0 .. SLOTS - 1 : Slot(i) \in Words
  BY DEF Words
<1>2. HEAD # NEXTFREE /\ HEAD # NUMFRAMES /\ NEXTFREE # NUMFRAMES
  BY ListAssumption DEF HEAD, NEXTFREE, NUMFRAMES
<1>3. \A i \in 0 .. SLOTS - 1 : Slot(i) \notin {HEAD, NEXTFREE, NUMFRAMES}
  BY ListAssumption DEF HEAD, NEXTFREE, NUMFRAMES, Slot
<1>4. /\ \A i, j \in Nat : i # j => Slot(i) # Slot(j)
      /\ \A i \in Nat : Slot(i) \in Nat /\ Slot(i + 1) = Slot(i) + 8
  BY ListAssumption DEF Slot
<1> QED
  BY <1>1, <1>2, <1>3, <1>4

\* push_frame_list on a well-formed list of n frames writes slot n and leaves a
\* well-formed list of n + 1 frames.
LEMMA PushWords ==
  ASSUME NEW m \in [Words -> Nat], NEW n \in 0 .. SLOTS - 1, NEW f \in Nat,
         m[HEAD] = Slot(n), m[NUMFRAMES] = n
  PROVE  LET q == push_frame_list(m, f) IN
         /\ q \in [Words -> Nat]
         /\ q[HEAD] = Slot(n + 1) /\ q[NEXTFREE] = Slot(n) /\ q[NUMFRAMES] = n + 1
         /\ q[Slot(n)] = f
         /\ \A i \in 0 .. SLOTS - 1 : i # n => q[Slot(i)] = m[Slot(i)]
<1>1. (n + 1) % WORDMOD = n + 1
  BY ModSmall, ListAssumption
<1>2. n \in Nat /\ n + 1 \in Nat /\ n \in 0 .. SLOTS - 1
  BY ListAssumption
<1> DEFINE q == push_frame_list(m, f)
<1>3. q = [m EXCEPT ![NEXTFREE] = Slot(n), ![Slot(n)] = f, ![NUMFRAMES] = n + 1,
                    ![HEAD] = Slot(n) + 8]
  BY <1>1, WordsDistinct DEF push_frame_list
<1> HIDE DEF q
<1>4. /\ Slot(n) \in Nat /\ Slot(n) \in Words /\ Slot(n) + 8 \in Nat
      /\ Slot(n + 1) = Slot(n) + 8
      /\ Slot(n) \notin {HEAD, NEXTFREE, NUMFRAMES}
  BY <1>2, WordsDistinct
<1>5. q \in [Words -> Nat]
  BY <1>2, <1>3, <1>4
<1>6. /\ q[HEAD] = Slot(n + 1) /\ q[NEXTFREE] = Slot(n) /\ q[NUMFRAMES] = n + 1
      /\ q[Slot(n)] = f
  BY <1>3, <1>4, WordsDistinct
<1>7. ASSUME NEW i \in 0 .. SLOTS - 1, i # n
      PROVE  q[Slot(i)] = m[Slot(i)]
  <2>1. /\ Slot(i) \in Words /\ Slot(i) # Slot(n)
        /\ Slot(i) \notin {HEAD, NEXTFREE, NUMFRAMES}
    BY <1>7, <1>2, WordsDistinct
  <2> QED
    BY <2>1, <1>3
<1> QED
  BY <1>5, <1>6, <1>7 DEF q

\* pop_frame_list on a well-formed list of n > 0 frames returns slot n - 1 and
\* leaves a well-formed list of n - 1 frames.
LEMMA PopWords ==
  ASSUME NEW m \in [Words -> Nat], NEW n \in 1 .. SLOTS,
         m[HEAD] = Slot(n), m[NEXTFREE] = Slot(n) - 8, m[NUMFRAMES] = n
  PROVE  LET r == pop_frame_list(m) IN
         /\ r.mem \in [Words -> Nat]
         /\ r.ret = m[Slot(n - 1)]
         /\ r.mem[HEAD] = Slot(n - 1) /\ r.mem[NEXTFREE] = Slot(n - 1) - 8
         /\ r.mem[NUMFRAMES] = n - 1
         /\ \A i \in 0 .. SLOTS - 1 : r.mem[Slot(i)] = m[Slot(i)]
<1>1. (n + WORDMOD - 1) % WORDMOD = n - 1
  BY ModLess, ListAssumption
<1>2. /\ Slot(n) - 8 = Slot(n - 1) /\ Slot(n - 1) \in Words
      /\ Slot(n - 1) # Null /\ Slot(n - 1) - 8 # LIST
      /\ Slot(n - 1) - 8 \in Nat /\ Slot(n - 1) \in Nat
  BY ListAssumption DEF Slot, Words, Null
<1>3. Slot(n) - 8 = Slot(n - 1) /\ n - 1 \in Nat
  BY <1>2
<1> DEFINE r == pop_frame_list(m)
<1>4. /\ r.ret = m[Slot(n - 1)]
      /\ r.mem = [m EXCEPT ![NEXTFREE] = Slot(n - 1) - 8, ![NUMFRAMES] = n - 1,
                           ![HEAD] = Slot(n - 1)]
  BY <1>1, <1>2, WordsDistinct DEF pop_frame_list
<1> HIDE DEF r
<1>5. r.mem \in [Words -> Nat]
  BY <1>2, <1>3, <1>4
<1>6. /\ r.mem[HEAD] = Slot(n - 1) /\ r.mem[NEXTFREE] = Slot(n - 1) - 8
      /\ r.mem[NUMFRAMES] = n - 1
  BY <1>4, WordsDistinct
<1>7. ASSUME NEW i \in 0 .. SLOTS - 1
      PROVE  r.mem[Slot(i)] = m[Slot(i)]
  <2>1. Slot(i) \in Words /\ Slot(i) \notin {HEAD, NEXTFREE, NUMFRAMES}
    BY WordsDistinct
  <2> QED
    BY <2>1, <1>4
<1> QED
  BY <1>4, <1>5, <1>6, <1>7 DEF r

\* pop_frame_list on a well-formed list without frames returns NULL; nextFree,
\* unless it was NULL, then points at itself.
LEMMA PopEmptyWords ==
  ASSUME NEW m \in [Words -> Nat],
         m[HEAD] = Slot(0), m[NUMFRAMES] = 0,
         m[NEXTFREE] = Slot(0) - 8 \/ m[NEXTFREE] = Null
  PROVE  LET r == pop_frame_list(m) IN
         /\ r.mem \in [Words -> Nat]
         /\ r.ret = Null
         /\ \/ r.mem[NEXTFREE] = Null
            \/ r.mem[NEXTFREE] = NEXTFREE /\ r.mem[HEAD] = NUMFRAMES
<1>1. CASE m[NEXTFREE] = Null
  BY <1>1 DEF pop_frame_list
<1>2. CASE m[NEXTFREE] = Slot(0) - 8
  <2>1. /\ m[NEXTFREE] = NUMFRAMES /\ NUMFRAMES # Null
        /\ NUMFRAMES - 8 = NEXTFREE /\ NEXTFREE # LIST
        /\ Slot(0) - 8 = NUMFRAMES
        /\ NUMFRAMES \in Nat /\ NEXTFREE \in Nat
    BY <1>2, ListAssumption DEF Slot, NUMFRAMES, NEXTFREE, Null
  <2>2. (0 + WORDMOD - 1) % WORDMOD = WORDMOD - 1 /\ WORDMOD - 1 \in Nat
    BY ModSmall, ListAssumption
  <2> QED
    BY <2>1, <2>2, WordsDistinct DEF pop_frame_list, Null
<1> QED
  BY <1>1, <1>2

-----------------------------------------------------------------------------
(* One lemma per action: it preserves the inductive invariant.              *)

\* Pages the loop of add_frame_region reaches are pages of the region, and
\* physical addresses below the list.
LEMMA RegionPages ==
  ASSUME NEW r \in Regions
  PROVE  /\ r.base \in Nat /\ r.length \in Nat
         /\ \A k \in Nat : PAGE * k < r.length => r.base + PAGE * k \in RegionFrames(r)
         /\ \A f \in RegionFrames(r) : f \in Nat /\ f > 0 /\ f < LIST
<1>1. r.base \in Nat /\ r.base > 0 /\ r.length \in Nat /\ r.base + r.length + PAGE < LIST
  BY RegionAssumption
<1>2. \A k \in Nat : PAGE * k < r.length => k \in 0 .. r.length \div PAGE
  BY <1>1 DEF PAGE
<1>3. \A k \in 0 .. r.length \div PAGE : PAGE * k \in Nat /\ PAGE * k <= r.length
  BY <1>1 DEF PAGE
<1>4. ASSUME NEW f \in RegionFrames(r)
      PROVE  f \in Nat /\ f > 0 /\ f < LIST
  <2>1. PICK k \in 0 .. r.length \div PAGE : f = r.base + PAGE * k
    BY DEF RegionFrames
  <2> QED
    BY <1>1, <1>3, <2>1, ListAssumption DEF PAGE
<1>5. ASSUME NEW k \in Nat, PAGE * k < r.length
      PROVE  r.base + PAGE * k \in RegionFrames(r)
  <2>1. k \in 0 .. r.length \div PAGE
    BY <1>2, <1>5
  <2>2. r.base + PAGE * k < r.base + r.length
    BY <1>1, <1>5 DEF PAGE
  <2> QED
    BY <2>1, <2>2 DEF RegionFrames
<1> QED
  BY <1>1, <1>4, <1>5

LEMMA InitIInv == Init => IInv
<1> SUFFICES ASSUME Init PROVE IInv
  OBVIOUS
<1>1. TypeOK
  BY RegionAssumption DEF Init, TypeOK, Null
<1> QED
  BY <1>1 DEF Init, IInv, ListShape, OneOwner, HeldInRegion, Unused, Filling, AfterEmpty

LEMMA InitListIInv == IInv /\ InitList => IInv'
<1> SUFFICES ASSUME IInv, InitList PROVE IInv'
  OBVIOUS
<1>1. /\ mem' = [mem EXCEPT ![NEXTFREE] = Null, ![HEAD] = Slot(0), ![NUMFRAMES] = 0]
      /\ mem \in [Words -> Nat] /\ Slot(0) \in Nat
  BY WordsDistinct DEF InitList, init_frame_list, IInv, TypeOK
<1>2. /\ mem' \in [Words -> Nat]
      /\ mem'[HEAD] = Slot(0) /\ mem'[NEXTFREE] = Null /\ mem'[NUMFRAMES] = 0
  BY <1>1, WordsDistinct DEF Null
<1>3. TypeOK'
  BY <1>2 DEF IInv, TypeOK, InitList
<1>4. ListShape'
  BY <1>2, ListAssumption DEF ListShape, Used
<1>5. held = {} /\ ~spent /\ held' = {} /\ ~spent' /\ pc' = "fill" /\ x' = x
  BY DEF IInv, Unused, InitList
<1>6. OneOwner'
  BY <1>2, <1>5 DEF OneOwner, OnList, Used
<1>7. x = 0
  BY DEF IInv, Unused, InitList
<1>8. Filling'
  BY <1>2, <1>5, <1>7, RegionAssumption DEF Filling, Used, PAGE
<1> QED
  BY <1>3, <1>4, <1>5, <1>6, <1>8 DEF IInv, HeldInRegion, Unused, AfterEmpty

LEMMA AddFrameIInv == IInv /\ AddFrame => IInv'
<1> SUFFICES ASSUME IInv, AddFrame PROVE IInv'
  OBVIOUS
<1> DEFINE n == Used
           f == region.base + x
<1>1. /\ mem \in [Words -> Nat] /\ region \in Regions /\ x \in Nat
      /\ pc = "fill" /\ ~spent /\ held = {} /\ x < region.length
      /\ region' = region /\ ret' = ret /\ held' = held /\ spent' = spent
      /\ mem' = push_frame_list(mem, f)
  BY DEF IInv, TypeOK, Unused, AddFrame
<1>2. /\ n \in 0 .. SLOTS - 1 /\ n <= FRAME_CAP /\ x = PAGE * n
      /\ mem[HEAD] = Slot(n) /\ mem[NUMFRAMES] = n
      /\ \A i \in 0 .. n - 1 : mem[Slot(i)] = region.base + PAGE * i
  BY <1>1, RegionAssumption, ListAssumption DEF IInv, ListShape, Filling, Used
<1>3. region.base \in Nat /\ f \in Nat /\ region.length \in Nat
  BY <1>1, RegionPages
<1> HIDE DEF n
<1>4. /\ mem' \in [Words -> Nat]
      /\ mem'[HEAD] = Slot(n + 1) /\ mem'[NEXTFREE] = Slot(n) /\ mem'[NUMFRAMES] = n + 1
      /\ mem'[Slot(n)] = f
      /\ \A i \in 0 .. SLOTS - 1 : i # n => mem'[Slot(i)] = mem[Slot(i)]
  BY <1>1, <1>2, <1>3, PushWords
<1>5. \A i \in 0 .. n : mem'[Slot(i)] = region.base + PAGE * i
  BY <1>2, <1>4, ListAssumption
<1>6. /\ x' \in Nat
      /\ \/ pc' = "ready" /\ x' = x
         \/ pc' = "fill" /\ x' = x + PAGE /\ n + 1 <= FRAME_CAP
  BY <1>1, <1>2, <1>4, RegionAssumption DEF AddFrame, PAGE
<1>7. TypeOK'
  BY <1>1, <1>4, <1>6 DEF IInv, TypeOK
<1>8. ListShape'
  BY <1>2, <1>4, WordsDistinct, ListAssumption DEF ListShape, Used
<1>9. OneOwner'
  <2>1. \A i, j \in 0 .. n : i # j => mem'[Slot(i)] # mem'[Slot(j)]
    BY <1>2, <1>3, <1>5 DEF PAGE
  <2>2. \A i \in 0 .. n : region.base + PAGE * i \in RegionFrames(region)
    <3>1. \A i \in 0 .. n : i \in Nat /\ PAGE * i < region.length
      BY <1>1, <1>2, <1>3 DEF PAGE
    <3> QED
      BY <3>1, <1>1, RegionPages
  <2>3. (n + 1) - 1 = n
    BY <1>2
  <2> QED
    BY <1>1, <1>4, <1>5, <2>1, <2>2, <2>3 DEF OneOwner, OnList, Used
<1>10. Filling'
  BY <1>1, <1>2, <1>4, <1>5, <1>6 DEF Filling, Used, PAGE
<1> QED
  BY <1>1, <1>6, <1>7, <1>8, <1>9, <1>10 DEF IInv, HeldInRegion, Unused, AfterEmpty

LEMMA EndRegionIInv == IInv /\ EndRegion => IInv'
BY DEF IInv, TypeOK, ListShape, OneOwner, HeldInRegion, Unused, Filling, AfterEmpty,
       EndRegion, OnList, Used

LEMMA PushIInv == ASSUME NEW f \in held, IInv, Push(f) PROVE IInv'
<1> DEFINE n == Used
<1>1. /\ mem \in [Words -> Nat] /\ region \in Regions /\ f \in Nat
      /\ pc = "ready" /\ ~spent
      /\ UNCHANGED <<region, pc, x, ret, spent>>
      /\ held' = held \ {f} /\ mem' = push_frame_list(mem, f)
      /\ mem[HEAD] \in Words
  BY DEF IInv, TypeOK, Push
<1>2. n \in 0 .. SLOTS /\ mem[HEAD] = Slot(n) /\ mem[NUMFRAMES] = n
  BY <1>1 DEF IInv, ListShape, Used
<1> HIDE DEF n
<1>3. n \in 0 .. SLOTS - 1
  <2>1. Slot(SLOTS) \notin Words
    BY ListAssumption DEF Words, HEAD, NEXTFREE, NUMFRAMES, Slot
  <2> QED
    BY <1>1, <1>2, <2>1, ListAssumption
<1>4. /\ mem' \in [Words -> Nat]
      /\ mem'[HEAD] = Slot(n + 1) /\ mem'[NEXTFREE] = Slot(n) /\ mem'[NUMFRAMES] = n + 1
      /\ mem'[Slot(n)] = f
      /\ \A i \in 0 .. SLOTS - 1 : i # n => mem'[Slot(i)] = mem[Slot(i)]
  BY <1>1, <1>2, <1>3, PushWords
<1>5. \A i \in 0 .. n - 1 : i \in 0 .. SLOTS - 1 /\ mem'[Slot(i)] = mem[Slot(i)]
  BY <1>3, <1>4, ListAssumption
<1>6. /\ \A i, j \in 0 .. n - 1 : i # j => mem[Slot(i)] # mem[Slot(j)]
      /\ \A i \in 0 .. n - 1 : mem[Slot(i)] \notin held /\ mem[Slot(i)] \in RegionFrames(region)
      /\ held \subseteq RegionFrames(region)
  BY <1>1, <1>2 DEF IInv, OneOwner, OnList, Used
<1>7. TypeOK'
  BY <1>1, <1>4 DEF IInv, TypeOK
<1>8. ListShape'
  BY <1>3, <1>4, WordsDistinct, ListAssumption DEF ListShape, Used
<1>9. OneOwner'
  <2>1. \A i \in 0 .. n : i \in 0 .. n - 1 \/ i = n
    BY <1>3
  <2>2. \A i, j \in 0 .. n : i # j => mem'[Slot(i)] # mem'[Slot(j)]
    BY <1>4, <1>5, <1>6, <2>1
  <2>3. \A i \in 0 .. n : mem'[Slot(i)] \notin held' /\ mem'[Slot(i)] \in RegionFrames(region)
    BY <1>1, <1>4, <1>5, <1>6, <2>1
  <2>4. Used' - 1 = n
    BY <1>3, <1>4 DEF Used
  <2>5. OnList' \cap held' = {} /\ OnList' \cup held' \subseteq RegionFrames(region)
    BY <1>1, <1>6, <2>3, <2>4 DEF OnList
  <2> QED
    BY <1>1, <2>2, <2>4, <2>5 DEF OneOwner
<1> QED
  BY <1>1, <1>6, <1>7, <1>8, <1>9 DEF IInv, HeldInRegion, Unused, Filling, AfterEmpty

\* The three cases of a pop: frames left, none left, and an exhausted list.
LEMMA PopIInv == IInv /\ Pop => IInv' /\ ret' \notin held
<1> SUFFICES ASSUME IInv, Pop PROVE IInv' /\ ret' \notin held
  OBVIOUS
<1> DEFINE n == Used
           r == pop_frame_list(mem)
<1>1. /\ mem \in [Words -> Nat] /\ region \in Regions /\ pc = "ready"
      /\ UNCHANGED <<region, pc, x>>
      /\ mem' = r.mem /\ ret' = r.ret
      /\ held' = IF spent \/ r.ret = Null THEN held ELSE held \cup {r.ret}
      /\ spent' = (spent \/ r.ret = Null)
      /\ held \subseteq RegionFrames(region) /\ held \subseteq Nat
      /\ spent \in BOOLEAN
  BY DEF IInv, TypeOK, HeldInRegion, Pop
<1>2. /\ Null \notin held /\ NEXTFREE \notin held
      /\ \A g \in RegionFrames(region) : g \in Nat /\ g # Null
  BY <1>1, RegionPages, ListAssumption DEF Null, NEXTFREE
<1> HIDE DEF r
<1>3. ASSUME TypeOK', HeldInRegion', pc' = "ready", spent' => AfterEmpty',
             ~spent' => ListShape' /\ OneOwner'
      PROVE  IInv'
  BY <1>3 DEF IInv, ListShape, OneOwner, Unused, Filling, AfterEmpty
<1>4. CASE spent
  <2>1. \/ r.ret = Null /\ r.mem = mem /\ mem[NEXTFREE] = Null
        \/ /\ r.ret = NEXTFREE /\ r.mem[NEXTFREE] = Null
           /\ r.mem \in [Words -> Nat]
    <3>1. CASE mem[NEXTFREE] = Null
      BY <3>1 DEF r, pop_frame_list
    <3>2. CASE mem[NEXTFREE] # Null
      <4>1. mem[NEXTFREE] = NEXTFREE /\ mem[HEAD] = NUMFRAMES
        BY <1>4, <3>2 DEF IInv, AfterEmpty
      <4>2. /\ NEXTFREE - 8 = LIST /\ NUMFRAMES - 8 \in Nat /\ Null \in Nat
            /\ (mem[NUMFRAMES] + WORDMOD - 1) % WORDMOD \in Nat
        <5>1. mem[NUMFRAMES] \in Nat /\ WORDMOD \in Nat /\ WORDMOD > 0
          BY <1>1, WordsDistinct, ListAssumption
        <5> QED
          BY <5>1, ListAssumption DEF NEXTFREE, NUMFRAMES, Null
      <4> QED
        BY <1>1, <3>2, <4>1, <4>2, WordsDistinct DEF r, pop_frame_list
    <3> QED
      BY <3>1, <3>2
  <2>2. /\ mem' \in [Words -> Nat] /\ ret' \in Nat /\ ret' \notin held /\ AfterEmpty'
        /\ held' = held /\ spent' = TRUE
    <3>1. held' = held /\ spent' = TRUE
      BY <1>1, <1>4
    <3>2. Null \in Nat /\ NEXTFREE \in Nat
      BY ListAssumption DEF Null, NEXTFREE
    <3>3. mem' \in [Words -> Nat] /\ ret' \in {Null, NEXTFREE} /\ mem'[NEXTFREE] = Null
      BY <1>1, <2>1
    <3> QED
      BY <1>2, <3>1, <3>2, <3>3 DEF AfterEmpty
  <2>3. TypeOK' /\ HeldInRegion'
    BY <1>1, <2>2 DEF IInv, TypeOK, HeldInRegion
  <2> QED
    BY <1>1, <1>3, <2>2, <2>3
<1>5. CASE ~spent /\ n = 0
  <2>1. /\ mem[HEAD] = Slot(0) /\ mem[NUMFRAMES] = 0
        /\ mem[NEXTFREE] = Slot(0) - 8 \/ mem[NEXTFREE] = Null
    BY <1>1, <1>5 DEF IInv, ListShape, Used
  <2>2. /\ r.mem \in [Words -> Nat] /\ r.ret = Null
        /\ \/ r.mem[NEXTFREE] = Null
           \/ r.mem[NEXTFREE] = NEXTFREE /\ r.mem[HEAD] = NUMFRAMES
    BY <1>1, <2>1, PopEmptyWords DEF r
  <2>3. /\ ret' = Null /\ ret' \notin held /\ spent' = TRUE /\ held' = held /\ AfterEmpty'
    BY <1>1, <1>2, <2>2 DEF AfterEmpty
  <2>4. TypeOK' /\ HeldInRegion'
    BY <1>1, <2>2, <2>3 DEF IInv, TypeOK, HeldInRegion, Null
  <2> QED
    BY <1>1, <1>3, <2>3, <2>4
<1>6. CASE ~spent /\ n # 0
  <2>1. /\ n \in 1 .. SLOTS /\ mem[NUMFRAMES] = n
        /\ mem[HEAD] = Slot(n) /\ mem[NEXTFREE] = Slot(n) - 8
    BY <1>1, <1>6, ListAssumption DEF IInv, ListShape, Used
  <2>2. /\ \A i, j \in 0 .. n - 1 : i # j => mem[Slot(i)] # mem[Slot(j)]
        /\ \A i \in 0 .. n - 1 : mem[Slot(i)] \notin held /\ mem[Slot(i)] \in RegionFrames(region)
    BY <1>1, <1>6 DEF IInv, OneOwner, OnList
  <2> HIDE DEF n
  <2>3. /\ mem' \in [Words -> Nat]
        /\ ret' = mem[Slot(n - 1)]
        /\ mem'[HEAD] = Slot(n - 1) /\ mem'[NEXTFREE] = Slot(n - 1) - 8
        /\ mem'[NUMFRAMES] = n - 1
        /\ \A i \in 0 .. SLOTS - 1 : mem'[Slot(i)] = mem[Slot(i)]
    BY <1>1, <2>1, PopWords DEF r
  <2>4. n - 1 \in 0 .. n - 1 /\ \A i \in 0 .. n - 2 : i \in 0 .. n - 1 /\ i # n - 1
    BY <2>1
  <2>5. \A i \in 0 .. n - 1 : i \in 0 .. SLOTS - 1 /\ mem'[Slot(i)] = mem[Slot(i)]
    BY <2>1, <2>3, ListAssumption
  <2>6. /\ ret' \in Nat /\ ret' # Null /\ ret' \notin held /\ ret' \in RegionFrames(region)
    BY <1>2, <2>2, <2>3, <2>4
  <2>7. ~spent' /\ held' = held \cup {ret'}
    BY <1>1, <1>6, <2>6
  <2>8. TypeOK' /\ HeldInRegion'
    BY <1>1, <2>3, <2>6, <2>7 DEF IInv, TypeOK, HeldInRegion
  <2>9. ListShape'
    BY <2>1, <2>3, ListAssumption DEF ListShape, Used
  <2>10. OneOwner'
    <3>1. Used' - 1 = n - 2
      BY <2>1, <2>3 DEF Used
    <3>2. \A i, j \in 0 .. n - 2 : i # j => mem'[Slot(i)] # mem'[Slot(j)]
      BY <2>2, <2>4, <2>5
    <3>3. \A i \in 0 .. n - 2 : mem'[Slot(i)] \notin held' /\ mem'[Slot(i)] \in RegionFrames(region)
      BY <2>2, <2>3, <2>4, <2>5, <2>7
    <3>4. OnList' \cap held' = {} /\ OnList' \cup held' \subseteq RegionFrames(region)
      BY <1>1, <2>6, <2>7, <3>1, <3>3 DEF OnList
    <3> QED
      BY <1>1, <3>1, <3>2, <3>4 DEF OneOwner
  <2> QED
    BY <1>1, <1>3, <2>6, <2>7, <2>8, <2>9, <2>10
<1> QED
  BY <1>1, <1>4, <1>5, <1>6

-----------------------------------------------------------------------------
(* The theorems.                                                            *)

\* IInv is an invariant of the frame allocator.
THEOREM Invariant == Spec => []IInv
<1>1. Init => IInv
  BY InitIInv
<1>2. IInv /\ [Next]_vars => IInv'
  <2> SUFFICES ASSUME IInv, [Next]_vars PROVE IInv'
    OBVIOUS
  <2>1. CASE InitList
    BY <2>1, InitListIInv
  <2>2. CASE AddFrame
    BY <2>2, AddFrameIInv
  <2>3. CASE EndRegion
    BY <2>3, EndRegionIInv
  <2>4. CASE Pop
    BY <2>4, PopIInv
  <2>5. CASE \E f \in held : Push(f)
    BY <2>5, PushIInv
  <2>6. CASE UNCHANGED vars
    BY <2>6 DEF vars, IInv, TypeOK, ListShape, OneOwner, HeldInRegion, Unused,
                Filling, AfterEmpty, OnList, Used
  <2> QED
    BY <2>1, <2>2, <2>3, <2>4, <2>5, <2>6 DEF Next
<1> QED
  BY <1>1, <1>2, PTL DEF Spec

\* Type correctness of the frame allocator.
THEOREM TypeCorrect == Spec => []TypeOK
<1>1. IInv => TypeOK
  BY DEF IInv
<1> QED
  BY <1>1, Invariant, PTL

\* The fields of struct FreeFrameList agree with each other until a pop has found
\* the list empty.
THEOREM ListSafe == Spec => []ListShape
<1>1. IInv => ListShape
  BY DEF IInv
<1> QED
  BY <1>1, Invariant, PTL

\* No frame is on the list twice, or on it and held by a caller of
\* pop_frame_list, until a pop has found the list empty.
THEOREM OneOwnerEach == Spec => []OneOwner
<1>1. IInv => OneOwner
  BY DEF IInv
<1> QED
  BY <1>1, Invariant, PTL

\* An exhausted list hands out NULL, and its own address at most once.
THEOREM ExhaustedSafe == Spec => []Exhausted
<1>1. IInv => Exhausted
  BY DEF IInv, AfterEmpty, Exhausted
<1> QED
  BY <1>1, Invariant, PTL

\* pop_frame_list never returns a frame that a caller holds.
THEOREM NoFrameTwice == Spec => NeverTwice
<1>1. IInv /\ [Next]_vars => [Pop => ret' \notin held]_vars
  BY PopIInv
<1> QED
  BY <1>1, Invariant, PTL DEF Spec, NeverTwice

-----------------------------------------------------------------------------
(* Refinement of FrameStack.                                                *)

\* Pushing onto n slots appends to the sequence they form.
LEMMA SlotsAppend ==
  ASSUME NEW n \in Nat, NEW m, NEW q, NEW f \in Nat,
         \A i \in 0 .. n - 1 : m[Slot(i)] \in Nat /\ q[Slot(i)] = m[Slot(i)],
         q[Slot(n)] = f
  PROVE  [i \in 1 .. n + 1 |-> q[Slot(i - 1)]] = Append([i \in 1 .. n |-> m[Slot(i - 1)]], f)
OBVIOUS

\* Popping slot n removes the last element.
LEMMA SlotsFront ==
  ASSUME NEW n \in Nat, n > 0, NEW m, NEW q,
         \A i \in 0 .. n - 1 : m[Slot(i)] \in Nat /\ q[Slot(i)] = m[Slot(i)]
  PROVE  LET s == [i \in 1 .. n |-> m[Slot(i - 1)]] IN
         /\ Len(s) = n /\ s[Len(s)] = m[Slot(n - 1)]
         /\ [i \in 1 .. n - 1 |-> q[Slot(i - 1)]] = SubSeq(s, 1, Len(s) - 1)
OBVIOUS

\* A push is a push of the stack.
LEMMA PushRefines ==
  ASSUME IInv, pc \in {"fill", "ready"}, ~spent, spent' = spent, pc' # "start", ret' = ret,
         NEW f \in UNION {RegionFrames(r) : r \in Regions},
         f \notin OnList, Used < SLOTS, mem' = push_frame_list(mem, f)
  PROVE  Stack!SNext
<1> DEFINE n == Used
<1>1. /\ mem \in [Words -> Nat] /\ n \in 0 .. SLOTS - 1 /\ n \in Nat
      /\ mem[HEAD] = Slot(n) /\ mem[NUMFRAMES] = n
  BY ListAssumption DEF IInv, TypeOK, ListShape, Used
<1>2. f \in Nat
  BY RegionPages
<1>3. f \notin {mem[Slot(i)] : i \in 0 .. n - 1}
  BY DEF OnList
<1>4. SlotStack = [i \in 1 .. n |-> mem[Slot(i - 1)]]
  BY DEF SlotStack
<1> HIDE DEF n
<1>5. /\ mem'[NUMFRAMES] = n + 1 /\ mem'[Slot(n)] = f
      /\ \A i \in 0 .. SLOTS - 1 : i # n => mem'[Slot(i)] = mem[Slot(i)]
  BY <1>1, <1>2, PushWords
<1>6. ASSUME NEW i \in 0 .. n - 1
      PROVE  mem[Slot(i)] \in Nat /\ mem'[Slot(i)] = mem[Slot(i)]
  <2>1. i \in 0 .. SLOTS - 1 /\ i # n
    BY <1>1, ListAssumption
  <2> QED
    BY <2>1, <1>1, <1>5, WordsDistinct
<1>7. SlotStack' = [i \in 1 .. n + 1 |-> mem'[Slot(i - 1)]]
  BY <1>5 DEF SlotStack, Used
<1>8. SlotStack' = Append(SlotStack, f)
  BY <1>1, <1>2, <1>4, <1>5, <1>6, <1>7, SlotsAppend
<1>9. \A i \in 1 .. Len(SlotStack) : SlotStack[i] # f
  BY <1>1, <1>3, <1>4
<1> QED
  BY <1>8, <1>9 DEF Stack!SNext, Stack!SPush

\* A pop is a pop of the stack, the discovery that it is empty, or a step after
\* which nothing is promised.
LEMMA PopRefines == IInv /\ IInv' /\ Pop => Stack!SNext
<1> SUFFICES ASSUME IInv, IInv', Pop PROVE Stack!SNext
  OBVIOUS
<1> DEFINE n == Used
           r == pop_frame_list(mem)
<1>1. /\ mem \in [Words -> Nat] /\ pc = "ready" /\ pc' = "ready" /\ spent \in BOOLEAN
      /\ mem' = r.mem /\ ret' = r.ret /\ spent' = (spent \/ r.ret = Null)
      /\ ret' \in Nat
  BY DEF IInv, TypeOK, Pop
<1> HIDE DEF r
<1>2. CASE spent
  <2>1. spent' /\ spent' = spent /\ SlotStack = << >> /\ SlotStack' = << >>
    BY <1>1, <1>2 DEF SlotStack
  <2> QED
    BY <1>1, <1>2, <2>1 DEF Stack!SNext, Stack!SAfterwards
<1>3. CASE ~spent /\ n = 0
  <2>1. /\ mem[HEAD] = Slot(0) /\ mem[NUMFRAMES] = 0
        /\ mem[NEXTFREE] = Slot(0) - 8 \/ mem[NEXTFREE] = Null
    BY <1>1, <1>3 DEF IInv, ListShape, Used
  <2>2. r.ret = Null
    BY <1>1, <2>1, PopEmptyWords DEF r
  <2>3. spent' = TRUE /\ ret' = 0
    BY <1>1, <2>2 DEF Null
  <2>4. SlotStack = << >>
    BY <1>1, <1>3 DEF SlotStack
  <2>5. SlotStack' = << >>
    BY <2>3 DEF SlotStack
  <2> QED
    BY <1>3, <2>3, <2>4, <2>5 DEF Stack!SNext, Stack!SEmpty
<1>4. CASE ~spent /\ n # 0
  <2>1. /\ n \in 1 .. SLOTS /\ n \in Nat /\ n > 0 /\ mem[NUMFRAMES] = n
        /\ mem[HEAD] = Slot(n) /\ mem[NEXTFREE] = Slot(n) - 8
    BY <1>1, <1>4, ListAssumption DEF IInv, ListShape, Used
  <2>2. SlotStack = [i \in 1 .. n |-> mem[Slot(i - 1)]]
    BY <1>1, <1>4 DEF SlotStack
  <2>3. mem[Slot(n - 1)] # Null
    <3>1. region \in Regions /\ mem[Slot(n - 1)] \in RegionFrames(region)
      BY <1>1, <1>4, <2>1 DEF IInv, TypeOK, OneOwner, OnList
    <3> QED
      BY <3>1, RegionPages DEF Null
  <2> HIDE DEF n
  <2>4. /\ ret' = mem[Slot(n - 1)] /\ mem'[NUMFRAMES] = n - 1
        /\ \A i \in 0 .. SLOTS - 1 : mem'[Slot(i)] = mem[Slot(i)]
    BY <1>1, <2>1, PopWords DEF r
  <2>5. ~spent' /\ spent' = spent
    BY <1>1, <1>4, <2>3, <2>4
  <2>6. SlotStack' = [i \in 1 .. n - 1 |-> mem'[Slot(i - 1)]]
    BY <1>1, <2>4, <2>5 DEF SlotStack, Used
  <2>7. ASSUME NEW i \in 0 .. n - 1
        PROVE  mem[Slot(i)] \in Nat /\ mem'[Slot(i)] = mem[Slot(i)]
    <3>1. i \in 0 .. SLOTS - 1
      BY <2>1, ListAssumption
    <3> QED
      BY <3>1, <1>1, <2>4, WordsDistinct
  <2>8. /\ Len(SlotStack) = n /\ SlotStack[Len(SlotStack)] = mem[Slot(n - 1)]
        /\ SlotStack' = SubSeq(SlotStack, 1, Len(SlotStack) - 1)
    BY <2>1, <2>2, <2>6, <2>7, SlotsFront
  <2> QED
    BY <1>4, <2>1, <2>4, <2>5, <2>8 DEF Stack!SNext, Stack!SPop
<1> QED
  BY <1>1, <1>2, <1>3, <1>4

\* Refinement: framealloc.c implements the stack that FrameStack promises.
THEOREM Refinement == Spec => IsStack
<1>1. Init => Stack!SInit
  BY DEF Init, Stack!SInit, SlotStack, Null
<1>2. IInv /\ IInv' /\ [Next]_vars => [Stack!SNext]_Stack!svars
  <2> SUFFICES ASSUME IInv, IInv', [Next]_vars
               PROVE  Stack!SNext \/ UNCHANGED Stack!svars
    BY DEF Stack!svars
  <2>1. CASE InitList
    <3>1. mem'[NUMFRAMES] = 0
      BY <2>1, WordsDistinct DEF IInv, TypeOK, InitList, init_frame_list
    <3>2. SlotStack = << >> /\ SlotStack' = << >>
      BY <2>1, <3>1 DEF SlotStack, Used, InitList
    <3> QED
      BY <2>1, <3>2 DEF InitList, Stack!svars
  <2>2. CASE AddFrame
    <3> DEFINE f == region.base + x
    <3>1. /\ pc = "fill" /\ ~spent /\ spent' = spent /\ pc' # "start" /\ ret' = ret
          /\ region \in Regions /\ x \in Nat /\ x < region.length /\ x = PAGE * Used
          /\ Used \in 0 .. SLOTS /\ Used <= FRAME_CAP
          /\ mem' = push_frame_list(mem, f)
          /\ \A i \in 0 .. Used - 1 : mem[Slot(i)] = region.base + PAGE * i
      BY <2>2 DEF IInv, TypeOK, Unused, ListShape, Filling, AddFrame
    <3>2. f \in RegionFrames(region) /\ region.base \in Nat
      BY <3>1, RegionPages
    <3>3. f \notin OnList /\ Used < SLOTS
      BY <3>1, <3>2, RegionAssumption, ListAssumption DEF OnList, PAGE
    <3> QED
      BY <3>1, <3>2, <3>3, PushRefines
  <2>3. CASE EndRegion
    BY <2>3 DEF EndRegion, Stack!svars, SlotStack, Used
  <2>4. CASE Pop
    BY <2>4, PopRefines
  <2>5. CASE \E f \in held : Push(f)
    <3>1. PICK f \in held : Push(f)
      BY <2>5
    <3>2. /\ pc = "ready" /\ ~spent /\ spent' = spent /\ pc' # "start" /\ ret' = ret
          /\ mem' = push_frame_list(mem, f) /\ mem[HEAD] \in Words
          /\ Used \in 0 .. SLOTS /\ mem[HEAD] = Slot(Used)
          /\ f \notin OnList /\ f \in RegionFrames(region) /\ region \in Regions
      BY <3>1 DEF IInv, TypeOK, ListShape, OneOwner, Push
    <3>3. Used < SLOTS
      <4>1. Slot(SLOTS) \notin Words
        BY ListAssumption DEF Words, HEAD, NEXTFREE, NUMFRAMES, Slot
      <4> QED
        BY <3>2, <4>1, ListAssumption
    <3> QED
      BY <3>2, <3>3, PushRefines
  <2>6. CASE UNCHANGED vars
    BY <2>6 DEF vars, Stack!svars, SlotStack, Used
  <2> QED
    BY <2>1, <2>2, <2>3, <2>4, <2>5, <2>6 DEF Next
<1> QED
  BY <1>1, <1>2, Invariant, PTL DEF Spec, IsStack, Stack!StackSpec

=============================================================================
