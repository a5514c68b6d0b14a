------------------------------ MODULE FrameList ------------------------------
(***************************************************************************)
(* The free-frame list of memory/framealloc.c as the 64-bit words it        *)
(* occupies.  struct FreeFrameList { head; nextFree; numFrames } lies at     *)
(* address LIST and the slots that hold physical frame addresses follow it   *)
(* directly, so that a pointer that walks below the first slot lands on the  *)
(* list's own fields.  Addresses are byte addresses, every word is 8 bytes.  *)
(* The operators take the memory image m of the list and return the image    *)
(* the C function leaves behind; FrameAlloc and Vmm build actions from them. *)
(***************************************************************************)
EXTENDS Integers

CONSTANTS
  LIST,     \* virtual address of the list (kernel.c places it in entries[1])
  SLOTS,    \* bound: number of slot words that are part of the model
  WORDMOD   \* number of values of a uint64_t, 2^64 in the code

ASSUME ListAssumption ==
  /\ LIST \in Nat /\ LIST > 0
  /\ SLOTS \in Nat
  /\ WORDMOD \in Nat /\ WORDMOD > LIST + 8 * SLOTS + 32

Null == 0

HEAD      == LIST        \* offset of head in struct FreeFrameList
NEXTFREE  == LIST + 8    \* offset of nextFree
NUMFRAMES == LIST + 16   \* offset of numFrames
Slot(i)   == LIST + 24 + 8 * i   \* i-th struct PhysFrame, i from 0

Words == {HEAD, NEXTFREE, NUMFRAMES} \cup {Slot(i) : i \in 0 .. SLOTS - 1}

\* The assignments of init_frame_list that precede its call of
\* add_frame_region; the slots keep whatever the memory held.
init_frame_list(m) ==
  [m EXCEPT ![NEXTFREE] = Null, ![HEAD] = Slot(0), ![NUMFRAMES] = 0]

\* Mutant of push_frame_list: head advances by eight slots, as typed pointer
\* arithmetic with sizeof would.
PushScaled(m, physAddress) ==
  [m EXCEPT ![NEXTFREE]  = m[HEAD],
            ![m[HEAD]]   = physAddress,
            ![NUMFRAMES] = (@ + 1) % WORDMOD,
            ![HEAD]      = m[HEAD] + 64]

\* nextFree = head; nextFree->physAddress = physAddress; numFrames += 1;
\* head = nextFree + sizeof(struct PhysFrame).
push_frame_list(m, physAddress) ==
  [m EXCEPT ![NEXTFREE]  = m[HEAD],
            ![m[HEAD]]   = physAddress,
            ![NUMFRAMES] = (@ + 1) % WORDMOD,
            ![HEAD]      = m[HEAD] + 8]

\* Mutants of pop_frame_list, which all take the same form: given the address
\* read, the new nextFree and the new numFrames.
PopForm(m, addr, nextFree, numFrames) ==
  IF m[NEXTFREE] = Null
  THEN [ret |-> Null, mem |-> m]
  ELSE [ret |-> m[addr],
        mem |-> [m EXCEPT ![NEXTFREE] = nextFree, ![NUMFRAMES] = numFrames, ![HEAD] = @ - 8]]

Below(a) == IF a - 8 # LIST THEN a - 8 ELSE Null
LessOne(n) == (n + WORDMOD - 1) % WORDMOD

\* numFrames is signed.
PopSigned(m) == PopForm(m, m[NEXTFREE], Below(m[NEXTFREE]), m[NUMFRAMES] - 1)

\* nextFree never becomes NULL.
PopNoEnd(m) == PopForm(m, m[NEXTFREE], m[NEXTFREE] - 8, LessOne(m[NUMFRAMES]))

\* nextFree stays.
PopStays(m) == PopForm(m, m[NEXTFREE], m[NEXTFREE], LessOne(m[NUMFRAMES]))

\* The address is read after nextFree has moved.
PopAfterMove(m) == PopForm(m, m[NEXTFREE] - 8, Below(m[NEXTFREE]), LessOne(m[NUMFRAMES]))

\* The address is read through nextFree before any field changes; the last
\* slot is recognised by nextFree - 1 == list.
pop_frame_list(m) ==
  IF m[NEXTFREE] = Null
  THEN [ret |-> Null, mem |-> m]
  ELSE [ret |-> m[m[NEXTFREE]],
        mem |-> [m EXCEPT ![NEXTFREE]  = IF @ - 8 # LIST THEN @ - 8 ELSE Null,
                          ![NUMFRAMES] = (@ + WORDMOD - 1) % WORDMOD,
                          ![HEAD]      = @ - 8]]

=============================================================================
