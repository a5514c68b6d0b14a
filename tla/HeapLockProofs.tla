--------------------------- MODULE HeapLockProofs ---------------------------
(***************************************************************************)
(* Theorems about the lock around grow_heap, for every number of cores,     *)
(* whatever their rax points to, and any number of calls.                   *)
(***************************************************************************)
EXTENDS HeapLock, SequenceTheorems, TLAPS

End(r) == r.start + r.size * PAGE

\* The region of the core that has read K_HEAP_END and not yet released.
Current ==
  \A c \in Cores :
    /\ pc[c] = "add" => start_region[c] = K_HEAP_END
    /\ pc[c] = "unlock" => start_region[c] + size[c] * PAGE = K_HEAP_END

\* A call in progress has its argument.
Asked == \A c \in Cores : pc[c] \notin {"idle", "halted"} => size[c] \in Sizes

\* The regions handed out end where the region being handed out begins.
Below ==
  \A i \in DOMAIN regions : \A c \in Cores :
    pc[c] = "unlock" => End(regions[i]) <= start_region[c]

LInv ==
  /\ TypeOK
  /\ Mutex
  /\ Current
  /\ Asked
  /\ Below
  /\ RegionsApart

-----------------------------------------------------------------------------
(* Steps that leave K_HEAP_END and the regions alone.                       *)

\* Init.
LEMMA InitLInv == Init => LInv
<1> SUFFICES ASSUME Init PROVE LInv
  OBVIOUS
<1>1. TypeOK
  BY LockAssumption DEF Init, TypeOK, AllPointers
<1>2. Mutex
  BY DEF Init, Mutex, Inside
<1>3. Current /\ Asked /\ Below /\ RegionsApart
  BY DEF Init, Current, Asked, Below, RegionsApart
<1> QED
  BY <1>1, <1>2, <1>3 DEF LInv

\* A core enters grow_heap.
LEMMA CallLInv == ASSUME LInv, NEW c \in Cores, NEW n \in Sizes, Call(c, n) PROVE LInv'
<1>1. TypeOK'
  BY LockAssumption DEF LInv, Call, Goto, TypeOK
<1>2. Mutex'
  BY DEF LInv, Call, Goto, TypeOK, Mutex, Inside
<1>3. Current' /\ Asked' /\ Below' /\ RegionsApart'
  BY DEF LInv, Call, Goto, TypeOK, Current, Asked, Below, RegionsApart
<1> QED
  BY <1>1, <1>2, <1>3 DEF LInv

\* The locked bit test: the core enters only when no other core is inside.
LEMMA BtsLInv == ASSUME LInv, NEW c \in Cores, Bts(c) PROVE LInv'
<1>1. TypeOK'
  BY DEF LInv, Bts, Goto, TypeOK, AllPointers
<1>2. ASSUME kheap_spinlock = 1 PROVE Mutex'
  <2>1. pc' = [pc EXCEPT ![c] = "spin"] /\ kheap_spinlock' = 1 /\ pc[c] = "bts"
    BY <1>2 DEF Bts, Goto
  <2> QED
    BY <1>2, <2>1 DEF LInv, Bts, TypeOK, Mutex, Inside
<1>3. ASSUME kheap_spinlock = 0 PROVE Mutex'
  <2>1. pc' = [pc EXCEPT ![c] = "read"] /\ kheap_spinlock' = 1 /\ pc[c] = "bts"
    BY <1>3 DEF Bts, Goto
  <2>2. \A d \in Cores : ~Inside(d)
    BY <1>3 DEF LInv, Mutex
  <2> QED
    BY <2>1, <2>2 DEF LInv, TypeOK, Mutex, Inside
<1>4. Mutex'
  BY <1>2, <1>3 DEF LInv, TypeOK
<1>5. Current' /\ Asked' /\ Below' /\ RegionsApart'
  BY DEF LInv, Bts, Goto, TypeOK, Current, Asked, Below, RegionsApart
<1> QED
  BY <1>1, <1>4, <1>5 DEF LInv

\* The wait: whatever it reads, it leads to the bit test or out of the call.
LEMMA SpinLInv == ASSUME LInv, NEW c \in Cores, Spin(c) PROVE LInv'
<1>1. TypeOK'
  BY DEF LInv, Spin, Goto, TypeOK
<1>2. Mutex'
  BY DEF LInv, Spin, Goto, TypeOK, Mutex, Inside
<1>3. Current' /\ Asked' /\ Below' /\ RegionsApart'
  BY DEF LInv, Spin, Goto, TypeOK, Current, Asked, Below, RegionsApart
<1> QED
  BY <1>1, <1>2, <1>3 DEF LInv

\* start_region = K_HEAP_END.
LEMMA ReadLInv == ASSUME LInv, NEW c \in Cores, Read(c) PROVE LInv'
<1>1. TypeOK'
  BY DEF LInv, Read, Goto, TypeOK
<1>2. Mutex'
  BY DEF LInv, Read, Goto, TypeOK, Mutex, Inside
<1>3. Current' /\ Asked' /\ Below' /\ RegionsApart'
  BY DEF LInv, Read, Goto, TypeOK, Current, Asked, Below, RegionsApart
<1> QED
  BY <1>1, <1>2, <1>3 DEF LInv

-----------------------------------------------------------------------------
(* The two steps that hand out a region.                                    *)

\* K_HEAP_END += size * 0x1000.
LEMMA AddLInv == ASSUME LInv, NEW c \in Cores, Add(c) PROVE LInv'
<1>1. /\ pc[c] = "add" /\ pc' = [pc EXCEPT ![c] = "unlock"]
      /\ size[c] \in Nat /\ K_HEAP_END \in Nat
      /\ start_region[c] = K_HEAP_END
      /\ K_HEAP_END' = K_HEAP_END + size[c] * PAGE
      /\ UNCHANGED <<kheap_spinlock, rax, size, start_region, regions>>
  BY DEF LInv, Add, Goto, TypeOK, Current
<1>2. size[c] * PAGE \in Nat
  BY <1>1 DEF PAGE
<1>3. TypeOK'
  BY <1>1, <1>2 DEF LInv, TypeOK
<1>4. Mutex'
  BY <1>1 DEF LInv, TypeOK, Mutex, Inside
<1>5. \A d \in Cores : pc'[d] = "unlock" => d = c
  BY <1>1 DEF LInv, TypeOK, Mutex, Inside
<1>6. \A d \in Cores : pc'[d] # "add"
  BY <1>1 DEF LInv, TypeOK, Mutex, Inside
<1>7. Current'
  BY <1>1, <1>5, <1>6 DEF Current
<1>8. Asked'
  BY <1>1 DEF LInv, TypeOK, Asked
<1>9. \A i \in DOMAIN regions : End(regions[i]) <= K_HEAP_END /\ End(regions[i]) \in Nat
  <2> TAKE i \in DOMAIN regions
  <2>0. regions \in Seq([start : Nat, size : Nat])
    BY DEF LInv, TypeOK
  <2>1. regions[i].start \in Nat /\ regions[i].size \in Nat
    <3>1. i \in 1 .. Len(regions)
      BY <2>0
    <3>2. regions[i] \in [start : Nat, size : Nat]
      BY <2>0, <3>1, ElementOfSeq
    <3> QED
      BY <3>2
  <2>2. End(regions[i]) \in Nat
    BY <2>1 DEF End, PAGE
  <2>3. End(regions[i]) <= K_HEAP_END
    BY DEF LInv, RegionsApart, End
  <2> QED
    BY <2>2, <2>3
<1>10. Below'
  BY <1>1, <1>5, <1>9 DEF Below
<1>11. RegionsApart'
  BY <1>1, <1>2, <1>9 DEF LInv, RegionsApart, End
<1> QED
  BY <1>3, <1>4, <1>7, <1>8, <1>10, <1>11 DEF LInv

\* The release, and the return.
LEMMA UnlockLInv == ASSUME LInv, NEW c \in Cores, Unlock(c) PROVE LInv'
<1> DEFINE r == [start |-> start_region[c], size |-> size[c]]
<1>1. /\ pc[c] = "unlock" /\ pc' = [pc EXCEPT ![c] = "idle"]
      /\ kheap_spinlock' = 0
      /\ regions' = Append(regions, r)
      /\ End(r) = K_HEAP_END
      /\ UNCHANGED <<K_HEAP_END, rax, size, start_region>>
  BY DEF LInv, Unlock, Goto, Current, End
<1>2. r \in [start : Nat, size : Nat] /\ regions \in Seq([start : Nat, size : Nat])
  BY DEF LInv, TypeOK
<1>3. TypeOK'
  BY <1>1, <1>2 DEF LInv, TypeOK
<1>4. \A d \in Cores : ~Inside(d)'
  BY <1>1 DEF LInv, TypeOK, Mutex, Inside
<1>5. Mutex'
  BY <1>1, <1>4 DEF Mutex
<1>6. Current' /\ Below'
  BY <1>4 DEF Current, Below, Inside
<1>7. Asked'
  BY <1>1 DEF LInv, TypeOK, Asked
<1>8. RegionsApart'
  <2> SUFFICES ASSUME NEW i \in DOMAIN regions', NEW j \in DOMAIN regions'
               PROVE  /\ End(regions'[i]) <= K_HEAP_END
                      /\ i < j => End(regions'[i]) <= regions'[j].start
    BY <1>1 DEF RegionsApart, End
  <2>1. /\ DOMAIN regions = 1 .. Len(regions) /\ Len(regions) \in Nat
        /\ DOMAIN regions' = 1 .. Len(regions) + 1
    BY <1>1, <1>2
  <2>2. /\ i \in DOMAIN regions => regions'[i] = regions[i]
        /\ j \in DOMAIN regions => regions'[j] = regions[j]
        /\ regions'[Len(regions) + 1] = r
    BY <1>1, <1>2, <2>1
  <2>3. CASE i = Len(regions) + 1
    BY <1>1, <1>2, <2>1, <2>2, <2>3 DEF LInv, TypeOK
  <2>4. CASE i \in DOMAIN regions
    <3>1. End(regions[i]) <= K_HEAP_END /\ End(regions[i]) <= r.start
      BY <1>1, <2>4 DEF LInv, RegionsApart, Below, End
    <3>2. CASE j \in DOMAIN regions
      BY <2>2, <2>4, <3>1, <3>2 DEF LInv, RegionsApart, End
    <3>3. CASE j = Len(regions) + 1
      BY <2>2, <2>4, <3>1, <3>3
    <3> QED
      BY <2>1, <3>2, <3>3
  <2> QED
    BY <2>1, <2>3, <2>4
<1> QED
  BY <1>3, <1>5, <1>6, <1>7, <1>8 DEF LInv

-----------------------------------------------------------------------------
(* The theorems.                                                            *)

\* LInv is an invariant of the cores in grow_heap.
THEOREM LockInvariant == Spec => []LInv
<1>1. LInv /\ [Next]_vars => LInv'
  <2> SUFFICES ASSUME LInv, [Next]_vars PROVE LInv'
    OBVIOUS
  <2>1. ASSUME NEW c \in Cores, Step(c) PROVE LInv'
    BY <2>1, BtsLInv, SpinLInv, ReadLInv, AddLInv, UnlockLInv DEF Step
  <2>2. ASSUME NEW c \in Cores, NEW n \in Sizes, Call(c, n) PROVE LInv'
    BY <2>2, CallLInv
  <2>3. CASE UNCHANGED vars
    BY <2>3 DEF vars, LInv, TypeOK, Mutex, Current, Asked,
                Below, RegionsApart, Inside, End
  <2> QED
    BY <2>1, <2>2, <2>3 DEF Next
<1> QED
  BY <1>1, InitLInv, PTL DEF Spec

\* Type correctness of the lock and its callers.
THEOREM TypeCorrect == Spec => []TypeOK
<1>1. LInv => TypeOK
  BY DEF LInv
<1> QED
  BY <1>1, LockInvariant, PTL

\* _acquire_spinlock and _release_spinlock give mutual exclusion, although the
\* wait between them reads through an arbitrary rax, and the bit is set just while
\* a core that still runs is in grow_heap.
THEOREM MutualExclusion == Spec => []Mutex
<1>1. LInv => Mutex
  BY DEF LInv
<1> QED
  BY <1>1, LockInvariant, PTL

\* grow_heap hands out no byte twice.
THEOREM DisjointRegions == Spec => []RegionsApart
<1>1. LInv => RegionsApart
  BY DEF LInv
<1> QED
  BY <1>1, LockInvariant, PTL

-----------------------------------------------------------------------------
(* Refinement of GrowAtomic.                                                *)

\* granted under the refinement mapping.
Granted ==
  IF Pending = {} THEN regions
  ELSE LET c == CHOOSE d \in Pending : TRUE
       IN  Append(regions, [start |-> start_region[c], size |-> size[c]])

\* At most one core has added its pages and not yet released the lock.
LEMMA OnePending == ASSUME LInv, NEW c \in Cores, Inside(c)
                    PROVE  Pending = IF pc[c] = "unlock" THEN {c} ELSE {}
BY DEF LInv, Mutex, Inside, Pending

\* The region of a single pending core is the last one granted.
LEMMA GrantedLast ==
  ASSUME NEW c, Pending = {c}
  PROVE  Granted = Append(regions, [start |-> start_region[c], size |-> size[c]])
BY DEF Granted

\* A step that keeps the pending core and its region keeps Granted.
LEMMA Stutters ==
  ASSUME K_HEAP_END' = K_HEAP_END, regions' = regions, Pending' = Pending,
         \A d \in Pending : start_region'[d] = start_region[d] /\ size'[d] = size[d]
  PROVE  UNCHANGED <<K_HEAP_END, Granted>>
<1>1. CASE Pending = {}
  BY <1>1 DEF Granted
<1>2. CASE Pending # {}
  <2> DEFINE d == CHOOSE e \in Pending : TRUE
  <2>1. d \in Pending
    BY <1>2
  <2> HIDE DEF d
  <2>2. start_region'[d] = start_region[d] /\ size'[d] = size[d]
    BY <2>1
  <2>3. Granted = Append(regions, [start |-> start_region[d], size |-> size[d]])
    BY <1>2 DEF Granted, d
  <2>4. Granted' = Append(regions', [start |-> start_region'[d], size |-> size'[d]])
    BY <1>2 DEF Granted, d
  <2> QED
    BY <2>2, <2>3, <2>4
<1> QED
  BY <1>1, <1>2

\* Every step of a core is a step of GrowAtomic or changes nothing there.
LEMMA StepRefines ==
  ASSUME LInv, LInv', NEW c \in Cores, Step(c) \/ \E n \in Sizes : Call(c, n)
  PROVE  \/ \E n \in Sizes : /\ Granted' = Append(Granted, [start |-> K_HEAP_END, size |-> n])
                            /\ K_HEAP_END' = K_HEAP_END + n * PAGE
         \/ UNCHANGED <<K_HEAP_END, Granted>>
<1>1. CASE Bts(c) \/ Spin(c) \/ Read(c) \/ \E n \in Sizes : Call(c, n)
  <2>1. K_HEAP_END' = K_HEAP_END /\ regions' = regions
    BY <1>1 DEF Bts, Spin, Read, Call
  <2>2. \A d \in Cores : pc'[d] = "unlock" <=> pc[d] = "unlock"
    BY <1>1 DEF LInv, TypeOK, Bts, Spin, Read, Call, Goto
  <2>3. Pending' = Pending
    BY <2>2 DEF Pending
  <2>4. \A d \in Pending : start_region'[d] = start_region[d] /\ size'[d] = size[d]
    BY <1>1 DEF LInv, TypeOK, Bts, Spin, Read, Call, Goto, Pending
  <2> QED
    BY <2>1, <2>3, <2>4, Stutters
<1>2. CASE Add(c)
  <2>1. /\ pc[c] = "add" /\ pc'[c] = "unlock" /\ size[c] \in Sizes
        /\ start_region[c] = K_HEAP_END
        /\ K_HEAP_END' = K_HEAP_END + size[c] * PAGE
        /\ UNCHANGED <<size, start_region, regions>>
    BY <1>2 DEF LInv, TypeOK, Add, Goto, Current, Asked
  <2>2. Pending = {}
    BY <2>1, OnePending DEF Inside
  <2>3. Pending' = {c}
    <3>1. Inside(c)'
      BY <2>1 DEF Inside
    <3> QED
      BY <2>1, <3>1 DEF LInv, Mutex, Inside, Pending
  <2>4. Granted = regions
    BY <2>2 DEF Granted
  <2>5. Granted' = Append(regions', [start |-> start_region'[c], size |-> size'[c]])
    BY <2>3 DEF Granted
  <2> QED
    BY <2>1, <2>4, <2>5
<1>3. CASE Unlock(c)
  <2>1. /\ pc[c] = "unlock" /\ pc' = [pc EXCEPT ![c] = "idle"]
        /\ regions' = Append(regions, [start |-> start_region[c], size |-> size[c]])
        /\ K_HEAP_END' = K_HEAP_END
    BY <1>3 DEF Unlock, Goto
  <2>2. Pending = {c}
    BY <2>1, OnePending DEF Inside
  <2>3. Pending' = {}
    BY <2>1, <2>2 DEF LInv, TypeOK, Pending
  <2>4. Granted' = regions'
    BY <2>3 DEF Granted
  <2> QED
    BY <2>1, <2>2, <2>4, GrantedLast
<1> QED
  BY <1>1, <1>2, <1>3 DEF Step

\* Refinement: to its callers grow_heap is one atomic step.
THEOREM Refinement == Spec => IsAtomic
<1>1. Init => Atomic!Init
  <2> SUFFICES ASSUME Init PROVE Atomic!Init
    OBVIOUS
  <2>1. Pending = {}
    BY DEF Init, Pending
  <2> QED
    BY <2>1 DEF Init, Atomic!Init
<1>2. LInv /\ LInv' /\ [Next]_vars => [Atomic!Next]_<<K_HEAP_END, Granted>>
  <2> SUFFICES ASSUME LInv, LInv', [Next]_vars
               PROVE  [Atomic!Next]_<<K_HEAP_END, Granted>>
    OBVIOUS
  <2>1. CASE Next
    BY <2>1, StepRefines DEF Next, Atomic!Next, Atomic!Grow, Granted
  <2>2. CASE UNCHANGED vars
    BY <2>2 DEF vars, Granted, Pending
  <2> QED
    BY <2>1, <2>2
<1> QED
  BY <1>1, <1>2, LockInvariant, PTL DEF Spec, IsAtomic, Atomic!Spec, Granted

=============================================================================
