------------------------------ MODULE HeapLock ------------------------------
(***************************************************************************)
(* The spinlock, klibc/spinlock.asm, in the place where it guards data: cores *)
(* that call grow_heap of memory/heap.c.  One action is one instruction on    *)
(* shared memory.                                                           *)
(*                                                                          *)
(* A core that finds the lock taken tests the word at [rax], and nothing on   *)
(* the way to it loads rax.  What that register points to is therefore any   *)
(* choice of Pointers: "lock" is the lock itself, "even" a word whose bit 0  *)
(* is clear, "odd" one whose bit 0 stays set, "unmapped" none at all.        *)
(***************************************************************************)
EXTENDS Integers, Sequences, FiniteSets

CONSTANTS
  Cores,        \* the callers
  Sizes,        \* pages asked for in one call
  KHEAPSTART,   \* &kEnd
  Pointers,     \* what rax may point to when _acquire_spinlock is entered
  MAXCALLS      \* bound: calls to grow_heap

PAGE == 4096
AllPointers == {"lock", "even", "odd", "unmapped"}

ASSUME LockAssumption ==
  /\ Sizes \subseteq Nat \ {0}
  /\ KHEAPSTART \in Nat
  /\ Pointers \subseteq AllPointers
  /\ MAXCALLS \in Nat

VARIABLES
  kheap_spinlock,   \* bit 0 of the lock
  K_HEAP_END,
  pc,               \* by core: "idle", "bts", "spin", "read", "add", "unlock", "halted"
  rax,              \* by core: what rax points to
  size,             \* by core: the argument of its call
  start_region,     \* by core: the local variable
  regions           \* history: regions handed out, in the order of the unlocks

vars == <<kheap_spinlock, K_HEAP_END, pc, rax, size, start_region, regions>>

Init ==
  /\ kheap_spinlock = 0
  /\ K_HEAP_END = KHEAPSTART
  /\ pc = [c \in Cores |-> "idle"]
  /\ rax = [c \in Cores |-> "unmapped"]
  /\ size = [c \in Cores |-> 0]
  /\ start_region = [c \in Cores |-> 0]
  /\ regions = << >>

Inside(c) == pc[c] \in {"read", "add", "unlock"}
Calls == Len(regions) + Cardinality({c \in Cores : pc[c] \notin {"idle", "halted"}})
Goto(c, label) == pc' = [pc EXCEPT ![c] = label]

\* grow_heap(n), up to the call of _acquire_spinlock.
Call(c, n) ==
  /\ pc[c] = "idle"
  /\ Calls < MAXCALLS
  /\ Goto(c, "bts")
  /\ size' = [size EXCEPT ![c] = n]
  /\ \E r \in Pointers : rax' = [rax EXCEPT ![c] = r]
  /\ UNCHANGED <<kheap_spinlock, K_HEAP_END, start_region, regions>>

\* Mutant of Bts: the old bit is not looked at.
BtsBlind(c) ==
  /\ pc[c] = "bts"
  /\ kheap_spinlock' = 1
  /\ Goto(c, "read")
  /\ UNCHANGED <<K_HEAP_END, rax, size, start_region, regions>>

\* lock bts: the bit is read and set in one step.  A core that gets the lock
\* clears rax on the way out.
Bts(c) ==
  /\ pc[c] = "bts"
  /\ kheap_spinlock' = 1
  /\ \/ kheap_spinlock = 1 /\ Goto(c, "spin") /\ UNCHANGED rax
     \/ kheap_spinlock = 0 /\ Goto(c, "read") /\ rax' = [rax EXCEPT ![c] = "unmapped"]
  /\ UNCHANGED <<K_HEAP_END, size, start_region, regions>>

\* Mutant of Spin: the loop goes on while the bit is clear.
SpinInverted(c) ==
  /\ pc[c] = "spin"
  /\ \/ rax[c] = "lock" /\ kheap_spinlock = 1 /\ Goto(c, "bts")
     \/ rax[c] = "odd" /\ Goto(c, "bts")
     \/ rax[c] = "unmapped" /\ Goto(c, "halted")
  /\ UNCHANGED <<kheap_spinlock, K_HEAP_END, rax, size, start_region, regions>>

\* test [rax], 1 finds the bit clear, or faults and halts the core; while the
\* bit is set nothing changes.
Spin(c) ==
  /\ pc[c] = "spin"
  /\ \/ rax[c] = "lock" /\ kheap_spinlock = 0 /\ Goto(c, "bts")
     \/ rax[c] = "even" /\ Goto(c, "bts")
     \/ rax[c] = "unmapped" /\ Goto(c, "halted")
  /\ UNCHANGED <<kheap_spinlock, K_HEAP_END, rax, size, start_region, regions>>

Read(c) ==
  /\ pc[c] = "read"
  /\ start_region' = [start_region EXCEPT ![c] = K_HEAP_END]
  /\ Goto(c, "add")
  /\ UNCHANGED <<kheap_spinlock, K_HEAP_END, rax, size, regions>>

\* Mutants of Add: the heap grows downwards; the pages are added as bytes.
AddDown(c) ==
  /\ pc[c] = "add"
  /\ K_HEAP_END' = K_HEAP_END - size[c] * PAGE
  /\ Goto(c, "unlock")
  /\ UNCHANGED <<kheap_spinlock, rax, size, start_region, regions>>

AddBytes(c) ==
  /\ pc[c] = "add"
  /\ K_HEAP_END' = K_HEAP_END + size[c]
  /\ Goto(c, "unlock")
  /\ UNCHANGED <<kheap_spinlock, rax, size, start_region, regions>>

Add(c) ==
  /\ pc[c] = "add"
  /\ K_HEAP_END' = K_HEAP_END + size[c] * PAGE
  /\ Goto(c, "unlock")
  /\ UNCHANGED <<kheap_spinlock, rax, size, start_region, regions>>

\* Mutant of Unlock: the end is taken again instead of the region's start.
UnlockReread(c) ==
  /\ pc[c] = "unlock"
  /\ kheap_spinlock' = 0
  /\ regions' = Append(regions, [start |-> K_HEAP_END, size |-> size[c]])
  /\ Goto(c, "idle")
  /\ UNCHANGED <<K_HEAP_END, rax, size, start_region>>

\* _release_spinlock, and the return of start_region.
Unlock(c) ==
  /\ pc[c] = "unlock"
  /\ kheap_spinlock' = 0
  /\ regions' = Append(regions, [start |-> start_region[c], size |-> size[c]])
  /\ Goto(c, "idle")
  /\ UNCHANGED <<K_HEAP_END, rax, size, start_region>>

\* The instructions of a call that has begun.
Step(c) == Bts(c) \/ Spin(c) \/ Read(c) \/ Add(c) \/ Unlock(c)

Next == \E c \in Cores : Step(c) \/ \E n \in Sizes : Call(c, n)

\* A core goes on executing; it need not call.
Spec == Init /\ [][Next]_vars /\ \A c \in Cores : WF_vars(Step(c))

-----------------------------------------------------------------------------

\* Type invariant.
TypeOK ==
  /\ kheap_spinlock \in {0, 1}
  /\ K_HEAP_END \in Nat
  /\ pc \in [Cores -> {"idle", "bts", "spin", "read", "add", "unlock", "halted"}]
  /\ rax \in [Cores -> AllPointers]
  /\ size \in [Cores -> Nat]
  /\ start_region \in [Cores -> Nat]
  /\ regions \in Seq([start : Nat, size : Nat])

\* lock bts, the stray wait and the plain store of the release leave one core
\* at a time between acquire_spinlock and release_spinlock, and the lock is never
\* left behind: its bit is set just while a core, still running, is in there.
Mutex ==
  /\ \A c, d \in Cores : Inside(c) /\ Inside(d) => c = d
  /\ kheap_spinlock = 1 <=> \E c \in Cores : Inside(c)

\* No two calls of grow_heap, of one core or of two, are handed a common byte,
\* and every region lies below K_HEAP_END.
RegionsApart ==
  \A i, j \in DOMAIN regions :
    /\ regions[i].start + regions[i].size * PAGE <= K_HEAP_END
    /\ i < j => regions[i].start + regions[i].size * PAGE <= regions[j].start

\* A core that waits on the lock itself or on an even word does not wait for
\* nothing: it or another core gets in.  (On an odd word it waits for ever.)
SomeoneEnters ==
  \A c \in Cores :
    (pc[c] \in {"bts", "spin"} /\ rax[c] \in {"lock", "even"}) ~> (\E d \in Cores : pc[d] = "read")

\* grow_heap is atomic: the calls behave as if each took one step, between its
\* acquire and its release.
Pending == {c \in Cores : pc[c] = "unlock"}

Atomic == INSTANCE GrowAtomic WITH
  end <- K_HEAP_END,
  granted <- IF Pending = {} THEN regions
             ELSE LET c == CHOOSE d \in Pending : TRUE
                  IN  Append(regions, [start |-> start_region[c], size |-> size[c]])

\* Calls of several cores implement GrowAtomic.
IsAtomic == Atomic!Spec

=============================================================================
