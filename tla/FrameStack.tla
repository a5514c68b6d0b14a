----------------------------- MODULE FrameStack -----------------------------
(***************************************************************************)
(* What callers of framealloc.c may rely on: push and pop behave as a LIFO  *)
(* stack of physical frames, and the first pop of an empty stack returns    *)
(* NULL.  Nothing is promised from then on: once NULL has been returned     *)
(* the list must not be used again (variable spent).                        *)
(***************************************************************************)
EXTENDS Naturals, Sequences

CONSTANT Frame    \* the physical frames of the managed region

VARIABLES
  stack,   \* free frames, the next one to be handed out last
  ret,     \* result of the last pop
  spent    \* a pop has found the stack empty

svars == <<stack, ret, spent>>

SInit ==
  /\ stack = << >>
  /\ ret = 0
  /\ spent = FALSE

SPush(f) ==
  /\ ~spent
  /\ \A i \in 1 .. Len(stack) : stack[i] # f
  /\ stack' = Append(stack, f)
  /\ UNCHANGED <<ret, spent>>

SPop ==
  /\ ~spent
  /\ Len(stack) > 0
  /\ ret' = stack[Len(stack)]
  /\ stack' = SubSeq(stack, 1, Len(stack) - 1)
  /\ UNCHANGED spent

SEmpty ==
  /\ ~spent
  /\ stack = << >>
  /\ ret' = 0
  /\ spent' = TRUE
  /\ UNCHANGED stack

SAfterwards ==
  /\ spent
  /\ ret' \in Nat
  /\ UNCHANGED <<stack, spent>>

SNext == (\E f \in Frame : SPush(f)) \/ SPop \/ SEmpty \/ SAfterwards

StackSpec == SInit /\ [][SNext]_svars

=============================================================================
