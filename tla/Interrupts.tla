----------------------------- MODULE Interrupts -----------------------------
(***************************************************************************)
(* The interrupt table of idt.c and the stubs of isr.asm, as operators: which *)
(* vectors find a gate, and what lies on the stack when                     *)
(* isr_exception_handler is called.  A stack is a sequence of words, each   *)
(* named for what it holds, the last one pushed at the end.                 *)
(***************************************************************************)
EXTENDS Integers, Sequences

IDT_MAX_DESCRIPTORS == 256
IDT_CPU_EXCEPTION_COUNT == 32
SIZEOF_idtr_t == 10
SIZEOF_idt_entry_t == 16

Exceptions == 0 .. IDT_CPU_EXCEPTION_COUNT - 1

\* Mutant of ErrStubs: the stub of the page fault pushes an error code too many.
ErrStubsNo14 == {8, 10, 11, 12, 13, 17, 30}

\* The vectors with the stub isr_err_stub; the others have isr_no_err_stub.
ErrStubs == {8, 10, 11, 12, 13, 14, 17, 30}

\* The processor pushes an error code for these (external).  The kernel enables
\* neither shadow stacks nor encrypted guests, which are what vectors 21 and 29
\* are for.
CpuErrors == {8, 10, 11, 12, 13, 14, 17, 30}
Raised == Exceptions \ {21, 29}

CpuPushes(v) ==
  <<"ss", "rsp", "rflags", "cs", "rip">> \o (IF v \in CpuErrors THEN <<"error_code">> ELSE << >>)

StubPushes(v) == (IF v \in ErrStubs THEN << >> ELSE <<"error_code">>) \o <<"vector">>

\* isr_xframe_assembler: pushagrd, pushacrd, the data segment and a zero; r15
\* and rax are pushed once more below the address given to the handler.
XframePushes ==
  <<"rbp", "rax", "rbx", "rcx", "rdx", "rsi", "rdi",
    "r8", "r9", "r10", "r11", "r12", "r13", "r14", "r15",
    "cr0", "cr2", "cr3", "cr4", "ds", "zero">>

\* The words from the address in rdi upwards.
Frame(v) ==
  LET s == CpuPushes(v) \o StubPushes(v) \o XframePushes IN
  [i \in 0 .. Len(s) - 1 |-> s[Len(s) - i]]

\* isr_stack_frame_t, word by word.
isr_stack_frame_t ==
  <<"cr4", "cr3", "cr2", "cr1", "cr0",
    "r15", "r14", "r13", "r12", "r11", "r10", "r9", "r8",
    "rdi", "rsi", "rdx", "rcx", "rbx", "rax",
    "rbp", "vector", "error_code", "rip", "cs", "rflags", "rsp", "ss">>

\* The table: the number of its last byte, and the vectors with a gate.
NoTable == [limit |-> 0, gates |-> {}]

\* The limit is computed from the size of idtr_t; idt_set_descriptor for every
\* exception, and idt_reload.
idt_assemble ==
  [limit |-> (SIZEOF_idtr_t * IDT_MAX_DESCRIPTORS - 1) % 65536, gates |-> Exceptions]

\* A gate that the processor finds (external).
Found(t, v) == v \in t.gates /\ SIZEOF_idt_entry_t * (v + 1) - 1 <= t.limit

=============================================================================
