------------------------------- MODULE Printf -------------------------------
(***************************************************************************)
(* klibc/string/printf.c: _vprintf, one action per turn of its loop, under   *)
(* printf, println, serial_printf and sprintf, and one call of each of the   *)
(* pure functions of module Strings.                                        *)
(*                                                                          *)
(* A format is given in pieces: the characters in the format, the argument   *)
(* that they take, and the text that they stand for.  The code sees the      *)
(* characters and the arguments only.                                       *)
(***************************************************************************)
EXTENDS Strings

CONSTANTS
  Calls,         \* calls of the pure functions
  Prints,        \* calls of the printing functions: [fn, pieces]
  PRINTBUFLEN    \* size of the buffer

NUMBUFLEN == 100      \* sizeof res
Flags == {"i", "u", "h", "l"}
Printing == {"printf", "println", "serial_printf", "sprintf"}

-----------------------------------------------------------------------------
(* What the calls may be.                                                   *)

\* memcpy's regions are apart: its pointers are restrict.
IsMove(c) ==
  /\ c.fn \in {"memcpy", "memmove", "memset"}
  /\ c.dest \in Int /\ c.src \in Int /\ c.n \in Nat
  /\ c.mem = [a \in DOMAIN c.mem |-> c.mem[a]]
  /\ c.dest .. c.dest + c.n - 1 \subseteq DOMAIN c.mem
  /\ c.fn # "memset" => c.src .. c.src + c.n - 1 \subseteq DOMAIN c.mem
  /\ c.fn = "memcpy" => (c.dest + c.n <= c.src \/ c.src + c.n <= c.dest)

IsSearch(c) == c.fn = "strstr" /\ IsText(c.hay) /\ IsText(c.needle)

\* The buffer has room for a sign, the digits of 64 bits and a terminator.
Longest(base) == IF base \in DOMAIN BASE_MAX_DIGIT_MAP THEN BASE_MAX_DIGIT_MAP[base] ELSE 64

IsConversion(c) ==
  /\ c.fn \in {"itoa", "utoa", "ultoa"}
  /\ c.value \in Word
  /\ c.base \in 2 .. 16 \/ (c.fn = "ultoa" /\ c.base \in 2 .. 36)
  /\ c.room \in Nat /\ c.room > Longest(c.base) + 1
  /\ c.fill \in {Nul, Junk}

Has(run, c) == \E k \in 1 .. Len(run) : Char(run, k) = c

\* What v stands for under the flags of run: the last of i and l decides the
\* width, u and p drop the sign, h and p are hexadecimal.
Written(ds) == [k \in 1 .. Len(ds) |-> Digit(ds[Len(ds) - k + 1])]
Meaning(v, run) ==
  LET wide == \/ Has(run, "p")
              \/ \E k \in 1 .. Len(run) : run[k] = "l" /\ \A j \in k + 1 .. Len(run) : run[j] # "i"
      signed == ~ Has(run, "u") /\ ~ Has(run, "p")
      hex == Has(run, "h") \/ Has(run, "p")
      base == IF hex THEN 16 ELSE 10
      x == IF wide THEN v ELSE IF signed THEN Signed32(v) ELSE Unsigned32(v)
  IN  (IF hex THEN <<"0", "x">> ELSE << >>) \o
      (IF signed /\ Negative(x) THEN <<"-">> \o Written(Digits(Neg(x), base)) ELSE Written(Digits(x, base)))

\* The piece takes no argument and its characters stand for out.
Stands(p, out) == p.arg = << >> /\ p.out = out /\ ~ p.flags

IsNumber(p) ==
  LET n == Len(p.fmt) IN
  /\ n > 1 /\ p.fmt[1] = "%"
  /\ \A k \in 2 .. n - 1 : p.fmt[k] \in Flags
  /\ p.fmt[n] \in Flags \cup {"p"}
  /\ p.flags = (p.fmt[n] # "p")
  /\ p.arg = <<p.arg[1]>> /\ p.arg[1] \in Word /\ p.arg[1] # Int64Min
  /\ p.out = Meaning(p.arg[1], SubSeq(p.fmt, 2, n))

IsPiece(p) ==
  /\ IsText(p.fmt) /\ IsText(p.out)
  /\ \/ Len(p.fmt) = 1 /\ p.fmt # <<"%">> /\ Stands(p, p.fmt)
     \/ p.fmt = <<"%">> /\ Stands(p, << >>)
     \/ p.fmt \in {<<"%", "%">>, <<"%", " ">>} /\ Stands(p, <<"%">>)
     \/ /\ Len(p.fmt) = 2 /\ p.fmt[1] = "%" /\ p.fmt[2] \notin Flags \cup {"p", "s", " ", "%"}
        /\ Stands(p, <<p.fmt[2]>>)
     \/ p.fmt = <<"%", "s">> /\ p.arg = <<p.out>> /\ ~ p.flags
     \/ IsNumber(p)

\* A lone percent sign ends the format: before other letters it would be a
\* specifier, with or without an argument of its own.
IsFormat(ps) ==
  /\ ps = [k \in 1 .. Len(ps) |-> ps[k]] /\ Len(ps) \in Nat
  /\ \A k \in 1 .. Len(ps) - 1 : ps[k].fmt # <<"%">>

ASSUME CallsAssumption == \A c \in Calls : IsMove(c) \/ IsSearch(c) \/ IsConversion(c)

ASSUME PrintsAssumption ==
  /\ \A c \in Prints : c.fn \in Printing /\ IsFormat(c.pieces)
  /\ \A p \in UNION {{c.pieces[k] : k \in 1 .. Len(c.pieces)} : c \in Prints} : IsPiece(p)
  /\ PRINTBUFLEN \in Nat

-----------------------------------------------------------------------------
VARIABLES
  call,     \* the call
  pc,       \* "call", "loop", "done"; "wild" after a write or read outside the buffer
  fmt,      \* index of the next character of the format
  arg,      \* index of the next argument
  buffer,   \* what has been written
  ret       \* what the function returns or sends to its device

vars == <<call, pc, fmt, arg, buffer, ret>>

Pieces == call.pieces
Joined(field(_)) ==
  Loop(<< >>, Len(Pieces), LAMBDA t, k : t \o field(Pieces[k]))
FmtOf(p) == p.fmt
ArgOf(p) == p.arg
OutOf(p) == p.out

\* The format and the arguments of the call.
Format == Joined(FmtOf)
Args == Joined(ArgOf)
At(i) == Char(Format, i)

Init ==
  /\ call \in Calls \cup Prints
  /\ pc = "call"
  /\ fmt = 1 /\ arg = 1
  /\ buffer = << >> /\ ret = << >>

-----------------------------------------------------------------------------
(* The pure functions.                                                      *)

Pure(fn, result) ==
  /\ pc = "call"
  /\ call.fn = fn
  /\ ret' = result
  /\ pc' = "done"
  /\ UNCHANGED <<call, fmt, arg, buffer>>

\* A buffer of the caller, zeroed or as the stack was.
Room == [a \in 0 .. call.room - 1 |-> call.fill]

Memcpy  == Pure("memcpy", memcpy(call.mem, call.dest, call.src, call.n))
Memmove == Pure("memmove", memmove(call.mem, call.dest, call.src, call.n))
Memset  == Pure("memset", memset(call.mem, call.dest, call.src, call.n))
Strstr  == Pure("strstr", strstr(call.hay, call.needle))
Itoa    == \E wraps \in BOOLEAN :
             /\ call.fn = "itoa" => wraps \in Overflows(call.value)
             /\ Pure("itoa", Text(itoa(call.value, Room, call.base, wraps)))
Utoa    == Pure("utoa", Text(utoa(call.value, Room, call.base)))
Ultoa   == Pure("ultoa", Text(ultoa(call.value, Room, call.base)))

-----------------------------------------------------------------------------
(* _vprintf.                                                                *)

Enter ==
  /\ pc = "call"
  /\ call.fn \in Printing
  /\ pc' = "loop"
  /\ UNCHANGED <<call, fmt, arg, buffer, ret>>

\* s goes to the buffer, which has no bound.
Put(s) ==
  /\ buffer' = buffer \o s
  /\ pc' = IF Len(buffer) + Len(s) > PRINTBUFLEN THEN "wild" ELSE pc

Plain ==
  /\ pc = "loop"
  /\ At(fmt) \notin {Nul, "%"}
  /\ Put(<<At(fmt)>>)
  /\ fmt' = fmt + 1
  /\ UNCHANGED <<call, arg, ret>>

Percent ==
  /\ pc = "loop"
  /\ At(fmt) = "%" /\ At(fmt + 1) \in {" ", "%"}
  /\ Put(<<"%">>)
  /\ fmt' = fmt + 2
  /\ UNCHANGED <<call, arg, ret>>

String ==
  /\ pc = "loop"
  /\ At(fmt) = "%" /\ At(fmt + 1) = "s"
  /\ Put(Args[arg])
  /\ fmt' = fmt + 2
  /\ arg' = arg + 1
  /\ UNCHANGED <<call, ret>>

\* Mutant of Is32: the width is that of the first flag.
FirstWidth(run) == ~Has(run, "l") \/ Char(run, 1) = "i"

\* The last of i and l decides the width; without either it is 32.
Is32(run) ==
  \A k \in 1 .. Len(run) :
    Char(run, k) = "l" => \E j \in k + 1 .. Len(run) : Char(run, j) = "i"

\* The text of v under the flags of run; a p at its end makes it a pointer.
NumberText(v, run, wraps) ==
  LET ptr  == Has(run, "p")
      res  == [a \in 0 .. NUMBUFLEN - 1 |-> Nul]
      wide == IF ptr \/ ~Is32(run) THEN v
              ELSE IF Has(run, "u") THEN Unsigned32(v) ELSE Signed32(v)
      conv(base) == IF ptr \/ Has(run, "u") THEN utoa(wide, res, base)
                    ELSE itoa(wide, res, base, wraps)
  IN  IF ptr \/ Has(run, "h") THEN <<"0", "x">> \o Text(conv(16)) ELSE Text(conv(10))

\* The flags from index i, in any order and number; p is the last.
FlagsAt(i) ==
  LET end == CHOOSE e \in i .. Len(Format) + 1 :
               At(e) \notin Flags /\ \A k \in i .. e - 1 : At(k) \in Flags
  IN  SubSeq(Format, i, IF At(end) = "p" THEN end ELSE end - 1)

Number ==
  /\ pc = "loop"
  /\ At(fmt) = "%" /\ At(fmt + 1) \in Flags \cup {"p"}
  /\ \E v \in {Args[arg]}, run \in {FlagsAt(fmt + 1)} :
       /\ \E wraps \in Overflows(v) : \E s \in {NumberText(v, run, wraps)} : Put(s)
       /\ fmt' = fmt + 1 + Len(run)
  /\ arg' = arg + 1
  /\ UNCHANGED <<call, ret>>

\* Mutant of AfterUnknown: the sign is not skipped.
SkipNone(i) == i

\* Any other character, or none, after the percent sign: the sign is dropped.
AfterUnknown(i) == i + 1

Unknown ==
  /\ pc = "loop"
  /\ At(fmt) = "%" /\ At(fmt + 1) \notin Flags \cup {"p", "s", " ", "%"}
  /\ fmt' = AfterUnknown(fmt)
  /\ UNCHANGED <<call, pc, arg, buffer, ret>>

\* The end of the format: tty_print, with tty_break in println, or
\* write_serial_string reads the buffer up to the first zero byte.  tty_break
\* prints a space before the line break, where printf.h has println add a new line
\* character only.  sprintf leaves its caller's buffer without a terminator.
Emit ==
  /\ pc = "loop"
  /\ At(fmt) = Nul
  /\ ret' = CASE call.fn = "sprintf" -> << >>
              [] call.fn = "println" -> buffer \o <<" ", "\n">>
              [] OTHER -> buffer
  /\ pc' = IF call.fn # "sprintf" /\ Len(buffer) = PRINTBUFLEN THEN "wild" ELSE "done"
  /\ UNCHANGED <<call, fmt, arg, buffer>>

Next ==
  \/ Memcpy \/ Memmove \/ Memset \/ Strstr \/ Itoa \/ Utoa \/ Ultoa
  \/ Enter \/ Plain \/ Percent \/ String \/ Number \/ Unknown \/ Emit

Spec == Init /\ [][Next]_vars /\ WF_vars(Next)

-----------------------------------------------------------------------------

Done(fns) == pc = "done" /\ call.fn \in fns

\* memmove moves the bytes that were there before, whichever way the regions
\* overlap, and touches no other; memcpy does when they are apart.
MovesBytes ==
  Done({"memmove", "memcpy"}) =>
    \A a \in DOMAIN call.mem :
      ret[a] = call.mem[IF a \in call.dest .. call.dest + call.n - 1
                        THEN call.src + (a - call.dest) ELSE a]

\* strstr finds the first occurrence, also when a partial match has to be given
\* up, and only then.
Occurs(k) == SubSeq(call.hay, k, k + Len(call.needle) - 1) = call.needle

FindsFirst ==
  Done({"strstr"}) =>
    LET last == Len(call.hay) - Len(call.needle) + 1 IN
    IF \E k \in 1 .. last : Occurs(k)
    THEN ret \in 1 .. last /\ Occurs(ret) /\ \A k \in 1 .. ret - 1 : ~Occurs(k)
    ELSE ret = 0

\* base * v + d, modulo 2^64.
Times(v, base, d) ==
  LET c4 == v[4] * base + d
      c3 == v[3] * base + c4 \div LIMB
      c2 == v[2] * base + c3 \div LIMB
      c1 == v[1] * base + c2 \div LIMB
  IN  <<c1 % LIMB, c2 % LIMB, c3 % LIMB, c4 % LIMB>>

\* A numeral's value, computed from the left.
DigitOf(c) == CHOOSE d \in 0 .. 35 : Digit(d) = c
Value(text, base) == Loop(Zero, Len(text), LAMBDA v, k : Times(v, base, DigitOf(text[k])))

Numeral(text, v, base) ==
  /\ text # << >>
  /\ \A k \in 1 .. Len(text) : \E d \in 0 .. base - 1 : text[k] = Digit(d)
  /\ text[1] = "0" => text = <<"0">>
  /\ Value(text, base) = v

\* itoa, utoa and ultoa write the numeral of the value, in every base, up to the
\* last of 64 bits, and leave it terminated: in any buffer, but for the longest
\* negative numbers in bases whose digits fill the cleared bytes, which need a
\* buffer of zeros; and not for the least of all.
NeedsZeros == /\ call.fn = "itoa" /\ Negative(call.value)
              /\ Len(Digits(Neg(call.value), call.base)) >= BASE_MAX_DIGIT_MAP[call.base]

WritesNumeral ==
  Done({"itoa", "utoa", "ultoa"}) =>
    \/ call.fn = "itoa" /\ call.value = Int64Min
    \/ NeedsZeros /\ call.fill = Junk
    \/ IF call.fn = "itoa" /\ Negative(call.value)
       THEN /\ Char(ret, 1) = "-"
            /\ Numeral(SubSeq(ret, 2, Len(ret)), Neg(call.value), call.base)
       ELSE Numeral(ret, call.value, call.base)

\* A number is not followed by a letter that would be taken for one more flag.
Unambiguous ==
  \A k \in 1 .. Len(Pieces) - 1 :
    Pieces[k].flags => Char(Pieces[k + 1].fmt, 1) \notin Flags \cup {"p"}

\* Pieces side by side print what each of them stands for, in order, each with
\* its own argument, and println adds a space and a line break: not just the new
\* line character that printf.h says.
PrintsPieces ==
  Done(Printing) /\ Unambiguous =>
    /\ buffer = Joined(OutOf)
    /\ call.fn \in {"printf", "serial_printf"} => ret = buffer
    /\ call.fn = "println" => ret = buffer \o <<" ", "\n">>

\* "Resulting formatted string needs to be less than 1024 characters": below
\* that bound no printing function leaves its buffer, and every call returns.
Contained ==
  (call.fn \in Printing /\ Unambiguous /\ Len(Joined(OutOf)) < PRINTBUFLEN) ~> (pc = "done")

=============================================================================
