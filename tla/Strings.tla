------------------------------ MODULE Strings -------------------------------
(***************************************************************************)
(* The pure functions of the kernel: memcpy, memset, memmove and strstr of   *)
(* main.c, itoa and utoa of itoa.c, ultoa (of which uitoa and iltoa are      *)
(* copies), as operators that follow the loops of the code.                 *)
(*                                                                          *)
(* A memory is a function from addresses.  A 64-bit word is the tuple of its *)
(* four 16-bit limbs, the highest first, so that the conversions run at     *)
(* their real width.  A text is a sequence of characters.                   *)
(***************************************************************************)
EXTENDS Integers, Sequences

Nul == "nul"      \* '\0'
Junk == "junk"    \* a byte that nothing has written

Least(S) == CHOOSE i \in S : \A j \in S : i <= j

\* use(x), written so that TLC evaluates x once.
Once(x, use(_)) == CHOOSE r \in {use(y) : y \in {z \in {x} : z = z}} : TRUE

\* turn(... turn(turn(x, 1), 2) ..., n): n turns of a loop.
Loop(x, n, turn(_, _)) ==
  LET after[i \in 0 .. n] == IF i = 0 THEN x ELSE Once(after[i - 1], LAMBDA p : turn(p, i))
  IN  after[n]

-----------------------------------------------------------------------------
(* Memory.                                                                  *)

memset(m, s, c, n) == [a \in DOMAIN m |-> IF a \in s .. s + n - 1 THEN c ELSE m[a]]

\* Turn i copies byte from[i] to byte to[i]; what has been written may be read again.
Copy(m, to, from, n) == Loop(m, n, LAMBDA p, i : [p EXCEPT ![to[i]] = p[from[i]]])

\* From the lowest byte.
memcpy(m, dest, src, n) ==
  Copy(m, [i \in 1 .. n |-> dest + i - 1], [i \in 1 .. n |-> src + i - 1], n)

\* From the highest byte.
CopyDown(m, dest, src, n) ==
  Copy(m, [i \in 1 .. n |-> dest + n - i], [i \in 1 .. n |-> src + n - i], n)

\* Mutant of memmove: always from the lowest byte.
MoveUpOnly(m, dest, src, n) == memcpy(m, dest, src, n)

memmove(m, dest, src, n) ==
  IF src > dest THEN memcpy(m, dest, src, n)
  ELSE IF src < dest THEN CopyDown(m, dest, src, n)
  ELSE m

-----------------------------------------------------------------------------
(* Search.                                                                  *)

IsText(s) == s \in Seq(STRING \ {Nul})

\* Character i of a text, the terminator behind its end.
Char(s, i) == IF i > Len(s) THEN Nul ELSE s[i]

\* One step per turn of the loop; a mismatch starts again at retry.
Search(hay, needle, retry(_)) ==
  LET turn(p, t) ==
        IF Char(needle, p.n) = Nul \/ Char(hay, p.h) = Nul THEN p
        ELSE IF Char(hay, p.h) = Char(needle, p.n)
        THEN [from |-> p.from, h |-> p.h + 1, n |-> p.n + 1]
        ELSE [from |-> retry(p), h |-> retry(p), n |-> 1]
      end == Loop([from |-> 1, h |-> 1, n |-> 1], (Len(hay) + 1) * (Len(needle) + 1), turn)
  IN  IF Char(needle, end.n) = Nul THEN end.from ELSE 0

\* Mutant of strstr: after a mismatch the search goes on from where it was met.
StrstrNoBackup(hay, needle) == Search(hay, needle, LAMBDA p : p.h + 1)

\* The position of needle in hay, 0 for NULL.
strstr(hay, needle) == Search(hay, needle, LAMBDA p : p.from + 1)

-----------------------------------------------------------------------------
(* 64-bit words.                                                            *)

LIMB == 65536
Word == [1 .. 4 -> 0 .. LIMB - 1]
Zero == <<0, 0, 0, 0>>
Int64Min == <<32768, 0, 0, 0>>
Negative(v) == v[1] >= 32768

\* Long division by a small number, limb by limb.
DivMod(v, b) ==
  LET d2 == (v[1] % b) * LIMB + v[2]
      d3 == (d2 % b) * LIMB + v[3]
      d4 == (d3 % b) * LIMB + v[4]
  IN  [quot |-> <<v[1] \div b, d2 \div b, d3 \div b, d4 \div b>>, rem |-> d4 % b]

\* The remainders of v divided by b until nothing is left, at least one.
Digits(v, b) ==
  LET turn(p, k) ==
        IF p.left = Zero /\ k > 1 THEN p
        ELSE LET d == DivMod(p.left, b) IN [left |-> d.quot, seq |-> Append(p.seq, d.rem)]
  IN  Loop([left |-> v, seq |-> << >>], 64, turn).seq

\* Two's complement.
Neg(v) ==
  LET carry(i) == IF \A j \in i + 1 .. 4 : v[j] = 0 THEN 1 ELSE 0
      limb(i) == (LIMB - 1 - v[i] + carry(i)) % LIMB
  IN  <<limb(1), limb(2), limb(3), limb(4)>>

\* What va_arg of a 32-bit type leaves of an argument.
Unsigned32(v) == <<0, 0, v[3], v[4]>>
Signed32(v) == IF v[3] >= 32768 THEN <<LIMB - 1, LIMB - 1, v[3], v[4]>> ELSE Unsigned32(v)

-----------------------------------------------------------------------------
(* Numbers to text.                                                         *)

Digit(d) ==
  <<"0", "1", "2", "3", "4", "5", "6", "7", "8", "9", "a", "b", "c", "d", "e", "f", "g", "h",
    "i", "j", "k", "l", "m", "n", "o", "p", "q", "r", "s", "t", "u", "v", "w", "x", "y", "z">>[d + 1]

\* Digits that 64 bits may take, by base.
BASE_MAX_DIGIT_MAP ==
  [b \in 2 .. 16 |-> <<64, 41, 32, 28, 25, 23, 22, 21, 20, 19, 18, 18, 17, 17, 16>>[b - 1]]

\* Mutant of Offset: one short.
OffsetShort(n, max) == max - n

\* The first loop of itoa and utoa counts down from max, once for each of the n
\* digits, to its break or to 0.
Offset(n, max) == IF n <= max THEN max - n + 1 ELSE 0

\* The second loop: the digits' characters cs, the lowest at index i, each of the
\* others one below; it ends with the last digit, or below index low.
PutDigits(buf, cs, i, low) ==
  [p \in DOMAIN buf |-> IF p \in low .. i /\ i - p < Len(cs) THEN cs[i - p + 1] ELSE buf[p]]

\* The text of v in str, a buffer with addresses from 0.  The negation of
\* Int64Min overflows: the build may divide it as unsigned, or wrap, and then a
\* remainder below zero reads in front of the table of digits.
Overflows(v) == IF v = Int64Min THEN BOOLEAN ELSE {FALSE}

itoa(v, str, base, wraps) ==
  LET max == BASE_MAX_DIGIT_MAP[base]
      buf == memset(str, 0, Nul, max + 1)
      neg == Negative(v)
      cs(ds) == [k \in DOMAIN ds |-> IF wraps /\ ds[k] # 0 THEN Junk ELSE Digit(ds[k])]
      put(ds) == LET i == (IF neg THEN max + 1 ELSE max) - Offset(Len(ds), max)
                 IN  PutDigits(buf, cs(ds), i, IF neg THEN 1 ELSE 0)
  IN  IF base \notin DOMAIN BASE_MAX_DIGIT_MAP THEN str
      ELSE IF v = Zero THEN [buf EXCEPT ![0] = "0"]
      ELSE IF neg THEN [Once(Digits(Neg(v), base), put) EXCEPT ![0] = "-"]
      ELSE Once(Digits(v, base), put)

utoa(v, str, base) ==
  LET max == BASE_MAX_DIGIT_MAP[base]
      buf == memset(str, 0, Nul, max + 1)
      cs(ds) == [k \in DOMAIN ds |-> Digit(ds[k])]
      put(ds) == PutDigits(buf, cs(ds), max - Offset(Len(ds), max), 0)
  IN  IF base \notin DOMAIN BASE_MAX_DIGIT_MAP THEN str
      ELSE IF v = Zero THEN [buf EXCEPT ![0] = "0"]
      ELSE Once(Digits(v, base), put)

\* The first n bytes in the opposite order: swaps from both ends inwards.
Swap(buf, i, j) == [buf EXCEPT ![i] = buf[j], ![j] = buf[i]]
Reverse(buf, n) == Loop(buf, n \div 2, LAMBDA b, k : Swap(b, k - 1, n - k))

\* The digits with the lowest first and a terminator, then turned round.
ultoa(v, str, base) ==
  LET raw(ds) == [p \in DOMAIN str |-> IF p < Len(ds) THEN Digit(ds[p + 1])
                                       ELSE IF p = Len(ds) THEN Nul ELSE str[p]]
      reversed(ds) == Reverse(raw(ds), Len(ds))
  IN  IF base \notin 2 .. 36 THEN [str EXCEPT ![0] = Nul] ELSE Once(Digits(v, base), reversed)

\* A buffer read as a C string; without a terminator the read leaves it.
Overrun == <<Junk>>
Text(buf) ==
  Once(buf, LAMBDA b :
    LET ends == {p \in DOMAIN b : b[p] = Nul}
    IN  IF ends = {} THEN Overrun ELSE [i \in 1 .. Least(ends) |-> b[i - 1]])

=============================================================================
