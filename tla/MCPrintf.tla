------------------------------ MODULE MCPrintf ------------------------------
(***************************************************************************)
(* Memories of five bytes, texts of up to four letters, numbers around every  *)
(* change of length and sign, and formats of up to three pieces, some of     *)
(* which just fill the buffer.                                              *)
(***************************************************************************)
EXTENDS Printf

Texts(n) == UNION {[1 .. k -> {"a", "b"}] : k \in 0 .. n}

\* The characters of a literal.
Chars(t) == [k \in 1 .. Len(t) |-> SubSeq(t, k, k)]

Bytes == [a \in 0 .. 4 |-> a]
Apart(d, s, n) == d + n <= s \/ s + n <= d
Moves ==
  {c \in [fn : {"memcpy", "memmove", "memset"}, mem : {Bytes}, dest : 0 .. 4, src : 0 .. 4, n : 0 .. 4] :
     /\ c.dest + c.n <= 5 /\ c.src + c.n <= 5
     /\ c.fn = "memcpy" => Apart(c.dest, c.src, c.n)}

Searches == [fn : {"strstr"}, hay : Texts(4), needle : Texts(3)]

\* Around 0, powers of two and ten, the ends of 32 and 64 bits.
Words ==
  {Zero, <<0, 0, 0, 1>>, <<0, 0, 0, 9>>, <<0, 0, 0, 10>>, <<0, 0, 0, 99>>, <<0, 0, 0, 100>>,
   <<0, 0, 32767, 65535>>, <<0, 0, 32768, 0>>, <<0, 0, 65535, 65535>>, <<0, 1, 0, 0>>,
   <<3552, 46771, 42852, 0>>, <<3552, 46771, 42851, 65535>>, <<4096, 0, 0, 0>>,
   <<32767, 65535, 65535, 65535>>, Int64Min, <<32768, 0, 0, 1>>, <<35527, 8964, 35304, 0>>,
   <<61440, 0, 0, 0>>, <<61439, 65535, 65535, 65535>>, <<65535, 65535, 65535, 65535>>}

\* The buffers of printf and of the memory map.
Conversions ==
  {c \in [fn : {"itoa", "utoa", "ultoa"}, value : Words, base : 2 .. 16 \cup {17, 36},
          room : {40, 100}, fill : {Nul, Junk}] : IsConversion(c)}

SomeCalls == Moves \cup Searches \cup Conversions

P(f, a, o, fl) == [fmt |-> Chars(f), arg |-> a, out |-> Chars(o), flags |-> fl]
Max64 == <<65535, 65535, 65535, 65535>>
SomePieces ==
  {P("x", << >>, "x", FALSE), P("l", << >>, "l", FALSE), P("%%", << >>, "%", FALSE),
   P("% ", << >>, "%", FALSE), P("%d", << >>, "d", FALSE), P("%", << >>, "", FALSE),
   P("%s", <<Chars("abcd")>>, "abcd", FALSE), P("%s", <<Chars("")>>, "", FALSE),
   P("%i", <<<<7, 7, 65535, 65531>>>>, "-5", TRUE), P("%u", <<<<7, 7, 0, 5>>>>, "5", TRUE),
   P("%ul", <<Max64>>, "18446744073709551615", TRUE), P("%li", <<<<0, 1, 0, 3>>>>, "3", TRUE),
   P("%ulh", <<Max64>>, "0xffffffffffffffff", TRUE), P("%l", <<Max64>>, "-1", TRUE),
   P("%p", <<<<65535, 32768, 8, 51600>>>>, "0xffff80000008c990", FALSE)}

Formats(n) == {s \in UNION {[1 .. k -> SomePieces] : k \in 0 .. n} : IsFormat(s)}
SomePrints ==
  [fn : {"printf"}, pieces : Formats(3)]
  \cup [fn : {"println", "serial_printf", "sprintf"}, pieces : Formats(2)]

=============================================================================
