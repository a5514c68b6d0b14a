----------------------------- MODULE PrintfProofs -----------------------------
(***************************************************************************)
(* Proofs about the string and number functions and about _vprintf, for      *)
(* every memory, text, 64-bit value, base and format.                       *)
(*                                                                          *)
(* A loop of the code is a function from the number of turns to its state    *)
(* (Turns); what holds after each turn is shown by induction over the set of *)
(* the turns that have it (Induct).  A word is the number of its limbs       *)
(* (Num), a numeral the chain of its quotients and remainders (Remainders),  *)
(* and the powers of the base bound its length by the entry of the table.    *)
(* A format is its pieces: a turn of _vprintf begins between two of them, or *)
(* behind a sign that it has dropped (Progress).                            *)
(***************************************************************************)
EXTENDS Printf, WellFoundedInduction, SequenceTheorems, TLAPS

-----------------------------------------------------------------------------
(* Loops.                                                                   *)

LessThan == {p \in Nat \X Nat : p[1] < p[2]}

\* A set of numbers that is not empty has a least element.
LEMMA HasLeast ==
  ASSUME NEW S, S \subseteq Nat, S # {}
  PROVE  \E x \in S : \A y \in S : x <= y
<1>1. IsWellFoundedOn(LessThan, Nat)
  BY NatLessThanWellFounded, Zenon DEF OpToRel, LessThan
<1>2. PICK x \in S : \A y \in S : ~ (<<y, x>> \in LessThan)
  BY <1>1, WFMin
<1>3. ASSUME NEW y \in S
      PROVE  x <= y
  <2>1. x \in Nat /\ y \in Nat
    OBVIOUS
  <2>2. <<y, x>> \in LessThan <=> y < x
    BY <2>1 DEF LessThan
  <2> QED
    BY <1>2, <2>1, <2>2
<1> QED
  BY <1>3

\* Induction up to n, with a set in place of a predicate.
LEMMA Induct ==
  ASSUME NEW n \in Nat, NEW S, 0 \in S, \A i \in 1 .. n : i - 1 \in S => i \in S
  PROVE  \A i \in 0 .. n : i \in S
<1> DEFINE Bad == {i \in 0 .. n : i \notin S}
<1>1. SUFFICES ASSUME Bad # {} PROVE FALSE
  OBVIOUS
<1>2. PICK k \in Bad : \A j \in Bad : k <= j
  <2>1. Bad \subseteq Nat
    OBVIOUS
  <2> QED
    BY <1>1, <2>1, HasLeast
<1>3. k \in 1 .. n /\ k - 1 \in 0 .. n
  BY <1>2
<1>4. k - 1 \notin Bad
  BY <1>2, <1>3
<1> QED
  BY <1>2, <1>3, <1>4

\* g has the states of a loop of n turns that starts in x: turn i takes p to T[i][p].
Turns(S, x, n, T, g) ==
  /\ g \in [0 .. n -> S]
  /\ g[0] = x
  /\ \A i \in 1 .. n : g[i] = T[i][g[i - 1]]

\* Every loop has such states.
LEMMA CanTurn ==
  ASSUME NEW n \in Nat, NEW S, NEW x \in S, NEW T \in [1 .. n -> [S -> S]]
  PROVE  \E g : Turns(S, x, n, T, g)
<1> DEFINE Good == {k \in 0 .. n : \E g : Turns(S, x, k, T, g)}
<1>1. 0 \in Good
  <2> DEFINE g == [i \in 0 .. 0 |-> x]
  <2>1. Turns(S, x, 0, T, g)
    BY DEF Turns
  <2> QED
    BY <2>1
<1>2. ASSUME NEW k \in 1 .. n, k - 1 \in Good
      PROVE  k \in Good
  <2>1. PICK g : Turns(S, x, k - 1, T, g)
    BY <1>2
  <2>2. /\ g \in [0 .. k - 1 -> S] /\ g[0] = x
        /\ \A i \in 1 .. k - 1 : g[i] = T[i][g[i - 1]]
    BY <2>1 DEF Turns
  <2> DEFINE e == [i \in 0 .. k |-> IF i < k THEN g[i] ELSE T[k][g[k - 1]]]
  <2>3. g[k - 1] \in S /\ T[k][g[k - 1]] \in S
    BY <2>2
  <2>4. e \in [0 .. k -> S]
    BY <2>2, <2>3
  <2>5. e[0] = x
    BY <2>2
  <2>6. \A i \in 1 .. k : e[i] = T[i][e[i - 1]]
    <3> SUFFICES ASSUME NEW i \in 1 .. k PROVE e[i] = T[i][e[i - 1]]
      OBVIOUS
    <3>1. CASE i < k
      BY <2>2, <3>1
    <3>2. CASE i = k
      BY <2>2, <3>2
    <3> QED
      BY <3>1, <3>2
  <2> HIDE DEF e
  <2>7. Turns(S, x, k, T, e)
    BY <2>4, <2>5, <2>6 DEF Turns
  <2> QED
    BY <2>7
<1>3. \A k \in 0 .. n : k \in Good
  <2> HIDE DEF Good
  <2> QED
    BY <1>1, <1>2, Induct
<1> QED
  BY <1>3

\* The states are determined: whatever takes the same turns ends in the same state.
LEMMA SameTurns ==
  ASSUME NEW n \in Nat, NEW S, NEW x, NEW T, NEW g, Turns(S, x, n, T, g),
         NEW a, a[0] = x, \A i \in 1 .. n : a[i - 1] \in S => a[i] = T[i][a[i - 1]]
  PROVE  \A i \in 0 .. n : a[i] = g[i]
<1> DEFINE Same == {i \in 0 .. n : a[i] = g[i]}
<1>1. /\ g \in [0 .. n -> S] /\ g[0] = x
      /\ \A i \in 1 .. n : g[i] = T[i][g[i - 1]]
  BY DEF Turns
<1>2. 0 \in Same
  BY <1>1
<1>3. ASSUME NEW i \in 1 .. n, i - 1 \in Same
      PROVE  i \in Same
  <2>1. a[i - 1] = g[i - 1] /\ g[i - 1] \in S
    BY <1>1, <1>3
  <2> QED
    BY <1>1, <2>1
<1>4. \A i \in 0 .. n : i \in Same
  <2> HIDE DEF Same
  <2> QED
    BY <1>2, <1>3, Induct
<1> QED
  BY <1>4

-----------------------------------------------------------------------------
(* memcpy and memmove.                                                      *)

\* One byte copied.
Copied(p, d, s) == [p EXCEPT ![d] = p[s]]

\* The memories of Copy, turn by turn.
Copying(M, m, to, from, n, g) ==
  /\ g \in [0 .. n -> M]
  /\ g[0] = m
  /\ \A i \in 1 .. n : g[i] = Copied(g[i - 1], to[i], from[i])
  /\ Copy(m, to, from, n) = g[n]

\* The states of Copy, turn by turn, and that it ends in the last.
LEMMA CopyTurns ==
  ASSUME NEW A, NEW V, NEW m \in [A -> V], NEW n \in Nat,
         NEW to \in [1 .. n -> A], NEW from \in [1 .. n -> A]
  PROVE  \E g : Copying([A -> V], m, to, from, n, g)
<1> DEFINE S == [A -> V]
           T == [i \in 1 .. n |-> [p \in S |-> Copied(p, to[i], from[i])]]
           Eqn(g) == g = [i \in 0 .. n |-> IF i = 0 THEN m ELSE
                            Once(g[i - 1], LAMBDA p : [p EXCEPT ![to[i]] = p[from[i]]])]
           after == CHOOSE g : Eqn(g)
<1>1. T \in [1 .. n -> [S -> S]]
  <2>1. ASSUME NEW i \in 1 .. n, NEW p \in S PROVE Copied(p, to[i], from[i]) \in S
    BY DEF Copied
  <2> QED
    BY <2>1
<1>2. \A i \in 1 .. n, p \in S : T[i][p] = Copied(p, to[i], from[i])
  OBVIOUS
<1>3. Copy(m, to, from, n) = after[n]
  BY Zenon DEF Copy, Loop
<1>4. ASSUME NEW g
      PROVE  Eqn(g) <=> g = [i \in 0 .. n |-> IF i = 0 THEN m ELSE Copied(g[i - 1], to[i], from[i])]
  <2>1. ASSUME NEW i
        PROVE  Once(g[i - 1], LAMBDA p : [p EXCEPT ![to[i]] = p[from[i]]]) = Copied(g[i - 1], to[i], from[i])
    BY DEF Once, Copied
  <2> QED
    BY <2>1, Zenon
<1> HIDE DEF T, Eqn
<1>5. PICK g : Turns(S, m, n, T, g)
  BY <1>1, CanTurn
<1>6. g \in [0 .. n -> S] /\ g[0] = m /\ \A i \in 1 .. n : g[i] = Copied(g[i - 1], to[i], from[i])
  <2>1. g \in [0 .. n -> S] /\ g[0] = m /\ \A i \in 1 .. n : g[i] = T[i][g[i - 1]]
    BY <1>5, Zenon DEF Turns
  <2> HIDE DEF S
  <2>2. ASSUME NEW i \in 1 .. n PROVE g[i] = Copied(g[i - 1], to[i], from[i])
    <3>1. g[i - 1] \in S
      BY <2>1
    <3> QED
      BY <1>2, <2>1, <3>1, Zenon
  <2> QED
    BY <2>1, <2>2, Zenon
<1>7. Eqn(g)
  <2>1. g = [i \in 0 .. n |-> IF i = 0 THEN m ELSE Copied(g[i - 1], to[i], from[i])]
    BY <1>6
  <2> QED
    BY <1>4, <2>1
<1>8. Eqn(after)
  BY <1>7
<1> HIDE DEF after
<1>9. after[0] = m /\ \A i \in 1 .. n : after[i] = Copied(after[i - 1], to[i], from[i])
  <2>1. after = [i \in 0 .. n |-> IF i = 0 THEN m ELSE Copied(after[i - 1], to[i], from[i])]
    BY <1>4, <1>8
  <2> QED
    BY <2>1
<1>10. \A i \in 0 .. n : after[i] = g[i]
  <2>1. \A i \in 1 .. n : after[i - 1] \in S => after[i] = T[i][after[i - 1]]
    BY <1>2, <1>9
  <2> QED
    BY <1>5, <1>9, <2>1, SameTurns
<1> QED
  BY <1>3, <1>6, <1>10 DEF Copying

\* What a move leaves in byte a: what src had, or what was there.
Moved(m, dest, src, n, a) == m[IF a \in dest .. dest + n - 1 THEN src + (a - dest) ELSE a]

\* A copy from the lowest byte moves the bytes when no byte of src is written before
\* it is read.
LEMMA CopiesUp ==
  ASSUME NEW A, NEW V, NEW m \in [A -> V], NEW n \in Nat, NEW dest \in Int, NEW src \in Int,
         dest .. dest + n - 1 \subseteq A, src .. src + n - 1 \subseteq A,
         dest <= src \/ src + n <= dest
  PROVE  \A a \in A : memcpy(m, dest, src, n)[a] = Moved(m, dest, src, n, a)
<1> DEFINE to == [i \in 1 .. n |-> dest + i - 1]
           from == [i \in 1 .. n |-> src + i - 1]
<1>1. to \in [1 .. n -> A] /\ from \in [1 .. n -> A]
  OBVIOUS
<1>2. \A i \in 1 .. n : to[i] = dest + i - 1 /\ from[i] = src + i - 1
  OBVIOUS
<1>3. memcpy(m, dest, src, n) = Copy(m, to, from, n)
  BY DEF memcpy
<1> HIDE DEF to, from
<1>4. PICK g : Copying([A -> V], m, to, from, n, g)
  BY <1>1, CopyTurns
<1>5. /\ g \in [0 .. n -> [A -> V]] /\ g[0] = m
      /\ \A i \in 1 .. n : g[i] = Copied(g[i - 1], dest + i - 1, src + i - 1)
      /\ memcpy(m, dest, src, n) = g[n]
  BY <1>2, <1>3, <1>4 DEF Copying
<1> DEFINE Good == {i \in 0 .. n : \A a \in A : g[i][a] = Moved(m, dest, src, i, a)}
<1>6. 0 \in Good
  BY <1>5 DEF Moved
<1>7. ASSUME NEW i \in 1 .. n, i - 1 \in Good
      PROVE  i \in Good
  <2>1. /\ dest + i - 1 \in A /\ src + i - 1 \in A
        /\ \A a \in A : g[i - 1][a] = Moved(m, dest, src, i - 1, a)
    BY <1>7
  <2>2. g[i - 1][src + i - 1] = m[src + i - 1]
    BY <2>1 DEF Moved
  <2>3. ASSUME NEW a \in A
        PROVE  g[i][a] = Moved(m, dest, src, i, a)
    <3>1. g[i] = [g[i - 1] EXCEPT ![dest + i - 1] = m[src + i - 1]] /\ g[i - 1] \in [A -> V]
      BY <1>5, <2>2 DEF Copied
    <3>2. CASE a = dest + i - 1
      BY <2>1, <3>1, <3>2 DEF Moved
    <3>3. CASE a # dest + i - 1
      <4>1. a \in dest .. dest + i - 1 <=> a \in dest .. dest + (i - 1) - 1
        BY <3>3
      <4> QED
        BY <2>1, <3>1, <3>3, <4>1 DEF Moved
    <3> QED
      BY <3>2, <3>3
  <2> QED
    BY <2>3
<1>8. \A i \in 0 .. n : i \in Good
  <2> HIDE DEF Good
  <2> QED
    BY <1>6, <1>7, Induct
<1> QED
  BY <1>5, <1>8

\* A copy from the highest byte does so in the other cases.
LEMMA CopiesDown ==
  ASSUME NEW A, NEW V, NEW m \in [A -> V], NEW n \in Nat, NEW dest \in Int, NEW src \in Int,
         dest .. dest + n - 1 \subseteq A, src .. src + n - 1 \subseteq A,
         src <= dest
  PROVE  \A a \in A : CopyDown(m, dest, src, n)[a] = Moved(m, dest, src, n, a)
<1> DEFINE to == [i \in 1 .. n |-> dest + n - i]
           from == [i \in 1 .. n |-> src + n - i]
<1>1. to \in [1 .. n -> A] /\ from \in [1 .. n -> A]
  OBVIOUS
<1>2. \A i \in 1 .. n : to[i] = dest + n - i /\ from[i] = src + n - i
  OBVIOUS
<1>3. CopyDown(m, dest, src, n) = Copy(m, to, from, n)
  BY DEF CopyDown
<1> HIDE DEF to, from
<1>4. PICK g : Copying([A -> V], m, to, from, n, g)
  BY <1>1, CopyTurns
<1>5. /\ g \in [0 .. n -> [A -> V]] /\ g[0] = m
      /\ \A i \in 1 .. n : g[i] = Copied(g[i - 1], dest + n - i, src + n - i)
      /\ CopyDown(m, dest, src, n) = g[n]
  BY <1>2, <1>3, <1>4 DEF Copying
<1> DEFINE Good == {i \in 0 .. n : \A a \in A : g[i][a] = Moved(m, dest + n - i, src + n - i, i, a)}
<1>6. 0 \in Good
  BY <1>5 DEF Moved
<1>7. ASSUME NEW i \in 1 .. n, i - 1 \in Good
      PROVE  i \in Good
  <2>1. /\ dest + n - i \in A /\ src + n - i \in A
        /\ \A a \in A : g[i - 1][a] = Moved(m, dest + n - i + 1, src + n - i + 1, i - 1, a)
    BY <1>7
  <2>2. g[i - 1][src + n - i] = m[src + n - i]
    BY <2>1 DEF Moved
  <2>3. ASSUME NEW a \in A
        PROVE  g[i][a] = Moved(m, dest + n - i, src + n - i, i, a)
    <3>1. g[i] = [g[i - 1] EXCEPT ![dest + n - i] = m[src + n - i]] /\ g[i - 1] \in [A -> V]
      BY <1>5, <2>2 DEF Copied
    <3>2. CASE a = dest + n - i
      BY <2>1, <3>1, <3>2 DEF Moved
    <3>3. CASE a # dest + n - i
      <4>1. /\ dest + n - i + 1 + (i - 1) - 1 = dest + n - 1 /\ dest + n - i + i - 1 = dest + n - 1
            /\ a \in dest + n - i .. dest + n - 1 <=> a \in dest + n - i + 1 .. dest + n - 1
        BY <3>3
      <4>2. a \in dest + n - i .. dest + n - 1 =>
              src + n - i + 1 + (a - (dest + n - i + 1)) = src + n - i + (a - (dest + n - i))
        OBVIOUS
      <4> QED
        BY <2>1, <3>1, <3>3, <4>1, <4>2 DEF Moved
    <3> QED
      BY <3>2, <3>3
  <2> QED
    BY <2>3
<1>8. \A i \in 0 .. n : i \in Good
  <2> HIDE DEF Good
  <2> QED
    BY <1>6, <1>7, Induct
<1>9. \A a \in A : Moved(m, dest + n - n, src + n - n, n, a) = Moved(m, dest, src, n, a)
  BY DEF Moved
<1> QED
  BY <1>5, <1>8, <1>9

\* memmove moves the bytes whichever way the regions overlap.
LEMMA MemmoveMoves ==
  ASSUME NEW A, NEW V, NEW m \in [A -> V], NEW n \in Nat, NEW dest \in Int, NEW src \in Int,
         dest .. dest + n - 1 \subseteq A, src .. src + n - 1 \subseteq A
  PROVE  \A a \in A : memmove(m, dest, src, n)[a] = Moved(m, dest, src, n, a)
<1>1. CASE src > dest
  BY <1>1, CopiesUp DEF memmove
<1>2. CASE src < dest
  BY <1>2, CopiesDown DEF memmove
<1>3. CASE src = dest
  BY <1>3 DEF memmove, Moved
<1> QED
  BY <1>1, <1>2, <1>3

-----------------------------------------------------------------------------
(* strstr.                                                                  *)

\* One turn of its loop.
SearchTurn(hay, needle, p) ==
  IF Char(needle, p.n) = Nul \/ Char(hay, p.h) = Nul THEN p
  ELSE IF Char(hay, p.h) = Char(needle, p.n)
  THEN [from |-> p.from, h |-> p.h + 1, n |-> p.n + 1]
  ELSE [from |-> p.from + 1, h |-> p.from + 1, n |-> 1]

Positions == [from : Nat, h : Nat, n : Nat]
SearchStart == [from |-> 1, h |-> 1, n |-> 1]

\* The states of strstr, turn by turn, and its result.
Searching(hay, needle, N, g) ==
  /\ g \in [0 .. N -> Positions]
  /\ g[0] = SearchStart
  /\ \A i \in 1 .. N : g[i] = SearchTurn(hay, needle, g[i - 1])
  /\ strstr(hay, needle) = IF Char(needle, g[N].n) = Nul THEN g[N].from ELSE 0

\* The states of Search, turn by turn.
LEMMA SearchTurns ==
  ASSUME NEW hay, NEW needle, (Len(hay) + 1) * (Len(needle) + 1) \in Nat
  PROVE  \E g : Searching(hay, needle, (Len(hay) + 1) * (Len(needle) + 1), g)
<1> DEFINE N == (Len(hay) + 1) * (Len(needle) + 1)
           S == Positions
           T == [i \in 1 .. N |-> [p \in S |-> SearchTurn(hay, needle, p)]]
           Eqn(g) == g = [i \in 0 .. N |-> IF i = 0 THEN [from |-> 1, h |-> 1, n |-> 1] ELSE
                            Once(g[i - 1], LAMBDA p :
                              IF Char(needle, p.n) = Nul \/ Char(hay, p.h) = Nul THEN p
                              ELSE IF Char(hay, p.h) = Char(needle, p.n)
                              THEN [from |-> p.from, h |-> p.h + 1, n |-> p.n + 1]
                              ELSE [from |-> p.from + 1, h |-> p.from + 1, n |-> 1])]
           after == CHOOSE g : Eqn(g)
<1>1. T \in [1 .. N -> [S -> S]]
  <2>1. ASSUME NEW p \in S PROVE SearchTurn(hay, needle, p) \in S
    BY DEF SearchTurn, Positions
  <2> QED
    BY <2>1
<1>2. \A i \in 1 .. N, p \in S : T[i][p] = SearchTurn(hay, needle, p)
  OBVIOUS
<1>3. strstr(hay, needle) = IF Char(needle, after[N].n) = Nul THEN after[N].from ELSE 0
  BY Zenon DEF strstr, Search, Loop
<1>4. ASSUME NEW g
      PROVE  Eqn(g) <=> g = [i \in 0 .. N |-> IF i = 0 THEN SearchStart ELSE SearchTurn(hay, needle, g[i - 1])]
  <2>1. ASSUME NEW x
        PROVE  Once(x, LAMBDA p :
                              IF Char(needle, p.n) = Nul \/ Char(hay, p.h) = Nul THEN p
                              ELSE IF Char(hay, p.h) = Char(needle, p.n)
                              THEN [from |-> p.from, h |-> p.h + 1, n |-> p.n + 1]
                              ELSE [from |-> p.from + 1, h |-> p.from + 1, n |-> 1])
               = SearchTurn(hay, needle, x)
    BY DEF Once, SearchTurn
  <2> QED
    BY <2>1, Zenon DEF SearchStart
<1> HIDE DEF N, T, Eqn
<1>0. N \in Nat
  BY DEF N
<1>5. PICK g : Turns(S, SearchStart, N, T, g)
  <2>1. SearchStart \in S
    BY DEF SearchStart, Positions
  <2> QED
    BY <1>0, <1>1, <2>1, CanTurn
<1>6. /\ g \in [0 .. N -> S] /\ g[0] = SearchStart
      /\ \A i \in 1 .. N : g[i] = SearchTurn(hay, needle, g[i - 1])
  BY <1>0, <1>2, <1>5 DEF Turns
<1>7. Eqn(g)
  <2>1. g = [i \in 0 .. N |-> IF i = 0 THEN SearchStart ELSE SearchTurn(hay, needle, g[i - 1])]
    BY <1>6
  <2> QED
    BY <1>4, <2>1
<1>8. Eqn(after)
  BY <1>7
<1> HIDE DEF after
<1>9. after[0] = SearchStart /\ \A i \in 1 .. N : after[i] = SearchTurn(hay, needle, after[i - 1])
  <2>1. after = [i \in 0 .. N |-> IF i = 0 THEN SearchStart ELSE SearchTurn(hay, needle, after[i - 1])]
    BY <1>4, <1>8
  <2> QED
    BY <1>0, <2>1
<1>10. \A i \in 0 .. N : after[i] = g[i]
  <2>1. \A i \in 1 .. N : after[i - 1] \in S => after[i] = T[i][after[i - 1]]
    BY <1>2, <1>9
  <2> QED
    BY <1>0, <1>5, <1>9, <2>1, SameTurns
<1> QED
  BY <1>0, <1>3, <1>6, <1>10 DEF Searching, N

\* A text ends where its length says.
LEMMA CharIs ==
  ASSUME NEW s, IsText(s), NEW i \in Nat \ {0}
  PROVE  /\ Len(s) \in Nat
         /\ Char(s, i) = Nul <=> i > Len(s)
         /\ i <= Len(s) => Char(s, i) = s[i]
BY DEF Char, IsText

\* needle is in hay at k.
OccursAt(hay, needle, k) ==
  /\ k + Len(needle) - 1 <= Len(hay)
  /\ \A j \in 1 .. Len(needle) : hay[k + j - 1] = needle[j]

\* The steps that a search has made, those that a mismatch skips included.
Steps(L, from, n) == (from - 1) * (L + 1) + (n - 1)

\* A product grows with its first factor.
LEMMA TimesLe ==
  ASSUME NEW a \in Nat, NEW b \in Nat, NEW c \in Nat, a <= b
  PROVE  a * c <= b * c
<1>1. b * c = a * c + (b - a) * c /\ (b - a) * c >= 0
  OBVIOUS
<1> QED
  BY <1>1

\* They start at 0, a match makes one, a mismatch one or more, and there is a bound.
LEMMA StepsAre ==
  ASSUME NEW L \in Nat, NEW from \in Nat \ {0}, NEW n \in 1 .. L + 1
  PROVE  /\ Steps(L, 1, 1) = 0
         /\ Steps(L, from, n) \in Nat
         /\ Steps(L, from, n + 1) = Steps(L, from, n) + 1
         /\ n <= L => Steps(L, from + 1, 1) >= Steps(L, from, n) + 1
         /\ \A H \in Nat : from <= H + 1 => Steps(L, from, n) < (H + 1) * (L + 1)
<1> DEFINE z == (from - 1) * (L + 1)
<1>1. z \in Nat
  OBVIOUS
<1>2. from * (L + 1) = z + (L + 1) /\ (1 - 1) * (L + 1) = 0
  OBVIOUS
<1>3. ASSUME NEW H \in Nat, from <= H + 1
      PROVE  z <= H * (L + 1) /\ (H + 1) * (L + 1) = H * (L + 1) + (L + 1)
  <2>1. from - 1 \in Nat /\ from - 1 <= H
    BY <1>3
  <2> QED
    BY <2>1, TimesLe
<1>4. ASSUME NEW H \in Nat, from <= H + 1
      PROVE  z + (n - 1) < (H + 1) * (L + 1)
  <2>1. PICK y : y = H * (L + 1)
    OBVIOUS
  <2>2. y \in Nat /\ z <= y /\ (H + 1) * (L + 1) = y + (L + 1)
    BY <1>3, <1>4, <2>1
  <2> HIDE DEF z
  <2> QED
    BY <1>1, <2>2
<1>5. from + 1 - 1 = from
  OBVIOUS
<1> HIDE DEF z
<1>6. (from - 1) * (L + 1) = z
  BY DEF z
<1> QED
  BY <1>1, <1>2, <1>4, <1>5, <1>6 DEF Steps

\* A match makes one more step, a mismatch at least one.
LEMMA StepsMatch ==
  ASSUME NEW L \in Nat, NEW from \in Nat \ {0}, NEW n \in Nat \ {0}, n <= L
  PROVE  /\ Steps(L, from, n) \in Nat
         /\ Steps(L, from, n + 1) = Steps(L, from, n) + 1
         /\ Steps(L, from + 1, 1) >= Steps(L, from, n) + 1
         /\ Steps(L, from + 1, 1) \in Nat
<1>1. /\ Steps(L, from, n) \in Nat
      /\ Steps(L, from, n + 1) = Steps(L, from, n) + 1
      /\ Steps(L, from + 1, 1) >= Steps(L, from, n) + 1
  BY StepsAre
<1>2. from + 1 \in Nat \ {0} /\ 1 \in 1 .. L + 1
  OBVIOUS
<1>3. Steps(L, from + 1, 1) \in Nat
  BY <1>2, StepsAre
<1> QED
  BY <1>1, <1>3

\* What holds after t turns: the characters before n match from from on, nothing
\* occurs further left, and the search has ended or made t steps.
Found(hay, needle, t, p) ==
  /\ p \in Positions /\ p.from \in 1 .. Len(hay) + 1 /\ p.n \in 1 .. Len(needle) + 1
  /\ p.h = p.from + p.n - 1 /\ p.h <= Len(hay) + 1
  /\ \A j \in 1 .. p.n - 1 : hay[p.from + j - 1] = needle[j]
  /\ \A k \in 1 .. p.from - 1 : ~ OccursAt(hay, needle, k)
  /\ \/ p.n > Len(needle) \/ p.h > Len(hay)
     \/ t <= Steps(Len(needle), p.from, p.n)

\* A turn of the loop of strstr keeps it.
LEMMA FoundStep ==
  ASSUME NEW hay, NEW needle, IsText(hay), IsText(needle), NEW t \in Nat, NEW p,
         Found(hay, needle, t, p)
  PROVE  Found(hay, needle, t + 1, SearchTurn(hay, needle, p))
<1> DEFINE H == Len(hay)
           L == Len(needle)
           q == SearchTurn(hay, needle, p)
<1>1. /\ p \in Positions /\ p.from \in 1 .. H + 1 /\ p.n \in 1 .. L + 1
      /\ p.h = p.from + p.n - 1 /\ p.h <= H + 1
      /\ \A j \in 1 .. p.n - 1 : hay[p.from + j - 1] = needle[j]
      /\ \A k \in 1 .. p.from - 1 : ~ OccursAt(hay, needle, k)
  BY DEF Found
<1>0. /\ p.from \in 1 .. H + 1 /\ p.n \in 1 .. L + 1
      /\ p.h = p.from + p.n - 1 /\ p.h <= H + 1
  BY <1>1
<1>2. p.n > L \/ p.h > H \/ t <= Steps(L, p.from, p.n)
  BY DEF Found
<1>3. /\ H \in Nat /\ L \in Nat
      /\ p.n \in Nat \ {0} /\ p.h \in Nat \ {0} /\ p.from \in Nat \ {0}
  <2>1. H \in Nat /\ L \in Nat
    BY DEF IsText
  <2> QED
    BY <1>1, <2>1 DEF Positions
<1>4. /\ Char(needle, p.n) = Nul <=> p.n > L
      /\ Char(hay, p.h) = Nul <=> p.h > H
      /\ p.n <= L => Char(needle, p.n) = needle[p.n]
      /\ p.h <= H => Char(hay, p.h) = hay[p.h]
  BY <1>3, CharIs
<1>5. CASE p.n > L \/ p.h > H
  <2>1. q = p
    BY <1>4, <1>5 DEF SearchTurn
  <2> QED
    BY <1>1, <1>5, <2>1 DEF Found
<1>6. CASE p.n <= L /\ p.h <= H /\ hay[p.h] = needle[p.n]
  <2>1. q = [from |-> p.from, h |-> p.h + 1, n |-> p.n + 1]
    BY <1>3, <1>4, <1>6 DEF SearchTurn
  <2>2. q.from = p.from /\ q.h = p.h + 1 /\ q.n = p.n + 1 /\ q \in Positions
    BY <1>3, <2>1 DEF Positions
  <2> HIDE DEF q
  <2>3. t + 1 <= Steps(L, q.from, q.n)
    <3>1. Steps(L, p.from, p.n) \in Nat /\ Steps(L, p.from, p.n + 1) = Steps(L, p.from, p.n) + 1
      BY <1>3, <1>6, StepsMatch
    <3>2. t <= Steps(L, p.from, p.n)
      BY <1>2, <1>3, <1>6
    <3>3. t + 1 <= Steps(L, p.from, p.n + 1)
      BY <3>1, <3>2
    <3> QED
      BY <2>2, <3>3
  <2>4. \A j \in 1 .. q.n - 1 : hay[q.from + j - 1] = needle[j]
    BY <1>1, <1>3, <1>6, <2>2, SMTT(30)
  <2>5. Found(hay, needle, t + 1, q)
    <3>1. q.from \in 1 .. H + 1 /\ q.n \in 1 .. L + 1 /\ q.h = q.from + q.n - 1 /\ q.h <= H + 1
      <4>1. /\ p.from \in 1 .. H + 1 /\ p.n + 1 \in 1 .. L + 1
            /\ p.h + 1 = p.from + (p.n + 1) - 1 /\ p.h + 1 <= H + 1
        <5>1. p.n <= L /\ p.h <= H
          BY <1>6
        <5> HIDE DEF H, L
        <5> QED
          BY <1>0, <1>3, <5>1
      <4> QED
        BY <2>2, <4>1
    <3>2. \A k \in 1 .. q.from - 1 : ~ OccursAt(hay, needle, k)
      BY <1>1, <2>2
    <3> QED
      BY <2>2, <2>3, <2>4, <3>1, <3>2 DEF Found
  <2> QED
    BY <2>5 DEF q
<1>7. CASE p.n <= L /\ p.h <= H /\ hay[p.h] # needle[p.n]
  <2>1. q = [from |-> p.from + 1, h |-> p.from + 1, n |-> 1]
    BY <1>3, <1>4, <1>7 DEF SearchTurn
  <2>2. q.from = p.from + 1 /\ q.h = p.from + 1 /\ q.n = 1 /\ q \in Positions
    BY <1>3, <2>1 DEF Positions
  <2> HIDE DEF q
  <2>3. t + 1 <= Steps(L, q.from, q.n)
    <3>1. /\ Steps(L, p.from, p.n) \in Nat /\ Steps(L, p.from + 1, 1) \in Nat
          /\ Steps(L, p.from + 1, 1) >= Steps(L, p.from, p.n) + 1
      BY <1>3, <1>7, StepsMatch
    <3>2. t <= Steps(L, p.from, p.n)
      BY <1>2, <1>3, <1>7
    <3>3. t + 1 <= Steps(L, p.from + 1, 1)
      BY <3>1, <3>2
    <3> QED
      BY <2>2, <3>3
  <2>4. ~ OccursAt(hay, needle, p.from)
    BY <1>1, <1>3, <1>7 DEF OccursAt
  <2>5. \A k \in 1 .. q.from - 1 : ~ OccursAt(hay, needle, k)
    BY <1>1, <1>3, <2>2, <2>4
  <2>6. Found(hay, needle, t + 1, q)
    <3>1. q.from \in 1 .. H + 1 /\ q.n \in 1 .. L + 1 /\ q.h = q.from + q.n - 1 /\ q.h <= H + 1
      <4>1. /\ p.from + 1 \in 1 .. H + 1 /\ 1 \in 1 .. L + 1
            /\ p.from + 1 = (p.from + 1) + 1 - 1 /\ p.from + 1 <= H + 1
        <5>1. p.n <= L /\ p.h <= H
          BY <1>7
        <5> HIDE DEF H, L
        <5> QED
          BY <1>0, <1>3, <5>1
      <4> QED
        BY <2>2, <4>1
    <3>2. \A j \in 1 .. q.n - 1 : hay[q.from + j - 1] = needle[j]
      BY <2>2
    <3> QED
      BY <2>2, <2>3, <2>5, <3>1, <3>2 DEF Found
  <2> QED
    BY <2>6 DEF q
<1> QED
  BY <1>3, <1>5, <1>6, <1>7

\* strstr returns the first occurrence, or 0 when there is none.
LEMMA StrstrFinds ==
  ASSUME NEW hay, NEW needle, IsText(hay), IsText(needle)
  PROVE  \/ /\ strstr(hay, needle) \in 1 .. Len(hay) - Len(needle) + 1
            /\ OccursAt(hay, needle, strstr(hay, needle))
            /\ \A k \in 1 .. strstr(hay, needle) - 1 : ~ OccursAt(hay, needle, k)
         \/ /\ strstr(hay, needle) = 0
            /\ \A k \in 1 .. Len(hay) - Len(needle) + 1 : ~ OccursAt(hay, needle, k)
<1> DEFINE H == Len(hay)
           L == Len(needle)
           N == (H + 1) * (L + 1)
<1>1. H \in Nat /\ L \in Nat
  BY DEF IsText
<1>2. N \in Nat
  BY <1>1
<1>3. PICK g : Searching(hay, needle, N, g)
  BY <1>2, SearchTurns
<1> HIDE DEF N
<1>4. /\ g \in [0 .. N -> Positions] /\ g[0] = SearchStart
      /\ \A i \in 1 .. N : g[i] = SearchTurn(hay, needle, g[i - 1])
      /\ strstr(hay, needle) = IF Char(needle, g[N].n) = Nul THEN g[N].from ELSE 0
  BY <1>3 DEF Searching
<1> DEFINE Good == {i \in 0 .. N : Found(hay, needle, i, g[i])}
<1>5. 0 \in Good
  <2>1. Found(hay, needle, 0, SearchStart)
    <3>1. Steps(L, 1, 1) = 0
      BY <1>1, StepsAre
    <3>2. SearchStart.from = 1 /\ SearchStart.n = 1 /\ SearchStart.h = 1 /\ SearchStart \in Positions
      BY DEF SearchStart, Positions
    <3> QED
      BY <1>1, <3>1, <3>2 DEF Found
  <2> QED
    BY <1>2, <1>4, <2>1
<1>6. ASSUME NEW i \in 1 .. N, i - 1 \in Good
      PROVE  i \in Good
  <2>1. Found(hay, needle, i - 1, g[i - 1]) /\ i - 1 \in Nat /\ (i - 1) + 1 = i
    BY <1>2, <1>6
  <2>2. Found(hay, needle, (i - 1) + 1, SearchTurn(hay, needle, g[i - 1]))
    BY <2>1, FoundStep
  <2> QED
    BY <1>4, <2>1, <2>2
<1>7. Found(hay, needle, N, g[N])
  <2> HIDE DEF Good
  <2>1. N \in Good
    BY <1>2, <1>5, <1>6, Induct
  <2> QED
    BY <2>1 DEF Good
<1>8. PICK p : p = g[N]
  OBVIOUS
<1>9. /\ p \in Positions /\ p.from \in 1 .. H + 1 /\ p.n \in 1 .. L + 1
      /\ p.h = p.from + p.n - 1 /\ p.h <= H + 1
      /\ \A j \in 1 .. p.n - 1 : hay[p.from + j - 1] = needle[j]
      /\ \A k \in 1 .. p.from - 1 : ~ OccursAt(hay, needle, k)
  BY <1>7, <1>8 DEF Found
<1>10. p.n > L \/ p.h > H
  <2>1. p.n > L \/ p.h > H \/ N <= Steps(L, p.from, p.n)
    BY <1>7, <1>8 DEF Found
  <2>2. Steps(L, p.from, p.n) \in Nat /\ Steps(L, p.from, p.n) < N
    <3>1. p.from \in Nat \ {0} /\ p.n \in 1 .. L + 1 /\ p.from <= H + 1
      BY <1>1, <1>9
    <3> QED
      BY <1>1, <3>1, StepsAre DEF N
  <2> QED
    BY <1>2, <2>1, <2>2
<1>11. Char(needle, p.n) = Nul <=> p.n > L
  BY <1>1, <1>9, CharIs
<1>12. CASE p.n > L
  <2>1. strstr(hay, needle) = p.from /\ p.n = L + 1
    BY <1>1, <1>4, <1>8, <1>9, <1>11, <1>12
  <2>2. OccursAt(hay, needle, p.from) /\ p.from \in 1 .. H - L + 1
    BY <1>1, <1>9, <2>1 DEF OccursAt
  <2> QED
    BY <1>9, <2>1, <2>2
<1>13. CASE p.n <= L
  <2>1. strstr(hay, needle) = 0
    BY <1>1, <1>4, <1>8, <1>9, <1>11, <1>13
  <2>2. p.h = H + 1
    BY <1>1, <1>9, <1>10, <1>13 DEF Positions
  <2>3. ASSUME NEW k \in 1 .. H - L + 1
        PROVE  ~ OccursAt(hay, needle, k)
    <3>1. k \in 1 .. p.from - 1
      BY <1>1, <1>9, <1>13, <2>2 DEF Positions
    <3> QED
      BY <1>9, <3>1
  <2> QED
    BY <2>1, <2>3
<1> QED
  BY <1>1, <1>9, <1>12, <1>13

-----------------------------------------------------------------------------
(* Numbers.                                                                 *)

\* LIMB as a number that the provers need not expand.
LEMMA LimbIs == LIMB \in Nat /\ LIMB >= 2
BY DEF LIMB

\* Quotient and remainder.
LEMMA DivIs ==
  ASSUME NEW x \in Nat, NEW b \in Nat, b # 0
  PROVE  /\ x \div b \in Nat /\ x % b \in 0 .. b - 1
         /\ x = (x \div b) * b + (x % b)
OBVIOUS

\* The quotient and the remainder are determined.
LEMMA DivUnique ==
  ASSUME NEW q \in Nat, NEW b \in Nat, NEW r \in 0 .. b - 1
  PROVE  (q * b + r) \div b = q /\ (q * b + r) % b = r
OBVIOUS

\* Different digits are different characters.
LEMMA DigitInjective ==
  ASSUME NEW d \in 0 .. 35, NEW e \in 0 .. 35, Digit(d) = Digit(e)
  PROVE  d = e
BY DEF Digit

\* One limb of a long division: the remainder r of the limbs above and the limb.
LEMMA LimbDivides ==
  ASSUME NEW B \in Nat, NEW b \in Nat, b # 0, NEW r \in 0 .. b - 1, NEW l \in 0 .. B - 1,
         NEW x, x = r * B + l
  PROVE  x \in Nat /\ x \div b \in 0 .. B - 1
<1>1. PICK y \in Nat : y = r * B /\ y + B <= b * B
  <2>1. (r + 1) * B <= b * B
    BY TimesLe
  <2>2. (r + 1) * B = r * B + B /\ r * B \in Nat
    OBVIOUS
  <2> QED
    BY <2>1, <2>2
<1>2. x \in Nat /\ x < b * B
  BY <1>1
<1>3. PICK q \in Nat : x \div b = q /\ q * b <= x
  <2>1. PICK q : q = x \div b
    OBVIOUS
  <2>2. PICK s : s = x % b
    OBVIOUS
  <2>3. q \in Nat /\ s \in 0 .. b - 1 /\ x = q * b + s
    BY <1>2, <2>1, <2>2, DivIs
  <2>4. PICK z \in Nat : z = q * b
    BY <2>3
  <2>5. z <= x
    BY <2>3, <2>4
  <2> QED
    BY <2>1, <2>3, <2>4, <2>5
<1>4. q < B
  <2>1. SUFFICES ASSUME B <= q PROVE FALSE
    OBVIOUS
  <2>2. B * b <= q * b
    BY <2>1, TimesLe
  <2>3. B * b = b * B /\ b * B \in Nat /\ q * b \in Nat
    OBVIOUS
  <2> QED
    BY <1>2, <1>3, <2>2, <2>3
<1> QED
  BY <1>2, <1>3, <1>4

\* A limb more.
LEMMA Shifted ==
  ASSUME NEW B \in Nat, NEW M \in Nat, NEW x \in Nat, x < M, NEW l \in 0 .. B - 1
  PROVE  x * B + l \in Nat /\ x * B + l < M * B /\ (x * B + l = 0 <=> x = 0 /\ l = 0)
<1>1. (x + 1) * B <= M * B
  BY TimesLe
<1>2. PICK y \in Nat : y = x * B /\ (y = 0 <=> x = 0)
  <2>1. x * B \in Nat /\ (x * B = 0 <=> x = 0 \/ B = 0) /\ B # 0
    OBVIOUS
  <2> QED
    BY <2>1
<1>3. (x + 1) * B = x * B + B
  OBVIOUS
<1>4. PICK z \in Nat : z = M * B
  OBVIOUS
<1>5. y + B <= z
  BY <1>1, <1>2, <1>3, <1>4
<1> QED
  BY <1>2, <1>4, <1>5

\* The number that a word stands for.
Num(v) == ((v[1] * LIMB + v[2]) * LIMB + v[3]) * LIMB + v[4]

\* The value of a word is a number below 2^64.
LEMMA NumIs ==
  ASSUME NEW v \in Word
  PROVE  Num(v) \in Nat /\ Num(v) < LIMB * LIMB * LIMB * LIMB /\ (Num(v) = 0 <=> v = Zero)
<1>1. PICK B \in Nat : B = LIMB
  BY LimbIs
<1>2. PICK a \in 0 .. B - 1, b \in 0 .. B - 1, c \in 0 .. B - 1, d \in 0 .. B - 1 :
        v[1] = a /\ v[2] = b /\ v[3] = c /\ v[4] = d
  BY <1>1 DEF Word
<1>3. PICK x \in Nat : x = a * B + b /\ x < B * B /\ (x = 0 <=> a = 0 /\ b = 0)
  BY Shifted
<1>4. B * B \in Nat /\ B * B * B \in Nat
  OBVIOUS
<1>5. PICK y \in Nat : y = x * B + c /\ y < B * B * B /\ (y = 0 <=> x = 0 /\ c = 0)
  BY <1>3, <1>4, Shifted
<1>6. PICK z \in Nat : z = y * B + d /\ z < B * B * B * B /\ (z = 0 <=> y = 0 /\ d = 0)
  BY <1>4, <1>5, Shifted
<1>7. v = Zero <=> (a = 0 /\ b = 0 /\ c = 0 /\ d = 0)
  <2>1. v = <<a, b, c, d>>
    BY <1>2 DEF Word
  <2> QED
    BY <2>1 DEF Zero
<1>8. Num(v) = z
  BY <1>1, <1>2, <1>3, <1>5, <1>6 DEF Num
<1> QED
  BY <1>1, <1>3, <1>5, <1>6, <1>7, <1>8

\* One limb of a long division, with its quotient and remainder.
LEMMA LimbStep ==
  ASSUME NEW B \in Nat, NEW b \in Nat, b # 0, NEW r \in 0 .. b - 1, NEW l \in 0 .. B - 1
  PROVE  \E q \in 0 .. B - 1, s \in 0 .. b - 1 :
           /\ (r * B + l) \div b = q /\ (r * B + l) % b = s
           /\ q * b + s = r * B + l
<1>1. PICK x : x = r * B + l
  OBVIOUS
<1>2. x \in Nat /\ x \div b \in 0 .. B - 1
  BY <1>1, LimbDivides
<1>3. x % b \in 0 .. b - 1 /\ x = (x \div b) * b + (x % b)
  BY <1>2, DivIs
<1> QED
  BY <1>1, <1>2, <1>3

\* DivMod, limb by limb: the quotients and the remainders.
Divided(v, b, q, r) ==
  /\ q \in Word /\ r \in [1 .. 4 -> 0 .. b - 1]
  /\ DivMod(v, b) = [quot |-> q, rem |-> r[4]]
  /\ q[1] * b + r[1] = v[1]
  /\ q[2] * b + r[2] = r[1] * LIMB + v[2]
  /\ q[3] * b + r[3] = r[2] * LIMB + v[3]
  /\ q[4] * b + r[4] = r[3] * LIMB + v[4]

\* The limbs of DivMod, with the remainder that each hands on.
LEMMA DivModLimbs ==
  ASSUME NEW v \in Word, NEW b \in Nat, b # 0
  PROVE  \E q, r : Divided(v, b, q, r)
<1> DEFINE d2 == (v[1] % b) * LIMB + v[2]
           d3 == (d2 % b) * LIMB + v[3]
           d4 == (d3 % b) * LIMB + v[4]
<1>1. DivMod(v, b) = [quot |-> <<v[1] \div b, d2 \div b, d3 \div b, d4 \div b>>, rem |-> d4 % b]
  BY Zenon DEF DivMod
<1>2. PICK B \in Nat : B = LIMB
  BY LimbIs
<1>3. PICK v1 \in 0 .. B - 1, v2 \in 0 .. B - 1, v3 \in 0 .. B - 1, v4 \in 0 .. B - 1 :
        v[1] = v1 /\ v[2] = v2 /\ v[3] = v3 /\ v[4] = v4
  BY <1>2 DEF Word
<1>4. 0 * B + v1 = v1 /\ 0 \in 0 .. b - 1
  OBVIOUS
<1>5. PICK q1 \in 0 .. B - 1, r1 \in 0 .. b - 1 :
        v1 \div b = q1 /\ v1 % b = r1 /\ q1 * b + r1 = v1
  <2>1. \E q \in 0 .. B - 1, s \in 0 .. b - 1 :
           /\ (0 * B + v1) \div b = q /\ (0 * B + v1) % b = s
           /\ q * b + s = 0 * B + v1
    BY <1>4, LimbStep
  <2> QED
    BY <1>4, <2>1
<1>6. PICK q2 \in 0 .. B - 1, r2 \in 0 .. b - 1 :
        /\ (r1 * B + v2) \div b = q2 /\ (r1 * B + v2) % b = r2
        /\ q2 * b + r2 = r1 * B + v2
  BY LimbStep
<1>7. PICK q3 \in 0 .. B - 1, r3 \in 0 .. b - 1 :
        /\ (r2 * B + v3) \div b = q3 /\ (r2 * B + v3) % b = r3
        /\ q3 * b + r3 = r2 * B + v3
  BY LimbStep
<1>8. PICK q4 \in 0 .. B - 1, r4 \in 0 .. b - 1 :
        /\ (r3 * B + v4) \div b = q4 /\ (r3 * B + v4) % b = r4
        /\ q4 * b + r4 = r3 * B + v4
  BY LimbStep
<1>9. d2 = r1 * B + v2 /\ d2 % b = r2 /\ d2 \div b = q2
  BY <1>2, <1>3, <1>5, <1>6
<1> HIDE DEF d2
<1>10. d3 = r2 * B + v3 /\ d3 % b = r3 /\ d3 \div b = q3
  BY <1>2, <1>3, <1>9, <1>7
<1> HIDE DEF d3
<1>11. d4 = r3 * B + v4 /\ d4 % b = r4 /\ d4 \div b = q4
  BY <1>2, <1>3, <1>10, <1>8
<1> HIDE DEF d4
<1> DEFINE q == <<q1, q2, q3, q4>>
           r == <<r1, r2, r3, r4>>
<1>12. DivMod(v, b) = [quot |-> q, rem |-> r[4]]
  BY <1>1, <1>3, <1>5, <1>9, <1>10, <1>11
<1>13. q \in Word /\ r \in [1 .. 4 -> 0 .. b - 1]
  BY <1>2 DEF Word
<1>14. q[1] = q1 /\ q[2] = q2 /\ q[3] = q3 /\ q[4] = q4 /\ r[1] = r1 /\ r[2] = r2 /\ r[3] = r3 /\ r[4] = r4
  OBVIOUS
<1> HIDE DEF q, r
<1>15. Divided(v, b, q, r)
  BY <1>2, <1>3, <1>5, <1>6, <1>7, <1>8, <1>12, <1>13, <1>14 DEF Divided
<1> QED
  BY <1>15

\* The multiplication undoes the division.
LEMMA TimesUndoes ==
  ASSUME NEW v \in Word, NEW b \in Nat, b # 0, NEW q, NEW r, Divided(v, b, q, r)
  PROVE  Times(q, b, r[4]) = v
<1>1. PICK B \in Nat : B = LIMB /\ B >= 2
  BY LimbIs
<1>2. PICK v1 \in 0 .. B - 1, v2 \in 0 .. B - 1, v3 \in 0 .. B - 1, v4 \in 0 .. B - 1 :
        v[1] = v1 /\ v[2] = v2 /\ v[3] = v3 /\ v[4] = v4
  BY <1>1 DEF Word
<1>3. PICK r1 \in 0 .. b - 1, r2 \in 0 .. b - 1, r3 \in 0 .. b - 1, r4 \in 0 .. b - 1 :
        r[1] = r1 /\ r[2] = r2 /\ r[3] = r3 /\ r[4] = r4
  BY DEF Divided
<1>4. /\ q[1] * b + r1 = v1
      /\ q[2] * b + r2 = r1 * B + v2
      /\ q[3] * b + r3 = r2 * B + v3
      /\ q[4] * b + r4 = r3 * B + v4
  BY <1>1, <1>2, <1>3 DEF Divided
<1>5. /\ (r1 * B + v2) \div B = r1 /\ (r1 * B + v2) % B = v2
      /\ (r2 * B + v3) \div B = r2 /\ (r2 * B + v3) % B = v3
      /\ (r3 * B + v4) \div B = r3 /\ (r3 * B + v4) % B = v4
  BY DivUnique
<1>6. v1 % B = v1
  BY <1>1
<1> DEFINE c4 == q[4] * b + r[4]
           c3 == q[3] * b + c4 \div LIMB
           c2 == q[2] * b + c3 \div LIMB
           c1 == q[1] * b + c2 \div LIMB
<1>7. Times(q, b, r[4]) = <<c1 % LIMB, c2 % LIMB, c3 % LIMB, c4 % LIMB>>
  BY Zenon DEF Times
<1>8. c4 = r3 * B + v4
  BY <1>3, <1>4
<1> HIDE DEF c4
<1>9. c3 = r2 * B + v3
  BY <1>1, <1>4, <1>5, <1>8
<1> HIDE DEF c3
<1>10. c2 = r1 * B + v2
  BY <1>1, <1>4, <1>5, <1>9
<1> HIDE DEF c2
<1>11. c1 = v1
  BY <1>1, <1>4, <1>5, <1>10
<1> HIDE DEF c1
<1>12. Times(q, b, r[4]) = <<v1, v2, v3, v4>>
  BY <1>1, <1>5, <1>6, <1>7, <1>8, <1>9, <1>10, <1>11
<1>13. v = <<v1, v2, v3, v4>>
  BY <1>2 DEF Word
<1> QED
  BY <1>12, <1>13

\* Products of sums.
LEMMA Distributes ==
  ASSUME NEW x \in Int, NEW y \in Int, NEW z \in Int
  PROVE  (x + y) * z = x * z + y * z /\ x * z \in Int /\ x * y = y * x
OBVIOUS

\* A limb more of a number that b divides with remainder r: (x b + r) B + l, where
\* r B + l is q b + s.
LEMMA NumStep ==
  ASSUME NEW B \in Int, NEW b \in Int, NEW x \in Int, NEW r \in Int, NEW l \in Int,
         NEW q \in Int, NEW s \in Int, q * b + s = r * B + l
  PROVE  (x * b + r) * B + l = (x * B + q) * b + s
<1>1. (x * b + r) * B = x * b * B + r * B /\ (x * B + q) * b = x * B * b + q * b
  BY Distributes
<1>2. x * b * B = x * B * b /\ x * b * B \in Int
  OBVIOUS
<1>3. PICK w \in Int : w = x * b * B
  BY <1>2
<1>4. PICK y \in Int, z \in Int : y = r * B /\ z = q * b
  OBVIOUS
<1> QED
  BY <1>1, <1>2, <1>3, <1>4

\* DivMod divides the value of the word.
LEMMA NumDivides ==
  ASSUME NEW v \in Word, NEW b \in Nat, b # 0, NEW q, NEW r, Divided(v, b, q, r)
  PROVE  Num(v) = Num(q) * b + r[4]
<1>1. PICK B \in Int : B = LIMB
  BY LimbIs
<1>2. PICK v1 \in Int, v2 \in Int, v3 \in Int, v4 \in Int :
        v[1] = v1 /\ v[2] = v2 /\ v[3] = v3 /\ v[4] = v4
  BY LimbIs DEF Word
<1>3. PICK r1 \in Int, r2 \in Int, r3 \in Int, r4 \in Int :
        r[1] = r1 /\ r[2] = r2 /\ r[3] = r3 /\ r[4] = r4
  BY DEF Divided
<1>4. PICK q1 \in Int, q2 \in Int, q3 \in Int, q4 \in Int :
        q[1] = q1 /\ q[2] = q2 /\ q[3] = q3 /\ q[4] = q4
  BY LimbIs DEF Divided, Word
<1>5. /\ q1 * b + r1 = v1
      /\ q2 * b + r2 = r1 * B + v2
      /\ q3 * b + r3 = r2 * B + v3
      /\ q4 * b + r4 = r3 * B + v4
  BY <1>1, <1>2, <1>3, <1>4 DEF Divided
<1>6. v1 * B + v2 = (q1 * B + q2) * b + r2
  BY <1>5, NumStep
<1>7. PICK x \in Int : x = q1 * B + q2
  OBVIOUS
<1>8. (v1 * B + v2) * B + v3 = (x * B + q3) * b + r3
  BY <1>5, <1>6, <1>7, NumStep
<1>9. PICK y \in Int : y = x * B + q3
  BY <1>7
<1>10. ((v1 * B + v2) * B + v3) * B + v4 = (y * B + q4) * b + r4
  BY <1>5, <1>8, <1>9, NumStep
<1>11. Num(v) = ((v1 * B + v2) * B + v3) * B + v4
  BY <1>1, <1>2 DEF Num
<1>12. Num(q) = y * B + q4
  BY <1>1, <1>4, <1>7, <1>9 DEF Num
<1> QED
  BY <1>3, <1>10, <1>11, <1>12

\* DivMod divides: quotient and remainder give the word back.
LEMMA DivModIs ==
  ASSUME NEW v \in Word, NEW b \in Nat, b # 0
  PROVE  /\ DivMod(v, b).quot \in Word /\ DivMod(v, b).rem \in 0 .. b - 1
         /\ Times(DivMod(v, b).quot, b, DivMod(v, b).rem) = v
         /\ Num(v) = Num(DivMod(v, b).quot) * b + DivMod(v, b).rem
<1>1. PICK q, r : Divided(v, b, q, r)
  BY DivModLimbs
<1>2. DivMod(v, b).quot = q /\ DivMod(v, b).rem = r[4] /\ q \in Word /\ r[4] \in 0 .. b - 1
  BY <1>1 DEF Divided
<1>3. Times(q, b, r[4]) = v /\ Num(v) = Num(q) * b + r[4]
  BY <1>1, TimesUndoes, NumDivides
<1> QED
  BY <1>2, <1>3

-----------------------------------------------------------------------------
(* Powers.                                                                  *)

\* g has the powers of c up to the n-th.
Powers(c, n, g) ==
  /\ g \in [0 .. n -> Nat]
  /\ g[0] = 1
  /\ \A i \in 1 .. n : g[i] = g[i - 1] * c

\* The powers of a base, as a function.
LEMMA HasPowers ==
  ASSUME NEW c \in Nat, NEW n \in Nat
  PROVE  \E g : Powers(c, n, g)
<1> DEFINE T == [i \in 1 .. n |-> [x \in Nat |-> x * c]]
<1>1. T \in [1 .. n -> [Nat -> Nat]] /\ \A i \in 1 .. n, x \in Nat : T[i][x] = x * c
  OBVIOUS
<1> HIDE DEF T
<1>2. PICK g : Turns(Nat, 1, n, T, g)
  BY <1>1, CanTurn
<1>3. /\ g \in [0 .. n -> Nat] /\ g[0] = 1
      /\ \A i \in 1 .. n : g[i] = T[i][g[i - 1]]
  BY <1>2 DEF Turns
<1>4. ASSUME NEW i \in 1 .. n PROVE g[i] = g[i - 1] * c
  <2>1. PICK y \in Nat : y = g[i - 1]
    BY <1>3
  <2>2. g[i] = T[i][y]
    BY <1>3, <2>1
  <2> QED
    BY <1>1, <2>1, <2>2
<1> QED
  BY <1>3, <1>4 DEF Powers

\* The table of itoa.
LEMMA TableIs ==
  /\ BASE_MAX_DIGIT_MAP[2] = 64
  /\ BASE_MAX_DIGIT_MAP[3] = 41
  /\ BASE_MAX_DIGIT_MAP[4] = 32
  /\ BASE_MAX_DIGIT_MAP[5] = 28
  /\ BASE_MAX_DIGIT_MAP[6] = 25
  /\ BASE_MAX_DIGIT_MAP[7] = 23
  /\ BASE_MAX_DIGIT_MAP[8] = 22
  /\ BASE_MAX_DIGIT_MAP[9] = 21
  /\ BASE_MAX_DIGIT_MAP[10] = 20
  /\ BASE_MAX_DIGIT_MAP[11] = 19
  /\ BASE_MAX_DIGIT_MAP[12] = 18
  /\ BASE_MAX_DIGIT_MAP[13] = 18
  /\ BASE_MAX_DIGIT_MAP[14] = 17
  /\ BASE_MAX_DIGIT_MAP[15] = 17
  /\ BASE_MAX_DIGIT_MAP[16] = 16
  /\ \A b \in 2 .. 16 : BASE_MAX_DIGIT_MAP[b] \in 1 .. 64
<1>1. /\ BASE_MAX_DIGIT_MAP[2] = 64
      /\ BASE_MAX_DIGIT_MAP[3] = 41
      /\ BASE_MAX_DIGIT_MAP[4] = 32
      /\ BASE_MAX_DIGIT_MAP[5] = 28
      /\ BASE_MAX_DIGIT_MAP[6] = 25
      /\ BASE_MAX_DIGIT_MAP[7] = 23
      /\ BASE_MAX_DIGIT_MAP[8] = 22
      /\ BASE_MAX_DIGIT_MAP[9] = 21
      /\ BASE_MAX_DIGIT_MAP[10] = 20
      /\ BASE_MAX_DIGIT_MAP[11] = 19
      /\ BASE_MAX_DIGIT_MAP[12] = 18
      /\ BASE_MAX_DIGIT_MAP[13] = 18
      /\ BASE_MAX_DIGIT_MAP[14] = 17
      /\ BASE_MAX_DIGIT_MAP[15] = 17
      /\ BASE_MAX_DIGIT_MAP[16] = 16
  BY DEF BASE_MAX_DIGIT_MAP
<1> QED
  BY <1>1

\* The digits of BASE_MAX_DIGIT_MAP are enough for 64 bits.
LEMMA DigitsEnough ==
  ASSUME NEW b \in 2 .. 16, NEW m, m = BASE_MAX_DIGIT_MAP[b], NEW g, Powers(b, m, g)
  PROVE  m \in 1 .. 64 /\ g[m] >= LIMB * LIMB * LIMB * LIMB
<1>2. CASE b = 2
  <2>1. m = 64
    BY <1>2, TableIs
  <2>2. g[64] >= 65536 * 65536 * 65536 * 65536
    BY <1>2, <2>1, SMT DEF Powers
  <2> QED
    BY <2>1, <2>2 DEF LIMB
<1>3. CASE b = 3
  <2>1. m = 41
    BY <1>3, TableIs
  <2>2. g[41] >= 65536 * 65536 * 65536 * 65536
    BY <1>3, <2>1, SMT DEF Powers
  <2> QED
    BY <2>1, <2>2 DEF LIMB
<1>4. CASE b = 4
  <2>1. m = 32
    BY <1>4, TableIs
  <2>2. g[32] >= 65536 * 65536 * 65536 * 65536
    BY <1>4, <2>1, SMT DEF Powers
  <2> QED
    BY <2>1, <2>2 DEF LIMB
<1>5. CASE b = 5
  <2>1. m = 28
    BY <1>5, TableIs
  <2>2. g[28] >= 65536 * 65536 * 65536 * 65536
    BY <1>5, <2>1, SMT DEF Powers
  <2> QED
    BY <2>1, <2>2 DEF LIMB
<1>6. CASE b = 6
  <2>1. m = 25
    BY <1>6, TableIs
  <2>2. g[25] >= 65536 * 65536 * 65536 * 65536
    BY <1>6, <2>1, SMT DEF Powers
  <2> QED
    BY <2>1, <2>2 DEF LIMB
<1>7. CASE b = 7
  <2>1. m = 23
    BY <1>7, TableIs
  <2>2. g[23] >= 65536 * 65536 * 65536 * 65536
    BY <1>7, <2>1, SMT DEF Powers
  <2> QED
    BY <2>1, <2>2 DEF LIMB
<1>8. CASE b = 8
  <2>1. m = 22
    BY <1>8, TableIs
  <2>2. g[22] >= 65536 * 65536 * 65536 * 65536
    BY <1>8, <2>1, SMT DEF Powers
  <2> QED
    BY <2>1, <2>2 DEF LIMB
<1>9. CASE b = 9
  <2>1. m = 21
    BY <1>9, TableIs
  <2>2. g[21] >= 65536 * 65536 * 65536 * 65536
    BY <1>9, <2>1, SMT DEF Powers
  <2> QED
    BY <2>1, <2>2 DEF LIMB
<1>10. CASE b = 10
  <2>1. m = 20
    BY <1>10, TableIs
  <2>2. g[20] >= 65536 * 65536 * 65536 * 65536
    BY <1>10, <2>1, SMT DEF Powers
  <2> QED
    BY <2>1, <2>2 DEF LIMB
<1>11. CASE b = 11
  <2>1. m = 19
    BY <1>11, TableIs
  <2>2. g[19] >= 65536 * 65536 * 65536 * 65536
    BY <1>11, <2>1, SMT DEF Powers
  <2> QED
    BY <2>1, <2>2 DEF LIMB
<1>12. CASE b = 12
  <2>1. m = 18
    BY <1>12, TableIs
  <2>2. g[18] >= 65536 * 65536 * 65536 * 65536
    BY <1>12, <2>1, SMT DEF Powers
  <2> QED
    BY <2>1, <2>2 DEF LIMB
<1>13. CASE b = 13
  <2>1. m = 18
    BY <1>13, TableIs
  <2>2. g[18] >= 65536 * 65536 * 65536 * 65536
    BY <1>13, <2>1, SMT DEF Powers
  <2> QED
    BY <2>1, <2>2 DEF LIMB
<1>14. CASE b = 14
  <2>1. m = 17
    BY <1>14, TableIs
  <2>2. g[17] >= 65536 * 65536 * 65536 * 65536
    BY <1>14, <2>1, SMT DEF Powers
  <2> QED
    BY <2>1, <2>2 DEF LIMB
<1>15. CASE b = 15
  <2>1. m = 17
    BY <1>15, TableIs
  <2>2. g[17] >= 65536 * 65536 * 65536 * 65536
    BY <1>15, <2>1, SMT DEF Powers
  <2> QED
    BY <2>1, <2>2 DEF LIMB
<1>16. CASE b = 16
  <2>1. m = 16
    BY <1>16, TableIs
  <2>2. g[16] >= 65536 * 65536 * 65536 * 65536
    BY <1>16, <2>1, SMT DEF Powers
  <2> QED
    BY <2>1, <2>2 DEF LIMB
<1> QED
  BY <1>2, <1>3, <1>4, <1>5, <1>6, <1>7, <1>8, <1>9, <1>10, <1>11, <1>12, <1>13, <1>14, <1>15, <1>16

-----------------------------------------------------------------------------
(* Digits.                                                                  *)

\* One turn of the loop that divides.
Divide(b, p) == [left |-> DivMod(p.left, b).quot, seq |-> Append(p.seq, DivMod(p.left, b).rem)]
DigitTurn(b, k, p) == IF p.left = Zero /\ k > 1 THEN p ELSE Divide(b, p)

Dividends(b) == [left : Word, seq : Seq(0 .. b - 1)]
DigitStart(v) == [left |-> v, seq |-> << >>]

\* The states of Digits, turn by turn, and its result.
Dividing(v, b, N, g) ==
  /\ g \in [0 .. N -> Dividends(b)]
  /\ g[0] = DigitStart(v)
  /\ \A i \in 1 .. N : g[i] = DigitTurn(b, i, g[i - 1])
  /\ Digits(v, b) = g[N].seq

\* The states of Digits, turn by turn.
LEMMA DigitTurns ==
  ASSUME NEW v \in Word, NEW b \in Nat, b # 0
  PROVE  \E g : Dividing(v, b, 64, g)
<1> DEFINE N == 64
           S == Dividends(b)
           T == [i \in 1 .. N |-> [p \in S |-> DigitTurn(b, i, p)]]
           Eqn(g) == g = [i \in 0 .. N |-> IF i = 0 THEN [left |-> v, seq |-> << >>] ELSE
                            Once(g[i - 1], LAMBDA p :
                              IF p.left = Zero /\ i > 1 THEN p
                              ELSE [left |-> DivMod(p.left, b).quot,
                                    seq |-> Append(p.seq, DivMod(p.left, b).rem)])]
           after == CHOOSE g : Eqn(g)
<1>3. Digits(v, b) = after[N].seq
  BY Zenon DEF Digits, Loop
<1>0. N \in Nat
  OBVIOUS
<1>4. ASSUME NEW g
      PROVE  Eqn(g) <=> g = [i \in 0 .. N |-> IF i = 0 THEN DigitStart(v) ELSE DigitTurn(b, i, g[i - 1])]
  <2>1. ASSUME NEW x, NEW i
        PROVE  Once(x, LAMBDA p :
                 IF p.left = Zero /\ i > 1 THEN p
                 ELSE [left |-> DivMod(p.left, b).quot,
                       seq |-> Append(p.seq, DivMod(p.left, b).rem)])
               = DigitTurn(b, i, x)
    BY DEF Once, DigitTurn, Divide
  <2> QED
    BY <2>1, Zenon DEF DigitStart
<1> HIDE DEF N
<1>1. T \in [1 .. N -> [S -> S]]
  <2>1. ASSUME NEW i \in 1 .. N, NEW p \in S PROVE DigitTurn(b, i, p) \in S
    <3>1. p.left \in Word /\ p.seq \in Seq(0 .. b - 1)
      BY DEF Dividends
    <3>2. DivMod(p.left, b).quot \in Word /\ DivMod(p.left, b).rem \in 0 .. b - 1
      BY <3>1, DivModIs
    <3>3. Append(p.seq, DivMod(p.left, b).rem) \in Seq(0 .. b - 1)
      BY <3>1, <3>2
    <3> QED
      BY <3>2, <3>3 DEF DigitTurn, Divide, Dividends
  <2> QED
    BY <2>1
<1>2. \A i \in 1 .. N, p \in S : T[i][p] = DigitTurn(b, i, p)
  OBVIOUS
<1> HIDE DEF T, Eqn
<1>5. PICK g : Turns(S, DigitStart(v), N, T, g)
  <2>1. DigitStart(v) \in S
    BY DEF DigitStart, Dividends
  <2> QED
    BY <1>0, <1>1, <2>1, CanTurn
<1>6. /\ g \in [0 .. N -> S] /\ g[0] = DigitStart(v)
      /\ \A i \in 1 .. N : g[i] = DigitTurn(b, i, g[i - 1])
  BY <1>0, <1>2, <1>5 DEF Turns
<1>7. Eqn(g)
  <2>1. g = [i \in 0 .. N |-> IF i = 0 THEN DigitStart(v) ELSE DigitTurn(b, i, g[i - 1])]
    BY <1>6
  <2> QED
    BY <1>4, <2>1
<1>8. Eqn(after)
  BY <1>7
<1> HIDE DEF after
<1>9. after[0] = DigitStart(v) /\ \A i \in 1 .. N : after[i] = DigitTurn(b, i, after[i - 1])
  <2>1. after = [i \in 0 .. N |-> IF i = 0 THEN DigitStart(v) ELSE DigitTurn(b, i, after[i - 1])]
    BY <1>4, <1>8
  <2> QED
    BY <1>0, <2>1
<1>10. \A i \in 0 .. N : after[i] = g[i]
  <2>1. \A i \in 1 .. N : after[i - 1] \in S => after[i] = T[i][after[i - 1]]
    BY <1>2, <1>9
  <2> QED
    BY <1>0, <1>5, <1>9, <2>1, SameTurns
<1>11. Dividing(v, b, N, g)
  BY <1>0, <1>3, <1>6, <1>10 DEF Dividing
<1> QED
  BY <1>11 DEF N

Unfinished(g, K) == \A i \in 1 .. K - 1 : g[i].left # Zero

\* Until nothing is left, every turn divides, and adds the remainder.
LEMMA DivideRun ==
  ASSUME NEW v \in Word, NEW b \in Nat, b # 0, NEW N \in Nat, NEW g, Dividing(v, b, N, g),
         NEW K \in 0 .. N, Unfinished(g, K)
  PROVE  /\ \A i \in 1 .. K : g[i] = Divide(b, g[i - 1])
         /\ \A i \in 1 .. K : g[i].left = DivMod(g[i - 1].left, b).quot
         /\ \A i \in 0 .. K : /\ Len(g[i].seq) = i
                              /\ \A j \in 1 .. i : g[i].seq[j] = DivMod(g[j - 1].left, b).rem
<1>1. /\ g \in [0 .. N -> Dividends(b)] /\ g[0] = DigitStart(v)
      /\ \A i \in 1 .. N : g[i] = DigitTurn(b, i, g[i - 1])
  BY DEF Dividing
<1>2. ASSUME NEW i \in 1 .. K PROVE g[i] = Divide(b, g[i - 1])
  <2>1. g[i] = DigitTurn(b, i, g[i - 1])
    BY <1>1
  <2>2. ~ (g[i - 1].left = Zero /\ i > 1)
    BY DEF Unfinished
  <2> QED
    BY <2>1, <2>2 DEF DigitTurn
<1>3. ASSUME NEW i \in 1 .. K
      PROVE  /\ g[i].left = DivMod(g[i - 1].left, b).quot
             /\ g[i].seq = Append(g[i - 1].seq, DivMod(g[i - 1].left, b).rem)
  <2>1. ASSUME NEW p PROVE /\ Divide(b, p).left = DivMod(p.left, b).quot
                           /\ Divide(b, p).seq = Append(p.seq, DivMod(p.left, b).rem)
    BY DEF Divide
  <2> QED
    BY <1>2, <2>1
<1> DEFINE Good == {i \in 0 .. K : /\ Len(g[i].seq) = i
                                   /\ \A j \in 1 .. i : g[i].seq[j] = DivMod(g[j - 1].left, b).rem}
<1>4. 0 \in Good
  BY <1>1 DEF DigitStart
<1>5. ASSUME NEW i \in 1 .. K, i - 1 \in Good PROVE i \in Good
  <2>1. PICK s, r : s = g[i - 1].seq /\ r = DivMod(g[i - 1].left, b).rem
    OBVIOUS
  <2>2. g[i].seq = Append(s, r)
    BY <1>3, <2>1
  <2>3. s \in Seq(0 .. b - 1)
    BY <1>1, <2>1 DEF Dividends
  <2>4. Len(s) = i - 1 /\ \A j \in 1 .. i - 1 : s[j] = DivMod(g[j - 1].left, b).rem
    BY <1>5, <2>1
  <2>5. Len(Append(s, r)) = i /\ Append(s, r)[i] = r /\ \A j \in 1 .. i - 1 : Append(s, r)[j] = s[j]
    BY <2>3, <2>4
  <2>6. PICK t : t = g[i].seq
    OBVIOUS
  <2>7. Len(t) = i /\ \A j \in 1 .. i : t[j] = DivMod(g[j - 1].left, b).rem
    <3>1. t = Append(s, r) /\ Len(t) = i
      BY <2>2, <2>5, <2>6
    <3>2. ASSUME NEW j \in 1 .. i PROVE t[j] = DivMod(g[j - 1].left, b).rem
      <4>1. CASE j = i
        BY <2>1, <2>5, <3>1, <4>1
      <4>2. CASE j \in 1 .. i - 1
        BY <2>4, <2>5, <3>1, <4>2
      <4> QED
        BY <4>1, <4>2
    <3> QED
      BY <3>1, <3>2
  <2> QED
    BY <2>6, <2>7
<1>6. \A i \in 0 .. K : i \in Good
  <2> HIDE DEF Good
  <2> QED
    BY <1>4, <1>5, Induct
<1> QED
  BY <1>2, <1>3, <1>6

\* A product grows with both factors.
LEMMA TimesLeBoth ==
  ASSUME NEW x \in Nat, NEW y \in Nat, NEW z \in Nat, NEW c \in Nat, x * c <= y
  PROVE  x * (z * c) <= y * z
<1>1. (x * c) * z <= y * z
  BY TimesLe
<1>2. (x * c) * z = x * (z * c)
  OBVIOUS
<1> QED
  BY <1>1, <1>2

\* The divisions come to an end: m of them, when the m-th power of the base is
\* out of the reach of 64 bits.
LEMMA DivideEnds ==
  ASSUME NEW v \in Word, NEW b \in Nat, b # 0, NEW N \in Nat, NEW g, Dividing(v, b, N, g),
         NEW c \in Nat, c <= b, NEW m \in 1 .. N, NEW pw, Powers(c, m, pw),
         pw[m] >= LIMB * LIMB * LIMB * LIMB
  PROVE  \E K \in 1 .. m : g[K].left = Zero
<1>1. SUFFICES ASSUME \A i \in 1 .. m : g[i].left # Zero PROVE FALSE
  OBVIOUS
<1>2. /\ g \in [0 .. N -> Dividends(b)] /\ g[0] = DigitStart(v)
  BY DEF Dividing
<1>3. \A i \in 1 .. m : g[i].left = DivMod(g[i - 1].left, b).quot
  <2>1. Unfinished(g, m) /\ m \in 0 .. N
    BY <1>1 DEF Unfinished
  <2> QED
    BY <2>1, DivideRun
<1>4. \A i \in 0 .. m : g[i].left \in Word
  BY <1>2 DEF Dividends
<1>5. /\ pw \in [0 .. m -> Nat] /\ pw[0] = 1
      /\ \A i \in 1 .. m : pw[i] = pw[i - 1] * c
  BY DEF Powers
<1> DEFINE Good == {i \in 0 .. m : Num(g[i].left) * pw[i] <= Num(v)}
<1>6. 0 \in Good
  <2>1. g[0].left = v
    BY <1>2 DEF DigitStart
  <2>2. Num(v) \in Nat
    BY NumIs
  <2> QED
    BY <1>5, <2>1, <2>2
<1>7. ASSUME NEW i \in 1 .. m, i - 1 \in Good PROVE i \in Good
  <2>1. PICK x \in Nat, y \in Nat, z \in Nat : x = Num(g[i].left) /\ y = Num(g[i - 1].left) /\ z = pw[i - 1]
    <3>1. g[i].left \in Word /\ g[i - 1].left \in Word /\ pw[i - 1] \in Nat
      BY <1>4, <1>5
    <3>2. Num(g[i].left) \in Nat /\ Num(g[i - 1].left) \in Nat
      BY <3>1, NumIs
    <3> QED
      BY <3>1, <3>2
  <2>2. x * c <= y
    <3>1. PICK r : r = DivMod(g[i - 1].left, b).rem
      OBVIOUS
    <3>2. y = x * b + r /\ r \in 0 .. b - 1
      BY <1>3, <1>4, <2>1, <3>1, DivModIs
    <3>3. c * x <= b * x
      BY TimesLe
    <3>4. c * x = x * c /\ b * x = x * b /\ x * b \in Nat /\ x * c \in Nat
      OBVIOUS
    <3> QED
      BY <3>2, <3>3, <3>4
  <2>3. x * (z * c) <= y * z
    BY <2>2, TimesLeBoth
  <2>4. y * z <= Num(v)
    BY <1>7, <2>1
  <2>5. pw[i] = z * c
    BY <1>5, <2>1
  <2>6. x * (z * c) \in Nat /\ y * z \in Nat /\ Num(v) \in Nat
    BY NumIs
  <2>7. x * pw[i] <= Num(v)
    BY <2>3, <2>4, <2>5, <2>6
  <2> QED
    BY <2>1, <2>7
<1>8. Num(g[m].left) * pw[m] <= Num(v)
  <2> HIDE DEF Good
  <2>1. m \in Good
    BY <1>6, <1>7, Induct
  <2> QED
    BY <2>1 DEF Good
<1>9. PICK x \in Nat, p \in Nat, M \in Nat :
        x = Num(g[m].left) /\ p = pw[m] /\ M = Num(v) /\ x # 0
  BY <1>1, <1>4, <1>5, NumIs, SMTT(30)
<1>10. 1 * p <= x * p
  BY <1>9, TimesLe
<1>11. PICK F \in Nat : F = LIMB * LIMB * LIMB * LIMB /\ p >= F /\ M < F
  <2>1. LIMB * LIMB * LIMB * LIMB \in Nat
    BY LimbIs
  <2> QED
    BY <1>9, <2>1, NumIs
<1>12. x * p <= M /\ x * p \in Nat /\ 1 * p = p
  BY <1>8, <1>9
<1> QED
  BY <1>10, <1>11, <1>12

\* What is left of v after each of its digits; the multiplication leads back.
Remainders(v, b, ds, w) ==
  /\ ds \in Seq(0 .. b - 1) /\ Len(ds) # 0
  /\ w \in [0 .. Len(ds) -> Word]
  /\ w[0] = v /\ w[Len(ds)] = Zero
  /\ \A k \in 1 .. Len(ds) : Times(w[k], b, ds[k]) = w[k - 1]
  /\ \A k \in 1 .. Len(ds) : Num(w[k - 1]) = Num(w[k]) * b + ds[k]
  /\ \A k \in 1 .. Len(ds) - 1 : w[k] # Zero
  /\ Len(ds) > 1 => ds[Len(ds)] # 0

\* Digits has them, at most m.
LEMMA DigitsAre ==
  ASSUME NEW v \in Word, NEW b \in Nat, b # 0, NEW c \in Nat, c <= b,
         NEW m \in 1 .. 64, NEW pw, Powers(c, m, pw), pw[m] >= LIMB * LIMB * LIMB * LIMB
  PROVE  Len(Digits(v, b)) <= m /\ \E w : Remainders(v, b, Digits(v, b), w)
<1>1. PICK N \in Nat : N = 64
  OBVIOUS
<1>2. PICK g : Dividing(v, b, N, g)
  BY <1>1, DigitTurns
<1>3. /\ g \in [0 .. N -> Dividends(b)] /\ g[0] = DigitStart(v)
      /\ \A i \in 1 .. N : g[i] = DigitTurn(b, i, g[i - 1])
      /\ Digits(v, b) = g[N].seq
  BY <1>2 DEF Dividing
<1> DEFINE Ends == {k \in 1 .. m : g[k].left = Zero}
<1>4. Ends # {}
  <2>1. \E K \in 1 .. m : g[K].left = Zero
    BY <1>1, <1>2, DivideEnds
  <2> QED
    BY <2>1
<1>5. PICK K \in Ends : \A k \in Ends : K <= k
  <2>1. Ends \subseteq Nat
    OBVIOUS
  <2> HIDE DEF Ends
  <2> QED
    BY <1>4, <2>1, HasLeast
<1>6. K \in 1 .. m /\ K \in 1 .. N /\ g[K].left = Zero /\ \A i \in 1 .. K - 1 : g[i].left # Zero
  BY <1>1, <1>5
<1>7. /\ \A i \in 1 .. K : g[i].left = DivMod(g[i - 1].left, b).quot
      /\ Len(g[K].seq) = K /\ \A j \in 1 .. K : g[K].seq[j] = DivMod(g[j - 1].left, b).rem
  <2>1. K \in 0 .. N /\ Unfinished(g, K)
    BY <1>6 DEF Unfinished
  <2>2. /\ \A i \in 1 .. K : g[i].left = DivMod(g[i - 1].left, b).quot
        /\ \A i \in 0 .. K : /\ Len(g[i].seq) = i
                             /\ \A j \in 1 .. i : g[i].seq[j] = DivMod(g[j - 1].left, b).rem
    BY <1>2, <2>1, DivideRun
  <2>3. K \in 0 .. K
    BY <1>6
  <2> QED
    BY <2>2, <2>3
<1>8. g[N] = g[K]
  <2> DEFINE Same == {i \in 0 .. N - K : g[K + i] = g[K]}
  <2>1. 0 \in Same
    BY <1>6
  <2>2. ASSUME NEW i \in 1 .. N - K, i - 1 \in Same PROVE i \in Same
    <3>1. K + i \in 1 .. N /\ (K + i) - 1 = K + (i - 1) /\ K + i > 1
      BY <1>6
    <3>2. g[K + i] = DigitTurn(b, K + i, g[(K + i) - 1])
      BY <1>3, <3>1
    <3>3. g[(K + i) - 1] = g[K]
      BY <2>2, <3>1
    <3>4. DigitTurn(b, K + i, g[K]) = g[K]
      BY <1>6, <3>1 DEF DigitTurn
    <3> QED
      BY <3>2, <3>3, <3>4
  <2>3. N - K \in Nat /\ K + (N - K) = N
    BY <1>6
  <2> HIDE DEF Same
  <2>4. N - K \in Same
    BY <2>1, <2>2, <2>3, Induct
  <2> QED
    BY <2>3, <2>4 DEF Same
<1>9. PICK ds : ds = Digits(v, b)
  OBVIOUS
<1>10. ds \in Seq(0 .. b - 1) /\ Len(ds) = K /\ \A j \in 1 .. K : ds[j] = DivMod(g[j - 1].left, b).rem
  <2>1. g[K].seq \in Seq(0 .. b - 1)
    BY <1>3, <1>6 DEF Dividends
  <2> QED
    BY <1>3, <1>7, <1>8, <1>9, <2>1
<1> DEFINE w == [k \in 0 .. K |-> g[k].left]
<1>11. w \in [0 .. K -> Word]
  BY <1>3, <1>6 DEF Dividends
<1>12. w[0] = v /\ w[K] = Zero /\ \A k \in 0 .. K : w[k] = g[k].left
  BY <1>3, <1>6 DEF DigitStart
<1> HIDE DEF w
<1>13. ASSUME NEW k \in 1 .. K
       PROVE  Times(w[k], b, ds[k]) = w[k - 1] /\ Num(w[k - 1]) = Num(w[k]) * b + ds[k]
  <2>1. PICK x \in Word : x = w[k - 1] /\ x = g[k - 1].left
    BY <1>6, <1>11, <1>12
  <2>2. w[k] = DivMod(x, b).quot /\ ds[k] = DivMod(x, b).rem
    BY <1>6, <1>7, <1>10, <1>12, <2>1
  <2> QED
    BY <2>1, <2>2, DivModIs
<1>14. K > 1 => ds[K] # 0
  <2>1. SUFFICES ASSUME K > 1, ds[K] = 0 PROVE FALSE
    OBVIOUS
  <2>2. w[K - 1] # Zero /\ w[K - 1] \in Word
    BY <1>6, <1>11, <1>12, <2>1
  <2>3. Num(Zero) = 0 /\ Zero \in Word
    BY LimbIs DEF Num, Zero, Word
  <2>4. Num(w[K - 1]) = 0 * b + 0
    BY <1>6, <1>12, <1>13, <2>1, <2>3
  <2>5. Num(w[K - 1]) = 0
    BY <2>4
  <2> QED
    BY <2>2, <2>5, NumIs
<1>16. \A k \in 1 .. Len(ds) - 1 : w[k] # Zero
  <2>1. ASSUME NEW k \in 1 .. K - 1 PROVE w[k] # Zero
    <3>1. k \in 0 .. K
      BY <1>6
    <3> QED
      BY <1>6, <1>12, <3>1
  <2> QED
    BY <1>10, <2>1
<1>17. \A k \in 1 .. K : Times(w[k], b, ds[k]) = w[k - 1]
  BY <1>13
<1>18. \A k \in 1 .. K : Num(w[k - 1]) = Num(w[k]) * b + ds[k]
  BY <1>13
<1>19. K # 0 /\ w[0] = v /\ w[K] = Zero /\ ds \in Seq(0 .. b - 1) /\ Len(ds) = K
  BY <1>6, <1>10, <1>12
<1>15. Remainders(v, b, ds, w)
  BY <1>11, <1>14, <1>16, <1>17, <1>18, <1>19, Zenon DEF Remainders
<1> QED
  BY <1>6, <1>9, <1>10, <1>15

\* In every base 64 digits are enough, and in those that itoa takes, its table has
\* enough.
LEMMA DigitsOf ==
  ASSUME NEW v \in Word, NEW b \in 2 .. 36
  PROVE  /\ Len(Digits(v, b)) <= 64
         /\ b <= 16 => Len(Digits(v, b)) <= BASE_MAX_DIGIT_MAP[b]
         /\ \E w : Remainders(v, b, Digits(v, b), w)
<1>1. BASE_MAX_DIGIT_MAP[2] = 64
  BY DEF BASE_MAX_DIGIT_MAP
<1>2. PICK p2 : Powers(2, 64, p2)
  BY HasPowers
<1>3. p2[64] >= LIMB * LIMB * LIMB * LIMB
  BY <1>1, <1>2, DigitsEnough
<1>4. Len(Digits(v, b)) <= 64 /\ \E w : Remainders(v, b, Digits(v, b), w)
  BY <1>2, <1>3, DigitsAre
<1>5. ASSUME b <= 16 PROVE Len(Digits(v, b)) <= BASE_MAX_DIGIT_MAP[b]
  <2>1. PICK m : m = BASE_MAX_DIGIT_MAP[b]
    OBVIOUS
  <2>2. b \in 2 .. 16
    BY <1>5
  <2>3. m \in Nat /\ m \in 1 .. 64
    <3>1. BASE_MAX_DIGIT_MAP[b] \in 1 .. 64
      BY <2>2, TableIs, Zenon
    <3> QED
      BY <2>1, <3>1
  <2>4. PICK pw : Powers(b, m, pw)
    BY <2>3, HasPowers
  <2>5. pw[m] >= LIMB * LIMB * LIMB * LIMB
    BY <2>1, <2>2, <2>4, DigitsEnough
  <2>6. b \in Nat /\ b # 0 /\ b <= b
    OBVIOUS
  <2>7. Len(Digits(v, b)) <= m
    BY <2>3, <2>4, <2>5, <2>6, DigitsAre
  <2> QED
    BY <2>1, <2>7
<1> QED
  BY <1>4, <1>5

-----------------------------------------------------------------------------
(* Numerals.                                                                *)

\* A character tells its digit.
LEMMA DigitOfIs ==
  ASSUME NEW d \in 0 .. 35
  PROVE  DigitOf(Digit(d)) = d
BY DigitInjective DEF DigitOf

\* Its value is the number that was divided: the loop of Value goes through what
\* was left of it, backwards.
LEMMA ValueIs ==
  ASSUME NEW v, NEW b \in 2 .. 36, NEW ds, NEW w, Remainders(v, b, ds, w)
  PROVE  Value(Written(ds), b) = v
<1>1. /\ ds \in Seq(0 .. b - 1) /\ Len(ds) \in Nat
      /\ w[0] = v /\ w[Len(ds)] = Zero
      /\ \A k \in 1 .. Len(ds) : Times(w[k], b, ds[k]) = w[k - 1]
  BY DEF Remainders
<1> DEFINE text == Written(ds)
           Eqn(g) == g = [i \in 0 .. Len(text) |-> IF i = 0 THEN Zero ELSE
                            Once(g[i - 1], LAMBDA x : Times(x, b, DigitOf(text[i])))]
           after == CHOOSE g : Eqn(g)
<1>2. Value(text, b) = after[Len(text)]
  BY Zenon DEF Value, Loop
<1>3. ASSUME NEW g
      PROVE  Eqn(g) <=> g = [i \in 0 .. Len(text) |-> IF i = 0 THEN Zero ELSE
                               Times(g[i - 1], b, DigitOf(text[i]))]
  <2>1. ASSUME NEW x, NEW i
        PROVE  Once(x, LAMBDA y : Times(y, b, DigitOf(text[i]))) = Times(x, b, DigitOf(text[i]))
    BY DEF Once
  <2> QED
    BY <2>1, Zenon
<1>4. PICK K \in Nat : K = Len(ds)
  BY <1>1
<1>5. Len(text) = K /\ \A k \in 1 .. K : text[k] = Digit(ds[K - k + 1])
  BY <1>4 DEF Written
<1> HIDE DEF text, Eqn
<1>6. ASSUME NEW k \in 1 .. K
      PROVE  Times(w[K - (k - 1)], b, DigitOf(text[k])) = w[K - k]
  <2>1. PICK j \in 1 .. K : j = K - k + 1 /\ K - (k - 1) = j /\ K - k = j - 1
    OBVIOUS
  <2>2. ds[j] \in 0 .. 35
    <3>1. ds[j] \in 0 .. b - 1
      BY <1>1, <1>4
    <3> QED
      BY <3>1
  <2>3. text[k] = Digit(ds[j])
    BY <1>5, <2>1
  <2>4. DigitOf(Digit(ds[j])) = ds[j]
    BY <2>2, DigitOfIs
  <2> QED
    BY <1>1, <1>4, <2>1, <2>3, <2>4
<1> DEFINE a == [i \in 0 .. K |-> w[K - i]]
<1>7. /\ a = [i \in 0 .. K |-> a[i]]
      /\ a[0] = Zero /\ \A k \in 1 .. K : a[k] = w[K - k]
      /\ \A k \in 1 .. K : a[k - 1] = w[K - (k - 1)]
      /\ a[K] = v
  BY <1>1, <1>4
<1> HIDE DEF a
<1>20. ASSUME NEW i \in 1 .. K PROVE a[i] = Times(a[i - 1], b, DigitOf(text[i]))
  <2>1. a[i] = w[K - i] /\ a[i - 1] = w[K - (i - 1)]
    BY <1>7
  <2> QED
    BY <1>6, <2>1
<1>8. Eqn(a)
  <2>1. ASSUME NEW i \in 0 .. K PROVE a[i] = IF i = 0 THEN Zero ELSE Times(a[i - 1], b, DigitOf(text[i]))
    <3>1. CASE i = 0
      BY <1>7, <3>1
    <3>2. CASE i \in 1 .. K
      BY <1>20, <3>2
    <3> QED
      BY <3>1, <3>2
  <2>2. a = [i \in 0 .. K |-> IF i = 0 THEN Zero ELSE Times(a[i - 1], b, DigitOf(text[i]))]
    BY <1>7, <2>1
  <2> QED
    BY <1>3, <1>5, <2>2
<1>9. Eqn(after)
  BY <1>8
<1> HIDE DEF after
<1>10. after[0] = Zero /\ \A i \in 1 .. K : after[i] = Times(after[i - 1], b, DigitOf(text[i]))
  <2>1. after = [i \in 0 .. K |-> IF i = 0 THEN Zero ELSE Times(after[i - 1], b, DigitOf(text[i]))]
    BY <1>3, <1>5, <1>9
  <2> QED
    BY <2>1
<1> DEFINE Same == {i \in 0 .. K : after[i] = a[i]}
<1>11. 0 \in Same
  BY <1>7, <1>10
<1>12. \A i \in 1 .. K : i - 1 \in Same => i \in Same
  BY <1>10, <1>20
<1>13. K \in Same
  <2> HIDE DEF Same
  <2> QED
    BY <1>11, <1>12, Induct
<1> QED
  BY <1>2, <1>5, <1>7, <1>13 DEF text

\* So it is the numeral of that number.
LEMMA NumeralIs ==
  ASSUME NEW v, NEW b \in 2 .. 36, NEW ds, NEW w, Remainders(v, b, ds, w)
  PROVE  Numeral(Written(ds), v, b)
<1>1. /\ ds \in Seq(0 .. b - 1) /\ Len(ds) \in Nat /\ Len(ds) # 0
      /\ Len(ds) > 1 => ds[Len(ds)] # 0
  BY DEF Remainders
<1>2. PICK K \in Nat \ {0} : K = Len(ds)
  BY <1>1
<1>3. PICK text : text = Written(ds)
  OBVIOUS
<1>4. text = [k \in 1 .. K |-> Digit(ds[K - k + 1])]
  BY <1>2, <1>3 DEF Written
<1>5. Len(text) = K /\ \A k \in 1 .. K : text[k] = Digit(ds[K - k + 1])
  BY <1>4
<1>6. text # << >>
  BY <1>2, <1>5
<1>7. ASSUME NEW k \in 1 .. K PROVE \E d \in 0 .. b - 1 : text[k] = Digit(d)
  <2>1. ds[K - k + 1] \in 0 .. b - 1
    BY <1>1, <1>2
  <2> QED
    BY <1>5, <2>1
<1>8. ASSUME text[1] = "0" PROVE text = <<"0">>
  <2>1. Digit(0) = "0"
    BY DEF Digit
  <2>2. ds[K] \in 0 .. 35
    <3>1. ds[K] \in 0 .. b - 1
      BY <1>1, <1>2
    <3> QED
      BY <3>1
  <2>3. text[1] = Digit(ds[K])
    BY <1>2, <1>5
  <2>4. ds[K] = 0
    <3>1. Digit(ds[K]) = Digit(0) /\ 0 \in 0 .. 35
      BY <1>8, <2>1, <2>3
    <3> QED
      BY <2>2, <3>1, DigitInjective
  <2>5. K = 1
    BY <1>1, <1>2, <2>4
  <2> QED
    BY <1>4, <1>8, <2>5
<1>9. Value(text, b) = v
  BY <1>3, ValueIs
<1> QED
  BY <1>3, <1>5, <1>6, <1>7, <1>8, <1>9 DEF Numeral

\* A buffer with its first terminator at K reads as the K bytes before it.
LEMMA TextIs ==
  ASSUME NEW buf, NEW R \in Nat, DOMAIN buf = 0 .. R - 1, NEW K \in 0 .. R - 1, buf[K] = Nul,
         \A p \in 0 .. K - 1 : buf[p] # Nul
  PROVE  Text(buf) = [i \in 1 .. K |-> buf[i - 1]]
<1> DEFINE ends == {p \in DOMAIN buf : buf[p] = Nul}
<1>1. Text(buf) = IF ends = {} THEN Overrun ELSE [i \in 1 .. Least(ends) |-> buf[i - 1]]
  BY DEF Text, Once
<1>2. K \in ends /\ \A p \in ends : K <= p /\ p \in Nat
  OBVIOUS
<1> HIDE DEF ends
<1>3. Least(ends) = K
  <2>1. Least(ends) \in ends /\ \A j \in ends : Least(ends) <= j
    BY <1>2, Zenon DEF Least
  <2>2. PICK m : m = Least(ends)
    OBVIOUS
  <2>3. m \in Nat /\ K <= m /\ m <= K
    BY <1>2, <2>1, <2>2
  <2> QED
    BY <2>2, <2>3
<1> QED
  BY <1>1, <1>2, <1>3

\* The characters of digits are not the terminator.
LEMMA DigitChar ==
  ASSUME NEW d \in 0 .. 35
  PROVE  Digit(d) # Nul
BY DEF Digit, Nul

\* A digit of a base is one that has a character.
LEMMA SmallDigit ==
  ASSUME NEW b \in 2 .. 36, NEW d \in 0 .. b - 1
  PROVE  d \in 0 .. 35
OBVIOUS

\* A buffer of R bytes with room for digits from index low on, and a terminator
\* behind them; and one with the digits in it.
Fits(buf, ds, low, R) ==
  Len(ds) # 0 /\ low + Len(ds) < R /\ DOMAIN buf = 0 .. R - 1 /\ buf[low + Len(ds)] = Nul
Holds(put, ds, low, R) ==
  /\ DOMAIN put = 0 .. R - 1 /\ put[low + Len(ds)] = Nul
  /\ \A p \in low .. low + Len(ds) - 1 : put[p] = Written(ds)[p - low + 1] /\ put[p] # Nul
CharsOf(ds) == [k \in DOMAIN ds |-> Digit(ds[k])]

\* The second loop of itoa and utoa puts them there.
LEMMA PutIs ==
  ASSUME NEW b \in 2 .. 36, NEW ds \in Seq(0 .. b - 1), NEW R \in Nat, NEW buf,
         NEW low \in 0 .. 1, Fits(buf, ds, low, R)
  PROVE  Holds(PutDigits(buf, CharsOf(ds), low + Len(ds) - 1, low), ds, low, R)
<1>1. PICK K \in Nat : K = Len(ds) /\ DOMAIN ds = 1 .. K
  OBVIOUS
<1>7. low + K < R /\ DOMAIN buf = 0 .. R - 1 /\ buf[low + K] = Nul
  BY <1>1 DEF Fits
<1>2. Len(CharsOf(ds)) = K /\ \A k \in 1 .. K : CharsOf(ds)[k] = Digit(ds[k])
  BY <1>1 DEF CharsOf
<1>8. PICK put : put = PutDigits(buf, CharsOf(ds), low + K - 1, low)
  OBVIOUS
<1>3. put = [p \in 0 .. R - 1 |-> IF p \in low .. low + K - 1 /\ low + K - 1 - p < K
                                  THEN CharsOf(ds)[low + K - 1 - p + 1] ELSE buf[p]]
  BY <1>2, <1>7, <1>8 DEF PutDigits
<1>4. DOMAIN put = 0 .. R - 1 /\ put[low + K] = Nul
  <2>1. low + K \in 0 .. R - 1 /\ low + K \notin low .. low + K - 1
    BY <1>7
  <2> QED
    BY <1>3, <1>7, <2>1
<1>5. ASSUME NEW p \in low .. low + K - 1
      PROVE  put[p] = Written(ds)[p - low + 1] /\ put[p] # Nul
  <2>1. PICK j \in 1 .. K : j = low + K - 1 - p + 1
    OBVIOUS
  <2>2. put[p] = Digit(ds[j])
    <3>1. p \in 0 .. R - 1 /\ low + K - 1 - p < K
      BY <1>7
    <3>2. put[p] = CharsOf(ds)[low + K - 1 - p + 1]
      BY <1>3, <3>1
    <3> QED
      BY <1>2, <2>1, <3>2
  <2>3. p - low + 1 \in 1 .. K /\ K - (p - low + 1) + 1 = j
    BY <2>1
  <2>4. Written(ds)[p - low + 1] = Digit(ds[j])
    BY <1>1, <2>3 DEF Written
  <2>5. ds[j] \in 0 .. b - 1
    <3>1. j \in DOMAIN ds
      BY <1>1
    <3> QED
      BY <3>1
  <2>6. ds[j] \in 0 .. 35
    BY <2>5, SmallDigit
  <2> QED
    BY <2>2, <2>4, <2>6, DigitChar
<1> QED
  BY <1>1, <1>4, <1>5, <1>8 DEF Holds

\* Digits put from the start of the buffer on are its text.
LEMMA PutText ==
  ASSUME NEW b \in 2 .. 36, NEW ds \in Seq(0 .. b - 1), NEW R \in Nat, NEW buf, Fits(buf, ds, 0, R)
  PROVE  Text(PutDigits(buf, CharsOf(ds), Len(ds) - 1, 0)) = Written(ds)
<1>1. PICK K \in Nat : K = Len(ds) /\ 0 + K = K /\ K < R
  BY DEF Fits
<1>2. PICK put : put = PutDigits(buf, CharsOf(ds), 0 + Len(ds) - 1, 0)
  OBVIOUS
<1>3. Holds(put, ds, 0, R)
  <2>1. 0 \in 0 .. 1
    OBVIOUS
  <2>2. Holds(PutDigits(buf, CharsOf(ds), 0 + Len(ds) - 1, 0), ds, 0, R)
    BY <2>1, PutIs, Zenon
  <2> QED
    BY <1>2, <2>2, Zenon
<1>4. DOMAIN put = 0 .. R - 1 /\ put[K] = Nul
  BY <1>1, <1>3 DEF Holds
<1>8. \A p \in 0 .. K - 1 : put[p] = Written(ds)[p + 1] /\ put[p] # Nul
  <2>1. \A p \in 0 .. K - 1 : p - 0 + 1 = p + 1
    OBVIOUS
  <2> QED
    BY <1>1, <1>3, <2>1 DEF Holds
<1>9. K \in 0 .. R - 1
  BY <1>1
<1>5. Text(put) = [i \in 1 .. K |-> put[i - 1]]
  <2>1. \A p \in 0 .. K - 1 : put[p] # Nul
    BY <1>8
  <2> QED
    BY <1>4, <1>9, <2>1, TextIs
<1>6. ASSUME NEW i \in 1 .. K PROVE put[i - 1] = Written(ds)[i]
  <2>1. i - 1 \in 0 .. K - 1 /\ (i - 1) + 1 = i
    OBVIOUS
  <2> QED
    BY <1>8, <2>1
<1>7. Written(ds) = [i \in 1 .. K |-> Written(ds)[i]]
  BY <1>1 DEF Written
<1> QED
  BY <1>1, <1>2, <1>5, <1>6, <1>7, SMTT(30)

\* Zero has one digit.
LEMMA ZeroDigits ==
  ASSUME NEW b \in 2 .. 36
  PROVE  Written(Digits(Zero, b)) = <<"0">>
<1>1. Zero \in Word /\ Num(Zero) = 0
  BY LimbIs DEF Num, Zero, Word
<1>2. PICK ds : ds = Digits(Zero, b)
  OBVIOUS
<1>3. PICK w : Remainders(Zero, b, ds, w)
  BY <1>1, <1>2, DigitsOf
<1>4. /\ ds \in Seq(0 .. b - 1) /\ Len(ds) # 0 /\ w \in [0 .. Len(ds) -> Word] /\ w[0] = Zero
      /\ \A k \in 1 .. Len(ds) - 1 : w[k] # Zero
  BY <1>3 DEF Remainders
<1>5. PICK n \in Nat : n = Len(ds) /\ 1 \in 1 .. n
  BY <1>4
<1>6. w[1] \in Word /\ ds[1] \in 0 .. b - 1
  BY <1>4, <1>5
<1>7. PICK q \in Nat : q = Num(w[1])
  BY <1>6, NumIs
<1>8. 0 = q * b + ds[1]
  <2>1. \A k \in 1 .. n : Num(w[k - 1]) = Num(w[k]) * b + ds[k]
    BY <1>3, <1>5 DEF Remainders
  <2>2. Num(w[1 - 1]) = Num(w[1]) * b + ds[1] /\ 1 - 1 = 0
    BY <1>5, <2>1
  <2> QED
    BY <1>1, <1>4, <1>7, <2>2
<1>9. q = 0 /\ ds[1] = 0
  <2>1. PICK d \in Nat : d = ds[1]
    BY <1>6
  <2>2. PICK x \in Nat : x = q * b
    OBVIOUS
  <2>5. 0 = x + d
    BY <1>8, <2>1, <2>2, Zenon
  <2>3. x = 0 /\ d = 0
    BY <2>5
  <2>4. q # 0 => q * b >= b
    OBVIOUS
  <2> QED
    BY <2>1, <2>2, <2>3, <2>4
<1>10. w[1] = Zero
  BY <1>6, <1>7, <1>9, NumIs
<1>11. n = 1
  BY <1>4, <1>5, <1>10
<1>12. Digit(0) = "0"
  BY DEF Digit
<1>13. Written(ds) = [k \in 1 .. 1 |-> Digit(ds[1 - k + 1])]
  BY <1>5, <1>11 DEF Written
<1>14. Written(ds) = <<"0">>
  BY <1>9, <1>12, <1>13
<1> QED
  BY <1>2, <1>14

\* The bytes that itoa and utoa clear.
LEMMA Cleared ==
  ASSUME NEW str, NEW R \in Nat, DOMAIN str = 0 .. R - 1, NEW max \in Nat, max < R
  PROVE  /\ DOMAIN memset(str, 0, Nul, max + 1) = 0 .. R - 1
         /\ \A p \in 0 .. max : memset(str, 0, Nul, max + 1)[p] = Nul
         /\ \A p \in max + 1 .. R - 1 : memset(str, 0, Nul, max + 1)[p] = str[p]
<1>1. PICK m : m = memset(str, 0, Nul, max + 1)
  OBVIOUS
<1>2. 0 + (max + 1) - 1 = max
  OBVIOUS
<1>3. m = [a \in 0 .. R - 1 |-> IF a \in 0 .. max THEN Nul ELSE str[a]]
  BY <1>1, <1>2 DEF memset
<1>4. \A p \in 0 .. max : p \in 0 .. R - 1
  OBVIOUS
<1>5. \A p \in max + 1 .. R - 1 : p \in 0 .. R - 1 /\ p \notin 0 .. max
  OBVIOUS
<1> QED
  BY <1>1, <1>3, <1>4, <1>5

\* A buffer whose first bytes, up to the one at max, are zero.
ClearedTo(buf, max, R) == DOMAIN buf = 0 .. R - 1 /\ \A p \in 0 .. max : buf[p] = Nul

\* memset clears the bytes up to the one at max.
LEMMA ClearedIs ==
  ASSUME NEW str, NEW R \in Nat, DOMAIN str = 0 .. R - 1, NEW max \in Nat, max < R
  PROVE  ClearedTo(memset(str, 0, Nul, max + 1), max, R)
<1>1. /\ DOMAIN memset(str, 0, Nul, max + 1) = 0 .. R - 1
      /\ \A p \in 0 .. max : memset(str, 0, Nul, max + 1)[p] = Nul
  BY Cleared
<1> QED
  BY <1>1, Zenon DEF ClearedTo

\* The text of zero, which itoa and utoa write on their own.
LEMMA ZeroText ==
  ASSUME NEW buf, NEW R \in Nat, DOMAIN buf = 0 .. R - 1, 1 < R, buf[1] = Nul
  PROVE  Text([buf EXCEPT ![0] = "0"]) = <<"0">>
<1>1. PICK put : put = [buf EXCEPT ![0] = "0"]
  OBVIOUS
<1>2. DOMAIN put = 0 .. R - 1 /\ put[0] = "0" /\ put[1] = Nul /\ put[0] # Nul
  BY <1>1 DEF Nul
<1>3. Text(put) = [i \in 1 .. 1 |-> put[i - 1]]
  <2>1. 1 \in 0 .. R - 1 /\ \A p \in 0 .. 1 - 1 : put[p] # Nul
    BY <1>2
  <2> QED
    BY <1>2, <2>1, TextIs
<1>4. [i \in 1 .. 1 |-> put[i - 1]] = <<"0">>
  BY <1>2
<1> QED
  BY <1>1, <1>3, <1>4

\* What itoa and utoa know of the digits of a number.
LEMMA DigitsFit ==
  ASSUME NEW v \in Word, NEW b \in 2 .. 16
  PROVE  /\ Digits(v, b) \in Seq(0 .. b - 1) /\ Len(Digits(v, b)) \in Nat \ {0}
         /\ BASE_MAX_DIGIT_MAP[b] \in 1 .. 64
         /\ Len(Digits(v, b)) <= BASE_MAX_DIGIT_MAP[b]
         /\ Numeral(Written(Digits(v, b)), v, b)
<1>1. b \in 2 .. 36 /\ b <= 16
  OBVIOUS
<1>2. BASE_MAX_DIGIT_MAP[b] \in 1 .. 64
  BY TableIs, Zenon
<1>3. PICK w : Remainders(v, b, Digits(v, b), w)
  BY <1>1, DigitsOf
<1>4. Len(Digits(v, b)) <= BASE_MAX_DIGIT_MAP[b]
  BY <1>1, DigitsOf
<1>5. Numeral(Written(Digits(v, b)), v, b)
  BY <1>1, <1>3, NumeralIs
<1>6. Digits(v, b) \in Seq(0 .. b - 1) /\ Len(Digits(v, b)) # 0
  BY <1>3 DEF Remainders
<1>7. Len(Digits(v, b)) \in Nat \ {0}
  BY <1>6
<1> QED
  BY <1>2, <1>4, <1>5, <1>6, <1>7

\* They are put at the start of the cleared bytes.
LEMMA PutAtStart ==
  ASSUME NEW b \in 2 .. 36, NEW ds \in Seq(0 .. b - 1), Len(ds) # 0,
         NEW str, NEW R \in Nat, DOMAIN str = 0 .. R - 1, NEW max \in Nat, max < R, Len(ds) <= max
  PROVE  Text(PutDigits(memset(str, 0, Nul, max + 1), CharsOf(ds), max - Offset(Len(ds), max), 0)) = Written(ds)
<1>1. PICK K \in Nat : K = Len(ds)
  OBVIOUS
<1>2. max - Offset(K, max) = K - 1
  BY <1>1 DEF Offset
<1>3. PICK buf : buf = memset(str, 0, Nul, max + 1)
  OBVIOUS
<1>4. DOMAIN buf = 0 .. R - 1 /\ \A p \in 0 .. max : buf[p] = Nul
  BY <1>3, Cleared
<1>5. Fits(buf, ds, 0, R)
  <2>1. K # 0 /\ 0 + K < R /\ K \in 0 .. max /\ 0 + K = K
    BY <1>1
  <2> QED
    BY <1>1, <1>4, <2>1 DEF Fits
<1>6. Text(PutDigits(buf, CharsOf(ds), Len(ds) - 1, 0)) = Written(ds)
  BY <1>5, PutText, Zenon
<1> QED
  BY <1>1, <1>2, <1>3, <1>6, Zenon

\* utoa writes the digits, the highest first.
LEMMA UtoaWrites ==
  ASSUME NEW v \in Word, NEW b \in 2 .. 16, NEW R \in Nat, BASE_MAX_DIGIT_MAP[b] + 1 < R,
         NEW str, DOMAIN str = 0 .. R - 1
  PROVE  Text(utoa(v, str, b)) = Written(Digits(v, b))
<1>1. PICK max : max = BASE_MAX_DIGIT_MAP[b]
  OBVIOUS
<1>2. PICK ds : ds = Digits(v, b)
  OBVIOUS
<1>3. /\ ds \in Seq(0 .. b - 1) /\ Len(ds) \in Nat \ {0} /\ max \in 1 .. 64 /\ Len(ds) <= max
  BY <1>1, <1>2, DigitsFit
<1>4. max \in Nat /\ max < R /\ Len(ds) # 0 /\ b \in 2 .. 36 /\ 1 < R /\ 1 \in 0 .. max
  BY <1>1, <1>3
<1>5. b \in DOMAIN BASE_MAX_DIGIT_MAP
  BY DEF BASE_MAX_DIGIT_MAP
<1>6. CASE v = Zero
  <2>1. PICK buf : buf = memset(str, 0, Nul, max + 1)
    OBVIOUS
  <2>2. DOMAIN buf = 0 .. R - 1 /\ buf[1] = Nul
    <3>1. ClearedTo(buf, max, R)
      <4>1. max \in Nat /\ max < R
        BY <1>4
      <4>2. ClearedTo(memset(str, 0, Nul, max + 1), max, R)
        BY <4>1, ClearedIs, Zenon
      <4> QED
        BY <2>1, <4>2, Zenon
    <3> QED
      BY <1>4, <3>1, Zenon DEF ClearedTo
  <2>3. Text([buf EXCEPT ![0] = "0"]) = <<"0">>
    BY <1>4, <2>2, ZeroText
  <2>4. utoa(v, str, b) = [buf EXCEPT ![0] = "0"]
    BY <1>1, <1>5, <1>6, <2>1, Zenon DEF utoa
  <2> QED
    BY <1>4, <1>6, <2>3, <2>4, ZeroDigits
<1>7. CASE v # Zero
  <2> DEFINE m == BASE_MAX_DIGIT_MAP[b]
             put(x) == PutDigits(memset(str, 0, Nul, m + 1), [k \in DOMAIN x |-> Digit(x[k])], m - Offset(Len(x), m), 0)
  <2>1. utoa(v, str, b) = Once(Digits(v, b), put)
    BY <1>5, <1>7, Zenon DEF utoa
  <2>4. Once(Digits(v, b), put) = put(Digits(v, b))
    <3> HIDE DEF put
    <3> QED
      BY DEF Once
  <2>2. utoa(v, str, b) = PutDigits(memset(str, 0, Nul, max + 1), CharsOf(ds), max - Offset(Len(ds), max), 0)
    BY <1>1, <1>2, <2>1, <2>4, Zenon DEF CharsOf
  <2>3. Text(utoa(v, str, b)) = Written(ds)
    <3>1. Text(PutDigits(memset(str, 0, Nul, max + 1), CharsOf(ds), max - Offset(Len(ds), max), 0)) = Written(ds)
      BY <1>3, <1>4, PutAtStart, Zenon
    <3> QED
      BY <2>2, <3>1, Zenon
  <2> QED
    BY <1>2, <2>3
<1> QED
  BY <1>6, <1>7

\* The magnitude of a negative number is a word.
LEMMA NegIsWord ==
  ASSUME NEW v \in Word
  PROVE  Neg(v) \in Word
<1>1. PICK B \in Nat : B = LIMB /\ B >= 2
  BY LimbIs
<1>2. \A i \in 1 .. 4 : v[i] \in 0 .. B - 1
  BY <1>1 DEF Word
<1> DEFINE carry(i) == IF \A j \in i + 1 .. 4 : v[j] = 0 THEN 1 ELSE 0
           limb(i) == (B - 1 - v[i] + carry(i)) % B
<1>3. ASSUME NEW i \in 1 .. 4 PROVE limb(i) \in 0 .. B - 1
  <2>1. carry(i) \in 0 .. 1
    OBVIOUS
  <2> HIDE DEF carry
  <2>2. PICK x \in Nat : x = B - 1 - v[i] + carry(i)
    BY <1>1, <1>2, <2>1
  <2>3. x % B \in 0 .. B - 1
    BY <1>1, DivIs
  <2> QED
    BY <2>2, <2>3
<1>4. Neg(v) = <<limb(1), limb(2), limb(3), limb(4)>>
  BY <1>1, Zenon DEF Neg
<1> HIDE DEF limb
<1>5. PICK a \in 0 .. B - 1, b \in 0 .. B - 1, c \in 0 .. B - 1, d \in 0 .. B - 1 :
        a = limb(1) /\ b = limb(2) /\ c = limb(3) /\ d = limb(4)
  BY <1>3
<1>6. Neg(v) = <<a, b, c, d>>
  BY <1>4, <1>5
<1> QED
  BY <1>1, <1>6 DEF Word

\* Digits as a text are characters.
LEMMA WrittenSeq ==
  ASSUME NEW b \in 2 .. 36, NEW ds \in Seq(0 .. b - 1)
  PROVE  Written(ds) \in Seq({Digit(d) : d \in 0 .. 35}) /\ Len(Written(ds)) = Len(ds)
<1>1. PICK K \in Nat : K = Len(ds)
  OBVIOUS
<1>2. ASSUME NEW i \in 1 .. K PROVE Digit(ds[K - i + 1]) \in {Digit(d) : d \in 0 .. 35}
  <2>1. ds[K - i + 1] \in 0 .. b - 1
    <3>1. K - i + 1 \in DOMAIN ds
      BY <1>1
    <3> QED
      BY <3>1
  <2>2. ds[K - i + 1] \in 0 .. 35
    BY <2>1, SmallDigit
  <2> QED
    BY <2>2
<1> QED
  BY <1>1, <1>2 DEF Written

\* With a sign in front of the digits, the text is the sign and then the digits.
LEMMA SignedText ==
  ASSUME NEW b \in 2 .. 36, NEW ds \in Seq(0 .. b - 1), NEW R \in Nat, NEW put, Holds(put, ds, 1, R),
         1 + Len(ds) < R
  PROVE  Text([put EXCEPT ![0] = "-"]) = <<"-">> \o Written(ds)
<1>1. PICK K \in Nat : K = Len(ds) /\ 1 + K < R
  OBVIOUS
<1>2. PICK buf : buf = [put EXCEPT ![0] = "-"]
  OBVIOUS
<1>3. DOMAIN put = 0 .. R - 1 /\ put[1 + K] = Nul
  BY <1>1 DEF Holds
<1>4. \A p \in 1 .. K : put[p] = Written(ds)[p] /\ put[p] # Nul
  <2>1. \A p \in 1 .. K : p - 1 + 1 = p /\ p \in 1 .. 1 + K - 1
    OBVIOUS
  <2> QED
    BY <1>1, <2>1 DEF Holds
<1>5. DOMAIN buf = 0 .. R - 1 /\ buf[0] = "-" /\ \A p \in 1 .. R - 1 : buf[p] = put[p]
  BY <1>2, <1>3
<1>6. "-" # Nul
  BY DEF Nul
<1>7. \A p \in 0 .. (K + 1) - 1 : buf[p] # Nul
  <2>1. \A p \in 0 .. (K + 1) - 1 : p = 0 \/ (p \in 1 .. K /\ p \in 1 .. R - 1)
    BY <1>1
  <2> QED
    BY <1>4, <1>5, <1>6, <2>1
<1>8. K + 1 \in 0 .. R - 1 /\ buf[K + 1] = Nul
  <2>1. K + 1 \in 1 .. R - 1 /\ K + 1 = 1 + K
    BY <1>1
  <2> QED
    BY <1>3, <1>5, <2>1
<1>9. PICK text : text = Text(buf)
  OBVIOUS
<1>10. text = [i \in 1 .. K + 1 |-> buf[i - 1]]
  BY <1>5, <1>7, <1>8, <1>9, TextIs
<1>11. Len(text) = K + 1 /\ text[1] = "-" /\ \A i \in 1 .. K + 1 : text[i] = buf[i - 1]
  BY <1>5, <1>10
<1>12. Written(ds) \in Seq({Digit(d) : d \in 0 .. 35}) /\ Len(Written(ds)) = K
  BY <1>1, WrittenSeq
<1>13. PICK s : s = Written(ds)
  OBVIOUS
<1>14. \A i \in 1 .. K + 1 : text[i] = (<<"-">> \o s)[i]
  <2>1. ASSUME NEW i \in 1 .. K PROVE text[i + 1] = s[i]
    <3>1. i + 1 \in 1 .. K + 1 /\ (i + 1) - 1 = i /\ i \in 1 .. R - 1
      BY <1>1
    <3> QED
      BY <1>4, <1>5, <1>11, <1>13, <3>1
  <2>2. \A i \in 1 .. K : (<<"-">> \o s)[i + 1] = s[i]
    BY <1>12, <1>13
  <2>3. (<<"-">> \o s)[1] = "-"
    BY <1>12, <1>13
  <2>4. \A i \in 1 .. K + 1 : i = 1 \/ (i - 1 \in 1 .. K /\ (i - 1) + 1 = i)
    OBVIOUS
  <2> QED
    BY <1>11, <2>1, <2>2, <2>3, <2>4
<1>15. <<"-">> \o s = [i \in 1 .. K + 1 |-> (<<"-">> \o s)[i]]
  BY <1>12, <1>13
<1> QED
  BY <1>2, <1>9, <1>10, <1>11, <1>13, <1>14, <1>15

\* The characters that itoa puts when nothing overflows.
LEMMA NoWrap ==
  ASSUME NEW ds
  PROVE  [k \in DOMAIN ds |-> IF FALSE /\ ds[k] # 0 THEN Junk ELSE Digit(ds[k])] = CharsOf(ds)
BY DEF CharsOf

\* itoa writes the digits of a number that is not negative.
LEMMA ItoaWrites ==
  ASSUME NEW v \in Word, ~Negative(v), NEW b \in 2 .. 16, NEW R \in Nat, BASE_MAX_DIGIT_MAP[b] + 1 < R,
         NEW str, DOMAIN str = 0 .. R - 1
  PROVE  Text(itoa(v, str, b, FALSE)) = Written(Digits(v, b))
<1>1. PICK max : max = BASE_MAX_DIGIT_MAP[b]
  OBVIOUS
<1>2. PICK ds : ds = Digits(v, b)
  OBVIOUS
<1>3. /\ ds \in Seq(0 .. b - 1) /\ Len(ds) \in Nat \ {0} /\ max \in 1 .. 64 /\ Len(ds) <= max
  BY <1>1, <1>2, DigitsFit
<1>4. max \in Nat /\ max < R /\ Len(ds) # 0 /\ b \in 2 .. 36 /\ 1 < R /\ 1 \in 0 .. max
  BY <1>1, <1>3
<1>5. b \in DOMAIN BASE_MAX_DIGIT_MAP
  BY DEF BASE_MAX_DIGIT_MAP
<1>6. CASE v = Zero
  <2>1. PICK buf : buf = memset(str, 0, Nul, max + 1)
    OBVIOUS
  <2>2. DOMAIN buf = 0 .. R - 1 /\ buf[1] = Nul
    <3>1. ClearedTo(buf, max, R)
      <4>1. max \in Nat /\ max < R
        BY <1>4
      <4>2. ClearedTo(memset(str, 0, Nul, max + 1), max, R)
        BY <4>1, ClearedIs, Zenon
      <4> QED
        BY <2>1, <4>2, Zenon
    <3> QED
      BY <1>4, <3>1, Zenon DEF ClearedTo
  <2>3. Text([buf EXCEPT ![0] = "0"]) = <<"0">>
    BY <1>4, <2>2, ZeroText
  <2>4. itoa(v, str, b, FALSE) = [buf EXCEPT ![0] = "0"]
    BY <1>1, <1>5, <1>6, <2>1, Zenon DEF itoa
  <2> QED
    BY <1>4, <1>6, <2>3, <2>4, ZeroDigits
<1>7. CASE v # Zero
  <2> DEFINE m == BASE_MAX_DIGIT_MAP[b]
             cs(x) == [k \in DOMAIN x |-> IF FALSE /\ x[k] # 0 THEN Junk ELSE Digit(x[k])]
             put(x) == PutDigits(memset(str, 0, Nul, m + 1), cs(x),
                                 (IF Negative(v) THEN m + 1 ELSE m) - Offset(Len(x), m), IF Negative(v) THEN 1 ELSE 0)
  <2>1. itoa(v, str, b, FALSE) = Once(Digits(v, b), put)
    BY <1>5, <1>7, Zenon DEF itoa
  <2>4. Once(Digits(v, b), put) = put(Digits(v, b))
    <3> HIDE DEF put
    <3> QED
      BY DEF Once
  <2>5. cs(ds) = CharsOf(ds)
    BY NoWrap
  <2> HIDE DEF cs
  <2>2. itoa(v, str, b, FALSE) = PutDigits(memset(str, 0, Nul, max + 1), CharsOf(ds), max - Offset(Len(ds), max), 0)
    BY <1>1, <1>2, <2>1, <2>4, <2>5, Zenon
  <2>3. Text(itoa(v, str, b, FALSE)) = Written(ds)
    <3>1. Text(PutDigits(memset(str, 0, Nul, max + 1), CharsOf(ds), max - Offset(Len(ds), max), 0)) = Written(ds)
      BY <1>3, <1>4, PutAtStart, Zenon
    <3> QED
      BY <2>2, <3>1, Zenon
  <2> QED
    BY <1>2, <2>3
<1> QED
  BY <1>6, <1>7

\* itoa writes the sign and the digits of the magnitude of a negative number, when
\* the byte behind its digits is one that it has cleared, or zero before.
LEMMA ItoaWritesSign ==
  ASSUME NEW v \in Word, Negative(v), NEW b \in 2 .. 16, NEW R \in Nat, BASE_MAX_DIGIT_MAP[b] + 1 < R,
         NEW str, DOMAIN str = 0 .. R - 1,
         Len(Digits(Neg(v), b)) < BASE_MAX_DIGIT_MAP[b] \/ str[BASE_MAX_DIGIT_MAP[b] + 1] = Nul
  PROVE  Text(itoa(v, str, b, FALSE)) = <<"-">> \o Written(Digits(Neg(v), b))
<1>1. PICK max : max = BASE_MAX_DIGIT_MAP[b]
  OBVIOUS
<1>2. PICK ds : ds = Digits(Neg(v), b)
  OBVIOUS
<1>3. /\ ds \in Seq(0 .. b - 1) /\ Len(ds) \in Nat \ {0} /\ max \in 1 .. 64 /\ Len(ds) <= max
  BY <1>1, <1>2, DigitsFit, NegIsWord
<1>4. max \in Nat /\ max < R /\ max + 1 < R /\ b \in 2 .. 36
  BY <1>1, <1>3
<1>5. b \in DOMAIN BASE_MAX_DIGIT_MAP
  BY DEF BASE_MAX_DIGIT_MAP
<1>6. v # Zero
  BY DEF Negative, Zero
<1>7. PICK K \in Nat \ {0} : K = Len(ds) /\ K <= max
  BY <1>3
<1>8. (max + 1) - Offset(K, max) = 1 + Len(ds) - 1
  BY <1>4, <1>7 DEF Offset
<1>9. PICK buf : buf = memset(str, 0, Nul, max + 1)
  OBVIOUS
<1>10. Fits(buf, ds, 1, R)
  <2>1. DOMAIN buf = 0 .. R - 1 /\ (\A p \in 0 .. max : buf[p] = Nul) /\ \A p \in max + 1 .. R - 1 : buf[p] = str[p]
    BY <1>4, <1>9, Cleared
  <2>2. buf[1 + K] = Nul
    <3>1. CASE K < max
      <4>1. 1 + K \in 0 .. max
        BY <1>4, <3>1
      <4> QED
        BY <2>1, <4>1
    <3>2. CASE K = max
      <4>1. 1 + K \in max + 1 .. R - 1 /\ 1 + K = max + 1
        BY <1>4, <3>2
      <4>2. str[max + 1] = Nul
        BY <1>1, <1>2, <1>4, <1>7, <3>2
      <4> QED
        BY <2>1, <4>1, <4>2
    <3> QED
      BY <1>4, <1>7, <3>1, <3>2
  <2>3. K # 0 /\ 1 + K < R
    BY <1>4, <1>7
  <2> QED
    BY <1>7, <2>1, <2>2, <2>3 DEF Fits
<1>11. PICK put : put = PutDigits(buf, CharsOf(ds), 1 + Len(ds) - 1, 1)
  OBVIOUS
<1>12. Holds(put, ds, 1, R)
  <2>1. 1 \in 0 .. 1
    OBVIOUS
  <2> QED
    BY <1>3, <1>4, <1>10, <1>11, <2>1, PutIs, Zenon
<1>13. itoa(v, str, b, FALSE) = [put EXCEPT ![0] = "-"]
  <2> DEFINE m == BASE_MAX_DIGIT_MAP[b]
             cs(x) == [k \in DOMAIN x |-> IF FALSE /\ x[k] # 0 THEN Junk ELSE Digit(x[k])]
             puts(x) == PutDigits(memset(str, 0, Nul, m + 1), cs(x),
                                  (IF Negative(v) THEN m + 1 ELSE m) - Offset(Len(x), m), IF Negative(v) THEN 1 ELSE 0)
  <2>1. itoa(v, str, b, FALSE) = [Once(Digits(Neg(v), b), puts) EXCEPT ![0] = "-"]
    BY <1>5, <1>6, Zenon DEF itoa
  <2>2. Once(Digits(Neg(v), b), puts) = puts(Digits(Neg(v), b))
    <3> HIDE DEF puts
    <3> QED
      BY DEF Once
  <2>3. cs(ds) = CharsOf(ds)
    BY NoWrap
  <2> HIDE DEF cs
  <2>4. puts(Digits(Neg(v), b)) = PutDigits(buf, CharsOf(ds), (max + 1) - Offset(Len(ds), max), 1)
    BY <1>1, <1>2, <1>9, <2>3, Zenon
  <2>5. puts(Digits(Neg(v), b)) = put
    BY <1>7, <1>8, <1>11, <2>4, Zenon
  <2> QED
    BY <2>1, <2>2, <2>5, Zenon
<1>14. 1 + Len(ds) < R
  BY <1>4, <1>7
<1>15. Text([put EXCEPT ![0] = "-"]) = <<"-">> \o Written(ds)
  BY <1>3, <1>4, <1>12, <1>14, SignedText
<1> QED
  BY <1>2, <1>13, <1>15

\* Two bytes exchanged.
IsBuffer(buf, D) == buf = [p \in D |-> buf[p]]
Swapped(buf, D, i, j) == [p \in D |-> IF p = j THEN buf[i] ELSE IF p = i THEN buf[j] ELSE buf[p]]

\* What a swap leaves where.
LEMMA SwapIs ==
  ASSUME NEW D, NEW buf, IsBuffer(buf, D), NEW i \in D, NEW j \in D
  PROVE  Swap(buf, i, j) = Swapped(buf, D, i, j)
BY DEF Swap, Swapped, IsBuffer

\* The first n bytes of raw, j from each end exchanged.
Reversed(raw, R, n, j) ==
  [p \in 0 .. R - 1 |-> IF p < n /\ (p < j \/ p >= n - j) THEN raw[n - 1 - p] ELSE raw[p]]

\* One more swap turns one more pair.
LEMMA ReversedStep ==
  ASSUME NEW R \in Nat, NEW n \in Nat, n < R, NEW raw, DOMAIN raw = 0 .. R - 1,
         NEW k \in Nat \ {0}, 2 * k <= n
  PROVE  Swap(Reversed(raw, R, n, k - 1), k - 1, n - k) = Reversed(raw, R, n, k)
<1>1. PICK x : x = Reversed(raw, R, n, k - 1)
  OBVIOUS
<1>2. k - 1 \in 0 .. R - 1 /\ n - k \in 0 .. R - 1 /\ k - 1 < n - k
  OBVIOUS
<1>3. DOMAIN x = 0 .. R - 1 /\ x = [p \in 0 .. R - 1 |-> x[p]]
  BY <1>1 DEF Reversed
<1>4. \A p \in 0 .. R - 1 : x[p] = IF p < n /\ (p < k - 1 \/ p >= n - (k - 1)) THEN raw[n - 1 - p] ELSE raw[p]
  BY <1>1 DEF Reversed
<1>5. x[k - 1] = raw[k - 1] /\ x[n - k] = raw[n - k]
  BY <1>2, <1>4
<1>6. Swap(x, k - 1, n - k)
        = [p \in 0 .. R - 1 |-> IF p = n - k THEN x[k - 1] ELSE IF p = k - 1 THEN x[n - k] ELSE x[p]]
  <2>1. PICK i \in 0 .. R - 1, j \in 0 .. R - 1 : i = k - 1 /\ j = n - k
    BY <1>2
  <2>2. Swap(x, i, j) = [p \in 0 .. R - 1 |-> IF p = j THEN x[i] ELSE IF p = i THEN x[j] ELSE x[p]]
    <3>1. IsBuffer(x, 0 .. R - 1)
      BY <1>3 DEF IsBuffer
    <3>2. Swap(x, i, j) = Swapped(x, 0 .. R - 1, i, j)
      BY <3>1, SwapIs
    <3> QED
      BY <3>2 DEF Swapped
  <2> QED
    BY <2>1, <2>2, Zenon
<1>7. ASSUME NEW p \in 0 .. R - 1
      PROVE  (IF p = n - k THEN x[k - 1] ELSE IF p = k - 1 THEN x[n - k] ELSE x[p])
               = IF p < n /\ (p < k \/ p >= n - k) THEN raw[n - 1 - p] ELSE raw[p]
  <2>1. CASE p = n - k
    <3>1. p < n /\ p >= n - k /\ n - 1 - p = k - 1
      BY <2>1
    <3> QED
      BY <1>5, <2>1, <3>1
  <2>2. CASE p = k - 1
    <3>1. p < n /\ p < k /\ n - 1 - p = n - k /\ p # n - k
      BY <1>2, <2>2
    <3> QED
      BY <1>5, <2>2, <3>1
  <2>3. CASE p # k - 1 /\ p # n - k
    <3>1. (p < n /\ (p < k \/ p >= n - k)) <=> (p < n /\ (p < k - 1 \/ p >= n - (k - 1)))
      BY <2>3
    <3> QED
      BY <1>4, <2>3, <3>1
  <2> QED
    BY <2>1, <2>2, <2>3
<1>8. Swap(x, k - 1, n - k) = Reversed(raw, R, n, k)
  BY <1>6, <1>7 DEF Reversed
<1> QED
  BY <1>1, <1>8

\* The second loop of ultoa.
LEMMA Reverses ==
  ASSUME NEW R \in Nat, NEW n \in Nat, n < R, NEW raw, DOMAIN raw = 0 .. R - 1, raw = [p \in 0 .. R - 1 |-> raw[p]],
         NEW h \in Nat, 2 * h <= n, h = n \div 2
  PROVE  Reverse(raw, n) = Reversed(raw, R, n, h)
<1> DEFINE Eqn(g) == g = [i \in 0 .. h |-> IF i = 0 THEN raw ELSE
                            Once(g[i - 1], LAMBDA b : Swap(b, i - 1, n - i))]
           after == CHOOSE g : Eqn(g)
<1>1. Reverse(raw, n) = after[h]
  BY Zenon DEF Reverse, Loop
<1>2. ASSUME NEW g
      PROVE  Eqn(g) <=> g = [i \in 0 .. h |-> IF i = 0 THEN raw ELSE Swap(g[i - 1], i - 1, n - i)]
  <2>1. ASSUME NEW x, NEW i
        PROVE  Once(x, LAMBDA b : Swap(b, i - 1, n - i)) = Swap(x, i - 1, n - i)
    BY DEF Once
  <2>2. \A i : Once(g[i - 1], LAMBDA b : Swap(b, i - 1, n - i)) = Swap(g[i - 1], i - 1, n - i)
    BY <2>1, Zenon
  <2>3. [i \in 0 .. h |-> IF i = 0 THEN raw ELSE Once(g[i - 1], LAMBDA b : Swap(b, i - 1, n - i))]
          = [i \in 0 .. h |-> IF i = 0 THEN raw ELSE Swap(g[i - 1], i - 1, n - i)]
    BY <2>2, Zenon
  <2> QED
    BY <2>3, Zenon
<1> HIDE DEF Eqn
<1> DEFINE a == [i \in 0 .. h |-> Reversed(raw, R, n, i)]
<1>3. a[0] = raw
  <2>1. \A p \in 0 .. R - 1 : ~(p < n /\ (p < 0 \/ p >= n - 0))
    OBVIOUS
  <2>2. Reversed(raw, R, n, 0) = [p \in 0 .. R - 1 |-> raw[p]]
    BY <2>1 DEF Reversed
  <2> QED
    BY <2>2
<1>4. ASSUME NEW i \in 1 .. h PROVE a[i] = Swap(a[i - 1], i - 1, n - i)
  <2>1. i \in Nat \ {0} /\ 2 * i <= n
    OBVIOUS
  <2>2. Swap(Reversed(raw, R, n, i - 1), i - 1, n - i) = Reversed(raw, R, n, i)
    BY <2>1, ReversedStep
  <2>3. i \in 0 .. h /\ i - 1 \in 0 .. h
    OBVIOUS
  <2> QED
    BY <2>2, <2>3
<1>5. a = [i \in 0 .. h |-> a[i]] /\ a[h] = Reversed(raw, R, n, h)
  OBVIOUS
<1> HIDE DEF a
<1>6. Eqn(a)
  <2>1. ASSUME NEW i \in 0 .. h PROVE a[i] = IF i = 0 THEN raw ELSE Swap(a[i - 1], i - 1, n - i)
    <3>1. CASE i = 0
      BY <1>3, <3>1
    <3>2. CASE i \in 1 .. h
      BY <1>4, <3>2
    <3> QED
      BY <3>1, <3>2
  <2>2. a = [i \in 0 .. h |-> IF i = 0 THEN raw ELSE Swap(a[i - 1], i - 1, n - i)]
    BY <1>5, <2>1
  <2> QED
    BY <1>2, <2>2
<1>7. Eqn(after)
  BY <1>6
<1> HIDE DEF after
<1>8. after[0] = raw /\ \A i \in 1 .. h : after[i] = Swap(after[i - 1], i - 1, n - i)
  <2>1. after = [i \in 0 .. h |-> IF i = 0 THEN raw ELSE Swap(after[i - 1], i - 1, n - i)]
    BY <1>2, <1>7
  <2>2. after[0] = raw
    BY <2>1
  <2>3. ASSUME NEW i \in 1 .. h PROVE after[i] = Swap(after[i - 1], i - 1, n - i)
    <3>1. i \in 0 .. h /\ i # 0
      OBVIOUS
    <3> QED
      BY <2>1, <3>1, Zenon
  <2> QED
    BY <2>2, <2>3
<1> DEFINE Same == {i \in 0 .. h : after[i] = a[i]}
<1>9. 0 \in Same
  BY <1>3, <1>8
<1>10. \A i \in 1 .. h : i - 1 \in Same => i \in Same
  BY <1>4, <1>8
<1>11. h \in Same
  <2> HIDE DEF Same
  <2> QED
    <3>1. \A i \in 0 .. h : i \in Same
      BY <1>9, <1>10, Induct
    <3>2. h \in 0 .. h
      OBVIOUS
    <3> QED
      BY <3>1, <3>2
<1> QED
  BY <1>1, <1>5, <1>11

\* The bytes of ultoa before they are reversed.
Raw(str, ds) ==
  [p \in DOMAIN str |-> IF p < Len(ds) THEN Digit(ds[p + 1]) ELSE IF p = Len(ds) THEN Nul ELSE str[p]]

\* Reversed, they read as the digits with the highest first.
LEMMA RawText ==
  ASSUME NEW b \in 2 .. 36, NEW ds \in Seq(0 .. b - 1), NEW R \in Nat, NEW str, DOMAIN str = 0 .. R - 1,
         Len(ds) < R, NEW h \in Nat, NEW r \in 0 .. 1, Len(ds) = h * 2 + r
  PROVE  Text(Reversed(Raw(str, ds), R, Len(ds), h)) = Written(ds)
<1>1. PICK n \in Nat : n = Len(ds) /\ DOMAIN ds = 1 .. n /\ n < R /\ n = h * 2 + r
  OBVIOUS
<1>2. PICK raw : raw = Raw(str, ds)
  OBVIOUS
<1>3. \A p \in 0 .. R - 1 : raw[p] = IF p < n THEN Digit(ds[p + 1]) ELSE IF p = n THEN Nul ELSE str[p]
  BY <1>1, <1>2 DEF Raw
<1>4. PICK buf : buf = Reversed(raw, R, n, h)
  OBVIOUS
<1>5. /\ DOMAIN buf = 0 .. R - 1
      /\ \A p \in 0 .. R - 1 : buf[p] = IF p < n /\ (p < h \/ p >= n - h) THEN raw[n - 1 - p] ELSE raw[p]
  BY <1>4 DEF Reversed
<1>6. n \in 0 .. R - 1 /\ buf[n] = Nul
  <2>1. n \in 0 .. R - 1 /\ ~(n < n)
    BY <1>1
  <2> QED
    BY <1>3, <1>5, <2>1
<1>7. ASSUME NEW p \in 0 .. n - 1
      PROVE  buf[p] = Digit(ds[n - p]) /\ buf[p] # Nul
  <2>1. p \in 0 .. R - 1 /\ n - 1 - p \in 0 .. R - 1 /\ p < n /\ n - 1 - p < n /\ n - p \in 1 .. n /\ n - 1 - p + 1 = n - p
    BY <1>1
  <2>2. buf[p] = raw[n - 1 - p]
    <3>1. CASE p < h \/ p >= n - h
      BY <1>5, <2>1, <3>1
    <3>2. CASE ~(p < h \/ p >= n - h)
      <4>1. n - 1 - p = p
        BY <1>1, <3>2
      <4> QED
        BY <1>5, <2>1, <3>2, <4>1
    <3> QED
      BY <3>1, <3>2
  <2>3. raw[n - 1 - p] = Digit(ds[n - p])
    BY <1>3, <2>1
  <2>4. ds[n - p] \in 0 .. b - 1
    <3>1. n - p \in DOMAIN ds
      BY <1>1, <2>1
    <3> QED
      BY <3>1
  <2>5. ds[n - p] \in 0 .. 35
    BY <2>4, SmallDigit
  <2> QED
    BY <2>2, <2>3, <2>5, DigitChar
<1>8. Text(buf) = [i \in 1 .. n |-> buf[i - 1]]
  <2>1. \A p \in 0 .. n - 1 : buf[p] # Nul
    BY <1>7
  <2>2. DOMAIN buf = 0 .. R - 1
    BY <1>5, Zenon
  <2> QED
    BY <1>6, <2>1, <2>2, TextIs
<1>9. ASSUME NEW i \in 1 .. n PROVE buf[i - 1] = Digit(ds[n - i + 1])
  <2>1. i - 1 \in 0 .. n - 1 /\ n - (i - 1) = n - i + 1
    OBVIOUS
  <2> QED
    BY <1>7, <2>1
<1>10. Written(ds) = [i \in 1 .. n |-> Digit(ds[n - i + 1])]
  BY <1>1 DEF Written
<1> QED
  BY <1>1, <1>2, <1>4, <1>8, <1>9, <1>10

\* ultoa writes the digits, the highest first.
LEMMA UltoaWrites ==
  ASSUME NEW v \in Word, NEW b \in 2 .. 36, NEW R \in Nat, Len(Digits(v, b)) < R, NEW str, DOMAIN str = 0 .. R - 1
  PROVE  Text(ultoa(v, str, b)) = Written(Digits(v, b))
<1>1. PICK ds : ds = Digits(v, b)
  OBVIOUS
<1>2. PICK w : Remainders(v, b, ds, w)
  BY <1>1, DigitsOf
<1>3. Len(ds) < R
  BY <1>1
<1>4. ds \in Seq(0 .. b - 1)
  BY <1>2 DEF Remainders
<1>5. PICK n \in Nat : n = Len(ds) /\ n < R
  BY <1>3, <1>4
<1>6. PICK h \in Nat, r \in 0 .. 1 : h = n \div 2 /\ n = h * 2 + r
  <2>1. n \div 2 \in Nat /\ n % 2 \in 0 .. 2 - 1 /\ n = (n \div 2) * 2 + (n % 2)
    OBVIOUS
  <2> QED
    BY <2>1
<1> DEFINE raw(x) == [p \in DOMAIN str |-> IF p < Len(x) THEN Digit(x[p + 1])
                                           ELSE IF p = Len(x) THEN Nul ELSE str[p]]
           reversed(x) == Reverse(raw(x), Len(x))
<1>7. ultoa(v, str, b) = Once(Digits(v, b), reversed)
  BY Zenon DEF ultoa
<1>8. Once(Digits(v, b), reversed) = reversed(Digits(v, b))
  <2> HIDE DEF reversed
  <2> QED
    BY DEF Once
<1>9. raw(ds) = Raw(str, ds)
  BY DEF Raw
<1>10. DOMAIN Raw(str, ds) = 0 .. R - 1 /\ Raw(str, ds) = [p \in 0 .. R - 1 |-> Raw(str, ds)[p]]
  BY DEF Raw
<1> HIDE DEF raw
<1>11. reversed(ds) = Reverse(Raw(str, ds), n)
  BY <1>5, <1>9, Zenon
<1>12. 2 * h <= n
  BY <1>6
<1>13. reversed(ds) = Reversed(Raw(str, ds), R, n, h)
  BY <1>5, <1>6, <1>10, <1>11, <1>12, Reverses
<1>14. Text(reversed(ds)) = Written(ds)
  <2>1. Text(Reversed(Raw(str, ds), R, Len(ds), h)) = Written(ds)
    <3>1. Len(ds) < R /\ Len(ds) = h * 2 + r
      BY <1>3, <1>5, <1>6
    <3> QED
      BY <1>4, <3>1, RawText
  <2> QED
    BY <1>5, <1>13, <2>1
<1> HIDE DEF reversed
<1> QED
  BY <1>1, <1>7, <1>8, <1>14

-----------------------------------------------------------------------------
(* The pure functions, as module Printf calls them.                         *)

\* What a finished call has returned.
Returned ==
  /\ call.fn = "memcpy" => ret = memcpy(call.mem, call.dest, call.src, call.n)
  /\ call.fn = "memmove" => ret = memmove(call.mem, call.dest, call.src, call.n)
  /\ call.fn = "strstr" => ret = strstr(call.hay, call.needle)
  /\ call.fn = "itoa" =>
       \E wraps \in Overflows(call.value) : ret = Text(itoa(call.value, Room, call.base, wraps))
  /\ call.fn = "utoa" => ret = Text(utoa(call.value, Room, call.base))
  /\ call.fn = "ultoa" => ret = Text(ultoa(call.value, Room, call.base))

PureInv ==
  /\ call \in Calls \cup Prints
  /\ pc = "loop" => call.fn \in Printing
  /\ pc = "done" => Returned

\* The invariant holds before the call.
LEMMA PureInit == Init => PureInv
BY DEF Init, PureInv

\* Every step keeps it: one case for each action.
LEMMA PureStep ==
  ASSUME PureInv, [Next]_vars
  PROVE  PureInv'
<1>1. call \in Calls \cup Prints /\ (pc = "loop" => call.fn \in Printing)
  BY DEF PureInv
<1>2. CASE UNCHANGED vars
  BY <1>2 DEF vars, PureInv, Returned, Room
<1>3. ASSUME call' = call, call.fn \in Printing, pc' \in {"loop", "wild", "done"}
      PROVE  PureInv'
  BY <1>1, <1>3 DEF PureInv, Returned, Printing
<1>4. ASSUME NEW s, pc = "loop", Put(s), call' = call
      PROVE  PureInv'
  BY <1>1, <1>3, <1>4 DEF Put
<1>5. CASE Memcpy
  BY <1>1, <1>5 DEF Memcpy, Pure, PureInv, Returned
<1>6. CASE Memmove
  BY <1>1, <1>6 DEF Memmove, Pure, PureInv, Returned
<1>7. CASE Memset
  BY <1>1, <1>7 DEF Memset, Pure, PureInv, Returned
<1>8. CASE Strstr
  BY <1>1, <1>8 DEF Strstr, Pure, PureInv, Returned
<1>9. CASE Itoa
  <2>1. PICK wraps \in Overflows(call.value) : Pure("itoa", Text(itoa(call.value, Room, call.base, wraps)))
    BY <1>9 DEF Itoa, Pure
  <2>2. Room' = Room
    BY <2>1 DEF Pure, Room
  <2> QED
    BY <1>1, <2>1, <2>2 DEF Pure, PureInv, Returned
<1>10. CASE Utoa
  BY <1>1, <1>10 DEF Utoa, Pure, PureInv, Returned, Room
<1>11. CASE Ultoa
  BY <1>1, <1>11 DEF Ultoa, Pure, PureInv, Returned, Room
<1>12. CASE Enter
  BY <1>3, <1>12 DEF Enter
<1>13. CASE Plain
  BY <1>4, <1>13 DEF Plain
<1>14. CASE Percent
  BY <1>4, <1>14 DEF Percent
<1>15. CASE String
  BY <1>4, <1>15 DEF String
<1>16. CASE Number
  BY <1>4, <1>16 DEF Number
<1>17. CASE Unknown
  BY <1>1, <1>3, <1>17 DEF Unknown
<1>18. CASE Emit
  BY <1>1, <1>3, <1>18 DEF Emit
<1> QED
  BY <1>2, <1>5, <1>6, <1>7, <1>8, <1>9, <1>10, <1>11, <1>12, <1>13, <1>14, <1>15, <1>16, <1>17, <1>18 DEF Next

\* The call of a pure function is one that the assumption allows.
LEMMA CallIs ==
  ASSUME PureInv
  PROVE  /\ call.fn \in {"memcpy", "memmove"} => IsMove(call)
         /\ call.fn = "strstr" => IsSearch(call)
         /\ call.fn \in {"itoa", "utoa", "ultoa"} => IsConversion(call)
<1>1. call \in Calls \/ call.fn \in Printing
  BY PrintsAssumption DEF PureInv
<1>2. ASSUME call \in Calls PROVE IsMove(call) \/ IsSearch(call) \/ IsConversion(call)
  BY <1>2, CallsAssumption
<1> QED
  BY <1>1, <1>2 DEF IsMove, IsSearch, IsConversion, Printing

\* memcpy and memmove of main.c move the bytes that were there.
LEMMA PureMoves ==
  ASSUME PureInv
  PROVE  MovesBytes
<1>1. SUFFICES ASSUME pc = "done", call.fn \in {"memmove", "memcpy"}
               PROVE  \A a \in DOMAIN call.mem : ret[a] = Moved(call.mem, call.dest, call.src, call.n, a)
  BY DEF MovesBytes, Done, Moved
<1>2. IsMove(call) /\ Returned
  BY <1>1, CallIs DEF PureInv
<1>8. PICK m : m = call.mem
  OBVIOUS
<1>3. PICK dest \in Int, src \in Int, n \in Nat :
        m = call.mem /\ dest = call.dest /\ src = call.src /\ n = call.n
  BY <1>2, <1>8 DEF IsMove
<1>4. m = [a \in DOMAIN m |-> m[a]] /\ dest .. dest + n - 1 \subseteq DOMAIN m /\ src .. src + n - 1 \subseteq DOMAIN m
  BY <1>1, <1>2, <1>3 DEF IsMove
<1>5. PICK A, V : A = DOMAIN m /\ m \in [A -> V]
  <2>1. m \in [DOMAIN m -> {m[a] : a \in DOMAIN m}]
    BY <1>4
  <2> QED
    BY <2>1
<1>6. CASE call.fn = "memmove"
  <2>1. ret = memmove(m, dest, src, n)
    BY <1>2, <1>3, <1>6 DEF Returned
  <2>3. dest .. dest + n - 1 \subseteq A /\ src .. src + n - 1 \subseteq A
    BY <1>4, <1>5
  <2>2. \A a \in A : memmove(m, dest, src, n)[a] = Moved(m, dest, src, n, a)
    BY <1>5, <2>3, MemmoveMoves
  <2> QED
    BY <1>3, <1>5, <2>1, <2>2
<1>7. CASE call.fn = "memcpy"
  <2>1. ret = memcpy(m, dest, src, n)
    BY <1>2, <1>3, <1>7 DEF Returned
  <2>2. dest <= src \/ src + n <= dest
    <3>1. dest + n <= src \/ src + n <= dest
      BY <1>2, <1>3, <1>7 DEF IsMove
    <3> QED
      BY <3>1
  <2>4. dest .. dest + n - 1 \subseteq A /\ src .. src + n - 1 \subseteq A
    BY <1>4, <1>5
  <2>3. \A a \in A : memcpy(m, dest, src, n)[a] = Moved(m, dest, src, n, a)
    BY <1>5, <2>2, <2>4, CopiesUp
  <2> QED
    BY <1>3, <1>5, <2>1, <2>3
<1> QED
  BY <1>1, <1>6, <1>7

\* An occurrence, as FindsFirst and as the lemmas on strstr state it.
LEMMA SubSeqOccurs ==
  ASSUME NEW hay, NEW needle, IsText(hay), IsText(needle), NEW k \in 1 .. Len(hay) - Len(needle) + 1
  PROVE  SubSeq(hay, k, k + Len(needle) - 1) = needle <=> OccursAt(hay, needle, k)
<1>1. PICK H \in Nat, L \in Nat : H = Len(hay) /\ L = Len(needle) /\ needle = [j \in 1 .. L |-> needle[j]]
  BY DEF IsText
<1>2. k \in Nat \ {0} /\ k + L - 1 <= H
  BY <1>1
<1>3. PICK s : s = SubSeq(hay, k, k + L - 1)
  OBVIOUS
<1>4. s = [j \in 1 .. L |-> hay[k + j - 1]]
  <2>1. s = [j \in 1 .. (1 + (k + L - 1) - k) |-> hay[j + k - 1]]
    BY <1>3
  <2>2. 1 + (k + L - 1) - k = L /\ \A j \in 1 .. L : j + k - 1 = k + j - 1
    BY <1>2
  <2> QED
    BY <2>1, <2>2
<1>5. s = needle <=> \A j \in 1 .. L : hay[k + j - 1] = needle[j]
  BY <1>1, <1>4
<1> QED
  BY <1>1, <1>2, <1>3, <1>5 DEF OccursAt

\* strstr of main.c finds the first occurrence.
LEMMA PureFinds ==
  ASSUME PureInv
  PROVE  FindsFirst
<1>1. SUFFICES ASSUME pc = "done", call.fn = "strstr" PROVE FindsFirst
  BY DEF FindsFirst, Done
<1>2. IsSearch(call) /\ Returned
  BY <1>1, CallIs DEF PureInv
<1>3. PICK hay, needle : hay = call.hay /\ needle = call.needle
  OBVIOUS
<1>4. IsText(hay) /\ IsText(needle) /\ ret = strstr(hay, needle)
  BY <1>1, <1>2, <1>3 DEF IsSearch, Returned
<1>5. PICK last \in Int : last = Len(hay) - Len(needle) + 1
  BY <1>4 DEF IsText
<1>6. \A k \in 1 .. last : Occurs(k) <=> OccursAt(hay, needle, k)
  BY <1>3, <1>4, <1>5, SubSeqOccurs DEF Occurs
<1>7. \/ /\ ret \in 1 .. last /\ OccursAt(hay, needle, ret)
         /\ \A k \in 1 .. ret - 1 : ~ OccursAt(hay, needle, k)
      \/ ret = 0 /\ \A k \in 1 .. last : ~ OccursAt(hay, needle, k)
  BY <1>4, <1>5, StrstrFinds
<1>8. CASE ret = 0 /\ \A k \in 1 .. last : ~ OccursAt(hay, needle, k)
  BY <1>3, <1>5, <1>6, <1>8 DEF FindsFirst
<1>9. CASE ret \in 1 .. last /\ OccursAt(hay, needle, ret) /\ \A k \in 1 .. ret - 1 : ~ OccursAt(hay, needle, k)
  <2>1. \A k \in 1 .. ret - 1 : k \in 1 .. last
    BY <1>9
  <2>2. ret \in 1 .. last /\ Occurs(ret) /\ \A k \in 1 .. ret - 1 : ~ Occurs(k)
    BY <1>6, <1>9, <2>1
  <2>3. \E k \in 1 .. last : Occurs(k)
    BY <2>2
  <2> QED
    BY <1>3, <1>5, <2>2, <2>3 DEF FindsFirst
<1> QED
  BY <1>7, <1>8, <1>9

\* The longest numeral of a base.
LEMMA LongestIs ==
  ASSUME NEW b
  PROVE  /\ Longest(b) \in 1 .. 64
         /\ b \in 2 .. 16 => Longest(b) = BASE_MAX_DIGIT_MAP[b]
         /\ \A R \in Nat : R > Longest(b) + 1 => Longest(b) + 1 < R
<1>1. DOMAIN BASE_MAX_DIGIT_MAP = 2 .. 16
  BY DEF BASE_MAX_DIGIT_MAP
<1>2. Longest(b) \in 1 .. 64
  <2>1. CASE b \in 2 .. 16
    <3>1. BASE_MAX_DIGIT_MAP[b] \in 1 .. 64
      BY <2>1, TableIs, Zenon
    <3> QED
      BY <1>1, <2>1, <3>1 DEF Longest
  <2>2. CASE b \notin 2 .. 16
    <3>1. Longest(b) = 64
      BY <1>1, <2>2 DEF Longest
    <3> QED
      BY <3>1
  <2> QED
    BY <2>1, <2>2
<1>3. b \in 2 .. 16 => Longest(b) = BASE_MAX_DIGIT_MAP[b]
  BY <1>1 DEF Longest
<1>4. \A R \in Nat : R > Longest(b) + 1 => Longest(b) + 1 < R
  <2>1. PICK x \in Nat : x = Longest(b)
    BY <1>2
  <2> QED
    BY <2>1
<1> QED
  BY <1>2, <1>3, <1>4

\* A buffer with room for the longest numeral has room for each.
LEMMA LongestFits ==
  ASSUME NEW v \in Word, NEW b \in 2 .. 36, NEW R \in Nat, Longest(b) + 1 < R
  PROVE  Len(Digits(v, b)) < R /\ \E w : Remainders(v, b, Digits(v, b), w)
<1>1. Len(Digits(v, b)) \in Nat
  <2>1. PICK w : Remainders(v, b, Digits(v, b), w)
    BY DigitsOf
  <2> QED
    BY <2>1 DEF Remainders
<1>2. PICK n \in Nat : n = Len(Digits(v, b))
  BY <1>1
<1>3. PICK x \in Nat : x = Longest(b) /\ x + 1 < R
  <2>1. Longest(b) \in 1 .. 64
    BY LongestIs
  <2> QED
    BY <2>1
<1>4. n <= x
  <2>1. CASE b \in 2 .. 16
    <3>1. b <= 16 /\ x = BASE_MAX_DIGIT_MAP[b]
      BY <1>3, <2>1, LongestIs
    <3>2. Len(Digits(v, b)) <= BASE_MAX_DIGIT_MAP[b]
      BY <3>1, DigitsOf
    <3> QED
      BY <1>2, <3>1, <3>2
  <2>2. CASE b \notin 2 .. 16
    <3>1. x = 64
      BY <1>3, <2>2 DEF Longest, BASE_MAX_DIGIT_MAP
    <3>2. Len(Digits(v, b)) <= 64
      BY DigitsOf
    <3> QED
      BY <1>2, <3>1, <3>2
  <2> QED
    BY <2>1, <2>2
<1>5. Len(Digits(v, b)) < R
  BY <1>2, <1>3, <1>4
<1>6. \E w : Remainders(v, b, Digits(v, b), w)
  BY DigitsOf
<1> QED
  BY <1>5, <1>6

\* A sign in front of a text comes off again.
LEMMA SignSplits ==
  ASSUME NEW S, NEW s \in Seq(S)
  PROVE  Char(<<"-">> \o s, 1) = "-" /\ SubSeq(<<"-">> \o s, 2, Len(<<"-">> \o s)) = s
<1>1. PICK n \in Nat : n = Len(s) /\ s = [i \in 1 .. n |-> s[i]]
  OBVIOUS
<1>2. PICK t : t = <<"-">> \o s
  OBVIOUS
<1>3. Len(t) = n + 1 /\ t[1] = "-" /\ \A i \in 1 .. n : t[i + 1] = s[i]
  BY <1>1, <1>2
<1>4. Char(t, 1) = "-"
  BY <1>3 DEF Char
<1>5. SubSeq(t, 2, n + 1) = [i \in 1 .. n |-> t[i + 1]]
  <2>1. SubSeq(t, 2, n + 1) = [i \in 1 .. (1 + (n + 1) - 2) |-> t[i + 2 - 1]]
    OBVIOUS
  <2>2. 1 + (n + 1) - 2 = n /\ \A i \in 1 .. n : i + 2 - 1 = i + 1
    OBVIOUS
  <2> QED
    BY <2>1, <2>2
<1>6. SubSeq(t, 2, n + 1) = s
  BY <1>1, <1>3, <1>5
<1> QED
  BY <1>2, <1>3, <1>4, <1>6

\* The conversions write numerals.
LEMMA PureWrites ==
  ASSUME PureInv
  PROVE  WritesNumeral
<1>1. SUFFICES ASSUME pc = "done", call.fn \in {"itoa", "utoa", "ultoa"},
                      ~ (call.fn = "itoa" /\ call.value = Int64Min), ~ (NeedsZeros /\ call.fill = Junk)
               PROVE  IF call.fn = "itoa" /\ Negative(call.value)
                      THEN /\ Char(ret, 1) = "-"
                           /\ Numeral(SubSeq(ret, 2, Len(ret)), Neg(call.value), call.base)
                      ELSE Numeral(ret, call.value, call.base)
  BY DEF WritesNumeral, Done
<1>2. IsConversion(call) /\ Returned
  BY <1>1, CallIs DEF PureInv
<1>3. PICK v \in Word, R \in Nat : v = call.value /\ R = call.room
  BY <1>2 DEF IsConversion
<1>4. PICK b : b = call.base
  OBVIOUS
<1>5. DOMAIN Room = 0 .. R - 1 /\ \A p \in 0 .. R - 1 : Room[p] = call.fill
  BY <1>3 DEF Room
<1>6. Longest(b) + 1 < R
  BY <1>2, <1>3, <1>4, LongestIs DEF IsConversion
<1>7. call.fn = "itoa" \/ call.fn = "utoa" => b \in 2 .. 16
  BY <1>2, <1>4 DEF IsConversion
<1>8. CASE call.fn = "utoa"
  <2>1. b \in 2 .. 16 /\ BASE_MAX_DIGIT_MAP[b] + 1 < R
    BY <1>6, <1>7, <1>8, LongestIs
  <2>2. ret = Text(utoa(v, Room, b))
    BY <1>2, <1>3, <1>4, <1>8 DEF Returned
  <2>3. ret = Written(Digits(v, b))
    BY <1>5, <2>1, <2>2, UtoaWrites
  <2>4. Numeral(ret, v, b)
    BY <2>1, <2>3, DigitsFit
  <2> QED
    BY <1>3, <1>4, <1>8, <2>4
<1>9. CASE call.fn = "ultoa"
  <2>1. b \in 2 .. 36
    BY <1>2, <1>4, <1>9 DEF IsConversion
  <2>2. Len(Digits(v, b)) < R /\ \E w : Remainders(v, b, Digits(v, b), w)
    BY <1>6, <2>1, LongestFits
  <2>3. ret = Text(ultoa(v, Room, b))
    BY <1>2, <1>3, <1>4, <1>9 DEF Returned
  <2>4. ret = Written(Digits(v, b))
    BY <1>5, <2>1, <2>2, <2>3, UltoaWrites
  <2>5. Numeral(ret, v, b)
    BY <2>1, <2>2, <2>4, NumeralIs
  <2> QED
    BY <1>3, <1>4, <1>9, <2>5
<1>10. CASE call.fn = "itoa"
  <2>1. b \in 2 .. 16 /\ BASE_MAX_DIGIT_MAP[b] + 1 < R
    BY <1>6, <1>7, <1>10, LongestIs
  <2>2. ret = Text(itoa(v, Room, b, FALSE))
    <3>1. Overflows(v) = {FALSE}
      BY <1>1, <1>3, <1>10 DEF Overflows
    <3> QED
      BY <1>2, <1>3, <1>4, <1>10, <3>1 DEF Returned
  <2>3. CASE ~ Negative(v)
    <3>1. ret = Written(Digits(v, b))
      BY <1>5, <2>1, <2>2, <2>3, ItoaWrites
    <3>2. Numeral(ret, v, b)
      BY <2>1, <3>1, DigitsFit
    <3> QED
      BY <1>3, <1>4, <2>3, <3>2
  <2>4. CASE Negative(v)
    <3>1. Len(Digits(Neg(v), b)) < BASE_MAX_DIGIT_MAP[b] \/ Room[BASE_MAX_DIGIT_MAP[b] + 1] = Nul
      <4>1. PICK n \in Nat, max \in Nat : n = Len(Digits(Neg(v), b)) /\ max = BASE_MAX_DIGIT_MAP[b]
        <5>1. Len(Digits(Neg(v), b)) \in Nat /\ BASE_MAX_DIGIT_MAP[b] \in 1 .. 64
          BY <2>1, NegIsWord, DigitsFit
        <5>3. \A x \in 1 .. 64 : x \in Nat
          OBVIOUS
        <5>2. BASE_MAX_DIGIT_MAP[b] \in Nat
          BY <5>1, <5>3, Zenon
        <5> QED
          BY <5>1, <5>2
      <4>2. CASE n < max
        BY <4>1, <4>2
      <4>3. CASE n >= max
        <5>1. NeedsZeros
          BY <1>3, <1>4, <1>10, <2>4, <4>1, <4>3 DEF NeedsZeros
        <5>2. call.fill = Nul
          BY <1>1, <1>2, <5>1 DEF IsConversion
        <5>3. max + 1 \in 0 .. R - 1
          BY <2>1, <4>1
        <5> QED
          BY <1>5, <4>1, <5>2, <5>3
      <4> QED
        BY <4>2, <4>3
    <3>2. ret = <<"-">> \o Written(Digits(Neg(v), b))
      BY <1>5, <2>1, <2>2, <2>4, <3>1, ItoaWritesSign
    <3>3. PICK s : s = Written(Digits(Neg(v), b))
      OBVIOUS
    <3>4. Numeral(s, Neg(v), b) /\ Digits(Neg(v), b) \in Seq(0 .. b - 1)
      BY <2>1, <3>3, NegIsWord, DigitsFit
    <3>5. b \in 2 .. 36
      BY <2>1
    <3>6. s \in Seq({Digit(d) : d \in 0 .. 35})
      BY <3>3, <3>4, <3>5, WrittenSeq
    <3>7. Char(ret, 1) = "-" /\ SubSeq(ret, 2, Len(ret)) = s
      BY <3>2, <3>3, <3>6, SignSplits
    <3> QED
      BY <1>3, <1>4, <1>10, <2>4, <3>4, <3>7
  <2> QED
    BY <2>3, <2>4
<1> QED
  BY <1>1, <1>8, <1>9, <1>10

-----------------------------------------------------------------------------
(* What _vprintf prints of a number.                                        *)

\* The loop over the flags ends with the width of the last of i and l.
LEMMA WidthIs ==
  ASSUME NEW run, Len(run) \in Nat
  PROVE  Is32(run) <=>
           ~ \E k \in 1 .. Len(run) : run[k] = "l" /\ \A j \in k + 1 .. Len(run) : run[j] # "i"
<1>1. \A k \in 1 .. Len(run) : Char(run, k) = run[k]
  BY DEF Char
<1>2. \A k \in 1 .. Len(run) : \A j \in k + 1 .. Len(run) : j \in 1 .. Len(run)
  OBVIOUS
<1> QED
  BY <1>1, <1>2 DEF Is32

\* What a narrower va_arg leaves is a word.
LEMMA WidthsAreWords ==
  ASSUME NEW v \in Word
  PROVE  Unsigned32(v) \in Word /\ Signed32(v) \in Word
<1>1. PICK B \in Nat : B = LIMB /\ B >= 2
  BY LimbIs
<1>2. PICK c \in 0 .. B - 1, d \in 0 .. B - 1 : c = v[3] /\ d = v[4]
  BY <1>1 DEF Word
<1>3. Unsigned32(v) = <<0, 0, c, d>> /\ <<0, 0, c, d>> \in Word
  BY <1>1, <1>2 DEF Unsigned32, Word
<1>4. Signed32(v) = <<B - 1, B - 1, c, d>> \/ Signed32(v) = <<0, 0, c, d>>
  BY <1>1, <1>2, <1>3 DEF Signed32
<1>5. <<B - 1, B - 1, c, d>> \in Word
  BY <1>1 DEF Word
<1> QED
  BY <1>3, <1>4, <1>5

\* The digits of a number, after a sign when it is taken for a negative one.
Numbered(x, signed, b) ==
  IF signed /\ Negative(x) THEN <<"-">> \o Written(Digits(Neg(x), b)) ELSE Written(Digits(x, b))

\* The buffer res is of zeros and large enough, so that nothing is cut off.
LEMMA ResHolds ==
  ASSUME NEW x \in Word, NEW b \in {10, 16}, NEW res, res = [a \in 0 .. NUMBUFLEN - 1 |-> Nul]
  PROVE  /\ Text(utoa(x, res, b)) = Numbered(x, FALSE, b)
         /\ Text(itoa(x, res, b, FALSE)) = Numbered(x, TRUE, b)
<1>1. PICK R \in Nat : R = NUMBUFLEN /\ R = 100
  BY DEF NUMBUFLEN
<1>2. DOMAIN res = 0 .. R - 1 /\ \A a \in 0 .. R - 1 : res[a] = Nul
  BY <1>1
<1>3. b \in 2 .. 16
  OBVIOUS
<1>4. BASE_MAX_DIGIT_MAP[b] \in 1 .. 64
  BY <1>3, TableIs, Zenon
<1>5. PICK max \in Nat : max = BASE_MAX_DIGIT_MAP[b] /\ max + 1 < R
  BY <1>1, <1>4
<1>6. max + 1 \in 0 .. R - 1
  BY <1>5
<1>7. Text(utoa(x, res, b)) = Written(Digits(x, b))
  BY <1>2, <1>3, <1>5, UtoaWrites
<1>8. CASE Negative(x)
  <2>1. res[BASE_MAX_DIGIT_MAP[b] + 1] = Nul
    BY <1>2, <1>5, <1>6
  <2>2. Text(itoa(x, res, b, FALSE)) = <<"-">> \o Written(Digits(Neg(x), b))
    BY <1>2, <1>3, <1>5, <1>8, <2>1, ItoaWritesSign
  <2> QED
    BY <1>7, <1>8, <2>2 DEF Numbered
<1>9. CASE ~ Negative(x)
  <2>1. Text(itoa(x, res, b, FALSE)) = Written(Digits(x, b))
    BY <1>2, <1>3, <1>5, <1>9, ItoaWrites
  <2> QED
    BY <1>7, <1>9, <2>1 DEF Numbered
<1> QED
  BY <1>8, <1>9

\* What _vprintf writes for a number is what its flags say.
LEMMA NumberMeans ==
  ASSUME NEW v \in Word, NEW run, Len(run) \in Nat
  PROVE  NumberText(v, run, FALSE) = Meaning(v, run)
<1>1. PICK p \in BOOLEAN, u \in BOOLEAN, h \in BOOLEAN, i \in BOOLEAN :
        p = Has(run, "p") /\ u = Has(run, "u") /\ h = Has(run, "h") /\ i = Is32(run)
  BY DEF Has, Is32
<1>2. i <=> ~ \E k \in 1 .. Len(run) : run[k] = "l" /\ \A j \in k + 1 .. Len(run) : run[j] # "i"
  BY <1>1, WidthIs
<1> DEFINE x == IF p \/ ~ i THEN v ELSE IF u THEN Unsigned32(v) ELSE Signed32(v)
           res == [a \in 0 .. NUMBUFLEN - 1 |-> Nul]
           signed == ~ u /\ ~ p
           b == IF h \/ p THEN 16 ELSE 10
<1>3. NumberText(v, run, FALSE)
        = IF p \/ h THEN <<"0", "x">> \o Text(IF p \/ u THEN utoa(x, res, 16) ELSE itoa(x, res, 16, FALSE))
          ELSE Text(IF p \/ u THEN utoa(x, res, 10) ELSE itoa(x, res, 10, FALSE))
  BY <1>1, Zenon DEF NumberText
<1>4. Meaning(v, run) = (IF h \/ p THEN <<"0", "x">> ELSE << >>) \o Numbered(x, signed, b)
  BY <1>1, <1>2, Zenon DEF Meaning, Numbered
<1>5. x \in Word
  BY WidthsAreWords
<1> HIDE DEF x, res
<1>6. /\ Text(utoa(x, res, 16)) = Numbered(x, FALSE, 16)
      /\ Text(itoa(x, res, 16, FALSE)) = Numbered(x, TRUE, 16)
      /\ Text(utoa(x, res, 10)) = Numbered(x, FALSE, 10)
      /\ Text(itoa(x, res, 10, FALSE)) = Numbered(x, TRUE, 10)
  BY <1>5, ResHolds DEF res
<1>7. ASSUME NEW s \in BOOLEAN PROVE << >> \o Numbered(x, s, 10) = Numbered(x, s, 10)
  OBVIOUS
<1>8. CASE h \/ p
  <2>1. CASE p \/ u
    <3>1. signed = FALSE /\ b = 16
      BY <1>8, <2>1
    <3>2. Meaning(v, run) = <<"0", "x">> \o Numbered(x, FALSE, 16)
      BY <1>4, <1>8, <3>1, Zenon
    <3>3. NumberText(v, run, FALSE) = <<"0", "x">> \o Text(utoa(x, res, 16))
      BY <1>3, <1>8, <2>1, Zenon
    <3> QED
      BY <1>6, <3>2, <3>3, Zenon
  <2>2. CASE ~ (p \/ u)
    <3>1. signed = TRUE /\ b = 16
      BY <1>8, <2>2
    <3>2. Meaning(v, run) = <<"0", "x">> \o Numbered(x, TRUE, 16)
      BY <1>4, <1>8, <3>1, Zenon
    <3>3. NumberText(v, run, FALSE) = <<"0", "x">> \o Text(itoa(x, res, 16, FALSE))
      BY <1>3, <1>8, <2>2, Zenon
    <3> QED
      BY <1>6, <3>2, <3>3, Zenon
  <2> QED
    BY <2>1, <2>2
<1>9. CASE ~ (h \/ p)
  <2>1. CASE p \/ u
    <3>1. signed = FALSE /\ b = 10
      BY <1>9, <2>1
    <3>2. Meaning(v, run) = << >> \o Numbered(x, FALSE, 10)
      BY <1>4, <1>9, <3>1, Zenon
    <3>3. NumberText(v, run, FALSE) = Text(utoa(x, res, 10))
      BY <1>3, <1>9, <2>1, Zenon
    <3> QED
      BY <1>6, <1>7, <3>2, <3>3, Zenon
  <2>2. CASE ~ (p \/ u)
    <3>1. signed = TRUE /\ b = 10
      BY <1>9, <2>2
    <3>2. Meaning(v, run) = << >> \o Numbered(x, TRUE, 10)
      BY <1>4, <1>9, <3>1, Zenon
    <3>3. NumberText(v, run, FALSE) = Text(itoa(x, res, 10, FALSE))
      BY <1>3, <1>9, <2>2, Zenon
    <3> QED
      BY <1>6, <1>7, <3>2, <3>3, Zenon
  <2> QED
    BY <2>1, <2>2
<1> QED
  BY <1>8, <1>9

-----------------------------------------------------------------------------
(* Pieces side by side.                                                     *)

\* F[k] is the first k of the n sequences qs, one after the other.
Concats(S, qs, n, F) ==
  /\ qs \in [1 .. n -> Seq(S)]
  /\ F \in [0 .. n -> Seq(S)]
  /\ F[0] = << >>
  /\ \A k \in 1 .. n : F[k] = F[k - 1] \o qs[k]

\* Two sequences one after the other.
LEMMA ConcatIs ==
  ASSUME NEW S, NEW s \in Seq(S), NEW q \in Seq(S)
  PROVE  /\ s \o q \in Seq(S) /\ Len(s) \in Nat /\ Len(q) \in Nat /\ Len(s \o q) = Len(s) + Len(q)
         /\ \A i \in 1 .. Len(s) : (s \o q)[i] = s[i]
         /\ \A i \in 1 .. Len(q) : (s \o q)[Len(s) + i] = q[i]
<1>1. s \o q \in Seq(S) /\ Len(s) \in Nat /\ Len(q) \in Nat /\ Len(s \o q) = Len(s) + Len(q)
  OBVIOUS
<1>2. \A i \in 1 .. Len(s) : (s \o q)[i] = s[i]
  OBVIOUS
<1>3. \A i \in 1 .. Len(q) : (s \o q)[Len(s) + i] = q[i]
  OBVIOUS
<1> QED
  BY <1>1, <1>2, <1>3

\* There is such a function for all sequences.
LEMMA CanConcat ==
  ASSUME NEW S, NEW n \in Nat, NEW qs \in [1 .. n -> Seq(S)]
  PROVE  \E F : Concats(S, qs, n, F)
<1> DEFINE T == [i \in 1 .. n |-> [s \in Seq(S) |-> s \o qs[i]]]
<1>1. T \in [1 .. n -> [Seq(S) -> Seq(S)]]
  OBVIOUS
<1>2. \A i \in 1 .. n, s \in Seq(S) : T[i][s] = s \o qs[i]
  OBVIOUS
<1>3. << >> \in Seq(S)
  OBVIOUS
<1> HIDE DEF T
<1>4. PICK F : Turns(Seq(S), << >>, n, T, F)
  BY <1>1, <1>3, CanTurn
<1>5. F \in [0 .. n -> Seq(S)] /\ F[0] = << >> /\ \A i \in 1 .. n : F[i] = T[i][F[i - 1]]
  BY <1>4 DEF Turns
<1>6. \A i \in 1 .. n : F[i] = F[i - 1] \o qs[i]
  <2>1. ASSUME NEW i \in 1 .. n PROVE F[i] = F[i - 1] \o qs[i]
    <3>1. F[i - 1] \in Seq(S)
      BY <1>5
    <3> QED
      BY <1>2, <1>5, <3>1
  <2> QED
    BY <2>1
<1> QED
  BY <1>5, <1>6 DEF Concats

\* They are determined.
Chain(qs, n, g) == g[0] = << >> /\ \A i \in 1 .. n : g[i] = g[i - 1] \o qs[i]

\* The loop that joins them ends in its last value.
LEMMA SameConcats ==
  ASSUME NEW S, NEW n \in Nat, NEW qs, NEW F, Concats(S, qs, n, F),
         NEW g, Chain(qs, n, g)
  PROVE  g[n] = F[n]
<1>1. F[0] = << >> /\ \A i \in 1 .. n : F[i] = F[i - 1] \o qs[i]
  BY DEF Concats
<1>5. g[0] = << >> /\ \A i \in 1 .. n : g[i] = g[i - 1] \o qs[i]
  BY DEF Chain
<1> DEFINE Same == {i \in 0 .. n : g[i] = F[i]}
<1>2. 0 \in Same
  BY <1>1, <1>5
<1>3. ASSUME NEW i \in 1 .. n, i - 1 \in Same PROVE i \in Same
  <2>1. g[i - 1] = F[i - 1]
    BY <1>3
  <2>2. g[i] = g[i - 1] \o qs[i] /\ F[i] = F[i - 1] \o qs[i]
    BY <1>1, <1>5
  <2>3. g[i] = F[i]
    BY <2>1, <2>2, Zenon
  <2> QED
    BY <2>3
<1>4. \A i \in 0 .. n : i \in Same
  <2> HIDE DEF Same
  <2> QED
    BY <1>2, <1>3, Induct
<1> QED
  BY <1>4

Placed(qs, n, F, k) ==
  /\ Len(F[k]) = Len(F[k - 1]) + Len(qs[k])
  /\ Len(F[k]) <= Len(F[n])
  /\ \A i \in 1 .. Len(qs[k]) : F[n][Len(F[k - 1]) + i] = qs[k][i]

\* Each sequence is where the ones before it end.
LEMMA ConcatChars ==
  ASSUME NEW S, NEW n \in Nat, NEW qs, NEW F, Concats(S, qs, n, F), NEW k \in 1 .. n
  PROVE  Placed(qs, n, F, k)
<1>1. /\ qs \in [1 .. n -> Seq(S)] /\ F \in [0 .. n -> Seq(S)]
      /\ \A j \in 1 .. n : F[j] = F[j - 1] \o qs[j]
  BY DEF Concats
<1>2. PICK s \in Seq(S), q \in Seq(S), t \in Seq(S) : s = F[k - 1] /\ q = qs[k] /\ t = F[k]
  BY <1>1
<1>3. t = s \o q
  BY <1>1, <1>2
<1>4. Len(t) = Len(s) + Len(q) /\ \A i \in 1 .. Len(q) : t[Len(s) + i] = q[i]
  BY <1>3, ConcatIs
<1> DEFINE Good == {j \in 0 .. n - k : /\ Len(t) <= Len(F[k + j])
                                       /\ \A i \in 1 .. Len(t) : F[k + j][i] = t[i]}
<1>5. 0 \in Good
  BY <1>2
<1>6. ASSUME NEW j \in 1 .. n - k, j - 1 \in Good PROVE j \in Good
  <2>1. k + j \in 1 .. n /\ k + (j - 1) = (k + j) - 1 /\ (k + j) - 1 \in 0 .. n
    OBVIOUS
  <2>2. PICK x \in Seq(S), y \in Seq(S) : x = F[(k + j) - 1] /\ y = qs[k + j]
    BY <1>1, <2>1
  <2>3. F[k + j] = x \o y
    BY <1>1, <2>1, <2>2
  <2>4. Len(t) <= Len(x) /\ \A i \in 1 .. Len(t) : x[i] = t[i]
    BY <1>6, <2>1, <2>2
  <2>5. Len(x \o y) = Len(x) + Len(y) /\ \A i \in 1 .. Len(x) : (x \o y)[i] = x[i]
    BY ConcatIs
  <2>6. Len(t) \in Nat /\ Len(x) \in Nat /\ Len(y) \in Nat
    OBVIOUS
  <2>7. Len(t) <= Len(x \o y) /\ \A i \in 1 .. Len(t) : (x \o y)[i] = t[i]
    BY <2>4, <2>5, <2>6
  <2> QED
    BY <2>3, <2>7
<1>7. n - k \in Good
  <2>1. n - k \in Nat
    OBVIOUS
  <2>2. \A j \in 1 .. n - k : j - 1 \in Good => j \in Good
    BY <1>6
  <2> HIDE DEF Good
  <2>3. \A j \in 0 .. n - k : j \in Good
    BY <1>5, <2>1, <2>2, Induct
  <2> QED
    BY <2>1, <2>3
<1>8. Len(t) <= Len(F[n]) /\ \A i \in 1 .. Len(t) : F[n][i] = t[i]
  <2>1. k + (n - k) = n
    OBVIOUS
  <2> QED
    BY <1>7, <2>1
<1>9. ASSUME NEW i \in 1 .. Len(q) PROVE F[n][Len(s) + i] = q[i]
  <2>1. Len(s) \in Nat /\ Len(q) \in Nat
    OBVIOUS
  <2>2. Len(s) + i \in 1 .. Len(t)
    BY <1>4, <2>1
  <2> QED
    BY <1>4, <1>8, <2>2
<1> QED
  BY <1>2, <1>4, <1>8, <1>9 DEF Placed

\* The fields of pieces, and what they make side by side.
Fmts(ps) == [k \in 1 .. Len(ps) |-> ps[k].fmt]
ArgsOf(ps) == [k \in 1 .. Len(ps) |-> ps[k].arg]
Outs(ps) == [k \in 1 .. Len(ps) |-> ps[k].out]
ArgSet == Word \cup Seq(STRING \ {Nul})

Joins(ps, F, A, O) ==
  /\ Concats(STRING \ {Nul}, Fmts(ps), Len(ps), F)
  /\ Concats(ArgSet, ArgsOf(ps), Len(ps), A)
  /\ Concats(STRING \ {Nul}, Outs(ps), Len(ps), O)

GoodPieces(ps) == IsFormat(ps) /\ \A k \in 1 .. Len(ps) : IsPiece(ps[k])

\* The argument of a piece.
LEMMA ArgIs ==
  ASSUME NEW p, IsPiece(p)
  PROVE  p.arg \in Seq(ArgSet) /\ p.fmt \in Seq(STRING \ {Nul}) /\ p.out \in Seq(STRING \ {Nul})
<1>1. p.fmt \in Seq(STRING \ {Nul}) /\ p.out \in Seq(STRING \ {Nul})
  BY DEF IsPiece, IsText
<1>2. p.arg = << >> \/ p.arg = <<p.out>> \/ (p.arg = <<p.arg[1]>> /\ p.arg[1] \in Word)
  BY DEF IsPiece, Stands, IsNumber
<1>3. p.out \in ArgSet /\ (p.arg[1] \in Word => p.arg[1] \in ArgSet)
  BY <1>1 DEF ArgSet
<1>4. p.arg \in Seq(ArgSet)
  <2>1. CASE p.arg = << >>
    BY <2>1
  <2>2. CASE p.arg = <<p.out>>
    BY <1>3, <2>2
  <2>3. CASE p.arg = <<p.arg[1]>> /\ p.arg[1] \in Word
    <3>1. PICK x \in ArgSet : x = p.arg[1]
      BY <1>3, <2>3
    <3>2. p.arg = <<x>>
      BY <2>3, <3>1
    <3> QED
      BY <3>2
  <2> QED
    BY <1>2, <2>1, <2>2, <2>3
<1> QED
  BY <1>1, <1>4

\* All three fields of good pieces can be joined.
LEMMA HasJoins ==
  ASSUME NEW ps, GoodPieces(ps)
  PROVE  \E F, A, O : Joins(ps, F, A, O)
<1>1. PICK n \in Nat : n = Len(ps)
  BY DEF GoodPieces, IsFormat
<1>2. \A k \in 1 .. n : /\ ps[k].arg \in Seq(ArgSet)
                       /\ ps[k].fmt \in Seq(STRING \ {Nul}) /\ ps[k].out \in Seq(STRING \ {Nul})
  BY <1>1, ArgIs DEF GoodPieces
<1>3. /\ Fmts(ps) \in [1 .. n -> Seq(STRING \ {Nul})]
      /\ ArgsOf(ps) \in [1 .. n -> Seq(ArgSet)]
      /\ Outs(ps) \in [1 .. n -> Seq(STRING \ {Nul})]
  BY <1>1, <1>2 DEF Fmts, ArgsOf, Outs
<1>4. PICK F : Concats(STRING \ {Nul}, Fmts(ps), n, F)
  BY <1>3, CanConcat
<1>5. PICK A : Concats(ArgSet, ArgsOf(ps), n, A)
  BY <1>3, CanConcat
<1>6. PICK O : Concats(STRING \ {Nul}, Outs(ps), n, O)
  BY <1>3, CanConcat
<1> QED
  BY <1>1, <1>4, <1>5, <1>6 DEF Joins

\* A loop that joins a field has those states.
JoinEqn(qs, n, g) == g = [i \in 0 .. n |-> IF i = 0 THEN << >> ELSE g[i - 1] \o qs[i]]

\* The equation of the loop in Joined determines where it ends.
LEMMA JoinIs ==
  ASSUME NEW S, NEW n \in Nat, NEW qs, NEW F, Concats(S, qs, n, F)
  PROVE  JoinEqn(qs, n, F) /\ \A g : JoinEqn(qs, n, g) => g[n] = F[n]
<1>1. F \in [0 .. n -> Seq(S)] /\ F[0] = << >> /\ \A k \in 1 .. n : F[k] = F[k - 1] \o qs[k]
  BY DEF Concats
<1>2. ASSUME NEW i \in 0 .. n PROVE F[i] = IF i = 0 THEN << >> ELSE F[i - 1] \o qs[i]
  <2>1. CASE i = 0
    BY <1>1, <2>1
  <2>2. CASE i \in 1 .. n
    BY <1>1, <2>2
  <2> QED
    BY <2>1, <2>2
<1>3. F = [i \in 0 .. n |-> F[i]]
  BY <1>1
<1>4. JoinEqn(qs, n, F)
  BY <1>2, <1>3 DEF JoinEqn
<1>5. ASSUME NEW g, JoinEqn(qs, n, g) PROVE g[n] = F[n]
  <2>1. g = [i \in 0 .. n |-> IF i = 0 THEN << >> ELSE g[i - 1] \o qs[i]]
    BY <1>5 DEF JoinEqn
  <2>2. g[0] = << >>
    BY <2>1
  <2>3. ASSUME NEW i \in 1 .. n PROVE g[i] = g[i - 1] \o qs[i]
    <3>1. i \in 0 .. n /\ i # 0
      OBVIOUS
    <3> QED
      BY <2>1, <3>1, Zenon
  <2>4. Chain(qs, n, g)
    BY <2>2, <2>3 DEF Chain
  <2> QED
    BY <2>4, SameConcats
<1> QED
  BY <1>4, <1>5

\* The format, the arguments and the text of a call.
LEMMA FormatIs ==
  ASSUME Len(Pieces) \in Nat, NEW F, Concats(STRING \ {Nul}, Fmts(Pieces), Len(Pieces), F)
  PROVE  Format = F[Len(Pieces)]
<1> DEFINE Eqn(g) == g = [i \in 0 .. Len(Pieces) |-> IF i = 0 THEN << >> ELSE
                            Once(g[i - 1], LAMBDA t : t \o FmtOf(Pieces[i]))]
           after == CHOOSE g : Eqn(g)
<1>1. Format = after[Len(Pieces)]
  BY Zenon DEF Format, Joined, Loop
<1>2. ASSUME NEW g PROVE Eqn(g) <=> JoinEqn(Fmts(Pieces), Len(Pieces), g)
  <2>1. ASSUME NEW i \in 0 .. Len(Pieces), i # 0
        PROVE  Once(g[i - 1], LAMBDA t : t \o FmtOf(Pieces[i])) = g[i - 1] \o Fmts(Pieces)[i]
    <3>1. i \in 1 .. Len(Pieces)
      BY <2>1
    <3>2. Fmts(Pieces)[i] = FmtOf(Pieces[i])
      BY <3>1 DEF Fmts, FmtOf
    <3>3. Once(g[i - 1], LAMBDA t : t \o FmtOf(Pieces[i])) = g[i - 1] \o FmtOf(Pieces[i])
      BY DEF Once
    <3> QED
      BY <3>2, <3>3, Zenon
  <2>2. [i \in 0 .. Len(Pieces) |-> IF i = 0 THEN << >> ELSE Once(g[i - 1], LAMBDA t : t \o FmtOf(Pieces[i]))]
          = [i \in 0 .. Len(Pieces) |-> IF i = 0 THEN << >> ELSE g[i - 1] \o Fmts(Pieces)[i]]
    BY <2>1, Zenon
  <2> QED
    BY <2>2, Zenon DEF JoinEqn
<1>3. PICK n \in Nat : n = Len(Pieces)
  OBVIOUS
<1>4. PICK qs : qs = Fmts(Pieces)
  OBVIOUS
<1>5. Concats(STRING \ {Nul}, qs, n, F)
  BY <1>3, <1>4
<1> HIDE DEF Eqn
<1>6. JoinEqn(qs, n, F) /\ \A g : JoinEqn(qs, n, g) => g[n] = F[n]
  BY <1>5, JoinIs
<1>7. Eqn(after)
  <2>1. Eqn(F)
    BY <1>2, <1>3, <1>4, <1>6
  <2> QED
    BY <2>1, Zenon
<1> HIDE DEF after
<1>8. JoinEqn(qs, n, after)
  BY <1>2, <1>3, <1>4, <1>7
<1> QED
  BY <1>1, <1>3, <1>6, <1>8

\* The arguments, in the same way.
LEMMA ArgsAre ==
  ASSUME Len(Pieces) \in Nat, NEW F, Concats(ArgSet, ArgsOf(Pieces), Len(Pieces), F)
  PROVE  Args = F[Len(Pieces)]
<1> DEFINE Eqn(g) == g = [i \in 0 .. Len(Pieces) |-> IF i = 0 THEN << >> ELSE
                            Once(g[i - 1], LAMBDA t : t \o ArgOf(Pieces[i]))]
           after == CHOOSE g : Eqn(g)
<1>1. Args = after[Len(Pieces)]
  BY Zenon DEF Args, Joined, Loop
<1>2. ASSUME NEW g PROVE Eqn(g) <=> JoinEqn(ArgsOf(Pieces), Len(Pieces), g)
  <2>1. ASSUME NEW i \in 0 .. Len(Pieces), i # 0
        PROVE  Once(g[i - 1], LAMBDA t : t \o ArgOf(Pieces[i])) = g[i - 1] \o ArgsOf(Pieces)[i]
    <3>1. i \in 1 .. Len(Pieces)
      BY <2>1
    <3>2. ArgsOf(Pieces)[i] = ArgOf(Pieces[i])
      BY <3>1 DEF ArgsOf, ArgOf
    <3>3. Once(g[i - 1], LAMBDA t : t \o ArgOf(Pieces[i])) = g[i - 1] \o ArgOf(Pieces[i])
      BY DEF Once
    <3> QED
      BY <3>2, <3>3, Zenon
  <2>2. [i \in 0 .. Len(Pieces) |-> IF i = 0 THEN << >> ELSE Once(g[i - 1], LAMBDA t : t \o ArgOf(Pieces[i]))]
          = [i \in 0 .. Len(Pieces) |-> IF i = 0 THEN << >> ELSE g[i - 1] \o ArgsOf(Pieces)[i]]
    BY <2>1, Zenon
  <2> QED
    BY <2>2, Zenon DEF JoinEqn
<1>3. PICK n \in Nat : n = Len(Pieces)
  OBVIOUS
<1>4. PICK qs : qs = ArgsOf(Pieces)
  OBVIOUS
<1>5. Concats(ArgSet, qs, n, F)
  BY <1>3, <1>4
<1> HIDE DEF Eqn
<1>6. JoinEqn(qs, n, F) /\ \A g : JoinEqn(qs, n, g) => g[n] = F[n]
  BY <1>5, JoinIs
<1>7. Eqn(after)
  <2>1. Eqn(F)
    BY <1>2, <1>3, <1>4, <1>6
  <2> QED
    BY <2>1, Zenon
<1> HIDE DEF after
<1>8. JoinEqn(qs, n, after)
  BY <1>2, <1>3, <1>4, <1>7
<1> QED
  BY <1>1, <1>3, <1>6, <1>8

\* The text that the pieces stand for, in the same way.
LEMMA OutIs ==
  ASSUME Len(Pieces) \in Nat, NEW F, Concats(STRING \ {Nul}, Outs(Pieces), Len(Pieces), F)
  PROVE  Joined(OutOf) = F[Len(Pieces)]
<1> DEFINE Eqn(g) == g = [i \in 0 .. Len(Pieces) |-> IF i = 0 THEN << >> ELSE
                            Once(g[i - 1], LAMBDA t : t \o OutOf(Pieces[i]))]
           after == CHOOSE g : Eqn(g)
<1>1. Joined(OutOf) = after[Len(Pieces)]
  BY Zenon DEF Joined, Loop
<1>2. ASSUME NEW g PROVE Eqn(g) <=> JoinEqn(Outs(Pieces), Len(Pieces), g)
  <2>1. ASSUME NEW i \in 0 .. Len(Pieces), i # 0
        PROVE  Once(g[i - 1], LAMBDA t : t \o OutOf(Pieces[i])) = g[i - 1] \o Outs(Pieces)[i]
    <3>1. i \in 1 .. Len(Pieces)
      BY <2>1
    <3>2. Outs(Pieces)[i] = OutOf(Pieces[i])
      BY <3>1 DEF Outs, OutOf
    <3>3. Once(g[i - 1], LAMBDA t : t \o OutOf(Pieces[i])) = g[i - 1] \o OutOf(Pieces[i])
      BY DEF Once
    <3> QED
      BY <3>2, <3>3, Zenon
  <2>2. [i \in 0 .. Len(Pieces) |-> IF i = 0 THEN << >> ELSE Once(g[i - 1], LAMBDA t : t \o OutOf(Pieces[i]))]
          = [i \in 0 .. Len(Pieces) |-> IF i = 0 THEN << >> ELSE g[i - 1] \o Outs(Pieces)[i]]
    BY <2>1, Zenon
  <2> QED
    BY <2>2, Zenon DEF JoinEqn
<1>3. PICK n \in Nat : n = Len(Pieces)
  OBVIOUS
<1>4. PICK qs : qs = Outs(Pieces)
  OBVIOUS
<1>5. Concats(STRING \ {Nul}, qs, n, F)
  BY <1>3, <1>4
<1> HIDE DEF Eqn
<1>6. JoinEqn(qs, n, F) /\ \A g : JoinEqn(qs, n, g) => g[n] = F[n]
  BY <1>5, JoinIs
<1>7. Eqn(after)
  <2>1. Eqn(F)
    BY <1>2, <1>3, <1>4, <1>6
  <2> QED
    BY <2>1, Zenon
<1> HIDE DEF after
<1>8. JoinEqn(qs, n, after)
  BY <1>2, <1>3, <1>4, <1>7
<1> QED
  BY <1>1, <1>3, <1>6, <1>8

\* The turns of _vprintf that are between two pieces, k of them behind.
Boundary(F, A, O, k, f, a, buf) == f = Len(F[k]) + 1 /\ a = Len(A[k]) + 1 /\ buf = O[k]

\* A sign that is not a specifier, and the character behind it.
NoSpecifier(p) ==
  /\ Len(p.fmt) = 2 /\ p.arg = << >> /\ p.out = <<p.fmt[2]>>
  /\ p.fmt[2] # "%" /\ p.fmt[2] # Nul

\* Where a turn may begin: between pieces, or behind the sign of one of those.
Progress(ps, F, A, O, f, a, buf) ==
  \/ \E k \in 0 .. Len(ps) : Boundary(F, A, O, k, f, a, buf)
  \/ \E k \in 1 .. Len(ps) : NoSpecifier(ps[k]) /\ Boundary(F, A, O, k - 1, f - 1, a, buf)

\* What the first two characters of a piece, of n, say of it.
Kinds(p, n, c1, c2) ==
  /\ n \in Nat \ {0}
  /\ c1 # "%" => n = 1 /\ p.arg = << >> /\ p.out = <<c1>>
  /\ c1 = "%" /\ n = 1 => p.fmt = <<"%">> /\ p.arg = << >> /\ p.out = << >>
  /\ c1 = "%" /\ n # 1 /\ c2 \in {" ", "%"} => n = 2 /\ p.arg = << >> /\ p.out = <<"%">>
  /\ c1 = "%" /\ n # 1 /\ c2 = "s" => n = 2 /\ p.arg = <<p.out>>
  /\ c1 = "%" /\ n # 1 /\ c2 \in Flags \cup {"p"} => IsNumber(p)
  /\ c1 = "%" /\ n # 1 /\ c2 \notin Flags \cup {"p", "s", " ", "%"} => NoSpecifier(p)

\* Each kind of piece is told from its first two characters.
LEMMA PieceKinds ==
  ASSUME NEW p, IsPiece(p)
  PROVE  Kinds(p, Len(p.fmt), p.fmt[1], p.fmt[2])
<1>1. PICK s \in Seq(STRING \ {Nul}) : s = p.fmt
  BY DEF IsPiece, IsText
<1>2. \/ Len(s) = 1 /\ s # <<"%">> /\ p.arg = << >> /\ p.out = s
      \/ s = <<"%">> /\ p.arg = << >> /\ p.out = << >>
      \/ s \in {<<"%", "%">>, <<"%", " ">>} /\ p.arg = << >> /\ p.out = <<"%">>
      \/ /\ Len(s) = 2 /\ s[1] = "%" /\ s[2] \notin Flags \cup {"p", "s", " ", "%"}
         /\ p.arg = << >> /\ p.out = <<s[2]>>
      \/ s = <<"%", "s">> /\ p.arg = <<p.out>>
      \/ IsNumber(p)
  BY <1>1 DEF IsPiece, Stands
<1>9. PICK n \in Nat : n = Len(s)
  OBVIOUS
<1>10. PICK c1, c2 : c1 = s[1] /\ c2 = s[2]
  OBVIOUS
<1>11. SUFFICES Kinds(p, n, c1, c2)
  BY <1>1, <1>9, <1>10
<1>3. CASE Len(s) = 1 /\ s # <<"%">> /\ p.arg = << >> /\ p.out = s
  <2>1. s = <<s[1]>>
    BY <1>3
  <2>2. c1 # "%" /\ n = 1 /\ p.out = <<c1>>
    BY <1>3, <1>9, <1>10, <2>1
  <2> QED
    BY <1>3, <2>2 DEF Kinds
<1>4. CASE s = <<"%">> /\ p.arg = << >> /\ p.out = << >>
  <2>1. n = 1 /\ c1 = "%"
    BY <1>4, <1>9, <1>10
  <2> QED
    BY <1>1, <1>4, <2>1 DEF Kinds
<1>5. CASE s \in {<<"%", "%">>, <<"%", " ">>} /\ p.arg = << >> /\ p.out = <<"%">>
  <2>1. n = 2 /\ c1 = "%" /\ (c2 = "%" \/ c2 = " ")
    <3>1. CASE s = <<"%", "%">>
      BY <1>9, <1>10, <3>1
    <3>2. CASE s = <<"%", " ">>
      BY <1>9, <1>10, <3>2
    <3> QED
      BY <1>5, <3>1, <3>2
  <2>2. n # 1 /\ n \in Nat \ {0}
    <3>1. n = 2
      BY <2>1, Zenon
    <3> QED
      BY <3>1
  <2>3. c2 # "s" /\ c2 \notin Flags \cup {"p"} /\ c2 \in {" ", "%"} /\ c2 \in Flags \cup {"p", "s", " ", "%"}
    BY <2>1 DEF Flags
  <2> QED
    BY <1>5, <2>1, <2>2, <2>3, Zenon DEF Kinds
<1>6. CASE /\ Len(s) = 2 /\ s[1] = "%" /\ s[2] \notin Flags \cup {"p", "s", " ", "%"}
           /\ p.arg = << >> /\ p.out = <<s[2]>>
  <2>1. s[2] # Nul
    <3>3. Len(s) = 2
      BY <1>6, Zenon
    <3>1. 2 \in 1 .. Len(s)
      BY <3>3
    <3>2. s[2] \in STRING \ {Nul}
      BY <3>1
    <3> QED
      BY <3>2
  <2>2. NoSpecifier(p)
    BY <1>1, <1>6, <2>1 DEF NoSpecifier
  <2>3. n = 2 /\ c1 = "%" /\ c2 \notin Flags \cup {"p", "s", " ", "%"}
    BY <1>6, <1>9, <1>10, Zenon
  <2>4. n # 1 /\ n \in Nat \ {0}
    <3>1. n = 2
      BY <2>3, Zenon
    <3> QED
      BY <3>1
  <2>5. c2 # "s" /\ c2 \notin {" ", "%"} /\ c2 \notin Flags \cup {"p"}
    BY <2>3
  <2> QED
    BY <2>2, <2>3, <2>4, <2>5, Zenon DEF Kinds
<1>7. CASE s = <<"%", "s">> /\ p.arg = <<p.out>>
  <2>1. n = 2 /\ c1 = "%" /\ c2 = "s"
    BY <1>7, <1>9, <1>10
  <2>2. n # 1 /\ n \in Nat \ {0}
    <3>1. n = 2
      BY <2>1, Zenon
    <3> QED
      BY <3>1
  <2>3. c2 \notin {" ", "%"} /\ c2 \notin Flags \cup {"p"} /\ c2 \in Flags \cup {"p", "s", " ", "%"}
    BY <2>1 DEF Flags
  <2> QED
    BY <1>7, <2>1, <2>2, <2>3, Zenon DEF Kinds
<1>8. CASE IsNumber(p)
  <2>1. n > 1 /\ c1 = "%"
    BY <1>1, <1>8, <1>9, <1>10 DEF IsNumber
  <2>2. c2 \in Flags \cup {"p"}
    <3>1. CASE n = 2
      BY <1>1, <1>8, <1>9, <1>10, <3>1 DEF IsNumber
    <3>2. CASE n > 2
      <4>1. 2 \in 2 .. n - 1
        BY <3>2
      <4> QED
        BY <1>1, <1>8, <1>9, <1>10, <4>1 DEF IsNumber
    <3> QED
      BY <2>1, <3>1, <3>2
  <2>3. c2 \notin {" ", "%"} /\ c2 # "s"
    BY <2>2 DEF Flags
  <2>4. n \in Nat \ {0} /\ n # 1
    BY <2>1
  <2>5. c2 \in Flags \cup {"p", "s", " ", "%"}
    BY <2>2, Zenon
  <2> QED
    BY <1>8, <2>1, <2>3, <2>4, <2>5, Zenon DEF Kinds
<1> QED
  BY <1>2, <1>3, <1>4, <1>5, <1>6, <1>7, <1>8

\* A piece leads from the boundary before it to the one behind it.
LEMMA NextBoundary ==
  ASSUME NEW ps, GoodPieces(ps), NEW F, NEW A, NEW O, Joins(ps, F, A, O),
         NEW k \in 1 .. Len(ps), NEW f, NEW a, NEW buf, Boundary(F, A, O, k - 1, f, a, buf)
  PROVE  Boundary(F, A, O, k, f + Len(ps[k].fmt), a + Len(ps[k].arg), buf \o ps[k].out)
<1>1. PICK n \in Nat : n = Len(ps) /\ k \in 1 .. n
  BY DEF GoodPieces, IsFormat
<1>2. Fmts(ps)[k] = ps[k].fmt /\ ArgsOf(ps)[k] = ps[k].arg /\ Outs(ps)[k] = ps[k].out
  BY <1>1 DEF Fmts, ArgsOf, Outs
<1>10. Concats(STRING \ {Nul}, Fmts(ps), n, F) /\ Concats(ArgSet, ArgsOf(ps), n, A)
  BY <1>1 DEF Joins
<1>3. Len(F[k]) = Len(F[k - 1]) + Len(ps[k].fmt)
  <2>2. Placed(Fmts(ps), n, F, k)
    BY <1>1, <1>10, ConcatChars
  <2>1. Len(F[k]) = Len(F[k - 1]) + Len(Fmts(ps)[k])
    BY <2>2 DEF Placed
  <2> QED
    BY <1>2, <2>1
<1>4. Len(A[k]) = Len(A[k - 1]) + Len(ps[k].arg)
  <2>2. Placed(ArgsOf(ps), n, A, k)
    BY <1>1, <1>10, ConcatChars
  <2>1. Len(A[k]) = Len(A[k - 1]) + Len(ArgsOf(ps)[k])
    BY <2>2 DEF Placed
  <2> QED
    BY <1>2, <2>1
<1>5. O[k] = O[k - 1] \o ps[k].out
  BY <1>1, <1>2 DEF Joins, Concats
<1>6. /\ Len(F[k - 1]) \in Nat /\ Len(A[k - 1]) \in Nat
      /\ Len(ps[k].fmt) \in Nat /\ Len(ps[k].arg) \in Nat
  <2>1. k - 1 \in 0 .. n
    BY <1>1
  <2>2. F[k - 1] \in Seq(STRING \ {Nul}) /\ A[k - 1] \in Seq(ArgSet)
    BY <1>1, <2>1 DEF Joins, Concats
  <2>3. ps[k].fmt \in Seq(STRING \ {Nul}) /\ ps[k].arg \in Seq(ArgSet)
    BY ArgIs DEF GoodPieces
  <2> QED
    BY <2>2, <2>3
<1>7. f = Len(F[k - 1]) + 1 /\ a = Len(A[k - 1]) + 1 /\ buf = O[k - 1]
  BY DEF Boundary
<1>8. f + Len(ps[k].fmt) = Len(F[k]) + 1
  <2>1. PICK x \in Nat, y \in Nat : x = Len(F[k - 1]) /\ y = Len(ps[k].fmt)
    BY <1>6
  <2>2. Len(F[k]) = x + y /\ f = x + 1
    BY <1>3, <1>7, <2>1, Zenon
  <2>3. (x + 1) + y = (x + y) + 1
    OBVIOUS
  <2> QED
    BY <2>1, <2>2, <2>3, Zenon
<1>9. a + Len(ps[k].arg) = Len(A[k]) + 1
  <2>1. PICK x \in Nat, y \in Nat : x = Len(A[k - 1]) /\ y = Len(ps[k].arg)
    BY <1>6
  <2>2. Len(A[k]) = x + y /\ a = x + 1
    BY <1>4, <1>7, <2>1, Zenon
  <2>3. (x + 1) + y = (x + y) + 1
    OBVIOUS
  <2> QED
    BY <2>1, <2>2, <2>3, Zenon
<1> QED
  BY <1>5, <1>7, <1>8, <1>9 DEF Boundary

\* The sequences that are joined are what they should be.
LEMMA JoinTypes ==
  ASSUME NEW ps, NEW F, NEW A, NEW O, NEW n \in Nat, n = Len(ps), Joins(ps, F, A, O), NEW k \in 0 .. n
  PROVE  F[k] \in Seq(STRING \ {Nul}) /\ A[k] \in Seq(ArgSet) /\ O[k] \in Seq(STRING \ {Nul})
<1>1. Concats(STRING \ {Nul}, Fmts(ps), n, F) /\ Concats(ArgSet, ArgsOf(ps), n, A) /\ Concats(STRING \ {Nul}, Outs(ps), n, O)
  BY DEF Joins
<1>2. F \in [0 .. n -> Seq(STRING \ {Nul})] /\ A \in [0 .. n -> Seq(ArgSet)] /\ O \in [0 .. n -> Seq(STRING \ {Nul})]
  BY <1>1, Zenon DEF Concats
<1> QED
  BY <1>2

\* The characters of piece k, of y characters, lie in the format between x and z.
Lies(T, H, p, x, y, z) ==
  /\ z = x + y /\ z <= H
  /\ \A i \in 1 .. y : Char(T, x + i) = p.fmt[i]

\* Its characters are in the format where the pieces before it end.
LEMMA PieceChar ==
  ASSUME NEW ps, GoodPieces(ps), NEW F, NEW A, NEW O, Joins(ps, F, A, O),
         NEW n \in Nat, n = Len(ps), NEW k \in 1 .. n
  PROVE  \E H \in Nat, x \in Nat, y \in Nat, z \in Nat :
           /\ H = Len(F[n]) /\ x = Len(F[k - 1]) /\ y = Len(ps[k].fmt) /\ z = Len(F[k])
           /\ Lies(F[n], H, ps[k], x, y, z)
<1>1. Fmts(ps)[k] = ps[k].fmt
  BY DEF Fmts
<1>2. Concats(STRING \ {Nul}, Fmts(ps), n, F)
  BY DEF Joins
<1>3. Placed(Fmts(ps), n, F, k)
  BY <1>2, ConcatChars
<1>4. F[n] \in Seq(STRING \ {Nul}) /\ F[k - 1] \in Seq(STRING \ {Nul}) /\ F[k] \in Seq(STRING \ {Nul})
  <2>1. n \in 0 .. n /\ k - 1 \in 0 .. n /\ k \in 0 .. n
    OBVIOUS
  <2> QED
    BY <2>1, JoinTypes
<1>5. PICK H \in Nat, x \in Nat, z \in Nat : H = Len(F[n]) /\ x = Len(F[k - 1]) /\ z = Len(F[k])
  BY <1>4
<1>6. PICK fm \in Seq(STRING \ {Nul}) : fm = ps[k].fmt
  BY ArgIs DEF GoodPieces
<1>7. PICK y \in Nat : y = Len(fm)
  OBVIOUS
<1>8. z = x + y /\ z <= H /\ \A i \in 1 .. y : F[n][x + i] = fm[i]
  BY <1>1, <1>3, <1>5, <1>6, <1>7, Zenon DEF Placed
<1>9. ASSUME NEW i \in 1 .. y PROVE Char(F[n], x + i) = fm[i]
  <2>1. ~ (x + i > H)
    BY <1>8
  <2> QED
    BY <1>5, <1>8, <2>1, Zenon DEF Char
<1>10. Lies(F[n], H, ps[k], x, y, z)
  BY <1>6, <1>8, <1>9, Zenon DEF Lies
<1> QED
  BY <1>5, <1>6, <1>7, <1>10, Zenon

\* What a turn that begins between two pieces finds.
Finds(T, B, p, f, a) ==
  /\ Char(T, f) = p.fmt[1]
  /\ Len(p.fmt) # 1 => Char(T, f + 1) = p.fmt[2]
  /\ p.fmt = <<"%">> => Char(T, f + 1) = Nul
  /\ Len(p.arg) = 1 => B[a] = p.arg[1]

\* A turn between two pieces finds the first characters of the second.
LEMMA BoundaryFinds ==
  ASSUME NEW ps, GoodPieces(ps), NEW F, NEW A, NEW O, Joins(ps, F, A, O),
         NEW n \in Nat, n = Len(ps), NEW k \in 1 .. n,
         NEW f, NEW a, NEW buf, Boundary(F, A, O, k - 1, f, a, buf)
  PROVE  Finds(F[n], A[n], ps[k], f, a)
<1>1. PICK H \in Nat, x \in Nat, y \in Nat, z \in Nat :
        /\ H = Len(F[n]) /\ x = Len(F[k - 1]) /\ y = Len(ps[k].fmt) /\ z = Len(F[k])
        /\ Lies(F[n], H, ps[k], x, y, z)
  BY PieceChar
<1>3. IsPiece(ps[k])
  BY DEF GoodPieces
<1>4. y # 0
  BY <1>1, <1>3, PieceKinds DEF Kinds
<1>5. f = x + 1 /\ a = Len(A[k - 1]) + 1
  BY <1>1 DEF Boundary
<1>6. z = x + y /\ \A i \in 1 .. y : Char(F[n], x + i) = ps[k].fmt[i]
  BY <1>1, Zenon DEF Lies
<1>7. Char(F[n], f) = ps[k].fmt[1]
  <2>1. 1 \in 1 .. y
    BY <1>4
  <2> QED
    BY <1>5, <1>6, <2>1, Zenon
<1>8. ASSUME y # 1 PROVE Char(F[n], f + 1) = ps[k].fmt[2]
  <2>1. 2 \in 1 .. y /\ (x + 1) + 1 = x + 2
    BY <1>4, <1>8
  <2> QED
    BY <1>5, <1>6, <2>1, Zenon
<1>9. ASSUME ps[k].fmt = <<"%">> PROVE Char(F[n], f + 1) = Nul
  <2>1. k = n
    <3>1. \A j \in 1 .. n - 1 : ps[j].fmt # <<"%">>
      BY DEF GoodPieces, IsFormat
    <3>2. k \notin 1 .. n - 1
      BY <1>9, <3>1, Zenon
    <3> QED
      BY <3>2
  <2>2. y = 1
    <3>1. Len(<<"%">>) = 1
      OBVIOUS
    <3> QED
      BY <1>1, <1>9, <3>1, Zenon
  <2>3. H = x + y
    BY <1>1, <1>6, <2>1, Zenon
  <2>4. f + 1 > H
    BY <1>5, <2>2, <2>3
  <2> QED
    BY <1>1, <2>4, Zenon DEF Char
<1>10. ASSUME Len(ps[k].arg) = 1 PROVE A[n][a] = ps[k].arg[1]
  <2>1. ArgsOf(ps)[k] = ps[k].arg
    BY DEF ArgsOf
  <2>2. Concats(ArgSet, ArgsOf(ps), n, A)
    BY DEF Joins
  <2>3. Placed(ArgsOf(ps), n, A, k)
    BY <2>2, ConcatChars
  <2>4. 1 \in 1 .. 1
    OBVIOUS
  <2> QED
    BY <1>5, <1>10, <2>1, <2>3, <2>4, Zenon DEF Placed
<1> QED
  BY <1>1, <1>7, <1>8, <1>9, <1>10, Zenon DEF Finds

\* Behind the last piece is the end of the format.
LEMMA EndFinds ==
  ASSUME NEW ps, GoodPieces(ps), NEW F, NEW A, NEW O, Joins(ps, F, A, O),
         NEW n \in Nat, n = Len(ps), NEW f, NEW a, NEW buf, Boundary(F, A, O, n, f, a, buf)
  PROVE  Char(F[n], f) = Nul
<1>1. F[n] \in Seq(STRING \ {Nul})
  <2>1. n \in 0 .. n
    OBVIOUS
  <2> QED
    BY <2>1, JoinTypes
<1>2. PICK H \in Nat : H = Len(F[n])
  BY <1>1
<1>3. f = H + 1
  BY <1>2 DEF Boundary
<1>4. f > H
  BY <1>3
<1> QED
  BY <1>2, <1>4, Zenon DEF Char

\* A turn at a boundary that does not end the loop has a piece before it.
LEMMA HasPiece ==
  ASSUME NEW ps, GoodPieces(ps), NEW F, NEW A, NEW O, Joins(ps, F, A, O),
         NEW n \in Nat, n = Len(ps), NEW k \in 0 .. n,
         NEW f, NEW a, NEW buf, Boundary(F, A, O, k, f, a, buf), Char(F[n], f) # Nul
  PROVE  \E j \in 1 .. n : /\ Boundary(F, A, O, j - 1, f, a, buf)
                           /\ Finds(F[n], A[n], ps[j], f, a) /\ IsPiece(ps[j])
<1>1. k # n
  BY EndFinds
<1>2. PICK j \in 1 .. n : j - 1 = k
  <2>1. k + 1 \in 1 .. n /\ (k + 1) - 1 = k
    BY <1>1
  <2> QED
    BY <2>1
<1>3. Boundary(F, A, O, j - 1, f, a, buf)
  BY <1>2
<1>4. Finds(F[n], A[n], ps[j], f, a)
  BY <1>3, BoundaryFinds
<1>5. IsPiece(ps[j])
  BY DEF GoodPieces
<1> QED
  BY <1>3, <1>4, <1>5

\* What the turns of a call are about: good pieces, n of them, and what they make.
Laid(ps, n, F, A, O) == GoodPieces(ps) /\ n \in Nat /\ n = Len(ps) /\ Joins(ps, F, A, O)

\* The indices at a boundary are numbers, and what has been printed is a text.
LEMMA BoundaryIs ==
  ASSUME NEW ps, NEW n, NEW F, NEW A, NEW O, Laid(ps, n, F, A, O),
         NEW k \in 0 .. n, NEW f, NEW a, NEW buf, Boundary(F, A, O, k, f, a, buf)
  PROVE  f \in Nat /\ a \in Nat /\ buf \in Seq(STRING \ {Nul})
<1>1. n \in Nat /\ n = Len(ps) /\ Joins(ps, F, A, O)
  BY DEF Laid
<1>2. F[k] \in Seq(STRING \ {Nul}) /\ A[k] \in Seq(ArgSet) /\ O[k] \in Seq(STRING \ {Nul})
  BY <1>1, JoinTypes
<1> QED
  BY <1>2 DEF Boundary

\* A piece of y characters and z arguments is passed.
LEMMA Passes ==
  ASSUME NEW ps, NEW n, NEW F, NEW A, NEW O, Laid(ps, n, F, A, O), NEW k \in 1 .. n,
         NEW f, NEW a, NEW buf, Boundary(F, A, O, k - 1, f, a, buf),
         NEW y, NEW z, NEW out, y = Len(ps[k].fmt), z = Len(ps[k].arg), out = ps[k].out
  PROVE  /\ Boundary(F, A, O, k, f + y, a + z, buf \o out)
         /\ Progress(ps, F, A, O, f + y, a + z, buf \o out)
<1>1. n \in Nat /\ n = Len(ps) /\ GoodPieces(ps) /\ Joins(ps, F, A, O)
  BY DEF Laid
<1>2. k \in 1 .. Len(ps) /\ k \in 0 .. Len(ps)
  BY <1>1
<1>3. Boundary(F, A, O, k, f + y, a + z, buf \o out)
  BY <1>1, <1>2, NextBoundary
<1> QED
  BY <1>2, <1>3 DEF Progress

\* Behind the sign of a piece that is no specifier.
LEMMA Middle ==
  ASSUME NEW ps, NEW n, NEW F, NEW A, NEW O, Laid(ps, n, F, A, O), NEW k \in 1 .. n,
         NEW f \in Int, NEW a, NEW buf, Boundary(F, A, O, k - 1, f - 1, a, buf), NoSpecifier(ps[k])
  PROVE  /\ Char(F[n], f) = ps[k].fmt[2] /\ ps[k].fmt[2] # "%" /\ ps[k].fmt[2] # Nul
         /\ Progress(ps, F, A, O, f + 1, a, buf \o <<ps[k].fmt[2]>>)
<1>1. n \in Nat /\ n = Len(ps) /\ GoodPieces(ps) /\ Joins(ps, F, A, O)
  BY DEF Laid
<1>2. Len(ps[k].fmt) = 2 /\ ps[k].arg = << >> /\ ps[k].out = <<ps[k].fmt[2]>> /\ ps[k].fmt[2] # "%" /\ ps[k].fmt[2] # Nul
  BY DEF NoSpecifier
<1>3. Finds(F[n], A[n], ps[k], f - 1, a)
  BY <1>1, BoundaryFinds
<1>4. Char(F[n], (f - 1) + 1) = ps[k].fmt[2]
  <2>1. Len(ps[k].fmt) # 1
    BY <1>2
  <2> QED
    BY <1>3, <2>1 DEF Finds
<1>5. (f - 1) + 1 = f /\ (f - 1) + 2 = f + 1
  OBVIOUS
<1>6. a + 0 = a
  <2>1. k - 1 \in 0 .. n
    BY <1>1
  <2>2. a \in Nat
    BY <2>1, BoundaryIs
  <2> QED
    BY <2>2
<1>7. Len(ps[k].arg) = 0
  <2>1. Len(<< >>) = 0
    OBVIOUS
  <2> QED
    BY <1>2, <2>1, Zenon
<1>8. Progress(ps, F, A, O, (f - 1) + 2, a + 0, buf \o <<ps[k].fmt[2]>>)
  BY <1>2, <1>7, Passes, ZenonT(40)
<1> QED
  BY <1>2, <1>4, <1>5, <1>6, <1>8

\* What is before a turn that does not end the loop: a piece from its start, or
\* the character behind the sign of a piece that is no specifier.
Before(ps, n, F, A, O, j, f, a, buf) ==
  /\ Boundary(F, A, O, j - 1, f, a, buf)
  /\ Finds(F[n], A[n], ps[j], f, a)
  /\ Kinds(ps[j], Len(ps[j].fmt), ps[j].fmt[1], ps[j].fmt[2])

\* Those are the only two possibilities.
LEMMA Turn ==
  ASSUME NEW ps, NEW n, NEW F, NEW A, NEW O, Laid(ps, n, F, A, O),
         NEW f \in Int, NEW a, NEW buf, Progress(ps, F, A, O, f, a, buf), Char(F[n], f) # Nul
  PROVE  \/ \E j \in 1 .. n : Before(ps, n, F, A, O, j, f, a, buf)
         \/ Char(F[n], f) # "%" /\ Progress(ps, F, A, O, f + 1, a, buf \o <<Char(F[n], f)>>)
<1>1. n \in Nat /\ n = Len(ps) /\ GoodPieces(ps) /\ Joins(ps, F, A, O)
  BY DEF Laid
<1>2. \/ \E k \in 0 .. n : Boundary(F, A, O, k, f, a, buf)
      \/ \E k \in 1 .. n : NoSpecifier(ps[k]) /\ Boundary(F, A, O, k - 1, f - 1, a, buf)
  BY <1>1 DEF Progress
<1>3. CASE \E k \in 0 .. n : Boundary(F, A, O, k, f, a, buf)
  <2>1. PICK k \in 0 .. n : Boundary(F, A, O, k, f, a, buf)
    BY <1>3
  <2>2. PICK j \in 1 .. n : /\ Boundary(F, A, O, j - 1, f, a, buf)
                            /\ Finds(F[n], A[n], ps[j], f, a) /\ IsPiece(ps[j])
    BY <1>1, <2>1, HasPiece
  <2>3. Before(ps, n, F, A, O, j, f, a, buf)
    BY <2>2, PieceKinds DEF Before
  <2> QED
    BY <2>3
<1>4. CASE \E k \in 1 .. n : NoSpecifier(ps[k]) /\ Boundary(F, A, O, k - 1, f - 1, a, buf)
  <2>1. PICK k \in 1 .. n : NoSpecifier(ps[k]) /\ Boundary(F, A, O, k - 1, f - 1, a, buf)
    BY <1>4
  <2>2. /\ Char(F[n], f) = ps[k].fmt[2] /\ ps[k].fmt[2] # "%"
        /\ Progress(ps, F, A, O, f + 1, a, buf \o <<ps[k].fmt[2]>>)
    BY <2>1, Middle
  <2> QED
    BY <2>2, Zenon
<1> QED
  BY <1>2, <1>3, <1>4

\* Numbers at the boundary before a piece.
LEMMA BeforeIs ==
  ASSUME NEW ps, NEW n, NEW F, NEW A, NEW O, Laid(ps, n, F, A, O), NEW j \in 1 .. n,
         NEW f, NEW a, NEW buf, Before(ps, n, F, A, O, j, f, a, buf)
  PROVE  f \in Nat /\ a \in Nat /\ a + 0 = a /\ buf \o << >> = buf
<1>1. j - 1 \in 0 .. n
  BY DEF Laid
<1>2. f \in Nat /\ a \in Nat /\ buf \in Seq(STRING \ {Nul})
  BY <1>1, BoundaryIs DEF Before
<1> QED
  BY <1>2

\* Sequences of none and of one.
LEMMA Lengths == Len(<< >>) = 0 /\ \A x : Len(<<x>>) = 1 /\ <<x>>[1] = x
OBVIOUS

\* An ordinary character.
LEMMA PlainStep ==
  ASSUME NEW ps, NEW n, NEW F, NEW A, NEW O, Laid(ps, n, F, A, O),
         NEW f \in Int, NEW a, NEW buf, Progress(ps, F, A, O, f, a, buf),
         Char(F[n], f) \notin {Nul, "%"}
  PROVE  Progress(ps, F, A, O, f + 1, a, buf \o <<Char(F[n], f)>>)
<1>1. SUFFICES ASSUME NEW j \in 1 .. n, Before(ps, n, F, A, O, j, f, a, buf)
               PROVE  Progress(ps, F, A, O, f + 1, a, buf \o <<Char(F[n], f)>>)
  <2>1. Char(F[n], f) # Nul
    OBVIOUS
  <2> QED
    BY <2>1, Turn
<1>2. PICK c : c = Char(F[n], f)
  OBVIOUS
<1>3. c = ps[j].fmt[1] /\ c # "%"
  BY <1>1, <1>2 DEF Before, Finds
<1>4. Len(ps[j].fmt) = 1 /\ ps[j].arg = << >> /\ ps[j].out = <<c>>
  BY <1>1, <1>3, Zenon DEF Before, Kinds
<1>5. Len(ps[j].arg) = 0
  BY <1>4, Lengths, Zenon
<1>6. Boundary(F, A, O, j - 1, f, a, buf)
  BY <1>1 DEF Before
<1>7. Progress(ps, F, A, O, f + 1, a + 0, buf \o <<c>>)
  BY <1>4, <1>5, <1>6, Passes
<1>8. a + 0 = a
  BY <1>1, BeforeIs
<1> QED
  BY <1>2, <1>7, <1>8, Zenon

\* What a turn that finds a percent sign sees behind it.
Percented(T, f) == Char(T, f) = "%" /\ Char(T, f + 1) \in {" ", "%"}
Stringed(T, f) == Char(T, f) = "%" /\ Char(T, f + 1) = "s"
Ended(T, f) == Char(T, f) = Nul
Dropped(T, f) == Char(T, f) = "%" /\ Char(T, f + 1) \notin Flags \cup {"p", "s", " ", "%"}

\* A percent sign has a piece before it.
LEMMA SignStep ==
  ASSUME NEW ps, NEW n, NEW F, NEW A, NEW O, Laid(ps, n, F, A, O),
         NEW f \in Int, NEW a, NEW buf, Progress(ps, F, A, O, f, a, buf), Char(F[n], f) = "%"
  PROVE  \E j \in 1 .. n : Before(ps, n, F, A, O, j, f, a, buf) /\ ps[j].fmt[1] = "%"
<1>1. Char(F[n], f) # Nul
  BY DEF Nul
<1>2. PICK j \in 1 .. n : Before(ps, n, F, A, O, j, f, a, buf)
  BY <1>1, Turn
<1>3. ps[j].fmt[1] = "%"
  BY <1>2 DEF Before, Finds
<1> QED
  BY <1>2, <1>3

\* A second character that is there is the second of the piece.
LEMMA SecondIs ==
  ASSUME NEW ps, NEW n, NEW F, NEW A, NEW O, NEW j \in 1 .. n,
         NEW f, NEW a, NEW buf, Before(ps, n, F, A, O, j, f, a, buf), ps[j].fmt[1] = "%"
  PROVE  \/ Len(ps[j].fmt) # 1 /\ Char(F[n], f + 1) = ps[j].fmt[2]
         \/ Len(ps[j].fmt) = 1 /\ Char(F[n], f + 1) = Nul /\ ps[j].arg = << >> /\ ps[j].out = << >>
BY Zenon DEF Before, Finds, Kinds

\* A sign that stands for itself.
LEMMA PercentStep ==
  ASSUME NEW ps, NEW n, NEW F, NEW A, NEW O, Laid(ps, n, F, A, O),
         NEW f \in Int, NEW a, NEW buf, Progress(ps, F, A, O, f, a, buf),
         Percented(F[n], f)
  PROVE  Progress(ps, F, A, O, f + 2, a, buf \o <<"%">>)
<1>1. PICK j \in 1 .. n : Before(ps, n, F, A, O, j, f, a, buf) /\ ps[j].fmt[1] = "%"
  <2>1. Char(F[n], f) = "%"
    BY Zenon DEF Percented
  <2> QED
    BY <2>1, SignStep
<1>2. Char(F[n], f + 1) # Nul
  BY DEF Nul, Percented
<1>3. Len(ps[j].fmt) # 1 /\ ps[j].fmt[2] \in {" ", "%"}
  <2>1. \/ Len(ps[j].fmt) # 1 /\ Char(F[n], f + 1) = ps[j].fmt[2]
        \/ Len(ps[j].fmt) = 1 /\ Char(F[n], f + 1) = Nul /\ ps[j].arg = << >> /\ ps[j].out = << >>
    BY <1>1, SecondIs
  <2> QED
    BY <1>2, <2>1, Zenon DEF Percented
<1>4. Len(ps[j].fmt) = 2 /\ ps[j].arg = << >> /\ ps[j].out = <<"%">>
  BY <1>1, <1>3, Zenon DEF Before, Kinds
<1>5. Len(ps[j].arg) = 0
  BY <1>4, Lengths, Zenon
<1>6. Boundary(F, A, O, j - 1, f, a, buf)
  BY <1>1 DEF Before
<1>7. Progress(ps, F, A, O, f + 2, a + 0, buf \o <<"%">>)
  BY <1>4, <1>5, <1>6, Passes
<1>8. a + 0 = a
  BY <1>1, BeforeIs
<1> QED
  BY <1>7, <1>8, Zenon

\* A string.
LEMMA StringStep ==
  ASSUME NEW ps, NEW n, NEW F, NEW A, NEW O, Laid(ps, n, F, A, O),
         NEW f \in Int, NEW a, NEW buf, Progress(ps, F, A, O, f, a, buf),
         Stringed(F[n], f)
  PROVE  Progress(ps, F, A, O, f + 2, a + 1, buf \o A[n][a]) /\ IsText(A[n][a])
<1>1. PICK j \in 1 .. n : Before(ps, n, F, A, O, j, f, a, buf) /\ ps[j].fmt[1] = "%"
  <2>1. Char(F[n], f) = "%"
    BY Zenon DEF Stringed
  <2> QED
    BY <2>1, SignStep
<1>2. Char(F[n], f + 1) # Nul
  BY DEF Nul, Stringed
<1>3. Len(ps[j].fmt) # 1 /\ ps[j].fmt[2] = "s"
  <2>1. \/ Len(ps[j].fmt) # 1 /\ Char(F[n], f + 1) = ps[j].fmt[2]
        \/ Len(ps[j].fmt) = 1 /\ Char(F[n], f + 1) = Nul /\ ps[j].arg = << >> /\ ps[j].out = << >>
    BY <1>1, SecondIs
  <2> QED
    BY <1>2, <2>1, Zenon DEF Stringed
<1>4. Len(ps[j].fmt) = 2 /\ ps[j].arg = <<ps[j].out>>
  BY <1>1, <1>3, Zenon DEF Before, Kinds
<1>5. Len(ps[j].arg) = 1 /\ ps[j].arg[1] = ps[j].out
  BY <1>4, Lengths, Zenon
<1>6. Boundary(F, A, O, j - 1, f, a, buf) /\ A[n][a] = ps[j].out
  BY <1>1, <1>5, Zenon DEF Before, Finds
<1>7. Progress(ps, F, A, O, f + 2, a + 1, buf \o A[n][a])
  BY <1>4, <1>5, <1>6, Passes
<1>8. IsText(A[n][a])
  <2>1. IsPiece(ps[j])
    BY DEF Laid, GoodPieces
  <2> QED
    BY <1>6, <2>1 DEF IsPiece
<1> QED
  BY <1>7, <1>8

\* A sign that is dropped.
LEMMA UnknownStep ==
  ASSUME NEW ps, NEW n, NEW F, NEW A, NEW O, Laid(ps, n, F, A, O),
         NEW f \in Int, NEW a, NEW buf, Progress(ps, F, A, O, f, a, buf),
         Dropped(F[n], f)
  PROVE  Progress(ps, F, A, O, f + 1, a, buf)
<1>1. PICK j \in 1 .. n : Before(ps, n, F, A, O, j, f, a, buf) /\ ps[j].fmt[1] = "%"
  <2>1. Char(F[n], f) = "%"
    BY Zenon DEF Dropped
  <2> QED
    BY <2>1, SignStep
<1>2. Boundary(F, A, O, j - 1, f, a, buf)
  BY <1>1 DEF Before
<1>3. CASE Len(ps[j].fmt) # 1 /\ Char(F[n], f + 1) = ps[j].fmt[2]
  <2>1. NoSpecifier(ps[j])
    BY <1>1, <1>3, Zenon DEF Before, Kinds, Dropped
  <2>2. (f + 1) - 1 = f
    <3>1. \A x \in Int : (x + 1) - 1 = x
      OBVIOUS
    <3> QED
      BY <3>1, Zenon
  <2>3. j \in 1 .. Len(ps)
    BY DEF Laid
  <2> QED
    BY <1>2, <2>1, <2>2, <2>3 DEF Progress
<1>4. CASE Len(ps[j].fmt) = 1 /\ ps[j].arg = << >> /\ ps[j].out = << >>
  <2>1. Len(ps[j].arg) = 0
    BY <1>4, Lengths, Zenon
  <2>2. Progress(ps, F, A, O, f + 1, a + 0, buf \o << >>)
    BY <1>2, <1>4, <2>1, Passes
  <2>3. a + 0 = a /\ buf \o << >> = buf
    BY <1>1, BeforeIs
  <2> QED
    BY <2>2, <2>3, Zenon
<1> QED
  BY <1>1, <1>3, <1>4, SecondIs

\* At the end of the format everything has been printed.
LEMMA EndStep ==
  ASSUME NEW ps, NEW n, NEW F, NEW A, NEW O, Laid(ps, n, F, A, O),
         NEW f \in Int, NEW a, NEW buf, Progress(ps, F, A, O, f, a, buf), Ended(F[n], f)
  PROVE  buf = O[n]
<1>1. n \in Nat /\ n = Len(ps) /\ GoodPieces(ps) /\ Joins(ps, F, A, O)
  BY DEF Laid
<1>2. ASSUME NEW k \in 1 .. n, NoSpecifier(ps[k]), Boundary(F, A, O, k - 1, f - 1, a, buf) PROVE FALSE
  <2>1. /\ Char(F[n], f) = ps[k].fmt[2] /\ ps[k].fmt[2] # "%" /\ ps[k].fmt[2] # Nul
        /\ Progress(ps, F, A, O, f + 1, a, buf \o <<ps[k].fmt[2]>>)
    BY <1>2, Middle
  <2> QED
    BY <2>1, Zenon DEF Ended
<1>3. PICK k \in 0 .. n : Boundary(F, A, O, k, f, a, buf)
  BY <1>1, <1>2 DEF Progress
<1>4. k = n
  <2>1. SUFFICES ASSUME k # n PROVE FALSE
    OBVIOUS
  <2>2. PICK j \in 1 .. n : j - 1 = k
    <3>1. k + 1 \in 1 .. n /\ (k + 1) - 1 = k
      BY <1>1, <2>1
    <3> QED
      BY <3>1
  <2>3. Finds(F[n], A[n], ps[j], f, a)
    BY <1>1, <1>3, <2>2, BoundaryFinds
  <2>4. ps[j].fmt \in Seq(STRING \ {Nul}) /\ Len(ps[j].fmt) \in Nat \ {0}
    BY <1>1, ArgIs, PieceKinds DEF GoodPieces, Kinds
  <2>5. ps[j].fmt[1] # Nul
    <3>1. PICK s \in Seq(STRING \ {Nul}) : s = ps[j].fmt
      BY <2>4
    <3>2. 1 \in 1 .. Len(s)
      BY <2>4, <3>1
    <3>3. s[1] \in STRING \ {Nul}
      BY <3>2
    <3> QED
      BY <3>1, <3>3
  <2> QED
    BY <2>3, <2>5 DEF Finds, Ended
<1> QED
  BY <1>3, <1>4 DEF Boundary

\* The flags from index i of T, as FlagsAt reads them from the format.
MarksEnd(T, i, e) == Char(T, e) \notin Flags /\ \A k \in i .. e - 1 : Char(T, k) \in Flags
EndOf(T, i) == CHOOSE e \in i .. Len(T) + 1 : MarksEnd(T, i, e)
RunAt(T, i) == SubSeq(T, i, IF Char(T, EndOf(T, i)) = "p" THEN EndOf(T, i) ELSE EndOf(T, i) - 1)

\* No number is followed by a letter that would be one more of its flags.
Apart(ps) ==
  \A k \in 1 .. Len(ps) - 1 : ps[k].flags => Char(ps[k + 1].fmt, 1) \notin Flags \cup {"p"}

\* Only one index is the end of the flags.
LEMMA EndIs ==
  ASSUME NEW T, NEW H \in Nat, H = Len(T), NEW i \in Nat, NEW e \in i .. H + 1, MarksEnd(T, i, e)
  PROVE  EndOf(T, i) = e
<1>1. ASSUME NEW d \in i .. H + 1, MarksEnd(T, i, d) PROVE d = e
  <2>1. ~ (d < e)
    <3>1. ASSUME d < e PROVE FALSE
      <4>1. d \in i .. e - 1
        BY <3>1
      <4> QED
        BY <1>1, <4>1 DEF MarksEnd
    <3> QED
      BY <3>1
  <2>2. ~ (e < d)
    <3>1. ASSUME e < d PROVE FALSE
      <4>1. e \in i .. d - 1
        BY <3>1
      <4> QED
        BY <1>1, <4>1 DEF MarksEnd
    <3> QED
      BY <3>1
  <2> QED
    BY <2>1, <2>2
<1>2. EndOf(T, i) \in i .. H + 1 /\ MarksEnd(T, i, EndOf(T, i))
  BY Zenon DEF EndOf
<1> QED
  BY <1>1, <1>2

\* What is behind a number that ends in a flag.
LEMMA BehindNumber ==
  ASSUME NEW ps, NEW n, NEW F, NEW A, NEW O, Laid(ps, n, F, A, O), Apart(ps), NEW j \in 1 .. n,
         NEW f, NEW a, NEW buf, Boundary(F, A, O, j - 1, f, a, buf), ps[j].flags
  PROVE  Char(F[n], f + Len(ps[j].fmt)) \notin Flags \cup {"p"}
<1>1. n \in Nat /\ n = Len(ps) /\ GoodPieces(ps) /\ Joins(ps, F, A, O)
  BY DEF Laid
<1>2. PICK g, b, t : g = f + Len(ps[j].fmt) /\ b = a + Len(ps[j].arg) /\ t = buf \o ps[j].out
  OBVIOUS
<1>3. Boundary(F, A, O, j, g, b, t)
  BY <1>2, Passes
<1>4. CASE j = n
  <2>1. Char(F[n], g) = Nul
    BY <1>1, <1>3, <1>4, EndFinds
  <2> QED
    BY <1>2, <2>1 DEF Nul, Flags
<1>5. CASE j # n
  <2>1. PICK i \in 1 .. n : i - 1 = j /\ i = j + 1
    <3>1. j + 1 \in 1 .. n /\ (j + 1) - 1 = j
      BY <1>1, <1>5
    <3> QED
      BY <3>1
  <2>2. Finds(F[n], A[n], ps[i], g, b)
    BY <1>1, <1>3, <2>1, BoundaryFinds
  <2>3. Char(F[n], g) = ps[i].fmt[1]
    BY <2>2 DEF Finds
  <2>4. Len(ps[i].fmt) \in Nat \ {0}
    BY <1>1, PieceKinds DEF GoodPieces, Kinds
  <2>5. Char(ps[i].fmt, 1) = ps[i].fmt[1]
    <3>1. ~ (1 > Len(ps[i].fmt))
      BY <2>4
    <3> QED
      BY <3>1, Zenon DEF Char
  <2>6. j \in 1 .. Len(ps) - 1
    BY <1>1, <1>5
  <2>7. Char(ps[j + 1].fmt, 1) \notin Flags \cup {"p"}
    BY <2>6, Zenon DEF Apart
  <2> QED
    BY <1>2, <2>1, <2>3, <2>5, <2>7, Zenon
<1> QED
  BY <1>4, <1>5

\* A subsequence of the format that lies in one piece.
LEMMA RunIs ==
  ASSUME NEW T \in Seq(STRING \ {Nul}), NEW p, p.fmt \in Seq(STRING \ {Nul}),
         NEW H \in Nat, NEW x \in Nat, NEW y \in Nat, NEW z \in Nat, H = Len(T), y = Len(p.fmt), y >= 2,
         Lies(T, H, p, x, y, z)
  PROVE  SubSeq(T, x + 2, x + y) = SubSeq(p.fmt, 2, y) /\ Len(SubSeq(p.fmt, 2, y)) = y - 1
<1>1. z = x + y /\ z <= H /\ \A i \in 1 .. y : Char(T, x + i) = p.fmt[i]
  BY Zenon DEF Lies
<1>2. PICK s \in Seq(STRING \ {Nul}) : s = p.fmt
  OBVIOUS
<1>3. ASSUME NEW i \in 1 .. y PROVE T[x + i] = s[i]
  <2>1. ~ (x + i > H)
    BY <1>1
  <2> QED
    BY <1>1, <1>2, <2>1, Zenon DEF Char
<1>4. SubSeq(T, x + 2, x + y) = [i \in 1 .. y - 1 |-> T[x + (i + 1)]]
  <2>1. SubSeq(T, x + 2, x + y) = [i \in 1 .. (1 + (x + y) - (x + 2)) |-> T[i + (x + 2) - 1]]
    OBVIOUS
  <2>2. 1 + (x + y) - (x + 2) = y - 1 /\ \A i \in 1 .. y - 1 : i + (x + 2) - 1 = x + (i + 1)
    OBVIOUS
  <2> QED
    BY <2>1, <2>2
<1>5. SubSeq(s, 2, y) = [i \in 1 .. y - 1 |-> s[i + 1]]
  <2>1. SubSeq(s, 2, y) = [i \in 1 .. (1 + y - 2) |-> s[i + 2 - 1]]
    OBVIOUS
  <2>2. 1 + y - 2 = y - 1 /\ \A i \in 1 .. y - 1 : i + 2 - 1 = i + 1
    OBVIOUS
  <2> QED
    BY <2>1, <2>2
<1>6. \A i \in 1 .. y - 1 : i + 1 \in 1 .. y
  OBVIOUS
<1>7. \A i \in 1 .. y - 1 : T[x + (i + 1)] = s[i + 1]
  BY <1>3, <1>6, Zenon
<1>8. SubSeq(T, x + 2, x + y) = SubSeq(s, 2, y)
  BY <1>4, <1>5, <1>7, ZenonT(40)
<1>9. Len(SubSeq(s, 2, y)) = y - 1
  BY <1>2
<1> QED
  BY <1>2, <1>8, <1>9, Zenon

\* Behind a piece that ends in a flag is nothing that would be one more.
Closed(T, p, e) == p.flags => Char(T, e) \notin Flags \cup {"p"}

\* Where a piece of y characters behind the first x of H ends.
Ends(x, y, H, e) ==
  /\ y >= 2 /\ y \in 1 .. y /\ x + 2 \in Nat
  /\ x + y \in x + 2 .. H + 1 /\ e \in x + 2 .. H + 1 /\ e - 1 = x + y
  /\ \A k \in x + 2 .. (x + y) - 1 : k - x \in 2 .. y - 1 /\ k - x \in 1 .. y /\ x + (k - x) = k
  /\ \A k \in x + 2 .. e - 1 : k \in x + 2 .. (x + y) - 1 \/ k = x + y

\* The arithmetic of those indices.
LEMMA EndsAre ==
  ASSUME NEW x \in Nat, NEW y \in Nat, NEW z \in Nat, NEW H \in Nat, z = x + y, z <= H, y > 1
  PROVE  Ends(x, y, H, (x + 1) + y)
BY DEF Ends

\* The flags that are read from the format are those of the piece.
Reads(T, H, p, x, y, z, e) ==
  /\ p.fmt \in Seq(STRING \ {Nul}) /\ IsNumber(p)
  /\ H = Len(T) /\ y = Len(p.fmt) /\ e = (x + 1) + y
  /\ Lies(T, H, p, x, y, z) /\ Closed(T, p, e)

RunReads(T, p, x, y) == RunAt(T, x + 2) = SubSeq(p.fmt, 2, y)

\* The loop over the flags reads all of them and none of another piece.
LEMMA FlagsAre ==
  ASSUME NEW T \in Seq(STRING \ {Nul}), NEW p, NEW H \in Nat, NEW x \in Nat, NEW y \in Nat,
         NEW z \in Nat, NEW e \in Nat, Reads(T, H, p, x, y, z, e)
  PROVE  RunReads(T, p, x, y)
<1>13. SUFFICES RunAt(T, x + 2) = SubSeq(p.fmt, 2, y)
  BY DEF RunReads
<1>12. /\ p.fmt \in Seq(STRING \ {Nul}) /\ H = Len(T) /\ y = Len(p.fmt) /\ e = (x + 1) + y
       /\ Lies(T, H, p, x, y, z)
  BY DEF Reads
<1>1. z = x + y /\ z <= H /\ \A i \in 1 .. y : Char(T, x + i) = p.fmt[i]
  BY <1>12, Zenon DEF Lies
<1>2. /\ y > 1 /\ p.flags = (p.fmt[y] # "p") /\ p.fmt[y] \in Flags \cup {"p"}
      /\ \A k \in 2 .. y - 1 : p.fmt[k] \in Flags
  BY Zenon DEF IsNumber, Reads
<1>10. z = x + y /\ z <= H /\ y > 1
  BY <1>1, <1>2, Zenon
<1>11. Ends(x, y, H, e)
  BY <1>10, <1>12, EndsAre
<1>6. /\ y >= 2 /\ y \in 1 .. y /\ x + 2 \in Nat
      /\ x + y \in x + 2 .. H + 1 /\ e \in x + 2 .. H + 1 /\ e - 1 = x + y
  BY <1>11, Zenon DEF Ends
<1>3. SubSeq(T, x + 2, x + y) = SubSeq(p.fmt, 2, y)
  <2>1. y >= 2
    BY <1>6, Zenon
  <2> QED
    BY <1>12, <2>1, RunIs, SMTT(30)
<1>4. \A k \in x + 2 .. (x + y) - 1 : k - x \in 2 .. y - 1 /\ k - x \in 1 .. y /\ x + (k - x) = k
  BY <1>11, Zenon DEF Ends
<1>5. \A k \in x + 2 .. (x + y) - 1 : Char(T, k) \in Flags
  BY <1>1, <1>2, <1>4, Zenon
<1>7. Char(T, x + y) = p.fmt[y]
  BY <1>1, <1>6, Zenon
<1>8. CASE p.fmt[y] = "p"
  <2>1. MarksEnd(T, x + 2, x + y)
    <3>1. "p" \notin Flags
      BY DEF Flags
    <3> QED
      BY <1>5, <1>7, <1>8, <3>1, Zenon DEF MarksEnd
  <2>2. EndOf(T, x + 2) = x + y
    BY <1>6, <2>1, <1>12, EndIs
  <2> QED
    BY <1>3, <1>7, <1>8, <2>2, Zenon DEF RunAt
<1>9. CASE p.fmt[y] # "p"
  <2>1. Char(T, e) \notin Flags /\ Char(T, e) # "p"
    BY <1>2, <1>9, Zenon DEF Closed, Reads
  <2>2. MarksEnd(T, x + 2, e)
    <3>1. \A k \in x + 2 .. e - 1 : k \in x + 2 .. (x + y) - 1 \/ k = x + y
      BY <1>11, Zenon DEF Ends
    <3>2. Char(T, x + y) \in Flags
      BY <1>2, <1>7, <1>9, Zenon
    <3>3. \A k \in x + 2 .. e - 1 : Char(T, k) \in Flags
      BY <1>5, <3>1, <3>2, Zenon
    <3> QED
      BY <2>1, <3>3, Zenon DEF MarksEnd
  <2>3. EndOf(T, x + 2) = e
    BY <1>6, <2>2, <1>12, EndIs
  <2> QED
    BY <1>3, <1>6, <2>1, <2>3, Zenon DEF RunAt
<1> QED
  BY <1>8, <1>9

\* What a turn that finds a number sees, and what it prints and passes.
Numbers(T, f) == Char(T, f) = "%" /\ Char(T, f + 1) \in Flags \cup {"p"}
Prints1(ps, F, A, O, f, a, buf, v, run) ==
  /\ v \in Word /\ v # Int64Min /\ Len(run) \in Nat /\ IsText(Meaning(v, run))
  /\ Progress(ps, F, A, O, f + 1 + Len(run), a + 1, buf \o Meaning(v, run))

\* A number: its flags are read, its argument is taken, its numeral printed.
LEMMA NumberStep ==
  ASSUME NEW ps, NEW n, NEW F, NEW A, NEW O, Laid(ps, n, F, A, O), Apart(ps),
         NEW f \in Int, NEW a, NEW buf, Progress(ps, F, A, O, f, a, buf), Numbers(F[n], f)
  PROVE  Prints1(ps, F, A, O, f, a, buf, A[n][a], RunAt(F[n], f + 1))
<1>1. n \in Nat /\ n = Len(ps) /\ GoodPieces(ps) /\ Joins(ps, F, A, O)
  BY DEF Laid
<1>2. PICK j \in 1 .. n : Before(ps, n, F, A, O, j, f, a, buf) /\ ps[j].fmt[1] = "%"
  <2>1. Char(F[n], f) = "%"
    BY Zenon DEF Numbers
  <2> QED
    BY <2>1, SignStep
<1>3. Char(F[n], f + 1) # Nul
  BY DEF Nul, Numbers, Flags
<1>4. Len(ps[j].fmt) # 1 /\ ps[j].fmt[2] \in Flags \cup {"p"}
  <2>1. \/ Len(ps[j].fmt) # 1 /\ Char(F[n], f + 1) = ps[j].fmt[2]
        \/ Len(ps[j].fmt) = 1 /\ Char(F[n], f + 1) = Nul /\ ps[j].arg = << >> /\ ps[j].out = << >>
    BY <1>2, SecondIs
  <2> QED
    BY <1>3, <2>1, Zenon DEF Numbers
<1>5. PICK p : p = ps[j]
  OBVIOUS
<1>6. IsNumber(p) /\ IsPiece(p)
  <2>1. IsNumber(p)
    BY <1>2, <1>4, <1>5, Zenon DEF Before, Kinds
  <2>2. IsPiece(p)
    BY <1>1, <1>5 DEF GoodPieces
  <2> QED
    BY <2>1, <2>2
<1>7. Boundary(F, A, O, j - 1, f, a, buf)
  BY <1>2 DEF Before
<1>8. PICK H \in Nat, x \in Nat, y \in Nat, z \in Nat :
        /\ H = Len(F[n]) /\ x = Len(F[j - 1]) /\ y = Len(ps[j].fmt) /\ z = Len(F[j])
        /\ Lies(F[n], H, ps[j], x, y, z)
  BY <1>1, PieceChar
<1>9. y = Len(p.fmt) /\ Lies(F[n], H, p, x, y, z)
  BY <1>5, <1>8, Zenon
<1>10. f = x + 1 /\ f + 1 = x + 2
  <2>1. f = x + 1
    BY <1>7, <1>8 DEF Boundary
  <2> QED
    BY <2>1
<1>11. Closed(F[n], p, (x + 1) + y)
  <2>1. ASSUME p.flags PROVE Char(F[n], f + Len(ps[j].fmt)) \notin Flags \cup {"p"}
    BY <1>5, <1>7, <2>1, BehindNumber
  <2> QED
    BY <1>8, <1>10, <2>1, Zenon DEF Closed
<1>12. PICK T \in Seq(STRING \ {Nul}) : T = F[n]
  <2>1. n \in 0 .. n
    BY <1>1
  <2> QED
    BY <1>1, <2>1, JoinTypes
<1>13. p.fmt \in Seq(STRING \ {Nul})
  BY <1>6, ArgIs
<1>14. PICK run : run = SubSeq(p.fmt, 2, y)
  OBVIOUS
<1>20. H = Len(T) /\ Lies(T, H, p, x, y, z) /\ Closed(T, p, (x + 1) + y)
  BY <1>8, <1>9, <1>11, <1>12, Zenon
<1>21. y >= 2
  <2>1. y > 1
    BY <1>6, <1>9, Zenon DEF IsNumber
  <2> QED
    BY <2>1
<1>15. RunAt(F[n], f + 1) = run
  <2>2. PICK e \in Nat : e = (x + 1) + y
    OBVIOUS
  <2>3. Reads(T, H, p, x, y, z, e)
    BY <1>6, <1>9, <1>13, <1>20, <2>2, Zenon DEF Reads
  <2>4. RunReads(T, p, x, y)
    BY <2>3, FlagsAre
  <2>1. RunAt(T, x + 2) = SubSeq(p.fmt, 2, y)
    BY <2>4 DEF RunReads
  <2> QED
    BY <1>10, <1>12, <1>14, <2>1, Zenon
<1>16. Len(run) = y - 1
  BY <1>9, <1>13, <1>14, <1>20, <1>21, RunIs
<1>17. PICK v : v = p.arg[1] /\ p.arg = <<v>> /\ v \in Word /\ v # Int64Min /\ p.out = Meaning(v, run)
  BY <1>6, <1>9, <1>14, Zenon DEF IsNumber
<1>18. A[n][a] = v /\ Len(p.arg) = 1
  <2>1. Len(p.arg) = 1
    BY <1>17, Lengths, Zenon
  <2> QED
    BY <1>2, <1>5, <1>17, <2>1, Zenon DEF Before, Finds
<1>19. Progress(ps, F, A, O, f + y, a + 1, buf \o Meaning(v, run))
  <2>1. y = Len(ps[j].fmt) /\ 1 = Len(ps[j].arg) /\ Meaning(v, run) = ps[j].out
    BY <1>5, <1>8, <1>17, <1>18, Zenon
  <2> QED
    BY <1>7, <2>1, Passes
<1>22. f + 1 + Len(run) = f + y /\ Len(run) \in Nat
  BY <1>16, <1>21
<1>23. IsText(Meaning(v, run))
  BY <1>6, <1>17, Zenon DEF IsPiece
<1> QED
  BY <1>15, <1>17, <1>18, <1>19, <1>22, <1>23, Zenon DEF Prints1

-----------------------------------------------------------------------------
(* The loop of _vprintf keeps to the pieces.                                *)

\* Where a turn of the loop may begin, in the pieces of the call.
LoopAt(ps, f, a, buf) ==
  f \in Nat /\ \E F, A, O : Laid(ps, Len(ps), F, A, O) /\ Progress(ps, F, A, O, f, a, buf)

\* A text is what the pieces stand for, side by side.
IsOut(ps, buf) == \E F, A, O : Laid(ps, Len(ps), F, A, O) /\ buf = O[Len(ps)]

Printed ==
  /\ IsOut(Pieces, buffer)
  /\ (call.fn \in {"printf", "serial_printf"} => ret = buffer)
  /\ (call.fn = "println" => ret = buffer \o <<" ", "\n">>)

PrintInv ==
  call.fn \in Printing /\ Unambiguous =>
    /\ (pc = "call" => fmt = 1 /\ arg = 1 /\ buffer = << >>)
    /\ (pc = "loop" => LoopAt(Pieces, fmt, arg, buffer))
    /\ (pc = "done" => Printed)

\* The invariant holds before the call.
LEMMA PrintInit == Init => PrintInv
BY DEF Init, PrintInv

\* The pieces of a printing call are what the assumption says.
LEMMA CallPieces ==
  ASSUME PureInv, call.fn \in Printing
  PROVE  GoodPieces(Pieces)
<1>1. call \in Prints
  <2>1. call \in Calls \cup Prints
    BY DEF PureInv
  <2>2. ASSUME call \in Calls PROVE FALSE
    <3>1. IsMove(call) \/ IsSearch(call) \/ IsConversion(call)
      BY <2>2, CallsAssumption
    <3> QED
      BY <3>1 DEF IsMove, IsSearch, IsConversion, Printing
  <2> QED
    BY <2>1, <2>2
<1>2. IsFormat(Pieces)
  BY <1>1, PrintsAssumption DEF Pieces
<1>3. ASSUME NEW k \in 1 .. Len(Pieces) PROVE IsPiece(Pieces[k])
  <2>1. Pieces[k] \in {call.pieces[i] : i \in 1 .. Len(call.pieces)}
    BY DEF Pieces
  <2>2. Pieces[k] \in UNION {{c.pieces[i] : i \in 1 .. Len(c.pieces)} : c \in Prints}
    BY <1>1, <2>1
  <2> QED
    BY <2>2, PrintsAssumption
<1> QED
  BY <1>2, <1>3 DEF GoodPieces

\* The loop starts at the first piece.
LEMMA StartStep ==
  ASSUME NEW ps, GoodPieces(ps)
  PROVE  LoopAt(ps, 1, 1, << >>)
<1>1. PICK n \in Nat : n = Len(ps)
  BY DEF GoodPieces, IsFormat
<1>2. PICK F, A, O : Joins(ps, F, A, O)
  BY HasJoins
<1>3. F[0] = << >> /\ A[0] = << >> /\ O[0] = << >>
  BY <1>2 DEF Joins, Concats
<1>4. Boundary(F, A, O, 0, 1, 1, << >>)
  BY <1>3 DEF Boundary
<1>5. 0 \in 0 .. Len(ps)
  BY <1>1
<1>6. Progress(ps, F, A, O, 1, 1, << >>)
  BY <1>4, <1>5 DEF Progress
<1>7. Laid(ps, Len(ps), F, A, O)
  BY <1>1, <1>2 DEF Laid
<1> QED
  BY <1>6, <1>7 DEF LoopAt

\* What the call reads and should print are what the pieces make.
LEMMA TextsAre ==
  ASSUME NEW F, NEW A, NEW O, Laid(Pieces, Len(Pieces), F, A, O)
  PROVE  /\ Format = F[Len(Pieces)] /\ Args = A[Len(Pieces)] /\ Joined(OutOf) = O[Len(Pieces)]
         /\ \A i : At(i) = Char(F[Len(Pieces)], i) /\ FlagsAt(i) = RunAt(F[Len(Pieces)], i)
<1>1. Len(Pieces) \in Nat /\ Joins(Pieces, F, A, O)
  BY DEF Laid
<1>2. Format = F[Len(Pieces)]
  BY <1>1, FormatIs DEF Joins
<1>3. Args = A[Len(Pieces)]
  BY <1>1, ArgsAre DEF Joins
<1>4. Joined(OutOf) = O[Len(Pieces)]
  BY <1>1, OutIs DEF Joins
<1>5. \A i : At(i) = Char(F[Len(Pieces)], i)
  BY <1>2 DEF At
<1>6. \A i : FlagsAt(i) = RunAt(Format, i)
  BY Zenon DEF FlagsAt, RunAt, EndOf, MarksEnd, At
<1> QED
  BY <1>2, <1>3, <1>4, <1>5, <1>6

\* The turns of the loop, in terms of the call.
LEMMA LoopSteps ==
  ASSUME Unambiguous, LoopAt(Pieces, fmt, arg, buffer)
  PROVE  /\ (At(fmt) \notin {Nul, "%"} => LoopAt(Pieces, fmt + 1, arg, buffer \o <<At(fmt)>>))
         /\ (At(fmt) = "%" /\ At(fmt + 1) \in {" ", "%"} => LoopAt(Pieces, fmt + 2, arg, buffer \o <<"%">>))
         /\ (At(fmt) = "%" /\ At(fmt + 1) = "s" => LoopAt(Pieces, fmt + 2, arg + 1, buffer \o Args[arg]) /\ IsText(Args[arg]))
         /\ (At(fmt) = "%" /\ At(fmt + 1) \notin Flags \cup {"p", "s", " ", "%"} =>
               LoopAt(Pieces, fmt + 1, arg, buffer))
         /\ (At(fmt) = Nul => IsOut(Pieces, buffer))
<1>1. PICK F, A, O : Laid(Pieces, Len(Pieces), F, A, O) /\ Progress(Pieces, F, A, O, fmt, arg, buffer)
  BY DEF LoopAt
<1>2. PICK ps, n : ps = Pieces /\ n = Len(ps)
  OBVIOUS
<1>3. PICK f \in Nat : f = fmt
  BY DEF LoopAt
<1>4. PICK a, buf : a = arg /\ buf = buffer
  OBVIOUS
<1>5. Laid(ps, n, F, A, O) /\ Progress(ps, F, A, O, f, a, buf) /\ f \in Int
  BY <1>1, <1>2, <1>3, <1>4
<1>6. /\ Args = A[n] /\ At(fmt) = Char(F[n], f) /\ At(fmt + 1) = Char(F[n], f + 1)
  BY <1>1, <1>2, <1>3, TextsAre, Zenon
<1>7. f + 1 \in Nat /\ f + 2 \in Nat
  OBVIOUS
<1>8. ASSUME NEW g \in Nat, NEW b, NEW t, Progress(ps, F, A, O, g, b, t) PROVE LoopAt(Pieces, g, b, t)
  BY <1>2, <1>5, <1>8 DEF LoopAt
<1>9. ASSUME At(fmt) \notin {Nul, "%"} PROVE LoopAt(Pieces, fmt + 1, arg, buffer \o <<At(fmt)>>)
  <2>1. Char(F[n], f) \notin {Nul, "%"}
    BY <1>6, <1>9, Zenon
  <2>2. Progress(ps, F, A, O, f + 1, a, buf \o <<Char(F[n], f)>>)
    BY <1>5, <2>1, PlainStep
  <2> QED
    BY <1>3, <1>4, <1>6, <1>7, <1>8, <2>2, Zenon
<1>10. ASSUME At(fmt) = "%", At(fmt + 1) \in {" ", "%"} PROVE LoopAt(Pieces, fmt + 2, arg, buffer \o <<"%">>)
  <2>1. Percented(F[n], f)
    BY <1>6, <1>10, Zenon DEF Percented
  <2>2. Progress(ps, F, A, O, f + 2, a, buf \o <<"%">>)
    BY <1>5, <2>1, PercentStep
  <2> QED
    BY <1>3, <1>4, <1>7, <1>8, <2>2, Zenon
<1>11. ASSUME At(fmt) = "%", At(fmt + 1) = "s"
       PROVE  LoopAt(Pieces, fmt + 2, arg + 1, buffer \o Args[arg]) /\ IsText(Args[arg])
  <2>1. Stringed(F[n], f)
    BY <1>6, <1>11, Zenon DEF Stringed
  <2>2. Progress(ps, F, A, O, f + 2, a + 1, buf \o A[n][a]) /\ IsText(A[n][a])
    BY <1>5, <2>1, StringStep
  <2> QED
    BY <1>3, <1>4, <1>6, <1>7, <1>8, <2>2, Zenon
<1>12. ASSUME At(fmt) = "%", At(fmt + 1) \notin Flags \cup {"p", "s", " ", "%"}
       PROVE  LoopAt(Pieces, fmt + 1, arg, buffer)
  <2>1. Dropped(F[n], f)
    BY <1>6, <1>12, Zenon DEF Dropped
  <2>2. Progress(ps, F, A, O, f + 1, a, buf)
    BY <1>5, <2>1, UnknownStep
  <2> QED
    BY <1>3, <1>4, <1>7, <1>8, <2>2, Zenon
<1>13. ASSUME At(fmt) = Nul PROVE IsOut(Pieces, buffer)
  <2>1. Ended(F[n], f)
    BY <1>6, <1>13, Zenon DEF Ended
  <2>2. buf = O[n]
    BY <1>5, <2>1, EndStep
  <2> QED
    BY <1>2, <1>4, <1>5, <2>2, Zenon DEF IsOut
<1> QED
  BY <1>9, <1>10, <1>11, <1>12, <1>13

\* The turn that prints a number.
LEMMA NumberTurn ==
  ASSUME Unambiguous, LoopAt(Pieces, fmt, arg, buffer), At(fmt) = "%", At(fmt + 1) \in Flags \cup {"p"},
         NEW v, v = Args[arg], NEW run, run = FlagsAt(fmt + 1), NEW wraps \in Overflows(v)
  PROVE  /\ LoopAt(Pieces, fmt + 1 + Len(run), arg + 1, buffer \o NumberText(v, run, wraps))
         /\ IsText(NumberText(v, run, wraps))
<1>1. PICK F, A, O : Laid(Pieces, Len(Pieces), F, A, O) /\ Progress(Pieces, F, A, O, fmt, arg, buffer)
  BY DEF LoopAt
<1>2. PICK ps, n : ps = Pieces /\ n = Len(ps)
  OBVIOUS
<1>3. PICK f \in Nat : f = fmt
  BY DEF LoopAt
<1>4. PICK a, buf : a = arg /\ buf = buffer
  OBVIOUS
<1>5. Laid(ps, n, F, A, O) /\ Progress(ps, F, A, O, f, a, buf) /\ f \in Int
  BY <1>1, <1>2, <1>3, <1>4
<1>6. /\ v = A[n][a] /\ run = RunAt(F[n], f + 1)
      /\ At(fmt) = Char(F[n], f) /\ At(fmt + 1) = Char(F[n], f + 1)
  BY <1>1, <1>2, <1>3, <1>4, TextsAre, Zenon
<1>7. Numbers(F[n], f)
  BY <1>6, Zenon DEF Numbers
<1>8. Apart(ps)
  BY <1>2 DEF Unambiguous, Apart
<1>9. Prints1(ps, F, A, O, f, a, buf, v, run)
  <2>1. Prints1(ps, F, A, O, f, a, buf, A[n][a], RunAt(F[n], f + 1))
    BY <1>5, <1>7, <1>8, NumberStep
  <2> QED
    BY <1>6, <2>1, Zenon
<1>10. /\ v \in Word /\ v # Int64Min /\ Len(run) \in Nat /\ IsText(Meaning(v, run))
       /\ Progress(ps, F, A, O, f + 1 + Len(run), a + 1, buf \o Meaning(v, run))
  BY <1>9 DEF Prints1
<1>11. wraps = FALSE
  BY <1>10, Zenon DEF Overflows
<1>12. NumberText(v, run, FALSE) = Meaning(v, run)
  BY <1>10, NumberMeans, Zenon
<1>13. f + 1 + Len(run) \in Nat
  BY <1>10
<1>14. LoopAt(Pieces, f + 1 + Len(run), a + 1, buf \o Meaning(v, run))
  BY <1>2, <1>5, <1>10, <1>13, Zenon DEF LoopAt
<1> QED
  BY <1>3, <1>4, <1>10, <1>11, <1>12, <1>14, Zenon

\* Every step keeps to the pieces: one case for each action.
LEMMA PrintStep ==
  ASSUME PureInv, PrintInv, [Next]_vars
  PROVE  PrintInv'
<1>1. CASE UNCHANGED vars
  <2>1. /\ call' = call /\ pc' = pc /\ fmt' = fmt /\ arg' = arg /\ buffer' = buffer /\ ret' = ret
    BY <1>1 DEF vars
  <2>2. Pieces' = Pieces /\ Unambiguous' = Unambiguous
    BY <2>1 DEF Pieces, Unambiguous
  <2>3. Printed' = Printed
    BY <2>1, <2>2 DEF Printed
  <2> QED
    BY <2>1, <2>2, <2>3 DEF PrintInv
<1>2. CASE Next
  <2>1. call' = call
    BY <1>2 DEF Next, Memcpy, Memmove, Memset, Strstr, Itoa, Utoa, Ultoa, Pure,
                Enter, Plain, Percent, String, Number, Unknown, Emit
  <2>2. SUFFICES ASSUME call.fn \in Printing, Unambiguous
                 PROVE  /\ pc' # "call"
                        /\ (pc' = "loop" => LoopAt(Pieces, fmt', arg', buffer'))
                        /\ (pc' = "done" => Printed')
    <3>1. Pieces' = Pieces /\ Unambiguous' = Unambiguous
      BY <2>1 DEF Pieces, Unambiguous
    <3> QED
      BY <2>1, <3>1 DEF PrintInv
  <2>3. /\ (pc = "call" => fmt = 1 /\ arg = 1 /\ buffer = << >>)
        /\ (pc = "loop" => LoopAt(Pieces, fmt, arg, buffer))
    BY <2>2 DEF PrintInv
  <2>4. CASE Memcpy \/ Memmove \/ Memset \/ Strstr \/ Itoa \/ Utoa \/ Ultoa
    BY <2>2, <2>4 DEF Memcpy, Memmove, Memset, Strstr, Itoa, Utoa, Ultoa, Pure, Printing
  <2>5. CASE Enter
    <3>1. pc = "call" /\ pc' = "loop" /\ fmt' = fmt /\ arg' = arg /\ buffer' = buffer
      BY <2>5 DEF Enter
    <3>2. LoopAt(Pieces, 1, 1, << >>)
      BY <2>2, CallPieces, StartStep
    <3> QED
      BY <2>3, <3>1, <3>2
  <2>6. ASSUME NEW s, pc = "loop", Put(s), LoopAt(Pieces, fmt', arg', buffer \o s)
        PROVE  /\ pc' # "call" /\ (pc' = "loop" => LoopAt(Pieces, fmt', arg', buffer'))
               /\ (pc' = "done" => Printed')
    BY <2>6 DEF Put
  <2>7. CASE Plain
    <3>1. /\ pc = "loop" /\ At(fmt) \notin {Nul, "%"} /\ Put(<<At(fmt)>>) /\ fmt' = fmt + 1 /\ arg' = arg
      BY <2>7 DEF Plain
    <3>2. LoopAt(Pieces, fmt + 1, arg, buffer \o <<At(fmt)>>)
      BY <2>2, <2>3, <3>1, LoopSteps
    <3> QED
      BY <2>6, <3>1, <3>2, Zenon
  <2>8. CASE Percent
    <3>1. /\ pc = "loop" /\ At(fmt) = "%" /\ At(fmt + 1) \in {" ", "%"} /\ Put(<<"%">>)
          /\ fmt' = fmt + 2 /\ arg' = arg
      BY <2>8 DEF Percent
    <3>2. LoopAt(Pieces, fmt + 2, arg, buffer \o <<"%">>)
      BY <2>2, <2>3, <3>1, LoopSteps
    <3> QED
      BY <2>6, <3>1, <3>2, Zenon
  <2>9. CASE String
    <3>1. /\ pc = "loop" /\ At(fmt) = "%" /\ At(fmt + 1) = "s" /\ Put(Args[arg])
          /\ fmt' = fmt + 2 /\ arg' = arg + 1
      BY <2>9 DEF String
    <3>2. LoopAt(Pieces, fmt + 2, arg + 1, buffer \o Args[arg])
      BY <2>2, <2>3, <3>1, LoopSteps
    <3> QED
      BY <2>6, <3>1, <3>2, Zenon
  <2>10. CASE Number
    <3>1. PICK v, run, wraps :
            /\ pc = "loop" /\ At(fmt) = "%" /\ At(fmt + 1) \in Flags \cup {"p"}
            /\ v = Args[arg] /\ run = FlagsAt(fmt + 1) /\ wraps \in Overflows(v)
            /\ Put(NumberText(v, run, wraps)) /\ fmt' = fmt + 1 + Len(run) /\ arg' = arg + 1
      BY <2>10, Zenon DEF Number
    <3>2. LoopAt(Pieces, fmt + 1 + Len(run), arg + 1, buffer \o NumberText(v, run, wraps))
      BY <2>2, <2>3, <3>1, NumberTurn
    <3> QED
      BY <2>6, <3>1, <3>2, Zenon
  <2>11. CASE Unknown
    <3>1. /\ pc = "loop" /\ At(fmt) = "%" /\ At(fmt + 1) \notin Flags \cup {"p", "s", " ", "%"}
          /\ pc' = pc /\ fmt' = fmt + 1 /\ arg' = arg /\ buffer' = buffer
      BY <2>11 DEF Unknown, AfterUnknown
    <3>2. LoopAt(Pieces, fmt + 1, arg, buffer)
      BY <2>2, <2>3, <3>1, LoopSteps
    <3> QED
      BY <3>1, <3>2
  <2>12. CASE Emit
    <3>1. /\ pc = "loop" /\ At(fmt) = Nul /\ buffer' = buffer /\ pc' \in {"wild", "done"}
          /\ (call.fn \in {"printf", "serial_printf"} => ret' = buffer)
          /\ (call.fn = "println" => ret' = buffer \o <<" ", "\n">>)
      BY <2>12 DEF Emit
    <3>2. IsOut(Pieces, buffer)
      BY <2>2, <2>3, <3>1, LoopSteps
    <3>3. Pieces' = Pieces
      BY <2>1 DEF Pieces
    <3>4. Printed'
      BY <2>1, <3>1, <3>2, <3>3 DEF Printed
    <3> QED
      BY <3>1, <3>4
  <2> QED
    BY <1>2, <2>4, <2>5, <2>7, <2>8, <2>9, <2>10, <2>11, <2>12 DEF Next
<1> QED
  BY <1>1, <1>2

-----------------------------------------------------------------------------
(* The buffer of _vprintf.                                                  *)

\* What has been printed is no longer than what all pieces stand for.
LEMMA LoopShort ==
  ASSUME NEW f, NEW a, NEW buf, LoopAt(Pieces, f, a, buf)
  PROVE  buf \in Seq(STRING \ {Nul}) /\ Len(Joined(OutOf)) \in Nat /\ Len(buf) <= Len(Joined(OutOf))
<1>1. PICK F, A, O : Laid(Pieces, Len(Pieces), F, A, O) /\ Progress(Pieces, F, A, O, f, a, buf)
  BY DEF LoopAt
<1>2. PICK ps, n : ps = Pieces /\ n = Len(ps)
  OBVIOUS
<1>3. n \in Nat /\ Joins(ps, F, A, O) /\ Joined(OutOf) = O[n]
  BY <1>1, <1>2, TextsAre DEF Laid
<1>4. PICK k \in 0 .. n : buf = O[k]
  <2>1. CASE \E k \in 0 .. n : Boundary(F, A, O, k, f, a, buf)
    BY <2>1 DEF Boundary
  <2>2. CASE \E k \in 1 .. n : NoSpecifier(ps[k]) /\ Boundary(F, A, O, k - 1, f - 1, a, buf)
    <3>1. PICK k \in 1 .. n : Boundary(F, A, O, k - 1, f - 1, a, buf)
      BY <2>2
    <3>2. k - 1 \in 0 .. n
      BY <1>3
    <3> QED
      BY <3>1, <3>2 DEF Boundary
  <2> QED
    BY <1>1, <1>2, <2>1, <2>2 DEF Progress
<1>5. O[n] \in Seq(STRING \ {Nul}) /\ O[k] \in Seq(STRING \ {Nul}) /\ O[0] = << >>
  <2>1. n \in 0 .. n
    BY <1>3
  <2>2. O[n] \in Seq(STRING \ {Nul}) /\ O[k] \in Seq(STRING \ {Nul})
    BY <1>2, <1>3, <2>1, JoinTypes
  <2>3. O[0] = << >>
    BY <1>3 DEF Joins, Concats
  <2> QED
    BY <2>2, <2>3
<1>6. CASE k = 0
  BY <1>3, <1>4, <1>5, <1>6
<1>7. CASE k # 0
  <2>1. k \in 1 .. n
    BY <1>3, <1>7
  <2>2. Concats(STRING \ {Nul}, Outs(ps), n, O)
    BY <1>2, <1>3 DEF Joins
  <2>3. Placed(Outs(ps), n, O, k)
    BY <1>3, <2>1, <2>2, ConcatChars
  <2>4. Len(O[k]) <= Len(O[n])
    BY <2>3, Zenon DEF Placed
  <2> QED
    BY <1>3, <1>4, <1>5, <2>4
<1> QED
  BY <1>6, <1>7

\* The pieces stand for a text that leaves room in the buffer.
Within(ps) == \E F, A, O : Laid(ps, Len(ps), F, A, O) /\ Len(O[Len(ps)]) < PRINTBUFLEN

HeldInv == call.fn \in Printing /\ Unambiguous /\ Within(Pieces) => pc # "wild"

\* The same of the text that the model joins.
LEMMA WithinIs ==
  ASSUME Within(Pieces)
  PROVE  Len(Joined(OutOf)) < PRINTBUFLEN
BY TextsAre DEF Within

\* The length of two sequences of different sets.
LEMMA LenConcat ==
  ASSUME NEW R, NEW S, NEW s \in Seq(R), NEW t \in Seq(S)
  PROVE  Len(s \o t) = Len(s) + Len(t) /\ Len(s) + Len(t) \in Nat
OBVIOUS

\* No step leaves the buffer: one case for each action.
LEMMA HeldStep ==
  ASSUME PureInv, PrintInv, HeldInv, [Next]_vars
  PROVE  HeldInv'
<1>1. CASE UNCHANGED vars
  <2>1. call' = call /\ pc' = pc
    BY <1>1 DEF vars
  <2>2. Pieces' = Pieces /\ Unambiguous' = Unambiguous
    BY <2>1 DEF Pieces, Unambiguous
  <2> QED
    BY <2>1, <2>2 DEF HeldInv
<1>2. CASE Next
  <2>1. call' = call
    BY <1>2 DEF Next, Memcpy, Memmove, Memset, Strstr, Itoa, Utoa, Ultoa, Pure,
                Enter, Plain, Percent, String, Number, Unknown, Emit
  <2>2. SUFFICES ASSUME call.fn \in Printing, Unambiguous, Within(Pieces)
                 PROVE  pc' # "wild"
    <3>1. Pieces' = Pieces /\ Unambiguous' = Unambiguous
      BY <2>1 DEF Pieces, Unambiguous
    <3> QED
      BY <2>1, <3>1 DEF HeldInv
  <2>3. (pc = "loop" => LoopAt(Pieces, fmt, arg, buffer)) /\ pc # "wild"
    BY <2>2 DEF PrintInv, HeldInv
  <2>4. CASE Memcpy \/ Memmove \/ Memset \/ Strstr \/ Itoa \/ Utoa \/ Ultoa
    BY <2>4 DEF Memcpy, Memmove, Memset, Strstr, Itoa, Utoa, Ultoa, Pure
  <2>5. CASE Enter
    BY <2>5 DEF Enter
  <2>6. ASSUME NEW S, NEW s \in Seq(S), pc = "loop", Put(s), LoopAt(Pieces, fmt', arg', buffer \o s)
        PROVE  pc' # "wild"
    <3>1. buffer \in Seq(STRING \ {Nul})
      BY <2>3, <2>6, LoopShort
    <3>2. Len(Joined(OutOf)) \in Nat /\ Len(buffer \o s) <= Len(Joined(OutOf))
      BY <2>6, LoopShort
    <3>3. Len(Joined(OutOf)) < PRINTBUFLEN
      BY <2>2, WithinIs
    <3>4. Len(buffer \o s) = Len(buffer) + Len(s) /\ Len(buffer) + Len(s) \in Nat
      BY <2>6, <3>1, LenConcat
    <3>5. PRINTBUFLEN \in Nat
      BY PrintsAssumption
    <3>6. ~ (Len(buffer) + Len(s) > PRINTBUFLEN)
      <4>1. PICK x \in Nat, y \in Nat : x = Len(buffer) + Len(s) /\ y = Len(Joined(OutOf))
        BY <3>2, <3>4
      <4>2. x <= y /\ y < PRINTBUFLEN
        BY <3>2, <3>3, <3>4, <4>1, Zenon
      <4>3. ~ (x > PRINTBUFLEN)
        BY <3>5, <4>2
      <4> QED
        BY <4>1, <4>3, Zenon
    <3> QED
      BY <2>6, <3>6, Zenon DEF Put
  <2>7. CASE Plain
    <3>1. /\ pc = "loop" /\ At(fmt) \notin {Nul, "%"} /\ Put(<<At(fmt)>>) /\ fmt' = fmt + 1 /\ arg' = arg
      BY <2>7 DEF Plain
    <3>2. LoopAt(Pieces, fmt + 1, arg, buffer \o <<At(fmt)>>)
      BY <2>2, <2>3, <3>1, LoopSteps
    <3>3. <<At(fmt)>> \in Seq({At(fmt)})
      OBVIOUS
    <3> QED
      BY <2>6, <3>1, <3>2, <3>3, Zenon
  <2>8. CASE Percent
    <3>1. /\ pc = "loop" /\ At(fmt) = "%" /\ At(fmt + 1) \in {" ", "%"} /\ Put(<<"%">>)
          /\ fmt' = fmt + 2 /\ arg' = arg
      BY <2>8 DEF Percent
    <3>2. LoopAt(Pieces, fmt + 2, arg, buffer \o <<"%">>)
      BY <2>2, <2>3, <3>1, LoopSteps
    <3>3. <<"%">> \in Seq({"%"})
      OBVIOUS
    <3> QED
      BY <2>6, <3>1, <3>2, <3>3, Zenon
  <2>9. CASE String
    <3>1. /\ pc = "loop" /\ At(fmt) = "%" /\ At(fmt + 1) = "s" /\ Put(Args[arg])
          /\ fmt' = fmt + 2 /\ arg' = arg + 1
      BY <2>9 DEF String
    <3>2. LoopAt(Pieces, fmt + 2, arg + 1, buffer \o Args[arg]) /\ IsText(Args[arg])
      BY <2>2, <2>3, <3>1, LoopSteps
    <3> QED
      BY <2>6, <3>1, <3>2, Zenon DEF IsText
  <2>10. CASE Number
    <3>1. PICK v, run, wraps :
            /\ pc = "loop" /\ At(fmt) = "%" /\ At(fmt + 1) \in Flags \cup {"p"}
            /\ v = Args[arg] /\ run = FlagsAt(fmt + 1) /\ wraps \in Overflows(v)
            /\ Put(NumberText(v, run, wraps)) /\ fmt' = fmt + 1 + Len(run) /\ arg' = arg + 1
      BY <2>10, Zenon DEF Number
    <3>2. /\ LoopAt(Pieces, fmt + 1 + Len(run), arg + 1, buffer \o NumberText(v, run, wraps))
          /\ IsText(NumberText(v, run, wraps))
      BY <2>2, <2>3, <3>1, NumberTurn
    <3> QED
      BY <2>6, <3>1, <3>2, Zenon DEF IsText
  <2>11. CASE Unknown
    BY <2>3, <2>11 DEF Unknown
  <2>12. CASE Emit
    <3>1. pc = "loop" /\ (pc' = "wild" => Len(buffer) = PRINTBUFLEN)
      BY <2>12 DEF Emit
    <3>2. PICK x \in Nat, y \in Nat : x = Len(buffer) /\ y = Len(Joined(OutOf)) /\ x <= y
      BY <2>3, <3>1, LoopShort
    <3>3. y < PRINTBUFLEN
      BY <2>2, <3>2, WithinIs
    <3>4. PRINTBUFLEN \in Nat
      BY PrintsAssumption
    <3>5. x # PRINTBUFLEN
      BY <3>2, <3>3, <3>4
    <3> QED
      BY <3>1, <3>2, <3>5
  <2> QED
    BY <1>2, <2>4, <2>5, <2>7, <2>8, <2>9, <2>10, <2>11, <2>12 DEF Next
<1> QED
  BY <1>1, <1>2

-----------------------------------------------------------------------------
(* Every behaviour.                                                         *)

\* The inductive invariant: what finished calls returned, where the loop of
\* _vprintf is in its format, and that a text with room stays in the buffer.
PrintfInv == PureInv /\ PrintInv /\ HeldInv

\* The invariant holds in every behaviour.
LEMMA PrintfInductive == Spec => []PrintfInv
<1>1. Init => PrintfInv
  BY PureInit, PrintInit DEF PrintfInv, HeldInv, Init
<1>2. PrintfInv /\ [Next]_vars => PrintfInv'
  BY PureStep, PrintStep, HeldStep DEF PrintfInv
<1> QED
  BY <1>1, <1>2, PTL DEF Spec

\* For every memory, all addresses and lengths: memmove of main.c moves the bytes
\* that were there before, whichever way the regions overlap, memcpy does when
\* they are apart, and neither touches another byte.
THEOREM MovesBytesHolds == Spec => []MovesBytes
<1>1. PrintfInv => MovesBytes
  BY PureMoves DEF PrintfInv
<1> QED
  BY <1>1, PrintfInductive, PTL

\* For every pair of texts: strstr of main.c finds the first occurrence, and only
\* then returns one.
THEOREM FindsFirstHolds == Spec => []FindsFirst
<1>1. PrintfInv => FindsFirst
  BY PureFinds DEF PrintfInv
<1> QED
  BY <1>1, PrintfInductive, PTL

\* For all 2^64 values, all bases of the tables and all buffers with room: itoa,
\* utoa and ultoa write the numeral of the value and terminate it, but for the
\* exceptions that WritesNumeral names.
THEOREM WritesNumeralHolds == Spec => []WritesNumeral
<1>1. PrintfInv => WritesNumeral
  BY PureWrites DEF PrintfInv
<1> QED
  BY <1>1, PrintfInductive, PTL

\* For every format and all arguments: _vprintf prints what each piece stands for,
\* in order, each with its own argument, and println adds a line break.
THEOREM PrintsPiecesHolds == Spec => []PrintsPieces
<1>1. PrintfInv => PrintsPieces
  <2>1. ASSUME Printed PROVE buffer = Joined(OutOf)
    BY <2>1, TextsAre DEF Printed, IsOut
  <2> QED
    BY <2>1 DEF PrintfInv, PrintInv, PrintsPieces, Done, Printed
<1> QED
  BY <1>1, PrintfInductive, PTL

\* The safety half of Contained: a text with room never leaves the buffer.
Held == (call.fn \in Printing /\ Unambiguous /\ Len(Joined(OutOf)) < PRINTBUFLEN) => pc # "wild"

\* For every size of the buffer: _vprintf, whose loop knows no bound, stays in it
\* when the text is shorter.
THEOREM HeldHolds == Spec => []Held
<1>1. PrintfInv => Held
  <2>1. SUFFICES ASSUME PureInv, HeldInv, call.fn \in Printing, Unambiguous, Len(Joined(OutOf)) < PRINTBUFLEN
                 PROVE  pc # "wild"
    BY DEF Held, PrintfInv
  <2>2. GoodPieces(Pieces)
    BY <2>1, CallPieces
  <2>3. PICK F, A, O : Joins(Pieces, F, A, O)
    BY <2>2, HasJoins
  <2>4. Laid(Pieces, Len(Pieces), F, A, O)
    BY <2>2, <2>3 DEF Laid, GoodPieces, IsFormat
  <2>5. Within(Pieces)
    BY <2>1, <2>4, TextsAre DEF Within
  <2> QED
    BY <2>1, <2>5 DEF HeldInv
<1> QED
  BY <1>1, PrintfInductive, PTL

=============================================================================
