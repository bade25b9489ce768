--------------------------- MODULE EscapeSqlProofs ---------------------------
(***************************************************************************)
(* Theorems about escapeSqlString, for any value and any buffer.  TypeOK,  *)
(* TerminatorFits and ReadsBack are inductive together: a step appends to  *)
(* the output behind the bytes that earlier steps have written.  What is   *)
(* stored of a value is compared with its literal, which FlattenSeq makes  *)
(* by recursion: the literals of its beginnings are related by induction,  *)
(* and WholeInv follows them byte by byte.                                 *)
(***************************************************************************)
EXTENDS EscapeSql, WellFoundedInduction, TLAPS

\* Nothing is written before the first byte is read.
FirstEmpty == i = 0 => j = 0

Inv == TypeOK /\ TerminatorFits /\ ReadsBack /\ FirstEmpty

\* What appending two bytes does to a sequence of bytes.
LEMMA AppendTwo ==
  ASSUME NEW s \in Seq(Bytes), NEW a \in Bytes, NEW b \in Bytes
  PROVE  /\ s \o <<a, b>> \in Seq(Bytes)
         /\ Len(s \o <<a, b>>) = Len(s) + 2
         /\ \A k \in 1 .. Len(s) : (s \o <<a, b>>)[k] = s[k]
         /\ (s \o <<a, b>>)[Len(s) + 1] = a
         /\ (s \o <<a, b>>)[Len(s) + 2] = b
<1>1. <<a, b>> \in Seq(Bytes) /\ Len(<<a, b>>) = 2
  OBVIOUS
<1> QED
  BY <1>1

\* What reading a byte leaves in place, and the type of what it reads.
LEMMA ReadFacts ==
  ASSUME Inv, Read
  PROVE  /\ i \in Nat /\ i + 1 \in 1 .. Len(input) /\ i' = i + 1
         /\ input' = input /\ max_size' = max_size /\ returned' = returned
         /\ input \in Seq(Bytes) /\ input[i + 1] \in Bytes
         /\ max_size \in Nat /\ j \in Nat /\ j < max_size - 1
         /\ start' \in Seq(Nat) /\ Len(start') = i + 1
         /\ start'[i + 1] = j
         /\ \A k \in 1 .. i : start'[k] = start[k]
<1>1. i \in Nat /\ i < Len(input) /\ input \in Seq(Bytes) /\ max_size \in Nat /\ j \in Nat
  BY EscapeAssumption DEF Inv, TypeOK, Read, More, j
<1>2. start \in Seq(Nat) /\ Len(start) = i /\ start' = Append(start, j)
  BY DEF Inv, TypeOK, Read
<1>3. start' \in Seq(Nat) /\ Len(start') = i + 1 /\ start'[i + 1] = j
        /\ \A k \in 1 .. i : start'[k] = start[k]
  BY <1>1, <1>2
<1>4. i' = i + 1 /\ input' = input /\ max_size' = max_size /\ returned' = returned
        /\ j < max_size - 1
  BY DEF Read, NextByte, More
<1>5. i + 1 \in 1 .. Len(input) /\ input[i + 1] \in Bytes
  BY <1>1
<1> QED
  BY <1>1, <1>3, <1>4, <1>5

\* The bytes read before stay where they are, when the output only grows.
LEMMA EarlierBytesKept ==
  ASSUME Inv, Read, output' \in Seq(Bytes), Len(output') >= Len(output),
         \A k \in 1 .. Len(output) : output'[k] = output[k],
         NEW k \in 1 .. i
  PROVE  (Written(k) \/ Dropped(k))'
<1>1. Written(k) \/ Dropped(k)
  BY DEF Inv, ReadsBack
<1>2. /\ i \in Nat /\ i' = i + 1 /\ input' = input /\ max_size' = max_size
      /\ j \in Nat /\ start'[i + 1] = j /\ \A m \in 1 .. i : start'[m] = start[m]
  BY ReadFacts
<1>3. start[k] \in Nat /\ start'[k] = start[k] /\ input'[k] = input[k]
  BY <1>2 DEF Inv, TypeOK
<1>4. EndOf(k)' = EndOf(k)
  <2>1. CASE k = i
    BY <2>1, <1>2 DEF EndOf
  <2>2. CASE k # i
    <3>1. k + 1 \in 1 .. i
      BY <2>2, <1>2
    <3> QED
      BY <3>1, <2>2, <1>2 DEF EndOf
  <2> QED
    BY <2>1, <2>2
<1>5. j' >= j /\ j' \in Nat /\ Len(output) = j
  BY DEF j, Inv, TypeOK
<1>6. CASE Written(k)
  <2>1. EndOf(k) = start[k] + Width(input[k]) /\ EndOf(k) <= j
    BY <1>6 DEF Written
  <2>2. output'[start[k] + 1] = input[k]
    BY <2>1, <1>3, <1>5, <1>6 DEF Written, Width
  <2>3. input[k] = Quote => output'[start[k] + 2] = Quote
    BY <2>1, <1>3, <1>5, <1>6 DEF Written, Width
  <2>4. EndOf(k) <= j'
    BY <2>1, <1>3, <1>5 DEF Width
  <2> QED
    BY <2>1, <2>2, <2>3, <2>4, <1>3, <1>4 DEF Written, Width
<1>7. CASE Dropped(k)
  BY <1>7, <1>2, <1>3, <1>4 DEF Dropped
<1> QED
  BY <1>1, <1>6, <1>7

\* A step that reads byte n and writes what stands for it keeps the invariant.
LEMMA ReadKeepsInv ==
  ASSUME Inv, Read, output' \in Seq(Bytes), Len(output') >= Len(output),
         \A k \in 1 .. Len(output) : output'[k] = output[k],
         j' <= max_size - 1,
         NEW n, n = i + 1, (Written(n) \/ Dropped(n))'
  PROVE  Inv'
<1>1. /\ i \in Nat /\ n \in 1 .. Len(input) /\ i' = n
      /\ input' = input /\ max_size' = max_size /\ returned' = returned
      /\ start' \in Seq(Nat) /\ Len(start') = n /\ start'[n] = j
      /\ \A k \in 1 .. i : start'[k] = start[k]
  BY ReadFacts
<1>2. TypeOK'
  BY <1>1 DEF Inv, TypeOK
<1>3. TerminatorFits'
  BY <1>1 DEF TerminatorFits
<1>4. \A k \in 1 .. n : (Written(k) \/ Dropped(k))'
  <2> TAKE k \in 1 .. n
  <2>1. CASE k = n
    BY <2>1
  <2>2. CASE k # n
    <3>1. k \in 1 .. i
      BY <2>2, <1>1
    <3> QED
      BY <3>1, EarlierBytesKept
  <2> QED
    BY <2>1, <2>2
<1>5. start'[1] = 0
  <2>1. CASE i = 0
    <3>1. j = 0
      BY <2>1 DEF Inv, FirstEmpty
    <3> QED
      BY <2>1, <3>1, <1>1
  <2>2. CASE i # 0
    BY <2>2, <1>1 DEF Inv, ReadsBack
  <2> QED
    BY <2>1, <2>2
<1>6. FirstEmpty'
  BY <1>1 DEF FirstEmpty
<1> QED
  BY <1>1, <1>2, <1>3, <1>4, <1>5, <1>6 DEF Inv, ReadsBack

LEMMA InitEstablishesInv == Init => Inv
<1> SUFFICES ASSUME Init PROVE Inv
  OBVIOUS
<1>1. <<>> \in Seq(Bytes) /\ <<>> \in Seq(Nat) /\ Len(<<>>) = 0
  OBVIOUS
<1>2. input \in Seq(Bytes) /\ max_size \in Nat \ {0} /\ 0 \in 0 .. Len(input)
  BY EscapeAssumption DEF Init
<1>3. TypeOK
  BY <1>1, <1>2 DEF Init, TypeOK
<1>4. j = 0 /\ i = 0
  BY <1>1 DEF Init, j
<1>5. TerminatorFits /\ ReadsBack /\ FirstEmpty
  BY <1>2, <1>4 DEF TerminatorFits, ReadsBack, FirstEmpty
<1> QED
  BY <1>3, <1>5 DEF Inv

LEMMA CopyByteKeepsInv ==
  ASSUME Inv, CopyByte
  PROVE  Inv'
<1>1. /\ i + 1 \in 1 .. Len(input) /\ input' = input /\ input[i + 1] \in Bytes
      /\ j \in Nat /\ j < max_size - 1 /\ max_size \in Nat /\ i' = i + 1
      /\ start'[i + 1] = j
  BY ReadFacts DEF CopyByte
<1>2. output \in Seq(Bytes) /\ Len(output) = j /\ output' = Append(output, input[i + 1])
  BY DEF Inv, TypeOK, j, CopyByte
<1>3. /\ output' \in Seq(Bytes) /\ Len(output') = j + 1 /\ output'[j + 1] = input[i + 1]
      /\ \A k \in 1 .. j : output'[k] = output[k]
  BY <1>1, <1>2
<1>4. j' = j + 1
  BY <1>3 DEF j
<1>5. input[i + 1] # Quote
  BY DEF CopyByte
<1>6. PICK n : n = i + 1
  OBVIOUS
<1>7. Written(n)'
  BY <1>1, <1>3, <1>4, <1>5, <1>6 DEF Written, EndOf, Width
<1>8. j' <= max_size - 1 /\ Len(output') >= Len(output)
  BY <1>1, <1>2, <1>3, <1>4
<1> QED
  BY <1>2, <1>3, <1>6, <1>7, <1>8, ReadKeepsInv DEF CopyByte

LEMMA DoubleQuoteKeepsInv ==
  ASSUME Inv, DoubleQuote
  PROVE  Inv'
<1>1. /\ i + 1 \in 1 .. Len(input) /\ input' = input
      /\ j \in Nat /\ max_size \in Nat /\ i' = i + 1 /\ start'[i + 1] = j
  BY ReadFacts DEF DoubleQuote
<1>2. /\ output \in Seq(Bytes) /\ Len(output) = j /\ output' = output \o <<Quote, Quote>>
      /\ input[i + 1] = Quote /\ j < max_size - 2
  BY DEF Inv, TypeOK, j, DoubleQuote, QuoteDoubled, RoomForTwo
<1>3. /\ output' \in Seq(Bytes) /\ Len(output') = j + 2
      /\ output'[j + 1] = Quote /\ output'[j + 2] = Quote
      /\ \A k \in 1 .. j : output'[k] = output[k]
  BY <1>2, AppendTwo, EscapeAssumption
<1>4. j' = j + 2
  BY <1>3 DEF j
<1>5. PICK n : n = i + 1
  OBVIOUS
<1>6. Written(n)'
  <2>1. EndOf(n)' = j + 2 /\ start'[n] = j /\ input'[n] = Quote
    BY <1>1, <1>2, <1>4, <1>5 DEF EndOf
  <2> QED
    BY <2>1, <1>1, <1>3, <1>4 DEF Written, Width
<1>7. j' <= max_size - 1 /\ Len(output') >= Len(output)
  BY <1>1, <1>2, <1>3, <1>4
<1> QED
  BY <1>2, <1>3, <1>5, <1>6, <1>7, ReadKeepsInv DEF DoubleQuote

LEMMA DropQuoteKeepsInv ==
  ASSUME Inv, DropQuote
  PROVE  Inv'
<1>1. /\ i + 1 \in 1 .. Len(input) /\ input' = input /\ max_size' = max_size
      /\ j \in Nat /\ j < max_size - 1 /\ max_size \in Nat /\ i' = i + 1
      /\ start'[i + 1] = j
  BY ReadFacts DEF DropQuote
<1>2. /\ output \in Seq(Bytes) /\ output' = output /\ j' = j
      /\ input[i + 1] = Quote /\ ~ (j < max_size - 2)
  BY DEF Inv, TypeOK, j, DropQuote, RoomForTwo
<1>3. Len(output') >= Len(output)
  BY <1>2
<1>4. PICK n : n = i + 1
  OBVIOUS
<1>5. start'[n] = max_size - 2
  BY <1>1, <1>2, <1>4
<1>6. Dropped(n)'
  BY <1>1, <1>2, <1>4, <1>5 DEF Dropped, EndOf
<1> QED
  BY <1>1, <1>2, <1>3, <1>4, <1>6, ReadKeepsInv DEF DropQuote

LEMMA NextInv == Inv /\ [Next]_vars => Inv'
<1> SUFFICES ASSUME Inv, [Next]_vars PROVE Inv'
  OBVIOUS
<1>1. CASE CopyByte
  BY <1>1, CopyByteKeepsInv
<1>2. CASE DoubleQuote
  BY <1>2, DoubleQuoteKeepsInv
<1>3. CASE DropQuote
  BY <1>3, DropQuoteKeepsInv
<1>4. CASE Return \/ UNCHANGED vars
  <2>1. /\ UNCHANGED <<input, max_size, i, output, start>>
        /\ returned' \in BOOLEAN
    BY <1>4 DEF Return, vars, Inv, TypeOK
  <2>2. \A k : EndOf(k)' = EndOf(k) /\ j' = j
    BY <2>1 DEF EndOf, j
  <2>3. \A k \in 1 .. i : (Written(k) \/ Dropped(k))'
    BY <2>1, <2>2 DEF Inv, ReadsBack, Written, Dropped
  <2> QED
    BY <2>1, <2>2, <2>3 DEF Inv, TypeOK, TerminatorFits, ReadsBack, FirstEmpty
<1> QED
  BY <1>1, <1>2, <1>3, <1>4 DEF Next

----------------------------------------------------------------------------
(* The literal of a value, by induction over its bytes                     *)

Piece(b) == IF b = Quote THEN <<Quote, Quote>> ELSE <<b>>

\* The literals of the first n bytes of a value, for every n.
EscapedParts(value) ==
  LET f[n \in 0 .. Len(value)] == IF n = 0 THEN <<>> ELSE f[n - 1] \o Piece(value[n])
  IN  f

\* While every quote has found its place the output is the literal so far.  From
\* the first that has not, the literal does not fit any more.
Cut ==
  /\ Len(EscapedParts(input)[i]) > max_size - 1
  /\ j >= max_size - 2
  /\ \A k \in 1 .. max_size - 2 : output[k] = EscapedParts(input)[i][k]

WholeInv ==
  /\ output = EscapedParts(input)[i] \/ Cut
  /\ returned => ~ More

\* Induction over the natural numbers, for a set.
LEMMA InductionInNat ==
  ASSUME NEW S, 0 \in S, \A n \in Nat : n \in S => n + 1 \in S
  PROVE  Nat \subseteq S
<1> DEFINE T == Nat \ S
           R == OpToRel(<, Nat)
<1>1. SUFFICES ASSUME T # {} PROVE FALSE
  OBVIOUS
<1>2. IsWellFoundedOn(R, Nat)
  BY NatLessThanWellFounded
<1>3. \A a, b \in Nat : a < b => <<a, b>> \in R
  BY DEF OpToRel
<1> HIDE DEF R
<1>4. PICK x \in T : \A y \in T : ~ (<<y, x>> \in R)
  <2>1. T \subseteq Nat
    OBVIOUS
  <2> HIDE DEF T
  <2> QED
    BY <1>1, <1>2, <2>1, WFMin
<1>5. x \in Nat /\ x # 0 /\ x - 1 \in Nat /\ x - 1 < x
  OBVIOUS
<1>6. x - 1 \in S
  BY <1>3, <1>4, <1>5
<1>7. (x - 1) + 1 \in S
  BY <1>5, <1>6
<1> QED
  BY <1>4, <1>5, <1>7

\* A literal is that of the bytes before and the piece of the last.
LEMMA PartsEquation ==
  ASSUME NEW value \in Seq(Bytes)
  PROVE  /\ EscapedParts(value)[0] = <<>>
         /\ \A n \in 1 .. Len(value) :
              EscapedParts(value)[n] = EscapedParts(value)[n - 1] \o Piece(value[n])
<1> DEFINE Eq(f, m) == f = [n \in 0 .. m |-> IF n = 0 THEN <<>>
                                             ELSE f[n - 1] \o Piece(value[n])]
           S == {m \in Nat : \E f : Eq(f, m)}
<1>1. 0 \in S
  <2> DEFINE f == [n \in 0 .. 0 |-> <<>>]
  <2>1. Eq(f, 0)
    OBVIOUS
  <2> QED
    BY <2>1
<1>2. ASSUME NEW m \in Nat, m \in S
      PROVE  m + 1 \in S
  <2>1. PICK f : Eq(f, m)
    BY <1>2
  <2> DEFINE g == [n \in 0 .. m + 1 |->
                     IF n = m + 1 THEN f[m] \o Piece(value[m + 1]) ELSE f[n]]
  <2>2. \A n \in 0 .. m : g[n] = f[n]
    OBVIOUS
  <2>3. g[m + 1] = g[m] \o Piece(value[m + 1])
    BY <2>2
  <2>4. ASSUME NEW n \in 0 .. m + 1
        PROVE  g[n] = IF n = 0 THEN <<>> ELSE g[n - 1] \o Piece(value[n])
    <3>1. CASE n = m + 1
      <4>1. n # 0 /\ n - 1 = m
        BY <3>1
      <4> HIDE DEF g
      <4> QED
        BY <2>3, <3>1, <4>1
    <3>2. CASE n \in 0 .. m
      <4>1. f[n] = IF n = 0 THEN <<>> ELSE f[n - 1] \o Piece(value[n])
        BY <2>1, <3>2
      <4>2. n # 0 => n - 1 \in 0 .. m
        BY <3>2
      <4> HIDE DEF g
      <4> QED
        BY <2>2, <3>2, <4>1, <4>2
    <3> QED
      BY <3>1, <3>2
  <2>5. g = [n \in 0 .. m + 1 |-> g[n]]
    OBVIOUS
  <2>6. Eq(g, m + 1)
    <3> HIDE DEF g
    <3> QED
      BY <2>4, <2>5
  <2> HIDE DEF Eq, g
  <2> QED
    BY <2>6
<1>3. Len(value) \in S
  <2>1. Len(value) \in Nat
    OBVIOUS
  <2> HIDE DEF S
  <2> QED
    BY <1>1, <1>2, <2>1, InductionInNat
<1>4. Eq(EscapedParts(value), Len(value))
  BY <1>3 DEF EscapedParts
<1> HIDE DEF S
<1> DEFINE p == EscapedParts(value)
<1>5. Eq(p, Len(value))
  BY <1>4
<1>6. Len(value) \in Nat
  OBVIOUS
<1> HIDE DEF p
<1>7. p[0] = <<>> /\ \A n \in 1 .. Len(value) : p[n] = p[n - 1] \o Piece(value[n])
  BY <1>5, <1>6
<1> QED
  BY <1>7 DEF p

\* A piece is of one byte or two.
LEMMA PieceFacts ==
  ASSUME NEW b \in Bytes
  PROVE  Piece(b) \in Seq(Bytes) /\ Len(Piece(b)) \in 1 .. 2
<1>1. CASE b = Quote
  BY <1>1 DEF Piece
<1>2. CASE b # Quote
  BY <1>2 DEF Piece
<1> QED
  BY <1>1, <1>2

\* What appending a piece does to a literal.
LEMMA AppendPiece ==
  ASSUME NEW s \in Seq(Bytes), NEW t \in Seq(Bytes)
  PROVE  /\ s \o t \in Seq(Bytes)
         /\ Len(s \o t) = Len(s) + Len(t)
         /\ \A k \in 1 .. Len(s) : (s \o t)[k] = s[k]
  OBVIOUS

LEMMA PartsTyped ==
  ASSUME NEW value \in Seq(Bytes)
  PROVE  \A n \in 0 .. Len(value) : EscapedParts(value)[n] \in Seq(Bytes)
<1> DEFINE p == EscapedParts(value)
           S == {n \in Nat : n <= Len(value) => p[n] \in Seq(Bytes)}
<1>0. Len(value) \in Nat
  OBVIOUS
<1>1. p[0] = <<>> /\ \A n \in 1 .. Len(value) : p[n] = p[n - 1] \o Piece(value[n])
  BY PartsEquation
<1>2. <<>> \in Seq(Bytes)
  OBVIOUS
<1> HIDE DEF p
<1>3. 0 \in S
  BY <1>1, <1>2
<1>4. ASSUME NEW n \in Nat, n \in S
      PROVE  n + 1 \in S
  <2>1. CASE n + 1 <= Len(value)
    <3>1. p[n + 1] = p[n] \o Piece(value[n + 1]) /\ p[n] \in Seq(Bytes)
      <4>1. n + 1 \in 1 .. Len(value) /\ (n + 1) - 1 = n /\ n <= Len(value)
        BY <2>1, <1>0
      <4> QED
        BY <4>1, <1>1, <1>4
    <3>2. value[n + 1] \in Bytes
      BY <2>1
    <3>3. p[n + 1] \in Seq(Bytes)
      BY <3>1, <3>2, PieceFacts, AppendPiece
    <3> QED
      BY <3>3
  <2> QED
    BY <2>1
<1>5. Nat \subseteq S
  <2> HIDE DEF S
  <2> QED
    BY <1>3, <1>4, InductionInNat
<1> QED
  BY <1>0, <1>5 DEF p

\* The literal of fewer bytes is a shorter beginning.
LEMMA PartsGrow ==
  ASSUME NEW value \in Seq(Bytes), NEW m \in 0 .. Len(value), NEW n \in m .. Len(value)
  PROVE  /\ Len(EscapedParts(value)[m]) <= Len(EscapedParts(value)[n])
         /\ m < n => Len(EscapedParts(value)[m]) < Len(EscapedParts(value)[n])
         /\ \A k \in 1 .. Len(EscapedParts(value)[m]) :
              EscapedParts(value)[n][k] = EscapedParts(value)[m][k]
<1> DEFINE p == EscapedParts(value)
           Grown(a) == /\ Len(p[m]) <= Len(p[a])
                       /\ m < a => Len(p[m]) < Len(p[a])
                       /\ \A k \in 1 .. Len(p[m]) : p[a][k] = p[m][k]
           S == {a \in Nat : a \in m .. Len(value) => Grown(a)}
<1>0. Len(value) \in Nat /\ m \in Nat /\ n \in Nat
  OBVIOUS
<1>1. \A a \in 1 .. Len(value) : p[a] = p[a - 1] \o Piece(value[a])
  BY PartsEquation
<1>2. \A a \in 0 .. Len(value) : p[a] \in Seq(Bytes)
  BY PartsTyped
<1> HIDE DEF p
<1>3. Len(p[m]) \in Nat
  BY <1>2
<1>4. Grown(m)
  BY <1>0, <1>3
<1>5. 0 \in S
  <2>1. 0 \in m .. Len(value) => m = 0
    BY <1>0
  <2> HIDE DEF Grown
  <2> QED
    BY <1>4, <2>1
<1>6. ASSUME NEW a \in Nat, a \in S
      PROVE  a + 1 \in S
  <2>1. CASE a + 1 \in m .. Len(value) /\ a + 1 # m
    <3>1. a \in m .. Len(value) /\ a + 1 \in 1 .. Len(value) /\ (a + 1) - 1 = a
          /\ a \in 0 .. Len(value)
      BY <2>1, <1>0
    <3>2. Grown(a)
      BY <1>6, <3>1
    <3>3. p[a + 1] = p[a] \o Piece(value[a + 1]) /\ p[a] \in Seq(Bytes)
      BY <1>1, <1>2, <3>1
    <3>4. value[a + 1] \in Bytes
      BY <3>1
    <3>5. PICK t : t = Piece(value[a + 1])
      OBVIOUS
    <3>6. t \in Seq(Bytes) /\ Len(t) \in 1 .. 2
      BY <3>4, <3>5, PieceFacts
    <3>7. /\ Len(p[a + 1]) = Len(p[a]) + Len(t)
          /\ \A k \in 1 .. Len(p[a]) : p[a + 1][k] = p[a][k]
      <4>1. p[a + 1] = p[a] \o t
        BY <3>3, <3>5
      <4>2. PICK u : u = p[a]
        OBVIOUS
      <4>3. u \in Seq(Bytes) /\ p[a + 1] = u \o t
        BY <3>3, <4>1, <4>2
      <4>4. /\ Len(p[a + 1]) = Len(u) + Len(t)
            /\ \A k \in 1 .. Len(u) : p[a + 1][k] = u[k]
        BY <3>6, <4>3, AppendPiece
      <4> QED
        BY <4>2, <4>4
    <3>8. Len(p[a]) \in Nat
      BY <3>3
    <3>9. Len(p[m]) < Len(p[a + 1])
      <4>1. Len(p[m]) <= Len(p[a])
        BY <3>2
      <4>2. Len(t) \in Nat /\ Len(t) >= 1
        BY <3>6
      <4>3. \A x, y, z \in Nat : x <= y /\ z >= 1 => x < y + z
        OBVIOUS
      <4>4. Len(p[a + 1]) = Len(p[a]) + Len(t)
        BY <3>7
      <4> QED
        BY <1>3, <3>8, <4>1, <4>2, <4>3, <4>4
    <3>10. ASSUME NEW k \in 1 .. Len(p[m])
           PROVE  p[a + 1][k] = p[m][k]
      <4>1. k \in 1 .. Len(p[a])
        BY <1>3, <3>2, <3>8
      <4> QED
        BY <4>1, <3>2, <3>7
    <3>11. Grown(a + 1)
      BY <1>3, <3>7, <3>8, <3>6, <3>9, <3>10
    <3> HIDE DEF Grown
    <3> QED
      BY <3>11
  <2>2. CASE ~ (a + 1 \in m .. Len(value) /\ a + 1 # m)
    <3> HIDE DEF Grown
    <3> QED
      BY <2>2, <1>4
  <2> QED
    BY <2>1, <2>2
<1>7. Nat \subseteq S
  <2> HIDE DEF S
  <2> QED
    BY <1>5, <1>6, InductionInNat
<1>8. Grown(n)
  <2> HIDE DEF Grown
  <2> QED
    BY <1>0, <1>7
<1> QED
  BY <1>8 DEF p

\* The literal of the whole value, FlattenSeq's, is the last of them.
LEMMA LastPartIsWhole ==
  ASSUME NEW value \in Seq(Bytes)
  PROVE  Escaped(value) = EscapedParts(value)[Len(value)]
<1> DEFINE p == EscapedParts(value)
           s == [k \in DOMAIN value |-> IF value[k] = Quote THEN <<Quote, Quote>> ELSE <<value[k]>>]
           N == Len(value)
<1>0. N \in Nat /\ DOMAIN value = 1 .. N
  OBVIOUS
<1>1. p[0] = <<>> /\ \A a \in 1 .. N : p[a] = p[a - 1] \o Piece(value[a])
  BY PartsEquation
<1>2. \A a \in 0 .. N : p[a] \in Seq(Bytes)
  BY PartsTyped
<1>3. s \in Seq(Seq(Bytes)) /\ Len(s) = N /\ \A a \in 1 .. N : s[a] = Piece(value[a])
  <2>1. \A a \in 1 .. N : s[a] = Piece(value[a]) /\ s[a] \in Seq(Bytes)
    BY <1>0, PieceFacts DEF Piece
  <2> QED
    BY <1>0, <2>1
<1>4. Escaped(value) = FlattenSeq(s)
  BY DEF Escaped
<1> HIDE DEF s, p
<1>5. CASE N = 0
  <2>1. s = <<>> /\ FlattenSeq(s) = s
    BY <1>3, <1>5 DEF FlattenSeq
  <2> QED
    BY <1>1, <1>4, <1>5, <2>1 DEF p
<1>6. CASE N # 0
  <2> DEFINE Eq(f) == f = [a \in 1 .. N |-> IF a = 1 THEN s[a] ELSE f[a - 1] \o s[a]]
             f == CHOOSE g : Eq(g)
             q == [a \in 1 .. N |-> p[a]]
  <2>1. FlattenSeq(s) = f[N]
    BY <1>3, <1>6 DEF FlattenSeq
  <2>2. ASSUME NEW a \in 1 .. N
        PROVE  q[a] = IF a = 1 THEN s[a] ELSE q[a - 1] \o s[a]
    <3>1. CASE a = 1
      <4>1. p[1] = p[0] \o Piece(value[1]) /\ s[1] = Piece(value[1]) /\ s[1] \in Seq(Bytes)
        <5>1. 1 \in 1 .. N /\ 1 - 1 = 0
          BY <1>0, <3>1
        <5>2. p[1] = p[1 - 1] \o Piece(value[1]) /\ s[1] = Piece(value[1])
          BY <1>1, <1>3, <5>1
        <5>3. s[1] \in Seq(Bytes)
          BY <1>3, <5>1
        <5> QED
          BY <5>1, <5>2, <5>3
      <4>2. p[1] = s[1]
        <5>1. \A t \in Seq(Bytes) : <<>> \o t = t
          OBVIOUS
        <5> QED
          BY <4>1, <5>1, <1>1
      <4> QED
        BY <4>2, <3>1
    <3>2. CASE a # 1
      <4>1. a - 1 \in 1 .. N
        BY <1>0, <3>2
      <4> QED
        BY <4>1, <1>1, <1>3, <3>2
    <3> QED
      BY <3>1, <3>2
  <2>3. q = [a \in 1 .. N |-> q[a]]
    OBVIOUS
  <2>4. Eq(q)
    <3> HIDE DEF q
    <3> QED
      BY <2>2, <2>3
  <2>5. Eq(f)
    <3> HIDE DEF Eq, q
    <3> QED
      BY <2>4
  <2> HIDE DEF f, q
  <2> DEFINE S == {a \in Nat : a \in 1 .. N => f[a] = p[a]}
  <2>6. \A a \in 1 .. N : f[a] = IF a = 1 THEN s[a] ELSE f[a - 1] \o s[a]
    BY <2>5
  <2>7. \A a \in 1 .. N : p[a] = IF a = 1 THEN s[a] ELSE p[a - 1] \o s[a]
    <3>1. ASSUME NEW a \in 1 .. N
          PROVE  p[a] = IF a = 1 THEN s[a] ELSE p[a - 1] \o s[a]
      <4>1. a # 1 => a - 1 \in 1 .. N
        BY <1>0
      <4> QED
        BY <2>2, <4>1 DEF q
    <3> QED
      BY <3>1
  <2>8. 0 \in S
    OBVIOUS
  <2>9. ASSUME NEW a \in Nat, a \in S
        PROVE  a + 1 \in S
    <3>1. ASSUME a + 1 \in 1 .. N
          PROVE  f[a + 1] = p[a + 1]
      <4>1. (a + 1) - 1 = a
        OBVIOUS
      <4>2. CASE a = 0
        BY <2>6, <2>7, <3>1, <4>2
      <4>3. CASE a # 0
        <5>1. f[a] = p[a] /\ a + 1 # 1
          BY <2>9, <3>1, <4>3, <1>0
        <5>2. f[a + 1] = f[a] \o s[a + 1] /\ p[a + 1] = p[a] \o s[a + 1]
          BY <2>6, <2>7, <3>1, <4>1, <5>1
        <5> QED
          BY <5>1, <5>2
      <4> QED
        BY <4>2, <4>3
    <3> QED
      BY <3>1
  <2>10. Nat \subseteq S
    <3> HIDE DEF S
    <3> QED
      BY <2>8, <2>9, InductionInNat
  <2>11. f[N] = p[N]
    BY <1>0, <1>6, <2>10
  <2> QED
    BY <1>4, <2>1, <2>11 DEF p
<1> QED
  BY <1>5, <1>6

\* Reading a byte and writing its piece: the literal so far stays the output.
LEMMA PieceKeepsWhole ==
  ASSUME Inv, Read, output' = output \o Piece(input[i + 1])
  PROVE  output = EscapedParts(input)[i] => (output = EscapedParts(input)[i])'
<1>1. /\ i + 1 \in 1 .. Len(input) /\ i \in Nat /\ i' = i + 1 /\ input' = input
      /\ input \in Seq(Bytes)
  BY ReadFacts
<1>2. EscapedParts(input)[i + 1] = EscapedParts(input)[i] \o Piece(input[i + 1])
  <2>1. (i + 1) - 1 = i
    BY <1>1
  <2> QED
    BY <1>1, <2>1, PartsEquation
<1>3. (EscapedParts(input)[i])' = EscapedParts(input)[i + 1]
  BY <1>1
<1> QED
  BY <1>2, <1>3

\* Once the literal does not fit, what is appended does not matter.
LEMMA CutIsKept ==
  ASSUME Inv, Read, output' \in Seq(Bytes), Len(output') >= Len(output),
         \A k \in 1 .. Len(output) : output'[k] = output[k], Cut
  PROVE  Cut'
<1> DEFINE e == EscapedParts(input)[i]
           f == EscapedParts(input)[i + 1]
<1>1. /\ i + 1 \in 1 .. Len(input) /\ i \in Nat /\ i' = i + 1 /\ input' = input
      /\ input \in Seq(Bytes) /\ max_size' = max_size /\ max_size \in Nat /\ j \in Nat
  BY ReadFacts
<1>2. i \in 0 .. Len(input) /\ i + 1 \in i .. Len(input) /\ i + 1 \in 0 .. Len(input)
  BY <1>1
<1>3. e \in Seq(Bytes) /\ f \in Seq(Bytes)
  BY <1>1, <1>2, PartsTyped
<1>4. Len(e) <= Len(f) /\ \A k \in 1 .. Len(e) : f[k] = e[k]
  BY <1>1, <1>2, PartsGrow
<1>5. (EscapedParts(input)[i])' = f
  BY <1>1
<1>6. /\ Len(e) > max_size - 1 /\ j >= max_size - 2
      /\ \A k \in 1 .. max_size - 2 : output[k] = e[k]
  BY DEF Cut
<1>7. j = Len(output) /\ j' = Len(output')
  BY DEF j
<1> HIDE DEF e, f
<1>8. Len(e) \in Nat /\ Len(f) \in Nat /\ Len(output') \in Nat
  BY <1>3
<1>9. Len(f) > max_size - 1 /\ j' >= max_size - 2
  BY <1>1, <1>4, <1>6, <1>7, <1>8
<1>10. ASSUME NEW k \in 1 .. max_size - 2
       PROVE  output'[k] = f[k]
  <2>1. k \in 1 .. Len(output) /\ k \in 1 .. Len(e)
    BY <1>1, <1>6, <1>7, <1>8
  <2> QED
    BY <2>1, <1>4, <1>6
<1> QED
  BY <1>1, <1>5, <1>9, <1>10 DEF Cut

\* The first quote that is dropped makes the literal too long.
LEMMA DropCuts ==
  ASSUME Inv, DropQuote, output = EscapedParts(input)[i]
  PROVE  Cut'
<1> DEFINE e == EscapedParts(input)[i]
           f == EscapedParts(input)[i + 1]
<1>1. /\ i + 1 \in 1 .. Len(input) /\ i \in Nat /\ i' = i + 1 /\ input' = input
      /\ input \in Seq(Bytes) /\ max_size' = max_size /\ max_size \in Nat /\ j \in Nat
      /\ j < max_size - 1
  BY ReadFacts DEF DropQuote
<1>2. /\ output \in Seq(Bytes) /\ output' = output /\ j = Len(output) /\ j' = j
      /\ input[i + 1] = Quote /\ ~ (j < max_size - 2)
  BY DEF Inv, TypeOK, j, DropQuote, RoomForTwo
<1>3. f = e \o <<Quote, Quote>>
  <2>1. (i + 1) - 1 = i
    BY <1>1
  <2> QED
    BY <1>1, <1>2, <2>1, PartsEquation DEF Piece
<1>4. (EscapedParts(input)[i])' = f
  BY <1>1
<1>5. e = output
  OBVIOUS
<1> HIDE DEF e, f
<1>6. Len(f) = Len(output) + 2 /\ \A k \in 1 .. Len(output) : f[k] = output[k]
  BY <1>2, <1>3, <1>5, AppendTwo, EscapeAssumption
<1>7. Len(f) > max_size - 1 /\ j' >= max_size - 2
  BY <1>1, <1>2, <1>6
<1>8. ASSUME NEW k \in 1 .. max_size - 2
      PROVE  output'[k] = f[k]
  <2>1. k \in 1 .. Len(output)
    BY <1>1, <1>2
  <2> QED
    BY <2>1, <1>2, <1>6
<1> QED
  BY <1>1, <1>4, <1>7, <1>8 DEF Cut

LEMMA InitEstablishesWhole == Init => WholeInv
<1> SUFFICES ASSUME Init PROVE WholeInv
  OBVIOUS
<1>1. input \in Seq(Bytes) /\ i = 0 /\ output = <<>> /\ returned = FALSE
  BY EscapeAssumption DEF Init
<1>2. EscapedParts(input)[0] = <<>>
  BY <1>1, PartsEquation
<1> QED
  BY <1>1, <1>2 DEF WholeInv

LEMMA NextWhole == Inv /\ WholeInv /\ [Next]_vars => WholeInv'
<1> SUFFICES ASSUME Inv, WholeInv, [Next]_vars PROVE WholeInv'
  OBVIOUS
<1>1. ASSUME Read, output' = output \o Piece(input[i + 1])
      PROVE  WholeInv'
  <2>1. input[i + 1] \in Bytes /\ output \in Seq(Bytes) /\ returned' = returned
    BY <1>1, ReadFacts DEF Inv, TypeOK
  <2>2. PICK t : t = Piece(input[i + 1])
    OBVIOUS
  <2>3. t \in Seq(Bytes) /\ output' = output \o t /\ Len(t) \in Nat
    BY <1>1, <2>1, <2>2, PieceFacts
  <2>4. /\ output' \in Seq(Bytes) /\ Len(output') = Len(output) + Len(t)
        /\ \A k \in 1 .. Len(output) : output'[k] = output[k]
    BY <2>1, <2>3, AppendPiece
  <2>5. Len(output') >= Len(output)
    BY <2>1, <2>3, <2>4
  <2>6. returned' = FALSE
    BY <1>1, <2>1 DEF Read, Inv, TypeOK
  <2>7. CASE output = EscapedParts(input)[i]
    BY <1>1, <2>6, <2>7, PieceKeepsWhole DEF WholeInv
  <2>8. CASE Cut
    BY <1>1, <2>4, <2>5, <2>6, <2>8, CutIsKept DEF WholeInv
  <2> QED
    BY <2>7, <2>8 DEF WholeInv
<1>2. CASE CopyByte
  <2>1. output' = output \o Piece(input[i + 1])
    <3>1. output \in Seq(Bytes) /\ input[i + 1] \in Bytes
      BY <1>2, ReadFacts DEF CopyByte, Inv, TypeOK
    <3>2. Append(output, input[i + 1]) = output \o <<input[i + 1]>>
      BY <3>1
    <3> QED
      BY <1>2, <3>2 DEF CopyByte, Piece
  <2> QED
    BY <1>1, <1>2, <2>1 DEF CopyByte
<1>3. CASE DoubleQuote
  BY <1>1, <1>3 DEF DoubleQuote, QuoteDoubled, Piece
<1>4. CASE DropQuote
  <2>1. output' = output /\ Read /\ output \in Seq(Bytes)
    BY <1>4 DEF DropQuote, Inv, TypeOK
  <2>2. returned' = FALSE
    BY <2>1, ReadFacts DEF Read, Inv, TypeOK
  <2>3. Len(output') >= Len(output)
    BY <2>1
  <2>4. CASE output = EscapedParts(input)[i]
    BY <1>4, <2>2, <2>4, DropCuts DEF WholeInv
  <2>5. CASE Cut
    BY <2>1, <2>2, <2>3, <2>5, CutIsKept DEF WholeInv
  <2> QED
    BY <2>4, <2>5 DEF WholeInv
<1>5. CASE Return \/ UNCHANGED vars
  <2>1. UNCHANGED <<input, max_size, i, output>> /\ (returned' => returned \/ ~ More)
    BY <1>5 DEF Return, vars
  <2>2. Cut' = Cut /\ More' = More
    BY <2>1 DEF Cut, More, j
  <2> QED
    BY <2>1, <2>2 DEF WholeInv
<1> QED
  BY <1>2, <1>3, <1>4, <1>5 DEF Next

LEMMA WholeAtReturn == Inv /\ WholeInv => ValuesThatFitAreWhole
<1> SUFFICES ASSUME Inv, WholeInv, returned
             PROVE  LET whole == Escaped(input)
                    IN  /\ Len(whole) <= max_size - 1 => output = whole
                        /\ Len(whole) > max_size - 1 =>
                             \A k \in 1 .. j : k <= max_size - 2 => output[k] = whole[k]
  BY DEF ValuesThatFitAreWhole
<1> DEFINE e == EscapedParts(input)[i]
           w == Escaped(input)
<1>1. /\ input \in Seq(Bytes) /\ i \in 0 .. Len(input) /\ max_size \in Nat
      /\ output \in Seq(Bytes) /\ j = Len(output) /\ j <= max_size - 1 /\ Len(input) \in Nat
  BY EscapeAssumption DEF Inv, TypeOK, TerminatorFits, j
<1>2. w = EscapedParts(input)[Len(input)]
  BY <1>1, LastPartIsWhole
<1>3. Len(input) \in 0 .. Len(input) /\ Len(input) \in i .. Len(input)
  BY <1>1
<1>4. e \in Seq(Bytes) /\ w \in Seq(Bytes)
  BY <1>1, <1>2, <1>3, PartsTyped
<1>5. /\ Len(e) <= Len(w) /\ (i < Len(input) => Len(e) < Len(w))
      /\ \A k \in 1 .. Len(e) : w[k] = e[k]
  BY <1>1, <1>2, <1>3, PartsGrow
<1>6. i = Len(input) => w = e
  BY <1>2
<1>7. output = e \/ (/\ Len(e) > max_size - 1
                     /\ \A k \in 1 .. max_size - 2 : output[k] = e[k])
  BY DEF WholeInv, Cut
<1>8. i = Len(input) \/ (i < Len(input) /\ j = max_size - 1)
  BY <1>1 DEF WholeInv, More
<1> HIDE DEF e, w
<1>9. Len(e) \in Nat /\ Len(w) \in Nat
  BY <1>4
<1>10. CASE output = e
  <2>1. Len(w) <= max_size - 1 => output = w
    BY <1>1, <1>5, <1>6, <1>8, <1>9, <1>10
  <2>2. \A k \in 1 .. j : output[k] = w[k]
    BY <1>1, <1>5, <1>10
  <2> QED
    BY <2>1, <2>2 DEF w
<1>11. CASE Len(e) > max_size - 1 /\ \A k \in 1 .. max_size - 2 : output[k] = e[k]
  <2>1. Len(w) > max_size - 1
    BY <1>1, <1>5, <1>9, <1>11
  <2>2. ASSUME NEW k \in 1 .. j, k <= max_size - 2
        PROVE  output[k] = w[k]
    <3>1. k \in 1 .. max_size - 2 /\ k \in 1 .. Len(e)
      BY <1>1, <1>9, <1>11, <2>2
    <3> QED
      BY <3>1, <1>5, <1>11
  <2>3. ~ (Len(w) <= max_size - 1)
    BY <1>1, <1>9, <2>1
  <2> QED
    BY <2>2, <2>3 DEF w
<1> QED
  BY <1>7, <1>10, <1>11

\* In every reachable state the variables have their types.
THEOREM TypesAreKept == Spec => []TypeOK
<1>1. Inv => TypeOK
  BY DEF Inv
<1> QED
  BY InitEstablishesInv, NextInv, <1>1, PTL DEF Spec

\* Whatever mix of quotes and other bytes leads to the end of the buffer, the
\* index at which escapeSqlString writes its terminator is within it.
THEOREM TerminatorIsInside == Spec => []TerminatorFits
<1>1. Inv => TerminatorFits
  BY DEF Inv
<1> QED
  BY InitEstablishesInv, NextInv, <1>1, PTL DEF Spec

\* For a value and a buffer of any length, SQL reads from the literal the bytes
\* of the value in their order, but for a quote for which one byte was left.
THEOREM LiteralReadsBack == Spec => []ReadsBack
<1>1. Inv => ReadsBack
  BY DEF Inv
<1> QED
  BY InitEstablishesInv, NextInv, <1>1, PTL DEF Spec

\* For every value and buffer: a value whose literal fits is stored whole, and of one
\* that does not fit everything up to the last byte but one of the room is stored.
THEOREM FittingValuesAreWhole == Spec => []ValuesThatFitAreWhole
<1>1. Inv /\ WholeInv => ValuesThatFitAreWhole
  BY WholeAtReturn
<1> QED
  BY InitEstablishesInv, NextInv, InitEstablishesWhole, NextWhole, <1>1, PTL DEF Spec

=============================================================================
