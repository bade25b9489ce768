-------------------------- MODULE FileSecureProofs --------------------------
(***************************************************************************)
(* Theorems about FileSecure, for every block and buffer length, every set *)
(* of paths and passwords, files of every length, and every set of calls   *)
(* that may fail.                                                          *)
(*                                                                         *)
(* First what the byte sequences of the model are, then the inductive      *)
(* invariant FileInv: types and positions, the files since the click, and  *)
(* what has been written so far in each of the two modes.  Last, with it,  *)
(* what a job that fails leaves behind.                                    *)
(***************************************************************************)
EXTENDS FileSecure, SequenceTheorems, TLAPS

Run == [password: Passwords, text: Seq(Byte)]

----------------------------------------------------------------------------
(* Blocks                                                                  *)

\* Division by a positive divisor.
LEMMA Division ==
  ASSUME NEW n \in Nat, NEW d \in Nat \ {0}
  PROVE  /\ n \div d \in Nat
         /\ n % d \in 0 .. d - 1
         /\ n = (n \div d) * d + (n % d)
OBVIOUS

\* The complete blocks among n bytes are all of them but less than one block.
LEMMA BlocksProperties ==
  ASSUME NEW n \in Nat
  PROVE  /\ Blocks(n) \in Nat
         /\ Blocks(n) <= n
         /\ n < Blocks(n) + BlockLen
         /\ Blocks(n) = n - (n % BlockLen)
         /\ n % BlockLen \in 0 .. BlockLen - 1
BY Division, SizesAssumption DEF Blocks

\* More bytes have no fewer complete blocks.
LEMMA BlocksMonotonic ==
  ASSUME NEW m \in Nat, NEW n \in Nat, m <= n
  PROVE  Blocks(m) <= Blocks(n)
<1> DEFINE a == m \div BlockLen
           b == n \div BlockLen
<1>1. /\ a \in Nat /\ b \in Nat /\ BlockLen \in Nat \ {0}
      /\ Blocks(m) = a * BlockLen /\ Blocks(n) = b * BlockLen
      /\ a * BlockLen <= n /\ n < b * BlockLen + BlockLen
  BY BlocksProperties, Division, SizesAssumption DEF Blocks
<1> HIDE DEF a, b
<1>2. CASE a <= b
  BY <1>1, <1>2
<1>3. CASE b + 1 <= a
  <2>1. (b + 1) * BlockLen <= a * BlockLen
    BY <1>1, <1>3
  <2>2. (b + 1) * BlockLen = b * BlockLen + BlockLen
    BY <1>1
  <2> QED
    BY <1>1, <2>1, <2>2
<1> QED
  BY <1>1, <1>2, <1>3

\* A multiple of the block length is at least one block, unless it is 0.
LEMMA WholeBlocks ==
  ASSUME NEW n \in Nat, n % BlockLen = 0
  PROVE  /\ Blocks(n) = n
         /\ n > 0 => n >= BlockLen
<1>1. Blocks(n) = n
  BY BlocksProperties
<1>2. ASSUME 0 < n, n < BlockLen PROVE FALSE
  <2>1. Blocks(n) <= 0
    BY <1>2, SizesAssumption, Z3 DEF Blocks
  <2> QED
    BY <1>1, <1>2, <2>1
<1> QED
  BY <1>1, <1>2, SizesAssumption

\* DecryptUpdate holds back at most one block, and exactly one at its end.
LEMMA ReleasedProperties ==
  ASSUME NEW n \in Nat
  PROVE  /\ Released(n) \in Nat
         /\ Released(n) <= Blocks(n)
         /\ n <= Released(n) + BlockLen
         /\ n > 0 /\ n % BlockLen = 0 => Released(n) = n - BlockLen
<1>1. CASE n = 0
  BY <1>1, BlocksProperties, SizesAssumption DEF Released
<1>2. CASE n > 0
  <2>1. n - 1 \in Nat /\ Released(n) = Blocks(n - 1)
    BY <1>2 DEF Released
  <2>2. /\ Released(n) \in Nat /\ Released(n) <= Blocks(n)
        /\ n - 1 < Released(n) + BlockLen
        /\ Released(n) <= n - 1
    BY <2>1, BlocksProperties, BlocksMonotonic
  <2>3. ASSUME n % BlockLen = 0 PROVE Released(n) = n - BlockLen
    <3> DEFINE a == (n - 1) \div BlockLen
               b == n \div BlockLen
    <3>0. a \in Nat /\ b \in Nat /\ BlockLen \in Nat \ {0}
      BY <2>1, Division, SizesAssumption
    <3>1. /\ a \in Nat /\ b \in Nat /\ BlockLen \in Nat \ {0}
          /\ Released(n) = a * BlockLen /\ n = b * BlockLen
      BY <2>1, <2>3, <3>0, WholeBlocks DEF Blocks
    <3> HIDE DEF a, b
    <3>2. a * BlockLen < b * BlockLen /\ b * BlockLen <= a * BlockLen + BlockLen
      BY <2>2, <3>1, SizesAssumption
    <3>3. CASE b <= a
      <4>1. b * BlockLen <= a * BlockLen
        BY <3>1, <3>3
      <4> QED
        BY <3>1, <3>2, <4>1
    <3>4. CASE a + 1 <= b
      <4>1. (a + 1) * BlockLen <= b * BlockLen
        BY <3>1, <3>4
      <4>2. (a + 1) * BlockLen = a * BlockLen + BlockLen
        BY <3>1
      <4> QED
        BY <3>1, <3>2, <4>1, <4>2
    <3> QED
      BY <3>1, <3>3, <3>4
  <2> QED
    BY <1>2, <2>2, <2>3, SizesAssumption
<1> QED
  BY <1>1, <1>2

\* What was let out is never taken back.
LEMMA ReleasedMonotonic ==
  ASSUME NEW m \in Nat, NEW n \in Nat, m <= n
  PROVE  Released(m) <= Released(n)
<1>1. CASE m = 0
  BY <1>1, ReleasedProperties DEF Released
<1>2. CASE m > 0
  BY <1>2, BlocksMonotonic DEF Released
<1> QED
  BY <1>1, <1>2

----------------------------------------------------------------------------
(* Bytes                                                                   *)

\* A function on an interval from 1 is a sequence.
LEMMA FunctionIsSeq ==
  ASSUME NEW S, NEW n \in Nat, NEW f \in [1 .. n -> S]
  PROVE  f \in Seq(S) /\ Len(f) = n
<1>1. f \in Seq(S)
  BY SeqDef
<1> QED
  BY <1>1, LenProperties

\* The facts about sequences that are used below, for bytes.
LEMMA BytesConcat ==
  ASSUME NEW s \in Seq(Byte), NEW t \in Seq(Byte)
  PROVE  /\ s \o t \in Seq(Byte)
         /\ Len(s) \in Nat /\ Len(t) \in Nat
         /\ Len(s \o t) = Len(s) + Len(t)
         /\ \A i \in 1 .. Len(s) : (s \o t)[i] = s[i]
         /\ \A i \in Len(s) + 1 .. Len(s) + Len(t) : (s \o t)[i] = t[i - Len(s)]
<1>1. Len(s) \in Nat /\ Len(t) \in Nat
  BY LenProperties
<1>2. /\ s \o t \in Seq(Byte)
      /\ Len(s \o t) = Len(s) + Len(t)
      /\ \A i \in 1 .. Len(s) + Len(t) :
           (s \o t)[i] = IF i <= Len(s) THEN s[i] ELSE t[i - Len(s)]
  BY ConcatProperties
<1> QED
  BY <1>1, <1>2

LEMMA BytesAssociative ==
  ASSUME NEW s \in Seq(Byte), NEW t \in Seq(Byte), NEW u \in Seq(Byte)
  PROVE  (s \o t) \o u = s \o (t \o u)
BY ConcatAssociative, SMTT(30)

LEMMA BytesSubSeq ==
  ASSUME NEW s \in Seq(Byte), NEW m \in Nat \ {0}, NEW n \in Int, n <= Len(s)
  PROVE  /\ SubSeq(s, m, n) \in Seq(Byte)
         /\ Len(SubSeq(s, m, n)) = IF m <= n THEN n - m + 1 ELSE 0
         /\ \A i \in 1 .. n - m + 1 : SubSeq(s, m, n)[i] = s[m + i - 1]
<1>1. \A i \in m .. n : s[i] \in Byte
  BY LenProperties, ElementOfSeq
<1> QED
  BY <1>1, SubSeqProperties

LEMMA BytesPrefix ==
  ASSUME NEW s \in Seq(Byte), NEW n \in 0 .. Len(s)
  PROVE  /\ SubSeq(s, 1, n) \in Seq(Byte)
         /\ Len(SubSeq(s, 1, n)) = n
         /\ \A i \in 1 .. n : SubSeq(s, 1, n)[i] = s[i]
<1>1. Len(s) \in Nat
  BY LenProperties
<1>2. /\ SubSeq(s, 1, n) \in Seq(Byte)
      /\ Len(SubSeq(s, 1, n)) = IF 1 <= n THEN n - 1 + 1 ELSE 0
      /\ \A i \in 1 .. n - 1 + 1 : SubSeq(s, 1, n)[i] = s[1 + i - 1]
  BY <1>1, BytesSubSeq
<1> QED
  BY <1>1, <1>2

LEMMA BytesPrefixGrows ==
  ASSUME NEW s \in Seq(Byte), NEW m \in Nat, NEW n \in Nat, m <= n, n <= Len(s)
  PROVE  /\ SubSeq(s, m + 1, n) \in Seq(Byte)
         /\ SubSeq(s, 1, m) \o SubSeq(s, m + 1, n) = SubSeq(s, 1, n)
<1>1. Len(s) \in Nat
  BY LenProperties
<1>2. SubSeq(s, m + 1, n) \in Seq(Byte)
  <2>1. m + 1 \in Nat \ {0} /\ n \in Int /\ n <= Len(s)
    OBVIOUS
  <2> QED
    BY <2>1, BytesSubSeq
<1>3. 1 \in 1 .. Len(s) + 1 /\ m \in 1 - 1 .. Len(s) /\ n \in m .. Len(s)
  BY <1>1
<1>4. SubSeq(s, 1, m) \o SubSeq(s, m + 1, n) = SubSeq(s, 1, n)
  BY <1>3, ConcatAdjacentSubSeq
<1> QED
  BY <1>2, <1>4

LEMMA RunProperties ==
  ASSUME NEW rs \in Seq(Run), NEW r \in DOMAIN rs
  PROVE  /\ r \in Nat \ {0}
         /\ rs[r].password \in Passwords
         /\ rs[r].text \in Seq(Byte)
         /\ Len(rs[r].text) \in Nat
<1>1. r \in 1 .. Len(rs) /\ Len(rs) \in Nat
  BY LenProperties
<1>2. rs[r] \in Run
  BY <1>1, ElementOfSeq
<1>3. rs[r].password \in Passwords /\ rs[r].text \in Seq(Byte)
  BY <1>2 DEF Run
<1> QED
  BY <1>1, <1>3, LenProperties

\* The first n bytes of a salt, a vector or a ciphertext.
LEMMA StreamProperties ==
  ASSUME NEW kind \in {"salt", "iv", "cipher"}, NEW r \in Nat, NEW n \in Nat
  PROVE  /\ Stream(kind, r, 1, n) \in Seq(Byte)
         /\ Len(Stream(kind, r, 1, n)) = n
         /\ \A i \in 1 .. n : Stream(kind, r, 1, n)[i] = [kind |-> kind, run |-> r, at |-> i]
<1> DEFINE f == [i \in 1 .. n |-> [kind |-> kind, run |-> r, at |-> i]]
<1>1. n - 1 + 1 = n /\ \A i \in 1 .. n : 1 + i - 1 = i /\ i \in Nat
  OBVIOUS
<1>2. Stream(kind, r, 1, n) = f
  BY <1>1 DEF Stream
<1>3. f \in [1 .. n -> Byte]
  BY <1>1 DEF Byte
<1>4. \A i \in 1 .. n : f[i] = [kind |-> kind, run |-> r, at |-> i]
  OBVIOUS
<1> HIDE DEF f
<1>5. f \in Seq(Byte) /\ Len(f) = n
  BY <1>3, FunctionIsSeq
<1> QED
  BY <1>2, <1>4, <1>5

\* Two pieces of a stream that meet make one.
LEMMA StreamJoin ==
  ASSUME NEW kind \in {"salt", "iv", "cipher"}, NEW r \in Nat,
         NEW m \in Nat, NEW n \in Nat, m <= n
  PROVE  /\ Stream(kind, r, m + 1, n) \in Seq(Byte)
         /\ Stream(kind, r, 1, m) \o Stream(kind, r, m + 1, n) = Stream(kind, r, 1, n)
<1>0. ASSUME NEW k \in Nat
      PROVE  /\ Stream(kind, r, 1, k) \in Seq(Byte) /\ Len(Stream(kind, r, 1, k)) = k
             /\ \A i \in 1 .. k : Stream(kind, r, 1, k)[i] = [kind |-> kind, run |-> r, at |-> i]
  BY StreamProperties, SMTT(30)
<1> DEFINE s == Stream(kind, r, 1, m)
           t == Stream(kind, r, m + 1, n)
           u == Stream(kind, r, 1, n)
<1>1. /\ s \in Seq(Byte) /\ Len(s) = m
      /\ \A i \in 1 .. m : s[i] = [kind |-> kind, run |-> r, at |-> i]
  BY <1>0
<1>2. /\ t \in Seq(Byte) /\ Len(t) = n - m
      /\ \A i \in 1 .. n - m : t[i] = [kind |-> kind, run |-> r, at |-> m + i]
  <2> DEFINE f == [i \in 1 .. n - m |-> [kind |-> kind, run |-> r, at |-> m + i]]
  <2>1. n - (m + 1) + 1 = n - m /\ n - m \in Nat
    OBVIOUS
  <2>2. \A i \in 1 .. n - m : m + 1 + i - 1 = m + i /\ m + i \in Nat
    OBVIOUS
  <2>3. t = f
    BY <2>1, <2>2 DEF Stream
  <2>4. f \in [1 .. n - m -> Byte]
    BY <2>2 DEF Byte
  <2>5. \A i \in 1 .. n - m : f[i] = [kind |-> kind, run |-> r, at |-> m + i]
    OBVIOUS
  <2> HIDE DEF f, t
  <2>6. f \in Seq(Byte) /\ Len(f) = n - m
    BY <2>1, <2>4, FunctionIsSeq
  <2> QED
    BY <2>3, <2>5, <2>6
<1>3. /\ u \in Seq(Byte) /\ Len(u) = n
      /\ \A i \in 1 .. n : u[i] = [kind |-> kind, run |-> r, at |-> i]
  BY <1>0
<1> HIDE DEF s, t, u
<1>4. /\ s \o t \in Seq(Byte) /\ Len(s \o t) = n
      /\ \A i \in 1 .. m : (s \o t)[i] = s[i]
      /\ \A i \in m + 1 .. n : (s \o t)[i] = t[i - m]
  <2>1. /\ s \o t \in Seq(Byte) /\ Len(s \o t) = Len(s) + Len(t)
        /\ \A i \in 1 .. Len(s) : (s \o t)[i] = s[i]
        /\ \A i \in Len(s) + 1 .. Len(s) + Len(t) : (s \o t)[i] = t[i - Len(s)]
    BY <1>1, <1>2, BytesConcat, Zenon
  <2>2. m + (n - m) = n
    OBVIOUS
  <2> QED
    BY <1>1, <1>2, <2>1, <2>2
<1>5. ASSUME NEW i \in 1 .. n PROVE (s \o t)[i] = u[i]
  <2>1. CASE i \in 1 .. m
    BY <1>1, <1>3, <1>4, <2>1
  <2>2. CASE i \in m + 1 .. n
    <3>1. i - m \in 1 .. n - m /\ m + (i - m) = i
      BY <2>2
    <3>2. t[i - m] = [kind |-> kind, run |-> r, at |-> m + (i - m)]
      BY <1>2, <3>1
    <3>3. (s \o t)[i] = t[i - m]
      BY <1>4, <2>2
    <3> QED
      BY <1>3, <3>1, <3>2, <3>3
  <2>3. i \in 1 .. m \/ i \in m + 1 .. n
    OBVIOUS
  <2> QED
    BY <2>1, <2>2, <2>3
<1>6. s \o t = u
  BY <1>3, <1>4, <1>5, SeqEqual
<1> QED
  BY <1>2, <1>6 DEF s, t, u

\* The header of an encryption names it from its first byte on.
LEMMA HeaderProperties ==
  ASSUME NEW r \in Nat
  PROVE  /\ Header(r) \in Seq(Byte)
         /\ Len(Header(r)) = HeaderLen
         /\ Header(r)[1].run = r
         /\ HeaderLen \in Nat \ {0}
<1> DEFINE s == Stream("salt", r, 1, SaltLen)
           v == Stream("iv", r, 1, BlockLen)
<1>1. /\ s \in Seq(Byte) /\ Len(s) = SaltLen /\ s[1].run = r
      /\ v \in Seq(Byte) /\ Len(v) = BlockLen
  <2>1. SaltLen \in Nat /\ BlockLen \in Nat /\ 1 \in 1 .. SaltLen
    BY SizesAssumption
  <2>2. /\ s \in Seq(Byte) /\ Len(s) = SaltLen
        /\ \A i \in 1 .. SaltLen : s[i] = [kind |-> "salt", run |-> r, at |-> i]
    BY <2>1, StreamProperties
  <2>3. v \in Seq(Byte) /\ Len(v) = BlockLen
    BY <2>1, StreamProperties
  <2> HIDE DEF s, v
  <2>4. s[1] = [kind |-> "salt", run |-> r, at |-> 1]
    BY <2>1, <2>2
  <2> QED
    BY <2>2, <2>3, <2>4
<1> HIDE DEF s, v
<1>2. /\ s \o v \in Seq(Byte) /\ Len(s \o v) = SaltLen + BlockLen
      /\ (s \o v)[1] = s[1]
  <2>1. /\ s \o v \in Seq(Byte) /\ Len(s \o v) = Len(s) + Len(v)
        /\ \A i \in 1 .. Len(s) : (s \o v)[i] = s[i]
    BY <1>1, BytesConcat, Zenon
  <2> QED
    BY <1>1, <2>1, SizesAssumption
<1> QED
  BY <1>1, <1>2, SizesAssumption DEF Header, HeaderLen, s, v

\* The whole file that encryption r makes of a text of n bytes, padding included.
Sealed(r, n) == Header(r) \o Stream("cipher", r, 1, n)

\* Its length, and where it comes from.
LEMMA SealedProperties ==
  ASSUME NEW r \in Nat, NEW n \in Nat
  PROVE  /\ Sealed(r, n) \in Seq(Byte)
         /\ Len(Sealed(r, n)) = HeaderLen + n
         /\ Sealed(r, n)[1].run = r
<1> DEFINE h == Header(r)
           c == Stream("cipher", r, 1, n)
<1>1. /\ h \in Seq(Byte) /\ Len(h) = HeaderLen /\ h[1].run = r
      /\ HeaderLen \in Nat \ {0}
      /\ c \in Seq(Byte) /\ Len(c) = n
  BY HeaderProperties, StreamProperties
<1> HIDE DEF h, c
<1>2. /\ h \o c \in Seq(Byte) /\ Len(h \o c) = HeaderLen + n
      /\ (h \o c)[1] = h[1]
  <2>1. /\ h \o c \in Seq(Byte) /\ Len(h \o c) = Len(h) + Len(c)
        /\ \A i \in 1 .. Len(h) : (h \o c)[i] = h[i]
    BY <1>1, BytesConcat, Zenon
  <2> QED
    BY <1>1, <2>1
<1> QED
  BY <1>1, <1>2 DEF Sealed, h, c

\* A file unlocked by r is a beginning of what r sealed.
LEMMA UnlocksSealed ==
  ASSUME NEW rs \in Seq(Run), NEW f \in Seq(Byte), NEW password, NEW r \in DOMAIN rs
  PROVE  Unlocks(rs, f, password, r) <=>
           /\ password = rs[r].password
           /\ Len(f) <= HeaderLen + Len(rs[r].text)
           /\ f = SubSeq(Sealed(r, Len(rs[r].text)), 1, Len(f))
<1>1. r \in Nat /\ Len(rs[r].text) \in Nat
  BY RunProperties
<1> QED
  BY <1>1, SealedProperties DEF Unlocks, Sealed, Header

\* What a file with a header decrypts to has its length, less the header.
LEMMA DecipheredProperties ==
  ASSUME NEW rs \in Seq(Run), NEW f \in Seq(Byte), NEW password, Len(f) >= HeaderLen
  PROVE  /\ Deciphered(rs, f, password) \in Seq(Byte)
         /\ Len(Deciphered(rs, f, password)) = Len(f) - HeaderLen
<1> DEFINE n == Len(f) - HeaderLen
           q == CHOOSE r \in DOMAIN rs : Unlocks(rs, f, password, r)
           found == \E r \in DOMAIN rs : Unlocks(rs, f, password, r)
<1>1. n \in Nat /\ HeaderLen \in Nat
  BY LenProperties, SizesAssumption DEF HeaderLen
<1>2. Garbage \in Byte
  BY DEF Garbage, Byte
<1>3. ASSUME found, NEW i \in 1 .. n PROVE rs[q].text[i] \in Byte
  <2>1. q \in DOMAIN rs /\ Unlocks(rs, f, password, q)
    BY <1>3
  <2> HIDE DEF q
  <2>2. rs[q].text \in Seq(Byte)
    BY <2>1, RunProperties
  <2>3. n <= Len(rs[q].text)
    BY <1>1, <2>1, <2>2, UnlocksSealed, LenProperties
  <2> QED
    BY <1>1, <2>2, <2>3, ElementOfSeq, LenProperties
<1>4. \A i \in 1 .. n : (IF found THEN rs[q].text[i] ELSE Garbage) \in Byte
  BY <1>2, <1>3
<1>5. Deciphered(rs, f, password) = [i \in 1 .. n |-> IF found THEN rs[q].text[i] ELSE Garbage]
  BY DEF Deciphered
<1> HIDE DEF n, q, found
<1>6. Deciphered(rs, f, password) \in [1 .. n -> Byte]
  BY <1>4, <1>5
<1> QED
  BY <1>1, <1>6, FunctionIsSeq DEF n

\* The password of an encryption gives back all that it was given: no other
\* encryption can be taken for it.
LEMMA SealedIsDeciphered ==
  ASSUME NEW rs \in Seq(Run), NEW r \in DOMAIN rs
  PROVE  Deciphered(rs, Sealed(r, Len(rs[r].text)), rs[r].password) = rs[r].text
<1> DEFINE text == rs[r].text
           f == Sealed(r, Len(text))
           password == rs[r].password
           q == CHOOSE s \in DOMAIN rs : Unlocks(rs, f, password, s)
<1>1. r \in Nat /\ text \in Seq(Byte) /\ Len(text) \in Nat
  BY RunProperties
<1>2. /\ f \in Seq(Byte) /\ Len(f) = HeaderLen + Len(text) /\ f[1].run = r
      /\ HeaderLen \in Nat \ {0}
  BY <1>1, SealedProperties, HeaderProperties
<1>3. Unlocks(rs, f, password, r)
  BY <1>1, <1>2, UnlocksSealed, SubSeqFull
<1>4. q \in DOMAIN rs /\ Unlocks(rs, f, password, q)
  BY <1>3
<1> HIDE DEF q, f
<1>5. q = r
  <2> DEFINE g == Sealed(q, Len(rs[q].text))
  <2>1. q \in Nat /\ Len(rs[q].text) \in Nat
    BY <1>4, RunProperties
  <2>2. g \in Seq(Byte) /\ Len(g) = HeaderLen + Len(rs[q].text) /\ g[1].run = q
    BY <2>1, SealedProperties
  <2>3. f = SubSeq(g, 1, Len(f)) /\ Len(f) <= Len(g)
    BY <1>2, <1>4, <2>2, UnlocksSealed, SMTT(30)
  <2> HIDE DEF g
  <2>4. \A i \in 1 .. Len(f) : g[i] \in Byte
    BY <1>2, <2>2, <2>3, <1>1, <2>1, ElementOfSeq
  <2>5. SubSeq(g, 1, Len(f))[1] = g[1]
    BY <1>1, <1>2, <2>4, SubSeqProperties
  <2> QED
    BY <1>2, <2>2, <2>3, <2>5
<1>6. Deciphered(rs, f, password) = [i \in 1 .. Len(text) |-> text[i]]
  <2>1. Len(f) - HeaderLen = Len(text)
    BY <1>1, <1>2
  <2>2. \E s \in DOMAIN rs : Unlocks(rs, f, password, s)
    BY <1>3
  <2> QED
    BY <1>5, <2>1, <2>2 DEF Deciphered, q
<1>7. [i \in 1 .. Len(text) |-> text[i]] = text
  BY <1>1, LenProperties
<1> QED
  BY <1>6, <1>7 DEF f

\* What is written after a beginning of a sealed file makes a longer one.
LEMMA SealedGrows ==
  ASSUME NEW r \in Nat, NEW m \in Nat, NEW n \in Nat, m <= n
  PROVE  /\ Stream("cipher", r, m + 1, n) \in Seq(Byte)
         /\ Sealed(r, m) \o Stream("cipher", r, m + 1, n) = Sealed(r, n)
<1> DEFINE h == Header(r)
           c == Stream("cipher", r, 1, m)
           d == Stream("cipher", r, m + 1, n)
<1>1. h \in Seq(Byte) /\ c \in Seq(Byte)
  BY HeaderProperties, StreamProperties
<1>2. d \in Seq(Byte) /\ c \o d = Stream("cipher", r, 1, n)
  BY StreamJoin
<1> HIDE DEF h, c, d
<1>3. (h \o c) \o d = h \o (c \o d)
  BY <1>1, <1>2, BytesAssociative, Zenon
<1> QED
  BY <1>2, <1>3 DEF Sealed, h, c, d

\* The runs, once the text of r is another one.
WithText(rs, r, text) == [rs EXCEPT ![r].text = text]

LEMMA WithTextProperties ==
  ASSUME NEW rs \in Seq(Run), NEW r \in DOMAIN rs, NEW text \in Seq(Byte)
  PROVE  /\ WithText(rs, r, text) \in Seq(Run)
         /\ Len(WithText(rs, r, text)) = Len(rs)
         /\ r \in DOMAIN WithText(rs, r, text)
         /\ WithText(rs, r, text)[r].password = rs[r].password
         /\ WithText(rs, r, text)[r].text = text
<1> DEFINE e == [rs[r] EXCEPT !.text = text]
<1>1. r \in 1 .. Len(rs) /\ rs[r] \in Run
  BY LenProperties, ElementOfSeq
<1>2. e \in Run /\ e.password = rs[r].password /\ e.text = text
  BY <1>1 DEF Run
<1>3. WithText(rs, r, text) = [rs EXCEPT ![r] = e]
  BY DEF WithText
<1> HIDE DEF e
<1>4. /\ [rs EXCEPT ![r] = e] \in Seq(Run)
      /\ Len([rs EXCEPT ![r] = e]) = Len(rs)
      /\ [rs EXCEPT ![r] = e][r] = e
  BY <1>1, <1>2, ExceptSeq
<1>5. r \in DOMAIN WithText(rs, r, text)
  BY <1>3
<1> QED
  BY <1>2, <1>3, <1>4, <1>5

\* EncryptFinal completes the last block.
LEMMA PaddingProperties ==
  ASSUME NEW n \in Nat
  PROVE  LET padding == BlockLen - (n % BlockLen)
         IN  /\ padding \in 1 .. BlockLen
             /\ Blocks(n) <= n + padding
             /\ (n + padding) % BlockLen = 0
             /\ n + padding >= BlockLen
<1> DEFINE q == n \div BlockLen
           padding == BlockLen - (n % BlockLen)
<1>1. /\ q \in Nat /\ BlockLen \in Nat \ {0}
      /\ n % BlockLen \in 0 .. BlockLen - 1
      /\ n = q * BlockLen + (n % BlockLen)
      /\ Blocks(n) <= n
  BY Division, BlocksProperties, SizesAssumption
<1>2. n + padding = q * BlockLen + BlockLen /\ padding \in 1 .. BlockLen
  BY <1>1
<1>3. q * BlockLen + BlockLen = (q + 1) * BlockLen
  BY <1>1
<1> HIDE DEF q
<1>4. ((q + 1) * BlockLen) % BlockLen = 0 /\ q * BlockLen >= 0
  BY <1>1
<1>5. /\ padding \in 1 .. BlockLen
      /\ Blocks(n) <= n + padding
      /\ n + padding >= BlockLen
  <2> DEFINE k == q * BlockLen
  <2>1. k \in Int /\ k >= 0 /\ n + padding = k + BlockLen
    BY <1>1, <1>2, <1>4
  <2>2. Blocks(n) \in Nat
    BY BlocksProperties
  <2> HIDE DEF padding, k
  <2> QED
    BY <1>1, <1>2, <2>1, <2>2
<1>6. (n + padding) % BlockLen = 0
  BY <1>2, <1>3, <1>4
<1> QED
  BY <1>5, <1>6

\* What EncryptFinal adds to a text.
Pads(padding) == [i \in 1 .. padding |-> Pad(padding)]

\* Text is s, padded to the n bytes of whole blocks.
Padded(text, s, padding, n) ==
  /\ text = s \o Pads(padding)
  /\ n = Len(s) + padding
  /\ n % BlockLen = 0

\* One decryption gives s, and can give nothing else.
Recovers(rs, f, password, s) == WholeDecryption(rs, f, password) = {s}

\* An encryption that has padded its text is undone by one decryption.
LEMMA SealedIsRecovered ==
  ASSUME NEW rs \in Seq(Run), NEW r \in DOMAIN rs, NEW s \in Seq(Byte),
         NEW padding \in 1 .. BlockLen, NEW n \in Nat,
         Padded(rs[r].text, s, padding, n)
  PROVE  Recovers(rs, Sealed(r, n), rs[r].password, s)
<1> DEFINE pads == Pads(padding)
           text == rs[r].text
           f == Sealed(r, n)
           block == SubSeq(text, n - BlockLen + 1, n)
<1>0. rs[r].text = s \o Pads(padding) /\ n = Len(s) + padding /\ n % BlockLen = 0
  BY DEF Padded
<1>1. /\ Len(s) \in Nat /\ padding \in 1 .. BlockLen /\ BlockLen \in Nat \ {0}
      /\ n >= BlockLen
  <2>1. Len(s) \in Nat /\ BlockLen \in Nat \ {0}
    BY LenProperties, SizesAssumption
  <2>2. n > 0
    BY <1>0, <2>1
  <2>3. n >= BlockLen
    BY <1>0, <2>2, WholeBlocks
  <2> QED
    BY <2>1, <2>2, <2>3
<1>2. /\ pads \in Seq(Byte) /\ Len(pads) = padding
      /\ pads[padding] = Pad(padding)
  <2>1. pads \in [1 .. padding -> Byte] /\ padding \in Nat
    BY <1>1 DEF Pads, Pad, Byte
  <2>2. pads[padding] = Pad(padding)
    BY <1>1 DEF Pads
  <2> HIDE DEF pads
  <2> QED
    BY <2>1, <2>2, FunctionIsSeq
<1>3. text = s \o pads
  BY <1>0
<1> HIDE DEF pads, text
<1>4. text \in Seq(Byte) /\ Len(text) = n /\ text[n] = Pad(padding)
  <2>1. /\ text \in Seq(Byte) /\ Len(text) = Len(s) + Len(pads)
        /\ \A i \in Len(s) + 1 .. Len(s) + Len(pads) : text[i] = pads[i - Len(s)]
    BY <1>2, <1>3, BytesConcat, Zenon
  <2>2. n \in Len(s) + 1 .. Len(s) + Len(pads) /\ n - Len(s) = padding
    <3>1. /\ Len(s) + padding \in Len(s) + 1 .. Len(s) + padding
          /\ Len(s) + padding - Len(s) = padding
      BY <1>1
    <3> QED
      BY <1>0, <1>2, <3>1
  <2>3. Len(text) = n
    BY <1>0, <1>2, <2>1
  <2>4. text[n] = pads[padding]
    BY <2>1, <2>2
  <2> QED
    BY <1>2, <2>1, <2>3, <2>4
<1>5. SubSeq(text, 1, Len(s)) = s
  <2>1. /\ Len(s) \in 0 .. Len(text)
        /\ \A i \in 1 .. Len(s) : text[i] = s[i]
    BY <1>1, <1>2, <1>3, <1>4, BytesConcat
  <2>2. /\ SubSeq(text, 1, Len(s)) \in Seq(Byte)
        /\ Len(SubSeq(text, 1, Len(s))) = Len(s)
        /\ \A i \in 1 .. Len(s) : SubSeq(text, 1, Len(s))[i] = text[i]
    BY <1>4, <2>1, BytesPrefix
  <2> QED
    BY <2>1, <2>2, SeqEqual
<1>6. Deciphered(rs, f, rs[r].password) = text
  BY <1>4, SealedIsDeciphered DEF text
<1>7. Len(f) - HeaderLen = n
  <2>1. r \in Nat /\ HeaderLen \in Nat
    BY RunProperties, SizesAssumption DEF HeaderLen
  <2>2. Len(f) = HeaderLen + n
    BY <1>1, <2>1, SealedProperties
  <2> QED
    BY <1>1, <2>1, <2>2
<1>8. PaddingOf(block) = {padding}
  <2>1. \A i \in 1 .. n - (n - BlockLen + 1) + 1 : block[i] = text[n - BlockLen + 1 + i - 1]
    <3>1. n - BlockLen + 1 \in Nat \ {0} /\ n \in Int /\ n <= Len(text)
      BY <1>1, <1>4
    <3> QED
      BY <1>4, <3>1, BytesSubSeq
  <2>2. block[BlockLen] = text[n]
    <3>1. /\ BlockLen \in 1 .. n - (n - BlockLen + 1) + 1
          /\ n - BlockLen + 1 + BlockLen - 1 = n
      BY <1>1
    <3> QED
      BY <2>1, <3>1
  <2>3. block[BlockLen].kind = "pad" /\ block[BlockLen].at = padding
    <3>1. block[BlockLen] = Pad(padding)
      BY <1>4, <2>2
    <3> HIDE DEF block
    <3> QED
      BY <3>1 DEF Pad
  <2> HIDE DEF block
  <2> QED
    BY <1>1, <2>3 DEF PaddingOf
<1>9. WholeDecryption(rs, f, rs[r].password) = {SubSeq(text, 1, n - p) : p \in {padding} \ {0}}
  <2>1. ~ (n <= 0 \/ n % BlockLen # 0)
    BY <1>0, <1>1
  <2> HIDE DEF f
  <2> QED
    BY <1>6, <1>7, <1>8, <2>1 DEF WholeDecryption
<1> HIDE DEF f
<1>10. padding # 0 /\ n - padding = Len(s)
  BY <1>0, <1>1
<1> QED
  BY <1>5, <1>9, <1>10 DEF Recovers, f

\* Padding fills at most one block.
LEMMA PaddingLengths ==
  ASSUME NEW block, NEW padding \in PaddingOf(block) \ {0}
  PROVE  padding \in 1 .. BlockLen
<1>1. PaddingOf(block) \subseteq 0 .. BlockLen
  BY SizesAssumption DEF PaddingOf
<1> QED
  BY <1>1, SizesAssumption

\* What the padding leaves of the last block of the first n bytes of a text.
LastBytes(text, n, padding) ==
  SubSeq(SubSeq(text, n - BlockLen + 1, n), 1, BlockLen - padding)

\* DecryptFinal adds them to what is before that block.
LEMMA LastBlock ==
  ASSUME NEW text \in Seq(Byte), NEW n \in Nat, BlockLen <= n, n <= Len(text),
         NEW padding \in 1 .. BlockLen
  PROVE  /\ LastBytes(text, n, padding) \in Seq(Byte)
         /\ Len(LastBytes(text, n, padding)) = BlockLen - padding
         /\ SubSeq(text, 1, n - BlockLen) \o LastBytes(text, n, padding)
              = SubSeq(text, 1, n - padding)
         /\ SubSeq(text, 1, n - padding) \in Seq(Byte)
<1> DEFINE block == SubSeq(text, n - BlockLen + 1, n)
           last == SubSeq(block, 1, BlockLen - padding)
           rest == SubSeq(text, n - BlockLen + 1, n - padding)
<1>1. Len(text) \in Nat /\ BlockLen \in Nat \ {0}
  BY LenProperties, SizesAssumption
<1>2. /\ block \in Seq(Byte) /\ Len(block) = BlockLen
      /\ \A i \in 1 .. BlockLen : block[i] = text[n - BlockLen + i]
  <2>1. n - BlockLen + 1 \in Nat \ {0} /\ n \in Int /\ n <= Len(text)
    BY <1>1
  <2>2. /\ block \in Seq(Byte)
        /\ Len(block) = IF n - BlockLen + 1 <= n THEN n - (n - BlockLen + 1) + 1 ELSE 0
        /\ \A i \in 1 .. n - (n - BlockLen + 1) + 1 : block[i] = text[n - BlockLen + 1 + i - 1]
    BY <2>1, BytesSubSeq
  <2> HIDE DEF block
  <2> QED
    BY <1>1, <2>2
<1>3. /\ rest \in Seq(Byte) /\ Len(rest) = BlockLen - padding
      /\ \A i \in 1 .. BlockLen - padding : rest[i] = text[n - BlockLen + i]
  <2>1. n - BlockLen + 1 \in Nat \ {0} /\ n - padding \in Int /\ n - padding <= Len(text)
    BY <1>1
  <2>2. /\ rest \in Seq(Byte)
        /\ Len(rest) = IF n - BlockLen + 1 <= n - padding
                         THEN n - padding - (n - BlockLen + 1) + 1 ELSE 0
        /\ \A i \in 1 .. n - padding - (n - BlockLen + 1) + 1 :
             rest[i] = text[n - BlockLen + 1 + i - 1]
    BY <2>1, BytesSubSeq
  <2> HIDE DEF rest
  <2> QED
    BY <1>1, <2>2
<1> HIDE DEF block, rest
<1>4. /\ last \in Seq(Byte) /\ Len(last) = BlockLen - padding
      /\ \A i \in 1 .. BlockLen - padding : last[i] = block[i]
  <2>1. BlockLen - padding \in 0 .. Len(block)
    BY <1>1, <1>2
  <2> QED
    BY <1>2, <2>1, BytesPrefix
<1> HIDE DEF last
<1>5. last = rest
  <2>1. \A i \in 1 .. BlockLen - padding : last[i] = rest[i]
    <3>1. 1 .. BlockLen - padding \subseteq 1 .. BlockLen
      BY <1>1
    <3> QED
      BY <1>2, <1>3, <1>4, <3>1
  <2> QED
    BY <1>3, <1>4, <2>1, SeqEqual
<1>6. SubSeq(text, 1, n - BlockLen) \o rest = SubSeq(text, 1, n - padding)
  <2>1. n - BlockLen \in Nat /\ n - padding \in Nat
        /\ n - BlockLen <= n - padding /\ n - padding <= Len(text)
    BY <1>1
  <2> QED
    BY <2>1, BytesPrefixGrows DEF rest
<1>7. SubSeq(text, 1, n - padding) \in Seq(Byte)
  <2>1. n - padding \in 0 .. Len(text)
    BY <1>1
  <2> QED
    BY <2>1, BytesPrefix
<1> QED
  BY <1>4, <1>5, <1>6, <1>7 DEF LastBytes, last, block

----------------------------------------------------------------------------
(* The inductive invariant                                                 *)

Reset == {"idle", "derive", "input", "output", "start"}
Inside == {"loop", "final"}

\* Where a job is in its two files, and that no call has overrun buffer_out.
PositionOK ==
  /\ step \in Reset => pos = 0 /\ out = <<>> /\ trouble = {}
  /\ step \in {"output", "start"} \union Inside => fs[job.src] # Absent
  /\ step \in {"start"} \union Inside => fs[job.dst] = <<>>
  /\ step \in Inside =>
       /\ pos <= Len(fs[job.src])
       /\ Encrypting => Len(runs) > 0
       /\ ~ Encrypting => pos >= HeaderLen
  /\ step = "final" /\ trouble = {} => pos = Len(fs[job.src])
  /\ OutputFitsBuffer

\* Which files are still those of the click.
FilesOK ==
  /\ step \in {"derive", "input", "output"} => fs = before
  /\ OpenErrorChangesNothing
  /\ step \in {"start"} \union Inside => \A p \in Paths \ {job.dst} : fs[p] = before[p]

\* An encryption has written its header and the complete blocks of what it has
\* read.
EncryptedOK ==
  step \in Inside /\ Encrypting =>
    LET r == Len(runs)
    IN  /\ runs[r].password = job.password
        /\ runs[r].text = SubSeq(fs[job.src], 1, pos)
        /\ out = Sealed(r, Blocks(pos))

\* A decryption has written what DecryptUpdate lets out of all it has read.
DecryptedOK ==
  step \in Inside /\ ~ Encrypting =>
    out = SubSeq(Deciphered(runs, fs[job.src], job.password), 1, Released(pos - HeaderLen))

FileInv ==
  /\ TypeOK
  /\ PositionOK
  /\ FilesOK
  /\ EncryptedOK
  /\ DecryptedOK
  /\ EncryptionIsRecoverable
  /\ DecryptionIsWhole

----------------------------------------------------------------------------
(* What the steps have in common                                           *)

LEMMA JobFields ==
  ASSUME TypeOK, step # "idle"
  PROVE  /\ job \in Job /\ job # NoJob
         /\ job.mode \in {"encrypt", "decrypt"}
         /\ job.src \in Paths /\ job.dst \in Paths
         /\ job.password \in Passwords
<1>1. job \in Job /\ job # NoJob
  BY DEF TypeOK
<1> QED
  BY <1>1 DEF Job

\* A source that was opened is a sequence of bytes.
LEMMA SourceBytes ==
  ASSUME TypeOK, step # "idle", fs[job.src] # Absent
  PROVE  fs[job.src] \in Seq(Byte) /\ Len(fs[job.src]) \in Nat
<1>1. fs[job.src] \in Seq(Byte)
  BY JobFields DEF TypeOK, Contents
<1> QED
  BY <1>1, LenProperties

\* fread stays inside its buffer and its file.
LEMMA ReadLengthsProperties ==
  ASSUME TypeOK, step # "idle", fs[job.src] # Absent, pos <= Len(fs[job.src]),
         NEW n \in ReadLengths
  PROVE  n \in Nat /\ n <= BufLen /\ pos + n <= Len(fs[job.src])
<1> DEFINE most == Minimum(BufLen, Len(fs[job.src]) - pos)
<1>1. pos \in Nat /\ Len(fs[job.src]) \in Nat /\ BufLen \in Nat
  BY SourceBytes, SizesAssumption DEF TypeOK
<1>2. most \in Nat /\ most <= BufLen /\ pos + most <= Len(fs[job.src])
  BY <1>1 DEF Minimum
<1>3. n \in 0 .. most
  BY <1>2 DEF ReadLengths
<1> HIDE DEF most
<1> QED
  BY <1>1, <1>2, <1>3

\* When nothing failed unseen, fclose has written all the bytes it was given.
LEMMA CloseWrites ==
  ASSUME TypeOK, step # "idle", NEW bytes \in Seq(Byte), Close(bytes)
  PROVE  /\ fs' \in [Paths -> Contents]
         /\ trouble' \subseteq {"read", "disk"}
         /\ trouble' = {} => trouble = {} /\ fs' = [fs EXCEPT ![job.dst] = bytes]
<1>1. CASE fs' = [fs EXCEPT ![job.dst] = bytes] /\ UNCHANGED trouble
  BY <1>1 DEF TypeOK, Contents
<1>2. CASE /\ \E n \in 0 .. Len(bytes) - 1 : fs' = [fs EXCEPT ![job.dst] = SubSeq(bytes, 1, n)]
           /\ trouble' = trouble \union {"disk"}
  <2>1. PICK n \in 0 .. Len(bytes) - 1 : fs' = [fs EXCEPT ![job.dst] = SubSeq(bytes, 1, n)]
    BY <1>2
  <2>2. Len(bytes) \in Nat
    BY LenProperties
  <2>3. n \in 0 .. Len(bytes)
    BY <2>2
  <2>4. SubSeq(bytes, 1, n) \in Seq(Byte)
    BY <2>3, BytesPrefix
  <2>5. fs' \in [Paths -> Contents]
    BY <2>1, <2>4 DEF TypeOK, Contents
  <2> QED
    BY <1>2, <2>5 DEF TypeOK
<1> QED
  BY <1>1, <1>2 DEF Close

\* What is left to show of a step to the result box.
LEMMA Reported ==
  ASSUME step' = "report", TypeOK', OutputFitsBuffer',
         result' = ERR_FILE_OPEN => fs' = before',
         result' = 0 => EncryptionIsRecoverable' /\ DecryptionIsWhole'
  PROVE  FileInv'
<1>1. EncryptionIsRecoverable' /\ DecryptionIsWhole'
  BY DEF EncryptionIsRecoverable, DecryptionIsWhole, Succeeded
<1>2. FilesOK'
  BY DEF FilesOK, OpenErrorChangesNothing, Inside
<1>3. PositionOK' /\ EncryptedOK' /\ DecryptedOK'
  BY DEF PositionOK, EncryptedOK, DecryptedOK, Reset, Inside
<1> QED
  BY <1>1, <1>2, <1>3 DEF FileInv

\* What is left to show of any other step.
LEMMA NotReported ==
  ASSUME step' # "report", TypeOK', PositionOK', EncryptedOK', DecryptedOK',
         step' \in {"derive", "input", "output"} => fs' = before',
         step' \in {"start"} \union Inside =>
           \A p \in Paths \ {job'.dst} : fs'[p] = before'[p]
  PROVE  FileInv'
<1>1. EncryptionIsRecoverable' /\ DecryptionIsWhole' /\ OpenErrorChangesNothing'
  BY DEF EncryptionIsRecoverable, DecryptionIsWhole, OpenErrorChangesNothing, Succeeded
<1>2. FilesOK'
  BY <1>1 DEF FilesOK, Inside
<1> QED
  BY <1>1, <1>2 DEF FileInv

LEMMA FailKeeps ==
  ASSUME FileInv, step # "idle", Fail(ERR_AES_KEY)
  PROVE  FileInv'
<1>1. TypeOK /\ OutputFitsBuffer /\ out \in Seq(Byte) /\ Close(out)
  BY DEF FileInv, PositionOK, TypeOK, Fail
<1>2. fs' \in [Paths -> Contents] /\ trouble' \subseteq {"read", "disk"}
  BY <1>1, CloseWrites
<1>3. step' = "report" /\ result' = ERR_AES_KEY
      /\ UNCHANGED <<job, pos, out, used, runs, before>>
  BY DEF Fail
<1>4. TypeOK'
  BY <1>1, <1>2, <1>3 DEF TypeOK, Steps
<1>5. OutputFitsBuffer'
  BY <1>1, <1>3 DEF OutputFitsBuffer, OutBufLen
<1> QED
  BY <1>3, <1>4, <1>5, Reported DEF ERR_FILE_OPEN, ERR_AES_KEY

----------------------------------------------------------------------------
(* The steps that read and write                                           *)

\* What an encryption has done when it is inside its loop.
LEMMA EncryptedProperties ==
  ASSUME FileInv, step \in Inside, Encrypting
  PROVE  LET r == Len(runs)
         IN  /\ TypeOK /\ step # "idle" /\ fs[job.src] # Absent
             /\ fs[job.src] \in Seq(Byte) /\ Len(fs[job.src]) \in Nat
             /\ pos \in Nat /\ pos <= Len(fs[job.src])
             /\ runs \in Seq(Run) /\ r \in DOMAIN runs /\ r \in Nat
             /\ runs[r].password = job.password
             /\ runs[r].text = SubSeq(fs[job.src], 1, pos)
             /\ Len(runs[r].text) = pos
             /\ out = Sealed(r, Blocks(pos))
<1>1. TypeOK /\ PositionOK /\ EncryptedOK /\ step # "idle"
  BY DEF FileInv, Inside
<1>2. fs[job.src] # Absent /\ pos <= Len(fs[job.src]) /\ Len(runs) > 0
  BY <1>1 DEF PositionOK
<1>3. fs[job.src] \in Seq(Byte) /\ Len(fs[job.src]) \in Nat
  BY <1>1, <1>2, SourceBytes
<1>4. pos \in Nat /\ runs \in Seq(Run)
  BY <1>1 DEF TypeOK, Run
<1>5. Len(runs) \in DOMAIN runs /\ Len(runs) \in Nat
  BY <1>2, <1>4, LenProperties
<1>6. /\ runs[Len(runs)].password = job.password
      /\ runs[Len(runs)].text = SubSeq(fs[job.src], 1, pos)
      /\ out = Sealed(Len(runs), Blocks(pos))
  BY <1>1 DEF EncryptedOK
<1>7. Len(SubSeq(fs[job.src], 1, pos)) = pos
  <2>1. pos \in 0 .. Len(fs[job.src])
    BY <1>2, <1>3, <1>4
  <2> QED
    BY <1>3, <2>1, BytesPrefix
<1> QED
  BY <1>1, <1>2, <1>3, <1>4, <1>5, <1>6, <1>7

LEMMA EncryptChunkKeeps ==
  ASSUME FileInv, EncryptChunk
  PROVE  FileInv'
<1> DEFINE r == Len(runs)
           src == fs[job.src]
<1>1. /\ TypeOK /\ PositionOK /\ step # "idle" /\ step = "loop" /\ Encrypting
      /\ fs[job.src] # Absent /\ src \in Seq(Byte) /\ Len(src) \in Nat
      /\ pos \in Nat /\ pos <= Len(src)
      /\ runs \in Seq(Run) /\ r \in DOMAIN runs /\ r \in Nat
      /\ runs[r].password = job.password
      /\ runs[r].text = SubSeq(src, 1, pos)
      /\ Len(runs[r].text) = pos
      /\ out = Sealed(r, Blocks(pos))
  BY EncryptedProperties DEF EncryptChunk, Inside, FileInv
<1>2. PICK n \in ReadLengths \ {0} :
        /\ pos' = pos + n
        /\ runs' = [runs EXCEPT ![r].text = @ \o SubSeq(src, pos + 1, pos + n)]
        /\ out' = out \o Stream("cipher", r, Blocks(pos) + 1, Blocks(pos + n))
        /\ used' = Blocks(pos + n) - Blocks(pos)
  BY <1>1 DEF EncryptChunk
<1>3. UNCHANGED <<fs, step, job, result, before, trouble>>
  BY DEF EncryptChunk
<1>4. n \in Nat /\ n <= BufLen /\ pos + n <= Len(src) /\ pos + n \in Nat /\ pos <= pos + n
  BY <1>1, ReadLengthsProperties
<1> HIDE DEF r, src
<1>5. /\ SubSeq(src, pos + 1, pos + n) \in Seq(Byte)
      /\ SubSeq(src, 1, pos) \o SubSeq(src, pos + 1, pos + n) = SubSeq(src, 1, pos + n)
  BY <1>1, <1>4, BytesPrefixGrows
<1>6. /\ runs' \in Seq(Run) /\ Len(runs') = r
      /\ runs'[r].password = job.password
      /\ runs'[r].text = SubSeq(src, 1, pos + n)
  <2>1. PICK text \in Seq(Byte) : text = SubSeq(src, 1, pos + n)
    <3>1. pos + n \in 0 .. Len(src)
      BY <1>1, <1>4
    <3> QED
      BY <1>1, <3>1, BytesPrefix
  <2>2. runs' = WithText(runs, r, text)
    BY <1>1, <1>2, <1>5, <2>1 DEF WithText
  <2>3. runs \in Seq(Run) /\ r \in DOMAIN runs /\ r = Len(runs)
        /\ runs[r].password = job.password
    BY <1>1 DEF r
  <2> QED
    BY <2>1, <2>2, <2>3, WithTextProperties
<1>7. /\ Blocks(pos) \in Nat /\ Blocks(pos + n) \in Nat
      /\ Blocks(pos) <= Blocks(pos + n)
      /\ pos < Blocks(pos) + BlockLen
      /\ Blocks(pos + n) <= pos + n
  BY <1>1, <1>4, BlocksProperties, BlocksMonotonic
<1>8. out' = Sealed(r, Blocks(pos + n)) /\ out' \in Seq(Byte)
  <2>1. PICK k \in Nat, l \in Nat : k = Blocks(pos) /\ l = Blocks(pos + n) /\ k <= l
    BY <1>7
  <2>2. r \in Nat /\ out = Sealed(r, k) /\ out' = out \o Stream("cipher", r, k + 1, l)
    BY <1>1, <1>2, <2>1
  <2>3. Sealed(r, k) \o Stream("cipher", r, k + 1, l) = Sealed(r, l)
    BY <2>1, <2>2, SealedGrows
  <2>4. Sealed(r, l) \in Seq(Byte)
    BY <2>2, SealedProperties
  <2> QED
    BY <2>1, <2>2, <2>3, <2>4
<1>9. used' \in Nat /\ used' <= BufLen + BlockLen
  <2>1. PICK k \in Nat, l \in Nat : k = Blocks(pos) /\ l = Blocks(pos + n)
    BY <1>7
  <2>2. used' = l - k /\ k <= l /\ pos < k + BlockLen /\ l <= pos + n
    BY <1>2, <1>7, <2>1
  <2>3. pos \in Nat /\ BlockLen \in Nat /\ BufLen \in Nat
    BY <1>1, SizesAssumption
  <2> QED
    BY <1>4, <2>2, <2>3
<1>10. TypeOK'
  BY <1>1, <1>2, <1>3, <1>4, <1>6, <1>8, <1>9 DEF TypeOK, Run
<1>11. PositionOK'
  <2>1. fs'[job'.src] = src /\ Len(runs') > 0
    BY <1>1, <1>3, <1>6, LenProperties DEF src, r
  <2> QED
    BY <1>1, <1>2, <1>3, <1>4, <1>9, <2>1
    DEF PositionOK, Reset, Inside, Encrypting, OutputFitsBuffer, OutBufLen, src
<1>12. EncryptedOK'
  BY <1>2, <1>3, <1>6, <1>8 DEF EncryptedOK, src
<1>13. DecryptedOK'
  BY <1>1, <1>3 DEF DecryptedOK, Encrypting
<1>14. \A p \in Paths \ {job'.dst} : fs'[p] = before'[p]
  <2>1. \A p \in Paths \ {job.dst} : fs[p] = before[p]
    BY <1>1 DEF FileInv, FilesOK, Inside
  <2> QED
    BY <1>3, <2>1
<1> QED
  BY <1>1, <1>3, <1>10, <1>11, <1>12, <1>13, <1>14, NotReported

LEMMA EncryptFinalKeeps ==
  ASSUME FileInv, EncryptFinal
  PROVE  FileInv'
<1> DEFINE r == Len(runs)
           src == fs[job.src]
<1>1. /\ TypeOK /\ PositionOK /\ step # "idle" /\ step = "final" /\ Encrypting
      /\ src \in Seq(Byte) /\ Len(src) \in Nat
      /\ pos \in Nat /\ pos <= Len(src)
      /\ runs \in Seq(Run) /\ r \in DOMAIN runs /\ r \in Nat
      /\ runs[r].password = job.password
      /\ runs[r].text = SubSeq(src, 1, pos)
      /\ Len(runs[r].text) = pos
      /\ out = Sealed(r, Blocks(pos))
  BY EncryptedProperties DEF EncryptFinal, Inside, FileInv
<1>2. PICK padding \in 1 .. BlockLen, n \in Nat :
        /\ padding = BlockLen - (pos % BlockLen)
        /\ n = pos + padding /\ n % BlockLen = 0 /\ Blocks(pos) <= n
  <2>1. LET padding == BlockLen - (pos % BlockLen)
        IN  /\ padding \in 1 .. BlockLen
            /\ Blocks(pos) <= pos + padding
            /\ (pos + padding) % BlockLen = 0
    BY <1>1, PaddingProperties, Zenon
  <2>2. \A padding \in 1 .. BlockLen : pos + padding \in Nat
    BY <1>1, SizesAssumption
  <2> QED
    BY <2>1, <2>2
<1> DEFINE pads == Pads(padding)
           last == Stream("cipher", r, Blocks(pos) + 1, n)
<1>3. /\ runs' = [runs EXCEPT ![r].text = @ \o pads]
      /\ out' = out \o last
      /\ used' = BlockLen
      /\ Close(out \o last)
  BY <1>1, <1>2 DEF EncryptFinal, Pads
<1>4. step' = "report" /\ result' = 0 /\ UNCHANGED <<job, pos, before>>
  BY DEF EncryptFinal
<1>5. pads \in Seq(Byte)
  <2>1. padding \in Nat /\ Pad(padding) \in Byte
    BY <1>2, SizesAssumption DEF Pad, Byte
  <2>2. pads \in [1 .. padding -> Byte]
    BY <2>1 DEF Pads
  <2> HIDE DEF pads
  <2> QED
    BY <2>1, <2>2, FunctionIsSeq
<1> HIDE DEF r, src, pads, last
<1>6. PICK text \in Seq(Byte) : text = SubSeq(src, 1, pos) \o pads
  <2>1. pos \in 0 .. Len(src)
    BY <1>1
  <2>2. SubSeq(src, 1, pos) \in Seq(Byte)
    BY <1>1, <2>1, BytesPrefix
  <2> QED
    BY <1>5, <2>2, BytesConcat
<1>7. /\ runs' \in Seq(Run) /\ r \in DOMAIN runs'
      /\ runs'[r].password = job.password
      /\ runs'[r].text = text
  <2>1. runs' = WithText(runs, r, text)
    BY <1>1, <1>3, <1>6 DEF WithText
  <2>2. runs \in Seq(Run) /\ r \in DOMAIN runs /\ runs[r].password = job.password
    BY <1>1
  <2> QED
    BY <2>1, <2>2, WithTextProperties
<1>8. PICK bytes \in Seq(Byte) : bytes = Sealed(r, n) /\ bytes = out \o last
  <2>1. PICK k \in Nat : k = Blocks(pos) /\ k <= n
    BY <1>1, <1>2, BlocksProperties
  <2>2. r \in Nat /\ out = Sealed(r, k) /\ last = Stream("cipher", r, k + 1, n)
    BY <1>1, <2>1 DEF last
  <2>3. Sealed(r, k) \o Stream("cipher", r, k + 1, n) = Sealed(r, n)
    BY <2>1, <2>2, SealedGrows
  <2>4. Sealed(r, n) \in Seq(Byte)
    BY <2>2, SealedProperties
  <2> QED
    BY <2>2, <2>3, <2>4
<1>9. /\ fs' \in [Paths -> Contents]
      /\ trouble' \subseteq {"read", "disk"}
      /\ trouble' = {} => trouble = {} /\ fs' = [fs EXCEPT ![job.dst] = bytes]
  <2>1. Close(bytes)
    BY <1>3, <1>8
  <2> QED
    BY <1>1, <2>1, CloseWrites
<1>10. TypeOK'
  <2>1. out' \in Seq(Byte) /\ used' \in Nat
    BY <1>3, <1>8, SizesAssumption
  <2> QED
    BY <1>1, <1>4, <1>7, <1>9, <2>1 DEF TypeOK, Run, Steps
<1>11. OutputFitsBuffer'
  BY <1>3, SizesAssumption DEF OutputFitsBuffer, OutBufLen
<1>12. EncryptionIsRecoverable'
  <2> SUFFICES ASSUME trouble' = {}, job.src # job.dst
               PROVE  WholeDecryption(runs', fs'[job.dst], job.password) = {before[job.src]}
    BY <1>4 DEF EncryptionIsRecoverable
  <2>1. trouble = {} /\ fs' = [fs EXCEPT ![job.dst] = bytes]
    BY <1>9
  <2>2. fs'[job.dst] = Sealed(r, n)
    BY <1>1, <1>8, <2>1, JobFields DEF TypeOK
  <2>3. before[job.src] = src
    BY <1>1, JobFields DEF FileInv, FilesOK, Inside, src
  <2>4. pos = Len(src)
    BY <1>1, <2>1 DEF PositionOK, Inside, src
  <2>5. SubSeq(src, 1, pos) = src
    BY <1>1, <2>4, SubSeqFull
  <2>6. runs'[r].text = src \o Pads(padding)
    BY <1>6, <1>7, <2>5 DEF pads
  <2>7. n = Len(src) + padding /\ n % BlockLen = 0
    BY <1>2, <2>4
  <2>8. PICK rs \in Seq(Run) : rs = runs' /\ r \in DOMAIN rs
    BY <1>7
  <2>9. PICK s \in Seq(Byte) : s = src
    BY <1>1
  <2>10. Padded(rs[r].text, s, padding, n)
    BY <2>6, <2>7, <2>8, <2>9 DEF Padded
  <2>11. Recovers(rs, Sealed(r, n), rs[r].password, s)
    BY <2>8, <2>10, SealedIsRecovered
  <2> QED
    BY <1>7, <2>2, <2>3, <2>8, <2>9, <2>11 DEF Recovers
<1>13. DecryptionIsWhole'
  BY <1>1, <1>4 DEF DecryptionIsWhole, Succeeded, Encrypting
<1> QED
  BY <1>4, <1>10, <1>11, <1>12, <1>13, Reported DEF ERR_FILE_OPEN

\* What a decryption has done when it is inside its loop.
LEMMA DecryptedProperties ==
  ASSUME FileInv, step \in Inside, ~ Encrypting
  PROVE  /\ TypeOK /\ step # "idle" /\ fs[job.src] # Absent
         /\ fs[job.src] \in Seq(Byte) /\ Len(fs[job.src]) \in Nat
         /\ HeaderLen \in Nat /\ pos \in Nat /\ pos - HeaderLen \in Nat
         /\ pos <= Len(fs[job.src])
         /\ Deciphered(runs, fs[job.src], job.password) \in Seq(Byte)
         /\ Len(Deciphered(runs, fs[job.src], job.password)) = Len(fs[job.src]) - HeaderLen
         /\ out = SubSeq(Deciphered(runs, fs[job.src], job.password), 1,
                         Released(pos - HeaderLen))
         /\ job.mode = "decrypt" /\ job.src # job.dst
<1>1. TypeOK /\ PositionOK /\ DecryptedOK /\ step # "idle"
  BY DEF FileInv, Inside
<1>2. fs[job.src] # Absent /\ pos <= Len(fs[job.src]) /\ pos >= HeaderLen
      /\ fs[job.dst] = <<>>
  BY <1>1 DEF PositionOK
<1>3. fs[job.src] \in Seq(Byte) /\ Len(fs[job.src]) \in Nat
  BY <1>1, <1>2, SourceBytes
<1>4. /\ pos \in Nat /\ HeaderLen \in Nat /\ HeaderLen > 0
      /\ pos - HeaderLen \in Nat
      /\ Len(fs[job.src]) >= HeaderLen
  BY <1>1, <1>2, <1>3, SizesAssumption DEF TypeOK, HeaderLen
<1>5. runs \in Seq(Run)
  BY <1>1 DEF TypeOK, Run
<1>6. /\ Deciphered(runs, fs[job.src], job.password) \in Seq(Byte)
      /\ Len(Deciphered(runs, fs[job.src], job.password)) = Len(fs[job.src]) - HeaderLen
  BY <1>3, <1>4, <1>5, DecipheredProperties
<1>7. job.src # job.dst
  <2>1. Len(<<>>) = 0
    OBVIOUS
  <2> QED
    BY <1>2, <1>3, <1>4, <2>1
<1>8. job.mode = "decrypt"
  BY <1>1, JobFields DEF Encrypting
<1> QED
  BY <1>1, <1>2, <1>3, <1>4, <1>6, <1>7, <1>8 DEF DecryptedOK

LEMMA DecryptChunkKeeps ==
  ASSUME FileInv, DecryptChunk
  PROVE  FileInv'
<1> DEFINE src == fs[job.src]
           had == pos - HeaderLen
           text == Deciphered(runs, src, job.password)
<1>1. /\ TypeOK /\ PositionOK /\ step # "idle" /\ step = "loop" /\ ~ Encrypting
      /\ fs[job.src] # Absent /\ src \in Seq(Byte) /\ Len(src) \in Nat
      /\ HeaderLen \in Nat /\ pos \in Nat /\ had \in Nat /\ pos <= Len(src)
      /\ text \in Seq(Byte) /\ Len(text) = Len(src) - HeaderLen
      /\ out = SubSeq(text, 1, Released(had))
  BY DecryptedProperties DEF DecryptChunk, Inside, FileInv
<1>2. PICK n \in ReadLengths \ {0} :
        /\ pos' = pos + n
        /\ out' = out \o SubSeq(text, Released(had) + 1, Released(had + n))
        /\ used' = Blocks(had + n) - Released(had)
  BY <1>1 DEF DecryptChunk
<1>3. UNCHANGED <<fs, step, job, result, runs, before, trouble>>
  BY DEF DecryptChunk
<1>4. n \in Nat /\ n <= BufLen /\ pos + n <= Len(src)
  BY <1>1, ReadLengthsProperties
<1>5. /\ had + n \in Nat /\ had <= had + n /\ had + n <= Len(text)
      /\ pos + n \in Nat /\ pos + n - HeaderLen = had + n
  BY <1>1, <1>4
<1> HIDE DEF src, had, text
<1>6. /\ Released(had) \in Nat /\ Released(had + n) \in Nat
      /\ Released(had) <= Released(had + n)
      /\ Released(had + n) <= Len(text)
      /\ Blocks(had + n) \in Nat /\ Released(had) <= Blocks(had + n)
      /\ Blocks(had + n) - Released(had) <= n + BlockLen
  <2>1. PICK m \in Nat : m = had + n /\ had <= m /\ m <= Len(text)
    BY <1>5
  <2>2. /\ Released(had) \in Nat /\ Released(m) \in Nat
        /\ Released(had) <= Released(m) /\ Released(m) <= Blocks(m)
        /\ Blocks(m) \in Nat /\ Blocks(m) <= m
        /\ had <= Released(had) + BlockLen
    BY <1>1, <2>1, ReleasedProperties, ReleasedMonotonic, BlocksProperties
  <2> QED
    BY <1>1, <1>4, <2>1, <2>2, SizesAssumption, SMTT(30)
<1>7. out' = SubSeq(text, 1, Released(had + n)) /\ out' \in Seq(Byte)
  <2>1. PICK k \in Nat, l \in Nat :
          k = Released(had) /\ l = Released(had + n) /\ k <= l /\ l <= Len(text)
    BY <1>6
  <2>2. SubSeq(text, 1, k) \o SubSeq(text, k + 1, l) = SubSeq(text, 1, l)
    BY <1>1, <2>1, BytesPrefixGrows
  <2>3. SubSeq(text, 1, l) \in Seq(Byte)
    <3>1. l \in 0 .. Len(text)
      BY <1>1, <2>1
    <3> QED
      BY <1>1, <3>1, BytesPrefix
  <2> QED
    BY <1>1, <1>2, <2>1, <2>2, <2>3
<1>8. used' \in Nat /\ used' <= BufLen + BlockLen
  <2>1. PICK k \in Nat, l \in Nat :
          k = Released(had) /\ l = Blocks(had + n) /\ k <= l /\ l - k <= n + BlockLen
    BY <1>6
  <2>2. used' = l - k
    BY <1>2, <2>1
  <2> QED
    BY <1>4, <2>1, <2>2, SizesAssumption
<1>9. TypeOK'
  BY <1>1, <1>2, <1>3, <1>5, <1>7, <1>8 DEF TypeOK
<1>10. PositionOK'
  <2>1. pos' >= HeaderLen
    BY <1>1, <1>2, <1>4 DEF had
  <2> QED
    BY <1>1, <1>2, <1>3, <1>4, <1>8, <2>1
    DEF PositionOK, Reset, Inside, Encrypting, OutputFitsBuffer, OutBufLen, src
<1>11. EncryptedOK'
  BY <1>1, <1>3 DEF EncryptedOK, Encrypting
<1>12. DecryptedOK'
  <2>1. pos' - HeaderLen = had + n
    BY <1>1, <1>2, <1>4, <1>5
  <2>2. Deciphered(runs', fs'[job'.src], job'.password) = text
    BY <1>3 DEF text, src
  <2> QED
    BY <1>7, <2>1, <2>2 DEF DecryptedOK
<1>13. \A p \in Paths \ {job'.dst} : fs'[p] = before'[p]
  <2>1. \A p \in Paths \ {job.dst} : fs[p] = before[p]
    BY <1>1 DEF FileInv, FilesOK, Inside
  <2> QED
    BY <1>3, <2>1
<1> QED
  BY <1>1, <1>3, <1>9, <1>10, <1>11, <1>12, <1>13, NotReported

LEMMA DecryptFinalKeeps ==
  ASSUME FileInv, DecryptFinal
  PROVE  FileInv'
<1> DEFINE src == fs[job.src]
           had == pos - HeaderLen
           text == Deciphered(runs, src, job.password)
           block == SubSeq(text, had - BlockLen + 1, had)
<1>1. /\ TypeOK /\ PositionOK /\ FilesOK /\ step # "idle" /\ step = "final" /\ ~ Encrypting
      /\ src \in Seq(Byte) /\ Len(src) \in Nat
      /\ HeaderLen \in Nat /\ pos \in Nat /\ had \in Nat /\ pos <= Len(src)
      /\ text \in Seq(Byte) /\ Len(text) = Len(src) - HeaderLen
      /\ out = SubSeq(text, 1, Released(had))
      /\ job.mode = "decrypt" /\ job.src # job.dst
  BY DecryptedProperties DEF DecryptFinal, Inside, FileInv
<1>2. CASE Fail(ERR_AES_KEY)
  BY <1>1, <1>2, FailKeeps
<1>3. ASSUME had > 0, had % BlockLen = 0,
             NEW padding \in PaddingOf(block) \ {0},
             out' = out \o SubSeq(block, 1, BlockLen - padding),
             used' = Len(SubSeq(block, 1, BlockLen - padding)),
             Close(out \o SubSeq(block, 1, BlockLen - padding)),
             step' = "report", result' = 0, UNCHANGED <<job, pos, runs, before>>
      PROVE  FileInv'
  <2> DEFINE last == LastBytes(text, had, padding)
  <2>1. padding \in 1 .. BlockLen /\ BlockLen \in Nat
    BY <1>3, SizesAssumption, PaddingLengths
  <2>2. out' = out \o last /\ used' = Len(last) /\ Close(out \o last)
    BY <1>3 DEF LastBytes
  <2>3. /\ Released(had) = had - BlockLen /\ had >= BlockLen /\ had <= Len(text)
        /\ had \in Nat
    <3>1. PICK m \in Nat : m = had /\ m > 0 /\ m % BlockLen = 0
      BY <1>1, <1>3
    <3>2. Released(m) = m - BlockLen /\ m >= BlockLen
      BY <3>1, ReleasedProperties, WholeBlocks
    <3>3. had <= Len(text)
      BY <1>1
    <3> QED
      BY <3>1, <3>2, <3>3
  <2> HIDE DEF src, had, text, block, last
  <2>4. PICK bytes \in Seq(Byte) : bytes = out \o last /\ bytes = SubSeq(text, 1, had - padding)
    <3>1. /\ SubSeq(text, 1, had - BlockLen) \o last = SubSeq(text, 1, had - padding)
          /\ SubSeq(text, 1, had - padding) \in Seq(Byte)
      BY <1>1, <2>1, <2>3, LastBlock DEF last
    <3> QED
      BY <1>1, <2>3, <3>1
  <2>5. Len(last) = BlockLen - padding
    BY <1>1, <2>1, <2>3, LastBlock DEF last
  <2>6. used' \in Nat /\ used' <= BufLen + BlockLen
    BY <2>1, <2>2, <2>5, SizesAssumption
  <2>7. /\ fs' \in [Paths -> Contents]
        /\ trouble' \subseteq {"read", "disk"}
        /\ trouble' = {} => trouble = {} /\ fs' = [fs EXCEPT ![job.dst] = bytes]
    <3>1. Close(bytes)
      BY <2>2, <2>4
    <3> QED
      BY <1>1, <3>1, CloseWrites
  <2>8. TypeOK'
    BY <1>1, <1>3, <2>2, <2>4, <2>6, <2>7 DEF TypeOK, Steps
  <2>9. OutputFitsBuffer'
    BY <2>6 DEF OutputFitsBuffer, OutBufLen
  <2>10. EncryptionIsRecoverable'
    BY <1>1, <1>3 DEF EncryptionIsRecoverable, Succeeded
  <2>11. DecryptionIsWhole'
    <3> SUFFICES ASSUME trouble' = {}
                 PROVE  fs'[job.dst] \in WholeDecryption(runs, before[job.src], job.password)
      BY <1>3 DEF DecryptionIsWhole
    <3>1. trouble = {} /\ fs'[job.dst] = SubSeq(text, 1, had - padding)
      BY <1>1, <2>4, <2>7, JobFields DEF TypeOK
    <3>2. before[job.src] = src
      BY <1>1, JobFields DEF FilesOK, Inside, src
    <3>3. had = Len(src) - HeaderLen
      BY <1>1, <3>1 DEF PositionOK, Inside, had, src
    <3>4. ~ (had <= 0 \/ had % BlockLen # 0)
      BY <1>3, <2>3
    <3>5. padding \in PaddingOf(SubSeq(text, had - BlockLen + 1, had)) \ {0}
      BY <1>3 DEF block
    <3>6. WholeDecryption(runs, src, job.password) =
            {SubSeq(text, 1, had - p) : p \in PaddingOf(SubSeq(text, had - BlockLen + 1, had)) \ {0}}
      BY <3>3, <3>4 DEF WholeDecryption, text
    <3> QED
      BY <3>1, <3>2, <3>5, <3>6
  <2> QED
    BY <1>3, <2>8, <2>9, <2>10, <2>11, Reported DEF ERR_FILE_OPEN
<1> QED
  BY <1>1, <1>2, <1>3 DEF DecryptFinal

----------------------------------------------------------------------------
(* The steps that open and start                                           *)

LEMMA ConfirmKeeps ==
  ASSUME FileInv, NEW j \in Job, Confirm(j)
  PROVE  FileInv'
<1>1. /\ TypeOK /\ PositionOK /\ step = "idle" /\ step' = "derive" /\ job' = j
      /\ before' = fs
      /\ UNCHANGED <<fs, pos, out, used, result, runs, trouble>>
  BY DEF FileInv, Confirm
<1>2. TypeOK'
  BY <1>1, OriginalsAssumption DEF TypeOK, Steps
<1>3. PositionOK' /\ EncryptedOK' /\ DecryptedOK'
  BY <1>1 DEF PositionOK, EncryptedOK, DecryptedOK, Reset, Inside, OutputFitsBuffer, OutBufLen
<1> QED
  BY <1>1, <1>2, <1>3, NotReported DEF Inside

LEMMA DeriveKeeps ==
  ASSUME FileInv, DeriveKeyAndIV
  PROVE  FileInv'
<1>1. /\ TypeOK /\ PositionOK /\ FilesOK /\ step = "derive" /\ step' \in {"input", "exited"}
      /\ UNCHANGED <<fs, job, pos, out, used, result, runs, before, trouble>>
  BY DEF FileInv, DeriveKeyAndIV
<1>2. TypeOK'
  BY <1>1 DEF TypeOK, Steps
<1>3. PositionOK' /\ EncryptedOK' /\ DecryptedOK'
  BY <1>1 DEF PositionOK, EncryptedOK, DecryptedOK, Reset, Inside, OutputFitsBuffer, OutBufLen
<1> QED
  BY <1>1, <1>2, <1>3, NotReported DEF FilesOK, Inside

LEMMA OpenInputKeeps ==
  ASSUME FileInv, OpenInput
  PROVE  FileInv'
<1>1. /\ TypeOK /\ PositionOK /\ FilesOK /\ step = "input" /\ fs = before
      /\ UNCHANGED <<fs, job, pos, out, used, runs, before, trouble>>
  BY DEF FileInv, FilesOK, OpenInput
<1>2. CASE fs[job.src] # Absent /\ step' = "output" /\ UNCHANGED result
  <2>1. TypeOK'
    BY <1>1, <1>2 DEF TypeOK, Steps
  <2>2. PositionOK' /\ EncryptedOK' /\ DecryptedOK'
    BY <1>1, <1>2
    DEF PositionOK, EncryptedOK, DecryptedOK, Reset, Inside, OutputFitsBuffer, OutBufLen
  <2> QED
    BY <1>1, <1>2, <2>1, <2>2, NotReported DEF Inside
<1>3. CASE step' = "report" /\ result' = ERR_FILE_OPEN
  <2>1. TypeOK'
    BY <1>1, <1>3 DEF TypeOK, Steps
  <2>2. OutputFitsBuffer'
    BY <1>1 DEF PositionOK, OutputFitsBuffer, OutBufLen
  <2> QED
    BY <1>1, <1>3, <2>1, <2>2, Reported DEF ERR_FILE_OPEN
<1> QED
  BY <1>2, <1>3 DEF OpenInput

LEMMA OpenOutputKeeps ==
  ASSUME FileInv, OpenOutput
  PROVE  FileInv'
<1>1. /\ TypeOK /\ PositionOK /\ FilesOK /\ step = "output" /\ step # "idle" /\ fs = before
      /\ fs[job.src] # Absent
      /\ UNCHANGED <<job, pos, out, used, runs, before, trouble>>
  BY DEF FileInv, FilesOK, PositionOK, OpenOutput
<1>2. CASE step' = "start" /\ fs' = [fs EXCEPT ![job.dst] = <<>>] /\ UNCHANGED result
  <2>1. <<>> \in Seq(Byte) /\ <<>> # Absent
    BY EmptySeq, OriginalsAssumption
  <2>2. fs' \in [Paths -> Contents]
    BY <1>1, <1>2, <2>1 DEF TypeOK, Contents
  <2>3. TypeOK'
    BY <1>1, <1>2, <2>2 DEF TypeOK, Steps
  <2>4. /\ fs'[job.dst] = <<>> /\ fs'[job.src] # Absent
        /\ \A p \in Paths \ {job.dst} : fs'[p] = before[p]
    BY <1>1, <1>2, <2>1, JobFields DEF TypeOK
  <2>5. PositionOK' /\ EncryptedOK' /\ DecryptedOK'
    BY <1>1, <1>2, <2>4
    DEF PositionOK, EncryptedOK, DecryptedOK, Reset, Inside, OutputFitsBuffer, OutBufLen
  <2> QED
    BY <1>1, <1>2, <2>3, <2>4, <2>5, NotReported DEF Inside
<1>3. CASE step' = "report" /\ result' = ERR_FILE_OPEN /\ UNCHANGED fs
  <2>1. TypeOK'
    BY <1>1, <1>3 DEF TypeOK, Steps
  <2>2. OutputFitsBuffer'
    BY <1>1 DEF PositionOK, OutputFitsBuffer, OutBufLen
  <2> QED
    BY <1>1, <1>3, <2>1, <2>2, Reported DEF ERR_FILE_OPEN
<1> QED
  BY <1>2, <1>3 DEF OpenOutput

LEMMA EndOfInputKeeps ==
  ASSUME FileInv, EndOfInput
  PROVE  FileInv'
<1>1. /\ TypeOK /\ PositionOK /\ FilesOK /\ EncryptedOK /\ DecryptedOK
      /\ step = "loop" /\ step' = "final"
      /\ trouble' = IF pos < Len(fs[job.src]) THEN trouble \union {"read"} ELSE trouble
      /\ UNCHANGED <<fs, job, pos, out, used, result, runs, before>>
  BY DEF FileInv, EndOfInput
<1>2. TypeOK'
  BY <1>1 DEF TypeOK, Steps
<1>3. trouble' = {} => pos = Len(fs[job.src])
  <2>1. pos \in Nat /\ Len(fs[job.src]) \in Nat /\ pos <= Len(fs[job.src])
    BY <1>1, SourceBytes DEF TypeOK, PositionOK, Inside
  <2> QED
    BY <1>1, <2>1
<1>4. PositionOK'
  BY <1>1, <1>3 DEF PositionOK, Reset, Inside, Encrypting, OutputFitsBuffer, OutBufLen
<1>5. EncryptedOK' /\ DecryptedOK'
  BY <1>1 DEF EncryptedOK, DecryptedOK, Inside, Encrypting
<1> QED
  BY <1>1, <1>2, <1>4, <1>5, NotReported DEF FilesOK, Inside

LEMMA StartEncryptKeeps ==
  ASSUME FileInv, StartEncrypt
  PROVE  FileInv'
<1> DEFINE r == Len(runs) + 1
           run == [password |-> job.password, text |-> <<>>]
<1>1. /\ TypeOK /\ PositionOK /\ FilesOK /\ step = "start" /\ step # "idle" /\ Encrypting
      /\ fs[job.src] # Absent /\ fs[job.dst] = <<>> /\ pos = 0 /\ trouble = {}
      /\ runs' = Append(runs, run) /\ out' = Header(r) /\ step' = "loop"
      /\ UNCHANGED <<fs, job, pos, used, result, before, trouble>>
  BY DEF FileInv, PositionOK, StartEncrypt, Reset
<1>2. run \in Run /\ run.password = job.password /\ run.text = <<>>
  BY <1>1, JobFields, EmptySeq DEF Run
<1>3. runs \in Seq(Run) /\ r \in Nat
  BY <1>1, LenProperties DEF TypeOK, Run
<1> HIDE DEF run
<1>4. runs' \in Seq(Run) /\ Len(runs') = r /\ runs'[r] = run
  BY <1>1, <1>2, <1>3, AppendProperties
<1> HIDE DEF r
<1>5. Header(r) \in Seq(Byte) /\ Header(r) = Sealed(r, Blocks(0))
  <2>1. Blocks(0) = 0
    BY BlocksProperties
  <2>2. Stream("cipher", r, 1, 0) \in Seq(Byte) /\ Len(Stream("cipher", r, 1, 0)) = 0
    BY <1>3, StreamProperties
  <2>3. Stream("cipher", r, 1, 0) = <<>>
    BY <2>2, EmptySeq
  <2>4. Header(r) \in Seq(Byte)
    BY <1>3, HeaderProperties
  <2>5. Header(r) \o <<>> = Header(r)
    BY <2>4, ConcatEmptySeq
  <2> QED
    BY <2>1, <2>3, <2>4, <2>5 DEF Sealed
<1>6. /\ fs[job.src] \in Seq(Byte) /\ Len(fs[job.src]) \in Nat
      /\ SubSeq(fs[job.src], 1, 0) = <<>>
  BY <1>1, SourceBytes, SubSeqEmpty
<1>7. TypeOK'
  BY <1>1, <1>4, <1>5 DEF TypeOK, Run, Steps
<1>8. PositionOK'
  BY <1>1, <1>3, <1>4, <1>6
  DEF PositionOK, Reset, Inside, Encrypting, OutputFitsBuffer, OutBufLen, r
<1>9. EncryptedOK'
  BY <1>1, <1>2, <1>4, <1>5, <1>6 DEF EncryptedOK
<1>10. DecryptedOK'
  BY <1>1 DEF DecryptedOK, Encrypting
<1> QED
  BY <1>1, <1>7, <1>8, <1>9, <1>10, NotReported DEF FilesOK, Inside

LEMMA StartDecryptKeeps ==
  ASSUME FileInv, StartDecrypt
  PROVE  FileInv'
<1>1. /\ TypeOK /\ PositionOK /\ FilesOK /\ step = "start" /\ step # "idle" /\ ~ Encrypting
      /\ fs[job.src] # Absent /\ fs[job.dst] = <<>> /\ out = <<>> /\ trouble = {}
  BY DEF FileInv, PositionOK, StartDecrypt, Reset
<1>2. CASE Fail(ERR_AES_KEY)
  BY <1>1, <1>2, FailKeeps
<1>3. CASE /\ Len(fs[job.src]) >= HeaderLen /\ pos' = HeaderLen
           /\ step' \in {"loop", "exited"}
           /\ UNCHANGED <<fs, job, out, used, result, runs, before, trouble>>
  <2>1. HeaderLen \in Nat /\ Len(fs[job.src]) \in Nat
    BY <1>1, SourceBytes, SizesAssumption DEF HeaderLen
  <2>2. TypeOK'
    BY <1>1, <1>3, <2>1 DEF TypeOK, Steps
  <2>3. PositionOK'
    BY <1>1, <1>3, <2>1
    DEF PositionOK, Reset, Inside, Encrypting, OutputFitsBuffer, OutBufLen
  <2>4. EncryptedOK'
    BY <1>1, <1>3 DEF EncryptedOK, Encrypting
  <2>5. DecryptedOK'
    <3>1. pos' - HeaderLen = 0 /\ Released(0) = 0
      BY <1>3, <2>1 DEF Released
    <3>2. SubSeq(Deciphered(runs', fs'[job'.src], job'.password), 1, 0) = <<>>
      BY SubSeqEmpty
    <3> QED
      BY <1>1, <1>3, <3>1, <3>2 DEF DecryptedOK
  <2> QED
    BY <1>1, <1>3, <2>2, <2>3, <2>4, <2>5, NotReported DEF FilesOK, Inside
<1> QED
  BY <1>2, <1>3 DEF StartDecrypt

LEMMA DismissKeeps ==
  ASSUME FileInv, DismissReport
  PROVE  FileInv'
<1>1. /\ TypeOK /\ step' = "idle" /\ job' = NoJob
      /\ pos' = 0 /\ used' = 0 /\ result' = 0 /\ out' = <<>>
      /\ before' = fs /\ trouble' = {}
      /\ UNCHANGED <<fs, runs>>
  BY DEF FileInv, DismissReport
<1>2. TypeOK'
  BY <1>1, EmptySeq DEF TypeOK, Steps
<1>3. PositionOK' /\ EncryptedOK' /\ DecryptedOK'
  BY <1>1, SizesAssumption
  DEF PositionOK, EncryptedOK, DecryptedOK, Reset, Inside, OutputFitsBuffer, OutBufLen
<1> QED
  BY <1>1, <1>2, <1>3, NotReported DEF Inside

----------------------------------------------------------------------------
(* The theorems                                                            *)

LEMMA InitFileInv == Init => FileInv
<1> SUFFICES ASSUME Init PROVE FileInv
  OBVIOUS
<1>1. TypeOK
  <2>1. fs \in [Paths -> Contents]
    BY OriginalsAssumption DEF Init, Contents
  <2> QED
    BY <2>1, EmptySeq DEF Init, TypeOK, Steps
<1>2. PositionOK /\ FilesOK /\ EncryptedOK /\ DecryptedOK
  BY SizesAssumption
  DEF Init, PositionOK, FilesOK, EncryptedOK, DecryptedOK, Reset, Inside,
      OutputFitsBuffer, OutBufLen, OpenErrorChangesNothing
<1>3. EncryptionIsRecoverable /\ DecryptionIsWhole
  BY DEF Init, EncryptionIsRecoverable, DecryptionIsWhole, Succeeded
<1> QED
  BY <1>1, <1>2, <1>3 DEF FileInv

LEMMA NextFileInv == FileInv /\ [Next]_vars => FileInv'
<1> SUFFICES ASSUME FileInv, [Next]_vars PROVE FileInv'
  OBVIOUS
<1>1. ASSUME NEW j \in Job, Confirm(j) PROVE FileInv'
  BY <1>1, ConfirmKeeps
<1>2. CASE DeriveKeyAndIV
  BY <1>2, DeriveKeeps
<1>3. CASE OpenInput
  BY <1>3, OpenInputKeeps
<1>4. CASE OpenOutput
  BY <1>4, OpenOutputKeeps
<1>5. CASE StartEncrypt
  BY <1>5, StartEncryptKeeps
<1>6. CASE EncryptChunk
  BY <1>6, EncryptChunkKeeps
<1>7. CASE EncryptFinal
  BY <1>7, EncryptFinalKeeps
<1>8. CASE StartDecrypt
  BY <1>8, StartDecryptKeeps
<1>9. CASE DecryptChunk
  BY <1>9, DecryptChunkKeeps
<1>10. CASE DecryptFinal
  BY <1>10, DecryptFinalKeeps
<1>11. CASE EndOfInput
  BY <1>11, EndOfInputKeeps
<1>12. CASE CipherFails
  BY <1>12, FailKeeps DEF CipherFails
<1>13. CASE DismissReport
  BY <1>13, DismissKeeps
<1>14. CASE UNCHANGED vars
  BY <1>14
  DEF vars, FileInv, TypeOK, PositionOK, FilesOK, EncryptedOK, DecryptedOK,
      EncryptionIsRecoverable, DecryptionIsWhole, OpenErrorChangesNothing,
      OutputFitsBuffer, OutBufLen, Succeeded, Inside, Reset, Encrypting
<1> QED
  BY <1>1, <1>2, <1>3, <1>4, <1>5, <1>6, <1>7, <1>8, <1>9, <1>10, <1>11, <1>12, <1>13, <1>14
  DEF Next, Handler

LEMMA FileInvAlways == Spec => []FileInv
BY InitFileInv, NextFileInv, PTL DEF Spec

\* The state always has its types, whatever the job, the files and the failures.
THEOREM TypeCorrect == Spec => []TypeOK
<1>1. FileInv => TypeOK
  BY DEF FileInv
<1> QED
  BY <1>1, FileInvAlways, PTL

\* No EVP call of encryptFile or decryptFile ever stores more in buffer_out than
\* DECRYPT_BUFFER_SIZE and one block, for every length of the buffer, the block
\* and the file.
THEOREM BufferSuffices == Spec => []OutputFitsBuffer
<1>1. FileInv => OutputFitsBuffer
  BY DEF FileInv, PositionOK
<1> QED
  BY <1>1, FileInvAlways, PTL

\* A box that says that a file could not be opened leaves every file as it was.
THEOREM OpenErrorIsHarmless == Spec => []OpenErrorChangesNothing
<1>1. FileInv => OpenErrorChangesNothing
  BY DEF FileInv, FilesOK
<1> QED
  BY <1>1, FileInvAlways, PTL

\* An encryption that reports success, none of its reads and writes having failed
\* unseen and its two paths being different, can be undone, for files of every
\* length and however fread cuts them.
THEOREM EncryptionRecoverable == Spec => []EncryptionIsRecoverable
<1>1. FileInv => EncryptionIsRecoverable
  BY DEF FileInv
<1> QED
  BY <1>1, FileInvAlways, PTL

\* A decryption chunk by chunk that reports success gives what the decryption of
\* the whole file gives, for files of every length and however fread cuts them.
THEOREM DecryptionWhole == Spec => []DecryptionIsWhole
<1>1. FileInv => DecryptionIsWhole
  BY DEF FileInv
<1> QED
  BY <1>1, FileInvAlways, PTL

----------------------------------------------------------------------------
(* What a job that fails leaves behind                                     *)

\* left is a beginning of text.
Begins(left, text) == Len(left) <= Len(text) /\ left = SubSeq(text, 1, Len(left))

\* The beginnings of a beginning.
LEMMA BeginningOfBeginning ==
  ASSUME NEW text \in Seq(Byte), NEW n \in 0 .. Len(text), NEW k \in 0 .. n
  PROVE  Begins(SubSeq(SubSeq(text, 1, n), 1, k), text)
<1> DEFINE first == SubSeq(text, 1, n)
           left == SubSeq(first, 1, k)
           same == SubSeq(text, 1, k)
<1>1. Len(text) \in Nat /\ k \in 0 .. Len(text)
  BY LenProperties
<1>2. first \in Seq(Byte) /\ Len(first) = n /\ \A i \in 1 .. n : first[i] = text[i]
  BY BytesPrefix
<1>3. same \in Seq(Byte) /\ Len(same) = k /\ \A i \in 1 .. k : same[i] = text[i]
  BY <1>1, BytesPrefix
<1> HIDE DEF first, same
<1>4. left \in Seq(Byte) /\ Len(left) = k /\ \A i \in 1 .. k : left[i] = first[i]
  BY <1>2, BytesPrefix
<1> HIDE DEF left
<1>5. \A i \in 1 .. k : left[i] = same[i]
  BY <1>2, <1>3, <1>4
<1>6. left = same
  BY <1>3, <1>4, <1>5, SeqEqual
<1>7. Begins(left, text)
  BY <1>1, <1>4, <1>6 DEF Begins, same
<1> QED
  BY <1>7 DEF left, first

\* fclose changes the destination only, and puts there a beginning of the bytes.
LEMMA CloseLeaves ==
  ASSUME TypeOK, step # "idle", NEW bytes \in Seq(Byte), Close(bytes)
  PROVE  /\ \A p \in Paths \ {job.dst} : fs'[p] = fs[p]
         /\ \E k \in 0 .. Len(bytes) : fs'[job.dst] = SubSeq(bytes, 1, k)
<1>1. job.dst \in Paths /\ fs \in [Paths -> Contents] /\ Len(bytes) \in Nat
  BY JobFields, LenProperties DEF TypeOK
<1>2. CASE fs' = [fs EXCEPT ![job.dst] = bytes]
  <2>1. SubSeq(bytes, 1, Len(bytes)) = bytes /\ Len(bytes) \in 0 .. Len(bytes)
    BY <1>1, SubSeqFull
  <2>2. fs'[job.dst] = SubSeq(bytes, 1, Len(bytes))
    BY <1>1, <1>2, <2>1
  <2> QED
    BY <1>1, <1>2, <2>1, <2>2
<1>3. CASE \E n \in 0 .. Len(bytes) - 1 : fs' = [fs EXCEPT ![job.dst] = SubSeq(bytes, 1, n)]
  <2>1. PICK n \in 0 .. Len(bytes) - 1 : fs' = [fs EXCEPT ![job.dst] = SubSeq(bytes, 1, n)]
    BY <1>3
  <2>2. n \in 0 .. Len(bytes)
    BY <1>1
  <2>3. fs'[job.dst] = SubSeq(bytes, 1, n)
    BY <1>1, <2>1
  <2> QED
    BY <1>1, <2>1, <2>2, <2>3
<1> QED
  BY <1>2, <1>3 DEF Close

\* A file without a header decrypts to nothing.
LEMMA NothingDeciphered ==
  ASSUME NEW rs \in Seq(Run), NEW f \in Seq(Byte), NEW password
  PROVE  Deciphered(rs, f, password) \in Seq(Byte)
<1>1. Len(f) \in Nat /\ HeaderLen \in Nat
  BY LenProperties, SizesAssumption DEF HeaderLen
<1>2. CASE Len(f) >= HeaderLen
  BY <1>2, DecipheredProperties
<1>3. CASE Len(f) < HeaderLen
  <2> DEFINE text == Deciphered(rs, f, password)
  <2>1. 1 .. Len(f) - HeaderLen = {} /\ 1 .. 0 = {}
    BY <1>1, <1>3
  <2>2. text = [i \in {} |-> Garbage]
    BY <2>1, Zenon DEF Deciphered
  <2>3. text \in [1 .. 0 -> Byte]
    BY <2>1, <2>2
  <2> HIDE DEF text
  <2>4. text \in Seq(Byte)
    BY <2>3, FunctionIsSeq
  <2> QED
    BY <2>4 DEF text
<1> QED
  BY <1>1, <1>2, <1>3

\* With FileInv, what the steps keep of DamageIsContained: a source was there
\* before the job emptied its destination.
DamageInv ==
  /\ DamageIsContained
  /\ step = "start" => before[job.src] # Absent

\* A step to the box that closes the destination keeps it.
LEMMA CloseContains ==
  ASSUME FileInv, step \in {"start"} \union Inside, step' = "report",
         UNCHANGED <<job, before>>,
         NEW bytes \in Seq(Byte), Close(bytes),
         ~ Encrypting =>
           /\ runs' = runs
           /\ LET text == Deciphered(runs, before[job.src], job.password)
              IN  /\ text \in Seq(Byte)
                  /\ \E n \in 0 .. Len(text) : bytes = SubSeq(text, 1, n)
  PROVE  DamageInv'
<1> DEFINE text == Deciphered(runs, before[job.src], job.password)
<1>1. TypeOK /\ step # "idle" /\ \A p \in Paths \ {job.dst} : fs[p] = before[p]
  BY DEF FileInv, FilesOK, Inside
<1>2. \A p \in Paths \ {job.dst} : fs'[p] = before[p]
  BY <1>1, CloseLeaves
<1>3. ASSUME job.mode = "decrypt"
      PROVE  runs' = runs /\ Begins(fs'[job.dst], text)
  <2>1. runs' = runs /\ text \in Seq(Byte) /\ \E n \in 0 .. Len(text) : bytes = SubSeq(text, 1, n)
    BY <1>3 DEF Encrypting
  <2> HIDE DEF text
  <2>2. PICK n \in 0 .. Len(text) : bytes = SubSeq(text, 1, n)
    BY <2>1
  <2>3. PICK k \in 0 .. Len(bytes) : fs'[job.dst] = SubSeq(bytes, 1, k)
    BY <1>1, CloseLeaves
  <2>4. k \in 0 .. n
    BY <2>1, <2>2, <2>3, BytesPrefix
  <2> QED
    BY <2>1, <2>2, <2>3, <2>4, BeginningOfBeginning
<1> QED
  BY <1>2, <1>3 DEF DamageInv, DamageIsContained, Begins

LEMMA FailContains ==
  ASSUME FileInv, DamageInv, step \in {"start"} \union Inside, Fail(ERR_AES_KEY)
  PROVE  DamageInv'
<1> DEFINE text == Deciphered(runs, before[job.src], job.password)
<1>1. /\ TypeOK /\ step # "idle" /\ out \in Seq(Byte) /\ Close(out) /\ step' = "report"
      /\ runs \in Seq(Run)
      /\ UNCHANGED <<job, before, runs>>
  BY DEF FileInv, TypeOK, Fail, Inside, Run
<1>2. ASSUME ~ Encrypting, step = "start"
      PROVE  text \in Seq(Byte) /\ \E n \in 0 .. Len(text) : out = SubSeq(text, 1, n)
  <2>1. before[job.src] \in Seq(Byte)
    BY <1>1, <1>2, JobFields DEF DamageInv, TypeOK, Contents
  <2>2. text \in Seq(Byte)
    BY <1>1, <2>1, NothingDeciphered
  <2> HIDE DEF text
  <2>3. out = <<>> /\ SubSeq(text, 1, 0) = <<>>
    BY <1>2, SubSeqEmpty DEF FileInv, PositionOK, Reset
  <2>4. 0 \in 0 .. Len(text)
    BY <2>2, LenProperties
  <2> QED
    BY <2>2, <2>3, <2>4
<1>3. ASSUME ~ Encrypting, step \in Inside
      PROVE  text \in Seq(Byte) /\ \E n \in 0 .. Len(text) : out = SubSeq(text, 1, n)
  <2> DEFINE had == pos - HeaderLen
  <2>1. /\ Deciphered(runs, fs[job.src], job.password) \in Seq(Byte)
        /\ Len(Deciphered(runs, fs[job.src], job.password)) = Len(fs[job.src]) - HeaderLen
        /\ out = SubSeq(Deciphered(runs, fs[job.src], job.password), 1, Released(had))
        /\ had \in Nat /\ pos \in Nat /\ HeaderLen \in Nat /\ Len(fs[job.src]) \in Nat
        /\ pos <= Len(fs[job.src])
        /\ job.src # job.dst
    BY <1>3, DecryptedProperties
  <2>2. fs[job.src] = before[job.src]
    BY <1>1, <1>3, <2>1, JobFields DEF FileInv, FilesOK
  <2>3. text \in Seq(Byte) /\ out = SubSeq(text, 1, Released(had)) /\ had <= Len(text)
    BY <2>1, <2>2
  <2> HIDE DEF text, had
  <2>4. Released(had) \in 0 .. Len(text)
    <3>1. /\ Released(had) \in Nat /\ Released(had) <= Blocks(had)
          /\ Blocks(had) \in Nat /\ Blocks(had) <= had
      BY <2>1, ReleasedProperties, BlocksProperties
    <3>2. Len(text) \in Nat
      BY <2>3, LenProperties
    <3> QED
      BY <2>1, <2>3, <3>1, <3>2
  <2> QED
    BY <2>3, <2>4
<1> QED
  BY <1>1, <1>2, <1>3, CloseContains

LEMMA DecryptFinalContains ==
  ASSUME FileInv, DamageInv, DecryptFinal
  PROVE  DamageInv'
<1> DEFINE src == fs[job.src]
           had == pos - HeaderLen
           text == Deciphered(runs, src, job.password)
           block == SubSeq(text, had - BlockLen + 1, had)
<1>1. /\ TypeOK /\ FilesOK /\ step # "idle" /\ step = "final" /\ ~ Encrypting
      /\ src \in Seq(Byte) /\ Len(src) \in Nat
      /\ HeaderLen \in Nat /\ pos \in Nat /\ had \in Nat /\ pos <= Len(src)
      /\ text \in Seq(Byte) /\ Len(text) = Len(src) - HeaderLen
      /\ out = SubSeq(text, 1, Released(had))
      /\ job.src # job.dst
  BY DecryptedProperties DEF DecryptFinal, Inside, FileInv
<1>2. CASE Fail(ERR_AES_KEY)
  BY <1>1, <1>2, FailContains DEF Inside
<1>3. ASSUME had > 0, had % BlockLen = 0,
             NEW padding \in PaddingOf(block) \ {0},
             Close(out \o SubSeq(block, 1, BlockLen - padding)),
             step' = "report", UNCHANGED <<job, runs, before>>
      PROVE  DamageInv'
  <2> DEFINE last == LastBytes(text, had, padding)
  <2>1. padding \in 1 .. BlockLen /\ BlockLen \in Nat
    BY <1>3, SizesAssumption, PaddingLengths
  <2>2. Close(out \o last)
    BY <1>3 DEF LastBytes
  <2>3. before[job.src] = src
    BY <1>1, JobFields DEF FilesOK, Inside
  <2>4. Deciphered(runs, before[job.src], job.password) = text
    BY <2>3
  <2>5. had <= Len(text)
    BY <1>1
  <2> HIDE DEF src, had, text, block, last
  <2>6. Released(had) = had - BlockLen /\ had >= BlockLen
    <3>1. PICK m \in Nat : m = had /\ m > 0 /\ m % BlockLen = 0
      BY <1>1, <1>3
    <3> QED
      BY <3>1, ReleasedProperties, WholeBlocks
  <2>7. /\ SubSeq(text, 1, had - BlockLen) \o last = SubSeq(text, 1, had - padding)
        /\ SubSeq(text, 1, had - padding) \in Seq(Byte)
    BY <1>1, <2>1, <2>5, <2>6, LastBlock DEF last
  <2>8. PICK bytes \in Seq(Byte) : bytes = out \o last /\ bytes = SubSeq(text, 1, had - padding)
    BY <1>1, <2>6, <2>7
  <2>9. had - padding \in 0 .. Len(text)
    BY <1>1, <2>1, <2>5, <2>6, LenProperties
  <2>10. Close(bytes)
    BY <2>2, <2>8
  <2> QED
    BY <1>1, <1>3, <2>4, <2>8, <2>9, <2>10, CloseContains DEF Inside
<1> QED
  BY <1>1, <1>2, <1>3 DEF DecryptFinal

LEMMA EncryptFinalContains ==
  ASSUME FileInv, EncryptFinal
  PROVE  DamageInv'
<1> DEFINE r == Len(runs)
           had == Len(runs[r].text)
           padding == BlockLen - (had % BlockLen)
           last == Stream("cipher", r, Blocks(had) + 1, had + padding)
<1>1. step = "final" /\ Encrypting /\ step' = "report" /\ UNCHANGED <<job, before>>
      /\ out' = out \o last /\ Close(out \o last)
  BY DEF EncryptFinal
<1> HIDE DEF last
<1>2. out' \in Seq(Byte)
  <2>1. FileInv'
    BY EncryptFinalKeeps
  <2> QED
    BY <2>1 DEF FileInv, TypeOK
<1>3. PICK bytes \in Seq(Byte) : bytes = out \o last
  BY <1>1, <1>2
<1>4. Close(bytes)
  BY <1>1, <1>3
<1> QED
  BY <1>1, <1>4, CloseContains DEF Inside

LEMMA NextDamageInv == FileInv /\ DamageInv /\ [Next]_vars => DamageInv'
<1> SUFFICES ASSUME FileInv, DamageInv, [Next]_vars PROVE DamageInv'
  OBVIOUS
<1>1. CASE /\ step' \notin {"report", "start"}
  BY <1>1 DEF DamageInv, DamageIsContained
<1>2. ASSUME step \in {"input", "output"}, step' = "report", UNCHANGED <<fs, before, job>>
      PROVE  DamageInv'
  BY <1>2 DEF FileInv, FilesOK, DamageInv, DamageIsContained
<1>3. CASE OpenInput
  BY <1>1, <1>2, <1>3 DEF OpenInput
<1>4. CASE OpenOutput
  <2>1. CASE step' = "start"
    BY <1>4, <2>1 DEF OpenOutput, FileInv, FilesOK, PositionOK, DamageInv, DamageIsContained
  <2> QED
    BY <1>2, <1>4, <2>1 DEF OpenOutput
<1>5. CASE StartDecrypt
  BY <1>1, <1>5, FailContains DEF StartDecrypt
<1>6. CASE DecryptFinal
  BY <1>6, DecryptFinalContains
<1>7. CASE EncryptFinal
  BY <1>7, EncryptFinalContains
<1>8. CASE CipherFails
  BY <1>8, FailContains DEF CipherFails, Inside
<1>9. CASE UNCHANGED vars
  BY <1>9 DEF vars, DamageInv, DamageIsContained
<1>10. CASE \/ \E j \in Job : Confirm(j)
            \/ DeriveKeyAndIV \/ StartEncrypt \/ EncryptChunk \/ DecryptChunk
            \/ EndOfInput \/ DismissReport
  <2>1. step' \notin {"report", "start"}
    BY <1>10 DEF Confirm, DeriveKeyAndIV, StartEncrypt, EncryptChunk, DecryptChunk,
                 EndOfInput, DismissReport
  <2> QED
    BY <1>1, <2>1
<1> QED
  BY <1>3, <1>4, <1>5, <1>6, <1>7, <1>8, <1>9, <1>10 DEF Next, Handler

\* However far a job got and whatever failed, its box comes up with every file
\* but the destination as it was, and in the destination of a decryption the
\* file that was there or a beginning of what the source decrypts to.
THEOREM DamageContained == Spec => []DamageIsContained
<1>1. Init => DamageInv
  BY DEF Init, DamageInv, DamageIsContained
<1>2. DamageInv => DamageIsContained
  BY DEF DamageInv
<1> QED
  BY <1>1, <1>2, NextDamageInv, FileInvAlways, PTL DEF Spec

=============================================================================
