----------------------------- MODULE EscapeSql -----------------------------
(***************************************************************************)
(* escapeSqlString of src/src/xmlbuilder.c: a value is copied between the  *)
(* quotes of an SQL literal, its own quotes doubled, into a buffer of      *)
(* max_size bytes (512 at every call).  A value that is too long is cut,   *)
(* and a quote for which one byte is left is dropped.                      *)
(***************************************************************************)
EXTENDS Integers, Sequences, SequencesExt

CONSTANTS
  Bytes,   \* what a value is made of
  Quote,   \* the quote of SQL
  Values,  \* the values the function is called with
  Sizes    \* the sizes of buffer it is called with

ASSUME EscapeAssumption ==
  /\ Quote \in Bytes
  /\ Values \subseteq Seq(Bytes)
  /\ Sizes \subseteq Nat \ {0}

VARIABLES
  input,     \* the value, without its terminator
  max_size,
  i,         \* bytes of the value that have been read
  output,    \* what has been written; the index j of the code is its length
  start,     \* history: the index j when byte k of the value was read
  returned

vars == <<input, max_size, i, output, start, returned>>

j == Len(output)

TypeOK ==
  /\ input \in Values
  /\ max_size \in Sizes
  /\ i \in 0 .. Len(input)
  /\ output \in Seq(Bytes)
  /\ start \in Seq(Nat)
  /\ Len(start) = i
  /\ returned \in BOOLEAN

Init ==
  /\ input \in Values
  /\ max_size \in Sizes
  /\ i = 0
  /\ output = <<>>
  /\ start = <<>>
  /\ returned = FALSE

\* Seeded fault: the loop leaves no room for the terminator.
MoreNoTerminator == i < Len(input) /\ j < max_size

\* The condition of the loop.
More == i < Len(input) /\ j < max_size - 1

\* Seeded fault: the room for two bytes is taken for too little.
RoomForThree == j < max_size - 3

RoomForTwo == j < max_size - 2

NextByte == i + 1

Read ==
  /\ ~ returned
  /\ More
  /\ i' = NextByte
  /\ start' = Append(start, j)
  /\ UNCHANGED <<input, max_size, returned>>

CopyByte ==
  /\ Read
  /\ input[i + 1] # Quote
  /\ output' = Append(output, input[i + 1])

\* Seeded fault: the quote is copied as it is.
QuoteCopied == <<Quote>>

QuoteDoubled == <<Quote, Quote>>

DoubleQuote ==
  /\ Read
  /\ input[i + 1] = Quote
  /\ RoomForTwo
  /\ output' = output \o QuoteDoubled

DropQuote ==
  /\ Read
  /\ input[i + 1] = Quote
  /\ ~ RoomForTwo
  /\ UNCHANGED output

\* The terminator is written at index j.
Return ==
  /\ ~ returned
  /\ ~ More
  /\ returned' = TRUE
  /\ UNCHANGED <<input, max_size, i, output, start>>

Next == CopyByte \/ DoubleQuote \/ DropQuote \/ Return

Spec == Init /\ [][Next]_vars

----------------------------------------------------------------------------
(* Properties                                                              *)

\* The terminator is within the buffer, whatever mix of quotes and other bytes
\* leads to the end.
TerminatorFits == j <= max_size - 1

\* The index j after byte k has been handled.
EndOf(k) == IF k = i THEN j ELSE start[k + 1]

Width(b) == IF b = Quote THEN 2 ELSE 1

Written(k) ==
  /\ EndOf(k) = start[k] + Width(input[k])
  /\ EndOf(k) <= j
  /\ output[start[k] + 1] = input[k]
  /\ input[k] = Quote => output[start[k] + 2] = Quote

Dropped(k) ==
  /\ input[k] = Quote
  /\ EndOf(k) = start[k]
  /\ start[k] = max_size - 2

\* SQL reads back from the literal the bytes of the value in their order: each is
\* found where the one before ends, a quote as two.  A pair is never split, which
\* would end the literal; only a quote for which one byte is left is missing.
ReadsBack ==
  /\ i > 0 => start[1] = 0
  /\ \A k \in 1 .. i : Written(k) \/ Dropped(k)

\* The literal of the whole value.
Escaped(value) ==
  FlattenSeq([k \in DOMAIN value |-> IF value[k] = Quote THEN <<Quote, Quote>> ELSE <<value[k]>>])

\* A value that fits is stored whole.  One that does not is stored up to the last
\* byte but one of the buffer's room; what follows may come from further on.
ValuesThatFitAreWhole ==
  returned =>
    LET whole == Escaped(input)
    IN  /\ Len(whole) <= max_size - 1 => output = whole
        /\ Len(whole) > max_size - 1 =>
             \A k \in 1 .. j : k <= max_size - 2 => output[k] = whole[k]

=============================================================================
