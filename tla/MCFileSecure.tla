---------------------------- MODULE MCFileSecure ----------------------------
(* Models of the file encryption for TLC.                                  *)
EXTENDS FileSecure, TLC

PlainFile(n) == [i \in 1 .. n |-> Plain(i)]

\* With blocks of 2 bytes and a buffer of 4: an empty file, one that ends inside
\* a block, one that fills the buffer exactly, one that needs a second chunk.
ManyLengths == {PlainFile(n) : n \in {0, 1, 4, 5}}

=============================================================================
