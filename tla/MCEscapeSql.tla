---------------------------- MODULE MCEscapeSql ----------------------------
(* Models of escapeSqlString for TLC.                                      *)
EXTENDS EscapeSql

\* Every value of up to seven bytes, against every buffer from too small to ample.
ShortValues == BoundedSeq(Bytes, 7)
SmallSizes == 1 .. 10
=============================================================================
