---------------------------- MODULE MCInterface ----------------------------
(* Model of the window registry for TLC.                                   *)
EXTENDS Interface, TLC

\* Windows are told apart by identity only.
WindowSymmetry == Permutations(Windows)
=============================================================================
