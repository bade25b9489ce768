--------------------------- MODULE MCPacketSnoop ---------------------------
(* Models of the packet capture window for TLC.                            *)
EXTENDS PacketSnoop, TLC

\* Captures are told apart by identity only; so are windows.
SnoopSymmetry == Permutations(Captures) \union Permutations(Windows)
=============================================================================
