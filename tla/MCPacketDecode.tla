--------------------------- MODULE MCPacketDecode ---------------------------
(* Models of the packet decoders for TLC. *)
EXTENDS PacketDecode

\* A zero byte at each place of the headers, or none up to there.
EveryCopy == 1 .. 60
\* No zero byte before the end of the type of an IPv4 frame.
WholeType == {14}
=============================================================================
