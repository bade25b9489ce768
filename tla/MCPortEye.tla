----------------------------- MODULE MCPortEye -----------------------------
(* Models of the port scanner for TLC.                                     *)
EXTENDS PortEye, TLC

\* The addresses the user may type: a short one, an invalid one, and for the
\* 14-character entry the longest kind.
ShortAddress == <<10, 0, 0, 1>>
BadAddress == <<10, 0, 0, 256>>
LongAddress == <<192, 168, 100, 100>>

Plain == {ShortAddress}
PlainOrBad == {ShortAddress, BadAddress}
Long == {LongAddress}

\* A single port, which may fail to accept.
TinyNet == 0 :> "flaky"
\* Ports 0 and 1: one that accepts, one that may fail to.
SmallNet == 0 :> "flaky" @@ 1 :> "open"
\* A firewalled port between a port that refuses and one that accepts.
FirewallNet == 0 :> "closed" @@ 1 :> "filtered" @@ 2 :> "open"

AllPorts == {<<0, MaxPort>>}

\* What the user may type in a port field: one value past each end.
AroundPorts == -1 .. MaxPort + 1

\* Scans are told apart by identity only; so are windows.
ScanSymmetry == Permutations(Scans) \union Permutations(Windows)
=============================================================================
