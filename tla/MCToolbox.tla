----------------------------- MODULE MCToolbox -----------------------------
(* Model of the port scanner and the packet capture in one process.        *)
EXTENDS Toolbox, TLC

ShortAddress == <<10, 0, 0, 1>>
BadAddress == <<10, 0, 0, 256>>
PlainOrBad == {ShortAddress, BadAddress}
\* A single port, which may fail to accept.
TinyNet == 0 :> "flaky"
AllPorts == {<<0, MaxPort>>}
\* What the user may type in a port field: one value past each end.
AroundPorts == -1 .. MaxPort + 1
=============================================================================
