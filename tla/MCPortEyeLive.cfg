\* Liveness, without symmetry: one window that may close and come back.
CONSTANTS
  SlotCount = 2
  Tools = {0}
  Windows = {w1}
  NULL = NULL
  PortEyeTool = 0
  MaxPort = 0
  Net <- TinyNet
  AutoRanges <- AllPorts
  TypedAddresses <- Plain
  Inputs <- AroundPorts
  Scans = {s1, s2}
  Dialog = Dialog
SPECIFICATION FairSpec
PROPERTY ScanIsAnswered
\* The process stops once it has exited.
CHECK_DEADLOCK FALSE
