\* Two scans on one view, every port accepting.
CONSTANTS
  SlotCount = 2
  Tools = {0}
  Windows = {w1}
  NULL = NULL
  PortEyeTool = 0
  MaxPort = 1
  Net <- SmallNet
  AutoRanges <- AllPorts
  TypedAddresses <- Plain
  Inputs <- AroundPorts
  Scans = {s1, s2}
  Dialog = Dialog
SPECIFICATION Spec
PROPERTY ReportIsReturned
\* The process stops once it has exited.
CHECK_DEADLOCK FALSE
