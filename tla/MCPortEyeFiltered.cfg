\* A firewalled port among three.
CONSTANTS
  SlotCount = 2
  Tools = {0}
  Windows = {w1}
  NULL = NULL
  PortEyeTool = 0
  MaxPort = 2
  Net <- FirewallNet
  AutoRanges <- AllPorts
  TypedAddresses <- Plain
  Inputs <- AroundPorts
  Scans = {s1}
  Dialog = Dialog
SPECIFICATION Spec
INVARIANT FilteredIsShown
\* The process stops once it has exited.
CHECK_DEADLOCK FALSE
