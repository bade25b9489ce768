\* The longest kind of address.
CONSTANTS
  SlotCount = 2
  Tools = {0}
  Windows = {w1}
  NULL = NULL
  PortEyeTool = 0
  MaxPort = 0
  Net <- TinyNet
  AutoRanges <- AllPorts
  TypedAddresses <- Long
  Inputs <- AroundPorts
  Scans = {s1}
  Dialog = Dialog
SPECIFICATION Spec
INVARIANT TypedAddressIsScanned
\* The process stops once it has exited.
CHECK_DEADLOCK FALSE
