\* A scan and a capture, two windows, which may come back at each other's address.
CONSTANTS
  SlotCount = 2
  Tools = {0, 1}
  Windows = {w1, w2}
  NULL = NULL
  PortEyeTool = 0
  MaxPort = 0
  Net <- TinyNet
  AutoRanges <- AllPorts
  TypedAddresses <- PlainOrBad
  Inputs <- AroundPorts
  Scans = {s1}
  Dialog = Dialog
  SnoopTool = 1
  Captures = {c1}
  MaxFrames = 1
SPECIFICATION ToolboxSpec
INVARIANTS
  SlotsTrackWindows
PROPERTIES
  ImplementsInterface
  ScansAreAnswered
\* The process stops once it has exited, or joins a thread for ever.
CHECK_DEADLOCK FALSE
