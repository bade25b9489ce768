\* Two scans on one window, which may close and come back at its address; two ports.
CONSTANTS
  SlotCount = 2
  Tools = {0}
  Windows = {w1}
  NULL = NULL
  PortEyeTool = 0
  MaxPort = 1
  Net <- SmallNet
  AutoRanges <- AllPorts
  TypedAddresses <- PlainOrBad
  Inputs <- AroundPorts
  Scans = {s1, s2}
  Dialog = Dialog
SPECIFICATION Spec
SYMMETRY ScanSymmetry
INVARIANTS
  PortTypeOK
  FaultOnlyIfImpatient
  PatientMemory
  ReportsAreComplete
  BusyMeansInFlight
\* The process stops once it has exited.
CHECK_DEADLOCK FALSE
