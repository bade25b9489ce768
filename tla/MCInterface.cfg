\* Every tool of main.c, the array at its real length.
CONSTANTS
  SlotCount = 10
  Tools = {0, 1, 2, 3, 5}
  Windows = {w1, w2, w3, w4, w5, w6}
  NULL = NULL
SPECIFICATION InterfaceSpec
SYMMETRY WindowSymmetry
INVARIANTS TypeOK SlotsTrackWindows
PROPERTY ClickPresentsTool
\* The process stops once it has exited.
CHECK_DEADLOCK FALSE
