\* Two captures of two frames in a window that may come back. No symmetry: the
\* run has liveness properties.
CONSTANTS
  SlotCount = 2
  SnoopTool = 1
  Windows = {w1, w2}
  Captures = {c1, c2}
  MaxFrames = 2
  NULL = NULL
SPECIFICATION FairSpec
INVARIANTS
  TypeOK
  NothingLost
  DataOutlivesThread
  LateFramesNeedFailure
PROPERTIES
  ImplementsInterface
  ClosingBlocks
  QueueIsServed
  CloseReturns
\* The process may have exited, or be stuck in a join.
CHECK_DEADLOCK FALSE
