\* The README: every tool stays within reach.
CONSTANTS
  SlotCount = 2
  SnoopTool = 1
  Windows = {w1}
  Captures = {c1}
  MaxFrames = 1
  NULL = NULL
SPECIFICATION FairSpec
PROPERTY ToolsStayUsable
\* The process may have exited, or be stuck in a join.
CHECK_DEADLOCK FALSE
