\* The README: the script of the file is executed, with success.
CONSTANTS
  Documents <- OneTidy
  MaxClicks = 1
  Faults = {"disk"}
SPECIFICATION Spec
INVARIANT SuccessMeansStored
\* The user need not click again.
CHECK_DEADLOCK FALSE
