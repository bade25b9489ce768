\* The README: the script creates the tables.
CONSTANTS
  Documents <- OneLoose
  MaxClicks = 1
  Faults = {}
SPECIFICATION Spec
INVARIANT RowsHaveTables
\* The user need not click again.
CHECK_DEADLOCK FALSE
