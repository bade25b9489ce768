\* The README: the script creates the relations.
CONSTANTS
  Documents <- OneBothWays
  MaxClicks = 1
  Faults = {}
SPECIFICATION Spec
INVARIANT LinksHaveTables
\* The user need not click again.
CHECK_DEADLOCK FALSE
