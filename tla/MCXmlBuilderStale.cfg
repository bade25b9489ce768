\* The README: the script of the file is executed.
CONSTANTS
  Documents <- OneTidy
  MaxClicks = 2
  Faults = {"read"}
SPECIFICATION Spec
PROPERTY ScriptIsOfDocument
\* The user need not click again.
CHECK_DEADLOCK FALSE
