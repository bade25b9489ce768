\* No call fails.
CONSTANTS
  Paths = {p, q}
  Passwords = {secret, other}
  NoJob = NoJob
  Absent = Absent
  Originals <- ManyLengths
  SaltLen = 1
  BlockLen = 2
  BufLen = 4
  MaxRuns = 1
  Faults = {}
SPECIFICATION Spec
INVARIANT InPlaceIsRecoverable
\* The process may exit.
CHECK_DEADLOCK FALSE
