\* The disk may fill up while the handler writes.
CONSTANTS
  Paths = {p, q}
  Passwords = {secret, other}
  NoJob = NoJob
  Absent = Absent
  Originals <- ManyLengths
  SaltLen = 1
  BlockLen = 2
  BufLen = 4
  MaxRuns = 1
  Faults = {"disk"}
SPECIFICATION Spec
INVARIANT SuccessIsRecoverable
\* The process may exit.
CHECK_DEADLOCK FALSE
