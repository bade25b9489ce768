\* Every call may fail; one encryption, any number of decryptions. No symmetry: JobEnds is a liveness property.
CONSTANTS
  Paths = {p, q}
  Passwords = {secret, other}
  NoJob = NoJob
  Absent = Absent
  Originals <- ManyLengths
  SaltLen = 1
  BlockLen = 2
  BufLen = 4
  MaxRuns = 1
  Faults = {"key", "dest", "cipher", "read", "disk"}
SPECIFICATION FairSpec
INVARIANTS
  TypeOK
  OutputFitsBuffer
  EncryptionIsRecoverable
  DecryptionIsWhole
  OpenErrorChangesNothing
  DamageIsContained
PROPERTY JobEnds
\* The process may exit.
CHECK_DEADLOCK FALSE
