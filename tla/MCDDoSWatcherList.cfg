\* Two alerts in a row: three senders, five packets, and a list of two.
SPECIFICATION Spec
CONSTANTS
  Watchers = {w1}
  Sources = {s1, s2, s3}
  NULL = NULL
  Ports = {80}
  Thresholds = {1}
  Forms <- ValidForm
  Interval = 1
  MaxIps = 2
  RingSize = 1
  MaxPackets = 5
  MaxTime = 2
SYMMETRY Symmetry
INVARIANTS
  ListIsOfInterval
  SendersAreBlocked
  IndexStaysInList
\* The process may have exited, or the captures have ended.
CHECK_DEADLOCK FALSE
