\* The README: the user is alerted.
SPECIFICATION FairSpec
CONSTANTS
  Watchers = {w1}
  Sources = {s1}
  NULL = NULL
  Ports = {80}
  Thresholds = {1}
  Forms <- ValidForm
  Interval = 1
  MaxIps = 1
  RingSize = 2
  MaxPackets = 2
  MaxTime = 2
PROPERTIES
  FloodsAreAlerted
\* The process may have exited, or the captures have ended.
CHECK_DEADLOCK FALSE
