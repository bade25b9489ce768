\* The README: the packets received on one port. Two watchers, each may have its own.
SPECIFICATION Spec
CONSTANTS
  Watchers = {w1, w2}
  Sources = {s1}
  NULL = NULL
  Ports = {80, 443}
  Thresholds = {1}
  Forms <- TwoPorts
  Interval = 1
  MaxIps = 1
  RingSize = 1
  MaxPackets = 2
  MaxTime = 1
SYMMETRY WatcherSymmetry
CONSTRAINT Undisturbed
PROPERTIES
  AlertIsOfPort
\* The process may have exited, or the captures have ended.
CHECK_DEADLOCK FALSE
