\* The README: a high rate of requests, within the interval.
SPECIFICATION Spec
CONSTANTS
  Watchers = {w1}
  Sources = {s1}
  NULL = NULL
  Ports = {80}
  Thresholds = {1}
  Forms <- ValidForm
  Interval = 1
  MaxIps = 1
  RingSize = 2
  MaxPackets = 4
  MaxTime = 3
PROPERTIES
  AlertMeansRate
\* The process may have exited, or the captures have ended.
CHECK_DEADLOCK FALSE
