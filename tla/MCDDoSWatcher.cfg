\* One watcher, three senders and a list of two addresses: a user who gets a field wrong, changes the fields
\* or closes the window, threads that fail, boxes and a full ring.
CONSTANTS
  Watchers = {w1}
  Sources = {s1, s2, s3}
  NULL = NULL
  Ports = {80}
  Thresholds = {1}
  Forms <- MixedForms
  Interval = 1
  MaxIps = 2
  RingSize = 1
  MaxPackets = 4
  MaxTime = 2
SPECIFICATION BoundedSpec
INVARIANTS
  TypeOK
  JudgesItsInterval
  RefusedValuesNeedHaste
  ListIsOfInterval
  SendersAreBlocked
PROPERTIES
  HandlersReturn
  NextPacketAlerts
\* The process may have exited, or the captures have ended.
CHECK_DEADLOCK FALSE
