\* Every type of frame, its first zero byte at every place.
CONSTANTS
  Copies <- EveryCopy
  HeaderWords = {0, 5, 15}
  BUFFER_SIZE = 65536
  OutputSize = 8192
SPECIFICATION Spec
INVARIANTS
  NetworkFieldsInPlace
\* The frame has been decoded.
CHECK_DEADLOCK FALSE
