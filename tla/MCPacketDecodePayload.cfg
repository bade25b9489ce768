\* The README: the data of the transport protocols can be looked at.
CONSTANTS
  Copies <- WholeType
  HeaderWords = {5}
  BUFFER_SIZE = 65536
  OutputSize = 8192
SPECIFICATION Spec
INVARIANT DumpsFit
\* The frame has been decoded.
CHECK_DEADLOCK FALSE
