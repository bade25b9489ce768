\* The README: packets are displayed with the information of their IP header.
CONSTANTS
  Copies <- WholeType
  HeaderWords = {5}
  BUFFER_SIZE = 65536
  OutputSize = 8192
SPECIFICATION Spec
INVARIANT HeadersAreOfFrame
\* The frame has been decoded.
CHECK_DEADLOCK FALSE
