SPECIFICATION Spec
CONSTANTS
  small = small
  full = full
  huge = huge
  Requests <- MCRequests
  SizeOf <- MCSizes
  Ports <- MCPorts
  Replies <- MCReplies
  ReadSize = 3072
  BufferSize = 4096
  MethodSize = 27
  Overhead = 16
INVARIANTS FrameFits AnswerToItsRequest
PROPERTY WorkersEnd
\* All requests may have been dealt with.
CHECK_DEADLOCK FALSE
