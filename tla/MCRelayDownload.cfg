SPECIFICATION Spec
CONSTANTS
  ReadMax = 2
  Slack = 2
  Overhead = 2
  TimeoutSet = FALSE
  SndBuf = 3
  MaxSend <- MCDownload
INVARIANTS TypeOK
PROPERTIES PipesRefined NoByteStranded
\* The endpoints may fall silent; a finished session does nothing any more.
CHECK_DEADLOCK FALSE
