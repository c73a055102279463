SPECIFICATION Spec
CONSTANTS
  ReadMax = 2
  Slack = 2
  Overhead = 1
  TimeoutSet = FALSE
  SndBuf = 3
  MaxSend <- MCUpload
INVARIANTS UpstreamFramed
PROPERTIES PipesRefined NoByteStranded DeadSessionEnds
\* The endpoints may fall silent; a finished session does nothing any more.
CHECK_DEADLOCK FALSE
