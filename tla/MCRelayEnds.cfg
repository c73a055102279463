SPECIFICATION Spec
CONSTANTS
  ReadMax = 1
  Slack = 2
  Overhead = 1
  TimeoutSet = TRUE
  SndBuf = 4
  MaxSend <- MCDuplex
INVARIANTS NoLossAtEOF
PROPERTIES PipesRefined PumpsAdvance SessionEnds
\* The endpoints may fall silent; a finished session does nothing any more.
CHECK_DEADLOCK FALSE
