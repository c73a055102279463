SPECIFICATION Spec
CONSTANTS
  Block = 4
  Word = 2
  MemSize = 66
  Keys <- MCKeys
  Counters = {0, 2, 3}
  Ranges <- MCRanges
  MaxCalls = 3
  Names <- MCNames
  Vectors <- MCVectors
  Sizes <- MCSizes
  Secret <- MCSecret
INVARIANTS TypeOK StreamApplied PositionKept ObjectRebuilt RoundTrip OutputFits
\* Callers stop after MaxCalls calls.
CHECK_DEADLOCK FALSE
