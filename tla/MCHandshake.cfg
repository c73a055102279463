SPECIFICATION Spec
CONSTANTS
  Stray <- MCStray
  Hellos <- MCHellos
  Commands <- MCCommands
  Bounds <- MCBounds
  FarObjects <- MCFarObjects
  Aes = TRUE
  TimeoutSet = TRUE
INVARIANTS TypeOK SuccessIsTrue RefusalIsTrue EstablishedAligned CrashOnlyByCommand
PROPERTIES SessionRefined HandshakeEnds
\* A session that has ended or is established does nothing more here.
CHECK_DEADLOCK FALSE
