SPECIFICATION Spec
CONSTANTS
  Stray <- MCStray
  Hellos <- MCHellos
  Commands <- MCIPv6
  Bounds <- MCBounds
  FarObjects <- MCFarObjects
  Aes = TRUE
  TimeoutSet = TRUE
INVARIANT IPv6TargetKept
\* A session that has ended or is established does nothing more here.
CHECK_DEADLOCK FALSE
