SPECIFICATION Spec
CONSTANTS
  HalfBits = 2
  ScanLines = 2
  Bodies <- MCBodies
  Starts <- MCStarts
INVARIANT
  MeaningKept
PROPERTY
  BodyWritten
CHECK_DEADLOCK FALSE
