SPECIFICATION Spec
CONSTANTS
  PingPeriod = 5
  ReadDeadline = 12
  MaxRun = 8
  Endless = FALSE
  Patient = TRUE
  MaxFrames = 1
INVARIANTS OnlySilentDropped
CHECK_DEADLOCK FALSE
