SPECIFICATION FairSpec
CONSTANTS
  PingPeriod = 5
  ReadDeadline = 12
  MaxRun = 8
  Endless = TRUE
  Patient = TRUE
  MaxFrames = 3
INVARIANTS TypeOK ResponsiveKept DroppedInTime
PROPERTIES GoneIsDropped NoPingerLeft
CHECK_DEADLOCK FALSE
