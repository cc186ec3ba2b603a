SPECIFICATION StaySpec
CONSTANTS
  Transports = {"ws"}
  Loud = {"stdout", "stderr"}
  MaxChunks = 2
  Capacity = 1
  MaxCmds = 1
INVARIANT EachWriteFramed
CHECK_DEADLOCK FALSE
