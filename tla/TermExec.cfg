SPECIFICATION FairSpec
CONSTANTS
  Transports = {"ws", "sse"}
  Loud = {"stdout", "stderr"}
  MaxChunks = 4
  Capacity = 1
  MaxCmds = 2
INVARIANTS TypeOK OutputIsPrefix ExitAfterOutput NeverStuck
PROPERTIES CommandAnswered LeaverFreed
CHECK_DEADLOCK FALSE
