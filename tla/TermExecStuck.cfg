SPECIFICATION FairStaySpec
CONSTANTS
  Transports = {"sse"}
  Loud = {"stdout"}
  MaxChunks = 3
  Capacity = 1
  MaxCmds = 1
PROPERTY ExitCodeReturned
CHECK_DEADLOCK FALSE
