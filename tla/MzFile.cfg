CONSTANTS
  N = 4
  Cap = 2
  Room = 2
  Cpu = 2
  Jobs <- AllJobs
SPECIFICATION MzSpec
CHECK_DEADLOCK FALSE
INVARIANTS GoneIsHanded FailureKeepsSource
PROPERTY Ends
