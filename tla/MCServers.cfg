SPECIFICATION MCSpec
CONSTANTS
  s1 = s1
  s2 = s2
  s3 = s3
  p1 = p1
  Slots = {s1, s2, s3}
  Pids = {p1}
  Section0 = {p1}
  Names = {"a"}
  Begins = {}
  Kinds = {"port"}
  Ports = {}
  MaxServices = 1
  MaxProcesses = 0
  MaxLoad = 0
  MaxSrv = 3
  MaxSrvPm = 0
  SemMax = 2
  Pre7x = FALSE
  None = None
  Parts = {"sm", "debugger"}
INVARIANTS
  SemCountsToWake
PROPERTIES
  WokenIsResumed
  CloseEnds
  StopIsReported
CHECK_DEADLOCK FALSE
