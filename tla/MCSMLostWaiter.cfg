SPECIFICATION MCFairSpec
CONSTANTS
  s1 = s1
  s2 = s2
  s3 = s3
  p1 = p1
  p2 = p2
  q1 = q1
  q2 = q2
  Slots = {s1, s2}
  Pids = {p1}
  Section0 = {}
  Names = {"a"}
  Begins = {}
  Kinds = {"service"}
  Ports = {q1}
  MaxServices = 1
  MaxProcesses = 1
  MaxLoad = 1
  MaxSrv = 2
  MaxSrvPm = 0
  SemMax = 1
  Pre7x = FALSE
  None = None
PROPERTIES
  RegisteredServiceServesWaiters
CHECK_DEADLOCK FALSE
