SPECIFICATION MCSpec
CONSTANTS
  s1 = s1
  s2 = s2
  s3 = s3
  p1 = p1
  p2 = p2
  q1 = q1
  q2 = q2
  Slots = {s1, s2}
  Pids = {p1, p2}
  Section0 = {}
  Names = {"a", "ab"}
  Begins = {}
  Kinds = {"service", "port"}
  Ports = {q1}
  MaxServices = 2
  MaxProcesses = 2
  MaxLoad = 1
  MaxSrv = 2
  MaxSrvPm = 1
  SemMax = 2
  Pre7x = FALSE
  None = None
INVARIANTS
  WaitersKnowTheirPort
  NoLostWakeup
  RegistryOwnsPorts
PROPERTIES
  KeepsPromise
SYMMETRY Symmetry
