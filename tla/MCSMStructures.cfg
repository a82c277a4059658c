SPECIFICATION MCSpec
CONSTANTS
  p1 = p1
  p2 = p2
  p3 = p3
  Pids = {p1, p2, p3}
  Section0 = {p3}
  Ids = {1, 2}
  N = 2
  MaxSubs = 1
  MaxProcesses = 2
  Pollers = {p3}
  n1 = n1
  n2 = n2
  n3 = n3
  n4 = n4
  Null = Null
  Nodes <- FourNodes
  Lists = {"free", "inUse", "waiting"}
  Free = "free"
INVARIANTS
  SemCountsPending
  NeverPanics
PROPERTIES
  SuccessReachesAll
  ImplementsQueues
  ListsAreSequences
SYMMETRY Symmetry
