SPECIFICATION MCSpec
CONSTANTS
  N = 2
  UsesMC5 = FALSE
  Terminates = "settled"
  Nobody = Nobody
  Users = {0, 1, 2, 3}
  NB = 7
  needs <- FewNeeds
INVARIANTS
  NeverPanics
  Partition
PROPERTIES
  ImplementsCalls
  CallIsAnswered
  TerminationEnds
