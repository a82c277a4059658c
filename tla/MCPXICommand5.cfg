SPECIFICATION MCSpec
CONSTANTS
  N = 2
  UsesMC5 = TRUE
  Terminates = "never"
  Nobody = Nobody
  Users = {0}
  NB = 4
  needs <- NoNeeds
PROPERTIES
  CallIsAnswered
CHECK_DEADLOCK FALSE
