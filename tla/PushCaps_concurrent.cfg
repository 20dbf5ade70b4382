SPECIFICATION Spec
CONSTANTS
  Repos = {r1, r2}
  Foreign = Foreign
  Tasks = {t1, t2}
  TTL = 1
  Forever = 2
  MaxTokens = 3
  Unreliable = TRUE
SYMMETRY TasksAndRepos
CHECK_DEADLOCK FALSE
INVARIANTS
  LoneCapPushes
  SomeCapSurvives
  IInv
PROPERTIES
  LoneRegistrationSucceeds
