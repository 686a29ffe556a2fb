SPECIFICATION Spec
CONSTANTS
  Jobs = {j1, j2}
  MaxRetries = 1
  MaxCrashes = 1
  MaxRestores = 0
  MaxLateErrors = 0
CHECK_DEADLOCK FALSE
SYMMETRY Symmetry
INVARIANTS
  RowFollowsExecution
  CompletedIsBacked
  NoLostWork
  GivesUpAfterAllRetries
