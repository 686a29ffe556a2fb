SPECIFICATION FairSpec
CONSTANTS
  Jobs = {j1}
  MaxRetries = 1
  MaxCrashes = 1
  MaxRestores = 0
  MaxLateErrors = 0
CHECK_DEADLOCK FALSE
PROPERTIES
  EndReachesStream
