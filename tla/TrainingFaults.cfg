SPECIFICATION FairSpec
CONSTANTS
  Jobs = {j1}
  MaxRetries = 1
  MaxCrashes = 1
  MaxRestores = 1
  MaxLateErrors = 1
CHECK_DEADLOCK FALSE
INVARIANTS
  ArtifactsNotOlder
  ReportedIsRecorded
PROPERTIES
  ImplementsLifecycle
  Settles
