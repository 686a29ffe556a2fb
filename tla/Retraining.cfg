SPECIFICATION FairSpec
CONSTANTS
  Jobs = {j1, j2}
  NoJob = NoJob
  MaxPublishes = 2
  MaxEvents = 2
INVARIANTS
  DecisionBacked
  SnapshotIsTrue
PROPERTIES
  QueuedIsDecided
