SPECIFICATION FairSpec
CONSTANTS
  Connections = {c1, c2}
  MaxLines = 3
  MaxRuns = 2
  MaxExpiries = 1
CHECK_DEADLOCK FALSE
INVARIANTS
  SendsPrefix
PROPERTIES
  LinesArrive
  StreamEnds
