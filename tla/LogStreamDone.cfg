SPECIFICATION Spec
CONSTANTS
  Connections = {c1}
  MaxLines = 3
  MaxRuns = 2
  MaxExpiries = 1
CHECK_DEADLOCK FALSE
PROPERTIES
  DoneIsComplete
