SPECIFICATION Spec
CONSTANTS
  Jobs = {j1}
  Models = {m1, m2, m3}
  Requests = {r1, r2}
  NoModel = NoModel
  NoJob = NoJob
CHECK_DEADLOCK FALSE
SYMMETRY Symmetry
INVARIANTS
  SplitOnlyByRace
  LinksResolve
  VersionsDistinct
