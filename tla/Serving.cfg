SPECIFICATION MCSpec
CONSTANTS
  t1 = t1
  t2 = t2
  m1 = m1
  c1 = c1
  SpentBefore = 2
  m2 = m2
  Tests = {t1, t2}
  NoTest = NoTest
  Models = {m1, m2}
  NoModel = NoModel
  Champion <- MCChampion
  Challenger <- MCChallenger
  OnnxModels = {m1, m2}
  Calibrated = {m1}
  TypeModels = {m2}
  Callers = {c1, c2}
  NoCaller = NoCaller
  MinSamples = 2
  PersistEvery = 2
  MaxEvents = 4
  Batches = 1
INVARIANTS
  TypeOK
  OneRunning
  AnalysisEarned
  LoadIsWhole
  AnswersAttributed
PROPERTIES
  SimulationsEnd
