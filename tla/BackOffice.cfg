SPECIFICATION FairSpec
CONSTANTS
  Raisers = {worker, api}
  Users = {u1}
  DriftKeys = {drift}
  TrainingKeys = {training}
  MaxAlerts = 2
  Configs = {c1}
  Requests = {q1}
  MaxSets = 2
  MaxAnalyses = 1
  MaxFaults = 1
  MaxRetries = 1
  Features = {f1}
  Editors = {e1, e2}
  MaxWrites = 3
  Uploads = {d1}
  Splits = {s1}
  Merges = {m1}
  Deletes = {x1}
  SplitPlace = "cloud"
  NoDataset = NoDataset
  People = {p1}
  Roles = {viewer, admin}
  Viewer = viewer
  RoleRequests = {r1}
  Admins = {a1, a2}
  Jobs = {j1, j2}
  Handled = {j1}
  NoJob = NoJob
  MaxRuns = 1
  MaxRestarts = 2
  Columns = {price, fee, customer, created, key, fraud}
  NoColumn = NoColumn
  TargetNamed = {fraud}
  TargetLike = {}
  TimeNamed = {created}
  AmountNamed = {price, fee}
  UserNamed = {customer}
  Identifying = {key}
  Numeric = {price, fee, key, fraud}
  Dated = {}
  Wide = {}
  Current = price
  Original = fee
  Mappable = {fee, customer}
  Varied = {customer, fee}
  TimeValues = {1, 3}
  DayFirst = {1}
  Either = {3}
  Loose = {}
  CellValues = {0, 3}
  OtherValue = 3
  MaxRows = 2
  Absent = {customer}
  Switchable = {"aggregation"}
  Tried = {"xgboost", "lightgbm", "random_forest", "logistic_regression", "decision_tree", "svm", "knn", "naive_bayes", "neural_network"}
  MaxChanges = 2
  MostHalves = 6
  Draws = 2
  Sampled = {0, 5, 10}
  Thresholds = {5, 8}
  NotANumber = NotANumber
  AnomalyTypes = {1, 2, 3}
  Setters = {b1, b2}
  Measures = {"f1", "auc"}
  MaxLogged = 2
  Checkers = {worker, page}
  Watched = {amount}
  Protected = {region}
  Rates = {0, 60}
  MaxChecks = 2
  MaxDays = 2
  MaxNotices = 2
  MaxStudied = 3
  Gains = {0, 1}
  Importances = {0, 1}
  MaxReports = 2
  RawIds = {a_raw}
  MergeIds = {a_merge}
  SplitIds = {a_split}
  FeatureIds = {a_feat}
  ModelJobs = {j3}
  MaxSaves = 3
  MaxSwitches = 2
  RawData = {d2}
  NoRaw = NoRaw
  MaxSplitJobs = 1
  MaxPageSets = 1
  MaxVisits = 2
  CardSets = {f2, f3}
  NoCardSet = NoCardSet
  MaxRefusals = 2
CHECK_DEADLOCK FALSE
INVARIANTS
  TypeOK
  TwinsOnlyByRace
  CompletedIsStored
  AuditMatches
  DatasetsStand
  RejectedNotGranted
  JobsKept
  ServedAlike
  ChecksAgree
  SearchedAsAsked
  DecidesSoundly
  MonitoringTells
  AnalysedSoundly
  BlobsStand
  PageFollowsUser
PROPERTIES
  WorseFeedbackShows
  ComputationEnds
