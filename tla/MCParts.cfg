CONSTANTS
  Candidate = {c1} 
  Update = {u1, u2}
  Daemon = {d1, d2}
  CacheLimit = 1
  MaxSwitches = 1
  Client = {"a1", "b1"}
  Tree = {"A", "B"}
  TreeOf <- TwoTrees
  MaxCrashes = 1
  SlowProbe = TRUE
  Commands = 3
  MaxSignals = 3
  MaxBuilds = 3
  MaxRounds = 1
  MaxLate = 3
  GateCount = 3
  MaxMoves = 1
  Outputs = {"a", "b"}
  Sources = {"src"}
  MaxUserEdits = 1
  MaxStray = 1
  MaxKills = 1
  ExportFiles = {"a", "b"}
  MaxWrites = 2
  Staged = {"a", "b"}
  MaxChanges = 2
  MaxRuns = 2
  MaxAdmins = 3
  MaxTouches = 1
  Op = {1, 2, 3, 4}
  HookOps = {4}
  Commits = {1, 2}
  MaxPushes = 2
  MaxRecords = 5
  Chunk = 2
  MaxFiles = 3
  Sessions = {1, 2, 3}
  KeepRows = 1
  AssetScope = {A}
  Tools = {t1, t2}
  None = None
  Requester = {"r1", "r2"}
  MaxLines = 2
  MaxKeys = 6
  Adapter = {"a", "b"}
  Phase <- Phases2
  HookTargets = {"h"}
  PlanChoices <- StepOrders
  PolicyLists <- ListsInUse
  MaxEdits = 1
  Version = {"v1"}
  DepPath = {"p", "q"}
  Lanes = 2
  MaxEntries = 2
SPECIFICATION PartsSpec
CHECK_DEADLOCK FALSE
INVARIANTS
  PartsTypeOK
  SweepsCount
  ExportsAreTrue
  ToolsAreGuarded
PROPERTIES
  
  SharingIsSafe
  TasksAreControlled
  WatchIsSteady
  UpdatesAreJudged
  HooksAreSafe
  StepsAreAudited
  
