CONSTANTS
  Launch = {l1, l2}
  NoLaunch = NoLaunch
  MaxGeneration = 2
  Bystanders = TRUE
  LateCrash = TRUE
  AnchorLoss = TRUE
  MaxStops = 1
  Callback = {"k1", "k2"}
SPECIFICATION LossSpec
CHECK_DEADLOCK FALSE
INVARIANTS
  LossTypeOK
  OldGenerationIsFenced
  CallbacksAreOver
PROPERTIES
  StartupIsGuarded
  ReleaseReturns
  DelayedLaunchEnds
  StopGetsIn
  OrphansEnd
