CONSTANTS
  Launch = {l1, l2, l3, l4}
  NoLaunch = NoLaunch
  MaxGeneration = 3
  Bystanders = FALSE
  LateCrash = FALSE
  AnchorLoss = FALSE
SPECIFICATION Spec
SYMMETRY LaunchSymmetry
INVARIANTS TypeOK RunningIsRecorded ReleasedIsQuiet BackendIsRecorded IInv
PROPERTY ImplementsOwnedService
