CONSTANTS
  Launch = {l1, l2, l3}
  NoLaunch = NoLaunch
  MaxGeneration = 2
  Bystanders = TRUE
  LateCrash = FALSE
  AnchorLoss = FALSE
SPECIFICATION Spec
SYMMETRY LaunchSymmetry
INVARIANT ReleasedIsQuiet
