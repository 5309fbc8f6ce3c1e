CONSTANTS
  Command = {c1, c2}
  g1 = g1
  g2 = g2
  Group = {g1, g2}
  Needs <- Chain
  NoGroup = noGroup
  Part = {p1, p2}
  Kinds = {"downloads", "runtime"}
  Nobody = nobody
  MaxEpoch = 3
  MaxEdits = 1

SPECIFICATION Spec
SYMMETRY CommandSymmetry

INVARIANTS TypeOK RuntimeIsRooted StampsVouch InstallersAreAlone TasksAreSetUp
PROPERTIES LeasedStorageStays
