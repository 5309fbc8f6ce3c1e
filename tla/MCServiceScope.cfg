CONSTANTS
  db = db
  web = web
  old = old
  new = new
  Client = {c1, c2}
  Service = {db, web}
  Fingerprint = {old, new}
  Requests <- AllRequests
  NoOne = NoOne
  Stopper = Stopper
  NoPlan = NoPlan
  MaxStops = 2
  HolderLoss = TRUE
  FirstLoss = FALSE
  LateAnchor = FALSE
SPECIFICATION Spec
SYMMETRY ClientSymmetry
INVARIANTS TypeOK TasksKeepServices ExclusiveIsAlone InputsAgree StopIsFinal
