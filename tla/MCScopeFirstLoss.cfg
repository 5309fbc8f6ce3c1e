CONSTANTS
  db = db
  web = web
  old = old
  new = new
  Client = {c1, c2}
  Service = {db, web}
  Fingerprint = {old, new}
  Requests <- SharedRequests
  NoOne = NoOne
  Stopper = Stopper
  NoPlan = NoPlan
  MaxStops = 1
  HolderLoss = TRUE
  FirstLoss = TRUE
  LateAnchor = FALSE
SPECIFICATION Spec
SYMMETRY ClientSymmetry
INVARIANT StopIsFinal
