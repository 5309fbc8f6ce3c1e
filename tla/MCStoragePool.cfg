CONSTANTS
  Command = {c1, c2}
  Part = {source, bootstrap}
  Kinds = {"downloads", "runtime"}
  Nobody = nobody
  MaxEpoch = 3

SPECIFICATION PoolSpec

PROPERTIES AdmissionServed
