CONSTANTS
  Staged = {"a", "b"}
  MaxChanges = 2
  MaxRuns = 2
SPECIFICATION FormatSpec
CHECK_DEADLOCK FALSE
PROPERTY GitLocksAreKept
