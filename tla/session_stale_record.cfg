CONSTANTS
  Source = {s, t}
  N = 2
  Code = {"x", "y"}
  Reads <- Chain
  Keyless <- NoPairs
  Unstorable <- NoPairs
  None = None
  MaxKey = 6
  MaxEdit = 3
  MaxImport = 1
  MaxStop = 1
  MaxFail = 0
SPECIFICATION Spec
INVARIANTS RetainedIsFresh
CHECK_DEADLOCK FALSE
