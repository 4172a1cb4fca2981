CONSTANTS
  Source = {"s"}
  N = 2
  Code = {"x", "y"}
  Reads <- Chain
  Keyless <- SecondY
  Unstorable <- FirstY
  None = None
  MaxKey = 6
  MaxEdit = 3
  MaxImport = 2
  MaxStop = 1
  MaxFail = 1
SPECIFICATION Spec
INVARIANTS TypeOK RetainedIsFresh ReadersResolve
CHECK_DEADLOCK FALSE
