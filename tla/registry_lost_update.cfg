CONSTANTS
  Proc = {p1, p2}
  File = {"app", "lib"}
  Imports <- ImportsAppLib
  Junk = {}
  Removable = {}
  NoKey = NoKey
  NoProc = NoProc
  MaxKey = 2
  MaxCalls = 5
  MaxCrash = 1
  MaxCorrupt = 0
  MaxSaveFail = 0
  SlowHolders = FALSE
SPECIFICATION Spec
INVARIANTS NobodyPanics
CHECK_DEADLOCK FALSE
