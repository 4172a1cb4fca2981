CONSTANTS
  Proc = {p1, p2}
  File = {"app", "lib"}
  Imports <- ImportsAppLib
  Junk = {"app", "lib"}
  Removable = {"lib"}
  NoKey = NoKey
  NoProc = NoProc
  MaxKey = 2
  MaxCalls = 4
  MaxCrash = 1
  MaxCorrupt = 1
  MaxSaveFail = 1
  SlowHolders = FALSE
SPECIFICATION Spec
INVARIANTS TypeOK KeysNameOneFile
SYMMETRY ProcSymmetry
CHECK_DEADLOCK FALSE
