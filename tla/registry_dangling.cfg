CONSTANTS
  Proc = {p1, p2}
  File = {"app", "lib"}
  Imports <- ImportsAppLib
  Junk = {}
  Removable = {"lib"}
  NoKey = NoKey
  NoProc = NoProc
  MaxKey = 2
  MaxCalls = 6
  MaxCrash = 0
  MaxCorrupt = 0
  MaxSaveFail = 0
  SlowHolders = FALSE
SPECIFICATION Spec
INVARIANTS NamedKeysStay
CHECK_DEADLOCK FALSE
