CONSTANTS
  Proc = {p1}
  File = {"app", "lib"}
  Imports <- ImportsAppLib
  Junk = {}
  Removable = {}
  NoKey = NoKey
  NoProc = NoProc
  MaxKey = 4
  MaxCalls = 6
  MaxCrash = 0
  MaxCorrupt = 2
  MaxSaveFail = 0
  SlowHolders = FALSE
SPECIFICATION Spec
INVARIANTS ProcessKeysDistinct OldKeysGone
CHECK_DEADLOCK FALSE
