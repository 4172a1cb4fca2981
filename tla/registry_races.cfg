CONSTANTS
  Proc = {p1, p2}
  File = {"app", "lib"}
  Imports <- ImportsAppLib
  Junk = {}
  Removable = {}
  NoKey = NoKey
  NoProc = NoProc
  MaxKey = 2
  MaxCalls = 4
  MaxCrash = 1
  MaxCorrupt = 0
  MaxSaveFail = 0
  SlowHolders = TRUE
SPECIFICATION FairSpec
INVARIANTS OneHolder NeverTorn PublishFindsItsEntry
PROPERTIES NoLostEntry DeadLockIsBroken
CHECK_DEADLOCK FALSE
