CONSTANTS
  Process = {p1}
  File = {"app", "lib", "util"}
  Version = {0, 1}
  Imports <- Cycle
  Broken <- NoPairs
  Uncached <- NoPairs
  Linked = {"util"}
  Roots = {"app", "lib", "util"}
  Shared = {p1}
  EditWhileOpen = TRUE
  None = None
  MaxEdit = 1
  MaxCrash = 1
  MaxStoreFail = 1
SPECIFICATION FairSpec
PROPERTIES LoadsEnd
CHECK_DEADLOCK FALSE
