CONSTANTS
  Process = {p1}
  File = {"app", "lib"}
  Version = {0, 1}
  Imports <- Pair
  Broken <- NoPairs
  Uncached <- NoPairs
  Linked = {"lib"}
  Roots = {"app", "lib"}
  Shared = {}
  EditWhileOpen = FALSE
  None = None
  MaxEdit = 1
  MaxCrash = 0
  MaxStoreFail = 0
SPECIFICATION Spec
INVARIANTS RefsResolve
CHECK_DEADLOCK FALSE
