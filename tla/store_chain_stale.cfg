CONSTANTS
  Process = {p1}
  File = {"app", "mid", "lib"}
  Version = {0, 1}
  Imports <- Chain
  Broken <- NoPairs
  Uncached <- NoPairs
  Linked = {}
  Roots = {"app", "lib"}
  Shared = {}
  EditWhileOpen = FALSE
  None = None
  MaxEdit = 1
  MaxCrash = 0
  MaxStoreFail = 0
SPECIFICATION Spec
INVARIANTS RefsResolve
CHECK_DEADLOCK FALSE
