CONSTANTS
  Process = {p1, p2}
  File = {"app", "lib", "util"}
  Version = {0, 1}
  Imports <- Fan
  Broken <- LibBreaks
  Uncached <- AppUncached
  Linked = {}
  Roots = {"app", "lib"}
  Shared = {p1}
  EditWhileOpen = FALSE
  None = None
  MaxEdit = 2
  MaxCrash = 1
  MaxStoreFail = 0
SPECIFICATION Spec
INVARIANTS TypeOK RefsResolve HeadersAreHonest NextRunReuses
PROPERTIES ImplementsColdCompile PanicsAreOfOldModules
CHECK_DEADLOCK FALSE
