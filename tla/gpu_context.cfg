CONSTANTS
  Client = {c1, c2}
  c1 = c1
  c2 = c2
  NoClient = NoClient
  SlotDepth = 2
  Size <- Sizes
  CallSize = {2}
  Kinds <- SplitKinds
  PoolCap = 1
  Links = {3}
  MaxCalls = 3
  MaxFault = 1
SPECIFICATION Spec
INVARIANTS TypeOK SlotsIdleWhenReused FetchedAsWritten SettledMeansWritten NoBufferTwice NothingFreedInFlight ReportNeverUnderstates WaitsOnASubmission
CHECK_DEADLOCK FALSE
