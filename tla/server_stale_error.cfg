CONSTANTS
  Uri = {d1}
  Text = {"reports", "broken"}
  Reporting = {"reports"}
  Uncacheable = {"broken"}
  None = None
  MaxGen = 2
  MaxDisk = 1
  MaxHover = 0
  MaxPanic = 0
SPECIFICATION Spec
INVARIANT NoStaleErrorRemains
CHECK_DEADLOCK FALSE
