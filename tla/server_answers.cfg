CONSTANTS
  Uri = {d1}
  Text = {"reports", "broken"}
  Reporting = {"reports"}
  Uncacheable = {"broken"}
  None = None
  MaxGen = 2
  MaxDisk = 2
  MaxHover = 0
  MaxPanic = 1
SPECIFICATION FairSpec
PROPERTY EveryTextIsAnswered
CHECK_DEADLOCK FALSE
