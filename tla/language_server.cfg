CONSTANTS
  Uri = {d1, d2}
  Text = {"reports", "broken"}
  Reporting = {"reports"}
  Uncacheable = {"broken"}
  None = None
  MaxGen = 2
  MaxDisk = 2
  MaxHover = 1
  MaxPanic = 2
SPECIFICATION Spec
INVARIANTS TypeOK CachedIsWhatItsKeySays ShownIsOfTheDocument FileErrorsHaveAnOwner
SYMMETRY Symmetric
CHECK_DEADLOCK FALSE
