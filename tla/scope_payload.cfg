CONSTANTS
  None = None
  Node = {n1, n2, n3}
  Block = {1, 2}
  Function = {}
  Width = 1
SPECIFICATION Spec
INVARIANT PayloadsAreLive
SYMMETRY Keys
CONSTRAINT Families
CHECK_DEADLOCK FALSE
