CONSTANTS
  None = None
  Node = {n1, n2, n3}
  Block = {1, 2, 3}
  Function = {1, 2}
  Width = 1
SPECIFICATION Spec
INVARIANTS TypeOK ClassesWellFormed ClassesDecideTogether SummariesAreCurrent NamesAreLive
PROPERTIES AssertsAreKept ShapesAreKept WalkedPayloadsMove
SYMMETRY Keys
CONSTRAINT Families
CHECK_DEADLOCK FALSE
