SPECIFICATION Spec
CONSTANTS
  FkColumns <- TreeFk
  Edges <- TreeEdges
  Policy <- TreePolicy
  Fields <- TreeFields
  InitialRows <- TreeRows
  RealIds = {7, 8, 9}
  MaxSeq = 4
  MaxTemps = 3
  MaxRev = 0
INVARIANTS NoOrphans LineagesAreComponents CoalesceUnique
CHECK_DEADLOCK FALSE
