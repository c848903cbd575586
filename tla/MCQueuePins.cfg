SPECIFICATION Spec
CONSTANTS
  FkColumns <- PinsFk
  Edges <- PinsEdges
  Policy <- PinsPolicy
  Fields <- PinsFields
  InitialRows <- PinsRows
  RealIds = {1, 7}
  MaxSeq = 4
  MaxTemps = 1
  MaxRev = 2
INVARIANT ConflictIffForeign
PROPERTY SeqDiscipline
CHECK_DEADLOCK FALSE
