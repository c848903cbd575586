SPECIFICATION Spec
CONSTANTS
  t1 = t1
  t2 = t2
  title = title
  body = body
  Tabs <- TwoTabs
  Fields <- TwoFields
  Detect = FALSE
  Online = FALSE
  MaxEdits = 3
  MaxForeign = 0
  MaxFaults = 3
INVARIANTS SeqNamesOneEntry 
SYMMETRY Symmetric
CHECK_DEADLOCK FALSE
