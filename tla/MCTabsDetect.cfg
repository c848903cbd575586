SPECIFICATION DetectSpec
CONSTANTS
  t1 = t1
  t2 = t2
  title = title
  body = body
  Tabs <- TwoTabs
  Fields <- TwoFields
  Detect = TRUE
  Online = TRUE
  MaxEdits = 2
  MaxForeign = 1
  MaxFaults = 1
INVARIANTS OverwritesOnlyAsListed 
CONSTRAINT Scenario
SYMMETRY Symmetric
CHECK_DEADLOCK FALSE
