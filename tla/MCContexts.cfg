SPECIFICATION Spec
CONSTANTS
  Rows = {r1, r2}
  NumFields = 2
  MaxWrites = 2
  MaxSelects = 2
  MaxFaults = 1
INVARIANTS FreshUnlessRaced
PROPERTIES MisfiledOnlyIfBroken SendsResume
CHECK_DEADLOCK FALSE
