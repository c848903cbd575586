SPECIFICATION Spec
CONSTANTS
  MaxCreates = 3
  MaxFaults = 2
  LateDelivery = FALSE
INVARIANTS TypeOK AtMostOnce AckedCreated OnePlace PruneSafe
PROPERTY LedgerSpec
CHECK_DEADLOCK FALSE
