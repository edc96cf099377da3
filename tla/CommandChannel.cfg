CONSTANTS
  Plain = 2
  Secured = 2
  Capacity = 2
  None = none
SPECIFICATION Spec
INVARIANTS
  TypeOK
  TaskAccounting
  InOrderAtMostOnce
  StaleNeverFires
  ClearedNeverReleased
PROPERTIES
  SentUnderItsSalt
  QueueKeepsMoving
  ImplementsLedger
CHECK_DEADLOCK FALSE
