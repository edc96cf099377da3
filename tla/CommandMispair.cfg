CONSTANTS
  Plain = 0
  Secured = 2
  Capacity = 2
  None = none
SPECIFICATION Spec
INVARIANT ReplyReleasesItsCommand
CHECK_DEADLOCK FALSE
