CONSTANTS
  Plain = 2
  Secured = 0
  Capacity = 2
  None = none
SPECIFICATION Spec
PROPERTY CloseDrainsQueue
CHECK_DEADLOCK FALSE
