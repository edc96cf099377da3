CONSTANTS
  Sockets = {s1, s2}
  NoSocket = none
  Teardowns = {"stop"}
SPECIFICATION Spec
PROPERTIES
  CloseEndsTheLoop
