CONSTANTS
  Sockets = {s1, s2}
  NoSocket = none
  Teardowns = {"unload"}
SPECIFICATION Spec
INVARIANTS
  UnloadClosesAllConnections
