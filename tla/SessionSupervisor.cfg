CONSTANTS
  Sockets = {s1, s2}
  NoSocket = none
  Teardowns = {"stop", "unload"}
SPECIFICATION Spec
INVARIANTS
  TypeOK
  AtMostOneSocket
  NoSocketBetweenSessions
  AvailableOnlyWhenAuthenticated
  FreshSessionUndisturbed
PROPERTIES
  RejectionIsFinal
  EveryEndIsHandled
  UnloadCompletes
  ImplementsContract
