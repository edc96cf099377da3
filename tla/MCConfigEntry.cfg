CONSTANTS
  e1 = e1
  e2 = e2
  u1 = u1
  u2 = u2
  Entries <- MCEntries
  Legacy = {e1}
  Renewing = {e1}
  Uuids <- MCUuids
  Known <- MCKnown
  MaxAttempts = 2
  Window = 1
  Events = 3
SPECIFICATION Spec
INVARIANTS
  TypeOK
  NoLeakedConnection
  AvailableOnlyInSession
  DeadSessionIsHandled
  IssueMeansRejected
  ConfigurationInUse
  CredentialsInDataOnly
  CommandReachesOwner
PROPERTIES
  Settles
  NoReloadLoop
CHECK_DEADLOCK FALSE
