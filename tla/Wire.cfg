CONSTANTS
  Tries = 3
  MaxUnits = 2
  Messages = 3
  Strays = 1
  Period = 2
  ReadTimeout = 5
  MaxUses = 2
  Work = 4
SPECIFICATION Spec
INVARIANTS
  DamageIsBounded
  SilenceIsNoticed
  SaltChainUnbroken
  RejectionEndsBootstrap
