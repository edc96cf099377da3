CONSTANTS
  Tokens = {t1, t2, t3}
  NoToken = noToken
  Keys = {k1, k2}
  NoKey = noKey
  MaxFailures = 2
  Faults = 3
  TokenReplies = {"short", "long", "undated", "empty"}
SPECIFICATION Spec
INVARIANTS
  TypeOK
  AuthenticatedSessionIsUsable
  EntryHoldsTokenInUse
PROPERTIES
  RefusedTokenNotPresented
  LoginHeals
  ExpiringTokenIsRefreshed
CHECK_DEADLOCK FALSE
