CONSTANTS
  Tokens = {t1, t2}
  NoToken = noToken
  Keys = {k1, k2}
  NoKey = noKey
  MaxFailures = 2
  Faults = 2
  TokenReplies = {"long", "short"}
SPECIFICATION Spec
PROPERTY EntryTokenNotErased
CHECK_DEADLOCK FALSE
