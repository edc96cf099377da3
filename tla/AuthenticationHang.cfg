CONSTANTS
  Tokens = {t1, t2}
  NoToken = noToken
  Keys = {k1, k2}
  NoKey = noKey
  MaxFailures = 2
  Faults = 0
  TokenReplies = {"long", "undated"}
SPECIFICATION Spec
INVARIANT RefreshLoopSuspends
CHECK_DEADLOCK FALSE
