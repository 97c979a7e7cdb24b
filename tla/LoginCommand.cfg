\* Every provider's login: three connections and a user who pastes, or a device code.
SPECIFICATION Spec
CONSTANTS
  LoginTimeout = 6
  RequestTimeout = 1
  SlowDown = 2
  Intervals = {0, 1, 4}
  Lifetimes = {0, 3, 8}
  Decisions = {0, 2, 4, 5, 6, 7, 99}
  Tabs = {t1, t2, t3}
  c1 = c1
  c2 = c2
  Urls <- MCUrls
  Lines <- MCLines
  Registered = c1
  Dynamic = Dynamic
  MaxLines = 2
  MaxConnections = 2
  BLANK = BLANK
  GARBLED = GARBLED
  LONG = LONG
  INVALID = INVALID
  DECLINED = DECLINED
  NONE = NONE
  NULL = NULL
CHECK_DEADLOCK FALSE
INVARIANTS TypeOK ApprovalNotMissed FirstCallbackWins
PROPERTIES PollsSpaced AcceptedIsUsed
