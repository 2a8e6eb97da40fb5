SPECIFICATION AccountsSpec
CONSTANTS
  Request = {q1, q2}
  MaxSession = 3
  MaxFactor = 2
  MaxLink = 2
  Whole = TRUE
  Copy = {a, b}
  MaxKey = 3
  MaxMinute = 9
  PublishAhead = 4
  Overlap = 3
  TokenLife = 2
  CacheMaxAge = 2
  Delay = 1
  Alone = TRUE
CHECK_DEADLOCK FALSE
INVARIANTS
  SessionsAreRight
  KeysAreRight
