CONSTANTS
  u1 = u1
  u2 = u2
  q1 = q1
  q2 = q2
  Urls = {u1, u2}
  Limit = 2
  PoolSize = 1
  MaxResults = 1
  Requests = {q1, q2}
  MaxRuns = 1
  ConfigMayFail = FALSE
SPECIFICATION FairSpec
PROPERTY RunEndsUnlessPaused
