\* Liveness on two URLs, for a run and a second run or a retry, with one request
\* thread that also pauses, resumes and cancels; and of a name that two failures
\* lock for two ticks, for two clients at a time.
CONSTANTS
  u1 = u1
  u2 = u2
  q1 = q1
  q2 = q2
  Urls = {u1, u2}
  Limit = 2
  Tabs = 2
  Requests = {q1}
  MaxRuns = 2
  Clients = {q1, q2}
  Threshold = 2
  Window = 2
  MaxAttempts = 2
  MaxLost = 1
  MaxBlind = 1
SPECIFICATION MCSpec
INVARIANT GuessesBounded
PROPERTIES
  RunEndsUnlessPaused
  LockoutEnds
