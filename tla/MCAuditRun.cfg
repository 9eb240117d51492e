\* Two requests racing over two successive runs of up to two URLs; the buffer
\* holds one result, so the second one is dropped.
CONSTANTS
  u1 = u1
  u2 = u2
  q1 = q1
  q2 = q2
  Urls = {u1, u2}
  Limit = 2
  PoolSize = 2
  MaxResults = 1
  Requests = {q1, q2}
  MaxRuns = 2
  ConfigMayFail = TRUE
SYMMETRY Symmetry
SPECIFICATION Spec
INVARIANTS
  SlotHeld
  ResultsOfThisRun
  CancelWithinOne
  CountersAgree
  EveryUrlAccounted
PROPERTY ImplementsRunSlot
