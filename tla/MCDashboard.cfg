\* Two tabs with two connections between them on two places, and queues of one; two
\* runs that send one progress message between them, and one cancellation.
CONSTANTS
  c1 = c1
  c2 = c2
  t1 = t1
  t2 = t2
  None = None
  Conns = {c1, c2}
  Tabs = {t1, t2}
  MaxSubs = 2
  QueueSize = 1
  MaxRuns = 2
  MaxProgress = 1
  MaxCancels = 1
  MaxMessages = 4
SPECIFICATION DashboardFair
INVARIANT GapFree
PROPERTIES
  EndIsOwn
  FullQueueReclaimed
  TabSettles
CHECK_DEADLOCK FALSE
