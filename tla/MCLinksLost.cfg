\* Two links and a thread for each.
CONSTANTS
  PageLinks = {1, 2}
  MaxProbed = 2
  PoolSize = 2
  Pythons = {311}
  Replies <- MCReplies
SPECIFICATION LinkSpec
INVARIANTS CompletedCollected
CHECK_DEADLOCK FALSE
