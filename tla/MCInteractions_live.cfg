SPECIFICATION FairSpec
CONSTANTS
  h1 = h1  h2 = h2
  Runs = {1}
  Handlers = {h1, h2}
  Depth = 2
  Faults = {"raise", "cancel", "close"}
INVARIANTS EventsFollowCommits
PROPERTIES RunningRunsSettle
CHECK_DEADLOCK FALSE
