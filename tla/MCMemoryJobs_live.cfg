SPECIFICATION FairSpec
CONSTANTS
  w1 = w1  w2 = w2
  None = None
  Runs = {1, 2}
  Workers = {w1, w2}
  Batch = 1
  Faults = {"publish", "redis", "crash", "job"}
  MaxFaults = 1
INVARIANTS TerminalRunsKeepTheirTask SnapshotChainComplete
PROPERTIES TerminalRunsAreCompacted
CHECK_DEADLOCK FALSE
