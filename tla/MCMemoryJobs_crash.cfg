SPECIFICATION Spec
CONSTANTS
  w1 = w1  w2 = w2
  None = None
  Runs = {1, 2}
  Workers = {w1, w2}
  Batch = 1
  Faults = {"publish", "redis", "crash", "job", "revive"}
  MaxFaults = 2
SYMMETRY Symmetry
INVARIANTS WorkersConsistent
PROPERTIES SnapshotsWrittenOnce
CHECK_DEADLOCK FALSE
