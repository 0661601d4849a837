SPECIFICATION Spec
CONSTANTS
  h1 = h1  h2 = h2
  Runs = {1, 2}
  Handlers = {h1, h2}
  Depth = 2
  Faults = {"raise", "vanish"}
SYMMETRY Symmetry
INVARIANTS RunsConsistent OneExecutorPerRun ResumedOnlyAfterDecision
CHECK_DEADLOCK FALSE
