CONSTANTS
  Experiences = {1, 2}
  MaxEvidence = 2
  Skills = {"s"}
  Libraries <- TwoLibraries
  MaxEdits = 2
  MaxFaults = 2
SPECIFICATION IndexSpec
CHECK_DEADLOCK FALSE
INVARIANTS ProcessedIsIndexed
PROPERTIES IndexCatchesUp
