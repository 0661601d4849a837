CONSTANTS
  k1 = k1
  k2 = k2
  Clients <- TwoClients
  Experiences = {1, 2}
  MaxEvidence = 2
  Skills = {"s"}
  Libraries <- TwoReady
  MaxEdits = 2
  MaxFaults = 0
  Coverage <- TwoItems
  Importance <- OneMust
  Mentions <- OneMention
  Section <- BothWork
  SectionLimits <- OnePlace
  MaxTotal = 4
  MaxBullets = 1
  MaxSearchRounds = 2
  Modes = {"deterministic", "auto", "llm"}
SYMMETRY ClientSymmetry
SPECIFICATION Spec
CHECK_DEADLOCK FALSE
INVARIANTS RunConsistent ResumeIsGrounded ResumeWasFactChecked
