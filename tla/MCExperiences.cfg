CONSTANTS
  c1 = c1
  c2 = c2
  Clients <- TwoClients
  OtherPoints = 20
  MaxCommits = 3
  MaxEvidence = 2
  MaxEdited = 1
  Drafts <- SomeDrafts
  Operations <- AllOperations
SPECIFICATION Spec
SYMMETRY ClientSymmetry
CHECK_DEADLOCK FALSE
INVARIANTS FactsConsistent DatesConsistent RevisionPinsProposal
