CONSTANTS
  h1 = h1
  h2 = h2
  p1 = p1
  i1 = i1
  i2 = i2
  b1 = b1
  None = None
  Handlers <- TwoHandlers
  MaxResumes = 2
  Prompts <- OnePrompt
  Infos <- TwoInfos
  Bodies <- OneBody
  Operations <- AllOperations
SPECIFICATION Spec
CHECK_DEADLOCK FALSE
INVARIANTS RowsConsistent UploadsMeetOneMaster ConfirmedWasPreviewed
PROPERTIES DeletedStaysDeleted
