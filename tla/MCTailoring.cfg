CONSTANTS
  None = None
  Blank = ""
  Words <- Vocab
  Cleaned <- CleanedVocab
  Metrics <- Figures
  JDWords <- WordsOfJob
  JDSkills <- SkillsOfJob
  Partial <- Parts
  Letters <- LettersOfVocab
  Uploads <- SomeUploads
  Masters <- SomeMasters
  Proposals <- SomeProposals
  Values <- SomeValues
  Orders <- SomeOrders
  MaxMarks = 1
  MaxChanges = 2
SPECIFICATION Spec
CHECK_DEADLOCK FALSE
INVARIANTS DiffsConsistent OriginalSkillsRestored RefinedIsGrounded SilentDiffMeansUnchanged
