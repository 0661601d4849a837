CONSTANTS
  c1 = c1
  c2 = c2
  t1 = t1
  t2 = t2
  m1 = m1
  a = a
  b = b
  g = g
  x = x
  None = None
  Clients <- OneClient
  Sections <- TwoSections
  Texts <- TwoTexts
  Generated <- OneGenerated
  Extra <- OneExtra
  Initial <- SomeDocuments
  Names <- Named
  Lines <- Written
  MaxItems = 2
  MaxEdits = 2
  MaxLines = 2
SPECIFICATION Spec
CHECK_DEADLOCK FALSE
INVARIANTS RegeneratedReplacesItsSource FoundItemsAreApplied
