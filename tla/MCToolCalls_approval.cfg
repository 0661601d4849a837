SPECIFICATION Spec
CONSTANTS
  c1 = c1  c2 = c2  w1 = w1  w2 = w2  id1 = id1  id2 = id2
  a1 = a1  a2 = a2  r1 = r1  r2 = r2
  Calls = {c1, c2}
  Workers = {w1, w2}
  ResolutionIds = {id1, id2}
  Arguments = {a1, a2}
  Results = {r1}
  Guarded = {c1, c2}
  Asked = {}
  SystemCalls = {c2}
  None = None
  Rejected = Rejected
SYMMETRY Symmetry
INVARIANTS TypeOK RecordsConsistent EffectExactlyWithResult NoEffectWithoutApproval ResolutionIdsUnique AcknowledgedDecisionStands ClaimPinsRow
