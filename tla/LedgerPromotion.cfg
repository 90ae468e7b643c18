CONSTANTS
  c1 = c1
  x1 = x1
  Candidate = {c1}
  Context = {x1}
  Decision = {ready1}
  External = {}
  Ready = {ready1}
  CandidateOf <- MCCandidateOf
  ContextOf <- MCContextOf
  NoContext = NoContext
  NoDecision = NoDecision
  Nobody = Nobody
  NoCall = NoCall
  Proc = {p1, p2}
  Key = {1, 2, 3, 4, 5}
  Workload = {"EVALUATED_DECISION", "PROMOTION_PLANNED", "PROMOTION_APPLIED", "PROMOTION_VERIFIED", "PROMOTION_ROLLED_BACK"}
  MayFail = FALSE
  SerialOpen = FALSE
  MaxRows = 5
  MaxRestores = 0
SPECIFICATION Spec
SYMMETRY MCSymmetry
CONSTRAINT KeysInOrder
INVARIANTS
  TypeOK
  AuditClean
  OneWinnerPerToken
PROPERTIES
  PromotionPromise
