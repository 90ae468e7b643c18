CONSTANTS
  c1 = c1
  x1 = x1
  Candidate = {c1}
  Context = {x1}
  Decision = {ready1, held1, foreign1}
  External = {foreign1}
  Ready = {ready1, foreign1}
  CandidateOf <- MCCandidateOf
  ContextOf <- MCContextOf
  NoContext = NoContext
  NoDecision = NoDecision
  Nobody = Nobody
  NoCall = NoCall
  Proc = {p1, p2}
  Key = {1, 2, 3}
  Workload = {"IMPORTED_DECISION", "EVALUATED_DECISION", "PROMOTION_PLANNED"}
  MayFail = TRUE
  SerialOpen = FALSE
  MaxRows = 3
  MaxRestores = 0
SPECIFICATION Spec
SYMMETRY MCSymmetry
CONSTRAINT KeysInOrder
INVARIANTS
  AnchorHistorical
  AnswerIsTheEntry
  PromotedOnRecordedDecision
