CONSTANTS
  c1 = c1
  x1 = x1
  Candidate = {c1}
  Context = {x1}
  Decision = {foreign1}
  External = {foreign1}
  Ready = {}
  CandidateOf <- MCCandidateOf
  ContextOf <- MCContextOf
  NoContext = NoContext
  NoDecision = NoDecision
  Nobody = Nobody
  NoCall = NoCall
  Proc = {p1, p2}
  Key = {1, 2}
  Workload = {"NOTE"}
  MayFail = FALSE
  SerialOpen = FALSE
  MaxRows = 2
  MaxRestores = 0
SPECIFICATION Spec
INVARIANTS
  BehindOnlyAfterCrash
