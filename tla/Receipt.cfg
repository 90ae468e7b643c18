CONSTANTS
  c1 = c1
  x1 = x1
  first1 = first1
  Candidate = {c1}
  Context = {x1}
  Decision = {first1, second1}
  External = {}
  Ready = {first1}
  CandidateOf <- MCCandidateOf
  ContextOf <- MCContextOf
  NoContext = NoContext
  NoDecision = NoDecision
  Nobody = Nobody
  NoCall = NoCall
  NoExport = NoExport
  Proc = {p1, p2}
  Exporter = {p2}
  Key = {1, 2, 3}
  Workload = {"EVALUATED_DECISION"}
  MayFail = TRUE
  SerialOpen = TRUE
  MaxRows = 3
  MaxRestores = 1
  MaxChainEntries = 2
  MaxReceipts = 1
SPECIFICATION ReceiptSpec
CONSTRAINTS KeysInOrder OtherAfterRestore
INVARIANTS
  AcceptedReceiptsStayTrue
  OnlyTheAnchorMayLag
