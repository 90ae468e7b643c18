CONSTANTS
  MaxChecks = 100
  MaxChanges = 500
  MaxFindings = 100
  full = full
  lab = lab
  unfit = unfit
  halted = halted
  p1 = p1
  p2 = p2
  Proc = {p1, p2}
  Nobody = Nobody
  Artifact = {full, lab, unfit, halted}
  Snapshot <- MCSnapshot
  Policy <- MCPolicy
  Request <- MCRequest
  Judge <- MCJudge
  NoBundle = NoBundle
  ReceiptPath = {drill}
  DrillReceipt = drill
  Missing = Missing
  Torn = Torn
  Origin = Missing
  Foreign <- MCForeign
  Producers = {"promptops"}
  MaxFiles = 128
  MaxRunReceipts = 16
  MaxArtifacts = 32
  MaxAge = 604800
  RunOf <- MCRunOf
  NotARun = NotARun
  Unreadable = Unreadable
  Path <- MCPath
  ContentAt <- MCContentAt
  FirstContent <- MCFirstContent
  ShaIn <- MCShaIn
  Report <- MCReport
  NotAReport = NotAReport
  MaxTime = 2
  MaxCrashes = 1
  MaxEdits = 1
  MaxInputEdits = 2
  MaxTicks = 1
SPECIFICATION WorkflowSpec
CONSTRAINT FewDisturbances
CHECK_DEADLOCK FALSE
INVARIANTS
  ReadyIsOneState
  ReadyIsRehearsed
  
PROPERTIES
  EveryRunLeavesAVerdict
