CONSTANTS
  MaxChecks = 100
  MaxChanges = 500
  MaxFindings = 100
  forward = forward
  backward = backward
  degraded = degraded
  blocked = blocked
  Proc = {p1, p2}
  Nobody = Nobody
  Artifact = {forward, backward, degraded, blocked}
  Snapshot <- MCSnapshot
  Policy <- MCPolicy
  ReceiptPath = {r1, r2, r3}
  Missing = Missing
  Torn = Torn
  Origin <- MCOrigin
  Foreign <- MCForeign
  MaxCrashes = 1
  MaxEdits = 1
SPECIFICATION Spec
SYMMETRY MCSymmetry
INVARIANTS
  UndoChain
  OnlyReadyIsApplied
PROPERTIES
  ReceiptsKept
  TurnsMakeARegister
