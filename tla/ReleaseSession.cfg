CONSTANTS
  Path = {"readme", "login"}
  FoldOf <- MCFoldOf
  Touches <- MCTouches
  TrustKey <- MCTrustKey
  KeyAuthority <- MCKeyAuthority
  KeyUsages <- MCKeyUsages
  FutureSkew = 1
  Policy <- MCPolicy
  Evidence <- MCEvidence
  Arriving <- MCArriving
  Grantable <- MCGrantable
  StartNow = 5
  MaxNow = 7
  MaxArrivals = 1
  MaxWaivers = 2
SPECIFICATION Spec
CONSTRAINT FewThings
CHECK_DEADLOCK FALSE
INVARIANTS
  ReadyIsBound
  ReadyIsFresh
  WaiversOnlyExcuse
  OrderIndependent
PROPERTIES
  RerunNeverErases
