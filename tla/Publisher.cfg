CONSTANTS
  MaxFiles = 500
  LargeChange = 600
  EnabledReviewers = {"security", "reliability", "testing", "maintainability"}
  MinimumSuccessful = 3
  BlockingSeverities = {"critical"}
  Proc = {o1, o2}
  Nobody = Nobody
  PullRequest = {"good", "slow", "thin", "leak"}
  SnapshotOf <- MCSnapshotOf
  Runs <- MCRuns
  ReceiptPath = {r1}
  Missing = Missing
  Origin = known
  Foreign = {Missing, edited}
  MaxPublications = 3
  MaxCrashes = 1
  MaxFailures = 2
  MaxEdits = 1
CHECK_DEADLOCK FALSE
SPECIFICATION Spec
CONSTRAINT FewFaultsInRaces
SYMMETRY MCSymmetry
INVARIANTS
  PublishedApprovalIsEarned
PROPERTIES
  AllOrNothing
  PriorContentsKept
