CONSTANTS
  Link = Link
  MaxArtifacts = 2048
  MaxDependencies = 64
  MaxComponents = 128
  MaxFiles = 3
  Proc = {o1, o2}
  Nobody = Nobody
  NoPlan = NoPlan
  ReleaseSpec <- MCReleaseSpec
  Bundles <- MCBundles
  Lives <- MCLives
  Start <- MCStart
  MaxPlans = 2
  MaxCrashes = 1
  MaxFailures = 1
  MaxEdits = 1
SPECIFICATION Spec
CONSTRAINT OneFaultInRaces
SYMMETRY MCSymmetry
INVARIANTS
  NothingLost
  OneApplierPerPlan
PROPERTIES
  AnswersAreTrue
