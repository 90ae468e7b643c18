CONSTANTS
  Link = Link
  MaxArtifacts = 2048
  MaxDependencies = 64
  MaxComponents = 128
  MaxFiles = 3
  Proc = {o1}
  Nobody = Nobody
  NoPlan = NoPlan
  ReleaseSpec <- MCReleaseSpec
  Bundles <- MCBundles
  Lives <- MCLives
  Start <- MCStart
  MaxPlans = 1
  MaxCrashes = 0
  MaxFailures = 1
  MaxEdits = 0
SPECIFICATION Spec
PROPERTY FreshPlanIsNotBlocked
