SPECIFICATION Spec
CONSTANTS
  Volumes <- MCVolumes
  Networks <- MCNetworks
  Stacks <- MCOneStack
  Services <- MCTwoServices
  ComposeNet <- MCComposeNet
  MaxRuns = 2
  MaxFaults = 1
  MaxChanges = 1
INVARIANTS PruneStaysWithinPlan CleanRunSettles
PROPERTIES OnlyOrphansAreRemoved
