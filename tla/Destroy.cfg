SPECIFICATION Spec
CONSTANTS
  Contexts <- MCContexts
  Projects <- MCOneProject
  Networks <- MCNetworks
  Volumes <- MCVolumes
  NoProject = "none"
  Owns <- MCOwns
  Mounts <- MCMounts
  Joins <- MCJoins
  MaxFaults = 1
  MaxChanges = 1
INVARIANTS StrictSuccessMeansGone FailuresAreIsolated RemovedWasShownUnlessTouched
PROPERTIES TargetedSparesTheRest
