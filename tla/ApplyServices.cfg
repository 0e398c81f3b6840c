SPECIFICATION Spec
CONSTANTS
  N = 2
  Services <- MCServices
  C = 3
  ServiceOf <- MCScaled
  MaxRuns = 2
  MaxFaults = 1
INVARIANTS NoServiceLeftDown ColdSyncFindsServicesStopped SuccessRestartsServices
