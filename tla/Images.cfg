SPECIFICATION Spec
CONSTANTS
  Jobs <- MCServices
  Repos = {"r", "q"}
  TagOrder <- MCTagOrder
  Pushable <- MCPushable
  MaxExpiry = 1
  MaxPush = 1
  JobOrder <- MCJobOrder
  StackOrder <- MCStackOrder
  StackOf <- MCStackOf
  ContextOf <- MCContextOf
  FilesOf <- MCFilesOf
  Version <- MCVersion
  EnvTag <- T1
  Scenarios <- MCScenarios
INVARIANTS UpgradeIsExact UnlistedMeansCurrent RecreateRunsWhatWasSeen StaleTokenNeverFails
PROPERTIES CancelReturns
