SPECIFICATION Spec
CONSTANTS
  Runs <- MCRuns
  MaxLog = 1
  MaxLines = 2
  MaxKeys = 2
  MaxFaults = 1
INVARIANTS OneWriter AppliedAsReviewed ExitTellsTheWork
PROPERTIES CommandReturns
