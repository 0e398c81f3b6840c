SPECIFICATION FairSpec
CONSTANT N = 3
INVARIANTS ReturnIsExact AbortedHasAGenuineCause SiblingFailureNeverKills
PROPERTIES CancellationReturns
