SPECIFICATION Spec
CONSTANTS
  Places <- MCPlaces
  Trees <- MCTrees
  Documents <- MCDocuments
  Targets <- MCTargets
  ContextKeys = {"x", "y"}
  StackNames = {"web", "api", "old"}
INVARIANTS StacksAreAsMeant AcceptedIffValid FilesetsFollowTheirStacks
