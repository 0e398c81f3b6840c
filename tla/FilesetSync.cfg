SPECIFICATION FairSpec
CONSTANTS
  Paths = {p1, p2}
  Contents = {c1, c2}
  Absent = Absent
  Foreign = Foreign
  MaxEdits = 2
  MaxFaults = 1
  MaxRemovals = 1
  MaxAppWrites = 1
INVARIANTS VolumeMatchesIndex SuccessIsComplete
PROPERTIES ForeignFilesSurvive EventuallyIndexed
