SPECIFICATION Spec
CONSTANTS
  Files = {f1, f2}
  Contents = {c1}
  Absent = Absent
  Containers = {a, b}
  Snapshots = {s1}
  UserTar = UserTar
  NoFile = NoFile
  Garbled = Garbled
  MaxFaults = 0
  MaxWrites = 0
  MaxRestores = 1
  MaxOthers = 1
INVARIANT ChecksumIsVerified
