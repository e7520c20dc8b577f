CONSTANTS
  MaxCount = 2
  Keys <- MCKeys
SPECIFICATION Spec
INVARIANTS

  NodesAreLivePaths
  PointLockExact
  SubtreeLockExact
PROPERTY
  SuccessIffCounted
