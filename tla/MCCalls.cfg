SPECIFICATION CallsSpec
CONSTANTS
  Parts = {"nested", "shared"}
  Keys <- MCKeys
  Values = {Empty, x}
  Empty = Empty
  Iters = {i1, i2}
  None = None
  MaxCount = 2
  MaxDepth = 3
  MaxEntries = 2
  MaxCounter = 2
  MaxSteps = 10
  MaxParameters = 1
INVARIANTS FramesFollowGenerations HandlesMeanTheirKey
PROPERTIES NotUpdatedMeansSame SuccessKeepsChanges
SYMMETRY Symmetry
