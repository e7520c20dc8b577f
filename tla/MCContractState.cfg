CONSTANTS
  Keys <- MCKeys
  Values = {v}
  Iters = {i1, i2}
  NoIter = NoIter
  MaxCount = 1
  MaxGenerations = 2
SPECIFICATION Spec
CONSTRAINT Depth
INVARIANTS
  TypeOK
  LocksCounted
  IteratorSeesSnapshot
  IterationInOrder
