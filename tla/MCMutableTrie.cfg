SPECIFICATION TrieSpec
CONSTANTS
  Parts = {"structure", "generations", "iterators", "lock_limit"}
  Keys <- MCKeys
  Values = {Empty, x}
  Iters = {i1, i2}
  None = None
  Empty = Empty
  MaxCount = 1
  MaxNodes = 9
  MaxEntries = 9
  MaxGenerations = 3
  MaxIds = 1
  MaxSteps = 4
INVARIANTS FreezeIsCanonical EntryIdsDenoteTheirKey CheckpointsCoverOlderGenerations
PROPERTIES ImplementsContractState EntryDiesWithItsKey
