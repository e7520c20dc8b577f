SPECIFICATION KeptSpec
CONSTANTS
  Parts = {"store", "copies", "migration", "polling", "crashes", "failures"}
  Keys = {"k1"}
  Requests = {"r1"}
  Handlers = {1, 2}
  None = None
  BackupExists = TRUE
  TornWrites = TRUE
  MaxCrashes = 1
  FailureKinds = {"proxy", "write", "remove", "verifier"}
  MaxFailures = 2
INVARIANTS TreesKeepTheirContents StoredTreesLoad PendingSurvivesRestart
PROPERTIES RevocationRecordFirst WorkEnds
CHECK_DEADLOCK FALSE
