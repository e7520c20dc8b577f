SPECIFICATION Spec
CONSTANT Parts = {"sharing", "signed", "relay", "forged", "honest", "identity", "ages"}
INVARIANTS AcceptedIsGenuine RevocationIsExact HonestSucceeds
CHECK_DEADLOCK FALSE
