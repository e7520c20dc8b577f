SPECIFICATION Spec
CONSTANT Parts = {"logs", "commitments", "enc_trans", "enc_trans_short", "ranges", "sets", "transfers"}
INVARIANTS HonestProofsVerify AcceptedProofsBind
CHECK_DEADLOCK FALSE
