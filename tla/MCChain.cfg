SPECIFICATION Spec
CONSTANT Parts = {"json", "bytes", "modules", "transactions", "rates", "keys", "decimals"}
INVARIANTS WrittenIsUnderstood TraceLeadsToCause AcceptedIsAuthorised AuthorisedIsServed
CHECK_DEADLOCK FALSE
