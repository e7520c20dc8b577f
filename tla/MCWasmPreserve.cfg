SPECIFICATION Spec
CONSTANT Parts = {"preserve"}
INVARIANT ComputesTheMeaning
CHECK_DEADLOCK FALSE
