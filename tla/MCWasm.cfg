SPECIFICATION Spec
CONSTANT Parts = {"straight", "jumps", "results", "calls", "memory", "metered_branches", "metered_memory", "numbers", "tables", "memories", "exports"}
INVARIANTS ComputesTheMeaning CodeIsWellFormed MeteringIsExact ArtifactIsAsDeclared
CHECK_DEADLOCK FALSE
