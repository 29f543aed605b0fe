CONSTANTS
    Seeds = {1}
    MaxRuns = 2
    TailLength = 3
    MaxRows = 2
    Modes = {"memory"}
SPECIFICATION Spec
INVARIANT MemoryMeansCeiling
CHECK_DEADLOCK FALSE
