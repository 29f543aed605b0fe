CONSTANTS
    Seeds = {1, 2}
    MaxRuns = 3
    TailLength = 3
    MaxRows = 2
    Modes = {"memory", "fanout", "answer", "silent"}
SPECIFICATION Spec
INVARIANTS
    TypeOK
    PassIsEarned
    TailIsOwn
    ModeIsCause
    CleanMatrixIsMeant
CHECK_DEADLOCK FALSE
