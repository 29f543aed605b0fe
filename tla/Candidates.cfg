CONSTANTS
    Users = {1, 2}
    Paths = {"a", "b"}
    Sizes = {3}
    Gaps = {0, 2, 3}
    IdleMs = 2
    MaxEvents = 4
SPECIFICATION CandidateSpec
INVARIANTS
    CandidateTypeOK
    HeldAsDeclared
    AgreesWithOracle
    FailsAsDeclared
