CONSTANTS
    Values = {"r1", "r2"}
    MaxRecords = 2
    MaxReport = 3
SPECIFICATION Spec
INVARIANT FailsAtFirstDifference
