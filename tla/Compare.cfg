CONSTANTS
    Values = {"r1", "r2"}
    MaxRecords = 3
    MaxReport = 2
SPECIFICATION Spec
INVARIANTS
    TypeOK
    VerdictExact
    ReportsFirstDifferences
    ReportsRightPosition
