CONSTANTS
    Concurrency = 2
    RetiredBound = 2
    Ticks = {0, 1}
    MaxEvents = 5
    IdleMs = 1
SPECIFICATION WorkloadSpec
INVARIANTS
    TypeOK
    UsersApart
    WorkingSetBounded
    StatsAccount
PROPERTY ForgottenForGood
