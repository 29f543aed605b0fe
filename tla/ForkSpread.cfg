CONSTANTS
    Users = {1, 2}
    Paths = {"a"}
    Sizes = {1}
    Gaps = {0, 3}
    IdleMs = 2
    Shards = 2
    Capacity = 1
    MaxEvents = 4
SPECIFICATION FairSpec
INVARIANTS
    TypeOK
    ExitCodeHonest
    OutputInOrder
    OutputNeverWrong
    ExitZeroIsAnswer
PROPERTY EveryProcessEnds
CHECK_DEADLOCK FALSE
