CONSTANTS
    Users = {1, 2, 3}
    Paths = {"a"}
    Sizes = {1}
    Gaps = {0, 2, 3}
    IdleMs = 2
    MaxEvents = 5
SPECIFICATION FairSpec
INVARIANTS
    TypeOK
    OutputOrdered
    OpenExactlyLive
    SessionsSeparated
    EventsCovered
PROPERTIES
    RefinesSessionSpec
    EveryEventReported
