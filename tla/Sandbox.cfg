CONSTANTS
    Helpers = {h1, h2}
    StdOpen = {0, 1, 2}
    WallSeconds = 180
    Prompt = TRUE
SPECIFICATION FairSpec
INVARIANTS
    TypeOK
    CandidateConfined
    CandidateRedirected
    NoSurvivors
    AlarmContained
    ResultHonest
PROPERTY GraderReturns
