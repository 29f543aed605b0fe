CONSTANTS
    Helpers = {h1}
    StdOpen = {0, 1, 2}
    WallSeconds = 180
    Prompt = FALSE
SPECIFICATION FairSpec
PROPERTY GraderReturns
