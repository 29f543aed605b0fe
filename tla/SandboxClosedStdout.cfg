CONSTANTS
    Helpers = {h1}
    StdOpen = {0, 2}
    WallSeconds = 180
    Prompt = TRUE
SPECIFICATION Spec
INVARIANT CandidateRedirected
