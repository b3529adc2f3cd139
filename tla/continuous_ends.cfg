SPECIFICATION FairSpec
CONSTANTS
    Checks = 1
    Limit = 2
    MaxRepairs = 1
    MaxReconnects = 1
    ResumeOnRestart = TRUE
    Lingers = FALSE
    MaxContent = 1
    MaxReviews = 1
    MaxRounds = 1
    MaxCrashes = 1
    MaxEnv = 0
INVARIANT ReviewFunded
PROPERTY RoundEnds
CHECK_DEADLOCK FALSE
