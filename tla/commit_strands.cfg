SPECIFICATION FairSpec
CONSTANTS
    Checks = 1
    Limit = 2
    MaxRepairs = 0
    MaxReconnects = 0
    ResumeOnRestart = TRUE
    Lingers = FALSE
    MaxContent = 1
    MaxReviews = 0
    MaxRounds = 1
    MaxCrashes = 1
    MaxEnv = 0
INVARIANT SiteReachable
CHECK_DEADLOCK FALSE
