SPECIFICATION Spec
CONSTANTS
    Checks = 2
    Limit = 2
    MaxRepairs = 0
    MaxReconnects = 0
    ResumeOnRestart = TRUE
    Lingers = FALSE
    MaxContent = 1
    MaxReviews = 0
    MaxRounds = 2
    MaxCrashes = 1
    MaxEnv = 1
INVARIANTS TypeOK CommitCovered SpendWithinBudget SoleWriter
CHECK_DEADLOCK FALSE
