CONSTANTS
    Tasks = 3
    DependsOn <- NeedsFirst
    Overlap <- SharedPaths
    MaxParallel = 2
    MaxAttempts = 1
    Limit = 0
    Policies = {"stop", "allow_bounded"}
    AutoPublish = FALSE
    MaxCost = 1
    MaxRounds = 2
    MaxCrashes = 0
    MaxRestoreFaults = 1
SPECIFICATION FairSpec
PROPERTY RoundEnds
CHECK_DEADLOCK FALSE
