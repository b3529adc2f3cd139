CONSTANTS
    Tasks = 3
    DependsOn <- NeedsFirst
    Overlap <- SharedPaths
    MaxParallel = 2
    MaxAttempts = 2
    Limit = 1
    Policies = {"stop", "allow_bounded"}
    AutoPublish = FALSE
    MaxCost = 1
    MaxRounds = 3
    MaxCrashes = 1
    MaxRestoreFaults = 0
SPECIFICATION Spec
INVARIANTS TypeOK SpendWithinBudget CleanIntegration
PROPERTIES SavedWorkKept ImplementsDelivery
CHECK_DEADLOCK FALSE
