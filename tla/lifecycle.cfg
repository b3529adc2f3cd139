CONSTANTS
    Runs = {r1}
    Followups = {f1}
    SpecRuns = {}
    Autonomous = {}
    Continuous = {}
    Verified = {}
    AutoPublish = {}
    Release = {}
    Resumable = {}
    r1 = r1
    f1 = f1
    MaxActive = 4
    MaxRounds = 2
    MaxCrashes = 0
SPECIFICATION FairSpec
INVARIANTS TypeOK ActiveHasOwner
PROPERTY ActiveSettles
CHECK_DEADLOCK FALSE
