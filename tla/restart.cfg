CONSTANTS
    Runs = {r1}
    Followups = {f1}
    SpecRuns = {r1}
    Autonomous = {r1}
    Continuous = {r1}
    Verified = {r1}
    AutoPublish = {r1}
    Release = {r1}
    Resumable = {r1}
    r1 = r1
    f1 = f1
    MaxActive = 4
    MaxRounds = 2
    MaxCrashes = 2
SPECIFICATION Spec
INVARIANTS RecoveryLeavesNoOrphan OneRoundPerRun ReceiptMeansMerged
PROPERTIES CancelSticks AppliedOnce LandingSettles
CHECK_DEADLOCK FALSE
