CONSTANTS
    MaxMessages = 3
    MaxRuns = 3
    MaxFaults = 1
    MaxClicks = 1
    BatchLimit = 1
    AnswerLimit = 1
    Policies = {TRUE, FALSE}
SPECIFICATION FairSpec
INVARIANTS TypeOK SupplementKept OneSuccessor
PROPERTY FeedbackMoves
CHECK_DEADLOCK FALSE
