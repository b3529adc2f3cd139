CONSTANTS
    r1 = r1  r2 = r2  x1 = x1  x2 = x2
    Run = {r1, r2}
    Repo = {x1, x2}
    Taken = {}
    Bases = {"absent", "shared"}
    MaxRevision = 3
    MaxTroubles = 1
SPECIFICATION Spec
INVARIANTS TypeOK CreatedOnce UploadsWhereAsked LostAnswersHeal RetryAdmitted
SYMMETRY Symmetric
CHECK_DEADLOCK FALSE
