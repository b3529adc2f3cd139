CONSTANTS
    a = a  b = b  c = c  w1 = w1  w2 = w2  h1 = h1  h2 = h2
    Task = {a, b}
    Deps <- Free
    Worker = {w1, w2}
    HostOf <- Remote
    Idle = "watch"
    LateStarts = FALSE
    MaxSuffix = 6
    Budget = 1
    MaxStreak = 0
    MaxProducers = 1
    MaxAdds = 2
    MaxRevives = 1
    MaxInterrupts = 1
SPECIFICATION Spec
INVARIANT NothingLost
CHECK_DEADLOCK FALSE
