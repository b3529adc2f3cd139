CONSTANTS
    a = a  b = b  c = c  w1 = w1  w2 = w2  h1 = h1  h2 = h2
    Task = {a, b, c}
    Deps <- Chain
    Worker = {w1}
    HostOf <- OneHost
    Idle = "drain"
    LateStarts = TRUE
    MaxSuffix = 6
    Budget = 0
    MaxStreak = 0
    MaxProducers = 1
    MaxAdds = 3
    MaxRevives = 1
    MaxInterrupts = 1
SPECIFICATION FairSpec
INVARIANTS TypeOK DispatchedOncePerRequest
PROPERTY Drains
CHECK_DEADLOCK FALSE
