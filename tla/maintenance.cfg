CONSTANTS
    k1 = k1  x1 = x1  x2 = x2  h1 = h1  h2 = h2
    Key = {k1}
    Words = {x1, x2}
    Thread = {h1, h2}
    MaxHead = 2
    MaxRevision = 2
    MaxTroubles = 1
SPECIFICATION FairSpec
INVARIANTS TypeOK OneChain BoundIsQueued KeepsDelivered
PROPERTY Converges
CHECK_DEADLOCK FALSE
