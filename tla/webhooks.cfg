\* Two requests race over a delivery with an id; what it publishes goes out to
\* one subscription; one crash and one fault at any point.
SPECIFICATION Spec
CONSTANTS
    r1 = r1
    r2 = r2
    identified = identified
    unidentified = unidentified
    w1 = w1
    n1 = n1
    b1 = b1
    b2 = b2
    Requests = {r1, r2}
    Deliveries = {identified}
    WithId = {identified}
    Workers = {w1}
    MaxRows = 2
    MaxSent = 2
    Subs = {b1}
    Senders = {n1}
    Attempts = 2
    MaxStalled = 1
    MaxCrashes = 1
    MaxFaults = 1
SYMMETRY RequestSymmetry
INVARIANTS
    TypeOK
    AcceptedIsQueued
    
    OneAckUnlessLost
    DeadLettersComplete
CHECK_DEADLOCK FALSE
