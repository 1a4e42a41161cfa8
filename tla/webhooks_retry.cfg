\* One request after the other, one fault, no crash.
SPECIFICATION Spec
CONSTANTS
    r1 = r1
    r2 = r2
    identified = identified
    unidentified = unidentified
    w1 = w1
    n1 = n1
    b1 = b1
    b2 = b2
    Requests = {r1}
    Deliveries = {identified}
    WithId = {identified}
    Workers = {w1}
    MaxRows = 2
    MaxSent = 2
    Subs = {}
    Senders = {n1}
    Attempts = 2
    MaxStalled = 1
    MaxCrashes = 0
    MaxFaults = 1
INVARIANTS
    RetryNotDropped
CHECK_DEADLOCK FALSE
