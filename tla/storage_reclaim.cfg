\* One call at a time, no failure: store, delete, store the same bytes again.
SPECIFICATION Spec
CONSTANTS
    c1 = c1
    c2 = c2
    guild = guild
    global = global
    x = x
    y = y
    Callers = {c1}
    Scopes = {guild, global}
    GuildScopes = {guild}
    Contents = {x, y}
    SizeOf <- TwoBytes
    QuotaBytes = 3
    MaxObjects = 2
    MaxHeld = 2
    MaxFaults = 0
SYMMETRY CallsAndBodies
INVARIANTS
    ReclaimableIsOrphaned
CHECK_DEADLOCK FALSE
