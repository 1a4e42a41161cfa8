\* Two overlapping calls on a guild whose quota has room for one body.
SPECIFICATION Spec
CONSTANTS
    c1 = c1
    c2 = c2
    guild = guild
    global = global
    x = x
    y = y
    Callers = {c1, c2}
    Scopes = {guild}
    GuildScopes = {guild}
    Contents = {x, y}
    SizeOf <- TwoBytes
    QuotaBytes = 3
    MaxObjects = 3
    MaxHeld = 2
    MaxFaults = 1
SYMMETRY CallsAndBodies
INVARIANTS
    TypeOK
    LiveHaveBytes
    
    UsageMatchesCatalog
    OvershootBounded
CHECK_DEADLOCK FALSE
