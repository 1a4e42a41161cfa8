\* Two publishers, two events, two attempts, one fault or crash; three calls on a
\* plugin; two dispatches of one key; two reads and two writes of a cached row; two
\* permission groups; two edits of a text; two guilds; two deliveries and two calls
\* on a webhook endpoint; four changes of the settings of a guild; one mishap in
\* each.  A service may have nothing left to do.
SPECIFICATION ServicesSpec
CONSTANTS
    banned = banned
    noted = noted
    w1 = w1
    audit = audit
    cache = cache
    Publishers = {1, 2}
    Events = {banned, noted}
    KeyedEvents = {banned}
    DeliveryOf <- BothAndAsync
    SyncHandlers <- OneSync
    AsyncHandlers <- TwoAsync
    Workers = {w1}
    MaxEnvelopes = 2
    Attempts = 2
    MaxStalled = 1
    MaxDisruptions = 1
    Calls = {1, 2, 3}
    Guilds = {"guild"}
    MaxPluginUpsets = 1
    dm = dm
    mail = mail
    slot = slot
    Dispatches = {1, 2}
    Channels = {dm, mail}
    Couriers = {slot}
    MaxDeliveries = 2
    MaxMishaps = 1
    bot1 = bot1
    bot2 = bot2
    cw1 = cw1
    cw2 = cw2
    r1 = r1
    r2 = r2
    Procs = {bot1, bot2}
    Readers = {r1, r2}
    CacheWriters = {cw1, cw2}
    HomeOf <- TwoProcesses
    MaxCacheFaults = 1
    moderator = moderator
    Tiers = {"owner", "member"}
    MemberRoles = {moderator}
    ClaimDepth = 2
    TierSteps <- OwnerAndMember
    shard1 = shard1
    shard2 = shard2
    fix = fix
    reword = reword
    Bots = {shard1, shard2}
    TextGuilds = {"guild"}
    Shows <- GuildAndGlobal
    Edits = {fix, reword}
    MaxSlips = 1
    Servers = {"server", "other"}
    hook1 = hook1
    hook2 = hook2
    admin1 = admin1
    admin2 = admin2
    Tokens = {1, 2, 3}
    Arrivals = {hook1, hook2}
    Managers = {admin1, admin2}
    MaxMishandled = 1
    AuditChanges = {"days", "format"}
    SecurityChanges = {"limits", "cooldowns"}
    MaxUpsets = 1
INVARIANTS
    ServicesTypeOK
    
    KeyedRunsOnce
    ReportedIsQueued
    QuietOnceDrained
    StatusAgrees
    UnsettledHasJob
    CancelledStaysUnsent
    KeyNotifiesOnce
    
    
    EditReachesHandler
    PresentMeansMember
    CachedRecordIsCurrent
    AnsweredChangesStay
CHECK_DEADLOCK FALSE
