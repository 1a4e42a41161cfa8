\* Two bot processes append to the GLOBAL chain: its guildId is NULL, so the
\* unique (scope, guildId, seq) index does not apply, and the chain forks.
SPECIFICATION Spec
CONSTANTS
    global = global
    guild = guild
    d1 = d1
    d2 = d2
    d3 = d3
    w1 = w1
    w2 = w2
    w3 = w3
    p1 = p1
    p2 = p2
    Chains = {global}
    GuildChains = {}
    Drafts = {d1, d2, d3}
    ChainOf <- OneChainOf
    NoDraft = NoDraft
    Slots = {w1, w2}
    Instances = {p1, p2}
    InstanceOf <- TwoProcesses
    MaxJobAttempts = 2
    MaxAppendAttempts = 2
    MaxStalled = 1
    Sweepers = {}
    Retention = 0
    ArchiveBeforeDelete = TRUE
    ExportBatch = 1
    Verifiers = {}
    VerifyBatch = 1
    MaxCrashes = 0
    MaxNow = 0
INVARIANTS
    ChainsIntact
CHECK_DEADLOCK FALSE
