\* Two bot processes, one and two worker slots, on a guild chain (unique seq
\* index): the in-process lock does not reach across, the index and the retry
\* do. No sweeps; liveness under the fairness of FairSpec.
SPECIFICATION FairSpec
CONSTANTS
    global = global
    guild = guild
    d1 = d1
    d2 = d2
    d3 = d3
    w1 = w1
    w2 = w2
    w3 = w3
    p1 = p1
    p2 = p2
    Chains = {guild}
    GuildChains = {guild}
    Drafts = {d1, d2}
    ChainOf <- OneChainOf
    NoDraft = NoDraft
    Slots = {w1, w2, w3}
    Instances = {p1, p2}
    InstanceOf <- TwoProcesses
    MaxJobAttempts = 2
    MaxAppendAttempts = 2
    MaxStalled = 1
    Sweepers = {}
    Retention = 0
    ArchiveBeforeDelete = TRUE
    ExportBatch = 1
    Verifiers = {}
    VerifyBatch = 1
    MaxCrashes = 1
    MaxNow = 0
INVARIANTS
    ChainsIntact
PROPERTIES
    QueuedSettles
\* Once every draft is settled nothing is left to do.
CHECK_DEADLOCK FALSE
