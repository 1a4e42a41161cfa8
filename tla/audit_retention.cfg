\* One bot process with two worker slots, the GLOBAL chain (no unique seq
\* index), a retention sweep, crashes and retries.
SPECIFICATION Spec
CONSTANTS
    global = global
    guild = guild
    d1 = d1
    d2 = d2
    d3 = d3
    w1 = w1
    w2 = w2
    w3 = w3
    p1 = p1
    p2 = p2
    Chains = {global}
    GuildChains = {}
    Drafts = {d1, d2}
    ChainOf <- OneChainOf
    NoDraft = NoDraft
    Slots = {w1, w2}
    Instances = {p1}
    InstanceOf <- OneProcess
    MaxJobAttempts = 2
    MaxAppendAttempts = 2
    MaxStalled = 1
    Sweepers = {s1}
    Retention = 0
    ArchiveBeforeDelete = TRUE
    ExportBatch = 1
    Verifiers = {}
    VerifyBatch = 1
    MaxCrashes = 1
    MaxNow = 1
SYMMETRY OneProcessSymmetry
INVARIANTS
    TypeOK
    SurvivingChainVerifies
    CompletedIsKept
    
    ArchivesComplete
PROPERTIES
    PrunesAreSafe
    ImplementsTrail
