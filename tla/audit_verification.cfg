\* One bot process with two worker slots, the GLOBAL chain (no unique seq
\* index), a retention sweep and a verification that interleave.
SPECIFICATION Spec
CONSTANTS
    global = global
    guild = guild
    d1 = d1
    d2 = d2
    d3 = d3
    w1 = w1
    w2 = w2
    w3 = w3
    p1 = p1
    p2 = p2
    Chains = {global}
    GuildChains = {}
    Drafts = {d1, d2, d3}
    ChainOf <- OneChainOf
    NoDraft = NoDraft
    Slots = {w1, w2}
    Instances = {p1}
    InstanceOf <- OneProcess
    MaxJobAttempts = 1
    MaxAppendAttempts = 2
    MaxStalled = 0
    Sweepers = {s1}
    Retention = 0
    ArchiveBeforeDelete = TRUE
    ExportBatch = 1
    Verifiers = {v1}
    VerifyBatch = 1
    MaxCrashes = 0
    MaxNow = 1
SYMMETRY OneProcessSymmetry
INVARIANTS
    BrokenOnlyWhenPruned
