\* Two callers schedule, replace, cancel, pause, resume and trigger a reminder or
\* a recurring schedule, of the whole bot (cleanup) or of a guild (backup), while
\* the worker runs the jobs and the reconciler passes; one crash or fault.
SPECIFICATION Spec
CONSTANTS
    reminder = reminder
    cleanup = cleanup
    backup = backup
    c1 = c1
    c2 = c2
    w1 = w1
    OnceKeys = {reminder}
    RecurringKeys = {cleanup, backup}
    Scoped = {backup}
    MaxRows = 2
    Callers = {c1, c2}
    MaxControls = 1
    Workers = {w1}
    Attempts = 2
    MaxStalled = 0
    MaxTroubles = 1
SYMMETRY CallerSymmetry
INVARIANTS
    TypeOK
    ReplaceKeepsJob
    
    
    SoleDefinition
CHECK_DEADLOCK FALSE
