\* A guild schedules a one-shot again under its idempotency key.
SPECIFICATION Spec
CONSTANTS
    reminder = reminder
    cleanup = cleanup
    backup = backup
    c1 = c1
    c2 = c2
    w1 = w1
    OnceKeys = {reminder}
    RecurringKeys = {cleanup, backup}
    Scoped = {reminder, backup}
    MaxRows = 2
    Callers = {c1}
    MaxControls = 1
    Workers = {w1}
    Attempts = 2
    MaxStalled = 0
    MaxTroubles = 0
INVARIANTS
    ReplaceKeepsJob
CHECK_DEADLOCK FALSE
