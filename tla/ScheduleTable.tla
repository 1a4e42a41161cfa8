---------------------------- MODULE ScheduleTable ----------------------------
(***************************************************************************)
(* What the scheduler keeps outside the process: the schedules table, the  *)
(* one-shot jobs and the repeatable jobs of its queue.  A one-shot job is  *)
(* queued under the deduplication key of its schedule, the runs of a       *)
(* repeat (and the ones an operator triggers) under ids of their own.      *)
(***************************************************************************)
EXTENDS JobQueue, Sequences

CONSTANTS
    OnceKeys,       \* (guildId, kind, idempotencyKey) of one-shot schedules
    RecurringKeys,  \* the same, of recurring schedules
    Scoped,         \* the keys whose guildId is not NULL
    MaxRows         \* bound: schedules ever created

Keys == OnceKeys \cup RecurringKeys
RowIds == 1 .. MaxRows

ASSUME ScheduleTableAssumption ==
    /\ OnceKeys \cap RecurringKeys = {} /\ Scoped \subseteq Keys
    /\ OnceKeys \cap RowIds = {} /\ "none" \notin Keys   \* no id of an instance, no null
    /\ MaxRows \in Nat \ {0}

VARIABLES
    rows,     \* the schedules, by id, soft-deleted ones included
    jobs,     \* BullMQ: the job of a key, or the instance job of a schedule
    repeats   \* BullMQ: the schedules that have a repeatable job

Statuses == {"pending", "active", "paused", "completed", "failed", "cancelled"}

Row == [key : Keys, status : Statuses, deleted : BOOLEAN, bull : BOOLEAN]

NoEntry == [row |-> 0, queue |-> NoJob]

TableInit ==
    /\ rows = << >>
    /\ jobs = [id \in OnceKeys \cup RowIds |-> NoEntry]
    /\ repeats = {}

TableTypeOK ==
    /\ DOMAIN rows \subseteq RowIds /\ \A i \in DOMAIN rows : rows[i] \in Row
    /\ \A id \in DOMAIN jobs : JobTypeOK(jobs[id].queue) /\ jobs[id].row \in 0 .. Len(rows)
    /\ repeats \subseteq DOMAIN rows

Live(i) == i \in DOMAIN rows /\ ~rows[i].deleted
Recurring(i) == rows[i].key \in RecurringKeys

\* findByDedup: some row of the key that is not deleted, 0 when there is none.
FoundByDedup(k) ==
    LET found == {i \in DOMAIN rows : Live(i) /\ rows[i].key = k}
    IN  IF found = {} THEN {0} ELSE found

\* findActiveRecurring, filtered on the status.
ActiveRecurring == {i \in DOMAIN rows : Live(i) /\ Recurring(i) /\ rows[i].status = "active"}

\* The unique index schedule_dedup: NULL is never equal to NULL, and a row
\* that is soft-deleted keeps its place.
UniqueAllows(k) == k \in Scoped => \A i \in DOMAIN rows : rows[i].key # k

NewRow(k) ==
    [key |-> k, deleted |-> FALSE, bull |-> FALSE,
     status |-> IF k \in RecurringKeys THEN "active" ELSE "pending"]

\* Mutant of SoftDeleted: a status that the enumeration does not have.
SoftDeletedAs(row) == [row EXCEPT !.deleted = TRUE, !.status = "deleted"]

SoftDeleted(row) == [row EXCEPT !.deleted = TRUE, !.status = "cancelled"]

\* removeJob: what a worker holds is locked, and the error is swallowed.
WithoutJob(entry) == IF entry.queue.state = "active" THEN entry ELSE NoEntry

\* Queue.add under an id that may be taken.
WithJob(entry, i) == IF entry.queue.state = "none" THEN [row |-> i, queue |-> Added(NoJob)] ELSE entry

\* An instance job of a schedule (bound: one in the queue at a time).
NoInstance == \A j \in RowIds : jobs[j] = NoEntry
Instance(i) == [row |-> i, queue |-> Added(NoJob)]

\* A job after an attempt.  The queue keeps what has ended; of the instances,
\* whose ids are never added again, that is left out.
After(id, queue) ==
    IF id \in RowIds /\ queue.state \in {"completed", "failed"}
    THEN NoEntry ELSE [jobs[id] EXCEPT !.queue = queue]

\* BullMQ: the repeatable job of a schedule is due.
Fire(i) ==
    /\ i \in repeats /\ NoInstance
    /\ jobs' = [jobs EXCEPT ![i] = Instance(i)]
    /\ UNCHANGED << rows, repeats >>
=============================================================================
