---------------------------- MODULE ScheduleCalls ----------------------------
(***************************************************************************)
(* SchedulerServiceImpl: every call is a sequence of awaits on the table   *)
(* and on the queue, and works on the row as it first read it.             *)
(***************************************************************************)
EXTENDS ScheduleTable, FiniteSets

CONSTANTS
    Callers,      \* calls that may be in flight at once
    MaxControls   \* bound: cancel, pause and triggerNow calls

ASSUME ScheduleCallsAssumption == IsFiniteSet(Callers) /\ MaxControls \in Nat

VARIABLES
    subject,   \* bound: the key that the calls of a behaviour are about
    call,      \* what each call is doing
    controls   \* cancel, pause and triggerNow calls made

callVars == << subject, call, controls >>

IdleCall == [pc |-> "idle", op |-> "none", key |-> "none", row |-> 0, bull |-> FALSE]

CallInit == subject \in Keys /\ call = [c \in Callers |-> IdleCall] /\ controls = 0

CallTypeOK ==
    /\ subject \in Keys
    /\ \A c \in Callers :
        /\ call[c].pc \in {"idle", "dequeue", "retire", "create", "enqueue", "add", "record"}
        /\ call[c].op \in {"none", "schedule", "cancel", "pause", "resume"}
        /\ call[c].row \in 0 .. Len(rows) /\ call[c].bull \in BOOLEAN
    /\ controls \in 0 .. MaxControls

At(c, pc) == call[c].pc = pc
Goto(c, pc) == call' = [call EXCEPT ![c].pc = pc]
Returns(c) == call' = [call EXCEPT ![c] = IdleCall]
Once(c) == call[c].key \in OnceKeys

Scheduling == {c \in Callers : call[c].op = "schedule"}

\* A call on the schedule it read, or of no schedule (i = 0).
Begin(c, pc, op, k, i) ==
    /\ At(c, "idle")
    /\ call' = [call EXCEPT ![c] = [pc |-> pc, op |-> op, key |-> k, row |-> i,
                                    bull |-> i # 0 /\ rows[i].bull]]

\* Mutant of Replaces: recurring schedules are not pending, so they stay.
ReplacesPending(i) == i # 0 /\ rows[i].status = "pending"

\* What a schedule call replaces: a pending one-shot, any recurring schedule.
Replaces(i) == i # 0 /\ (Recurring(i) \/ rows[i].status = "pending")

\* scheduleOnce and scheduleRecurring, up to the lookup of the key.
Schedule(c) ==
    /\ Len(rows) + Cardinality(Scheduling) < MaxRows
    /\ \E i \in FoundByDedup(subject) :
        IF Replaces(i) THEN Begin(c, "dequeue", "schedule", subject, i)
                       ELSE Begin(c, "create", "schedule", subject, 0)
    /\ UNCHANGED << rows, jobs, repeats, subject, controls >>

\* requireJob.
Require(c, i, pc, op) ==
    /\ Live(i)
    /\ Begin(c, pc, op, rows[i].key, i)
    /\ UNCHANGED << rows, jobs, repeats, subject >>

Counted == controls < MaxControls /\ controls' = controls + 1

Cancel(c, i) == Counted /\ Require(c, i, "dequeue", "cancel")
Pause(c, i) == Recurring(i) /\ Counted /\ Require(c, i, "dequeue", "pause")
Resume(c, i) == rows[i].status = "paused" /\ UNCHANGED controls /\ Require(c, i, "enqueue", "resume")

TriggerNow(i) ==
    /\ Counted /\ Live(i) /\ NoInstance
    /\ jobs' = [jobs EXCEPT ![i] = Instance(i)]
    /\ UNCHANGED << rows, repeats, subject, call >>

\* Mutant of RemoveFromQueue: every bullJobId is taken for the key of a repeat.
RemoveRepeatOnly(c) ==
    /\ At(c, "dequeue")
    /\ repeats' = IF call[c].bull THEN repeats \ {call[c].row} ELSE repeats
    /\ Goto(c, "retire")
    /\ UNCHANGED << rows, jobs, subject, controls >>

\* removeFromQueue: only with a bullJobId, and by it.
RemoveFromQueue(c) ==
    /\ At(c, "dequeue")
    /\ IF call[c].bull /\ Once(c)
       THEN jobs' = [jobs EXCEPT ![call[c].key] = WithoutJob(@)] ELSE UNCHANGED jobs
    /\ repeats' = IF call[c].bull THEN repeats \ {call[c].row} ELSE repeats
    /\ call' = [call EXCEPT ![c].pc = "retire", ![c].bull = FALSE]
    /\ UNCHANGED << rows, subject, controls >>

SoftDelete(c) ==
    /\ At(c, "retire") /\ call[c].op \in {"schedule", "cancel"}
    /\ rows' = [rows EXCEPT ![call[c].row] = SoftDeleted(@)]
    /\ IF call[c].op = "schedule"
       THEN call' = [call EXCEPT ![c].pc = "create", ![c].row = 0] ELSE Returns(c)
    /\ UNCHANGED << jobs, repeats, subject, controls >>

MarkPaused(c) ==
    /\ At(c, "retire") /\ call[c].op = "pause"
    /\ rows' = [rows EXCEPT ![call[c].row] = [@ EXCEPT !.status = "paused", !.bull = FALSE]]
    /\ Returns(c)
    /\ UNCHANGED << jobs, repeats, subject, controls >>

Create(c) ==
    /\ At(c, "create") /\ UniqueAllows(call[c].key)
    /\ rows' = Append(rows, NewRow(call[c].key))
    /\ call' = [call EXCEPT ![c].pc = "enqueue", ![c].row = Len(rows) + 1]
    /\ UNCHANGED << jobs, repeats, subject, controls >>

\* The insert throws, and so does the call.
CreateRefused(c) ==
    /\ At(c, "create") /\ ~UniqueAllows(call[c].key)
    /\ Returns(c)
    /\ UNCHANGED << rows, jobs, repeats, subject, controls >>

\* Mutant of RemovePrior: the job that has the id stays.
LeavePrior(c) ==
    /\ At(c, "enqueue") /\ Once(c)
    /\ Goto(c, "add")
    /\ UNCHANGED << rows, jobs, repeats, subject, controls >>

\* addOnce removes the job that has the id, then adds.
RemovePrior(c) ==
    /\ At(c, "enqueue") /\ Once(c)
    /\ jobs' = [jobs EXCEPT ![call[c].key] = WithoutJob(@)]
    /\ Goto(c, "add")
    /\ UNCHANGED << rows, repeats, subject, controls >>

\* Mutant of AddOnce: what was added is removed as the prior job.
RemoveAfterAdd(c) ==
    /\ At(c, "add")
    /\ jobs' = [jobs EXCEPT ![call[c].key] = WithoutJob(WithJob(@, call[c].row))]
    /\ Goto(c, "record")
    /\ UNCHANGED << rows, repeats, subject, controls >>

AddOnce(c) ==
    /\ At(c, "add")
    /\ jobs' = [jobs EXCEPT ![call[c].key] = WithJob(@, call[c].row)]
    /\ Goto(c, "record")
    /\ UNCHANGED << rows, repeats, subject, controls >>

\* enqueueRecurring.
AddRecurring(c) ==
    /\ At(c, "enqueue") /\ ~Once(c)
    /\ repeats' = repeats \cup {call[c].row}
    /\ Goto(c, "record")
    /\ UNCHANGED << rows, jobs, subject, controls >>

\* The bullJobId is written, by resume with the status; the call returns.
Record(c) ==
    /\ At(c, "record")
    /\ rows' = [rows EXCEPT
                   ![call[c].row].bull = TRUE,
                   ![call[c].row].status = IF call[c].op = "resume" THEN "active" ELSE @]
    /\ Returns(c)
    /\ UNCHANGED << jobs, repeats, subject, controls >>

CallStep(c) ==
    \/ Schedule(c)
    \/ \E i \in DOMAIN rows : Cancel(c, i) \/ Pause(c, i) \/ Resume(c, i)
    \/ RemoveFromQueue(c) \/ SoftDelete(c) \/ MarkPaused(c)
    \/ Create(c) \/ CreateRefused(c)
    \/ RemovePrior(c) \/ AddOnce(c) \/ AddRecurring(c) \/ Record(c)

\* An await throws: the call ends where it is.
CallFails(c) ==
    /\ ~At(c, "idle")
    /\ Returns(c)
    /\ UNCHANGED << rows, jobs, repeats, subject, controls >>
=============================================================================
