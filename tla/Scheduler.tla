------------------------------ MODULE Scheduler ------------------------------
(***************************************************************************)
(* The scheduler of one bot process: calls of the service, the worker and  *)
(* the reconciler over one table and one queue.                            *)
(***************************************************************************)
EXTENDS ScheduleCalls, ScheduleWorker, ScheduleReconciler

CONSTANTS
    MaxTroubles   \* bound on them

VARIABLES
    entangled,   \* history: the keys on which steps of two actors overlapped
    troubles     \* crashes, and awaits that threw

tableVars == << rows, jobs, repeats >>
vars == << tableVars, callVars, workVars, passVars, entangled, troubles >>

Init ==
    /\ TableInit /\ CallInit /\ WorkInit /\ PassInit
    /\ entangled = {} /\ troubles = 0

Calling(k) == {c \in Callers : call[c].key = k}

\* Two calls on one key; a call on a key whose job runs; a cancel of a
\* schedule whose key has passed to another one.
Entangles(k) ==
    \/ Cardinality(Calling(k)) > 1
    \/ k \in OnceKeys /\ \E c \in Calling(k) :
        \/ jobs[k].queue.state = "active"
        \/ call[c].op = "cancel" /\ jobs[k].row \notin {0, call[c].row}

Entangle == entangled' = entangled \cup {k \in Keys \ entangled : Entangles(k)'}

\* What the others do to a pass.
Change ==
    changed' = \/ changed \/ pass # pass'
               \/ ActiveRecurring' # ActiveRecurring \/ repeats' # repeats

ServiceStep ==
    /\ \/ \E c \in Callers : CallStep(c)
       \/ \E i \in DOMAIN rows : TriggerNow(i)
    /\ UNCHANGED << workVars, pass, troubles >>

WorkerStep ==
    /\ \/ \E w \in Workers : WorkStep(w)
       \/ Register
       \/ \E id \in DOMAIN jobs : Stall(id)
    /\ UNCHANGED << callVars, pass, troubles >>

FireStep ==
    /\ \E i \in RowIds : Fire(i)
    /\ UNCHANGED << callVars, workVars, pass, troubles >>

ReconcilerStep ==
    /\ PassStep
    /\ UNCHANGED << callVars, workVars, troubles >>

Fault ==
    /\ troubles < MaxTroubles
    /\ troubles' = troubles + 1
    /\ \/ \E c \in Callers : CallFails(c) /\ UNCHANGED << workVars, pass >>
       \/ \E w \in Workers : WorkFails(w) /\ UNCHANGED << callVars, pass >>
       \/ PassFails /\ UNCHANGED << callVars, workVars >>

Crash ==
    /\ troubles < MaxTroubles
    /\ troubles' = troubles + 1
    /\ call' = [c \in Callers |-> IdleCall]
    /\ work' = [w \in Workers |-> IdleWork]
    /\ pass' = NoPass
    /\ registered' = FALSE
    /\ UNCHANGED << tableVars, subject, controls >>

Next ==
    \/ (ServiceStep \/ WorkerStep \/ FireStep \/ Fault \/ Crash) /\ Change /\ Entangle
    \/ ReconcilerStep /\ UNCHANGED entangled

Spec == Init /\ [][Next]_vars

TypeOK == TableTypeOK /\ CallTypeOK /\ WorkTypeOK /\ PassTypeOK /\ entangled \subseteq Keys

-----------------------------------------------------------------------------
(* what the module promises *)

RowsOf(k) == {i \in DOMAIN rows : rows[i].key = k}
Quiet(k) == Calling(k) = {}
Latest(i) == \A j \in RowsOf(rows[i].key) : j <= i

\* Scheduling a one-shot again under its key replaces the pending job: once a
\* schedule of the key went through, the key has a job in the queue (until
\* somebody cancels it, or a call is cut short).
ReplaceKeepsJob ==
    \A k \in OnceKeys :
        /\ \E i \in RowsOf(k) : rows[i].bull
        /\ Quiet(k) /\ controls = 0 /\ troubles = 0
        => jobs[k].queue.state # "none"

\* The queue goes with the schedules of a one-shot key, once their calls are
\* over and unless one met a running attempt or another call.  The latest
\* schedule that has recorded its job owns it: none that was added before it is
\* there in its stead, the completed jobs that the queue keeps included (a call
\* that is cut short between the removal and the add leaves no job).  One that
\* was cancelled or replaced is not waiting to run, whatever threw or crashed.
OneShotsOwnJobs ==
    \A i \in DOMAIN rows :
        LET job == jobs[rows[i].key]
        IN  /\ ~Recurring(i) /\ rows[i].bull
            /\ Quiet(rows[i].key) /\ rows[i].key \notin entangled
            => /\ Live(i) /\ Latest(i) /\ troubles = 0 => job.row = i /\ job.queue.state # "none"
               /\ rows[i].deleted /\ job.row = i => job.queue.state # "waiting"

\* After a pass of the reconciler that nobody disturbed, the repeatable jobs are
\* the active recurring schedules: whatever calls that were interleaved, failed
\* half-way or died before it left behind.
Converged ==
    pass.pc = "idle" /\ ~changed => repeats = ActiveRecurring

\* A recurring key has one definition at most, so that a job does not run twice
\* a night, unless two calls on the key overlapped.
SoleDefinition ==
    \A k \in RecurringKeys \ entangled : Cardinality({i \in RowsOf(k) : Live(i)}) <= 1
=============================================================================
