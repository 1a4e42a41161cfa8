--------------------------- MODULE ScheduleWorker ---------------------------
(***************************************************************************)
(* SchedulerWorker: one attempt of a job, from the resolution of its       *)
(* handler to the status it writes and the answer it gives the queue.  The *)
(* rows of schedule_runs are not kept: nothing reads them back.            *)
(***************************************************************************)
EXTENDS ScheduleTable

CONSTANT Workers   \* jobs that may be processed at once

VARIABLES
    work,        \* what each slot of the worker is doing
    registered   \* the handlers are registered: after the worker has started

workVars == << work, registered >>

IdleWork == [pc |-> "idle", id |-> 0, row |-> 0]

WorkInit ==
    /\ work = [w \in Workers |-> IdleWork]
    /\ registered = TRUE

WorkTypeOK ==
    /\ \A w \in Workers :
        /\ work[w].pc \in {"idle", "start", "write", "emit", "throw"}
        /\ work[w].id \in {0} \cup DOMAIN jobs
        /\ work[w].row \in 0 .. Len(rows)
    /\ registered \in BOOLEAN

Busy(w, pc) == work[w].pc = pc
Moves(w, pc) == work' = [work EXCEPT ![w].pc = pc]
JobOf(w) == jobs[work[w].id].queue

Take(w, id) ==
    /\ Busy(w, "idle") /\ jobs[id].queue.state = "waiting"
    /\ jobs' = [jobs EXCEPT ![id].queue.state = "active"]
    /\ work' = [work EXCEPT ![w] = [pc |-> "start", id |-> id, row |-> jobs[id].row]]
    /\ UNCHANGED << rows, repeats, registered >>

\* onApplicationBootstrap of the modules that own the handlers.
Register ==
    /\ ~registered /\ registered' = TRUE
    /\ UNCHANGED << rows, jobs, repeats, work >>

\* No handler for the kind: process throws before it writes anything.
NoHandler(w) ==
    /\ Busy(w, "start") /\ ~registered
    /\ Moves(w, "throw")
    /\ UNCHANGED << rows, jobs, repeats, registered >>

\* The run ended well.  terminalStatusFor: a one-shot that is not deleted is to
\* be completed, else there is no status to write.
HandlerReturns(w) ==
    /\ Busy(w, "start") /\ registered
    /\ Moves(w, IF Live(work[w].row) /\ ~Recurring(work[w].row) THEN "write" ELSE "emit")
    /\ UNCHANGED << rows, jobs, repeats, registered >>

WriteCompleted(w) ==
    /\ Busy(w, "write")
    /\ rows' = [rows EXCEPT ![work[w].row].status = "completed"]
    /\ Moves(w, "emit")
    /\ UNCHANGED << jobs, repeats, registered >>

Complete(w) ==
    /\ Busy(w, "emit")
    /\ jobs' = [jobs EXCEPT ![work[w].id] = After(work[w].id, Completed(JobOf(w)))]
    /\ work' = [work EXCEPT ![w] = IdleWork]
    /\ UNCHANGED << rows, repeats, registered >>

WillRetry(w) == JobOf(w).failures + 1 < Attempts

\* The catch block: the last attempt makes the schedule failed, whatever its
\* type and its status.
Caught(w) ==
    /\ rows' = IF WillRetry(w) THEN rows ELSE [rows EXCEPT ![work[w].row].status = "failed"]
    /\ Moves(w, "throw")
    /\ UNCHANGED << jobs, repeats, registered >>

HandlerThrows(w) == Busy(w, "start") /\ registered /\ Caught(w)

Reject(w) ==
    /\ Busy(w, "throw")
    /\ jobs' = [jobs EXCEPT ![work[w].id] = After(work[w].id, Rejected(JobOf(w)))]
    /\ work' = [work EXCEPT ![w] = IdleWork]
    /\ UNCHANGED << rows, repeats, registered >>

WorkStep(w) ==
    \/ \E id \in DOMAIN jobs : Take(w, id)
    \/ NoHandler(w) \/ HandlerReturns(w) \/ HandlerThrows(w)
    \/ WriteCompleted(w) \/ Complete(w) \/ Reject(w)

\* What throws before the try, or in the catch, rejects the job and leaves the
\* status; what throws in the try after the handler counts as its failure.
WorkFails(w) ==
    \/ Busy(w, "start") /\ registered /\ Moves(w, "throw") /\ UNCHANGED << rows, jobs, repeats, registered >>
    \/ (Busy(w, "write") \/ Busy(w, "emit")) /\ Caught(w)

\* BullMQ: the stalled check finds a job that no worker holds any more.
Stall(id) ==
    /\ jobs[id].queue.state = "active" /\ \A w \in Workers : work[w].id # id
    /\ jobs' = [jobs EXCEPT ![id] = After(id, Stalled(jobs[id].queue))]
    /\ UNCHANGED << rows, repeats, work, registered >>
=============================================================================
