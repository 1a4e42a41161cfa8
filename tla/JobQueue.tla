------------------------------ MODULE JobQueue ------------------------------
(***************************************************************************)
(* A BullMQ queue as the modules of the bot use it: jobs are added under   *)
(* an id, handed at least once to a worker, retried until their attempts   *)
(* are used up, and kept when they are done, so that an id is never added  *)
(* twice.  External code: what src/ relies on, not the library.            *)
(***************************************************************************)
EXTENDS Naturals

CONSTANTS
    Attempts,    \* `attempts` of a job
    MaxStalled   \* BullMQ's maxStalledCount

ASSUME JobQueueAssumption == Attempts \in Nat \ {0} /\ MaxStalled \in Nat

JobStates == {"none", "waiting", "active", "completed", "failed"}

NoJob == [state |-> "none", failures |-> 0, stalls |-> 0]

JobTypeOK(job) == job.state \in JobStates /\ job.failures \in Nat /\ job.stalls \in Nat

\* add(): nothing happens when a job has the id already.
Added(job) == IF job.state = "none" THEN [job EXCEPT !.state = "waiting"] ELSE job

\* The handler returned.
Completed(job) == [job EXCEPT !.state = "completed"]

\* The handler threw: retry with backoff, or park the job as failed.
Rejected(job) ==
    [job EXCEPT !.failures = @ + 1,
                !.state = IF job.failures + 1 < Attempts THEN "waiting" ELSE "failed"]

\* The worker died and the stalled check found the job.
Stalled(job) ==
    [job EXCEPT !.stalls = @ + 1,
                !.state = IF job.stalls < MaxStalled THEN "waiting" ELSE "failed"]
=============================================================================
