------------------------- MODULE ScheduleReconciler -------------------------
(***************************************************************************)
(* ScheduleReconciler.reconcile: one pass reads the active recurring       *)
(* schedules and the repeatable jobs, adds the missing ones and removes    *)
(* the rest.  The correction of a drifted cron is left out: no operation   *)
(* changes the cron or the time zone of a row that exists.                 *)
(***************************************************************************)
EXTENDS ScheduleTable

VARIABLES
    pass,     \* the pass that is running, and what it still has to do
    changed   \* history: since it began the two sides changed, or it did not end

passVars == << pass, changed >>

NoPass == [pc |-> "idle", active |-> {}, missing |-> {}, orphans |-> {}, row |-> 0]

PassInit == pass = NoPass /\ changed = TRUE

PassTypeOK ==
    /\ pass.pc \in {"idle", "list", "converge", "record"}
    /\ pass.active \cup pass.missing \cup pass.orphans \subseteq DOMAIN rows
    /\ pass.row \in 0 .. Len(rows)
    /\ changed \in BOOLEAN

\* Mutant of ReadActive: the filter on the status is dropped.
ReadUnfiltered ==
    /\ pass.pc = "idle"
    /\ pass' = [NoPass EXCEPT !.pc = "list",
                  !.active = {i \in DOMAIN rows : Live(i) /\ Recurring(i) /\ rows[i].status # "failed"}]
    /\ changed' = FALSE
    /\ UNCHANGED << rows, jobs, repeats >>

\* `running` keeps a second pass of the process from starting.
ReadActive ==
    /\ pass.pc = "idle"
    /\ pass' = [NoPass EXCEPT !.pc = "list", !.active = ActiveRecurring]
    /\ changed' = FALSE
    /\ UNCHANGED << rows, jobs, repeats >>

ListRepeatables ==
    /\ pass.pc = "list"
    /\ pass' = [NoPass EXCEPT !.pc = "converge", !.missing = pass.active \ repeats,
                              !.orphans = repeats \ pass.active]
    /\ UNCHANGED << rows, jobs, repeats, changed >>

AddMissing(i) ==
    /\ pass.pc = "converge" /\ i \in pass.missing
    /\ repeats' = repeats \cup {i}
    /\ pass' = [pass EXCEPT !.pc = "record", !.row = i]
    /\ UNCHANGED << rows, jobs, changed >>

RecordKey ==
    /\ pass.pc = "record"
    /\ rows' = [rows EXCEPT ![pass.row].bull = TRUE]
    /\ pass' = [pass EXCEPT !.pc = "converge", !.missing = @ \ {pass.row}, !.row = 0]
    /\ UNCHANGED << jobs, repeats, changed >>

RemoveOrphan(i) ==
    /\ pass.pc = "converge" /\ pass.missing = {} /\ i \in pass.orphans
    /\ repeats' = repeats \ {i}
    /\ pass' = [pass EXCEPT !.orphans = @ \ {i}]
    /\ UNCHANGED << rows, jobs, changed >>

EndPass ==
    /\ pass.pc = "converge" /\ pass.missing = {} /\ pass.orphans = {}
    /\ pass' = NoPass
    /\ UNCHANGED << rows, jobs, repeats, changed >>

PassStep ==
    \/ ReadActive \/ ListRepeatables \/ RecordKey \/ EndPass
    \/ \E i \in RowIds : AddMissing(i) \/ RemoveOrphan(i)

\* An await throws: the pass is over, `finally` lets the next one start.
PassFails ==
    /\ pass.pc # "idle" /\ pass' = NoPass
    /\ UNCHANGED << rows, jobs, repeats >>
=============================================================================
