--------------------------- MODULE SchedulerProofs ---------------------------
(***************************************************************************)
(* The scheduler, for any number of keys, schedules, callers and workers   *)
(* and any number of crashes and faults: the reconciler converges; types;  *)
(* a recurring key has one definition; the job of a one-shot key goes with *)
(* its schedules; scheduling again replaces the job.                       *)
(***************************************************************************)
EXTENDS Scheduler, FiniteSetTheorems, TLAPS

RowsTyped == rows \in Seq(Row)

(* A caller works on a key, so that a row it creates is a row. *)
CallersHaveKeys ==
    /\ subject \in Keys
    /\ DOMAIN call = Callers
    /\ \A c \in Callers :
          /\ {"pc", "key"} \subseteq DOMAIN call[c]
          /\ call[c].pc # "idle" => call[c].key \in Keys

TableInv == RowsTyped /\ CallersHaveKeys

(* What an undisturbed pass still has to do is the difference between the
   two sides. *)
PassInv ==
    /\ DOMAIN pass = {"pc", "active", "missing", "orphans", "row"}
    /\ pass.pc \in {"idle", "list", "converge", "record"}
    /\ ~changed =>
        /\ pass.pc = "idle" => repeats = ActiveRecurring
        /\ pass.pc = "list" => pass.active = ActiveRecurring
        /\ pass.pc = "converge" => /\ pass.missing = ActiveRecurring \ repeats
                                   /\ pass.orphans = repeats \ ActiveRecurring
        /\ pass.pc = "record" => /\ pass.row \in ActiveRecurring \cap repeats
                                 /\ pass.missing = (ActiveRecurring \ repeats) \cup {pass.row}
                                 /\ pass.orphans = repeats \ ActiveRecurring

-----------------------------------------------------------------------------
(* Rows stay rows. *)

LEMMA UpdatedRows ==
    ASSUME NEW r \in Seq(Row), NEW i, NEW x, i \in DOMAIN r => x \in Row
    PROVE  [r EXCEPT ![i] = x] \in Seq(Row)
<1>1. r \in [1 .. Len(r) -> Row] /\ Len(r) \in Nat
    OBVIOUS
<1>2. [r EXCEPT ![i] = x] \in [1 .. Len(r) -> Row]
    BY <1>1
<1> QED
    BY <1>1, <1>2

(* What a row number names is a row. *)
LEMMA RowsAreRows ==
    ASSUME RowsTyped, NEW i \in DOMAIN rows
    PROVE  rows[i] \in Row
    BY DEF RowsTyped

(* The assignments of the code give rows. *)
LEMMA UpdatedFields ==
    ASSUME NEW row \in Row, NEW s \in Statuses, NEW b \in BOOLEAN
    PROVE  /\ [row EXCEPT !.status = s] \in Row
           /\ [row EXCEPT !.bull = b] \in Row
           /\ [row EXCEPT !.status = s, !.bull = b] \in Row
           /\ [row EXCEPT !.deleted = b, !.status = s] \in Row
    BY DEF Row

(* create() makes a row. *)
LEMMA NewRowTyped == \A k \in Keys : NewRow(k) \in Row
    BY DEF NewRow, Row, Statuses

(* No field but the status, the deletion and the key decides what is active. *)
LEMMA RecordingKeepsActive ==
    ASSUME RowsTyped, NEW i, rows' = [rows EXCEPT ![i].bull = TRUE]
    PROVE  ActiveRecurring' = ActiveRecurring
<1>1. DOMAIN rows' = DOMAIN rows
    OBVIOUS
<1>2. ASSUME NEW j \in DOMAIN rows
      PROVE  /\ rows'[j].key = rows[j].key
             /\ rows'[j].status = rows[j].status
             /\ rows'[j].deleted = rows[j].deleted
    <2>1. rows[j] \in Row
        BY DEF RowsTyped
    <2> QED
        BY <2>1 DEF Row
<1> QED
    BY <1>1, <1>2 DEF ActiveRecurring, Live, Recurring

-----------------------------------------------------------------------------
(* The table and the calls keep their shape. *)

LEMMA SameCalls ==
    ASSUME CallersHaveKeys, UNCHANGED << subject, call >>
    PROVE  CallersHaveKeys'
    BY DEF CallersHaveKeys

(* A call that stays with its key, or is over, keeps the shape of the calls. *)
LEMMA MovedCall ==
    ASSUME CallersHaveKeys, subject' = subject, NEW c \in Callers,
           NEW pc, NEW op, NEW k, NEW i, NEW b,
           call' = [call EXCEPT ![c] = [pc |-> pc, op |-> op, key |-> k, row |-> i, bull |-> b]],
           pc # "idle" => k \in Keys
    PROVE  CallersHaveKeys'
    BY DEF CallersHaveKeys

LEMMA GotoKeepsCalls ==
    ASSUME CallersHaveKeys, subject' = subject, NEW c \in Callers,
           call[c].pc # "idle", NEW pc, Goto(c, pc)
    PROVE  CallersHaveKeys'
    BY DEF CallersHaveKeys, Goto

LEMMA ReturnKeepsCalls ==
    ASSUME CallersHaveKeys, subject' = subject, NEW c \in Callers, Returns(c)
    PROVE  CallersHaveKeys'
    BY DEF CallersHaveKeys, Returns, IdleCall

LEMMA BeginKeepsCalls ==
    ASSUME CallersHaveKeys, subject' = subject, NEW c \in Callers,
           NEW pc, NEW op, NEW k \in Keys, NEW i, Begin(c, pc, op, k, i)
    PROVE  CallersHaveKeys'
    BY MovedCall DEF Begin

(* Every step of a call of the service keeps the table a table of rows. *)
LEMMA CallTable ==
    ASSUME TableInv, NEW c \in Callers, CallStep(c)
    PROVE  TableInv'
<1> USE DEF TableInv
<1>1. CASE Schedule(c)
    <2>1. subject \in Keys /\ subject' = subject /\ rows' = rows
        BY <1>1 DEF Schedule, CallersHaveKeys
    <2>2. PICK i : Begin(c, "dequeue", "schedule", subject, i) \/ Begin(c, "create", "schedule", subject, 0)
        BY <1>1 DEF Schedule
    <2> QED
        BY <2>1, <2>2, BeginKeepsCalls DEF RowsTyped
<1>2. ASSUME NEW i \in DOMAIN rows, Cancel(c, i) \/ Pause(c, i) \/ Resume(c, i)
      PROVE  TableInv'
    <2>1. PICK pc, op : Require(c, i, pc, op)
        BY <1>2 DEF Cancel, Pause, Resume
    <2>2. rows[i].key \in Keys
        BY <1>2, RowsAreRows DEF Row
    <2> QED
        BY <2>1, <2>2, BeginKeepsCalls DEF Require, RowsTyped
<1>3. CASE RemoveFromQueue(c)
    <2>1. /\ call' = [call EXCEPT ![c].pc = "retire", ![c].bull = FALSE]
          /\ call[c].pc # "idle" /\ rows' = rows /\ subject' = subject
        BY <1>3 DEF RemoveFromQueue, At
    <2>3. CallersHaveKeys'
        BY <2>1 DEF CallersHaveKeys
    <2> QED
        BY <2>1, <2>3 DEF RowsTyped
<1>4. CASE SoftDelete(c)
    <2>1. RowsTyped'
        <3>1. call[c].row \in DOMAIN rows => SoftDeleted(rows[call[c].row]) \in Row
            BY RowsAreRows, UpdatedFields DEF SoftDeleted, Statuses
        <3> QED
            BY <1>4, <3>1, UpdatedRows DEF SoftDelete, RowsTyped
    <2>2. CallersHaveKeys'
        <3>1. CASE call[c].op = "schedule"
            BY <1>4, <3>1 DEF SoftDelete, At, CallersHaveKeys
        <3>2. CASE call[c].op # "schedule"
            BY <1>4, <3>2, ReturnKeepsCalls DEF SoftDelete
        <3> QED
            BY <3>1, <3>2
    <2> QED
        BY <2>1, <2>2
<1>5. CASE MarkPaused(c)
    <2>1. call[c].row \in DOMAIN rows =>
              [rows[call[c].row] EXCEPT !.status = "paused", !.bull = FALSE] \in Row
        BY RowsAreRows, UpdatedFields DEF Statuses
    <2> QED
        BY <1>5, <2>1, UpdatedRows, ReturnKeepsCalls DEF MarkPaused, RowsTyped
<1>6. CASE Create(c)
    <2>1. NewRow(call[c].key) \in Row
        BY <1>6, NewRowTyped DEF Create, At, CallersHaveKeys
    <2>2. /\ call' = [call EXCEPT ![c].pc = "enqueue", ![c].row = Len(rows) + 1]
          /\ call[c].pc # "idle" /\ subject' = subject
        BY <1>6 DEF Create, At
    <2>4. CallersHaveKeys'
        BY <2>2 DEF CallersHaveKeys
    <2> QED
        BY <1>6, <2>1, <2>4 DEF Create, RowsTyped
<1>7. CASE CreateRefused(c)
    BY <1>7, ReturnKeepsCalls DEF CreateRefused, RowsTyped
<1>8. CASE RemovePrior(c) \/ AddOnce(c) \/ AddRecurring(c)
    BY <1>8, GotoKeepsCalls DEF RemovePrior, AddOnce, AddRecurring, At, RowsTyped
<1>9. CASE Record(c)
    <2> DEFINE row == call[c].row
               once == [rows EXCEPT ![row].bull = TRUE]
    <2>1. once \in Seq(Row)
        <3>1. row \in DOMAIN rows => [rows[row] EXCEPT !.bull = TRUE] \in Row
            BY RowsAreRows DEF Row
        <3>2. once = [rows EXCEPT ![row] = [rows[row] EXCEPT !.bull = TRUE]]
            OBVIOUS
        <3> QED
            BY <3>1, <3>2, UpdatedRows DEF RowsTyped
    <2>2. ASSUME row \in DOMAIN once
          PROVE  [once[row] EXCEPT !.status = IF call[c].op = "resume" THEN "active" ELSE @] \in Row
        <3>1. once[row] \in Row
            BY <2>1, <2>2
        <3> QED
            BY <3>1 DEF Row, Statuses
    <2>3. RowsTyped'
        <3>1. rows' = [once EXCEPT ![row].status = IF call[c].op = "resume" THEN "active" ELSE @]
            BY <1>9 DEF Record
        <3> HIDE DEF once
        <3> QED
            BY <2>1, <2>2, <3>1, UpdatedRows DEF RowsTyped
    <2> QED
        BY <1>9, <2>3, ReturnKeepsCalls DEF Record
<1> QED
    BY <1>1, <1>2, <1>3, <1>4, <1>5, <1>6, <1>7, <1>8, <1>9 DEF CallStep

(* Writing a status keeps the rows rows. *)
LEMMA StatusTyped ==
    ASSUME RowsTyped, NEW i, NEW s \in Statuses, rows' = [rows EXCEPT ![i].status = s]
    PROVE  RowsTyped'
<1>1. i \in DOMAIN rows => [rows[i] EXCEPT !.status = s] \in Row
    BY RowsAreRows, UpdatedFields
<1>2. rows' = [rows EXCEPT ![i] = [rows[i] EXCEPT !.status = s]]
    OBVIOUS
<1> QED
    BY <1>1, <1>2, UpdatedRows DEF RowsTyped

(* So does the catch of the worker. *)
LEMMA CaughtTable ==
    ASSUME RowsTyped, NEW w, Caught(w)
    PROVE  RowsTyped'
<1>1. CASE WillRetry(w)
    BY <1>1 DEF Caught, RowsTyped
<1>2. CASE ~WillRetry(w)
    BY <1>2, StatusTyped DEF Caught, Statuses
<1> QED
    BY <1>1, <1>2

(* The worker writes statuses only. *)
LEMMA WorkTable ==
    ASSUME RowsTyped, NEW w \in Workers, WorkStep(w) \/ WorkFails(w)
    PROVE  RowsTyped'
<1>1. CASE Caught(w)
    BY <1>1, CaughtTable
<1>2. CASE WriteCompleted(w)
    BY <1>2, StatusTyped DEF WriteCompleted, Statuses
<1>3. CASE UNCHANGED rows
    BY <1>3 DEF RowsTyped
<1> QED
    BY <1>1, <1>2, <1>3 DEF WorkStep, WorkFails, Take, NoHandler, HandlerReturns, HandlerThrows,
        Complete, Reject

(* A pass records the key of a repeat it added. *)
LEMMA PassTable ==
    ASSUME RowsTyped, PassStep
    PROVE  RowsTyped'
<1>1. CASE RecordKey
    <2>1. pass.row \in DOMAIN rows => [rows[pass.row] EXCEPT !.bull = TRUE] \in Row
        BY RowsAreRows DEF Row
    <2>2. rows' = [rows EXCEPT ![pass.row] = [rows[pass.row] EXCEPT !.bull = TRUE]]
        BY <1>1 DEF RecordKey
    <2> QED
        BY <2>1, <2>2, UpdatedRows DEF RowsTyped
<1>2. CASE UNCHANGED rows
    BY <1>2 DEF RowsTyped
<1> QED
    BY <1>1, <1>2 DEF PassStep, ReadActive, ListRepeatables, AddMissing, RemoveOrphan, EndPass

(* Rows stay rows and callers keep their keys. *)
LEMMA TableStep ==
    ASSUME TableInv, [Next]_vars
    PROVE  TableInv'
<1>1. ASSUME NEW c \in Callers, CallStep(c)
      PROVE  TableInv'
    BY <1>1, CallTable
<1>2. ASSUME NEW i \in DOMAIN rows, TriggerNow(i)
      PROVE  TableInv'
    BY <1>2, SameCalls DEF TriggerNow, TableInv, RowsTyped
<1>3. CASE WorkerStep
    <2>1. UNCHANGED << subject, call >>
        BY <1>3 DEF WorkerStep, callVars
    <2>2. RowsTyped'
        BY <1>3, WorkTable DEF WorkerStep, Register, Stall, TableInv, RowsTyped
    <2> QED
        BY <2>1, <2>2, SameCalls DEF TableInv
<1>4. CASE FireStep
    BY <1>4, SameCalls DEF FireStep, Fire, callVars, TableInv, RowsTyped
<1>5. CASE Fault
    <2>1. ASSUME NEW c \in Callers, CallFails(c)
          PROVE  TableInv'
        BY <2>1, ReturnKeepsCalls DEF CallFails, TableInv, RowsTyped
    <2>2. ASSUME NEW w \in Workers, WorkFails(w), UNCHANGED callVars
          PROVE  TableInv'
        BY <2>2, WorkTable, SameCalls DEF TableInv, callVars
    <2>3. CASE PassFails /\ UNCHANGED callVars
        BY <2>3, SameCalls DEF PassFails, TableInv, RowsTyped, callVars
    <2> QED
        BY <1>5, <2>1, <2>2, <2>3 DEF Fault
<1>6. CASE Crash
    BY <1>6 DEF Crash, tableVars, TableInv, RowsTyped, CallersHaveKeys, IdleCall
<1>7. CASE ReconcilerStep
    BY <1>7, PassTable, SameCalls DEF ReconcilerStep, callVars, TableInv
<1>8. CASE UNCHANGED vars
    BY <1>8, SameCalls DEF vars, tableVars, callVars, TableInv, RowsTyped
<1> QED
    BY <1>1, <1>2, <1>3, <1>4, <1>5, <1>6, <1>7, <1>8 DEF Next, ServiceStep

-----------------------------------------------------------------------------
(* The pass. *)

(* What a step of the others changes, it notes. *)
LEMMA OthersNote ==
    ASSUME PassInv, Change, pass' = pass \/ pass' = NoPass
    PROVE  PassInv'
<1>1. /\ DOMAIN pass' = {"pc", "active", "missing", "orphans", "row"}
      /\ pass'.pc \in {"idle", "list", "converge", "record"}
    BY DEF PassInv, NoPass
<1>2. ASSUME ~changed'
      PROVE  ~changed /\ pass' = pass /\ ActiveRecurring' = ActiveRecurring /\ repeats' = repeats
    BY <1>2 DEF Change
<1> QED
    BY <1>1, <1>2 DEF PassInv

(* The steps of the pass itself reduce what is left to do. *)
LEMMA PassSteps ==
    ASSUME RowsTyped, PassInv, PassStep
    PROVE  PassInv'
<1>1. CASE ReadActive
    BY <1>1 DEF ReadActive, PassInv, NoPass, ActiveRecurring, Live, Recurring
<1>2. CASE ListRepeatables
    <2>1. ActiveRecurring' = ActiveRecurring
        BY <1>2 DEF ListRepeatables, ActiveRecurring, Live, Recurring
    <2> QED
        BY <1>2, <2>1 DEF ListRepeatables, PassInv, NoPass
<1>3. ASSUME NEW i \in RowIds, AddMissing(i)
      PROVE  PassInv'
    <2>1. ActiveRecurring' = ActiveRecurring
        BY <1>3 DEF AddMissing, ActiveRecurring, Live, Recurring
    <2> QED
        BY <1>3, <2>1 DEF AddMissing, PassInv
<1>4. CASE RecordKey
    <2>1. ActiveRecurring' = ActiveRecurring
        BY <1>4, RecordingKeepsActive DEF RecordKey
    <2> QED
        BY <1>4, <2>1 DEF RecordKey, PassInv
<1>5. ASSUME NEW i \in RowIds, RemoveOrphan(i)
      PROVE  PassInv'
    <2>1. ActiveRecurring' = ActiveRecurring
        BY <1>5 DEF RemoveOrphan, ActiveRecurring, Live, Recurring
    <2> QED
        BY <1>5, <2>1 DEF RemoveOrphan, PassInv
<1>6. CASE EndPass
    <2>1. ActiveRecurring' = ActiveRecurring
        BY <1>6 DEF EndPass, ActiveRecurring, Live, Recurring
    <2> QED
        BY <1>6, <2>1 DEF EndPass, PassInv, NoPass
<1> QED
    BY <1>1, <1>2, <1>3, <1>4, <1>5, <1>6 DEF PassStep

ConvergeInv == RowsTyped /\ CallersHaveKeys /\ PassInv

(* The inductive invariant holds at the start and is kept. *)
LEMMA ConvergeInit == Init => ConvergeInv
<1> SUFFICES ASSUME Init PROVE ConvergeInv
    OBVIOUS
<1>1. RowsTyped
    BY DEF Init, TableInit, RowsTyped
<1>2. CallersHaveKeys
    BY DEF Init, CallInit, CallersHaveKeys, IdleCall
<1>3. PassInv
    BY DEF Init, PassInit, PassInv, NoPass
<1> QED
    BY <1>1, <1>2, <1>3 DEF ConvergeInv

LEMMA ConvergeStep == ConvergeInv /\ [Next]_vars => ConvergeInv'
<1> SUFFICES ASSUME ConvergeInv, [Next]_vars PROVE ConvergeInv'
    OBVIOUS
<1> USE DEF ConvergeInv
<1>1. TableInv'
    BY TableStep DEF TableInv
<1>2. PassInv'
    <2>1. CASE (ServiceStep \/ WorkerStep \/ FireStep \/ Fault \/ Crash) /\ Change
        <3>1. pass' = pass \/ pass' = NoPass
            BY <2>1 DEF ServiceStep, WorkerStep, FireStep, Fault, Crash, PassFails
        <3> QED
            BY <2>1, <3>1, OthersNote
    <2>2. CASE ReconcilerStep
        BY <2>2, PassSteps DEF ReconcilerStep
    <2>3. CASE UNCHANGED vars
        BY <2>3 DEF vars, tableVars, passVars, PassInv, ActiveRecurring, Live, Recurring
    <2> QED
        BY <2>1, <2>2, <2>3 DEF Next
<1> QED
    BY <1>1, <1>2 DEF TableInv

(* After a pass of reconcile() during which neither side changed, the
   repeatable jobs are the active recurring schedules. *)
THEOREM ReconcilerConverges == Spec => []Converged
<1>1. ConvergeInv => Converged
    BY DEF ConvergeInv, PassInv, Converged
<1> QED
    BY <1>1, ConvergeInit, ConvergeStep, PTL DEF Spec

-----------------------------------------------------------------------------

(* What the table, the queue, the calls and the worker are made of. *)
Job == [state : JobStates, failures : Nat, stalls : Nat]
Entry == [row : 0 .. MaxRows, queue : Job]
CallPcs == {"idle", "dequeue", "retire", "create", "enqueue", "add", "record"}
Ops == {"none", "schedule", "cancel", "pause", "resume"}
Call == [pc : CallPcs, op : Ops, key : Keys \cup {"none"}, row : 0 .. MaxRows, bull : BOOLEAN]
Task == [pc : {"idle", "start", "write", "emit", "throw"}, id : {0} \cup OnceKeys \cup RowIds, row : 0 .. MaxRows]

(* The calls that have a row still to make: their rows fit. *)
Unmade == {c \in Callers : call[c].op = "schedule" /\ call[c].pc \in {"dequeue", "retire", "create"}}
RoomLeft == Len(rows) + Cardinality(Unmade) <= MaxRows
RecurringRows == {i \in DOMAIN rows : Recurring(i)}

(* Every job is of a schedule, every repeat of a recurring one. *)
QueueTyped ==
    /\ jobs \in [OnceKeys \cup RowIds -> Entry]
    /\ \A id \in DOMAIN jobs : jobs[id].row <= Len(rows)
    /\ repeats \subseteq RecurringRows

(* A call that is not over works on a key. *)
CallsTyped ==
    /\ subject \in Keys /\ call \in [Callers -> Call] /\ controls \in 0 .. MaxControls
    /\ \A c \in Callers :
        /\ call[c].pc = "idle" => call[c] = IdleCall
        /\ call[c].pc # "idle" => call[c].key \in Keys /\ call[c].op # "none"

(* What a call knows at each of its awaits: the row it holds is one of its key,
   one-shot keys are never paused and resumed, recurring ones never added under
   an id. *)
CallsKnow ==
    /\ \A i \in DOMAIN rows : rows[i].status = "paused" => Recurring(i)
    /\ \A c \in Callers :
        /\ call[c].pc \in {"dequeue", "retire", "enqueue", "add", "record"} =>
               call[c].row \in DOMAIN rows /\ rows[call[c].row].key = call[c].key
        /\ call[c].pc \in {"dequeue", "retire"} => call[c].op \in {"schedule", "cancel", "pause"}
        /\ call[c].pc = "create" => call[c].op = "schedule" /\ call[c].row = 0
        /\ call[c].pc \in {"enqueue", "add", "record"} => call[c].op \in {"schedule", "resume"}
        /\ call[c].pc = "add" => call[c].key \in OnceKeys
        /\ call[c].op \in {"pause", "resume"} => call[c].key \in RecurringKeys

(* What a worker holds is running, and is held once. *)
WorkTyped ==
    /\ work \in [Workers -> Task] /\ registered \in BOOLEAN
    /\ \A w \in Workers :
        /\ work[w].pc = "idle" => work[w] = IdleWork
        /\ work[w].row <= Len(rows)
        /\ work[w].pc # "idle" => work[w].id \in DOMAIN jobs /\ jobs[work[w].id].queue.state = "active"
    /\ \A w, v \in Workers : work[w].pc # "idle" /\ work[v].pc # "idle" /\ work[w].id = work[v].id => w = v

(* A pass works on recurring schedules. *)
PassTyped ==
    /\ DOMAIN pass = {"pc", "active", "missing", "orphans", "row"}
    /\ pass.pc \in {"idle", "list", "converge", "record"}
    /\ pass.active \cup pass.missing \cup pass.orphans \subseteq RecurringRows
    /\ pass.row \in {0} \cup RecurringRows
    /\ pass.pc = "record" => pass.row # 0

(* All this together is kept by every step. *)
Shape == RowsTyped /\ RoomLeft /\ QueueTyped /\ CallsTyped /\ CallsKnow /\ WorkTyped /\ PassTyped

(* A key on which no two steps overlapped. *)
Clear(k) == k \in Keys \ entangled

(* Some call of the key is between the removal of the job of schedule i and what
   makes up for it: the deletion of the row, or the row that replaces it. *)
Removing(k, i) ==
    \E c \in Calling(k) :
        \/ call[c].pc = "retire" /\ call[c].op = "schedule"
        \/ call[c].pc = "create" /\ k \notin Scoped
        \/ call[c].pc = "retire" /\ call[c].op = "cancel" /\ call[c].row = i

(* Some call of the key is to add its job. *)
Adding(k) == \E c \in Calling(k) : call[c].op = "schedule" /\ call[c].pc \in {"retire", "create", "enqueue", "add"}

(* Steps that make no row. *)
KeysStay ==
    /\ Len(rows') = Len(rows) /\ DOMAIN rows' = DOMAIN rows
    /\ \A j \in DOMAIN rows : rows'[j].key = rows[j].key

(* What an assignment of the code to one field of one row leaves alone. *)
LEMMA StatusUpdate ==
    ASSUME RowsTyped, NEW i, NEW s \in Statuses, rows' = [rows EXCEPT ![i].status = s]
    PROVE  /\ KeysStay
           /\ \A j \in DOMAIN rows : /\ rows'[j].deleted = rows[j].deleted /\ rows'[j].bull = rows[j].bull
                                     /\ rows'[j].status = IF j = i THEN s ELSE rows[j].status
    BY DEF RowsTyped, KeysStay, Row

LEMMA BullUpdate ==
    ASSUME RowsTyped, NEW i, rows' = [rows EXCEPT ![i].bull = TRUE]
    PROVE  /\ KeysStay
           /\ \A j \in DOMAIN rows : /\ rows'[j].deleted = rows[j].deleted /\ rows'[j].status = rows[j].status
                                     /\ rows'[j].bull = IF j = i THEN TRUE ELSE rows[j].bull
    BY DEF RowsTyped, KeysStay, Row

LEMMA RecordUpdate ==
    ASSUME RowsTyped, NEW c, Record(c)
    PROVE  /\ KeysStay
           /\ \A j \in DOMAIN rows : /\ rows'[j].deleted = rows[j].deleted
                                     /\ rows'[j].bull = IF j = call[c].row THEN TRUE ELSE rows[j].bull
                                     /\ rows'[j].status \in {rows[j].status, "active"}
<1> DEFINE i == call[c].row
           once == [rows EXCEPT ![i].bull = TRUE]
<1>1. /\ Len(once) = Len(rows) /\ DOMAIN once = DOMAIN rows
      /\ \A j \in DOMAIN rows : /\ once[j].key = rows[j].key /\ once[j].deleted = rows[j].deleted
                                /\ once[j].status = rows[j].status
                                /\ once[j].bull = IF j = i THEN TRUE ELSE rows[j].bull
                                /\ once[j] \in Row
    <2>1. \A j \in DOMAIN rows : rows[j] \in Row /\ once[j] = IF j = i THEN [rows[i] EXCEPT !.bull = TRUE] ELSE rows[j]
        BY RowsAreRows DEF RowsTyped
    <2>2. i \in DOMAIN rows => /\ [rows[i] EXCEPT !.bull = TRUE] \in Row
                              /\ [rows[i] EXCEPT !.bull = TRUE].key = rows[i].key
                              /\ [rows[i] EXCEPT !.bull = TRUE].deleted = rows[i].deleted
                              /\ [rows[i] EXCEPT !.bull = TRUE].status = rows[i].status
                              /\ [rows[i] EXCEPT !.bull = TRUE].bull = TRUE
        BY <2>1 DEF Row
    <2>3. Len(once) = Len(rows) /\ DOMAIN once = DOMAIN rows
        BY DEF RowsTyped
    <2> HIDE DEF once
    <2> QED
        BY <2>1, <2>2, <2>3
<1>2. rows' = [once EXCEPT ![i].status = IF call[c].op = "resume" THEN "active" ELSE @]
    BY DEF Record
<1>3. once \in Seq(Row)
    <2>1. once = [rows EXCEPT ![i] = [rows[i] EXCEPT !.bull = TRUE]]
        OBVIOUS
    <2>2. i \in DOMAIN rows => [rows[i] EXCEPT !.bull = TRUE] \in Row
        BY RowsAreRows DEF Row
    <2> QED
        BY <2>1, <2>2, UpdatedRows DEF RowsTyped
<1> HIDE DEF once
<1>4. PICK s : s = (IF call[c].op = "resume" THEN "active" ELSE once[i].status)
    OBVIOUS
<1>5. rows' = [once EXCEPT ![i] = [once[i] EXCEPT !.status = s]]
    BY <1>2, <1>4
<1> HIDE DEF i
<1>6. /\ Len(rows') = Len(once) /\ DOMAIN rows' = DOMAIN once
      /\ \A j \in DOMAIN once : rows'[j] = IF j = i THEN [once[i] EXCEPT !.status = s] ELSE once[j]
    BY <1>3, <1>5
<1>7. i \in DOMAIN once => /\ [once[i] EXCEPT !.status = s].key = once[i].key
                           /\ [once[i] EXCEPT !.status = s].bull = once[i].bull
                           /\ [once[i] EXCEPT !.status = s].deleted = once[i].deleted
                           /\ [once[i] EXCEPT !.status = s].status = s
    BY <1>1 DEF Row
<1>8. ASSUME NEW j \in DOMAIN rows
      PROVE  /\ rows'[j].key = rows[j].key /\ rows'[j].deleted = rows[j].deleted
             /\ rows'[j].bull = (IF j = i THEN TRUE ELSE rows[j].bull)
             /\ rows'[j].status \in {rows[j].status, "active"}
    BY <1>1, <1>4, <1>6, <1>7
<1> QED
    BY <1>1, <1>6, <1>8 DEF KeysStay, i

(* The soft delete marks the row and touches no other. *)
LEMMA DeleteUpdate ==
    ASSUME RowsTyped, NEW i, rows' = [rows EXCEPT ![i] = SoftDeleted(@)]
    PROVE  /\ KeysStay
           /\ \A j \in DOMAIN rows : /\ rows'[j].deleted = (IF j = i THEN TRUE ELSE rows[j].deleted)
                                     /\ rows'[j].bull = rows[j].bull
                                     /\ rows'[j].status \in {rows[j].status, "cancelled"}
<1>1. \A row \in Row : /\ SoftDeleted(row).key = row.key /\ SoftDeleted(row).deleted = TRUE
                       /\ SoftDeleted(row).bull = row.bull /\ SoftDeleted(row).status = "cancelled"
    BY DEF Row, SoftDeleted
<1>2. \A j \in DOMAIN rows : rows[j] \in Row /\ rows'[j] = IF j = i THEN SoftDeleted(rows[i]) ELSE rows[j]
    BY RowsAreRows DEF RowsTyped
<1>3. Len(rows') = Len(rows) /\ DOMAIN rows' = DOMAIN rows
    BY DEF RowsTyped
<1>4. \A j \in DOMAIN rows : rows[j].deleted \in BOOLEAN
    BY <1>2 DEF Row
<1>5. \A j \in DOMAIN rows : rows'[j].key = rows[j].key
    BY <1>1, <1>2
<1>6. ASSUME NEW j \in DOMAIN rows
      PROVE  /\ rows'[j].deleted = (IF j = i THEN TRUE ELSE rows[j].deleted)
             /\ rows'[j].bull = rows[j].bull
             /\ rows'[j].status \in {rows[j].status, "cancelled"}
    <2>1. CASE j = i
        BY <1>1, <1>2, <2>1
    <2>2. CASE j # i
        BY <1>2, <2>2
    <2> QED
        BY <2>1, <2>2
<1> QED
    BY <1>3, <1>5, <1>6 DEF KeysStay

LEMMA PauseUpdate ==
    ASSUME RowsTyped, NEW i, rows' = [rows EXCEPT ![i] = [@ EXCEPT !.status = "paused", !.bull = FALSE]]
    PROVE  /\ KeysStay
           /\ \A j \in DOMAIN rows : /\ rows'[j].deleted = rows[j].deleted
                                     /\ j # i => rows'[j] = rows[j]
    BY DEF RowsTyped, KeysStay, Row

(* A row is made: the next one. *)
LEMMA RowMade ==
    ASSUME RowsTyped, NEW k \in Keys, rows' = Append(rows, NewRow(k))
    PROVE  /\ Len(rows') = Len(rows) + 1 /\ DOMAIN rows' = DOMAIN rows \cup {Len(rows) + 1}
           /\ Len(rows) + 1 \notin DOMAIN rows
           /\ \A j \in DOMAIN rows : rows'[j] = rows[j]
           /\ rows'[Len(rows) + 1] = NewRow(k)
    BY DEF RowsTyped

(* Rows are numbered from one, within the bound; a call that is to make a row
   finds room. *)
LEMMA RowNumbers ==
    ASSUME RowsTyped, RoomLeft
    PROVE  /\ Len(rows) \in Nat /\ Len(rows) <= MaxRows /\ DOMAIN rows = 1 .. Len(rows) /\ DOMAIN rows \subseteq RowIds
           /\ \A c \in Unmade : Len(rows) < MaxRows
<1>1. Len(rows) \in Nat /\ DOMAIN rows = 1 .. Len(rows)
    BY DEF RowsTyped
<1>2. IsFiniteSet(Unmade) /\ Cardinality(Unmade) \in Nat
    BY ScheduleCallsAssumption, FS_Subset, FS_CardinalityType DEF Unmade
<1>3. Unmade # {} => Cardinality(Unmade) # 0
    BY <1>2, FS_EmptySet
<1> QED
    BY <1>1, <1>2, <1>3, ScheduleTableAssumption DEF RoomLeft, RowIds

(* No row is made and no call begins to make one. *)
LEMMA RoomKept ==
    ASSUME RowsTyped, RoomLeft, Len(rows') = Len(rows), Unmade' \subseteq Unmade
    PROVE  RoomLeft'
<1>1. IsFiniteSet(Unmade) /\ Cardinality(Unmade) \in Nat
    BY ScheduleCallsAssumption, FS_Subset, FS_CardinalityType DEF Unmade
<1>2. Cardinality(Unmade') \in Nat /\ Cardinality(Unmade') <= Cardinality(Unmade)
    BY <1>1, FS_Subset, FS_CardinalityType
<1> QED
    BY <1>1, <1>2, ScheduleTableAssumption DEF RoomLeft, RowsTyped

(* What the queue does to a job gives a job. *)
LEMMA JobsAreJobs == \A j \in Job :
    /\ Completed(j) \in Job /\ Rejected(j) \in Job /\ Stalled(j) \in Job
    /\ Completed(j).state = "completed" /\ Rejected(j).state \in {"waiting", "failed"}
    /\ Stalled(j).state \in {"waiting", "failed"}
<1> TAKE j \in Job
<1>1. Completed(j) \in Job /\ Completed(j).state = "completed"
    BY DEF Job, JobStates, Completed
<1>2. ASSUME NEW k \in Nat, NEW l \in Nat, NEW s \in JobStates
      PROVE  /\ [j EXCEPT !.failures = k, !.state = s] \in Job
             /\ [j EXCEPT !.stalls = l, !.state = s] \in Job
    BY DEF Job
<1>3. j.failures + 1 \in Nat /\ j.stalls + 1 \in Nat
    BY DEF Job
<1>4. Rejected(j) \in Job
    BY <1>2, <1>3 DEF JobStates, Rejected
<1>5. Stalled(j) \in Job
    BY <1>2, <1>3 DEF JobStates, Stalled
<1>6. Rejected(j).state \in {"waiting", "failed"} /\ Stalled(j).state \in {"waiting", "failed"}
    BY DEF Rejected, Stalled, Job
<1> QED
    BY <1>1, <1>4, <1>5, <1>6

(* The removal and the addition of a job, by their cases. *)
LEMMA EntriesAreEntries ==
    /\ NoEntry \in Entry /\ NoEntry.row = 0 /\ NoEntry.queue.state = "none"
    /\ \A e \in Entry : /\ WithoutJob(e) \in Entry /\ WithoutJob(e).row \in {0, e.row}
                        /\ e.queue.state = "active" => WithoutJob(e) = e
                        /\ e.queue.state # "active" => WithoutJob(e) = NoEntry
    /\ \A e \in Entry, i \in 0 .. MaxRows :
           /\ WithJob(e, i) \in Entry /\ WithJob(e, i).row \in {i, e.row}
           /\ WithJob(e, i).queue.state # "none"
           /\ e.queue.state # "none" => WithJob(e, i) = e
           /\ e.queue.state = "none" => WithJob(e, i).row = i /\ WithJob(e, i).queue.state = "waiting"
    /\ \A i \in 0 .. MaxRows : Instance(i) \in Entry /\ Instance(i).row = i
<1>1. NoJob \in Job /\ Added(NoJob) \in Job /\ Added(NoJob).state = "waiting" /\ NoJob.state = "none"
    BY DEF NoJob, Job, JobStates, Added
<1>2. NoEntry \in Entry /\ NoEntry.row = 0 /\ NoEntry.queue.state = "none"
    BY <1>1, ScheduleTableAssumption DEF NoEntry, Entry
<1>3. \A i \in 0 .. MaxRows : Instance(i) \in Entry /\ Instance(i).row = i /\ Instance(i).queue = Added(NoJob)
    BY <1>1 DEF Instance, Entry
<1> QED
    BY <1>1, <1>2, <1>3 DEF WithoutJob, WithJob, Instance, Entry

(* The queue keeps what ended under the key of a one-shot schedule. *)
LEMMA AfterIsEntry ==
    ASSUME QueueTyped, NEW id \in DOMAIN jobs, NEW queue \in Job
    PROVE  /\ After(id, queue) \in Entry /\ After(id, queue).row \in {0, jobs[id].row}
           /\ id \in OnceKeys => After(id, queue).row = jobs[id].row /\ After(id, queue).queue = queue
<1>1. jobs[id] \in Entry
    BY DEF QueueTyped
<1>2. id \in OnceKeys => id \notin RowIds
    BY ScheduleTableAssumption
<1> QED
    BY <1>1, <1>2, EntriesAreEntries DEF After, Entry

(* One job changes. *)
LEMMA JobPut ==
    ASSUME QueueTyped, NEW id, NEW e, jobs' = [jobs EXCEPT ![id] = e],
           id \in DOMAIN jobs => e \in Entry /\ e.row <= Len(rows),
           KeysStay, repeats' \subseteq RecurringRows
    PROVE  QueueTyped'
    BY DEF QueueTyped, KeysStay, RecurringRows, Recurring, Entry

LEMMA QueueKept ==
    ASSUME QueueTyped, UNCHANGED jobs, KeysStay, repeats' \subseteq RecurringRows
    PROVE  QueueTyped'
    BY DEF QueueTyped, KeysStay, RecurringRows, Recurring

(* What leaves the rows their keys leaves the pass its schedules, and the worker
   its jobs. *)
LEMMA PassKept ==
    ASSUME PassTyped, UNCHANGED pass, KeysStay
    PROVE  PassTyped'
    BY DEF PassTyped, KeysStay, RecurringRows, Recurring

(* No job that is held is taken away. *)
ActiveStay ==
    /\ DOMAIN jobs' = DOMAIN jobs
    /\ \A id \in DOMAIN jobs : jobs[id].queue.state = "active" => jobs'[id].queue.state = "active"

LEMMA WorkKept ==
    ASSUME WorkTyped, UNCHANGED workVars, KeysStay, ActiveStay
    PROVE  WorkTyped'
    BY DEF WorkTyped, KeysStay, ActiveStay, workVars

(* One lemma per step of a call: cancel, pause and resume begin with the row that
   requireJob found. *)
LEMMA RequireShape ==
    ASSUME Shape, RowsTyped', NEW c \in Callers, NEW i \in DOMAIN rows, NEW pc, NEW op,
           Require(c, i, pc, op),
           \/ pc = "dequeue" /\ op = "cancel"
           \/ pc = "dequeue" /\ op = "pause" /\ Recurring(i)
           \/ pc = "enqueue" /\ op = "resume" /\ rows[i].status = "paused",
           controls' \in 0 .. MaxControls, UNCHANGED << workVars, pass >>
    PROVE  Shape'
<1> USE DEF Shape, Require, Begin, At, Live, workVars
<1>0. KeysStay
    BY DEF KeysStay
<1>1. RoomLeft'
    BY <1>0, RoomKept DEF Unmade, KeysStay
<1>2. QueueTyped'
    BY <1>0, QueueKept DEF QueueTyped
<1>3. CallsTyped'
    <2>1. rows[i] \in Row /\ i \in 0 .. MaxRows
        BY RowsAreRows, RowNumbers DEF RowIds
    <2>2. [pc |-> pc, op |-> op, key |-> rows[i].key, row |-> i, bull |-> i # 0 /\ rows[i].bull] \in Call
        BY <2>1 DEF Call, CallPcs, Ops, Row
    <2>3. rows[i].key \in Keys /\ op # "none" /\ pc # "idle"
        BY <2>1 DEF Row
    <2> QED
        BY <2>2, <2>3 DEF CallsTyped
<1>4. CallsKnow'
    BY <1>0 DEF CallsKnow, CallsTyped, KeysStay, Recurring, IdleCall, Call
<1>5. WorkTyped'
    BY <1>0 DEF WorkTyped, KeysStay, QueueTyped
<1>6. PassTyped'
    BY <1>0, PassKept
<1> QED
    BY <1>1, <1>2, <1>3, <1>4, <1>5, <1>6

(* triggerNow adds a job of its own for the schedule. *)
LEMMA TriggerShape ==
    ASSUME Shape, RowsTyped', NEW i \in DOMAIN rows, TriggerNow(i), UNCHANGED << workVars, pass >>
    PROVE  Shape'
<1> USE DEF Shape, TriggerNow, Counted, workVars
<1>0. KeysStay
    BY DEF KeysStay
<1>1. RoomLeft'
    BY <1>0, RoomKept DEF Unmade, KeysStay
<1>2. QueueTyped'
    <2>1. i \in 0 .. MaxRows /\ i <= Len(rows)
        BY RowNumbers DEF RowIds
    <2>2. Instance(i) \in Entry /\ Instance(i).row <= Len(rows)
        BY <2>1, EntriesAreEntries
    <2> QED
        BY <1>0, <2>2, JobPut DEF QueueTyped
<1>3. CallsTyped'
    <2>1. controls' \in 0 .. MaxControls
        BY ScheduleCallsAssumption DEF CallsTyped
    <2> QED
        BY <2>1 DEF CallsTyped
<1>4. CallsKnow'
    BY <1>0 DEF CallsKnow, CallsTyped, KeysStay, Recurring, IdleCall, Call
<1>5. WorkTyped'
    <2>1. i \in RowIds => jobs[i] = NoEntry
        BY DEF NoInstance
    <2>2. i \in RowIds
        BY RowNumbers
    <2>3. ActiveStay
        BY <2>1, <2>2, EntriesAreEntries DEF ActiveStay, QueueTyped
    <2> QED
        BY <1>0, <2>3, WorkKept DEF workVars
<1>6. PassTyped'
    BY <1>0, PassKept
<1> QED
    BY <1>1, <1>2, <1>3, <1>4, <1>5, <1>6

(* removeFromQueue takes no running job. *)
LEMMA RemoveShape ==
    ASSUME Shape, RowsTyped', NEW c \in Callers, RemoveFromQueue(c), UNCHANGED << workVars, pass >>
    PROVE  Shape'
<1> USE DEF Shape, RemoveFromQueue, At, Once, workVars
<1>0. KeysStay
    BY DEF KeysStay
<1>a. /\ call' \in [Callers -> Call] /\ \A d \in Callers : d # c => call'[d] = call[d]
      /\ call'[c].pc = "retire" /\ call'[c].op = call[c].op
      /\ call'[c].key = call[c].key /\ call'[c].row = call[c].row
    <2> DEFINE u == [call[c] EXCEPT !.pc = "retire"]
    <2>1. u \in Call /\ u.pc = "retire" /\ u.op = call[c].op /\ u.key = call[c].key /\ u.row = call[c].row
        BY DEF CallsTyped, Call, CallPcs
    <2>2. call' = [call EXCEPT ![c] = [u EXCEPT !.bull = FALSE]]
        OBVIOUS
    <2> HIDE DEF u
    <2>3. /\ [u EXCEPT !.bull = FALSE] \in Call /\ [u EXCEPT !.bull = FALSE].pc = u.pc
          /\ [u EXCEPT !.bull = FALSE].op = u.op /\ [u EXCEPT !.bull = FALSE].key = u.key
          /\ [u EXCEPT !.bull = FALSE].row = u.row
        BY <2>1 DEF Call
    <2> QED
        BY <2>1, <2>2, <2>3 DEF CallsTyped
<1>1. RoomLeft'
    <2>1. Unmade' \subseteq Unmade
        BY <1>a DEF Unmade
    <2> QED
        BY <1>0, <2>1, RoomKept DEF KeysStay
<1>2. QueueTyped'
    <2>1. repeats' \subseteq RecurringRows
        BY DEF QueueTyped
    <2>2. CASE call[c].bull /\ Once(c)
        <3>1. call[c].key \in DOMAIN jobs => /\ WithoutJob(jobs[call[c].key]) \in Entry
                                            /\ WithoutJob(jobs[call[c].key]).row <= Len(rows)
            <4> SUFFICES ASSUME call[c].key \in DOMAIN jobs
                         PROVE  /\ WithoutJob(jobs[call[c].key]) \in Entry
                                /\ WithoutJob(jobs[call[c].key]).row <= Len(rows)
                OBVIOUS
            <4>1. PICK e \in Entry : e = jobs[call[c].key] /\ e.row <= Len(rows)
                BY DEF QueueTyped
            <4>2. WithoutJob(e) \in Entry /\ WithoutJob(e).row \in {0, e.row} /\ 0 <= Len(rows)
                BY EntriesAreEntries, RowNumbers
            <4> QED
                BY <4>1, <4>2
        <3>2. jobs' = [jobs EXCEPT ![call[c].key] = WithoutJob(jobs[call[c].key])]
            BY <2>2
        <3> QED
            BY <1>0, <2>1, <3>1, <3>2, JobPut
    <2>3. CASE ~(call[c].bull /\ Once(c))
        BY <1>0, <2>1, <2>3, QueueKept
    <2> QED
        BY <2>2, <2>3
<1>3. CallsTyped'
    <2>1. call[c].pc # "idle"
        OBVIOUS
    <2> QED
        BY <1>a, <2>1 DEF CallsTyped
<1>4. CallsKnow'
    BY <1>a DEF CallsKnow, Recurring
<1>5. WorkTyped'
    <2>1. ActiveStay
        BY EntriesAreEntries DEF ActiveStay, QueueTyped, WithoutJob, WithJob
    <2> QED
        BY <1>0, <2>1, WorkKept
<1>6. PassTyped'
    BY <1>0, PassKept
<1> QED
    BY <1>1, <1>2, <1>3, <1>4, <1>5, <1>6

(* The soft delete. *)
LEMMA DeleteShape ==
    ASSUME Shape, RowsTyped', NEW c \in Callers, SoftDelete(c), UNCHANGED << workVars, pass >>
    PROVE  Shape'
<1> USE DEF Shape, SoftDelete, At, Returns, workVars
<1>0. KeysStay
    BY DeleteUpdate
<1>a. /\ call' \in [Callers -> Call] /\ \A d \in Callers : d # c => call'[d] = call[d]
      /\ call[c].op = "schedule" => /\ call'[c].pc = "create" /\ call'[c].op = "schedule"
                                    /\ call'[c].key = call[c].key /\ call'[c].row = 0
      /\ call[c].op # "schedule" => call'[c] = IdleCall
    <2>1. IdleCall \in Call
        BY ScheduleTableAssumption DEF IdleCall, Call, CallPcs, Ops
    <2>2. CASE call[c].op = "schedule"
        BY <2>2, ScheduleTableAssumption DEF CallsTyped, Call, CallPcs
    <2>3. CASE call[c].op # "schedule"
        BY <2>1, <2>3 DEF CallsTyped
    <2> QED
        BY <2>2, <2>3
<1>1. RoomLeft'
    <2>1. Unmade' \subseteq Unmade
        BY <1>a DEF Unmade, IdleCall
    <2> QED
        BY <1>0, <2>1, RoomKept DEF KeysStay
<1>2. QueueTyped'
    BY <1>0, QueueKept DEF QueueTyped
<1>3. CallsTyped'
    <2>1. call[c].key \in Keys /\ IdleCall.pc = "idle"
        BY DEF CallsTyped, IdleCall
    <2> QED
        BY <1>a, <2>1 DEF CallsTyped
<1>4. CallsKnow'
    <2>1. \A k \in DOMAIN rows : rows'[k].status \in {rows[k].status, "cancelled"}
        BY DeleteUpdate
    <2>2. (call[c].key = call'[c].key /\ call[c].op \notin {"pause", "resume"}) \/ call'[c] = IdleCall
        BY <1>a
    <2>3. \A k \in DOMAIN rows : Recurring(k)' = Recurring(k)
        BY <1>0 DEF KeysStay, Recurring
    <2> QED
        BY <1>0, <1>a, <2>1, <2>2, <2>3 DEF CallsKnow, KeysStay, IdleCall
<1>5. WorkTyped'
    BY <1>0 DEF WorkTyped, KeysStay, QueueTyped
<1>6. PassTyped'
    BY <1>0, PassKept
<1> QED
    BY <1>1, <1>2, <1>3, <1>4, <1>5, <1>6

(* The pause. *)
LEMMA PauseShape ==
    ASSUME Shape, RowsTyped', NEW c \in Callers, MarkPaused(c), UNCHANGED << workVars, pass >>
    PROVE  Shape'
<1> USE DEF Shape, MarkPaused, At, Returns, workVars
<1>0. KeysStay
    BY PauseUpdate
<1>1. RoomLeft'
    <2>1. Unmade' \subseteq Unmade
        BY DEF Unmade, CallsTyped, IdleCall
    <2> QED
        BY <1>0, <2>1, RoomKept DEF KeysStay
<1>2. QueueTyped'
    BY <1>0, QueueKept DEF QueueTyped
<1>3. CallsTyped'
    <2>1. IdleCall \in Call
        BY ScheduleTableAssumption DEF IdleCall, Call, CallPcs, Ops
    <2> QED
        BY <2>1 DEF CallsTyped, IdleCall
<1>4. CallsKnow'
    BY <1>0 DEF CallsKnow, CallsTyped, KeysStay, Recurring, IdleCall, Call
<1>5. WorkTyped'
    BY <1>0 DEF WorkTyped, KeysStay, QueueTyped
<1>6. PassTyped'
    BY <1>0, PassKept
<1> QED
    BY <1>1, <1>2, <1>3, <1>4, <1>5, <1>6

(* A call that is over, refused by the index or thrown out of an await. *)
LEMMA ReturnShape ==
    ASSUME Shape, RowsTyped', NEW c \in Callers, Returns(c),
           UNCHANGED << rows, jobs, repeats, subject, controls >>, UNCHANGED << workVars, pass >>
    PROVE  Shape'
<1> USE DEF Shape, Returns, workVars
<1>0. KeysStay
    BY DEF KeysStay
<1>1. RoomLeft'
    <2>1. Unmade' \subseteq Unmade
        BY DEF Unmade, CallsTyped, IdleCall
    <2> QED
        BY <1>0, <2>1, RoomKept DEF KeysStay
<1>2. QueueTyped'
    BY <1>0, QueueKept DEF QueueTyped
<1>3. CallsTyped'
    <2>1. IdleCall \in Call
        BY ScheduleTableAssumption DEF IdleCall, Call, CallPcs, Ops
    <2> QED
        BY <2>1 DEF CallsTyped, IdleCall
<1>4. CallsKnow'
    BY <1>0 DEF CallsKnow, CallsTyped, KeysStay, Recurring, IdleCall, Call
<1>5. WorkTyped'
    BY <1>0 DEF WorkTyped, KeysStay, QueueTyped
<1>6. PassTyped'
    BY <1>0, PassKept
<1> QED
    BY <1>1, <1>2, <1>3, <1>4, <1>5, <1>6

(* addOnce, its removal and its addition. *)
LEMMA PriorShape ==
    ASSUME Shape, RowsTyped', NEW c \in Callers, RemovePrior(c), UNCHANGED << workVars, pass >>
    PROVE  Shape'
<1> USE DEF Shape, RemovePrior, At, Goto, Once, workVars
<1>0. KeysStay
    BY DEF KeysStay
<1>1. RoomLeft'
    BY <1>0, RoomKept DEF Unmade, KeysStay
<1>2. QueueTyped'
    <2>1. call[c].key \in DOMAIN jobs => WithoutJob(jobs[call[c].key]) \in Entry /\ (WithoutJob(jobs[call[c].key])).row <= Len(rows)
        BY EntriesAreEntries, RowNumbers DEF QueueTyped, RowsTyped
    <2>2. jobs' = [jobs EXCEPT ![call[c].key] = WithoutJob(jobs[call[c].key])]
        OBVIOUS
    <2> QED
        BY <1>0, <2>1, <2>2, JobPut DEF QueueTyped
<1>3. CallsTyped'
    BY <1>0 DEF CallsTyped, Call, CallPcs, Ops, IdleCall
<1>4. CallsKnow'
    BY <1>0 DEF CallsKnow, CallsTyped, KeysStay, Recurring, IdleCall, Call
<1>5. WorkTyped'
    <2>1. ActiveStay
        BY EntriesAreEntries DEF ActiveStay, QueueTyped, WithoutJob, WithJob
    <2> QED
        BY <1>0, <2>1, WorkKept
<1>6. PassTyped'
    BY <1>0, PassKept
<1> QED
    BY <1>1, <1>2, <1>3, <1>4, <1>5, <1>6

LEMMA AddOnceShape ==
    ASSUME Shape, RowsTyped', NEW c \in Callers, AddOnce(c), UNCHANGED << workVars, pass >>
    PROVE  Shape'
<1> USE DEF Shape, AddOnce, At, Goto, workVars
<1>0. KeysStay
    BY DEF KeysStay
<1>1. RoomLeft'
    BY <1>0, RoomKept DEF Unmade, KeysStay
<1>2. QueueTyped'
    <2>1. PICK i \in DOMAIN rows : i = call[c].row
        BY DEF CallsKnow
    <2>2. i \in 0 .. MaxRows /\ i <= Len(rows) /\ 0 <= Len(rows)
        BY <2>1, RowNumbers, ScheduleTableAssumption
    <2>3. ASSUME call[c].key \in DOMAIN jobs
          PROVE  /\ WithJob(jobs[call[c].key], i) \in Entry
                 /\ WithJob(jobs[call[c].key], i).row <= Len(rows)
        <3>1. PICK e \in Entry : e = jobs[call[c].key] /\ e.row <= Len(rows)
            BY <2>3 DEF QueueTyped
        <3>2. WithJob(e, i) \in Entry /\ WithJob(e, i).row \in {i, e.row}
            BY <2>2, EntriesAreEntries
        <3> QED
            BY <2>2, <3>1, <3>2
    <2>4. jobs' = [jobs EXCEPT ![call[c].key] = WithJob(jobs[call[c].key], i)]
        BY <2>1
    <2> QED
        BY <1>0, <2>3, <2>4, JobPut DEF QueueTyped
<1>3. CallsTyped'
    BY <1>0 DEF CallsTyped, Call, CallPcs, Ops, IdleCall
<1>4. CallsKnow'
    BY <1>0 DEF CallsKnow, CallsTyped, KeysStay, Recurring, IdleCall, Call
<1>5. WorkTyped'
    <2>1. ActiveStay
        BY EntriesAreEntries DEF ActiveStay, QueueTyped, WithoutJob, WithJob
    <2> QED
        BY <1>0, <2>1, WorkKept
<1>6. PassTyped'
    BY <1>0, PassKept
<1> QED
    BY <1>1, <1>2, <1>3, <1>4, <1>5, <1>6

(* enqueueRecurring. *)
LEMMA AddRecurringShape ==
    ASSUME Shape, RowsTyped', NEW c \in Callers, AddRecurring(c), UNCHANGED << workVars, pass >>
    PROVE  Shape'
<1> USE DEF Shape, AddRecurring, At, Goto, Once, workVars
<1>0. KeysStay
    BY DEF KeysStay
<1>1. RoomLeft'
    BY <1>0, RoomKept DEF Unmade, KeysStay
<1>2. QueueTyped'
    <2>1. call[c].row \in RecurringRows
        BY DEF CallsKnow, RecurringRows, Recurring, CallsTyped, Keys
    <2> QED
        BY <1>0, <2>1, QueueKept DEF QueueTyped
<1>3. CallsTyped'
    BY <1>0 DEF CallsTyped, Call, CallPcs, Ops, IdleCall
<1>4. CallsKnow'
    BY <1>0 DEF CallsKnow, CallsTyped, KeysStay, Recurring, IdleCall, Call
<1>5. WorkTyped'
    BY <1>0 DEF WorkTyped, KeysStay, QueueTyped
<1>6. PassTyped'
    BY <1>0, PassKept
<1> QED
    BY <1>1, <1>2, <1>3, <1>4, <1>5, <1>6

(* The bullJobId is recorded. *)
LEMMA RecordShape ==
    ASSUME Shape, RowsTyped', NEW c \in Callers, Record(c), UNCHANGED << workVars, pass >>
    PROVE  Shape'
<1> USE DEF Shape, Record, At, Returns, workVars
<1>0. KeysStay
    BY RecordUpdate
<1>1. RoomLeft'
    <2>1. Unmade' \subseteq Unmade
        BY DEF Unmade, CallsTyped, IdleCall
    <2> QED
        BY <1>0, <2>1, RoomKept DEF KeysStay
<1>2. QueueTyped'
    BY <1>0, QueueKept DEF QueueTyped
<1>3. CallsTyped'
    <2>1. IdleCall \in Call
        BY ScheduleTableAssumption DEF IdleCall, Call, CallPcs, Ops
    <2> QED
        BY <2>1 DEF CallsTyped, IdleCall
<1>4. CallsKnow'
    BY <1>0 DEF CallsKnow, CallsTyped, KeysStay, Recurring, IdleCall, Call
<1>5. WorkTyped'
    BY <1>0 DEF WorkTyped, KeysStay, QueueTyped
<1>6. PassTyped'
    BY <1>0, PassKept
<1> QED
    BY <1>1, <1>2, <1>3, <1>4, <1>5, <1>6

(* One lemma per kind of step of the worker: it takes a job that nobody holds. *)
LEMMA TakeShape ==
    ASSUME Shape, RowsTyped', NEW w \in Workers, NEW id \in DOMAIN jobs, Take(w, id),
           UNCHANGED << callVars, pass >>
    PROVE  Shape'
<1> USE DEF Shape, Take, Busy, callVars
<1>0. KeysStay
    BY DEF KeysStay
<1>1. RoomLeft'
    BY <1>0, RoomKept DEF Unmade, KeysStay
<1>2. QueueTyped'
    <2>1. jobs[id] \in Entry
        BY DEF QueueTyped
    <2>2. PICK queue : queue = [jobs[id].queue EXCEPT !.state = "active"]
        OBVIOUS
    <2>3. queue \in Job
        BY <2>1, <2>2 DEF Entry, Job, JobStates
    <2>4. [jobs[id] EXCEPT !.queue = queue] \in Entry /\ [jobs[id] EXCEPT !.queue = queue].row = jobs[id].row
        BY <2>1, <2>3 DEF Entry
    <2>5. jobs' = [jobs EXCEPT ![id] = [jobs[id] EXCEPT !.queue = queue]]
        BY <2>2
    <2>6. jobs[id].row <= Len(rows)
        BY DEF QueueTyped
    <2> QED
        BY <1>0, <2>4, <2>5, <2>6, JobPut DEF QueueTyped
<1>3. CallsTyped'
    BY <1>0 DEF CallsTyped, Call, CallPcs, Ops, IdleCall
<1>4. CallsKnow'
    BY <1>0 DEF CallsKnow, CallsTyped, KeysStay, Recurring, IdleCall, Call
<1>5. WorkTyped'
    <2>1. ActiveStay /\ jobs'[id].queue.state = "active"
        BY DEF ActiveStay, QueueTyped, Entry, Job
    <2>2. /\ work'[w] = [pc |-> "start", id |-> id, row |-> jobs[id].row]
          /\ \A v \in Workers : v # w => work'[v] = work[v]
        BY DEF WorkTyped
    <2>3. [pc |-> "start", id |-> id, row |-> jobs[id].row] \in Task /\ jobs[id].row <= Len(rows)
        BY DEF Task, QueueTyped, Entry
    <2>4. \A v \in Workers : work[v].pc # "idle" => work[v].id # id
        BY DEF WorkTyped
    <2> QED
        BY <1>0, <2>1, <2>2, <2>3, <2>4 DEF WorkTyped, ActiveStay, KeysStay
<1>6. PassTyped'
    BY <1>0, PassKept
<1> QED
    BY <1>1, <1>2, <1>3, <1>4, <1>5, <1>6

(* It goes on with the attempt and writes nothing. *)
LEMMA MoveShape ==
    ASSUME Shape, RowsTyped', NEW w \in Workers, NEW p, Moves(w, p), ~Busy(w, "idle"),
           p \in {"write", "emit", "throw"}, UNCHANGED registered,
           UNCHANGED << rows, jobs, repeats >>, UNCHANGED << callVars, pass >>
    PROVE  Shape'
<1> USE DEF Shape, Moves, Busy, callVars
<1>0. KeysStay
    BY DEF KeysStay
<1>1. RoomLeft'
    BY <1>0, RoomKept DEF Unmade, KeysStay
<1>2. QueueTyped'
    BY <1>0, QueueKept DEF QueueTyped
<1>3. CallsTyped'
    BY <1>0 DEF CallsTyped, Call, CallPcs, Ops, IdleCall
<1>4. CallsKnow'
    BY <1>0 DEF CallsKnow, CallsTyped, KeysStay, Recurring, IdleCall, Call
<1>5. WorkTyped'
    <2>1. /\ work'[w] \in Task /\ work'[w].pc = p /\ work'[w].id = work[w].id /\ work'[w].row = work[w].row
          /\ \A v \in Workers : v # w => work'[v] = work[v]
          /\ work' \in [Workers -> Task]
        BY DEF WorkTyped, Task
    <2>2. \A v \in Workers : (work'[v].pc = "idle" <=> work[v].pc = "idle") /\ work'[v].id = work[v].id /\ work'[v].row = work[v].row
        BY <2>1
    <2>3. \A v \in Workers : work'[v].pc = "idle" => work'[v] = work[v]
        BY <2>1
    <2> QED
        BY <1>0, <2>1, <2>2, <2>3 DEF WorkTyped, KeysStay
<1>6. PassTyped'
    BY <1>0, PassKept
<1> QED
    BY <1>1, <1>2, <1>3, <1>4, <1>5, <1>6

(* It writes a status. *)
LEMMA WriteShape ==
    ASSUME Shape, RowsTyped', NEW w \in Workers, NEW p, NEW s \in Statuses \ {"paused"},
           Moves(w, p), ~Busy(w, "idle"), p \in {"emit", "throw"},
           rows' = [rows EXCEPT ![work[w].row].status = s], UNCHANGED registered,
           UNCHANGED << jobs, repeats >>, UNCHANGED << callVars, pass >>
    PROVE  Shape'
<1> USE DEF Shape, Moves, Busy, callVars
<1>0. KeysStay
    BY StatusUpdate
<1>1. RoomLeft'
    BY <1>0, RoomKept DEF Unmade, KeysStay
<1>2. QueueTyped'
    BY <1>0, QueueKept DEF QueueTyped
<1>3. CallsTyped'
    BY <1>0 DEF CallsTyped, Call, CallPcs, Ops, IdleCall
<1>4. CallsKnow'
    BY <1>0 DEF CallsKnow, CallsTyped, KeysStay, Recurring, IdleCall, Call
<1>5. WorkTyped'
    <2>1. /\ work'[w] \in Task /\ work'[w].pc = p /\ work'[w].id = work[w].id /\ work'[w].row = work[w].row
          /\ \A v \in Workers : v # w => work'[v] = work[v]
          /\ work' \in [Workers -> Task]
        BY DEF WorkTyped, Task
    <2>2. \A v \in Workers : (work'[v].pc = "idle" <=> work[v].pc = "idle") /\ work'[v].id = work[v].id /\ work'[v].row = work[v].row
        BY <2>1
    <2>3. \A v \in Workers : work'[v].pc = "idle" => work'[v] = work[v]
        BY <2>1
    <2> QED
        BY <1>0, <2>1, <2>2, <2>3 DEF WorkTyped, KeysStay
<1>6. PassTyped'
    BY <1>0, PassKept
<1> QED
    BY <1>1, <1>2, <1>3, <1>4, <1>5, <1>6

(* It answers the queue. *)
LEMMA EndShape ==
    ASSUME Shape, RowsTyped', NEW w \in Workers, NEW queue \in Job, ~Busy(w, "idle"),
           jobs' = [jobs EXCEPT ![work[w].id] = After(work[w].id, queue)],
           work' = [work EXCEPT ![w] = IdleWork], UNCHANGED << rows, repeats, registered >>,
           UNCHANGED << callVars, pass >>
    PROVE  Shape'
<1> USE DEF Shape, Busy, callVars
<1>0. KeysStay
    BY DEF KeysStay
<1>1. RoomLeft'
    BY <1>0, RoomKept DEF Unmade, KeysStay
<1>2. QueueTyped'
    <2>1. work[w].id \in DOMAIN jobs /\ queue \in Job
        BY JobsAreJobs DEF WorkTyped, QueueTyped, Entry
    <2>2. After(work[w].id, queue) \in Entry /\ After(work[w].id, queue).row \in {0, jobs[work[w].id].row}
        BY <2>1, AfterIsEntry
    <2>3. jobs[work[w].id].row <= Len(rows) /\ Len(rows) \in Nat
        BY <2>1, RowNumbers DEF QueueTyped
    <2>4. After(work[w].id, queue).row <= Len(rows)
        BY <2>2, <2>3
    <2> QED
        BY <1>0, <2>2, <2>4, JobPut DEF QueueTyped
<1>3. CallsTyped'
    BY <1>0 DEF CallsTyped, Call, CallPcs, Ops, IdleCall
<1>4. CallsKnow'
    BY <1>0 DEF CallsKnow, CallsTyped, KeysStay, Recurring, IdleCall, Call
<1>5. WorkTyped'
    <2>1. /\ work'[w] = IdleWork /\ IdleWork \in Task /\ IdleWork.row = 0 /\ IdleWork.pc = "idle"
          /\ \A v \in Workers : v # w => work'[v] = work[v]
          /\ work' \in [Workers -> Task]
        BY ScheduleTableAssumption DEF WorkTyped, Task, IdleWork
    <2>2. \A v \in Workers : v # w /\ work[v].pc # "idle" => work[v].id # work[w].id
        BY DEF WorkTyped
    <2>3. DOMAIN jobs' = DOMAIN jobs /\ \A id \in DOMAIN jobs : id # work[w].id => jobs'[id] = jobs[id]
        OBVIOUS
    <2> QED
        BY <1>0, <2>1, <2>2, <2>3, RowNumbers DEF WorkTyped, KeysStay
<1>6. PassTyped'
    BY <1>0, PassKept
<1> QED
    BY <1>1, <1>2, <1>3, <1>4, <1>5, <1>6

(* The stalled check. *)
LEMMA StallShape ==
    ASSUME Shape, RowsTyped', NEW id \in DOMAIN jobs, Stall(id), UNCHANGED << callVars, pass >>
    PROVE  Shape'
<1> USE DEF Shape, Stall, callVars
<1>0. KeysStay
    BY DEF KeysStay
<1>1. RoomLeft'
    BY <1>0, RoomKept DEF Unmade, KeysStay
<1>2. QueueTyped'
    <2>1. id \in DOMAIN jobs /\ Stalled(jobs[id].queue) \in Job
        BY JobsAreJobs DEF WorkTyped, QueueTyped, Entry
    <2>2. After(id, Stalled(jobs[id].queue)) \in Entry /\ After(id, Stalled(jobs[id].queue)).row \in {0, jobs[id].row}
        BY <2>1, AfterIsEntry
    <2>3. jobs[id].row <= Len(rows) /\ Len(rows) \in Nat
        BY <2>1, RowNumbers DEF QueueTyped
    <2>4. After(id, Stalled(jobs[id].queue)).row <= Len(rows)
        BY <2>2, <2>3
    <2> QED
        BY <1>0, <2>2, <2>4, JobPut DEF QueueTyped
<1>3. CallsTyped'
    BY <1>0 DEF CallsTyped, Call, CallPcs, Ops, IdleCall
<1>4. CallsKnow'
    BY <1>0 DEF CallsKnow, CallsTyped, KeysStay, Recurring, IdleCall, Call
<1>5. WorkTyped'
    BY <1>0 DEF WorkTyped, KeysStay, QueueTyped
<1>6. PassTyped'
    BY <1>0, PassKept
<1> QED
    BY <1>1, <1>2, <1>3, <1>4, <1>5, <1>6

(* A repeat is due. *)
LEMMA FireShape ==
    ASSUME Shape, RowsTyped', NEW i \in RowIds, Fire(i), UNCHANGED << callVars, workVars, pass >>
    PROVE  Shape'
<1> USE DEF Shape, Fire, callVars, workVars
<1>0. KeysStay
    BY DEF KeysStay
<1>1. RoomLeft'
    BY <1>0, RoomKept DEF Unmade, KeysStay
<1>2. QueueTyped'
    <2>1. i \in 0 .. MaxRows /\ i <= Len(rows)
        BY RowNumbers DEF RowIds, QueueTyped, RecurringRows
    <2>2. Instance(i) \in Entry /\ Instance(i).row <= Len(rows)
        BY <2>1, EntriesAreEntries
    <2> QED
        BY <1>0, <2>2, JobPut DEF QueueTyped
<1>3. CallsTyped'
    BY <1>0 DEF CallsTyped, Call, CallPcs, Ops, IdleCall
<1>4. CallsKnow'
    BY <1>0 DEF CallsKnow, CallsTyped, KeysStay, Recurring, IdleCall, Call
<1>5. WorkTyped'
    <2>1. jobs[i] = NoEntry
        BY DEF NoInstance
    <2>2. ActiveStay
        BY <2>1, EntriesAreEntries DEF ActiveStay, QueueTyped
    <2> QED
        BY <1>0, <2>2, WorkKept
<1>6. PassTyped'
    BY <1>0, PassKept
<1> QED
    BY <1>1, <1>2, <1>3, <1>4, <1>5, <1>6

(* The process dies: the calls, the attempts and the pass are gone. *)
LEMMA CrashShape ==
    ASSUME Shape, RowsTyped', Crash, UNCHANGED << tableVars >>
    PROVE  Shape'
<1> USE DEF Shape, Crash, tableVars, NoPass
<1>0. KeysStay
    BY DEF KeysStay
<1>1. RoomLeft'
    <2>1. Unmade' = {}
        BY DEF Unmade, IdleCall
    <2> QED
        BY <1>0, <2>1, RoomKept DEF KeysStay
<1>2. QueueTyped'
    BY <1>0, QueueKept DEF QueueTyped
<1>3. CallsTyped'
    <2>1. IdleCall \in Call
        BY ScheduleTableAssumption DEF IdleCall, Call, CallPcs, Ops
    <2> QED
        BY <2>1 DEF CallsTyped, IdleCall
<1>4. CallsKnow'
    BY <1>0 DEF CallsKnow, CallsTyped, KeysStay, Recurring, IdleCall, Call
<1>5. WorkTyped'
    <2>1. IdleWork \in Task /\ IdleWork.pc = "idle" /\ IdleWork.row = 0
        BY ScheduleTableAssumption DEF IdleWork, Task
    <2>2. \A w \in Workers : work'[w] = IdleWork
        OBVIOUS
    <2>3. work' \in [Workers -> Task] /\ registered' \in BOOLEAN /\ Len(rows') = Len(rows) /\ Len(rows) \in Nat
        BY <2>1, RowNumbers
    <2> HIDE DEF Crash
    <2> QED
        BY <2>1, <2>2, <2>3 DEF WorkTyped
<1>6. PassTyped'
    BY DEF PassTyped
<1> QED
    BY <1>1, <1>2, <1>3, <1>4, <1>5, <1>6

(* The reconciler. *)
LEMMA PassShape ==
    ASSUME Shape, RowsTyped', PassStep, UNCHANGED << callVars, workVars >>
    PROVE  Shape'
<1> USE DEF Shape
<1>1. ActiveRecurring \subseteq RecurringRows
    BY DEF ActiveRecurring, RecurringRows
<1>2. KeysStay /\ UNCHANGED jobs /\ repeats' \subseteq RecurringRows
    <2>1. CASE RecordKey
        BY <2>1, BullUpdate DEF RecordKey, QueueTyped
    <2>2. ASSUME NEW i, AddMissing(i) PROVE UNCHANGED rows /\ UNCHANGED jobs /\ repeats' \subseteq RecurringRows
        BY <2>2 DEF AddMissing, QueueTyped, PassTyped
    <2>3. CASE UNCHANGED << rows, jobs >> /\ repeats' \subseteq repeats
        BY <2>3 DEF KeysStay, QueueTyped
    <2> QED
        BY <2>1, <2>2, <2>3 DEF PassStep, ReadActive, ListRepeatables, RemoveOrphan, EndPass, KeysStay
<1>3. /\ DOMAIN pass' = {"pc", "active", "missing", "orphans", "row"}
      /\ pass'.pc \in {"idle", "list", "converge", "record"}
      /\ pass'.active \cup pass'.missing \cup pass'.orphans \subseteq RecurringRows
      /\ pass'.row \in {0} \cup RecurringRows /\ (pass'.pc = "record" => pass'.row # 0)
    <2>1. CASE ReadActive
        <3>1. pass' = [pc |-> "list", active |-> ActiveRecurring, missing |-> {}, orphans |-> {}, row |-> 0]
            BY <2>1 DEF ReadActive, NoPass
        <3> QED
            BY <1>1, <3>1
    <2>4. CASE ListRepeatables
        <3>1. pass' = [pc |-> "converge", active |-> {}, missing |-> pass.active \ repeats,
                       orphans |-> repeats \ pass.active, row |-> 0]
            BY <2>4 DEF ListRepeatables, NoPass
        <3> QED
            BY <3>1 DEF PassTyped, QueueTyped
    <2>5. CASE EndPass
        BY <2>5 DEF EndPass, NoPass
    <2>2. ASSUME NEW i \in RowIds, AddMissing(i) \/ RemoveOrphan(i)
          PROVE  /\ DOMAIN pass' = {"pc", "active", "missing", "orphans", "row"}
                 /\ pass'.pc \in {"idle", "list", "converge", "record"}
                 /\ pass'.active \cup pass'.missing \cup pass'.orphans \subseteq RecurringRows
                 /\ pass'.row \in {0} \cup RecurringRows /\ (pass'.pc = "record" => pass'.row # 0)
        <3>1. CASE AddMissing(i)
            BY <3>1, ScheduleTableAssumption DEF AddMissing, PassTyped, RowIds
        <3>2. CASE RemoveOrphan(i)
            BY <3>2 DEF RemoveOrphan, PassTyped
        <3> QED
            BY <2>2, <3>1, <3>2
    <2>3. CASE RecordKey
        BY <2>3 DEF RecordKey, PassTyped
    <2> QED
        BY <2>1, <2>2, <2>3, <2>4, <2>5 DEF PassStep
<1>4. RoomLeft'
    BY <1>2, RoomKept DEF Unmade, KeysStay, callVars
<1>5. QueueTyped'
    BY <1>2, QueueKept
<1>6. CallsTyped'
    BY DEF CallsTyped, callVars
<1>7. WorkTyped'
    BY <1>2, WorkKept DEF ActiveStay
<1>8. PassTyped'
    <2>1. RecurringRows' = RecurringRows
        BY <1>2 DEF KeysStay, RecurringRows, Recurring
    <2> QED
        BY <1>3, <2>1 DEF PassTyped
<1>9. CallsKnow'
    <2>1. \A j \in DOMAIN rows : rows'[j].status = rows[j].status
        BY BullUpdate DEF PassStep, ReadActive, ListRepeatables, AddMissing, RemoveOrphan, EndPass, RecordKey
    <2> QED
        BY <1>2, <2>1 DEF CallsKnow, KeysStay, Recurring, callVars
<1> QED
    BY <1>4, <1>5, <1>6, <1>7, <1>8, <1>9

(* Nothing happens. *)
LEMMA SameShape ==
    ASSUME Shape, RowsTyped', UNCHANGED tableVars, UNCHANGED << callVars, workVars, pass >>
    PROVE  Shape'
<1> USE DEF Shape, tableVars, callVars, workVars
<1>0. KeysStay
    BY DEF KeysStay
<1>1. RoomLeft'
    BY <1>0, RoomKept DEF Unmade, KeysStay
<1>2. QueueTyped'
    BY <1>0, QueueKept DEF QueueTyped
<1>3. CallsTyped'
    BY <1>0 DEF CallsTyped, Call, CallPcs, Ops, IdleCall
<1>4. CallsKnow'
    BY <1>0 DEF CallsKnow, CallsTyped, KeysStay, Recurring, IdleCall, Call
<1>5. WorkTyped'
    BY <1>0 DEF WorkTyped, KeysStay, QueueTyped
<1>6. PassTyped'
    BY <1>0, PassKept
<1> QED
    BY <1>1, <1>2, <1>3, <1>4, <1>5, <1>6

(* A call that begins to schedule keeps a place for its row. *)
LEMMA ScheduleShape ==
    ASSUME Shape, RowsTyped', NEW c \in Callers, Schedule(c), UNCHANGED << workVars, pass >>
    PROVE  Shape'
<1> USE DEF Shape, workVars
<1>0. KeysStay
    BY DEF Schedule, KeysStay
<1>a. PICK i \in FoundByDedup(subject) :
          IF Replaces(i) THEN Begin(c, "dequeue", "schedule", subject, i)
                         ELSE Begin(c, "create", "schedule", subject, 0)
    BY DEF Schedule
<1>b. i = 0 \/ (i \in DOMAIN rows /\ rows[i].key = subject)
    BY <1>a DEF FoundByDedup, Live
<1>c. /\ call[c].pc = "idle" /\ call' \in [Callers -> Call]
      /\ \A d \in Callers : d # c => call'[d] = call[d]
      /\ call'[c].op = "schedule" /\ call'[c].key = subject
      /\ \/ call'[c].pc = "dequeue" /\ i \in DOMAIN rows /\ call'[c].row = i
         \/ call'[c].pc = "create" /\ call'[c].row = 0
    <2>1. i \in DOMAIN rows => rows[i].bull \in BOOLEAN /\ i \in 0 .. MaxRows
        BY RowsAreRows, RowNumbers DEF Row, RowIds
    <2>2. CASE Replaces(i)
        <3>1. i \in DOMAIN rows /\ i # 0
            BY <1>b, <2>2 DEF Replaces
        <3>2. [pc |-> "dequeue", op |-> "schedule", key |-> subject, row |-> i,
               bull |-> i # 0 /\ rows[i].bull] \in Call
            BY <2>1, <3>1 DEF Call, CallPcs, Ops, CallsTyped
        <3> QED
            BY <1>a, <2>2, <3>1, <3>2 DEF Begin, At, CallsTyped
    <2>3. CASE ~Replaces(i)
        <3>2. [pc |-> "create", op |-> "schedule", key |-> subject, row |-> 0,
               bull |-> 0 # 0 /\ rows[0].bull] \in Call
            BY ScheduleTableAssumption DEF Call, CallPcs, Ops, CallsTyped
        <3> QED
            BY <1>a, <2>3, <3>2 DEF Begin, At, CallsTyped
    <2> QED
        BY <2>2, <2>3
<1>1. RoomLeft'
    <2>1. Unmade' \subseteq Scheduling \cup {c}
        BY <1>c DEF Unmade, Scheduling
    <2>2. IsFiniteSet(Scheduling)
        BY ScheduleCallsAssumption, FS_Subset DEF Scheduling
    <2>3. /\ IsFiniteSet(Scheduling \cup {c}) /\ Cardinality(Scheduling \cup {c}) <= Cardinality(Scheduling) + 1
          /\ Cardinality(Scheduling) \in Nat /\ Cardinality(Scheduling \cup {c}) \in Nat
        <3>1. /\ IsFiniteSet(Scheduling \cup {c})
              /\ Cardinality(Scheduling \cup {c}) =
                     IF c \in Scheduling THEN Cardinality(Scheduling) ELSE Cardinality(Scheduling) + 1
            BY <2>2, FS_AddElement
        <3>2. Cardinality(Scheduling) \in Nat
            BY <2>2, FS_CardinalityType
        <3> QED
            BY <3>1, <3>2
    <2>4. Cardinality(Unmade') \in Nat /\ Cardinality(Unmade') <= Cardinality(Scheduling \cup {c})
        BY <2>1, <2>3, FS_Subset, FS_CardinalityType
    <2>5. Len(rows) + Cardinality(Scheduling) < MaxRows /\ Len(rows') = Len(rows) /\ Len(rows) \in Nat
        BY RowNumbers DEF Schedule
    <2> QED
        BY <2>3, <2>4, <2>5, ScheduleTableAssumption DEF RoomLeft
<1>2. QueueTyped'
    BY <1>0, QueueKept DEF QueueTyped, Schedule
<1>3. CallsTyped'
    BY <1>c DEF CallsTyped, Schedule
<1>4. CallsKnow'
    BY <1>b, <1>c DEF CallsKnow, CallsTyped, Recurring, Schedule
<1>5. WorkTyped'
    BY <1>0 DEF WorkTyped, KeysStay, QueueTyped, Schedule
<1>6. PassTyped'
    BY <1>0, PassKept
<1> QED
    BY <1>1, <1>2, <1>3, <1>4, <1>5, <1>6

(* The row that is created takes the place that its call kept. *)
LEMMA CreateShape ==
    ASSUME Shape, RowsTyped', NEW c \in Callers, Create(c), UNCHANGED << workVars, pass >>
    PROVE  Shape'
<1> USE DEF Shape, workVars
<1> DEFINE k == call[c].key
           n == Len(rows) + 1
<1>a. k \in Keys /\ call[c].pc = "create" /\ call[c].op = "schedule" /\ c \in Unmade
    BY DEF Create, At, CallsTyped, CallsKnow, Unmade
<1>b. /\ Len(rows') = n /\ DOMAIN rows' = DOMAIN rows \cup {n} /\ n \notin DOMAIN rows
      /\ \A j \in DOMAIN rows : rows'[j] = rows[j]
      /\ rows'[n] = NewRow(k)
    BY <1>a, RowMade DEF Create
<1>c. Len(rows) \in Nat /\ n <= MaxRows /\ n \in Nat
    BY <1>a, RowNumbers, ScheduleTableAssumption
<1>d. /\ call' \in [Callers -> Call] /\ \A d \in Callers : d # c => call'[d] = call[d]
      /\ call'[c].pc = "enqueue" /\ call'[c].op = "schedule" /\ call'[c].key = k /\ call'[c].row = n
    <2> DEFINE u == [call[c] EXCEPT !.pc = "enqueue"]
    <2>1. u \in Call /\ u.pc = "enqueue" /\ u.op = call[c].op /\ u.key = call[c].key
        BY DEF CallsTyped, Call, CallPcs
    <2>2. call' = [call EXCEPT ![c] = [u EXCEPT !.row = n]]
        BY DEF Create
    <2>4. n \in 0 .. MaxRows
        BY <1>c, ScheduleTableAssumption
    <2> HIDE DEF u, n
    <2>3. /\ [u EXCEPT !.row = n] \in Call /\ [u EXCEPT !.row = n].pc = u.pc
          /\ [u EXCEPT !.row = n].op = u.op /\ [u EXCEPT !.row = n].key = u.key
          /\ [u EXCEPT !.row = n].row = n
        BY <2>1, <2>4 DEF Call
    <2> QED
        BY <1>a, <2>1, <2>2, <2>3 DEF CallsTyped
<1>e. /\ RecurringRows \subseteq RecurringRows'
      /\ \A j \in DOMAIN rows : Recurring(j)' = Recurring(j)
    BY <1>b DEF RecurringRows, Recurring
<1>f. NewRow(k).key = k /\ NewRow(k).status # "paused"
    BY DEF NewRow
<1> HIDE DEF k, n
<1>1. RoomLeft'
    <2>1. Unmade' = Unmade \ {c}
        BY <1>a, <1>d DEF Unmade
    <2>2. IsFiniteSet(Unmade)
        BY ScheduleCallsAssumption, FS_Subset DEF Unmade
    <2>3. Cardinality(Unmade') = Cardinality(Unmade) - 1 /\ Cardinality(Unmade) \in Nat
        BY <1>a, <2>1, <2>2, FS_RemoveElement, FS_CardinalityType
    <2> QED
        BY <1>b, <1>c, <2>3, ScheduleTableAssumption DEF RoomLeft, n
<1>2. QueueTyped'
    <2>1. \A id \in DOMAIN jobs : jobs[id].row <= Len(rows')
        <3> SUFFICES ASSUME NEW id \in DOMAIN jobs PROVE jobs[id].row <= Len(rows')
            OBVIOUS
        <3>1. jobs[id].row \in 0 .. MaxRows /\ jobs[id].row <= Len(rows)
            BY DEF QueueTyped, Entry
        <3> QED
            BY <1>b, <1>c, <3>1, ScheduleTableAssumption DEF n
    <2> QED
        BY <1>e, <2>1 DEF QueueTyped, Create
<1>3. CallsTyped'
    BY <1>a, <1>d DEF CallsTyped, Create
<1>4. CallsKnow'
    BY <1>a, <1>b, <1>d, <1>e, <1>f DEF CallsKnow, CallsTyped
<1>5. WorkTyped'
    <2>1. \A w \in Workers : work[w].row <= Len(rows')
        <3> SUFFICES ASSUME NEW w \in Workers PROVE work[w].row <= Len(rows')
            OBVIOUS
        <3>1. work[w].row \in 0 .. MaxRows /\ work[w].row <= Len(rows)
            BY DEF WorkTyped, Task
        <3> QED
            BY <1>b, <1>c, <3>1, ScheduleTableAssumption DEF n
    <2> QED
        BY <2>1 DEF WorkTyped, Create
<1>6. PassTyped'
    BY <1>e DEF PassTyped
<1> QED
    BY <1>1, <1>2, <1>3, <1>4, <1>5, <1>6

(* Whatever a call does. *)
LEMMA CallShape ==
    ASSUME Shape, RowsTyped', NEW c \in Callers, CallStep(c), UNCHANGED << workVars, pass >>
    PROVE  Shape'
<1>1. ASSUME NEW i \in DOMAIN rows, Cancel(c, i) \/ Pause(c, i) \/ Resume(c, i)
      PROVE  Shape'
    <2>1. Counted => controls' \in 0 .. MaxControls
        BY ScheduleCallsAssumption DEF Counted, Shape, CallsTyped
    <2>2. UNCHANGED controls => controls' \in 0 .. MaxControls
        BY DEF Shape, CallsTyped
    <2>3. CASE Cancel(c, i)
        BY <2>1, <2>3, RequireShape DEF Cancel
    <2>4. CASE Pause(c, i)
        BY <2>1, <2>4, RequireShape DEF Pause
    <2>5. CASE Resume(c, i)
        BY <2>2, <2>5, RequireShape DEF Resume
    <2> QED
        BY <1>1, <2>3, <2>4, <2>5
<1>2. CASE CreateRefused(c)
    BY <1>2, ReturnShape DEF CreateRefused
<1> QED
    BY <1>1, <1>2, ScheduleShape, RemoveShape, DeleteShape, PauseShape, CreateShape, PriorShape,
       AddOnceShape, AddRecurringShape, RecordShape DEF CallStep

(* Whatever a slot of the worker does. *)
LEMMA WorkShape ==
    ASSUME Shape, RowsTyped', NEW w \in Workers, WorkStep(w) \/ WorkFails(w), UNCHANGED << callVars, pass >>
    PROVE  Shape'
<1>1. ASSUME Caught(w), ~Busy(w, "idle")
      PROVE  Shape'
    <2>1. CASE WillRetry(w)
        BY <1>1, <2>1, MoveShape DEF Caught
    <2>2. CASE ~WillRetry(w)
        <3>1. "failed" \in Statuses \ {"paused"}
            BY DEF Statuses
        <3>2. /\ rows' = [rows EXCEPT ![work[w].row].status = "failed"] /\ Moves(w, "throw")
              /\ UNCHANGED registered /\ UNCHANGED << jobs, repeats >>
            BY <1>1, <2>2 DEF Caught
        <3> QED
            BY <1>1, <3>1, <3>2, WriteShape
    <2> QED
        BY <2>1, <2>2
<1>2. CASE NoHandler(w)
    BY <1>2, MoveShape DEF NoHandler, Busy
<1>3. CASE HandlerReturns(w)
    BY <1>3, MoveShape DEF HandlerReturns, Busy
<1>4. CASE HandlerThrows(w)
    BY <1>1, <1>4 DEF HandlerThrows, Busy
<1>5. CASE WriteCompleted(w)
    <2>1. "completed" \in Statuses \ {"paused"}
        BY DEF Statuses
    <2>2. /\ rows' = [rows EXCEPT ![work[w].row].status = "completed"] /\ Moves(w, "emit")
          /\ UNCHANGED registered /\ UNCHANGED << jobs, repeats >> /\ ~Busy(w, "idle")
        BY <1>5 DEF WriteCompleted, Busy
    <2> QED
        BY <2>1, <2>2, WriteShape
<1>6. CASE Complete(w) \/ Reject(w)
    <2>1. ~Busy(w, "idle") /\ JobOf(w) \in Job
        BY <1>6 DEF Complete, Reject, Busy, JobOf, Shape, WorkTyped, QueueTyped, Entry
    <2>2. Completed(JobOf(w)) \in Job /\ Rejected(JobOf(w)) \in Job
        BY <2>1, JobsAreJobs
    <2>3. CASE Complete(w)
        BY <2>1, <2>2, <2>3, EndShape DEF Complete
    <2>4. CASE Reject(w)
        BY <2>1, <2>2, <2>4, EndShape DEF Reject
    <2> QED
        BY <1>6, <2>3, <2>4
<1>7. CASE WorkFails(w)
    <2>1. CASE Busy(w, "start") /\ Moves(w, "throw") /\ UNCHANGED << rows, jobs, repeats, registered >>
        BY <2>1, MoveShape DEF Busy
    <2>2. CASE (Busy(w, "write") \/ Busy(w, "emit")) /\ Caught(w)
        BY <1>1, <2>2 DEF Busy
    <2> QED
        BY <1>7, <2>1, <2>2 DEF WorkFails
<1> QED
    BY <1>2, <1>3, <1>4, <1>5, <1>6, <1>7, TakeShape DEF WorkStep

(* The handlers are registered. *)
LEMMA RegisterShape ==
    ASSUME Shape, RowsTyped', Register, UNCHANGED << callVars, pass >>
    PROVE  Shape'
<1> USE DEF Shape, Register, callVars
<1>0. KeysStay
    BY DEF KeysStay
<1>1. RoomLeft'
    BY <1>0, RoomKept DEF Unmade, KeysStay
<1>2. QueueTyped'
    BY <1>0, QueueKept DEF QueueTyped
<1>3. CallsTyped'
    BY DEF CallsTyped
<1>4. CallsKnow'
    BY DEF CallsKnow, Recurring
<1>5. WorkTyped'
    BY DEF WorkTyped
<1>6. PassTyped'
    BY <1>0, PassKept
<1> QED
    BY <1>1, <1>2, <1>3, <1>4, <1>5, <1>6

(* A pass is cut short. *)
LEMMA PassFailsShape ==
    ASSUME Shape, RowsTyped', PassFails, UNCHANGED << callVars, workVars >>
    PROVE  Shape'
<1> USE DEF Shape, PassFails, callVars, workVars
<1>0. KeysStay
    BY DEF KeysStay
<1>1. RoomLeft'
    BY <1>0, RoomKept DEF Unmade, KeysStay
<1>2. QueueTyped'
    BY <1>0, QueueKept DEF QueueTyped
<1>3. CallsTyped'
    BY DEF CallsTyped
<1>4. CallsKnow'
    BY DEF CallsKnow, Recurring
<1>5. WorkTyped'
    BY DEF WorkTyped
<1>6. PassTyped'
    BY DEF PassTyped, NoPass
<1> QED
    BY <1>1, <1>2, <1>3, <1>4, <1>5, <1>6

(* The two histories. *)
HistoryTyped == changed \in BOOLEAN /\ entangled \subseteq Keys

ShapeInv == Shape /\ HistoryTyped

(* The shape holds at the start and is kept. *)
LEMMA ShapeInit == Init => ShapeInv
<1> SUFFICES ASSUME Init PROVE ShapeInv
    OBVIOUS
<1>a. /\ rows = << >> /\ repeats = {} /\ subject \in Keys /\ controls = 0
      /\ jobs = [id \in OnceKeys \cup RowIds |-> NoEntry]
      /\ call = [c \in Callers |-> IdleCall] /\ work = [w \in Workers |-> IdleWork]
      /\ registered = TRUE /\ pass = NoPass /\ changed = TRUE /\ entangled = {}
    BY DEF Init, TableInit, CallInit, WorkInit, PassInit
<1>b. IdleCall \in Call /\ IdleWork \in Task /\ NoEntry \in Entry /\ NoEntry.row = 0
    BY EntriesAreEntries, ScheduleTableAssumption DEF IdleCall, Call, CallPcs, Ops, IdleWork, Task
<1>1. RowsTyped /\ Len(rows) = 0 /\ DOMAIN rows = {}
    BY <1>a DEF RowsTyped
<1>2. RoomLeft
    <2>1. Unmade = {}
        BY <1>a DEF Unmade, IdleCall
    <2>2. Cardinality(Unmade) = 0
        BY <2>1, FS_EmptySet
    <2> QED
        BY <1>1, <2>2, ScheduleTableAssumption DEF RoomLeft
<1>3. QueueTyped
    BY <1>a, <1>b, <1>1 DEF QueueTyped
<1>4. CallsTyped
    BY <1>a, <1>b, ScheduleCallsAssumption DEF CallsTyped, IdleCall
<1>5. CallsKnow
    BY <1>a, <1>1 DEF CallsKnow, IdleCall
<1>6. WorkTyped
    BY <1>a, <1>b, <1>1 DEF WorkTyped, IdleWork
<1>7. PassTyped
    BY <1>a DEF PassTyped, NoPass
<1> QED
    BY <1>a, <1>1, <1>2, <1>3, <1>4, <1>5, <1>6, <1>7 DEF ShapeInv, Shape, HistoryTyped

LEMMA ShapeStep == ShapeInv /\ [Next]_vars => ShapeInv'
<1> SUFFICES ASSUME ShapeInv, [Next]_vars PROVE ShapeInv'
    OBVIOUS
<1>1. RowsTyped'
    <2>1. CallersHaveKeys
        BY DEF ShapeInv, Shape, CallsTyped, CallersHaveKeys, Call
    <2> QED
        BY <2>1, TableStep DEF ShapeInv, Shape, TableInv
<1>2. Shape'
    <2> USE DEF ShapeInv
    <2>1. CASE ServiceStep
        BY <1>1, <2>1, CallShape, TriggerShape DEF ServiceStep
    <2>2. CASE WorkerStep
        BY <1>1, <2>2, WorkShape, RegisterShape, StallShape DEF WorkerStep
    <2>3. CASE FireStep
        BY <1>1, <2>3, FireShape DEF FireStep
    <2>4. CASE Fault
        <3>1. ASSUME NEW c \in Callers, CallFails(c), UNCHANGED << workVars, pass >>
              PROVE  Shape'
            BY <1>1, <3>1, ReturnShape DEF CallFails
        <3>2. ASSUME NEW w \in Workers, WorkFails(w), UNCHANGED << callVars, pass >>
              PROVE  Shape'
            BY <1>1, <3>2, WorkShape
        <3>3. CASE PassFails /\ UNCHANGED << callVars, workVars >>
            BY <1>1, <3>3, PassFailsShape
        <3> QED
            BY <2>4, <3>1, <3>2, <3>3 DEF Fault
    <2>5. CASE Crash
        BY <1>1, <2>5, CrashShape DEF Crash
    <2>6. CASE ReconcilerStep
        BY <1>1, <2>6, PassShape DEF ReconcilerStep
    <2>7. CASE UNCHANGED vars
        BY <1>1, <2>7, SameShape DEF vars, passVars
    <2> QED
        BY <2>1, <2>2, <2>3, <2>4, <2>5, <2>6, <2>7 DEF Next
<1>3. HistoryTyped'
    <2>1. entangled' \subseteq Keys
        BY DEF ShapeInv, HistoryTyped, Next, Entangle, vars
    <2>2. changed' \in BOOLEAN
        <3>1. CASE Change
            BY <3>1 DEF Change
        <3>2. CASE changed' = FALSE \/ changed' = changed
            BY <3>2 DEF ShapeInv, HistoryTyped
        <3> QED
            BY <3>1, <3>2 DEF Next, ReconcilerStep, PassStep, ReadActive, ListRepeatables, AddMissing,
               RecordKey, RemoveOrphan, EndPass, vars, passVars
    <2> QED
        BY <2>1, <2>2 DEF HistoryTyped
<1> QED
    BY <1>2, <1>3 DEF ShapeInv

LEMMA ShapeInvariant == Spec => []ShapeInv
    BY ShapeInit, ShapeStep, PTL DEF Spec

(* The type invariant. *)
THEOREM SchedulerKeepsTypes == Spec => []TypeOK
<1>1. ShapeInv => TypeOK
    <2> SUFFICES ASSUME ShapeInv PROVE TypeOK
        OBVIOUS
    <2> USE DEF ShapeInv, Shape
    <2>1. TableTypeOK
        <3>1. \A id \in DOMAIN jobs : JobTypeOK(jobs[id].queue) /\ jobs[id].row \in 0 .. Len(rows)
            BY RowNumbers DEF QueueTyped, Entry, Job, JobTypeOK
        <3>2. repeats \subseteq DOMAIN rows
            BY DEF QueueTyped, RecurringRows
        <3> QED
            BY <3>1, <3>2, RowNumbers, RowsAreRows DEF TableTypeOK
    <2>2. CallTypeOK
        <3> SUFFICES ASSUME NEW c \in Callers
                     PROVE  /\ call[c].pc \in CallPcs /\ call[c].op \in Ops
                            /\ call[c].row \in 0 .. Len(rows) /\ call[c].bull \in BOOLEAN
            BY DEF CallTypeOK, CallPcs, Ops, CallsTyped
        <3>1. call[c] \in Call
            BY DEF CallsTyped
        <3>2. call[c].row \in DOMAIN rows \cup {0}
            BY <3>1 DEF CallsTyped, CallsKnow, Call, CallPcs, IdleCall
        <3> QED
            BY <3>1, <3>2, RowNumbers DEF Call
    <2>3. WorkTypeOK
        BY RowNumbers DEF WorkTypeOK, WorkTyped, Task, QueueTyped
    <2>4. PassTypeOK
        BY RowNumbers DEF PassTypeOK, PassTyped, RecurringRows, HistoryTyped
    <2> QED
        BY <2>1, <2>2, <2>3, <2>4 DEF TypeOK, HistoryTyped
<1> QED
    BY <1>1, ShapeInvariant, PTL

-----------------------------------------------------------------------------
(* What the calls on a key on which nothing overlapped know: there is one at
   most, the job of the key is not running, and a cancel is of the schedule that
   has the job. *)
ClearInv ==
    \A k \in Keys : Clear(k) =>
        /\ \A c, d \in Calling(k) : c = d
        /\ k \in OnceKeys => \A c \in Calling(k) :
               /\ jobs[k].queue.state # "active"
               /\ call[c].op = "cancel" => jobs[k].row \in {0, call[c].row}

(* A finite set with at most one element. *)
LEMMA AtMostOne ==
    ASSUME NEW S, IsFiniteSet(S), ~(Cardinality(S) > 1)
    PROVE  \A x, y \in S : x = y
<1> SUFFICES ASSUME NEW x \in S, NEW y \in S, x # y PROVE FALSE
    OBVIOUS
<1>1. {x, y} \subseteq S
    OBVIOUS
<1>2. IsFiniteSet({x}) /\ Cardinality({x}) = 1
    BY FS_Singleton
<1>3. IsFiniteSet({x} \cup {y}) /\ Cardinality({x} \cup {y}) = 2
    <2>1. y \notin {x}
        OBVIOUS
    <2>2. /\ IsFiniteSet({x} \cup {y})
          /\ Cardinality({x} \cup {y}) = IF y \in {x} THEN Cardinality({x}) ELSE Cardinality({x}) + 1
        BY <1>2, FS_AddElement
    <2> QED
        BY <1>2, <2>1, <2>2
<1>4. Cardinality({x} \cup {y}) <= Cardinality(S) /\ Cardinality(S) \in Nat
    BY <1>1, FS_Subset, FS_CardinalityType
<1> QED
    BY <1>3, <1>4

(* No call has begun. *)
LEMMA ClearInit == Init => ClearInv
<1> SUFFICES ASSUME Init PROVE ClearInv
    OBVIOUS
<1>1. \A k \in Keys : Calling(k) = {}
    BY ScheduleTableAssumption DEF Init, CallInit, IdleCall, Calling
<1> QED
    BY <1>1 DEF ClearInv

(* What is entangled stays so, and what a step entangles is noted. *)
LEMMA ClearStep ==
    ASSUME ClearInv, [Next]_vars
    PROVE  entangled \subseteq entangled' /\ ClearInv'
<1>1. CASE Entangle
    <2>1. entangled \subseteq entangled'
        BY <1>1 DEF Entangle
    <2>2. ASSUME NEW k \in Keys, Clear(k)'
          PROVE  ~Entangles(k)'
        BY <1>1, <2>2 DEF Entangle, Clear
    <2>3. \A k : IsFiniteSet(Calling(k)')
        BY ScheduleCallsAssumption, FS_Subset DEF Calling
    <2>4. ASSUME NEW k \in Keys, Clear(k)'
          PROVE  \A c, d \in Calling(k)' : c = d
        BY <2>2, <2>3, <2>4, AtMostOne DEF Entangles
    <2>5. ASSUME NEW k \in OnceKeys, Clear(k)', NEW c \in Calling(k)'
          PROVE  /\ jobs'[k].queue.state # "active"
                 /\ call'[c].op = "cancel" => jobs'[k].row \in {0, call'[c].row}
        BY <2>2, <2>5 DEF Entangles, Keys
    <2> QED
        BY <2>1, <2>4, <2>5 DEF ClearInv
<1>2. CASE ReconcilerStep /\ UNCHANGED entangled
    <2>1. UNCHANGED << call, jobs, entangled >>
        BY <1>2 DEF ReconcilerStep, callVars, PassStep, ReadActive, ListRepeatables, AddMissing,
                    RecordKey, RemoveOrphan, EndPass
    <2> QED
        BY <2>1 DEF ClearInv, Clear, Calling
<1>3. CASE UNCHANGED vars
    BY <1>3 DEF vars, tableVars, callVars, ClearInv, Clear, Calling
<1> QED
    BY <1>1, <1>2, <1>3 DEF Next

-----------------------------------------------------------------------------

(* A recurring key has one live row at most; a call that is about to make one has
   left none, and one that replaces a row holds the only one. *)
SoleFor(k) ==
    /\ \A i, j \in RowsOf(k) : Live(i) /\ Live(j) => i = j
    /\ \A c \in Calling(k) :
        /\ call[c].pc = "create" => \A i \in RowsOf(k) : ~Live(i)
        /\ call[c].op = "schedule" /\ call[c].pc \in {"dequeue", "retire"} =>
               \A i \in RowsOf(k) : Live(i) => i = call[c].row

SoleInv == \A k \in RecurringKeys : Clear(k) => SoleFor(k)

(* What makes no row of the key and puts no call on the way to one keeps that. *)
LEMMA SoleKept ==
    ASSUME NEW k, SoleFor(k), RowsOf(k)' = RowsOf(k),
           \A i \in RowsOf(k) : rows[i].deleted => rows'[i].deleted,
           \A c \in Callers : call'[c].key = k =>
               /\ call'[c].pc = "create" => call[c].key = k /\ call[c].pc = "create"
               /\ call'[c].op = "schedule" /\ call'[c].pc \in {"dequeue", "retire"} =>
                      /\ call[c].key = k /\ call[c].op = "schedule" /\ call[c].pc \in {"dequeue", "retire"}
                      /\ call'[c].row = call[c].row
    PROVE  SoleFor(k)'
<1>1. \A i \in RowsOf(k)' : i \in RowsOf(k) /\ (Live(i)' => Live(i))
    BY DEF Live, RowsOf
<1> QED
    BY <1>1 DEF SoleFor, Calling

(* The rows of a key when no row is made. *)
LEMMA SameRowsOf ==
    ASSUME KeysStay
    PROVE  \A k : RowsOf(k)' = RowsOf(k)
    BY DEF KeysStay, RowsOf

(* A row that is made is one of its key. *)
LEMMA MadeRowOf ==
    ASSUME RowsTyped, NEW kk \in Keys, rows' = Append(rows, NewRow(kk))
    PROVE  /\ \A k : k # kk => RowsOf(k)' = RowsOf(k)
           /\ RowsOf(kk)' = RowsOf(kk) \cup {Len(rows) + 1}
           /\ \A i \in RowsOf(kk) : i < Len(rows) + 1
<1>1. NewRow(kk).key = kk
    BY DEF NewRow
<1>2. \A i \in DOMAIN rows : i < Len(rows) + 1
    BY DEF RowsTyped
<1> QED
    BY <1>1, <1>2, RowMade DEF RowsOf

(* The lookup of scheduleRecurring finds the live row, if there is one. *)
LEMMA SoleSchedule ==
    ASSUME ShapeInv, SoleInv, entangled \subseteq entangled', NEW c \in Callers, Schedule(c)
    PROVE  SoleInv'
<1> SUFFICES ASSUME NEW k \in RecurringKeys, Clear(k)' PROVE SoleFor(k)'
    BY DEF SoleInv
<1>1. SoleFor(k)
    BY DEF SoleInv, Clear
<1>2. PICK i \in FoundByDedup(subject) :
          IF Replaces(i) THEN Begin(c, "dequeue", "schedule", subject, i)
                         ELSE Begin(c, "create", "schedule", subject, 0)
    BY DEF Schedule
<1>3. UNCHANGED rows /\ call \in [Callers -> Call]
    BY DEF Schedule, ShapeInv, Shape, CallsTyped
<1>4. \A d \in Callers : d # c => call'[d] = call[d]
    BY <1>2, <1>3 DEF Begin
<1>5. RowsOf(k)' = RowsOf(k) /\ \A j : Live(j)' = Live(j)
    BY <1>3 DEF RowsOf, Live
<1>6. CASE subject # k
    <2>1. call'[c].key # k
        BY <1>2, <1>3, <1>6 DEF Begin
    <2> QED
        BY <1>1, <1>3, <1>4, <1>5, <2>1, SoleKept
<1>7. CASE subject = k
    <2>1. CASE i = 0
        <3>1. \A j \in RowsOf(k) : ~Live(j)
            <4>1. \A j : Live(j) => j # 0
                BY DEF Live, ShapeInv, Shape, RowsTyped
            <4> QED
                BY <1>2, <1>7, <2>1, <4>1 DEF FoundByDedup, RowsOf
        <3>2. call'[c].pc = "create"
            BY <1>2, <1>3, <2>1 DEF Begin, Replaces
        <3> QED
            BY <1>1, <1>4, <1>5, <3>1, <3>2 DEF SoleFor, Calling
    <2>2. CASE i # 0
        <3>1. i \in RowsOf(k) /\ Live(i) /\ Recurring(i)
            BY <1>2, <1>7, <2>2 DEF FoundByDedup, RowsOf, Live, Recurring
        <3>2. call'[c].pc = "dequeue" /\ call'[c].row = i
            BY <1>2, <1>3, <2>2, <3>1 DEF Begin, Replaces
        <3> QED
            BY <1>1, <1>4, <1>5, <3>1, <3>2 DEF SoleFor, Calling
    <2> QED
        BY <2>1, <2>2
<1> QED
    BY <1>6, <1>7

(* The row that is replaced goes before the new one is made. *)
LEMMA SoleDelete ==
    ASSUME ShapeInv, ClearInv, SoleInv, entangled \subseteq entangled', NEW c \in Callers, SoftDelete(c)
    PROVE  SoleInv'
<1> SUFFICES ASSUME NEW k \in RecurringKeys, Clear(k)' PROVE SoleFor(k)'
    BY DEF SoleInv
<1>1. SoleFor(k) /\ \A a, d \in Calling(k) : a = d
    BY DEF SoleInv, ClearInv, Clear, Keys
<1>2. /\ RowsOf(k)' = RowsOf(k)
      /\ \A j \in DOMAIN rows : rows'[j].deleted = (IF j = call[c].row THEN TRUE ELSE rows[j].deleted)
    BY DeleteUpdate, SameRowsOf DEF SoftDelete, ShapeInv, Shape
<1>3. call \in [Callers -> Call] /\ call[c].pc = "retire" /\ \A d \in Callers : d # c => call'[d] = call[d]
    BY DEF SoftDelete, At, Returns, ShapeInv, Shape, CallsTyped
<1>4. \A i \in RowsOf(k) : rows[i].deleted => rows'[i].deleted
    BY <1>2 DEF RowsOf
<1>5. CASE call[c].op = "schedule"
    <2>1. call'[c].pc = "create" /\ call'[c].key = call[c].key
        BY <1>3, <1>5 DEF SoftDelete, Call
    <2>2. CASE call[c].key = k
        <3>1. \A i \in RowsOf(k) : Live(i) => i = call[c].row
            BY <1>1, <1>3, <1>5, <2>2 DEF SoleFor, Calling
        <3>2. \A i \in RowsOf(k)' : ~Live(i)'
            BY <1>2, <3>1 DEF Live, RowsOf
        <3> QED
            BY <3>2 DEF SoleFor
    <2>3. CASE call[c].key # k
        BY <1>1, <1>2, <1>3, <1>4, <2>1, <2>3, SoleKept
    <2> QED
        BY <2>2, <2>3
<1>6. CASE call[c].op # "schedule"
    <2>1. call'[c] = IdleCall
        BY <1>3, <1>6 DEF SoftDelete, Returns
    <2> QED
        BY <1>1, <1>2, <1>3, <1>4, <2>1, SoleKept DEF IdleCall
<1> QED
    BY <1>5, <1>6

(* The row that is made is the only one. *)
LEMMA SoleCreate ==
    ASSUME ShapeInv, ClearInv, SoleInv, entangled \subseteq entangled', NEW c \in Callers, Create(c)
    PROVE  SoleInv'
<1> SUFFICES ASSUME NEW k \in RecurringKeys, Clear(k)' PROVE SoleFor(k)'
    BY DEF SoleInv
<1>1. SoleFor(k) /\ \A a, d \in Calling(k) : a = d
    BY DEF SoleInv, ClearInv, Clear, Keys
<1>2. call \in [Callers -> Call] /\ call[c].pc = "create" /\ \A d \in Callers : d # c => call'[d] = call[d]
    BY DEF Create, At, ShapeInv, Shape, CallsTyped
<1>3. call[c].key \in Keys /\ RowsTyped
    BY <1>2 DEF ShapeInv, Shape, CallsTyped
<1>4. call'[c].pc = "enqueue" /\ call'[c].key = call[c].key
    BY <1>2 DEF Create, Call
<1>5. \A j \in DOMAIN rows : rows'[j] = rows[j]
    BY <1>3, RowMade DEF Create
<1>6. CASE call[c].key = k
    <2>1. \A i \in RowsOf(k) : ~Live(i)
        BY <1>1, <1>2, <1>6 DEF SoleFor, Calling
    <2>2. RowsOf(k)' = RowsOf(k) \cup {Len(rows) + 1}
        BY <1>3, <1>6, MadeRowOf DEF Create
    <2>3. \A i \in RowsOf(k)' : Live(i)' => i = Len(rows) + 1
        BY <1>5, <2>1, <2>2 DEF RowsOf, Live
    <2>4. \A a, d \in Calling(k)' : a = c
        BY <1>1, <1>2, <1>4, <1>6 DEF Calling
    <2> QED
        BY <1>4, <2>3, <2>4 DEF SoleFor
<1>7. CASE call[c].key # k
    <2>1. RowsOf(k)' = RowsOf(k)
        BY <1>3, <1>7, MadeRowOf DEF Create
    <2>2. \A i \in RowsOf(k) : rows[i].deleted => rows'[i].deleted
        BY <1>5 DEF RowsOf
    <2> QED
        BY <1>1, <1>2, <1>4, <1>7, <2>1, <2>2, SoleKept
<1> QED
    BY <1>6, <1>7

(* Every other step of a call makes no row, and no call that is to make one. *)
LEMMA SoleCall ==
    ASSUME ShapeInv, ClearInv, SoleInv, entangled \subseteq entangled', NEW c \in Callers,
           CallStep(c) \/ CallFails(c)
    PROVE  SoleInv'
<1>a. call \in [Callers -> Call] /\ RowsTyped
    BY DEF ShapeInv, Shape, CallsTyped
<1>1. CASE \E i \in DOMAIN rows : Cancel(c, i) \/ Pause(c, i) \/ Resume(c, i)
    <2>1. PICK i \in DOMAIN rows : \E pc, op : Require(c, i, pc, op) /\ op # "schedule" /\ pc # "create"
        <3>1. PICK i \in DOMAIN rows : Cancel(c, i) \/ Pause(c, i) \/ Resume(c, i)
            BY <1>1
        <3> QED
            BY <3>1 DEF Cancel, Pause, Resume
    <2>2. UNCHANGED rows /\ call'[c].op # "schedule" /\ call'[c].pc # "create"
          /\ \A d \in Callers : d # c => call'[d] = call[d]
        BY <1>a, <2>1 DEF Require, Begin
    <2>3. \A k : RowsOf(k)' = RowsOf(k)
        BY <2>2 DEF RowsOf
    <2>4. \A k \in RecurringKeys : Clear(k)' => Clear(k)
        BY DEF Clear
    <2> QED
        BY <2>2, <2>3, <2>4, SoleKept DEF SoleInv
<1>2. ASSUME KeysStay, \A j \in DOMAIN rows : rows'[j].deleted = rows[j].deleted,
             \A d \in Callers : d # c => call'[d] = call[d],
             \/ call'[c] = IdleCall
             \/ /\ call[c].pc \notin {"idle", "create"} /\ call'[c].pc # "create" /\ call'[c].key = call[c].key
                /\ call'[c].op = call[c].op /\ call'[c].row = call[c].row
                /\ call'[c].pc \in {"dequeue", "retire"} => call[c].pc \in {"dequeue", "retire"}
      PROVE  SoleInv'
    <2>1. \A k : RowsOf(k)' = RowsOf(k)
        BY <1>2, SameRowsOf
    <2>2. \A k \in RecurringKeys : (Clear(k)' => Clear(k)) /\ k # "none"
        BY ScheduleTableAssumption DEF Clear, Keys
    <2>3. \A k \in RecurringKeys : \A i \in RowsOf(k) : rows[i].deleted => rows'[i].deleted
        BY <1>2 DEF RowsOf
    <2> QED
        BY <1>2, <2>1, <2>2, <2>3, SoleKept DEF SoleInv, IdleCall
<1>3. CASE RemoveFromQueue(c)
    <2>1. KeysStay /\ UNCHANGED rows
        BY <1>3 DEF RemoveFromQueue, KeysStay
    <2>2. /\ call[c].pc = "dequeue" /\ call'[c].pc = "retire" /\ call'[c].key = call[c].key
          /\ call'[c].op = call[c].op /\ call'[c].row = call[c].row
          /\ \A d \in Callers : d # c => call'[d] = call[d]
        BY <1>3, <1>a DEF RemoveFromQueue, At, Call
    <2> QED
        BY <1>2, <2>1, <2>2
<1>4. CASE MarkPaused(c)
    <2>1. KeysStay /\ \A j \in DOMAIN rows : rows'[j].deleted = rows[j].deleted
        BY <1>4, <1>a, PauseUpdate DEF MarkPaused
    <2> QED
        BY <1>2, <1>4, <1>a, <2>1 DEF MarkPaused, Returns
<1>5. CASE CreateRefused(c) \/ CallFails(c)
    <2>1. KeysStay /\ UNCHANGED rows
        BY <1>5 DEF CreateRefused, CallFails, KeysStay
    <2> QED
        BY <1>2, <1>5, <1>a, <2>1 DEF CreateRefused, CallFails, Returns
<1>6. CASE RemovePrior(c) \/ AddOnce(c) \/ AddRecurring(c)
    <2>1. KeysStay /\ UNCHANGED rows
        BY <1>6 DEF RemovePrior, AddOnce, AddRecurring, KeysStay
    <2>2. PICK pc : /\ call' = [call EXCEPT ![c].pc = pc] /\ call[c].pc \in {"enqueue", "add"}
                    /\ pc \in {"add", "record"}
        BY <1>6 DEF RemovePrior, AddOnce, AddRecurring, At, Goto
    <2>3. /\ call'[c].pc = pc /\ call'[c].key = call[c].key
          /\ call'[c].op = call[c].op /\ call'[c].row = call[c].row
          /\ \A d \in Callers : d # c => call'[d] = call[d]
        BY <1>a, <2>2 DEF Call
    <2> QED
        BY <1>2, <2>1, <2>2, <2>3
<1>7. CASE Record(c)
    <2>1. KeysStay /\ \A j \in DOMAIN rows : rows'[j].deleted = rows[j].deleted
        BY <1>7, <1>a, RecordUpdate
    <2> QED
        BY <1>2, <1>7, <1>a, <2>1 DEF Record, Returns
<1> QED
    BY <1>1, <1>3, <1>4, <1>5, <1>6, <1>7, SoleSchedule, SoleDelete, SoleCreate DEF CallStep

(* What is true of the rows after a step of the worker, of the queue and of the
   reconciler: statuses and recorded repeats apart, they are as they were. *)
LEMMA OthersKeepRows ==
    ASSUME RowsTyped, \/ \E w \in Workers : WorkStep(w) \/ WorkFails(w)
                      \/ PassStep \/ UNCHANGED rows
    PROVE  KeysStay /\ \A j \in DOMAIN rows : rows'[j].deleted = rows[j].deleted
<1>1. CASE UNCHANGED rows
    BY <1>1 DEF KeysStay
<1>2. CASE \E i, s : s \in Statuses /\ rows' = [rows EXCEPT ![i].status = s]
    BY <1>2, StatusUpdate
<1>3. CASE \E i : rows' = [rows EXCEPT ![i].bull = TRUE]
    BY <1>3, BullUpdate
<1>4. ASSUME NEW w \in Workers, Caught(w)
      PROVE  UNCHANGED rows \/ \E i, s : s \in Statuses /\ rows' = [rows EXCEPT ![i].status = s]
    BY <1>4 DEF Caught, Statuses
<1>5. ASSUME NEW w \in Workers, WorkStep(w) \/ WorkFails(w)
      PROVE  UNCHANGED rows \/ \E i, s : s \in Statuses /\ rows' = [rows EXCEPT ![i].status = s]
    <2>1. CASE Caught(w)
        BY <1>4, <2>1
    <2>2. CASE WriteCompleted(w)
        BY <2>2 DEF WriteCompleted, Statuses
    <2>3. CASE UNCHANGED rows
        BY <2>3
    <2> QED
        BY <1>5, <2>1, <2>2, <2>3 DEF WorkStep, WorkFails, Take, NoHandler, HandlerReturns,
            HandlerThrows, Complete, Reject
<1>6. CASE PassStep
    <2>1. UNCHANGED rows \/ \E i : rows' = [rows EXCEPT ![i].bull = TRUE]
        BY <1>6 DEF PassStep, ReadActive, ListRepeatables, AddMissing, RecordKey, RemoveOrphan, EndPass
    <2> QED
        BY <1>1, <1>3, <2>1
<1> QED
    BY <1>1, <1>2, <1>5, <1>6

(* Every step. *)
LEMMA SoleStep == ShapeInv /\ ClearInv /\ SoleInv /\ [Next]_vars => SoleInv'
<1> SUFFICES ASSUME ShapeInv, ClearInv, SoleInv, [Next]_vars PROVE SoleInv'
    OBVIOUS
<1>1. entangled \subseteq entangled'
    BY ClearStep
<1>2. ASSUME NEW c \in Callers, CallStep(c) \/ CallFails(c)
      PROVE  SoleInv'
    BY <1>1, <1>2, SoleCall
<1>3. ASSUME KeysStay, \A j \in DOMAIN rows : rows'[j].deleted = rows[j].deleted, UNCHANGED call
      PROVE  SoleInv'
    <2>1. \A k : RowsOf(k)' = RowsOf(k)
        BY <1>3, SameRowsOf
    <2>2. \A k \in RecurringKeys : Clear(k)' => Clear(k)
        BY <1>1 DEF Clear
    <2>3. \A k \in RecurringKeys : \A i \in RowsOf(k) : rows[i].deleted => rows'[i].deleted
        BY <1>3 DEF RowsOf
    <2> QED
        BY <1>3, <2>1, <2>2, <2>3, SoleKept DEF SoleInv
<1>4. CASE \E i \in DOMAIN rows : TriggerNow(i)
    BY <1>3, <1>4 DEF TriggerNow, KeysStay
<1>5. CASE WorkerStep
    BY <1>3, <1>5, OthersKeepRows DEF WorkerStep, Register, Stall, callVars, ShapeInv, Shape
<1>6. CASE FireStep
    BY <1>3, <1>6 DEF FireStep, Fire, KeysStay, callVars
<1>7. CASE Fault
    <2>1. ASSUME NEW w \in Workers, WorkFails(w), UNCHANGED callVars
          PROVE  SoleInv'
        BY <1>3, <2>1, OthersKeepRows DEF callVars, ShapeInv, Shape
    <2>2. CASE PassFails /\ UNCHANGED callVars
        BY <1>3, <2>2 DEF PassFails, KeysStay, callVars
    <2> QED
        BY <1>2, <1>7, <2>1, <2>2 DEF Fault
<1>8. CASE Crash
    <2>1. KeysStay /\ UNCHANGED rows /\ \A c \in Callers : call'[c] = IdleCall
        BY <1>8 DEF Crash, tableVars, KeysStay
    <2>2. \A k \in RecurringKeys : (Clear(k)' => Clear(k)) /\ k # "none" /\ RowsOf(k)' = RowsOf(k)
        BY <1>1, <2>1, ScheduleTableAssumption, SameRowsOf DEF Clear, Keys
    <2> QED
        BY <2>1, <2>2, SoleKept DEF SoleInv, IdleCall
<1>9. CASE ReconcilerStep
    BY <1>3, <1>9, OthersKeepRows DEF ReconcilerStep, callVars, ShapeInv, Shape
<1>10. CASE UNCHANGED vars
    BY <1>3, <1>10 DEF vars, tableVars, callVars, KeysStay
<1> QED
    BY <1>2, <1>4, <1>5, <1>6, <1>7, <1>8, <1>9, <1>10 DEF Next, ServiceStep

(* A recurring key has one definition at most. *)
THEOREM OneDefinition == Spec => []SoleDefinition
<1> DEFINE Inv == ShapeInv /\ ClearInv /\ SoleInv
<1>1. Init => Inv
    <2> SUFFICES ASSUME Init PROVE Inv
        OBVIOUS
    <2>1. SoleInv
        <3>1. rows = << >> /\ \A k \in RecurringKeys : Calling(k) = {}
            BY ScheduleTableAssumption DEF Init, TableInit, CallInit, IdleCall, Calling, Keys
        <3> QED
            BY <3>1 DEF SoleInv, SoleFor, RowsOf
    <2> QED
        BY <2>1, ShapeInit, ClearInit
<1>2. Inv /\ [Next]_vars => Inv'
    BY ShapeStep, ClearStep, SoleStep
<1>3. Inv => SoleDefinition
    <2> SUFFICES ASSUME Inv, NEW k \in RecurringKeys \ entangled
                 PROVE  Cardinality({i \in RowsOf(k) : Live(i)}) <= 1
        BY DEF SoleDefinition
    <2> DEFINE live == {i \in RowsOf(k) : Live(i)}
    <2>1. \A i, j \in live : i = j
        BY DEF SoleInv, SoleFor, Clear, Keys
    <2>2. CASE live = {}
        BY <2>2, FS_EmptySet
    <2>3. CASE live # {}
        <3>1. PICK i : live = {i}
            BY <2>1, <2>3
        <3> HIDE DEF live
        <3>2. Cardinality(live) = 1
            BY <3>1, FS_Singleton
        <3> QED
            BY <3>2 DEF live
    <2> QED
        BY <2>2, <2>3
<1> QED
    BY <1>1, <1>2, <1>3, PTL DEF Spec

-----------------------------------------------------------------------------
(* A one-shot key: what its call knows of the row and of the job at each await;
   a deleted row that had recorded its job has none; the latest live one has it,
   unless a call is replacing or cancelling it. *)
OwnFor(k) ==
    /\ \A c \in Calling(k) :
        /\ call[c].pc = "dequeue" => call[c].bull = rows[call[c].row].bull
        /\ call[c].pc = "retire" /\ rows[call[c].row].bull => jobs[k] = NoEntry
        /\ call[c].pc \in {"enqueue", "add", "record"} =>
               Live(call[c].row) /\ Latest(call[c].row) /\ ~rows[call[c].row].bull
        /\ call[c].pc = "add" => jobs[k] = NoEntry
        /\ call[c].pc = "record" => jobs[k].row = call[c].row /\ jobs[k].queue.state # "none"
    /\ \A i \in RowsOf(k) : rows[i].deleted /\ rows[i].bull => jobs[k].row # i
    /\ troubles = 0 => \A i \in RowsOf(k) : Live(i) /\ Latest(i) /\ rows[i].bull =>
           \/ jobs[k].row = i /\ jobs[k].queue.state # "none"
           \/ Removing(k, i)

(* The unique index holds for the keys of a guild. *)
ScopedOnce == \A k \in Scoped : \A i, j \in RowsOf(k) : i = j

OwnInv == ScopedOnce /\ \A k \in OnceKeys : Clear(k) => OwnFor(k)

(* What the invariants say of the calls on a one-shot key. *)
LEMMA OnceCalls ==
    ASSUME ShapeInv, NEW k \in OnceKeys, NEW c \in Calling(k)
    PROVE  /\ call[c].pc # "idle" /\ call[c].op \in {"schedule", "cancel"}
           /\ call[c].pc # "create" => call[c].row \in RowsOf(k)
           /\ call[c].pc \in {"enqueue", "add", "record"} => call[c].op = "schedule"
<1>1. c \in Callers /\ call[c] \in Call /\ call[c].key = k /\ k \notin RecurringKeys /\ k \in Keys /\ k # "none"
    BY ScheduleTableAssumption DEF Calling, ShapeInv, Shape, CallsTyped, Keys
<1>2. call[c].pc # "idle"
    BY <1>1 DEF ShapeInv, Shape, CallsTyped, IdleCall
<1>3. call[c].op \in {"schedule", "cancel"}
    BY <1>1, <1>2 DEF ShapeInv, Shape, CallsTyped, CallsKnow, Call, Ops
<1>4. call[c].pc # "create" => call[c].row \in RowsOf(k)
    BY <1>1, <1>2 DEF ShapeInv, Shape, CallsKnow, RowsOf, Call, CallPcs
<1>5. call[c].pc \in {"enqueue", "add", "record"} => call[c].op = "schedule"
    BY <1>1, <1>3 DEF ShapeInv, Shape, CallsKnow
<1> QED
    BY <1>2, <1>3, <1>4, <1>5

(* Nothing happens to the key. *)
SameRows(k) ==
    /\ RowsOf(k)' = RowsOf(k)
    /\ \A i \in RowsOf(k) : rows'[i].deleted = rows[i].deleted /\ rows'[i].bull = rows[i].bull

SameHold(k) ==
    jobs'[k].row = jobs[k].row /\ (jobs[k].queue.state # "none" => jobs'[k].queue.state # "none")

LEMMA RowsOfKey == \A k : \A i : i \in RowsOf(k) <=> i \in DOMAIN rows /\ rows[i].key = k
    BY DEF RowsOf

(* A step that leaves the rows of the key, its job and its calls. *)
LEMMA OwnKept ==
    ASSUME ShapeInv, NEW k \in OnceKeys, OwnFor(k), SameRows(k), SameHold(k),
           \A c \in Callers : call'[c].key = k => call'[c] = call[c] /\ jobs'[k] = jobs[k],
           troubles' = 0 => troubles = 0 /\ \A c \in Callers : call[c].key = k => call'[c] = call[c]
    PROVE  OwnFor(k)'
<1>1. \A i \in RowsOf(k) : i \in RowsOf(k)' /\ i \in DOMAIN rows /\ i \in DOMAIN rows' /\ rows[i].key = k /\ rows'[i].key = k
    BY RowsOfKey DEF SameRows, RowsOf
<1>2. \A i \in RowsOf(k) : Live(i)' = Live(i) /\ Latest(i)' = Latest(i)
    <2>1. \A i \in RowsOf(k) : Live(i)' = Live(i)
        BY <1>1 DEF SameRows, Live
    <2>2. \A i \in RowsOf(k) : Latest(i)' = Latest(i)
        BY <1>1 DEF SameRows, Latest
    <2> QED
        BY <2>1, <2>2
<1>3. Calling(k)' \subseteq Calling(k) /\ \A c \in Calling(k)' : call'[c] = call[c] /\ jobs'[k] = jobs[k]
    BY DEF Calling
<1>4. ASSUME NEW c \in Calling(k)'
      PROVE  /\ call'[c].pc = "dequeue" => call'[c].bull = rows'[call'[c].row].bull
             /\ call'[c].pc = "retire" /\ rows'[call'[c].row].bull => jobs'[k] = NoEntry
             /\ call'[c].pc \in {"enqueue", "add", "record"} =>
                    \E i : i = call'[c].row /\ Live(i)' /\ Latest(i)' /\ ~rows'[i].bull
             /\ call'[c].pc = "add" => jobs'[k] = NoEntry
             /\ call'[c].pc = "record" => jobs'[k].row = call'[c].row /\ jobs'[k].queue.state # "none"
    <2>1. c \in Calling(k) /\ call'[c] = call[c] /\ jobs'[k] = jobs[k]
        BY <1>3
    <2>2. PICK i : i = call[c].row /\ i = call'[c].row
        BY <2>1
    <2>3. call[c].pc # "create" => i \in RowsOf(k)
        BY <2>1, <2>2, OnceCalls
    <2>4. /\ call[c].pc \in {"enqueue", "add", "record"} => Live(i) /\ Latest(i) /\ ~rows[i].bull
          /\ call[c].pc = "dequeue" => call[c].bull = rows[i].bull
          /\ call[c].pc = "retire" /\ rows[i].bull => jobs[k] = NoEntry
        BY <2>1, <2>2 DEF OwnFor
    <2>5. call'[c].pc \in {"enqueue", "add", "record"} => Live(i)' /\ Latest(i)' /\ ~rows'[i].bull
        BY <1>2, <2>1, <2>3, <2>4 DEF SameRows
    <2>6. call'[c].pc = "dequeue" => call'[c].bull = rows'[i].bull
        BY <2>1, <2>3, <2>4 DEF SameRows
    <2>7. call'[c].pc = "retire" /\ rows'[i].bull => jobs'[k] = NoEntry
        BY <2>1, <2>3, <2>4 DEF SameRows
    <2>8. /\ call'[c].pc = "add" => jobs'[k] = NoEntry
          /\ call'[c].pc = "record" => jobs'[k].row = i /\ jobs'[k].queue.state # "none"
        BY <2>1, <2>2 DEF OwnFor
    <2> QED
        BY <2>2, <2>5, <2>6, <2>7, <2>8
<1>5. \A i \in RowsOf(k)' : rows'[i].deleted /\ rows'[i].bull => jobs'[k].row # i
    BY DEF SameRows, SameHold, OwnFor
<1>6. ASSUME troubles' = 0, NEW i \in RowsOf(k)', Live(i)', Latest(i)', rows'[i].bull
      PROVE  (jobs'[k].row = i /\ jobs'[k].queue.state # "none") \/ Removing(k, i)'
    <2>1. i \in RowsOf(k) /\ Live(i) /\ Latest(i) /\ rows[i].bull
        BY <1>2, <1>6 DEF SameRows
    <2>2. (jobs[k].row = i /\ jobs[k].queue.state # "none") \/ Removing(k, i)
        BY <1>6, <2>1 DEF OwnFor
    <2>3. Removing(k, i) => Removing(k, i)'
        BY <1>6 DEF Removing, Calling
    <2> QED
        BY <2>2, <2>3 DEF SameHold
<1>7. ASSUME NEW c \in Calling(k)', call'[c].pc \in {"enqueue", "add", "record"}
      PROVE  (Live(call[c].row) /\ Latest(call[c].row) /\ ~rows[call[c].row].bull)'
    BY <1>4, <1>7 DEF Live, Latest
<1> QED
    BY <1>4, <1>5, <1>6, <1>7 DEF OwnFor

(* What holds of a key of which nothing is known but that some call that is
   elsewhere, or none, makes the step. *)
LEMMA OwnElsewhere ==
    ASSUME ShapeInv, NEW k \in OnceKeys, OwnFor(k), SameRows(k), jobs'[k] = jobs[k], NEW c \in Callers,
           call[c].key # k, call'[c].key # k, \A d \in Callers : d # c => call'[d] = call[d],
           UNCHANGED troubles
    PROVE  OwnFor(k)'
<1>1. \A d \in Callers : call'[d].key = k => call'[d] = call[d] /\ jobs'[k] = jobs[k]
    OBVIOUS
<1>2. troubles' = 0 => troubles = 0 /\ \A d \in Callers : call[d].key = k => call'[d] = call[d]
    OBVIOUS
<1> QED
    BY <1>1, <1>2, OwnKept DEF SameHold

(* Only the call of the step is on a key that stays clear. *)
LEMMA Alone ==
    ASSUME ClearInv, NEW k \in OnceKeys, Clear(k), NEW c \in Calling(k)
    PROVE  /\ Calling(k) = {c} /\ jobs[k].queue.state # "active"
           /\ call[c].op = "cancel" => jobs[k].row \in {0, call[c].row}
    BY DEF ClearInv, Keys

(* A call begins. *)
LEMMA OwnBegin ==
    ASSUME ShapeInv, ShapeInv', ClearInv', OwnInv, entangled \subseteq entangled', NEW c \in Callers,
           NEW pc, NEW op, NEW kk, NEW i, Begin(c, pc, op, kk, i), UNCHANGED << rows, jobs, troubles >>,
           \/ pc = "dequeue" /\ i # 0
           \/ pc = "create"
           \/ kk \notin OnceKeys
    PROVE  OwnInv'
<1> SUFFICES ASSUME NEW k \in OnceKeys, Clear(k)' PROVE OwnFor(k)'
    BY DEF OwnInv, ScopedOnce, RowsOf
<1>1. OwnFor(k)
    BY DEF OwnInv, Clear
<1>2. /\ call[c] = IdleCall /\ call'[c] = [pc |-> pc, op |-> op, key |-> kk, row |-> i, bull |-> i # 0 /\ rows[i].bull]
      /\ \A d \in Callers : d # c => call'[d] = call[d]
    BY DEF Begin, At, ShapeInv, Shape, CallsTyped
<1>3. SameRows(k) /\ jobs'[k] = jobs[k] /\ \A j : Live(j)' = Live(j)
    BY DEF SameRows, RowsOf, Live
<1>4. CASE kk # k
    <2>1. call[c].key # k /\ call'[c].key # k
        BY <1>2, <1>4, ScheduleTableAssumption DEF IdleCall, Keys
    <2> QED
        BY <1>1, <1>2, <1>3, <2>1, OwnElsewhere
<1>5. CASE kk = k
    <2>1. c \in Calling(k)' /\ ((pc = "dequeue" /\ i # 0) \/ pc = "create")
        BY <1>2, <1>5 DEF Calling
    <2>2. Calling(k)' = {c}
        BY <2>1 DEF ClearInv, Keys
    <2>3. Calling(k) = {}
        <3>1. \A d \in Callers : d # c => call[d].key # k
            BY <1>2, <2>2 DEF Calling
        <3> QED
            BY <1>2, <3>1, ScheduleTableAssumption DEF IdleCall, Keys, Calling
    <2>4. \A j : ~Removing(k, j)
        BY <2>3 DEF Removing
    <2>5. \A j \in RowsOf(k) : Latest(j)' = Latest(j)
        BY DEF Latest, RowsOf
    <2>6. call'[c].pc = pc /\ call'[c].row = i /\ (pc = "dequeue" => call'[c].bull = rows[i].bull)
        <3>1. pc = "dequeue" => i \in DOMAIN rows
            BY <1>2 DEF ShapeInv, Shape, CallsKnow
        <3>2. pc = "dequeue" => rows[i].bull \in BOOLEAN /\ i # 0
            BY <2>1, <3>1, RowsAreRows DEF ShapeInv, Shape, Row
        <3>3. \A b \in BOOLEAN : (i # 0 /\ b) = b \/ i = 0
            OBVIOUS
        <3> QED
            BY <1>2, <3>2, <3>3
    <2> QED
        BY <1>1, <1>3, <2>1, <2>2, <2>4, <2>5, <2>6 DEF OwnFor, SameRows
<1> QED
    BY <1>4, <1>5

(* A call on another key. *)
LEMMA OwnOther ==
    ASSUME ShapeInv, OwnInv, entangled \subseteq entangled', NEW c \in Callers, call[c].pc # "idle",
           call'[c].key \in {call[c].key, "none"}, \A d \in Callers : d # c => call'[d] = call[d],
           \A id \in OnceKeys \ {call[c].key} : jobs'[id] = jobs[id],
           \A k \in OnceKeys \ {call[c].key} : SameRows(k), UNCHANGED troubles
    PROVE  \A k \in OnceKeys \ {call[c].key} : Clear(k)' => OwnFor(k)'
<1> SUFFICES ASSUME NEW k \in OnceKeys \ {call[c].key}, Clear(k)' PROVE OwnFor(k)'
    OBVIOUS
<1>1. k # "none" /\ OwnFor(k)
    BY ScheduleTableAssumption DEF Keys, Clear, OwnInv
<1> QED
    BY <1>1, OwnElsewhere

(* A change of one row is seen on its key only. *)
LEMMA OneKey ==
    ASSUME KeysStay, NEW i, NEW kk, i \in RowsOf(kk),
           \A j \in DOMAIN rows : j # i => rows'[j].deleted = rows[j].deleted /\ rows'[j].bull = rows[j].bull
    PROVE  \A k : k # kk => SameRows(k)
    BY SameRowsOf DEF SameRows, RowsOf

LEMMA UnchangedRows == UNCHANGED rows => KeysStay /\ \A k : SameRows(k)
    BY DEF KeysStay, SameRows, RowsOf

(* What is latest stays so while no row is made. *)
LEMMA LatestStays ==
    ASSUME KeysStay
    PROVE  \A k : \A i \in RowsOf(k) : Latest(i)' = Latest(i)
<1>1. \A k : RowsOf(k)' = RowsOf(k)
    BY SameRowsOf
<1>2. \A i \in DOMAIN rows : rows'[i].key = rows[i].key
    BY DEF KeysStay
<1> QED
    BY <1>1, <1>2 DEF Latest, RowsOf

(* A key has one latest row. *)
LEMMA OneLatest ==
    ASSUME ShapeInv, NEW k, NEW i \in RowsOf(k), NEW j \in RowsOf(k), Latest(i), Latest(j)
    PROVE  i = j
<1>1. i <= j /\ j <= i /\ i \in Nat /\ j \in Nat
    BY RowNumbers DEF Latest, RowsOf, ShapeInv, Shape
<1> QED
    BY <1>1

(* removeFromQueue: the job was there only if it was recorded, and goes. *)
LEMMA OwnRemove ==
    ASSUME ShapeInv, ClearInv, OwnInv, entangled \subseteq entangled', NEW c \in Callers, RemoveFromQueue(c),
           UNCHANGED troubles
    PROVE  OwnInv'
<1> SUFFICES ASSUME NEW k, NEW i, k = call[c].key, i = call[c].row PROVE OwnInv'
    OBVIOUS
<1>1. /\ call[c] \in Call /\ call[c].pc = "dequeue" /\ call'[c].pc = "retire" /\ call'[c].key = call[c].key
      /\ call'[c].op = call[c].op /\ call'[c].row = call[c].row
      /\ \A d \in Callers : d # c => call'[d] = call[d]
    BY DEF RemoveFromQueue, At, Call, ShapeInv, Shape, CallsTyped
<1>2. UNCHANGED rows /\ KeysStay /\ \A kk : SameRows(kk)
    BY UnchangedRows DEF RemoveFromQueue
<1>3. \A id \in OnceKeys : id # k => jobs'[id] = jobs[id]
    BY DEF RemoveFromQueue, ShapeInv, Shape, QueueTyped
<1>4. ScopedOnce'
    BY <1>2 DEF ScopedOnce, OwnInv, RowsOf
<1>5. \A kk \in OnceKeys \ {k} : Clear(kk)' => OwnFor(kk)'
    BY <1>1, <1>2, <1>3, OwnOther
<1>6. ASSUME k \in OnceKeys, Clear(k)'
      PROVE  OwnFor(k)'
    <2>1. OwnFor(k) /\ Clear(k) /\ c \in Calling(k)
        BY <1>6 DEF OwnInv, Clear, Calling
    <2>2. /\ Calling(k) = {c} /\ jobs[k].queue.state # "active"
          /\ call[c].op = "cancel" => jobs[k].row \in {0, i}
        BY <1>6, <2>1, Alone
    <2>3. Calling(k)' = {c}
        BY <1>1, <2>2 DEF Calling
    <2>4. i \in RowsOf(k) /\ call[c].op \in {"schedule", "cancel"}
        BY <1>1, <1>6, <2>1, OnceCalls
    <2>5. call[c].bull = rows[i].bull
        BY <1>1, <2>1 DEF OwnFor
    <2>6. jobs'[k] = IF rows[i].bull THEN NoEntry ELSE jobs[k]
        BY <1>6, <2>2, <2>5, EntriesAreEntries DEF RemoveFromQueue, Once, ShapeInv, Shape, QueueTyped
    <2>7. \A j \in RowsOf(k) : Latest(j)' = Latest(j) /\ Live(j)' = Live(j) /\ rows'[j] = rows[j] /\ j # 0
        BY <1>2, LatestStays, RowNumbers DEF Live, RowsOf, ShapeInv, Shape
    <2>8. \A j \in RowsOf(k) : rows[j].deleted /\ rows[j].bull => jobs'[k].row # j
        BY <2>1, <2>6, <2>7, EntriesAreEntries DEF OwnFor
    <2>9. ASSUME troubles = 0, NEW j \in RowsOf(k), Live(j), Latest(j), rows[j].bull
          PROVE  (jobs'[k].row = j /\ jobs'[k].queue.state # "none") \/ Removing(k, j)'
        <3>1. ~Removing(k, j)
            BY <1>1, <2>2 DEF Removing
        <3>2. jobs[k].row = j /\ jobs[k].queue.state # "none"
            BY <2>1, <2>9, <3>1 DEF OwnFor
        <3>3. CASE call[c].op = "schedule"
            BY <1>1, <2>3, <3>3 DEF Removing
        <3>4. CASE call[c].op = "cancel"
            BY <1>1, <2>2, <2>3, <2>7, <3>2, <3>4 DEF Removing
        <3> QED
            BY <2>4, <3>3, <3>4
    <2>10. rows'[i].bull => jobs'[k] = NoEntry
        BY <1>2, <2>6
    <2>11. RowsOf(k)' = RowsOf(k) /\ UNCHANGED troubles
        BY <1>2 DEF SameRows
    <2> QED
        BY <1>1, <2>3, <2>7, <2>8, <2>9, <2>10, <2>11 DEF OwnFor
<1> QED
    BY <1>4, <1>5, <1>6 DEF OwnInv

(* The soft delete finds the job gone. *)
LEMMA OwnDelete ==
    ASSUME ShapeInv, ClearInv, OwnInv, entangled \subseteq entangled', NEW c \in Callers, SoftDelete(c),
           UNCHANGED troubles
    PROVE  OwnInv'
<1> SUFFICES ASSUME NEW k, NEW i, k = call[c].key, i = call[c].row PROVE OwnInv'
    OBVIOUS
<1>1. /\ call[c] \in Call /\ call[c].pc = "retire" /\ UNCHANGED jobs
      /\ \A d \in Callers : d # c => call'[d] = call[d]
      /\ call[c].op = "schedule" => call'[c].pc = "create" /\ call'[c].key = k
      /\ call[c].op # "schedule" => call'[c] = IdleCall
    BY DEF SoftDelete, At, Returns, Call, ShapeInv, Shape, CallsTyped
<1>2. /\ KeysStay
      /\ \A j \in DOMAIN rows : /\ rows'[j].deleted = (IF j = i THEN TRUE ELSE rows[j].deleted)
                                /\ rows'[j].bull = rows[j].bull
    BY DeleteUpdate DEF SoftDelete, ShapeInv, Shape
<1>3. i \in RowsOf(k) /\ k \in Keys /\ k # "none"
    BY <1>1, ScheduleTableAssumption DEF ShapeInv, Shape, CallsTyped, CallsKnow, RowsOf
<1>4. ScopedOnce'
    BY <1>2, SameRowsOf DEF ScopedOnce, OwnInv
<1>5. \A kk \in OnceKeys \ {k} : Clear(kk)' => OwnFor(kk)'
    <2>1. \A kk : kk # k => SameRows(kk)
        <3>1. \A j \in DOMAIN rows : j # i => rows'[j].deleted = rows[j].deleted /\ rows'[j].bull = rows[j].bull
            BY <1>2
        <3> QED
            BY <1>2, <1>3, <3>1, OneKey
    <2>2. call'[c].key \in {k, "none"}
        BY <1>1 DEF IdleCall
    <2> QED
        BY <1>1, <2>1, <2>2, OwnOther
<1>6. ASSUME k \in OnceKeys, Clear(k)'
      PROVE  OwnFor(k)'
    <2>1. OwnFor(k) /\ Clear(k) /\ c \in Calling(k)
        BY <1>6 DEF OwnInv, Clear, Calling
    <2>2. Calling(k) = {c}
        BY <1>6, <2>1, Alone
    <2>3. /\ call[c].op = "schedule" => Calling(k)' = {c}
          /\ call[c].op # "schedule" => Calling(k)' = {}
        BY <1>1, <1>3, <2>2 DEF Calling, IdleCall
    <2>4. \A d \in Calling(k)' : call'[d].pc = "create"
        BY <1>1, <2>3
    <2>5. rows[i].bull => jobs[k] = NoEntry
        BY <1>1, <2>1 DEF OwnFor
    <2>6. \A j \in RowsOf(k) : /\ j \in DOMAIN rows /\ j \in DOMAIN rows' /\ Latest(j)' = Latest(j) /\ j # 0
                               /\ rows'[j].bull = rows[j].bull
                               /\ Live(j)' => Live(j) /\ j # i
                               /\ j # i => rows'[j].deleted = rows[j].deleted
        <3> SUFFICES ASSUME NEW j \in RowsOf(k)
                     PROVE  /\ j \in DOMAIN rows /\ j \in DOMAIN rows' /\ Latest(j)' = Latest(j) /\ j # 0
                            /\ rows'[j].bull = rows[j].bull
                            /\ Live(j)' => Live(j) /\ j # i
                            /\ j # i => rows'[j].deleted = rows[j].deleted
            OBVIOUS
        <3>1. j \in DOMAIN rows /\ j \in DOMAIN rows' /\ j # 0
            BY <1>2, RowNumbers DEF RowsOf, ShapeInv, Shape, KeysStay
        <3>2. Latest(j)' = Latest(j)
            BY <1>2, LatestStays
        <3>3. /\ rows'[j].deleted = (IF j = i THEN TRUE ELSE rows[j].deleted)
              /\ rows'[j].bull = rows[j].bull
            BY <1>2, <3>1
        <3> QED
            BY <3>1, <3>2, <3>3 DEF Live
    <2>7. ASSUME NEW j \in RowsOf(k), rows'[j].deleted, rows'[j].bull
          PROVE  jobs'[k].row # j
        <3>1. CASE j = i
            BY <1>1, <2>5, <2>6, <2>7, <3>1, EntriesAreEntries
        <3>2. CASE j # i
            BY <1>1, <2>1, <2>6, <2>7, <3>2 DEF OwnFor
        <3> QED
            BY <3>1, <3>2
    <2>8. ASSUME troubles = 0, NEW j \in RowsOf(k), Live(j)', Latest(j)', rows'[j].bull
          PROVE  (jobs'[k].row = j /\ jobs'[k].queue.state # "none") \/ Removing(k, j)'
        <3>1. (jobs[k].row = j /\ jobs[k].queue.state # "none") \/ Removing(k, j)
            BY <2>1, <2>6, <2>8 DEF OwnFor
        <3>2. CASE call[c].op = "schedule"
            <4>1. k \notin Scoped
                BY <1>3, <2>6, <2>8 DEF OwnInv, ScopedOnce
            <4> QED
                BY <1>1, <2>3, <3>2, <4>1 DEF Removing
        <3>3. CASE call[c].op # "schedule"
            <4>1. ~Removing(k, j)
                BY <1>1, <2>2, <2>6, <2>8, <3>3 DEF Removing
            <4> QED
                BY <1>1, <3>1, <4>1
        <3> QED
            BY <3>2, <3>3
    <2>9. RowsOf(k)' = RowsOf(k)
        BY <1>2, SameRowsOf
    <2> QED
        BY <2>4, <2>7, <2>8, <2>9 DEF OwnFor
<1> QED
    BY <1>4, <1>5, <1>6 DEF OwnInv

(* The row that is created is the latest, and has no job yet. *)
LEMMA OwnCreate ==
    ASSUME ShapeInv, ClearInv, OwnInv, entangled \subseteq entangled', NEW c \in Callers, Create(c),
           UNCHANGED troubles
    PROVE  OwnInv'
<1> SUFFICES ASSUME NEW k, NEW n, k = call[c].key, n = Len(rows) + 1 PROVE OwnInv'
    OBVIOUS
<1>1. /\ call[c] \in Call /\ call[c].pc = "create" /\ call'[c].pc = "enqueue" /\ call'[c].key = call[c].key
      /\ \A d \in Callers : d # c => call'[d] = call[d]
    BY DEF Create, At, Call, ShapeInv, Shape, CallsTyped
<1>2. k \in Keys /\ RowsTyped /\ UNCHANGED jobs
    BY <1>1 DEF ShapeInv, Shape, CallsTyped, Create
<1>3. call'[c].row = n
    <2> DEFINE u == [call[c] EXCEPT !.pc = "enqueue"]
    <2>1. u \in Call
        BY <1>1 DEF Call, CallPcs
    <2>2. call'[c] = [u EXCEPT !.row = n]
        BY DEF Create, ShapeInv, Shape, CallsTyped
    <2> HIDE DEF u
    <2> QED
        BY <2>1, <2>2 DEF Call
<1>4. /\ RowsOf(k)' = RowsOf(k) \cup {n} /\ \A i \in RowsOf(k) : i < n
      /\ \A kk : kk # k => RowsOf(kk)' = RowsOf(kk)
    BY <1>2, MadeRowOf DEF Create
<1>5. /\ \A j \in DOMAIN rows : rows'[j] = rows[j]
      /\ rows'[n] = NewRow(k) /\ n \in DOMAIN rows' /\ n \in Nat /\ DOMAIN rows \subseteq Nat
      /\ DOMAIN rows \subseteq DOMAIN rows'
    BY <1>2, RowMade DEF Create, RowsTyped
<1>6. ScopedOnce'
    <2>1. k \in Scoped => RowsOf(k) = {}
        BY DEF Create, UniqueAllows, RowsOf
    <2> QED
        BY <1>4, <2>1 DEF ScopedOnce, OwnInv
<1>7. \A kk \in OnceKeys \ {k} : Clear(kk)' => OwnFor(kk)'
    <2>1. \A kk : kk # k => SameRows(kk)
        BY <1>4, <1>5 DEF SameRows, RowsOf
    <2> QED
        BY <1>1, <1>2, <2>1, OwnOther
<1>8. ASSUME k \in OnceKeys, Clear(k)'
      PROVE  OwnFor(k)'
    <2>1. OwnFor(k) /\ Clear(k) /\ c \in Calling(k)
        BY <1>8 DEF OwnInv, Clear, Calling
    <2>2. Calling(k) = {c}
        BY <1>8, <2>1, Alone
    <2>3. Calling(k)' = {c}
        BY <1>1, <2>1, <2>2 DEF Calling
    <2>4. rows'[n].key = k /\ rows'[n].bull = FALSE /\ rows'[n].deleted = FALSE
        BY <1>5 DEF NewRow
    <2>5. Live(n)' /\ ~rows'[n].bull
        BY <1>5, <2>4 DEF Live
    <2>6. Latest(n)'
        <3>1. \A j \in RowsOf(k) : j <= n
            BY <1>4, <1>5 DEF RowsOf
        <3> QED
            BY <1>4, <1>5, <2>4, <3>1 DEF Latest
    <2>7. \A j \in RowsOf(k)' : rows'[j].bull => j \in RowsOf(k) /\ rows'[j] = rows[j] /\ rows'[j].key = k
        BY <1>4, <1>5, <2>4 DEF RowsOf
    <2>8. \A j \in RowsOf(k)' : rows'[j].deleted /\ rows'[j].bull => jobs'[k].row # j
        BY <1>2, <2>1, <2>7 DEF OwnFor
    <2>9. \A j \in RowsOf(k)' : rows'[j].bull => ~Latest(j)'
        <3> SUFFICES ASSUME NEW j \in RowsOf(k)', rows'[j].bull, Latest(j)' PROVE FALSE
            OBVIOUS
        <3>1. j < n /\ rows'[j].key = k /\ j \in Nat
            BY <1>4, <1>5, <2>7 DEF RowsOf
        <3>2. n <= j
            BY <1>4, <3>1 DEF Latest
        <3> QED
            BY <1>5, <3>1, <3>2
    <2> QED
        BY <1>1, <1>3, <2>3, <2>5, <2>6, <2>8, <2>9 DEF OwnFor
<1> QED
    BY <1>6, <1>7, <1>8 DEF OwnInv

(* Only a key of a guild is refused. *)
LEMMA OwnRefused ==
    ASSUME ShapeInv, ClearInv, OwnInv, entangled \subseteq entangled', NEW c \in Callers, CreateRefused(c),
           UNCHANGED troubles
    PROVE  OwnInv'
<1> SUFFICES ASSUME NEW k, k = call[c].key PROVE OwnInv'
    OBVIOUS
<1>1. /\ call[c] \in Call /\ call[c].pc = "create" /\ call'[c] = IdleCall /\ k \in Scoped
      /\ \A d \in Callers : d # c => call'[d] = call[d]
    BY DEF CreateRefused, At, Returns, UniqueAllows, ShapeInv, Shape, CallsTyped
<1>2. UNCHANGED << rows, jobs >> /\ KeysStay /\ \A kk : SameRows(kk)
    BY UnchangedRows DEF CreateRefused
<1>3. ScopedOnce'
    BY <1>2 DEF ScopedOnce, OwnInv, RowsOf
<1>4. \A kk \in OnceKeys \ {k} : Clear(kk)' => OwnFor(kk)'
    <2>1. call'[c].key \in {k, "none"}
        BY <1>1 DEF IdleCall
    <2> QED
        BY <1>1, <1>2, <2>1, OwnOther
<1>5. ASSUME k \in OnceKeys, Clear(k)'
      PROVE  OwnFor(k)'
    <2>1. OwnFor(k) /\ Clear(k) /\ c \in Calling(k) /\ k # "none"
        BY <1>5, ScheduleTableAssumption DEF OwnInv, Clear, Calling, Keys
    <2>2. Calling(k) = {c}
        BY <1>5, <2>1, Alone
    <2>3. Calling(k)' = {}
        BY <1>1, <2>1, <2>2 DEF Calling, IdleCall
    <2>4. \A j : ~Removing(k, j)
        BY <1>1, <2>2 DEF Removing
    <2>5. \A j \in RowsOf(k) : Latest(j)' = Latest(j) /\ Live(j)' = Live(j)
        BY <1>2, LatestStays DEF Live
    <2> QED
        BY <1>2, <2>1, <2>3, <2>4, <2>5 DEF OwnFor, SameRows
<1> QED
    BY <1>3, <1>4, <1>5 DEF OwnInv

(* addOnce: the prior job goes, so that the new one is added. *)
LEMMA OwnAdds ==
    ASSUME ShapeInv, ClearInv, OwnInv, entangled \subseteq entangled', NEW c \in Callers,
           RemovePrior(c) \/ AddOnce(c) \/ AddRecurring(c), UNCHANGED troubles
    PROVE  OwnInv'
<1> SUFFICES ASSUME NEW k, NEW i, k = call[c].key, i = call[c].row PROVE OwnInv'
    OBVIOUS
<1>1. /\ call[c] \in Call /\ call[c].pc \in {"enqueue", "add"} /\ call'[c].key = call[c].key
      /\ call'[c].row = call[c].row /\ call'[c].op = call[c].op
      /\ \A d \in Callers : d # c => call'[d] = call[d]
      /\ RemovePrior(c) => call'[c].pc = "add"
      /\ AddOnce(c) => call'[c].pc = "record"
    BY DEF RemovePrior, AddOnce, AddRecurring, Goto, At, Call, ShapeInv, Shape, CallsTyped
<1>2. UNCHANGED rows /\ KeysStay /\ \A kk : SameRows(kk)
    BY UnchangedRows DEF RemovePrior, AddOnce, AddRecurring
<1>3. \A id \in OnceKeys : id # k => jobs'[id] = jobs[id]
    BY DEF RemovePrior, AddOnce, AddRecurring, ShapeInv, Shape, QueueTyped
<1>4. ScopedOnce'
    BY <1>2 DEF ScopedOnce, OwnInv, RowsOf
<1>5. \A kk \in OnceKeys \ {k} : Clear(kk)' => OwnFor(kk)'
    BY <1>1, <1>2, <1>3, OwnOther
<1>6. ASSUME k \in OnceKeys, Clear(k)'
      PROVE  OwnFor(k)'
    <2>1. OwnFor(k) /\ Clear(k) /\ c \in Calling(k)
        BY <1>6 DEF OwnInv, Clear, Calling
    <2>2. Calling(k) = {c} /\ jobs[k].queue.state # "active"
        BY <1>6, <2>1, Alone
    <2>3. Calling(k)' = {c}
        BY <1>1, <2>2 DEF Calling
    <2>4. i \in RowsOf(k) /\ i \in 0 .. MaxRows /\ i # 0
        BY <1>1, <1>6, <2>1, OnceCalls, RowNumbers DEF Call, ShapeInv, Shape, RowsOf
    <2>5. Live(i) /\ Latest(i) /\ ~rows[i].bull
        BY <1>1, <2>1 DEF OwnFor
    <2>6. \A j \in RowsOf(k) : Latest(j)' = Latest(j) /\ Live(j)' = Live(j) /\ rows'[j] = rows[j] /\ j # 0
        BY <1>2, LatestStays, RowNumbers DEF Live, RowsOf, ShapeInv, Shape
    <2>7. \A j \in RowsOf(k) : Latest(j) /\ rows[j].bull => FALSE
        BY <2>4, <2>5, OneLatest
    <2>8. jobs[k] \in Entry /\ k \in DOMAIN jobs
        BY <1>6 DEF ShapeInv, Shape, QueueTyped
    <2>9. RowsOf(k)' = RowsOf(k)
        BY <1>2 DEF SameRows
    <2>10. CASE RemovePrior(c)
        <3>1. jobs'[k] = NoEntry
            BY <2>2, <2>8, <2>10, EntriesAreEntries DEF RemovePrior
        <3>2. jobs'[k].row = 0
            BY <3>1, EntriesAreEntries
        <3>3. \A d \in Calling(k)' : call'[d].pc = "add" /\ call'[d].row = i
            BY <1>1, <2>3, <2>10
        <3>4. \A j \in RowsOf(k)' : jobs'[k].row # j /\ (Latest(j)' /\ rows'[j].bull => FALSE)
            BY <2>6, <2>7, <2>9, <3>2
        <3>5. Live(i)' /\ Latest(i)' /\ ~rows'[i].bull
            BY <2>4, <2>5, <2>6
        <3> QED
            BY <3>1, <3>3, <3>4, <3>5 DEF OwnFor
    <2>11. CASE AddOnce(c)
        <3>1. jobs[k] = NoEntry
            BY <2>1, <2>11 DEF AddOnce, At, OwnFor
        <3>2. jobs'[k].row = i /\ jobs'[k].queue.state # "none"
            <4>1. jobs'[k] = WithJob(NoEntry, i)
                BY <2>8, <2>11, <3>1 DEF AddOnce
            <4> QED
                BY <2>4, <4>1, EntriesAreEntries
        <3>3. ~rows[i].deleted
            BY <2>5 DEF Live
        <3> QED
            BY <1>1, <2>3, <2>4, <2>5, <2>6, <2>7, <2>9, <2>11, <3>2, <3>3 DEF OwnFor
    <2>12. CASE AddRecurring(c)
        BY <1>6, <2>12 DEF AddRecurring, Once
    <2> QED
        BY <2>10, <2>11, <2>12
<1> QED
    BY <1>4, <1>5, <1>6 DEF OwnInv

(* What is recorded is in the queue. *)
LEMMA OwnRecord ==
    ASSUME ShapeInv, ClearInv, OwnInv, entangled \subseteq entangled', NEW c \in Callers, Record(c),
           UNCHANGED troubles
    PROVE  OwnInv'
<1> SUFFICES ASSUME NEW k, NEW i, k = call[c].key, i = call[c].row PROVE OwnInv'
    OBVIOUS
<1>1. /\ call[c] \in Call /\ call[c].pc = "record" /\ call'[c] = IdleCall /\ UNCHANGED jobs
      /\ \A d \in Callers : d # c => call'[d] = call[d]
    BY DEF Record, At, Returns, ShapeInv, Shape, CallsTyped
<1>2. /\ KeysStay
      /\ \A j \in DOMAIN rows : /\ rows'[j].deleted = rows[j].deleted
                                /\ rows'[j].bull = (IF j = i THEN TRUE ELSE rows[j].bull)
    BY RecordUpdate DEF ShapeInv, Shape
<1>3. i \in RowsOf(k) /\ k \in Keys /\ k # "none"
    BY <1>1, ScheduleTableAssumption DEF ShapeInv, Shape, CallsTyped, CallsKnow, RowsOf
<1>4. ScopedOnce'
    BY <1>2, SameRowsOf DEF ScopedOnce, OwnInv
<1>5. \A kk \in OnceKeys \ {k} : Clear(kk)' => OwnFor(kk)'
    <2>1. \A kk : kk # k => SameRows(kk)
        <3>1. \A j \in DOMAIN rows : j # i => rows'[j].deleted = rows[j].deleted /\ rows'[j].bull = rows[j].bull
            BY <1>2
        <3> QED
            BY <1>2, <1>3, <3>1, OneKey
    <2>2. call'[c].key \in {k, "none"}
        BY <1>1 DEF IdleCall
    <2> QED
        BY <1>1, <2>1, <2>2, OwnOther
<1>6. ASSUME k \in OnceKeys, Clear(k)'
      PROVE  OwnFor(k)'
    <2>1. OwnFor(k) /\ Clear(k) /\ c \in Calling(k)
        BY <1>6 DEF OwnInv, Clear, Calling
    <2>2. Calling(k) = {c}
        BY <1>6, <2>1, Alone
    <2>3. Calling(k)' = {}
        BY <1>1, <1>3, <2>2 DEF Calling, IdleCall
    <2>4. Live(i) /\ Latest(i) /\ jobs[k].row = i /\ jobs[k].queue.state # "none"
        BY <1>1, <2>1 DEF OwnFor
    <2>5. \A j \in RowsOf(k) : /\ Latest(j)' = Latest(j) /\ rows'[j].deleted = rows[j].deleted
                               /\ j # i => rows'[j].bull = rows[j].bull
        BY <1>2, LatestStays DEF RowsOf
    <2>6. \A j \in RowsOf(k) : rows'[j].deleted /\ rows'[j].bull => jobs[k].row # j
        BY <2>1, <2>4, <2>5 DEF OwnFor, Live
    <2>7. \A j \in RowsOf(k) : Latest(j)' => j = i
        BY <1>3, <2>4, <2>5, OneLatest
    <2>8. RowsOf(k)' = RowsOf(k)
        BY <1>2, SameRowsOf
    <2> QED
        BY <1>1, <2>3, <2>4, <2>6, <2>7, <2>8 DEF OwnFor
<1> QED
    BY <1>4, <1>5, <1>6 DEF OwnInv

(* The worker writes statuses only. *)
LEMMA WorkerRows ==
    ASSUME RowsTyped, NEW w \in Workers, WorkStep(w) \/ WorkFails(w)
    PROVE  \A k : SameRows(k)
<1>1. UNCHANGED rows \/ \E i, s : s \in Statuses /\ rows' = [rows EXCEPT ![i].status = s]
    <2>1. CASE Caught(w)
        BY <2>1 DEF Caught, Statuses
    <2>2. CASE WriteCompleted(w)
        BY <2>2 DEF WriteCompleted, Statuses
    <2>3. CASE UNCHANGED rows
        BY <2>3
    <2> QED
        BY <2>1, <2>2, <2>3 DEF WorkStep, WorkFails, Take, NoHandler, HandlerReturns,
            HandlerThrows, Complete, Reject
<1>2. CASE \E i, s : s \in Statuses /\ rows' = [rows EXCEPT ![i].status = s]
    BY <1>2, StatusUpdate, SameRowsOf DEF SameRows, RowsOf
<1> QED
    BY <1>1, <1>2, UnchangedRows

(* The worker changes the job of a key from or to running, and adds or removes none. *)
Attempted(k) ==
    /\ SameHold(k)
    /\ jobs[k].queue.state # "active" /\ jobs'[k].queue.state # "active" => jobs'[k] = jobs[k]

(* What the queue does to an attempt that ended leaves the job its schedule. *)
LEMMA EndAttempts ==
    ASSUME ShapeInv, NEW id \in DOMAIN jobs, NEW queue \in Job, jobs[id].queue.state = "active",
           queue.state # "none", jobs' = [jobs EXCEPT ![id] = After(id, queue)]
    PROVE  \A k \in OnceKeys : Attempted(k)
<1> SUFFICES ASSUME NEW k \in OnceKeys PROVE Attempted(k)
    OBVIOUS
<1>1. CASE id = k
    <2>1. jobs'[k].row = jobs[k].row /\ jobs'[k].queue = queue
        BY <1>1, AfterIsEntry DEF ShapeInv, Shape
    <2> QED
        BY <1>1, <2>1 DEF Attempted, SameHold
<1>2. CASE id # k
    <2>1. jobs'[k] = jobs[k]
        BY <1>2 DEF ShapeInv, Shape, QueueTyped
    <2> QED
        BY <2>1 DEF Attempted, SameHold
<1> QED
    BY <1>1, <1>2

LEMMA WorkerAttempts ==
    ASSUME ShapeInv, \/ \E w \in Workers : WorkStep(w) \/ WorkFails(w)
                     \/ \E id \in DOMAIN jobs : Stall(id)
                     \/ UNCHANGED jobs
    PROVE  \A k \in OnceKeys : Attempted(k)
<1>1. CASE UNCHANGED jobs
    BY <1>1 DEF Attempted, SameHold
<1>2. ASSUME NEW w \in Workers, NEW id \in DOMAIN jobs, Take(w, id)
      PROVE  \A k \in OnceKeys : Attempted(k)
    <2> SUFFICES ASSUME NEW k \in OnceKeys PROVE Attempted(k)
        OBVIOUS
    <2>1. jobs[id] \in Entry /\ k \in DOMAIN jobs
        BY DEF ShapeInv, Shape, QueueTyped
    <2>2. jobs' = [jobs EXCEPT ![id] = [jobs[id] EXCEPT !.queue = [jobs[id].queue EXCEPT !.state = "active"]]]
        BY <1>2 DEF Take
    <2>3. PICK e : e = [jobs[id] EXCEPT !.queue = [jobs[id].queue EXCEPT !.state = "active"]]
        OBVIOUS
    <2>4. e.row = jobs[id].row /\ e.queue.state = "active"
        BY <2>1, <2>3 DEF Entry, Job
    <2>5. jobs'[k] = IF id = k THEN e ELSE jobs[k]
        BY <2>1, <2>2, <2>3
    <2> QED
        BY <2>4, <2>5 DEF Attempted, SameHold
<1>3. ASSUME NEW w \in Workers, Complete(w) \/ Reject(w)
      PROVE  \A k \in OnceKeys : Attempted(k)
    <2>1. /\ work[w].id \in DOMAIN jobs /\ jobs[work[w].id].queue.state = "active"
          /\ JobOf(w) \in Job
        BY <1>3 DEF Complete, Reject, Busy, JobOf, ShapeInv, Shape, WorkTyped, QueueTyped, Entry
    <2>2. /\ Completed(JobOf(w)) \in Job /\ Completed(JobOf(w)).state # "none"
          /\ Rejected(JobOf(w)) \in Job /\ Rejected(JobOf(w)).state # "none"
        BY <2>1, JobsAreJobs
    <2>3. CASE Complete(w)
        BY <2>1, <2>2, <2>3, EndAttempts DEF Complete
    <2>4. CASE Reject(w)
        BY <2>1, <2>2, <2>4, EndAttempts DEF Reject
    <2> QED
        BY <1>3, <2>3, <2>4
<1>4. ASSUME NEW id \in DOMAIN jobs, Stall(id)
      PROVE  \A k \in OnceKeys : Attempted(k)
    <2>1. jobs[id].queue \in Job /\ jobs[id].queue.state = "active"
        BY <1>4 DEF Stall, ShapeInv, Shape, QueueTyped, Entry
    <2>2. Stalled(jobs[id].queue) \in Job /\ Stalled(jobs[id].queue).state # "none"
        BY <2>1, JobsAreJobs
    <2> QED
        BY <1>4, <2>1, <2>2, EndAttempts DEF Stall
<1> QED
    BY <1>1, <1>2, <1>3, <1>4 DEF WorkStep, WorkFails, NoHandler, HandlerReturns, HandlerThrows,
       WriteCompleted, Caught

(* A step of no call. *)
LEMMA OwnOthers ==
    ASSUME ShapeInv, ClearInv, ClearInv', OwnInv, entangled \subseteq entangled',
           \A k \in OnceKeys \cup Scoped : SameRows(k), \A k \in OnceKeys : Attempted(k), UNCHANGED call,
           troubles' = 0 => troubles = 0
    PROVE  OwnInv'
<1>1. ScopedOnce'
    BY DEF OwnInv, ScopedOnce, SameRows
<1>2. ASSUME NEW k \in OnceKeys, Clear(k)'
      PROVE  OwnFor(k)'
    <2>1. Clear(k) /\ OwnFor(k)
        BY <1>2 DEF Clear, OwnInv
    <2>2. ASSUME NEW c \in Callers, call'[c].key = k
          PROVE  call'[c] = call[c] /\ jobs'[k] = jobs[k]
        <3>1. c \in Calling(k) /\ c \in Calling(k)' /\ k \in Keys
            BY <2>2 DEF Calling, Keys
        <3>2. jobs[k].queue.state # "active" /\ jobs'[k].queue.state # "active"
            BY <1>2, <2>1, <3>1 DEF ClearInv
        <3> QED
            BY <3>2 DEF Attempted
    <2> QED
        BY <2>1, <2>2, OwnKept DEF Attempted
<1> QED
    BY <1>1, <1>2 DEF OwnInv

(* A repeat that is recorded is one of a recurring schedule. *)
LEMMA PassRows ==
    ASSUME ShapeInv, PassStep
    PROVE  /\ UNCHANGED jobs
           /\ \A k : RowsOf(k)' = RowsOf(k)
           /\ \A k \in OnceKeys : SameRows(k)
<1>1. CASE UNCHANGED rows
    BY <1>1, UnchangedRows, SameRowsOf DEF PassStep, ReadActive, ListRepeatables, AddMissing, RecordKey,
       RemoveOrphan, EndPass
<1>2. CASE RecordKey
    <2>1. /\ KeysStay
          /\ \A j \in DOMAIN rows : /\ rows'[j].deleted = rows[j].deleted
                                    /\ j # pass.row => rows'[j].bull = rows[j].bull
        BY <1>2, BullUpdate DEF RecordKey, ShapeInv, Shape
    <2>2. pass.row \in RecurringRows
        BY <1>2 DEF RecordKey, ShapeInv, Shape, PassTyped
    <2>3. \A k \in OnceKeys : pass.row \notin RowsOf(k)
        BY <2>2, ScheduleTableAssumption DEF RecurringRows, Recurring, RowsOf
    <2>4. \A k : RowsOf(k)' = RowsOf(k)
        BY <2>1, SameRowsOf
    <2> QED
        BY <1>2, <2>1, <2>3, <2>4 DEF RecordKey, SameRows, RowsOf
<1> QED
    BY <1>1, <1>2 DEF PassStep, ReadActive, ListRepeatables, AddMissing, RemoveOrphan, EndPass

(* An instance job is not the job of a key. *)
LEMMA InstanceElsewhere ==
    ASSUME ShapeInv, NEW i \in RowIds, jobs' = [jobs EXCEPT ![i] = Instance(i)]
    PROVE  \A k \in OnceKeys : jobs'[k] = jobs[k]
    BY ScheduleTableAssumption DEF ShapeInv, Shape, QueueTyped

(* A call that is cut short. *)
LEMMA OwnCut ==
    ASSUME ShapeInv, OwnInv, entangled \subseteq entangled', UNCHANGED << rows, jobs >>, troubles' # 0,
           \A c \in Callers : call'[c] = call[c] \/ call'[c] = IdleCall
    PROVE  OwnInv'
<1>1. ScopedOnce'
    BY DEF OwnInv, ScopedOnce, RowsOf
<1>2. ASSUME NEW k \in OnceKeys, Clear(k)'
      PROVE  OwnFor(k)'
    <2>1. OwnFor(k) /\ k # "none" /\ SameRows(k) /\ SameHold(k)
        BY <1>2, UnchangedRows, ScheduleTableAssumption DEF Clear, OwnInv, SameHold, Keys
    <2>2. \A c \in Callers : call'[c].key = k => call'[c] = call[c] /\ jobs'[k] = jobs[k]
        BY <2>1 DEF IdleCall
    <2> QED
        BY <2>1, <2>2, OwnKept
<1> QED
    BY <1>1, <1>2 DEF OwnInv

(* Every step of a call. *)
LEMMA OwnCall ==
    ASSUME ShapeInv, ShapeInv', ClearInv, ClearInv', OwnInv, entangled \subseteq entangled',
           NEW c \in Callers, CallStep(c), UNCHANGED troubles
    PROVE  OwnInv'
<1>1. CASE Schedule(c)
    <2>1. PICK i \in FoundByDedup(subject) :
              IF Replaces(i) THEN Begin(c, "dequeue", "schedule", subject, i)
                             ELSE Begin(c, "create", "schedule", subject, 0)
        BY <1>1 DEF Schedule
    <2>2. UNCHANGED << rows, jobs >>
        BY <1>1 DEF Schedule
    <2>3. CASE Replaces(i)
        BY <2>1, <2>2, <2>3, OwnBegin DEF Replaces
    <2>4. CASE ~Replaces(i)
        BY <2>1, <2>2, <2>4, OwnBegin
    <2> QED
        BY <2>3, <2>4
<1>2. ASSUME NEW i \in DOMAIN rows, Cancel(c, i) \/ Pause(c, i) \/ Resume(c, i)
      PROVE  OwnInv'
    <2>1. i # 0 /\ UNCHANGED << rows, jobs >>
        BY <1>2, RowNumbers DEF Cancel, Pause, Resume, Require, ShapeInv, Shape
    <2>2. CASE Cancel(c, i)
        BY <2>1, <2>2, OwnBegin DEF Cancel, Require
    <2>3. CASE Pause(c, i) \/ Resume(c, i)
        <3>1. rows[i].key \notin OnceKeys
            BY <1>2, <2>3, ScheduleTableAssumption DEF Pause, Resume, Recurring, ShapeInv, Shape, CallsKnow
        <3>2. PICK pc, op : Begin(c, pc, op, rows[i].key, i)
            BY <2>3 DEF Pause, Resume, Require
        <3> QED
            BY <2>1, <3>1, <3>2, OwnBegin
    <2> QED
        BY <1>2, <2>2, <2>3
<1>3. CASE MarkPaused(c)
    <2>1. /\ KeysStay /\ UNCHANGED jobs
          /\ \A j \in DOMAIN rows : rows'[j].deleted = rows[j].deleted /\ (j # call[c].row => rows'[j] = rows[j])
        BY <1>3, PauseUpdate DEF MarkPaused, ShapeInv, Shape
    <2>2. call[c].key \in RecurringKeys /\ call[c].row \in RowsOf(call[c].key) /\ call[c].pc # "idle"
        BY <1>3 DEF MarkPaused, At, ShapeInv, Shape, CallsKnow, RowsOf
    <2>3. call[c].key \notin OnceKeys
        BY <2>2, ScheduleTableAssumption
    <2>4. \A k \in OnceKeys : SameRows(k)
        <3>1. \A k : RowsOf(k)' = RowsOf(k)
            BY <2>1, SameRowsOf
        <3>2. \A k \in OnceKeys : call[c].row \notin RowsOf(k)
            BY <2>2, <2>3 DEF RowsOf
        <3> QED
            BY <2>1, <3>1, <3>2 DEF SameRows, RowsOf
    <2>5. call'[c] = IdleCall /\ \A d \in Callers : d # c => call'[d] = call[d]
        BY <1>3 DEF MarkPaused, Returns, ShapeInv, Shape, CallsTyped
    <2>6. \A k \in OnceKeys : Clear(k)' => OwnFor(k)'
        BY <2>1, <2>2, <2>3, <2>4, <2>5, OwnOther DEF IdleCall
    <2>7. ScopedOnce'
        BY <2>1, SameRowsOf DEF OwnInv, ScopedOnce
    <2> QED
        BY <2>6, <2>7 DEF OwnInv
<1> QED
    BY <1>1, <1>2, <1>3, OwnRemove, OwnDelete, OwnCreate, OwnRefused, OwnAdds, OwnRecord DEF CallStep

(* Every step. *)
LEMMA OwnStep ==
    ShapeInv /\ ClearInv /\ OwnInv /\ ShapeInv' /\ ClearInv' /\ [Next]_vars /\ troubles \in Nat => OwnInv'
<1> SUFFICES ASSUME ShapeInv, ClearInv, OwnInv, ShapeInv', ClearInv', [Next]_vars, troubles \in Nat
             PROVE  OwnInv'
    OBVIOUS
<1>1. entangled \subseteq entangled'
    BY ClearStep
<1>2. ASSUME NEW c \in Callers, CallStep(c), UNCHANGED troubles
      PROVE  OwnInv'
    BY <1>1, <1>2, OwnCall
<1>3. ASSUME UNCHANGED << rows, jobs, call, troubles >>
      PROVE  OwnInv'
    BY <1>1, <1>3, OwnOthers, UnchangedRows, WorkerAttempts
<1>4. ASSUME NEW i \in RowIds, jobs' = [jobs EXCEPT ![i] = Instance(i)], UNCHANGED << rows, call, troubles >>
      PROVE  OwnInv'
    <2>1. \A k \in OnceKeys : Attempted(k)
        BY <1>4, InstanceElsewhere DEF Attempted, SameHold
    <2> QED
        BY <1>1, <1>4, <2>1, OwnOthers, UnchangedRows
<1>5. CASE \E i \in DOMAIN rows : TriggerNow(i) /\ UNCHANGED troubles
    <2>1. DOMAIN rows \subseteq RowIds
        BY RowNumbers DEF ShapeInv, Shape
    <2> QED
        BY <1>4, <1>5, <2>1 DEF TriggerNow
<1>6. CASE WorkerStep
    <2>1. \A k \in OnceKeys : Attempted(k)
        BY <1>6, WorkerAttempts DEF WorkerStep, Register
    <2>2. \A k : SameRows(k)
        BY <1>6, WorkerRows, UnchangedRows DEF WorkerStep, Register, Stall, ShapeInv, Shape
    <2> QED
        BY <1>1, <1>6, <2>1, <2>2, OwnOthers DEF WorkerStep, callVars
<1>7. CASE FireStep
    BY <1>4, <1>7 DEF FireStep, Fire, callVars
<1>8. CASE Fault
    <2>1. troubles' # 0
        BY <1>8 DEF Fault
    <2>2. ASSUME NEW c \in Callers, CallFails(c)
          PROVE  OwnInv'
        <3>1. UNCHANGED << rows, jobs >> /\ \A d \in Callers : call'[d] = call[d] \/ call'[d] = IdleCall
            BY <2>2 DEF CallFails, Returns, ShapeInv, Shape, CallsTyped
        <3> QED
            BY <1>1, <2>1, <3>1, OwnCut
    <2>3. ASSUME NEW w \in Workers, WorkFails(w), UNCHANGED callVars
          PROVE  OwnInv'
        <3>1. \A k \in OnceKeys : Attempted(k)
            BY <2>3, WorkerAttempts
        <3>2. \A k : SameRows(k)
            BY <2>3, WorkerRows DEF ShapeInv, Shape
        <3> QED
            BY <1>1, <2>1, <2>3, <3>1, <3>2, OwnOthers DEF callVars
    <2>4. CASE PassFails /\ UNCHANGED callVars
        <3>1. UNCHANGED << rows, jobs, call >>
            BY <2>4 DEF PassFails, callVars
        <3> QED
            BY <1>1, <2>1, <3>1, OwnCut
    <2> QED
        BY <1>8, <2>2, <2>3, <2>4 DEF Fault
<1>9. CASE Crash
    BY <1>1, <1>9, OwnCut DEF Crash, tableVars
<1>10. CASE ReconcilerStep
    <2>1. \A k \in OnceKeys : Attempted(k) /\ SameRows(k)
        BY <1>10, PassRows, WorkerAttempts DEF ReconcilerStep
    <2>2. ScopedOnce'
        BY <1>10, PassRows DEF ReconcilerStep, OwnInv, ScopedOnce
    <2>3. UNCHANGED << jobs, call, troubles >>
        BY <1>10, PassRows DEF ReconcilerStep, callVars
    <2>4. ASSUME NEW k \in OnceKeys, Clear(k)'
          PROVE  OwnFor(k)'
        <3>1. OwnFor(k)
            BY <1>1, <2>4 DEF Clear, OwnInv
        <3> QED
            BY <2>1, <2>3, <3>1, OwnKept DEF Attempted
    <2> QED
        BY <2>2, <2>4 DEF OwnInv
<1>11. CASE UNCHANGED vars
    BY <1>3, <1>11 DEF vars, tableVars, callVars
<1> QED
    BY <1>2, <1>5, <1>6, <1>7, <1>8, <1>9, <1>10, <1>11 DEF Next, ServiceStep

(* The queue goes with the schedules of a one-shot key. *)
THEOREM OneShotsKeepJobs == Spec => []OneShotsOwnJobs
<1> DEFINE Inv == ShapeInv /\ ClearInv /\ OwnInv /\ troubles \in Nat
<1>1. Init => Inv
    <2> SUFFICES ASSUME Init PROVE Inv
        OBVIOUS
    <2>1. OwnInv
        <3>1. rows = << >> /\ \A k \in OnceKeys : Calling(k) = {}
            BY ScheduleTableAssumption DEF Init, TableInit, CallInit, IdleCall, Calling, Keys
        <3> QED
            BY <3>1 DEF OwnInv, OwnFor, ScopedOnce, RowsOf
    <2> QED
        BY <2>1, ShapeInit, ClearInit DEF Init
<1>2. Inv /\ [Next]_vars => Inv'
    <2> SUFFICES ASSUME Inv, [Next]_vars PROVE Inv'
        OBVIOUS
    <2>1. ShapeInv' /\ ClearInv'
        BY ShapeStep, ClearStep
    <2>2. troubles' \in Nat
        BY DEF Next, ServiceStep, WorkerStep, FireStep, Fault, Crash, ReconcilerStep, vars
    <2> QED
        BY <2>1, <2>2, OwnStep
<1>3. Inv => OneShotsOwnJobs
    <2> SUFFICES ASSUME Inv, NEW i \in DOMAIN rows, ~Recurring(i), rows[i].bull,
                        Quiet(rows[i].key), rows[i].key \notin entangled
                 PROVE  /\ Live(i) /\ Latest(i) /\ troubles = 0 =>
                               jobs[rows[i].key].row = i /\ jobs[rows[i].key].queue.state # "none"
                        /\ rows[i].deleted => jobs[rows[i].key].row # i
        BY DEF OneShotsOwnJobs
    <2>1. PICK k \in OnceKeys : k = rows[i].key
        BY RowsAreRows DEF Recurring, Keys, Row, ShapeInv, Shape
    <2>2. OwnFor(k) /\ i \in RowsOf(k)
        BY <2>1 DEF OwnInv, Clear, Keys, RowsOf
    <2>3. ~Removing(k, i)
        BY <2>1 DEF Quiet, Removing
    <2> QED
        BY <2>1, <2>2, <2>3 DEF OwnFor
<1> QED
    BY <1>1, <1>2, <1>3, PTL DEF Spec

-----------------------------------------------------------------------------
(* A key without a job: no schedule of it has recorded one, or a call is adding
   one. *)
KeepFor(k) ==
    jobs[k].queue.state = "none" =>
        \/ Adding(k)
        \/ /\ \A i \in RowsOf(k) : ~rows[i].bull
           /\ \A c \in Calling(k) : call[c].pc # "record"

(* Nobody cancelled or paused anything yet. *)
OnlySchedules ==
    /\ \A i \in DOMAIN rows : rows[i].status # "paused"
    /\ \A c \in Callers : call[c].op \in {"none", "schedule"}

KeepInv ==
    /\ controls = 0 => OnlySchedules
    /\ controls = 0 /\ troubles = 0 => \A k \in OnceKeys : KeepFor(k)

(* What pauses nothing and begins no cancel, pause or resume. *)
LEMMA OnlySchedulesKept ==
    ASSUME OnlySchedules, DOMAIN rows' = DOMAIN rows,
           \A j \in DOMAIN rows : rows'[j].status # "paused" \/ rows'[j].status = rows[j].status,
           \A c \in Callers : call'[c].op \in {call[c].op, "none", "schedule"}
    PROVE  OnlySchedules'
    BY DEF OnlySchedules

(* What happens on another key. *)
LEMMA KeepKept ==
    ASSUME NEW k \in OnceKeys, KeepFor(k), SameRows(k), SameHold(k), NEW c \in Callers,
           \A d \in Callers : d # c => call'[d] = call[d],
           call[c].key # k, call'[c].key # k
    PROVE  KeepFor(k)'
<1>1. Adding(k) => Adding(k)'
    BY DEF Adding, Calling
<1>2. \A i \in RowsOf(k)' : i \in RowsOf(k) /\ rows'[i].bull = rows[i].bull
    BY DEF SameRows
<1>3. \A d \in Calling(k)' : d \in Calling(k) /\ call'[d] = call[d]
    BY DEF Calling
<1> QED
    BY <1>1, <1>2, <1>3 DEF KeepFor, SameHold

LEMMA KeepQuiet ==
    ASSUME NEW k \in OnceKeys, KeepFor(k), SameRows(k), SameHold(k), UNCHANGED call
    PROVE  KeepFor(k)'
<1>1. Adding(k) => Adding(k)'
    BY DEF Adding, Calling
<1>2. \A i \in RowsOf(k)' : i \in RowsOf(k) /\ rows'[i].bull = rows[i].bull
    BY DEF SameRows
<1> QED
    BY <1>1, <1>2 DEF KeepFor, SameHold, Calling

(* A call of the key that is not over and that still adds, or adds no more. *)
LEMMA KeepMoves ==
    ASSUME NEW k \in OnceKeys, KeepFor(k), NEW c \in Callers, call'[c].key = k,
           \A d \in Callers : d # c => call'[d] = call[d],
           \/ call'[c].op = "schedule" /\ call'[c].pc \in {"retire", "create", "enqueue", "add"}
           \/ /\ call[c].pc = "idle" /\ call'[c].pc \in {"dequeue", "create"}
              /\ SameRows(k) /\ jobs'[k] = jobs[k]
    PROVE  KeepFor(k)'
<1>1. CASE call'[c].op = "schedule" /\ call'[c].pc \in {"retire", "create", "enqueue", "add"}
    BY <1>1 DEF KeepFor, Adding, Calling
<1>2. CASE /\ call[c].pc = "idle" /\ call'[c].pc \in {"dequeue", "create"}
           /\ SameRows(k) /\ jobs'[k] = jobs[k]
    <2>1. Adding(k) => Adding(k)'
        BY <1>2 DEF Adding, Calling
    <2>2. \A i \in RowsOf(k)' : i \in RowsOf(k) /\ rows'[i].bull = rows[i].bull
        BY <1>2 DEF SameRows
    <2>3. \A d \in Calling(k)' : d = c \/ (d \in Calling(k) /\ call'[d] = call[d])
        BY DEF Calling
    <2> QED
        BY <1>2, <2>1, <2>2, <2>3 DEF KeepFor
<1> QED
    BY <1>1, <1>2

(* What a call of a one-shot key does to the others. *)
LEMMA KeepCall ==
    ASSUME ShapeInv, OnceKeys \cap Scoped = {}, KeepInv, NEW c \in Callers, CallStep(c), UNCHANGED troubles
    PROVE  KeepInv'
<1> SUFFICES ASSUME controls' = 0
             PROVE  OnlySchedules' /\ (troubles' = 0 => \A k \in OnceKeys : KeepFor(k)')
    BY DEF KeepInv
<1>0. /\ RowsTyped /\ call \in [Callers -> Call] /\ controls \in Nat /\ jobs \in [OnceKeys \cup RowIds -> Entry]
      /\ \A k \in OnceKeys : k \in Keys /\ k # "none" /\ k \notin RecurringKeys /\ k \notin Scoped
    BY ScheduleTableAssumption, ScheduleCallsAssumption DEF ShapeInv, Shape, CallsTyped, QueueTyped, Keys
<1>1. controls = 0
    BY <1>0 DEF CallStep, Schedule, Cancel, Pause, Resume, Counted, RemoveFromQueue, SoftDelete, MarkPaused, Create,
       CreateRefused, RemovePrior, AddOnce, AddRecurring, Record
<1>2. OnlySchedules /\ (troubles = 0 => \A k \in OnceKeys : KeepFor(k))
    BY <1>1 DEF KeepInv
<1>3. ASSUME Schedule(c)
      PROVE  OnlySchedules' /\ (troubles' = 0 => \A k \in OnceKeys : KeepFor(k)')
    <2>1. PICK i, pc : Begin(c, pc, "schedule", subject, i) /\ pc \in {"dequeue", "create"}
        BY <1>3 DEF Schedule
    <2>2. UNCHANGED << rows, jobs >> /\ \A k : SameRows(k)
        BY <1>3, UnchangedRows DEF Schedule
    <2>3. /\ call[c].pc = "idle" /\ call'[c].pc \in {"dequeue", "create"} /\ call'[c].op = "schedule"
          /\ \A d \in Callers : d # c => call'[d] = call[d]
          /\ call[c].key = "none"
        BY <1>0, <2>1 DEF Begin, At, ShapeInv, Shape, CallsTyped, IdleCall
    <2>4. \A k \in OnceKeys : KeepFor(k) => KeepFor(k)'
        BY <1>0, <2>2, <2>3, KeepMoves, KeepKept DEF SameHold
    <2> QED
        BY <1>2, <2>2, <2>3, <2>4, OnlySchedulesKept
<1>4. ASSUME NEW i \in DOMAIN rows, Cancel(c, i) \/ Pause(c, i) \/ Resume(c, i)
      PROVE  FALSE
    BY <1>0, <1>1, <1>2, <1>4 DEF Cancel, Pause, Resume, Counted, OnlySchedules
<1>5. ASSUME RemoveFromQueue(c)
      PROVE  OnlySchedules' /\ (troubles' = 0 => \A k \in OnceKeys : KeepFor(k)')
    <2>1. UNCHANGED rows /\ \A k : SameRows(k)
        BY <1>5, UnchangedRows DEF RemoveFromQueue
    <2>2. /\ call[c].pc = "dequeue" /\ call'[c].pc = "retire" /\ call'[c].op = call[c].op /\ call'[c].key = call[c].key
          /\ \A d \in Callers : d # c => call'[d] = call[d]
        BY <1>0, <1>5 DEF RemoveFromQueue, At, Call
    <2>3. \A k \in OnceKeys : call[c].key # k => jobs'[k] = jobs[k]
        BY <1>0, <1>5 DEF RemoveFromQueue
    <2>4. call[c].op = "schedule"
        BY <1>2, <2>2 DEF OnlySchedules, ShapeInv, Shape, CallsTyped, CallsKnow
    <2>5. \A k \in OnceKeys : KeepFor(k) => KeepFor(k)'
        BY <2>1, <2>2, <2>3, <2>4, KeepMoves, KeepKept DEF SameHold
    <2> QED
        BY <1>2, <2>1, <2>2, <2>5, OnlySchedulesKept
<1>6. ASSUME SoftDelete(c)
      PROVE  OnlySchedules' /\ (troubles' = 0 => \A k \in OnceKeys : KeepFor(k)')
    <2>1. /\ KeysStay /\ UNCHANGED jobs
          /\ \A j \in DOMAIN rows : /\ rows'[j].deleted = (IF j = call[c].row THEN TRUE ELSE rows[j].deleted)
                                    /\ rows'[j].bull = rows[j].bull
                                    /\ rows'[j].status \in {rows[j].status, "cancelled"}
        BY <1>0, <1>6, DeleteUpdate DEF SoftDelete
    <2>2. call[c].op = "schedule" /\ call[c].pc = "retire"
        BY <1>2, <1>6 DEF SoftDelete, At, OnlySchedules, ShapeInv, Shape, CallsTyped, CallsKnow
    <2>3. /\ call'[c].pc = "create" /\ call'[c].op = "schedule" /\ call'[c].key = call[c].key
          /\ \A d \in Callers : d # c => call'[d] = call[d]
        BY <1>0, <1>6, <2>2 DEF SoftDelete, Call
    <2>4. call[c].row \in RowsOf(call[c].key)
        BY <2>2 DEF ShapeInv, Shape, CallsKnow, RowsOf
    <2>5. \A k : k # call[c].key => SameRows(k)
        <3>1. \A j \in DOMAIN rows : j # call[c].row => rows'[j].deleted = rows[j].deleted /\ rows'[j].bull = rows[j].bull
            BY <2>1
        <3> QED
            BY <2>1, <2>4, <3>1, OneKey
    <2>6. \A k \in OnceKeys : KeepFor(k) => KeepFor(k)'
        BY <2>1, <2>3, <2>5, KeepMoves, KeepKept DEF SameHold
    <2>7. OnlySchedules'
        BY <1>2, <2>1, <2>3, OnlySchedulesKept DEF KeysStay
    <2> QED
        BY <1>2, <2>6, <2>7
<1>7. ASSUME MarkPaused(c)
      PROVE  FALSE
    BY <1>2, <1>7 DEF MarkPaused, OnlySchedules
<1>8. ASSUME Create(c)
      PROVE  OnlySchedules' /\ (troubles' = 0 => \A k \in OnceKeys : KeepFor(k)')
    <2>1. call[c].key \in Keys /\ UNCHANGED jobs
        BY <1>8 DEF Create, At, ShapeInv, Shape, CallsTyped
    <2>2. /\ \A k : k # call[c].key => RowsOf(k)' = RowsOf(k)
          /\ \A j \in DOMAIN rows : rows'[j] = rows[j]
          /\ DOMAIN rows' = DOMAIN rows \cup {Len(rows) + 1} /\ rows'[Len(rows) + 1] = NewRow(call[c].key)
        BY <1>0, <1>8, <2>1, RowMade, MadeRowOf DEF Create
    <2>3. call[c].op = "schedule" /\ call[c].pc = "create"
        BY <1>8 DEF Create, At, ShapeInv, Shape, CallsKnow
    <2>4. /\ call'[c].pc = "enqueue" /\ call'[c].op = "schedule" /\ call'[c].key = call[c].key
          /\ \A d \in Callers : d # c => call'[d] = call[d]
        BY <1>0, <1>8, <2>3 DEF Create, Call
    <2>5. \A k : k # call[c].key => SameRows(k)
        BY <2>2 DEF SameRows, RowsOf
    <2>6. \A k \in OnceKeys : KeepFor(k) => KeepFor(k)'
        BY <2>1, <2>4, <2>5, KeepMoves, KeepKept DEF SameHold
    <2>7. OnlySchedules'
        <3>1. NewRow(call[c].key).status # "paused"
            BY DEF NewRow
        <3> QED
            BY <1>2, <2>2, <2>4, <3>1 DEF OnlySchedules
    <2> QED
        BY <1>2, <2>6, <2>7
<1>9. ASSUME CreateRefused(c)
      PROVE  OnlySchedules' /\ (troubles' = 0 => \A k \in OnceKeys : KeepFor(k)')
    <2>1. UNCHANGED << rows, jobs >> /\ \A k : SameRows(k)
        BY <1>9, UnchangedRows DEF CreateRefused
    <2>2. call'[c] = IdleCall /\ \A d \in Callers : d # c => call'[d] = call[d]
        BY <1>0, <1>9 DEF CreateRefused, Returns
    <2>3. call[c].key \notin OnceKeys
        BY <1>0, <1>9 DEF CreateRefused, UniqueAllows
    <2>4. \A k \in OnceKeys : KeepFor(k) => KeepFor(k)'
        BY <1>0, <2>1, <2>2, <2>3, KeepKept DEF SameHold, IdleCall
    <2> QED
        BY <1>2, <2>1, <2>2, <2>4, OnlySchedulesKept DEF IdleCall
<1>10. ASSUME RemovePrior(c)
      PROVE  OnlySchedules' /\ (troubles' = 0 => \A k \in OnceKeys : KeepFor(k)')
    <2>1. UNCHANGED rows /\ \A k : SameRows(k)
        BY <1>10, UnchangedRows DEF RemovePrior
    <2>2. /\ call[c].pc = "enqueue" /\ call'[c].pc = "add" /\ call'[c].op = call[c].op /\ call'[c].key = call[c].key
          /\ \A d \in Callers : d # c => call'[d] = call[d]
        BY <1>0, <1>10 DEF RemovePrior, At, Goto, Call
    <2>3. \A k \in OnceKeys : call[c].key # k => jobs'[k] = jobs[k]
        BY <1>0, <1>10 DEF RemovePrior
    <2>4. call[c].op = "schedule"
        BY <1>2, <2>2 DEF OnlySchedules, ShapeInv, Shape, CallsTyped, CallsKnow
    <2>5. \A k \in OnceKeys : KeepFor(k) => KeepFor(k)'
        BY <2>1, <2>2, <2>3, <2>4, KeepMoves, KeepKept DEF SameHold
    <2> QED
        BY <1>2, <2>1, <2>2, <2>5, OnlySchedulesKept
<1>11. ASSUME AddOnce(c)
      PROVE  OnlySchedules' /\ (troubles' = 0 => \A k \in OnceKeys : KeepFor(k)')
    <2>1. UNCHANGED rows /\ \A k : SameRows(k)
        BY <1>11, UnchangedRows DEF AddOnce
    <2>2. /\ call'[c].op = call[c].op /\ call'[c].key = call[c].key
          /\ \A d \in Callers : d # c => call'[d] = call[d]
        BY <1>0, <1>11 DEF AddOnce, Goto, Call
    <2>3. \A k \in OnceKeys : call[c].key # k => jobs'[k] = jobs[k]
        BY <1>0, <1>11 DEF AddOnce
    <2>4. ASSUME NEW k \in OnceKeys, call[c].key = k
          PROVE  KeepFor(k)'
        <3>1. jobs'[k] = WithJob(jobs[k], call[c].row)
            BY <1>0, <1>11, <2>4 DEF AddOnce
        <3>2. call[c].row \in 0 .. MaxRows
            BY <1>0 DEF Call
        <3>3. jobs'[k].queue.state # "none"
            BY <1>0, <3>1, <3>2, EntriesAreEntries
        <3> QED
            BY <3>3 DEF KeepFor
    <2>5. \A k \in OnceKeys : KeepFor(k) => KeepFor(k)'
        BY <2>1, <2>2, <2>3, <2>4, KeepKept DEF SameHold
    <2> QED
        BY <1>2, <2>1, <2>2, <2>5, OnlySchedulesKept
<1>12. ASSUME AddRecurring(c)
      PROVE  OnlySchedules' /\ (troubles' = 0 => \A k \in OnceKeys : KeepFor(k)')
    <2>1. UNCHANGED << rows, jobs >> /\ \A k : SameRows(k)
        BY <1>12, UnchangedRows DEF AddRecurring
    <2>2. /\ call'[c].op = call[c].op /\ call'[c].key = call[c].key /\ call[c].key \notin OnceKeys
          /\ \A d \in Callers : d # c => call'[d] = call[d]
        BY <1>0, <1>12 DEF AddRecurring, Goto, Once, Call
    <2>3. \A k \in OnceKeys : KeepFor(k) => KeepFor(k)'
        BY <2>1, <2>2, KeepKept DEF SameHold
    <2> QED
        BY <1>2, <2>1, <2>2, <2>3, OnlySchedulesKept
<1>13. ASSUME Record(c)
      PROVE  OnlySchedules' /\ (troubles' = 0 => \A k \in OnceKeys : KeepFor(k)')
    <2>1. /\ KeysStay /\ UNCHANGED jobs
          /\ \A j \in DOMAIN rows : /\ rows'[j].deleted = rows[j].deleted
                                    /\ rows'[j].bull = (IF j = call[c].row THEN TRUE ELSE rows[j].bull)
                                    /\ rows'[j].status \in {rows[j].status, "active"}
        BY <1>0, <1>13, RecordUpdate DEF Record
    <2>2. /\ call'[c] = IdleCall /\ \A d \in Callers : d # c => call'[d] = call[d]
          /\ call[c].pc = "record"
        BY <1>0, <1>13 DEF Record, At, Returns
    <2>3. call[c].row \in RowsOf(call[c].key)
        BY <2>2 DEF ShapeInv, Shape, CallsKnow, RowsOf
    <2>4. \A k : k # call[c].key => SameRows(k)
        <3>1. \A j \in DOMAIN rows : j # call[c].row => rows'[j].deleted = rows[j].deleted /\ rows'[j].bull = rows[j].bull
            BY <2>1
        <3> QED
            BY <2>1, <2>3, <3>1, OneKey
    <2>5. ASSUME NEW k \in OnceKeys, call[c].key = k, KeepFor(k)
          PROVE  KeepFor(k)'
        <3>1. jobs[k].queue.state = "none" => Adding(k)
            BY <2>2, <2>5 DEF KeepFor, Calling
        <3>2. Adding(k) => Adding(k)'
            BY <2>2 DEF Adding, Calling
        <3> QED
            BY <2>1, <3>1, <3>2 DEF KeepFor
    <2>6. \A k \in OnceKeys : KeepFor(k) => KeepFor(k)'
        BY <1>0, <2>1, <2>2, <2>4, <2>5, KeepKept DEF SameHold, IdleCall
    <2>7. OnlySchedules'
        <3>1. DOMAIN rows' = DOMAIN rows /\ \A d \in Callers : call'[d].op \in {call[d].op, "none"}
            BY <2>1, <2>2 DEF KeysStay, IdleCall
        <3>2. \A j \in DOMAIN rows : rows'[j].status # "paused" \/ rows'[j].status = rows[j].status
            BY <2>1
        <3> QED
            BY <1>2, <3>1, <3>2, OnlySchedulesKept
    <2> QED
        BY <1>2, <2>6, <2>7
<1> QED
    BY <1>3, <1>4, <1>5, <1>6, <1>7, <1>8, <1>9, <1>10, <1>11, <1>12, <1>13 DEF CallStep

(* A step of no call changes no plan. *)
LEMMA KeepOthers ==
    ASSUME KeepInv, \A k \in OnceKeys : SameRows(k) /\ SameHold(k), UNCHANGED << call, controls >>,
           DOMAIN rows' = DOMAIN rows,
           \A j \in DOMAIN rows : rows'[j].status # "paused" \/ rows'[j].status = rows[j].status,
           troubles' = 0 => troubles = 0
    PROVE  KeepInv'
    BY OnlySchedulesKept, KeepQuiet DEF KeepInv

(* No step of the worker or the reconciler pauses. *)
LEMMA NobodyPauses ==
    ASSUME RowsTyped, \/ \E w \in Workers : WorkStep(w) \/ WorkFails(w)
                      \/ PassStep \/ UNCHANGED rows
    PROVE  /\ DOMAIN rows' = DOMAIN rows
           /\ \A j \in DOMAIN rows : rows'[j].status # "paused" \/ rows'[j].status = rows[j].status
<1>1. CASE UNCHANGED rows
    BY <1>1
<1>2. CASE \E i, s : s \in Statuses \ {"paused"} /\ rows' = [rows EXCEPT ![i].status = s]
    BY <1>2, StatusUpdate DEF KeysStay
<1>3. CASE \E i : rows' = [rows EXCEPT ![i].bull = TRUE]
    BY <1>3, BullUpdate DEF KeysStay
<1>4. ASSUME NEW w \in Workers, WorkStep(w) \/ WorkFails(w)
      PROVE  UNCHANGED rows \/ \E i, s : s \in Statuses \ {"paused"} /\ rows' = [rows EXCEPT ![i].status = s]
    <2>1. CASE Caught(w)
        BY <2>1 DEF Caught, Statuses
    <2>2. CASE WriteCompleted(w)
        BY <2>2 DEF WriteCompleted, Statuses
    <2>3. CASE UNCHANGED rows
        BY <2>3
    <2> QED
        BY <1>4, <2>1, <2>2, <2>3 DEF WorkStep, WorkFails, Take, NoHandler, HandlerReturns,
            HandlerThrows, Complete, Reject
<1>5. CASE PassStep
    <2>1. UNCHANGED rows \/ \E i : rows' = [rows EXCEPT ![i].bull = TRUE]
        BY <1>5 DEF PassStep, ReadActive, ListRepeatables, AddMissing, RecordKey, RemoveOrphan, EndPass
    <2> QED
        BY <1>1, <1>3, <2>1
<1> QED
    BY <1>1, <1>2, <1>4, <1>5

(* Every step, while no one-shot key is of a guild: the unique index refuses the
   second schedule of such a key after its job was removed. *)
LEMMA KeepStep ==
    ASSUME OnceKeys \cap Scoped = {}
    PROVE  ShapeInv /\ KeepInv /\ troubles \in Nat /\ [Next]_vars => KeepInv'
<1> SUFFICES ASSUME ShapeInv, KeepInv, troubles \in Nat, [Next]_vars PROVE KeepInv'
    OBVIOUS
<1>1. ASSUME NEW c \in Callers, CallStep(c), UNCHANGED troubles
      PROVE  KeepInv'
    BY <1>1, KeepCall
<1>2. CASE \E i \in DOMAIN rows : TriggerNow(i)
    <2>1. controls' # 0
        BY <1>2, ScheduleCallsAssumption DEF TriggerNow, Counted, ShapeInv, Shape, CallsTyped
    <2> QED
        BY <2>1 DEF KeepInv
<1>3. CASE WorkerStep
    <2>1. \A k \in OnceKeys : SameHold(k)
        BY <1>3, WorkerAttempts DEF WorkerStep, Register, Attempted
    <2>2. \A k : SameRows(k)
        BY <1>3, WorkerRows, UnchangedRows DEF WorkerStep, Register, Stall, ShapeInv, Shape
    <2>3. /\ DOMAIN rows' = DOMAIN rows
          /\ \A j \in DOMAIN rows : rows'[j].status # "paused" \/ rows'[j].status = rows[j].status
        BY <1>3, NobodyPauses DEF WorkerStep, Register, Stall, ShapeInv, Shape
    <2> QED
        BY <1>3, <2>1, <2>2, <2>3, KeepOthers DEF WorkerStep, callVars
<1>4. CASE FireStep
    <2>1. \A k \in OnceKeys : SameRows(k) /\ SameHold(k)
        BY <1>4, InstanceElsewhere, UnchangedRows DEF FireStep, Fire, SameHold
    <2> QED
        BY <1>4, <2>1, KeepOthers DEF FireStep, Fire, callVars
<1>5. CASE Fault
    <2>1. troubles' # 0
        BY <1>5 DEF Fault
    <2>2. controls = 0 /\ controls' = 0 => OnlySchedules'
        <3>1. ASSUME NEW c \in Callers, CallFails(c), OnlySchedules
              PROVE  OnlySchedules'
            <4>1. UNCHANGED rows /\ \A d \in Callers : call'[d].op \in {call[d].op, "none"}
                BY <3>1 DEF CallFails, Returns, IdleCall, ShapeInv, Shape, CallsTyped
            <4> QED
                BY <3>1, <4>1 DEF OnlySchedules
        <3>2. ASSUME NEW w \in Workers, WorkFails(w), UNCHANGED callVars, OnlySchedules
              PROVE  OnlySchedules'
            BY <3>2, NobodyPauses, OnlySchedulesKept DEF callVars, ShapeInv, Shape
        <3>3. CASE PassFails /\ UNCHANGED callVars
            BY <3>3 DEF PassFails, callVars, KeepInv, OnlySchedules
        <3> QED
            BY <1>5, <3>1, <3>2, <3>3 DEF Fault, KeepInv
    <2>3. controls' = 0 => controls = 0
        BY <1>5 DEF Fault, CallFails, callVars
    <2> QED
        BY <2>1, <2>2, <2>3 DEF KeepInv
<1>6. CASE Crash
    <2>1. troubles' # 0 /\ UNCHANGED << rows, controls >> /\ \A c \in Callers : call'[c] = IdleCall
        BY <1>6 DEF Crash, tableVars
    <2> QED
        BY <2>1 DEF KeepInv, OnlySchedules, IdleCall
<1>7. CASE ReconcilerStep
    <2>1. \A k \in OnceKeys : SameRows(k) /\ SameHold(k)
        BY <1>7, PassRows DEF ReconcilerStep, SameHold
    <2>2. /\ DOMAIN rows' = DOMAIN rows
          /\ \A j \in DOMAIN rows : rows'[j].status # "paused" \/ rows'[j].status = rows[j].status
        BY <1>7, NobodyPauses DEF ReconcilerStep, ShapeInv, Shape
    <2> QED
        BY <1>7, <2>1, <2>2, KeepOthers DEF ReconcilerStep, callVars
<1>8. CASE UNCHANGED vars
    <2>1. \A k \in OnceKeys : SameRows(k) /\ SameHold(k)
        BY <1>8, UnchangedRows DEF vars, tableVars, SameHold
    <2> QED
        BY <1>8, <2>1, KeepOthers DEF vars, tableVars, callVars
<1> QED
    BY <1>1, <1>2, <1>3, <1>4, <1>5, <1>6, <1>7, <1>8 DEF Next, ServiceStep

(* Scheduling a one-shot again under its key replaces the pending job. *)
THEOREM UnscopedKeepJobs ==
    ASSUME OnceKeys \cap Scoped = {}
    PROVE  Spec => []ReplaceKeepsJob
<1> DEFINE Inv == ShapeInv /\ KeepInv /\ troubles \in Nat
<1>1. Init => Inv
    <2> SUFFICES ASSUME Init PROVE Inv
        OBVIOUS
    <2>1. KeepInv
        BY DEF Init, TableInit, CallInit, IdleCall, KeepInv, OnlySchedules, KeepFor, RowsOf, Calling
    <2> QED
        BY <2>1, ShapeInit DEF Init
<1>2. Inv /\ [Next]_vars => Inv'
    <2> SUFFICES ASSUME Inv, [Next]_vars PROVE Inv'
        OBVIOUS
    <2>1. troubles' \in Nat
        BY DEF Next, ServiceStep, WorkerStep, FireStep, Fault, Crash, ReconcilerStep, vars
    <2> QED
        BY <2>1, ShapeStep, KeepStep
<1>3. Inv => ReplaceKeepsJob
    BY DEF KeepInv, KeepFor, ReplaceKeepsJob, Quiet, Adding
<1> QED
    BY <1>1, <1>2, <1>3, PTL DEF Spec

=============================================================================
