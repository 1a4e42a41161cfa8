---------------------------- MODULE AuditIngest ----------------------------
(***************************************************************************)
(* The ingest path: AuditIngestService enqueues a draft under its dedupe   *)
(* key, the BullMQ queue hands it at least once to a worker slot of a bot  *)
(* instance, and AuditIngestProcessor appends it to its chain under an     *)
(* in-process lock per chain, retrying on a seq conflict.                  *)
(***************************************************************************)
EXTENDS AuditTables

CONSTANTS
    Slots,               \* worker slots: ingestConcurrency of them per instance
    Instances,           \* bot processes that consume the queue
    InstanceOf,          \* the process a slot runs in
    MaxJobAttempts,      \* `attempts` of a queued job
    MaxAppendAttempts,   \* MAX_APPEND_ATTEMPTS
    MaxStalled,          \* BullMQ's maxStalledCount
    NoDraft              \* what a free slot works on

ASSUME IngestAssumption ==
    /\ InstanceOf \in [Slots -> Instances]
    /\ MaxJobAttempts \in Nat \ {0}
    /\ MaxAppendAttempts \in Nat \ {0}
    /\ MaxStalled \in Nat
    /\ NoDraft \notin Drafts

VARIABLES
    job,          \* draft -> state of its queued job
    occurred,     \* draft -> occurredAt
    attemptsMade, \* draft -> failed attempts of its job
    stalls,       \* draft -> times its job was found without a live worker
    pc,           \* slot -> the await it is suspended at
    task,         \* slot -> the draft it works on
    tries,        \* slot -> `attempt` of appendWithRetry
    tail,         \* slot -> `last` of appendWithRetry
    chainLocks    \* instance -> chain -> slots chained on its promise, holder first

ingestVars == << job, occurred, attemptsMade, stalls, pc, task, tries, tail, chainLocks >>

JobStates == {"none", "waiting", "active", "completed", "failed"}
SlotStates == {"idle", "lock", "insert", "emit"}

IngestInit ==
    /\ job = [d \in Drafts |-> "none"]
    /\ occurred = [d \in Drafts |-> 0]
    /\ attemptsMade = [d \in Drafts |-> 0]
    /\ stalls = [d \in Drafts |-> 0]
    /\ pc = [w \in Slots |-> "idle"]
    /\ task = [w \in Slots |-> NoDraft]
    /\ tries = [w \in Slots |-> 0]
    /\ tail = [w \in Slots |-> NoRow]
    /\ chainLocks = [i \in Instances |-> [c \in Chains |-> << >>]]

-----------------------------------------------------------------------------
LockOf(w) == chainLocks[InstanceOf[w]][ChainOf[task[w]]]

HoldsLock(w) == LockOf(w) # << >> /\ Head(LockOf(w)) = w

\* The promise of the holder settles: the next slot of the chain runs.
ReleaseLock(w) ==
    chainLocks' = [chainLocks EXCEPT ![InstanceOf[w]][ChainOf[task[w]]] = Tail(@)]

LeaveSlot(w) ==
    /\ pc' = [pc EXCEPT ![w] = "idle"]
    /\ task' = [task EXCEPT ![w] = NoDraft]
    /\ tries' = [tries EXCEPT ![w] = 0]
    /\ tail' = [tail EXCEPT ![w] = NoRow]

\* process() rejects: BullMQ counts the attempt and retries or parks the job.
RejectJob(d) ==
    /\ attemptsMade' = [attemptsMade EXCEPT ![d] = @ + 1]
    /\ job' = [job EXCEPT ![d] = IF attemptsMade[d] + 1 < MaxJobAttempts
                                 THEN "waiting" ELSE "failed"]

-----------------------------------------------------------------------------
\* ingestEnvelope / record: add() with the id of a job that exists does nothing.
Enqueue(d) ==
    /\ job[d] = "none"
    /\ job' = [job EXCEPT ![d] = "waiting"]
    /\ occurred' = [occurred EXCEPT ![d] = now]
    /\ UNCHANGED << ledger, attemptsMade, stalls, pc, task, tries, tail, chainLocks >>

\* A free slot takes a job and chains itself on the lock of the job's chain.
Take(w, d) ==
    /\ pc[w] = "idle" /\ job[d] = "waiting"
    /\ job' = [job EXCEPT ![d] = "active"]
    /\ pc' = [pc EXCEPT ![w] = "lock"]
    /\ task' = [task EXCEPT ![w] = d]
    /\ chainLocks' = [chainLocks EXCEPT ![InstanceOf[w]][ChainOf[d]] = Append(@, w)]
    /\ UNCHANGED << ledger, occurred, attemptsMade, stalls, tries, tail >>

\* The lock is held: findLast reads the tail the next row is built on.
ReadTail(w) ==
    /\ pc[w] = "lock" /\ HoldsLock(w)
    /\ \E r \in FindLast(ledger[ChainOf[task[w]]]) : tail' = [tail EXCEPT ![w] = r]
    /\ tries' = [tries EXCEPT ![w] = @ + 1]
    /\ pc' = [pc EXCEPT ![w] = "insert"]
    /\ UNCHANGED << ledger, job, occurred, attemptsMade, stalls, task, chainLocks >>

NextRow(w) == Row(task[w], occurred[task[w]], tail[w].seq + 1, tail[w].hash)

\* repo.append succeeds; the lock is released before the event is emitted.
InsertOk(w) ==
    /\ pc[w] = "insert"
    /\ ~Conflicts(ChainOf[task[w]], NextRow(w))
    /\ AppendRow(ChainOf[task[w]], NextRow(w))
    /\ pc' = [pc EXCEPT ![w] = "emit"]
    /\ ReleaseLock(w)
    /\ UNCHANGED << job, occurred, attemptsMade, stalls, task, tries, tail >>

\* AuditSeqConflictError: read the tail again, still under the lock.
InsertConflict(w) ==
    /\ pc[w] = "insert"
    /\ Conflicts(ChainOf[task[w]], NextRow(w))
    /\ tries[w] < MaxAppendAttempts
    /\ pc' = [pc EXCEPT ![w] = "lock"]
    /\ UNCHANGED << ledger, job, occurred, attemptsMade, stalls, task, tries, tail, chainLocks >>

\* Mutant of FailAppend: the error is swallowed and the job completes.
FailAppendSwallowed(w) ==
    /\ job' = [job EXCEPT ![task[w]] = "completed"]
    /\ ReleaseLock(w)
    /\ LeaveSlot(w)
    /\ UNCHANGED << ledger, occurred, stalls, attemptsMade >>

\* Mutant of FailAppend: `previous.then(fn)`: a rejection breaks the lock chain.
FailAppendKeepsLock(w) ==
    /\ RejectJob(task[w])
    /\ LeaveSlot(w)
    /\ UNCHANGED << ledger, occurred, stalls, chainLocks >>

\* appendWithRetry rejects: the lock is released and the job is rejected.
FailAppend(w) ==
    /\ RejectJob(task[w])
    /\ ReleaseLock(w)
    /\ LeaveSlot(w)
    /\ UNCHANGED << ledger, occurred, stalls >>

\* The last attempt met a conflict too.
RetriesExhausted(w) ==
    /\ pc[w] = "insert"
    /\ Conflicts(ChainOf[task[w]], NextRow(w))
    /\ tries[w] = MaxAppendAttempts
    /\ FailAppend(w)

\* findLast or the insert throws anything else than a conflict.
DatabaseFails(w) ==
    /\ (pc[w] = "lock" /\ HoldsLock(w)) \/ pc[w] = "insert"
    /\ FailAppend(w)

\* Mutant of Complete: a failed emit rejects the job after the append.
CompleteUnlessEmitFails(w) ==
    /\ pc[w] = "emit"
    /\ \/ RejectJob(task[w])
       \/ job' = [job EXCEPT ![task[w]] = "completed"] /\ UNCHANGED attemptsMade
    /\ LeaveSlot(w)
    /\ UNCHANGED << ledger, occurred, stalls, chainLocks >>

\* The recorded event is out, or its failure was swallowed: the job completes.
Complete(w) ==
    /\ pc[w] = "emit"
    /\ job' = [job EXCEPT ![task[w]] = "completed"]
    /\ LeaveSlot(w)
    /\ UNCHANGED << ledger, occurred, attemptsMade, stalls, chainLocks >>

\* Mutant of CrashSlots: the restarted process still believes it holds its task.
CrashSlotsKeepTask(i) ==
    /\ pc' = [w \in Slots |-> IF InstanceOf[w] = i THEN "idle" ELSE pc[w]]
    /\ chainLocks' = [chainLocks EXCEPT ![i] = [c \in Chains |-> << >>]]
    /\ UNCHANGED << ledger, job, occurred, attemptsMade, stalls, task, tries, tail >>

\* The process dies: its slots and its lock map are gone, its jobs stay active.
CrashSlots(i) ==
    LET mine(w) == InstanceOf[w] = i
    IN  /\ pc' = [w \in Slots |-> IF mine(w) THEN "idle" ELSE pc[w]]
        /\ task' = [w \in Slots |-> IF mine(w) THEN NoDraft ELSE task[w]]
        /\ tries' = [w \in Slots |-> IF mine(w) THEN 0 ELSE tries[w]]
        /\ tail' = [w \in Slots |-> IF mine(w) THEN NoRow ELSE tail[w]]
        /\ chainLocks' = [chainLocks EXCEPT ![i] = [c \in Chains |-> << >>]]
        /\ UNCHANGED << ledger, job, occurred, attemptsMade, stalls >>

\* BullMQ's stalled check: an active job nobody renews goes back to waiting,
\* and to failed when that happens more than MaxStalled times.
Stall(d) ==
    /\ job[d] = "active"
    /\ \A w \in Slots : task[w] # d
    /\ stalls' = [stalls EXCEPT ![d] = @ + 1]
    /\ job' = [job EXCEPT ![d] = IF stalls[d] < MaxStalled THEN "waiting" ELSE "failed"]
    /\ UNCHANGED << ledger, occurred, attemptsMade, pc, task, tries, tail, chainLocks >>

SlotStep(w) ==
    \/ \E d \in Drafts : Take(w, d)
    \/ ReadTail(w) \/ InsertOk(w) \/ InsertConflict(w) \/ RetriesExhausted(w) \/ Complete(w)

-----------------------------------------------------------------------------
LedgerTypeOK ==
    /\ DOMAIN ledger = Chains
    /\ \A c \in Chains : \A r \in ledger[c] :
          r.seq \in Nat \ {0} /\ r.at \in Nat /\ r.draft \in Drafts /\ ChainOf[r.draft] = c

IngestTypeOK ==
    /\ job \in [Drafts -> JobStates]
    /\ occurred \in [Drafts -> Nat]
    /\ attemptsMade \in [Drafts -> Nat]
    /\ stalls \in [Drafts -> Nat]
    /\ pc \in [Slots -> SlotStates]
    /\ task \in [Slots -> Drafts \cup {NoDraft}]
    /\ tries \in [Slots -> Nat]
    /\ DOMAIN tail = Slots /\ \A w \in Slots : tail[w].seq \in Nat
    /\ chainLocks \in [Instances -> [Chains -> Seq(Slots)]]
    /\ \A w \in Slots : pc[w] # "idle" <=> task[w] \in Drafts

\* A slot that is about to insert holds the lock of its chain.
InsertersHoldLock == \A w \in Slots : pc[w] = "insert" => HoldsLock(w)
=============================================================================
