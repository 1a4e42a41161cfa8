-------------------------- MODULE AuditLedgerProofs --------------------------
(***************************************************************************)
(* Type correctness of the audit module for every number of processes,     *)
(* slots, drafts, chains, sweeps and verifications; and, for one process,  *)
(* that its chains stay intact and that it implements the audit trail.     *)
(***************************************************************************)
EXTENDS AuditLedger, SequenceTheorems, TLAPS

\* All worker slots run in one bot process: the deployment whose appends the
\* in-process chain lock serialises.
OneProcessOnly == \A v, w \in Slots : InstanceOf[v] = InstanceOf[w]

-----------------------------------------------------------------------------
(* Lemmas about the repository reads. *)

\* firstSeq of rows with positive seqs is a natural number.
LEMMA FirstSeqType ==
    ASSUME NEW rows, \A r \in rows : r.seq \in Nat \ {0}, NEW n \in FirstSeq(rows)
    PROVE  n \in Nat
BY DEF FirstSeq

\* findLast returns the absent row or a last row of the chain.
LEMMA FindLastIsLast ==
    ASSUME NEW rows, NEW r \in FindLast(rows)
    PROVE  \/ rows = {} /\ r = NoRow
           \/ IsLast(r, rows)
BY DEF FindLast

\* The row an insert builds has the fields it was built from.
LEMMA RowFields ==
    ASSUME NEW d, NEW at, NEW seq, NEW prev
    PROVE  /\ Row(d, at, seq, prev).seq = seq
           /\ Row(d, at, seq, prev).draft = d
           /\ Row(d, at, seq, prev).at = at
           /\ Row(d, at, seq, prev).previousHash = prev
           /\ ContentOk(Row(d, at, seq, prev))
BY DEF Row, ContentOk

\* Putting a row on top of an intact chain, or into an empty one, keeps it intact.
LEMMA AppendKeepsIntact ==
    ASSUME NEW rows, Intact(rows), \A r \in rows : r.seq \in Nat,
           NEW row, ContentOk(row), row.seq \in Nat,
           rows = {} \/ \E p \in rows : IsLast(p, rows) /\ Follows(row, p)
    PROVE  Intact(rows \cup {row})
<1>1. CASE rows = {}
    BY <1>1 DEF Intact, UniqueSeqs, Linked
<1>2. CASE \E p \in rows : IsLast(p, rows) /\ Follows(row, p)
    <2>1. PICK p \in rows : IsLast(p, rows) /\ Follows(row, p)
        BY <1>2
    <2>2. \A r \in rows : r.seq < row.seq
        BY <2>1 DEF IsLast, Follows
    <2>3. UniqueSeqs(rows \cup {row})
        BY <2>2 DEF UniqueSeqs, Intact
    <2>4. Linked(rows \cup {row})
        BY <2>1, <2>2 DEF Linked, Intact
    <2> QED BY <2>3, <2>4 DEF Intact
<1> QED BY <1>1, <1>2

\* Cutting an intact chain at any seq leaves an intact chain.
LEMMA PruneKeepsIntact ==
    ASSUME NEW rows, Intact(rows), \A r \in rows : r.seq \in Nat, NEW n \in Nat
    PROVE  Intact(KeepAbove(rows, n))
<1>1. UniqueSeqs(KeepAbove(rows, n)) /\ \A r \in KeepAbove(rows, n) : ContentOk(r)
    BY DEF Intact, UniqueSeqs, KeepAbove
<1>2. ASSUME NEW r \in KeepAbove(rows, n), NEW q \in KeepAbove(rows, n), q.seq < r.seq
      PROVE  \E p \in KeepAbove(rows, n) : Follows(r, p)
    <2>1. PICK p \in rows : Follows(r, p)
        BY <1>2 DEF Intact, Linked, KeepAbove
    <2>2. p.seq > n
        BY <1>2, <2>1 DEF Follows, KeepAbove
    <2> QED BY <2>1, <2>2 DEF KeepAbove
<1> QED BY <1>1, <1>2 DEF Intact, Linked

-----------------------------------------------------------------------------
(* Type correctness.  That a slot about to insert holds its lock is part of *)
(* the induction: only then is the released lock's queue not empty.         *)

TypeInv == TypeOK /\ InsertersHoldLock

LEMMA InitTypeInv == Init => TypeInv
<1> SUFFICES ASSUME Init PROVE TypeInv
    OBVIOUS
<1> USE DEF Init, IngestInit, RetentionInit, VerifyInit
<1>1. LedgerTypeOK
    BY DEF LedgerTypeOK
<1>2. IngestTypeOK
    BY IngestAssumption DEF IngestTypeOK, JobStates, SlotStates, NoRow
<1>3. RetentionTypeOK
    BY DEF RetentionTypeOK, SweepTypeOK, IdleSweep, SweepStates
<1>4. InsertersHoldLock
    BY DEF InsertersHoldLock
<1> QED BY <1>1, <1>2, <1>3, <1>4 DEF TypeInv, TypeOK

\* A step that leaves the ledger alone leaves its type alone.
LEMMA SameLedgerType ==
    ASSUME LedgerTypeOK, UNCHANGED ledger
    PROVE  LedgerTypeOK'
BY DEF LedgerTypeOK

\* A step that leaves the ingest variables alone keeps their part of TypeInv.
LEMMA SameIngest ==
    ASSUME IngestTypeOK, InsertersHoldLock, UNCHANGED ingestVars
    PROVE  IngestTypeOK' /\ InsertersHoldLock'
BY DEF IngestTypeOK, InsertersHoldLock, HoldsLock, LockOf, ingestVars

\* The ingest part of TypeInv, after the steps of the queue.
LEMMA QueueTypeStep ==
    ASSUME TypeInv, NEW d \in Drafts, Enqueue(d) \/ Stall(d)
    PROVE  LedgerTypeOK' /\ IngestTypeOK' /\ InsertersHoldLock'
<1> USE DEF TypeInv, TypeOK
<1>1. UNCHANGED << ledger, pc, task, tries, tail, chainLocks, attemptsMade >>
    BY DEF Enqueue, Stall
<1>2. LedgerTypeOK'
    BY <1>1, SameLedgerType
<1>3. InsertersHoldLock'
    BY <1>1 DEF InsertersHoldLock, HoldsLock, LockOf
<1>4. job' \in [Drafts -> JobStates] /\ occurred' \in [Drafts -> Nat] /\ stalls' \in [Drafts -> Nat]
    <2>1. CASE Enqueue(d)
        BY <2>1 DEF Enqueue, IngestTypeOK, JobStates
    <2>2. CASE Stall(d)
        BY <2>2 DEF Stall, IngestTypeOK, JobStates
    <2> QED BY <2>1, <2>2
<1> QED BY <1>1, <1>2, <1>3, <1>4 DEF IngestTypeOK

\* Take: the slot queues behind whoever holds the lock.
LEMMA TakeTypeStep ==
    ASSUME TypeInv, NEW w \in Slots, NEW d \in Drafts, Take(w, d)
    PROVE  LedgerTypeOK' /\ IngestTypeOK' /\ InsertersHoldLock'
<1> USE DEF TypeInv, TypeOK
<1> DEFINE i == InstanceOf[w]
           c == ChainOf[d]
<1>1. i \in Instances /\ c \in Chains /\ chainLocks[i][c] \in Seq(Slots)
    BY ChainAssumption, IngestAssumption DEF IngestTypeOK
<1>2. LedgerTypeOK'
    BY SameLedgerType DEF Take
<1>3. Append(chainLocks[i][c], w) \in Seq(Slots)
    BY <1>1, AppendProperties
<1>4. chainLocks' \in [Instances -> [Chains -> Seq(Slots)]]
    BY <1>1, <1>3 DEF Take, IngestTypeOK
<1>5. IngestTypeOK'
    BY <1>4, IngestAssumption DEF Take, IngestTypeOK, JobStates, SlotStates
<1>6. ASSUME NEW v \in Slots, pc'[v] = "insert"
      PROVE  HoldsLock(v)'
    <2>1. v # w /\ pc[v] = "insert" /\ task'[v] = task[v] /\ task[v] \in Drafts
        BY <1>6 DEF Take, IngestTypeOK, SlotStates
    <2>2. HoldsLock(v)
        BY <2>1 DEF InsertersHoldLock
    <2>3. CASE InstanceOf[v] = i /\ ChainOf[task[v]] = c
        <3>1. chainLocks'[i][c] = Append(chainLocks[i][c], w)
            BY <1>1 DEF Take, IngestTypeOK
        <3>2. chainLocks[i][c] # << >> /\ Head(chainLocks[i][c]) = v
            BY <2>2, <2>3 DEF HoldsLock, LockOf
        <3>3. Append(chainLocks[i][c], w) # << >> /\ Head(Append(chainLocks[i][c], w)) = v
            BY <1>1, <3>2, AppendProperties, HeadTailAppend
        <3> QED BY <2>1, <2>3, <3>1, <3>3 DEF HoldsLock, LockOf
    <2>4. CASE ~(InstanceOf[v] = i /\ ChainOf[task[v]] = c)
        <3>1. InstanceOf[v] \in Instances /\ ChainOf[task[v]] \in Chains
            BY <2>1, ChainAssumption, IngestAssumption
        <3>2. chainLocks'[InstanceOf[v]][ChainOf[task[v]]]
                = chainLocks[InstanceOf[v]][ChainOf[task[v]]]
            BY <1>1, <2>4, <3>1 DEF Take, IngestTypeOK
        <3> QED BY <2>1, <2>2, <3>2 DEF HoldsLock, LockOf
    <2> QED BY <2>3, <2>4
<1> QED BY <1>2, <1>5, <1>6 DEF InsertersHoldLock

\* Releasing the lock: other inserters hold other locks, so theirs stay held.
LEMMA ReleaseKeepsHolders ==
    ASSUME TypeInv, NEW w \in Slots, task[w] \in Drafts, HoldsLock(w), ReleaseLock(w),
           \A v \in Slots \ {w} : pc'[v] = pc[v] /\ task'[v] = task[v],
           pc'[w] # "insert"
    PROVE  InsertersHoldLock' /\ chainLocks' \in [Instances -> [Chains -> Seq(Slots)]]
<1> USE DEF TypeInv, TypeOK
<1> DEFINE i == InstanceOf[w]
           c == ChainOf[task[w]]
<1>1. i \in Instances /\ c \in Chains /\ chainLocks[i][c] \in Seq(Slots)
    BY ChainAssumption, IngestAssumption DEF IngestTypeOK
<1>2. chainLocks[i][c] # << >> /\ Head(chainLocks[i][c]) = w
    BY DEF HoldsLock, LockOf
<1>3. Tail(chainLocks[i][c]) \in Seq(Slots)
    BY <1>1, <1>2, HeadTailProperties
<1>4. chainLocks' \in [Instances -> [Chains -> Seq(Slots)]]
    BY <1>1, <1>3 DEF ReleaseLock, IngestTypeOK
<1>5. ASSUME NEW v \in Slots, pc'[v] = "insert"
      PROVE  HoldsLock(v)'
    <2>1. v # w /\ pc[v] = "insert" /\ task'[v] = task[v] /\ task[v] \in Drafts
        BY <1>5 DEF IngestTypeOK
    <2>2. HoldsLock(v)
        BY <2>1 DEF InsertersHoldLock
    <2>3. ~(InstanceOf[v] = i /\ ChainOf[task[v]] = c)
        BY <1>2, <2>1, <2>2 DEF HoldsLock, LockOf
    <2>4. InstanceOf[v] \in Instances /\ ChainOf[task[v]] \in Chains
        BY <2>1, ChainAssumption, IngestAssumption
    <2>5. chainLocks'[InstanceOf[v]][ChainOf[task[v]]]
            = chainLocks[InstanceOf[v]][ChainOf[task[v]]]
        BY <1>1, <2>3, <2>4 DEF ReleaseLock, IngestTypeOK
    <2> QED BY <2>1, <2>2, <2>5 DEF HoldsLock, LockOf
<1> QED BY <1>4, <1>5 DEF InsertersHoldLock

\* A job that leaves its slot, completed or rejected.
LEMMA LeaveSlotType ==
    ASSUME IngestTypeOK, NEW w \in Slots, LeaveSlot(w)
    PROVE  /\ pc' \in [Slots -> SlotStates]
           /\ task' \in [Slots -> Drafts \cup {NoDraft}]
           /\ tries' \in [Slots -> Nat]
           /\ DOMAIN tail' = Slots /\ \A v \in Slots : tail'[v].seq \in Nat
           /\ \A v \in Slots : pc'[v] # "idle" <=> task'[v] \in Drafts
           /\ \A v \in Slots \ {w} : pc'[v] = pc[v] /\ task'[v] = task[v]
           /\ pc'[w] = "idle"
BY IngestAssumption DEF IngestTypeOK, LeaveSlot, SlotStates, NoRow

\* ReadTail: only the holder of the lock gets to insert.
LEMMA ReadTailTypeStep ==
    ASSUME TypeInv, NEW w \in Slots, ReadTail(w)
    PROVE  LedgerTypeOK' /\ IngestTypeOK' /\ InsertersHoldLock'
<1> USE DEF TypeInv, TypeOK
<1>1. LedgerTypeOK'
    BY SameLedgerType DEF ReadTail
<1>2. task[w] \in Drafts /\ ChainOf[task[w]] \in Chains
    BY ChainAssumption DEF ReadTail, IngestTypeOK
<1>3. PICK r \in FindLast(ledger[ChainOf[task[w]]]) : tail' = [tail EXCEPT ![w] = r]
    BY DEF ReadTail
<1>4. r.seq \in Nat
    BY <1>2, <1>3, FindLastIsLast DEF IsLast, NoRow, LedgerTypeOK
<1>5. IngestTypeOK'
    BY <1>3, <1>4 DEF ReadTail, IngestTypeOK, SlotStates
<1>6. ASSUME NEW v \in Slots, pc'[v] = "insert" PROVE HoldsLock(v)'
    <2>1. HoldsLock(v)
        BY <1>6 DEF ReadTail, InsertersHoldLock, IngestTypeOK
    <2> QED BY <2>1 DEF ReadTail, HoldsLock, LockOf
<1> QED BY <1>1, <1>5, <1>6 DEF InsertersHoldLock

\* InsertOk: the new row has a positive seq, the lock passes on.
LEMMA InsertOkTypeStep ==
    ASSUME TypeInv, NEW w \in Slots, InsertOk(w)
    PROVE  LedgerTypeOK' /\ IngestTypeOK' /\ InsertersHoldLock'
<1> USE DEF TypeInv, TypeOK
<1>1. task[w] \in Drafts /\ ChainOf[task[w]] \in Chains /\ HoldsLock(w)
    BY ChainAssumption DEF InsertOk, IngestTypeOK, InsertersHoldLock
<1>2. /\ NextRow(w).seq \in Nat \ {0} /\ NextRow(w).at \in Nat
      /\ NextRow(w).draft = task[w]
    BY <1>1, RowFields DEF NextRow, IngestTypeOK
<1>3. LedgerTypeOK'
    BY <1>1, <1>2 DEF InsertOk, AppendRow, LedgerTypeOK
<1>4. \A v \in Slots \ {w} : pc'[v] = pc[v] /\ task'[v] = task[v]
    BY DEF InsertOk, IngestTypeOK
<1>5. pc'[w] = "emit"
    BY DEF InsertOk, IngestTypeOK
<1>6. InsertersHoldLock' /\ chainLocks' \in [Instances -> [Chains -> Seq(Slots)]]
    BY <1>1, <1>4, <1>5, ReleaseKeepsHolders DEF InsertOk
<1>7. IngestTypeOK'
    BY <1>6 DEF InsertOk, IngestTypeOK, SlotStates
<1> QED BY <1>3, <1>6, <1>7

\* InsertConflict: the slot keeps the lock and reads again.
LEMMA InsertConflictTypeStep ==
    ASSUME TypeInv, NEW w \in Slots, InsertConflict(w)
    PROVE  LedgerTypeOK' /\ IngestTypeOK' /\ InsertersHoldLock'
<1> USE DEF TypeInv, TypeOK
<1>1. LedgerTypeOK'
    BY SameLedgerType DEF InsertConflict
<1>2. IngestTypeOK'
    BY DEF InsertConflict, IngestTypeOK, SlotStates
<1>3. InsertersHoldLock'
    BY DEF InsertConflict, InsertersHoldLock, HoldsLock, LockOf, IngestTypeOK
<1> QED BY <1>1, <1>2, <1>3

\* A failed append releases the lock and rejects the job.
LEMMA FailAppendTypeStep ==
    ASSUME TypeInv, NEW w \in Slots, RetriesExhausted(w) \/ DatabaseFails(w)
    PROVE  LedgerTypeOK' /\ IngestTypeOK' /\ InsertersHoldLock'
<1> USE DEF TypeInv, TypeOK
<1>1. FailAppend(w) /\ HoldsLock(w) /\ task[w] \in Drafts
    BY DEF RetriesExhausted, DatabaseFails, InsertersHoldLock, IngestTypeOK
<1>2. LedgerTypeOK'
    BY <1>1, SameLedgerType DEF FailAppend
<1>3. /\ \A v \in Slots \ {w} : pc'[v] = pc[v] /\ task'[v] = task[v]
      /\ pc'[w] = "idle"
    BY <1>1, LeaveSlotType DEF FailAppend
<1>4. InsertersHoldLock' /\ chainLocks' \in [Instances -> [Chains -> Seq(Slots)]]
    BY <1>1, <1>3, ReleaseKeepsHolders DEF FailAppend
<1>5. job' \in [Drafts -> JobStates] /\ attemptsMade' \in [Drafts -> Nat]
    BY <1>1 DEF FailAppend, RejectJob, IngestTypeOK, JobStates
<1>6. IngestTypeOK'
    BY <1>1, <1>4, <1>5, LeaveSlotType DEF FailAppend, IngestTypeOK
<1> QED BY <1>2, <1>4, <1>6

\* Complete: the slot holds no lock any more.
LEMMA CompleteTypeStep ==
    ASSUME TypeInv, NEW w \in Slots, Complete(w)
    PROVE  LedgerTypeOK' /\ IngestTypeOK' /\ InsertersHoldLock'
<1> USE DEF TypeInv, TypeOK
<1>1. LedgerTypeOK'
    BY SameLedgerType DEF Complete
<1>2. job' \in [Drafts -> JobStates]
    BY DEF Complete, IngestTypeOK, JobStates
<1>3. IngestTypeOK'
    BY <1>2, LeaveSlotType DEF Complete, IngestTypeOK
<1>4. InsertersHoldLock'
    BY LeaveSlotType DEF Complete, InsertersHoldLock, HoldsLock, LockOf
<1> QED BY <1>1, <1>3, <1>4

\* A crash empties the slots and the locks of one process.
LEMMA CrashTypeStep ==
    ASSUME TypeInv, NEW i \in Instances, CrashSlots(i)
    PROVE  LedgerTypeOK' /\ IngestTypeOK' /\ InsertersHoldLock'
<1> USE DEF TypeInv, TypeOK
<1>1. LedgerTypeOK'
    BY SameLedgerType DEF CrashSlots
<1>2. [c \in Chains |-> << >>] \in [Chains -> Seq(Slots)]
    BY EmptySeq
<1>3. chainLocks' \in [Instances -> [Chains -> Seq(Slots)]]
    BY <1>2 DEF CrashSlots, IngestTypeOK
<1>4. IngestTypeOK'
    BY <1>3, IngestAssumption DEF CrashSlots, IngestTypeOK, SlotStates, NoRow
<1>5. ASSUME NEW v \in Slots, pc'[v] = "insert" PROVE HoldsLock(v)'
    <2>1. InstanceOf[v] # i /\ pc[v] = "insert" /\ task'[v] = task[v]
        BY <1>5 DEF CrashSlots
    <2>2. HoldsLock(v)
        BY <2>1 DEF InsertersHoldLock
    <2>3. chainLocks'[InstanceOf[v]] = chainLocks[InstanceOf[v]]
        BY <2>1, IngestAssumption DEF CrashSlots, IngestTypeOK
    <2> QED BY <2>1, <2>2, <2>3 DEF HoldsLock, LockOf
<1> QED BY <1>1, <1>4, <1>5 DEF InsertersHoldLock

\* Cutting a chain keeps the ledger's type.
LEMMA PruneLedgerType ==
    ASSUME LedgerTypeOK, NEW c \in Chains, NEW n, PruneUpTo(c, n)
    PROVE  LedgerTypeOK'
BY DEF LedgerTypeOK, PruneUpTo, KeepAbove

\* A step of one sweep keeps the type when that sweep's new state has it.
LEMMA SweepUpdateType ==
    ASSUME RetentionTypeOK, NEW s \in Sweepers, NEW x, SweepTypeOK(x),
           sweep' = [sweep EXCEPT ![s] = x]
    PROVE  RetentionTypeOK'
BY DEF RetentionTypeOK

\* Leaving a chain, done or failed, keeps the sweep's type.
LEMMA NextChainType ==
    ASSUME RetentionTypeOK, NEW s \in Sweepers, NextChain(s)
    PROVE  RetentionTypeOK'
BY DEF RetentionTypeOK, SweepTypeOK, NextChain, IdleSweep, SweepStates

\* Moving on to a later await of the same chain keeps the sweep's type.
LEMMA GotoType ==
    ASSUME RetentionTypeOK, NEW s \in Sweepers, NEW label \in SweepStates,
           sweep[s].pc \notin {"idle", "next"}, Goto(s, label)
    PROVE  RetentionTypeOK'
BY DEF RetentionTypeOK, SweepTypeOK, Goto, IdleSweep

\* The reads that fix the segment a sweep removes.
LEMMA SweepReadsTypeStep ==
    ASSUME TypeInv, NEW s \in Sweepers,
           \/ StartSweep(s)
           \/ \E c \in Chains : SweepFirst(s, c)
           \/ SweepRetained(s)
           \/ SweepBound(s)
    PROVE  RetentionTypeOK' /\ LedgerTypeOK'
<1> USE DEF TypeInv, TypeOK
<1>0. SweepTypeOK(sweep[s])
    BY DEF RetentionTypeOK
<1>1. LedgerTypeOK'
    BY SameLedgerType DEF StartSweep, SweepFirst, SweepRetained, SweepBound
<1>2. CASE StartSweep(s)
    <2> DEFINE x == [IdleSweep EXCEPT !.pc = "next", !.start = now,
                                      !.todo = {c \in Chains : ledger[c] # {}}]
    <2>1. SweepTypeOK(x)
        BY DEF SweepTypeOK, IdleSweep, SweepStates
    <2>2. sweep' = [sweep EXCEPT ![s] = x]
        BY <1>2 DEF StartSweep
    <2> HIDE DEF x
    <2> QED BY <1>1, <2>1, <2>2, SweepUpdateType
<1>3. ASSUME NEW c \in Chains, SweepFirst(s, c) PROVE RetentionTypeOK'
    <2>1. PICK first \in FirstSeq(ledger[c]) : sweep' = [sweep EXCEPT
              ![s].todo = @ \ {c},
              ![s].chain = IF ledger[c] = {} THEN {} ELSE c,
              ![s].first = first,
              ![s].pc = IF ledger[c] = {} THEN "next" ELSE "retained"]
        BY <1>3 DEF SweepFirst
    <2>2. first \in Nat
        BY <2>1, FirstSeqType DEF LedgerTypeOK
    <2> DEFINE x == [sweep[s] EXCEPT !.todo = @ \ {c},
                                     !.chain = IF ledger[c] = {} THEN {} ELSE c,
                                     !.first = first,
                                     !.pc = IF ledger[c] = {} THEN "next" ELSE "retained"]
    <2>3. SweepTypeOK(x)
        BY <1>0, <2>2 DEF SweepTypeOK, IdleSweep, SweepStates
    <2>4. sweep' = [sweep EXCEPT ![s] = x]
        BY <2>1 DEF RetentionTypeOK
    <2> HIDE DEF x
    <2> QED BY <1>1, <2>3, <2>4, SweepUpdateType
<1>4. CASE SweepRetained(s)
    <2>1. sweep[s].chain \in Chains
        BY <1>0, <1>4 DEF SweepRetained, SweepTypeOK
    <2>2. PICK seq \in FirstSeqAtOrAfter(Swept(s), Cutoff(s)) :
              sweep' = [sweep EXCEPT ![s].retained = seq, ![s].pc = "bound"]
        BY <1>4 DEF SweepRetained
    <2>3. seq \in Nat
        BY <2>1, <2>2, FirstSeqType DEF FirstSeqAtOrAfter, Swept, LedgerTypeOK
    <2> DEFINE x == [sweep[s] EXCEPT !.retained = seq, !.pc = "bound"]
    <2>4. SweepTypeOK(x)
        BY <1>0, <2>1, <2>3 DEF SweepTypeOK, IdleSweep, SweepStates
    <2>5. sweep' = [sweep EXCEPT ![s] = x]
        BY <2>2 DEF RetentionTypeOK
    <2> HIDE DEF x
    <2> QED BY <1>1, <2>4, <2>5, SweepUpdateType
<1>5. CASE SweepBound(s)
    <2>1. sweep[s].chain \in Chains /\ sweep[s].retained \in Nat
        BY <1>0, <1>5 DEF SweepBound, SweepTypeOK
    <2>2. PICK last \in FindLast(Swept(s)) :
              \/ NextChain(s)
              \/ sweep' = [sweep EXCEPT ![s].bound = BoundOf(s, last),
                                        ![s].pc = IF ArchiveBeforeDelete THEN "open" ELSE "prune"]
        BY <1>5 DEF SweepBound
    <2>3. last.seq \in Nat
        BY <2>1, <2>2, FindLastIsLast DEF Swept, IsLast, NoRow, LedgerTypeOK
    <2>4. BoundOf(s, last) \in Nat
        BY <2>1, <2>3 DEF BoundOf
    <2> DEFINE x == [sweep[s] EXCEPT !.bound = BoundOf(s, last),
                                     !.pc = IF ArchiveBeforeDelete THEN "open" ELSE "prune"]
    <2>5. SweepTypeOK(x)
        BY <1>0, <2>1, <2>4 DEF SweepTypeOK, IdleSweep, SweepStates
    <2>6. NextChain(s) \/ sweep' = [sweep EXCEPT ![s] = x]
        BY <2>2 DEF RetentionTypeOK
    <2> HIDE DEF x
    <2> QED BY <1>1, <2>5, <2>6, NextChainType, SweepUpdateType
<1> QED BY <1>1, <1>2, <1>3, <1>4, <1>5

\* The writes of a sweep, its failures and its end.
LEMMA SweepWritesTypeStep ==
    ASSUME TypeInv, NEW s \in Sweepers,
           \/ SweepOpen(s) \/ SweepWrite(s) \/ SweepRecord(s) \/ SweepEmit(s)
           \/ SweepPrune(s) \/ SweepEnd(s) \/ SweepChainFails(s) \/ CrashSweep(s)
    PROVE  RetentionTypeOK' /\ LedgerTypeOK'
<1> USE DEF TypeInv, TypeOK
<1>0. SweepTypeOK(sweep[s])
    BY DEF RetentionTypeOK
<1>1. CASE SweepOpen(s)
    <2>1. LedgerTypeOK'
        BY <1>1, SameLedgerType DEF SweepOpen
    <2>2. CASE NextChain(s)
        BY <2>1, <2>2, NextChainType
    <2>3. ASSUME NEW r \in Swept(s),
                 sweep' = [sweep EXCEPT ![s].root = r.hash, ![s].pc = "write",
                                        ![s].cursor = sweep[s].first - 1]
          PROVE  RetentionTypeOK'
        <3> DEFINE x == [sweep[s] EXCEPT !.root = r.hash, !.pc = "write",
                                         !.cursor = sweep[s].first - 1]
        <3>1. sweep[s].pc = "open"
            BY <1>1 DEF SweepOpen
        <3>2. SweepTypeOK(x)
            BY <1>0, <3>1 DEF SweepTypeOK, IdleSweep, SweepStates
        <3>3. sweep' = [sweep EXCEPT ![s] = x]
            BY <2>3 DEF RetentionTypeOK
        <3> HIDE DEF x
        <3> QED BY <3>2, <3>3, SweepUpdateType
    <2> QED BY <1>1, <2>1, <2>2, <2>3 DEF SweepOpen
<1>2. CASE SweepWrite(s)
    <2>1. LedgerTypeOK'
        BY <1>2, SameLedgerType DEF SweepWrite
    <2>2. sweep[s].pc = "write" /\ sweep[s].chain \in Chains
        BY <1>0, <1>2 DEF SweepWrite, SweepTypeOK
    <2>3. CASE Goto(s, "record")
        BY <2>1, <2>2, <2>3, GotoType DEF SweepStates
    <2>4. ASSUME NEW r \in Swept(s), sweep' = [sweep EXCEPT ![s].cursor = r.seq]
          PROVE  RetentionTypeOK'
        <3>1. r.seq \in Int
            BY <2>2, <2>4 DEF Swept, LedgerTypeOK
        <3> QED BY <1>0, <2>2, <2>4, <3>1 DEF RetentionTypeOK, SweepTypeOK, IdleSweep
    <2> QED BY <1>2, <2>1, <2>3, <2>4 DEF SweepWrite, Page
<1>3. CASE SweepRecord(s) \/ SweepEmit(s)
    <2>1. LedgerTypeOK'
        BY <1>3, SameLedgerType DEF SweepRecord, SweepEmit
    <2> QED BY <1>3, <2>1, GotoType DEF SweepRecord, SweepEmit, SweepStates
<1>4. CASE SweepPrune(s)
    <2>1. sweep[s].chain \in Chains
        BY <1>0, <1>4 DEF SweepPrune, SweepTypeOK
    <2> QED BY <1>4, <2>1, PruneLedgerType, NextChainType DEF SweepPrune
<1>5. CASE SweepEnd(s) \/ CrashSweep(s)
    <2>1. LedgerTypeOK'
        BY <1>5, SameLedgerType DEF SweepEnd, CrashSweep
    <2>2. sweep' = [sweep EXCEPT ![s] = IdleSweep]
        BY <1>5 DEF SweepEnd, CrashSweep
    <2> QED BY <2>1, <2>2 DEF RetentionTypeOK, SweepTypeOK, IdleSweep, SweepStates
<1>6. CASE SweepChainFails(s)
    <2>1. LedgerTypeOK'
        BY <1>6, SameLedgerType DEF SweepChainFails
    <2> QED BY <1>6, <2>1, NextChainType DEF SweepChainFails
<1> QED BY <1>1, <1>2, <1>3, <1>4, <1>5, <1>6

\* Every step keeps the type invariant.
LEMMA NextTypeInv == TypeInv /\ [Next]_vars => TypeInv'
<1> SUFFICES ASSUME TypeInv, [Next]_vars PROVE TypeInv'
    OBVIOUS
<1> USE DEF TypeInv, TypeOK
<1>1. CASE IngestStep
    <2>1. LedgerTypeOK' /\ IngestTypeOK' /\ InsertersHoldLock'
        BY <1>1, QueueTypeStep, TakeTypeStep, ReadTailTypeStep, InsertOkTypeStep,
           InsertConflictTypeStep, FailAppendTypeStep, CompleteTypeStep
           DEF IngestStep, SlotStep
    <2>2. RetentionTypeOK'
        BY <1>1 DEF IngestStep, retentionVars, RetentionTypeOK
    <2>3. now' \in Nat /\ disturbed' \subseteq {v \in Verifiers : verifier'[v].pc # "idle"}
        BY <1>1 DEF IngestStep, verifyVars
    <2> QED BY <2>1, <2>2, <2>3
<1>2. CASE RetentionStep
    <2>1. IngestTypeOK' /\ InsertersHoldLock'
        BY <1>2, SameIngest DEF RetentionStep
    <2>2. LedgerTypeOK' /\ RetentionTypeOK'
        BY <1>2, SweepReadsTypeStep, SweepWritesTypeStep DEF RetentionStep, SweepStep
    <2>3. now' \in Nat /\ disturbed' \subseteq {v \in Verifiers : verifier'[v].pc # "idle"}
        BY <1>2 DEF RetentionStep, verifyVars
    <2> QED BY <2>1, <2>2, <2>3
<1>3. CASE VerificationStep
    <2>1. LedgerTypeOK' /\ IngestTypeOK' /\ InsertersHoldLock'
        <3>1. UNCHANGED ledger
            BY <1>3 DEF VerificationStep, VerifyStep, VerifyStart, VerifyAnchor, VerifyScan, VerifyReturn
        <3>2. (\E d \in Drafts : Enqueue(d)) \/ UNCHANGED ingestVars
            BY <1>3 DEF VerificationStep, MetaAudit
        <3> QED BY <3>1, <3>2, SameLedgerType, SameIngest, QueueTypeStep
    <2>2. RetentionTypeOK'
        BY <1>3 DEF VerificationStep, retentionVars, RetentionTypeOK
    <2>3. now' \in Nat /\ disturbed' \subseteq {v \in Verifiers : verifier'[v].pc # "idle"}
        BY <1>3 DEF VerificationStep
    <2> QED BY <2>1, <2>2, <2>3
<1>4. ASSUME NEW i \in Instances, Crash(i) PROVE TypeInv'
    <2>1. LedgerTypeOK' /\ IngestTypeOK' /\ InsertersHoldLock'
        BY <1>4, CrashTypeStep DEF Crash
    <2>2. RetentionTypeOK'
        BY <1>4 DEF Crash, retentionVars, RetentionTypeOK
    <2>3. now' \in Nat /\ disturbed' \subseteq {v \in Verifiers : verifier'[v].pc # "idle"}
        BY <1>4 DEF Crash, verifyVars
    <2> QED BY <2>1, <2>2, <2>3
<1>5. CASE Tick \/ UNCHANGED vars
    <2>1. UNCHANGED << ledger, disturbed, ingestVars, retentionVars, verifyVars >> /\ now' \in Nat
        BY <1>5 DEF Tick, vars
    <2>2. LedgerTypeOK' /\ IngestTypeOK' /\ InsertersHoldLock'
        BY <2>1, SameLedgerType, SameIngest
    <2>3. RetentionTypeOK'
        BY <2>1 DEF retentionVars, RetentionTypeOK
    <2> QED BY <2>1, <2>2, <2>3 DEF verifyVars
<1> QED BY <1>1, <1>2, <1>3, <1>4, <1>5 DEF Next

\* Every variable of the audit module keeps its type, whatever the numbers of
\* processes, slots, drafts, chains, sweeps and verifications.
THEOREM TypeCorrect == Spec => []TypeOK
<1>1. TypeInv => TypeOK
    BY DEF TypeInv
<1> QED BY <1>1, InitTypeInv, NextTypeInv, PTL DEF Spec

-----------------------------------------------------------------------------
(* Intact chains, for one process.  ChainsIntact is not inductive: an       *)
(* insert keeps it only because the tail it was built on is still the top   *)
(* of the chain (TailsFresh), and that stays true because nobody else can   *)
(* insert into the chain meanwhile (InsertersHoldLock).                     *)

SafeInv == TypeInv /\ TailsFresh /\ ChainsIntact

\* Steps that change neither the ledger nor an inserter's tail.
LEMMA SameTails ==
    ASSUME TailsFresh, UNCHANGED ledger,
           \A v \in Slots : pc'[v] = "insert" =>
               pc[v] = "insert" /\ task'[v] = task[v] /\ tail'[v] = tail[v]
    PROVE  TailsFresh'
BY DEF TailsFresh

\* One process: a slot about to insert has its chain for itself.
LEMMA InsertersExclusive ==
    ASSUME OneProcessOnly, InsertersHoldLock, NEW v \in Slots, NEW w \in Slots,
           pc[v] = "insert", pc[w] = "insert", ChainOf[task[v]] = ChainOf[task[w]]
    PROVE  v = w
BY DEF OneProcessOnly, InsertersHoldLock, HoldsLock, LockOf

\* What an inserter appends goes on top of its chain.
LEMMA NextRowOnTop ==
    ASSUME SafeInv, NEW w \in Slots, pc[w] = "insert"
    PROVE  LET rows == ledger[ChainOf[task[w]]]
           IN  /\ rows = {} \/ \E p \in rows : IsLast(p, rows) /\ Follows(NextRow(w), p)
               /\ NextRow(w).seq \in Nat /\ NextRow(w).seq = tail[w].seq + 1
               /\ NextRow(w).draft = task[w] /\ ContentOk(NextRow(w))
<1> USE DEF SafeInv, TypeInv, TypeOK
<1>1. /\ NextRow(w).seq = tail[w].seq + 1 /\ NextRow(w).previousHash = tail[w].hash
      /\ NextRow(w).draft = task[w] /\ ContentOk(NextRow(w))
    BY RowFields DEF NextRow
<1>2. tail[w].seq \in Nat
    BY DEF IngestTypeOK
<1> QED BY <1>1, <1>2 DEF TailsFresh, IsLast, Follows

\* An insert keeps every chain intact and every other tail fresh.
LEMMA InsertOkSafe ==
    ASSUME OneProcessOnly, SafeInv, NEW w \in Slots, InsertOk(w)
    PROVE  TailsFresh' /\ ChainsIntact'
<1> USE DEF SafeInv, TypeInv, TypeOK
<1> DEFINE c == ChainOf[task[w]]
<1>1. pc[w] = "insert" /\ c \in Chains
    BY ChainAssumption DEF InsertOk, IngestTypeOK
<1>2. ledger' = [ledger EXCEPT ![c] = @ \cup {NextRow(w)}]
    BY DEF InsertOk, AppendRow
<1>3. Intact(ledger[c] \cup {NextRow(w)})
    <2>1. Intact(ledger[c]) /\ \A r \in ledger[c] : r.seq \in Nat
        BY <1>1 DEF ChainsIntact, LedgerTypeOK
    <2> QED BY <1>1, <2>1, NextRowOnTop, AppendKeepsIntact
<1>4. ChainsIntact'
    BY <1>1, <1>2, <1>3 DEF ChainsIntact, LedgerTypeOK
<1>5. ASSUME NEW v \in Slots, pc'[v] = "insert"
      PROVE  /\ pc[v] = "insert" /\ task'[v] = task[v] /\ tail'[v] = tail[v]
             /\ ledger'[ChainOf[task[v]]] = ledger[ChainOf[task[v]]]
    <2>1. v # w /\ pc[v] = "insert" /\ task'[v] = task[v] /\ tail'[v] = tail[v]
        BY <1>5 DEF InsertOk, IngestTypeOK
    <2>2. ChainOf[task[v]] # c
        BY <1>1, <2>1, InsertersExclusive
    <2> QED BY <1>2, <2>1, <2>2, ChainAssumption DEF LedgerTypeOK, IngestTypeOK
<1>6. TailsFresh'
    BY <1>5 DEF TailsFresh
<1> QED BY <1>4, <1>6

\* A prune keeps every chain intact; a tail stays the top of what is left.
LEMMA PruneSafe ==
    ASSUME SafeInv, NEW c \in Chains, NEW n \in Nat, PruneUpTo(c, n), UNCHANGED ingestVars
    PROVE  TailsFresh' /\ ChainsIntact'
<1> USE DEF SafeInv, TypeInv, TypeOK
<1>1. ledger' = [ledger EXCEPT ![c] = KeepAbove(@, n)]
    BY DEF PruneUpTo
<1>2. Intact(KeepAbove(ledger[c], n))
    BY PruneKeepsIntact DEF ChainsIntact, LedgerTypeOK
<1>3. ChainsIntact'
    BY <1>1, <1>2 DEF ChainsIntact, LedgerTypeOK
<1>4. ASSUME NEW v \in Slots, pc'[v] = "insert"
      PROVE  ledger'[ChainOf[task'[v]]] = {} \/ IsLast(tail'[v], ledger'[ChainOf[task'[v]]])
    <2>1. pc[v] = "insert" /\ task'[v] = task[v] /\ tail'[v] = tail[v]
        BY <1>4 DEF ingestVars
    <2>2. ChainOf[task[v]] \in Chains
        BY <2>1, ChainAssumption DEF IngestTypeOK
    <2>3. ledger[ChainOf[task[v]]] = {} \/ IsLast(tail[v], ledger[ChainOf[task[v]]])
        BY <2>1 DEF TailsFresh
    <2>4. CASE ChainOf[task[v]] # c
        BY <1>1, <2>1, <2>2, <2>3, <2>4 DEF LedgerTypeOK
    <2>5. CASE ChainOf[task[v]] = c
        <3>1. ledger'[c] = KeepAbove(ledger[c], n) /\ \A r \in ledger[c] : r.seq \in Nat
            BY <1>1 DEF LedgerTypeOK
        <3> QED BY <2>1, <2>3, <2>5, <3>1 DEF KeepAbove, IsLast
    <2> QED BY <2>4, <2>5
<1>5. TailsFresh'
    BY <1>4 DEF TailsFresh
<1> QED BY <1>3, <1>5

\* What a step of the sweeps does to the ledger: nothing, or a prune.
LEMMA RetentionLedger ==
    ASSUME TypeInv, RetentionStep
    PROVE  \/ UNCHANGED ledger
           \/ \E c \in Chains, n \in Nat : PruneUpTo(c, n)
<1> USE DEF TypeInv, TypeOK
<1>1. PICK s \in Sweepers : StartSweep(s) \/ SweepStep(s) \/ SweepChainFails(s) \/ CrashSweep(s)
    BY DEF RetentionStep
<1>2. CASE SweepPrune(s)
    <2>1. sweep[s].chain \in Chains /\ sweep[s].bound \in Nat
        BY <1>2 DEF SweepPrune, RetentionTypeOK, SweepTypeOK
    <2> QED BY <1>2, <2>1 DEF SweepPrune
<1>3. CASE ~SweepPrune(s)
    BY <1>1, <1>3 DEF StartSweep, SweepStep, SweepFirst, SweepRetained, SweepBound, SweepOpen,
                      SweepWrite, SweepRecord, SweepEmit, SweepEnd, SweepChainFails, CrashSweep
<1> QED BY <1>2, <1>3

\* Every step of one process keeps the safety invariant.
LEMMA NextSafeInv == OneProcessOnly /\ SafeInv /\ [Next]_vars => SafeInv'
<1> SUFFICES ASSUME OneProcessOnly, SafeInv, [Next]_vars PROVE SafeInv'
    OBVIOUS
<1> USE DEF SafeInv
<1>1. TypeInv'
    BY NextTypeInv
<1>2. ASSUME UNCHANGED ledger PROVE ChainsIntact'
    BY <1>2 DEF ChainsIntact
<1>3. ASSUME UNCHANGED << ledger, ingestVars >> PROVE TailsFresh'
    BY <1>3, SameTails DEF ingestVars
<1>4. ASSUME NEW w \in Slots, ReadTail(w) PROVE TailsFresh'
    <2>1. task[w] \in Drafts /\ ChainOf[task[w]] \in Chains
        BY <1>4, ChainAssumption DEF ReadTail, TypeInv, TypeOK, IngestTypeOK
    <2>2. PICK r \in FindLast(ledger[ChainOf[task[w]]]) : tail' = [tail EXCEPT ![w] = r]
        BY <1>4 DEF ReadTail
    <2>3. ledger[ChainOf[task[w]]] = {} \/ IsLast(r, ledger[ChainOf[task[w]]])
        BY <2>2, FindLastIsLast
    <2> QED BY <1>4, <2>2, <2>3 DEF ReadTail, TailsFresh, TypeInv, TypeOK, IngestTypeOK
<1>5. ASSUME NEW d \in Drafts, Enqueue(d) \/ Stall(d) PROVE TailsFresh'
    BY <1>5, SameTails DEF Enqueue, Stall
<1>6. ASSUME NEW w \in Slots, (\E d \in Drafts : Take(w, d)) \/ InsertConflict(w) PROVE TailsFresh'
    BY <1>6, SameTails DEF Take, InsertConflict, TypeInv, TypeOK, IngestTypeOK
<1>7. ASSUME NEW w \in Slots, RetriesExhausted(w) \/ DatabaseFails(w) \/ Complete(w)
      PROVE  TailsFresh'
    <2>1. LeaveSlot(w) /\ UNCHANGED ledger
        BY <1>7 DEF RetriesExhausted, DatabaseFails, FailAppend, Complete
    <2> QED BY <2>1, SameTails DEF LeaveSlot, TypeInv, TypeOK, IngestTypeOK
<1>8. CASE IngestStep
    <2>1. ASSUME NEW w \in Slots, InsertOk(w) PROVE SafeInv'
        BY <1>1, <2>1, InsertOkSafe
    <2>2. ASSUME ~\E w \in Slots : InsertOk(w) PROVE UNCHANGED ledger
        BY <1>8, <2>2 DEF IngestStep, SlotStep, Enqueue, Stall, Take, ReadTail, InsertConflict,
                          RetriesExhausted, DatabaseFails, FailAppend, Complete
    <2>3. ASSUME ~\E w \in Slots : InsertOk(w) PROVE TailsFresh'
        BY <1>4, <1>5, <1>6, <1>7, <1>8, <2>3 DEF IngestStep, SlotStep
    <2> QED BY <1>1, <1>2, <2>1, <2>2, <2>3
<1>9. CASE RetentionStep
    <2>1. UNCHANGED ingestVars
        BY <1>9 DEF RetentionStep
    <2> QED BY <1>1, <1>2, <1>3, <1>9, <2>1, RetentionLedger, PruneSafe
<1>10. CASE VerificationStep
    <2>1. UNCHANGED ledger
        BY <1>10 DEF VerificationStep, VerifyStep, VerifyStart, VerifyAnchor, VerifyScan, VerifyReturn
    <2>2. (\E d \in Drafts : Enqueue(d)) \/ UNCHANGED ingestVars
        BY <1>10 DEF VerificationStep, MetaAudit
    <2> QED BY <1>1, <1>2, <1>3, <1>5, <2>1, <2>2
<1>11. ASSUME NEW i \in Instances, Crash(i) PROVE SafeInv'
    <2>1. UNCHANGED ledger
        BY <1>11 DEF Crash, CrashSlots
    <2>2. TailsFresh'
        BY <1>11, SameTails DEF Crash, CrashSlots
    <2> QED BY <1>1, <1>2, <2>1, <2>2
<1>12. CASE Tick \/ UNCHANGED vars
    BY <1>1, <1>2, <1>3, <1>12 DEF Tick, vars
<1> QED BY <1>8, <1>9, <1>10, <1>11, <1>12 DEF Next

LEMMA InitSafeInv == Init => SafeInv
<1>1. Init => TailsFresh /\ ChainsIntact
    BY DEF Init, IngestInit, TailsFresh, ChainsIntact, Intact, UniqueSeqs, Linked
<1> QED BY <1>1, InitTypeInv DEF SafeInv

\* In one process every chain stays intact, whatever the slots, sweeps,
\* crashes and stalled jobs interleave: withChainLock and appendWithRetry need
\* no unique index for it.
THEOREM OneProcessChainsIntact ==
    ASSUME OneProcessOnly
    PROVE  Spec => []ChainsIntact
<1>1. SafeInv => ChainsIntact
    BY DEF SafeInv
<1>2. SafeInv /\ [Next]_vars => SafeInv'
    BY NextSafeInv
<1> QED BY <1>1, <1>2, InitSafeInv, PTL DEF Spec

-----------------------------------------------------------------------------
(* The module implements the audit trail. *)

\* The requested drafts are those whose job exists; no step takes a job away.
LEMMA InsertOkRecords ==
    ASSUME TypeInv, NEW w \in Slots, InsertOk(w), job[task[w]] # "none",
           LET rows == ledger[ChainOf[task[w]]]
           IN  rows = {} \/ \E p \in rows : IsLast(p, rows) /\ Follows(NextRow(w), p)
    PROVE  Trail!Record(task[w])
<1> USE DEF TypeInv, TypeOK
<1> DEFINE c == ChainOf[task[w]]
<1>1. pc[w] = "insert" /\ task[w] \in Drafts /\ c \in Chains
    BY ChainAssumption DEF InsertOk, IngestTypeOK
<1>2. ledger' = [ledger EXCEPT ![c] = @ \cup {NextRow(w)}] /\ UNCHANGED job
    BY DEF InsertOk, AppendRow
<1>3. NextRow(w) \in ledger'[c]
    BY <1>1, <1>2 DEF LedgerTypeOK
<1>4. NextRow(w).draft = task[w] /\ ContentOk(NextRow(w))
    BY RowFields DEF NextRow
<1>5. ledger[c] = {} \/ \E p \in ledger[c] : IsLast(p, ledger[c]) /\ Follows(NextRow(w), p)
    OBVIOUS
<1> QED BY <1>1, <1>2, <1>3, <1>4, <1>5
        DEF Trail!Record, Trail!ContentOk, Trail!Hash, Trail!IsLast, Trail!Follows, Trail!AppendRow,
            ContentOk, Hash, IsLast, Follows

\* A prune takes a bottom part of one trail.
LEMMA PruneIsPrune ==
    ASSUME TypeInv, NEW c \in Chains, NEW n \in Nat, PruneUpTo(c, n), UNCHANGED job
    PROVE  Trail!Prune(c)
<1> USE DEF TypeInv, TypeOK
<1>1. KeepAbove(ledger[c], n) \in SUBSET ledger[c]
    BY DEF KeepAbove
<1>2. \A r \in KeepAbove(ledger[c], n), q \in ledger[c] \ KeepAbove(ledger[c], n) : q.seq < r.seq
    BY DEF KeepAbove, LedgerTypeOK
<1>3. ledger' = [ledger EXCEPT ![c] = KeepAbove(ledger[c], n)]
    BY DEF PruneUpTo
<1> QED BY <1>1, <1>2, <1>3 DEF Trail!Prune

Requested == {d \in Drafts : job[d] # "none"}

\* A slot works only on drafts whose job exists.
TasksRequested == \A w \in Slots : task[w] \in Drafts => job[task[w]] # "none"

TrailInv == SafeInv /\ TasksRequested

\* Only Enqueue brings a job into being, and nothing takes one away.
LEMMA RequestedStep ==
    ASSUME TypeInv, TasksRequested, [Next]_vars
    PROVE  \/ UNCHANGED Requested
           \/ \E d \in Drafts : Enqueue(d) /\ Requested' = Requested \cup {d}
<1> USE DEF TypeInv, TypeOK
<1>1. ASSUME NEW d \in Drafts, Enqueue(d) PROVE Requested' = Requested \cup {d}
    BY <1>1 DEF Enqueue, Requested, IngestTypeOK
<1>2. ASSUME NEW d \in Drafts, Stall(d) PROVE UNCHANGED Requested
    BY <1>2 DEF Stall, Requested, IngestTypeOK
<1>3. ASSUME NEW w \in Slots, NEW d \in Drafts, Take(w, d) PROVE UNCHANGED Requested
    BY <1>3 DEF Take, Requested, IngestTypeOK
<1>4. ASSUME NEW w \in Slots, RetriesExhausted(w) \/ DatabaseFails(w) \/ Complete(w)
      PROVE  UNCHANGED Requested
    <2>1. task[w] \in Drafts /\ job[task[w]] # "none"
        BY <1>4 DEF RetriesExhausted, DatabaseFails, Complete, IngestTypeOK, TasksRequested
    <2>2. PICK to \in JobStates \ {"none"} : job' = [job EXCEPT ![task[w]] = to]
        BY <1>4 DEF RetriesExhausted, DatabaseFails, FailAppend, RejectJob, Complete, JobStates
    <2> QED BY <2>1, <2>2 DEF Requested, IngestTypeOK
<1>5. ASSUME UNCHANGED job PROVE UNCHANGED Requested
    BY <1>5 DEF Requested
<1>6. CASE IngestStep
    <2>1. ASSUME NEW w \in Slots, ReadTail(w) \/ InsertOk(w) \/ InsertConflict(w)
          PROVE  UNCHANGED job
        BY <2>1 DEF ReadTail, InsertOk, InsertConflict
    <2> QED BY <1>1, <1>2, <1>3, <1>4, <1>5, <1>6, <2>1 DEF IngestStep, SlotStep
<1>7. CASE VerificationStep
    BY <1>1, <1>5, <1>7 DEF VerificationStep, MetaAudit, ingestVars
<1>8. CASE RetentionStep \/ Tick \/ (\E i \in Instances : Crash(i)) \/ UNCHANGED vars
    BY <1>5, <1>8 DEF RetentionStep, Tick, Crash, CrashSlots, vars, ingestVars
<1> QED BY <1>6, <1>7, <1>8 DEF Next

LEMMA NextTasksRequested ==
    ASSUME TypeInv, TasksRequested, [Next]_vars
    PROVE  TasksRequested'
<1> USE DEF TypeInv, TypeOK
<1>1. Requested \subseteq Requested'
    BY RequestedStep
<1>2. ASSUME NEW v \in Slots, task'[v] \in Drafts
      PROVE  task'[v] \in Requested'
    <2>1. CASE task'[v] = task[v]
        BY <1>1, <1>2, <2>1 DEF TasksRequested, Requested
    <2>2. CASE task'[v] # task[v]
        <3>1. \E w \in Slots, d \in Drafts : Take(w, d)
            BY <1>2, <2>2, IngestAssumption
               DEF Next, IngestStep, RetentionStep, VerificationStep, MetaAudit, Crash, CrashSlots, Tick,
                   vars, ingestVars, SlotStep, Enqueue, Stall, ReadTail, InsertOk, InsertConflict,
                   RetriesExhausted, DatabaseFails, FailAppend, Complete, LeaveSlot, IngestTypeOK
        <3>2. PICK w \in Slots, d \in Drafts : Take(w, d)
            BY <3>1
        <3>3. job[d] = "waiting" /\ task' = [task EXCEPT ![w] = d]
            BY <3>2 DEF Take
        <3>4. task'[v] = d /\ d \in Requested
            BY <2>2, <3>3 DEF IngestTypeOK, Requested
        <3> QED BY <1>1, <3>4
    <2> QED BY <2>1, <2>2
<1> QED BY <1>2 DEF TasksRequested, Requested

\* Where an insert puts its row on top of the chain, every step is a step of the
\* audit trail, or none of it.
LEMMA TrailStep ==
    ASSUME TypeInv, TasksRequested, [Next]_vars,
           \A w \in Slots : InsertOk(w) =>
               LET rows == ledger[ChainOf[task[w]]]
               IN  rows = {} \/ \E p \in rows : IsLast(p, rows) /\ Follows(NextRow(w), p)
    PROVE  [Trail!TrailNext]_(Trail!trailVars)
<1> USE DEF Trail!TrailNext, Trail!trailVars
<1>1. UNCHANGED Requested \/ \E d \in Drafts : Enqueue(d) /\ Requested' = Requested \cup {d}
    BY RequestedStep
<1>2. ASSUME NEW d \in Drafts, Enqueue(d), Requested' = Requested \cup {d}
      PROVE  Trail!Request(d)
    BY <1>2 DEF Trail!Request, Enqueue, Requested
<1>3. ASSUME UNCHANGED Requested, UNCHANGED ledger
      PROVE  UNCHANGED Trail!trailVars
    BY <1>3 DEF Requested
<1>4. ASSUME NEW w \in Slots, InsertOk(w)
      PROVE  \E d \in Drafts : Trail!Record(d)
    <2>1. task[w] \in Drafts
        BY <1>4 DEF InsertOk, TypeInv, TypeOK, IngestTypeOK
    <2> QED BY <1>4, <2>1, InsertOkRecords DEF TasksRequested
<1>5. ASSUME NEW c \in Chains, NEW n \in Nat, PruneUpTo(c, n), UNCHANGED ingestVars
      PROVE  Trail!Prune(c)
    BY <1>5, PruneIsPrune DEF ingestVars
<1>6. CASE RetentionStep
    <2>1. UNCHANGED ingestVars /\ UNCHANGED Requested
        BY <1>6 DEF RetentionStep, ingestVars, Requested
    <2> QED BY <1>3, <1>5, <1>6, <2>1, RetentionLedger
<1>7. CASE \E w \in Slots : InsertOk(w)
    BY <1>4, <1>7
<1>8. CASE ~RetentionStep /\ ~\E w \in Slots : InsertOk(w)
    <2>1. UNCHANGED ledger
        BY <1>8 DEF Next, IngestStep, SlotStep, Enqueue, Stall, Take, ReadTail, InsertConflict,
               RetriesExhausted, DatabaseFails, FailAppend, Complete, VerificationStep, VerifyStep,
               VerifyStart, VerifyAnchor, VerifyScan, VerifyReturn, Crash, CrashSlots, Tick, vars
    <2> QED BY <1>1, <1>2, <1>3, <2>1
<1> QED BY <1>6, <1>7, <1>8

LEMMA InitTrailInv == Init => TrailInv /\ Trail!TrailInit
<1>1. Init => TasksRequested
    BY IngestAssumption DEF Init, IngestInit, TasksRequested
<1>2. Init => Trail!TrailInit
    BY DEF Init, IngestInit, Trail!TrailInit
<1> QED BY <1>1, <1>2, InitSafeInv DEF TrailInv

\* One process implements the audit trail: entries appear one at a time, on
\* top of their chain, linked to the entry below and for a draft that was
\* handed in, and only a bottom part of a chain ever disappears.
THEOREM OneProcessImplementsTrail ==
    ASSUME OneProcessOnly
    PROVE  Spec => ImplementsTrail
<1>1. TrailInv /\ [Next]_vars => TrailInv'
    BY NextSafeInv, NextTasksRequested DEF TrailInv, SafeInv
<1>2. TrailInv /\ [Next]_vars => [Trail!TrailNext]_(Trail!trailVars)
    <2> SUFFICES ASSUME TrailInv, [Next]_vars
                 PROVE  [Trail!TrailNext]_(Trail!trailVars)
        OBVIOUS
    <2>1. ASSUME NEW w \in Slots, InsertOk(w)
          PROVE  LET rows == ledger[ChainOf[task[w]]]
                 IN  rows = {} \/ \E p \in rows : IsLast(p, rows) /\ Follows(NextRow(w), p)
        BY <2>1, NextRowOnTop DEF TrailInv, InsertOk
    <2> QED BY <2>1, TrailStep DEF TrailInv, SafeInv
<1> QED BY <1>1, <1>2, InitTrailInv, PTL DEF Spec, ImplementsTrail, Trail!TrailSpec

-----------------------------------------------------------------------------
(* Intact chains for any number of processes, where the unique index on     *)
(* (scope, guildId, seq) holds and nothing was pruned.  A tail may be stale *)
(* here, but then its successor's seq is taken: an insert that goes through *)
(* was built on the top row.                                                *)

\* The seqs of a chain start at 1 and have no gap.
FromOne(rows) == \A r \in rows : \A n \in 1 .. r.seq : \E p \in rows : p.seq = n

\* A slot about to insert has read the absent row or one that is still there.
TailsPresent ==
    \A w \in Slots : pc[w] = "insert" => tail[w] = NoRow \/ tail[w] \in ledger[ChainOf[task[w]]]

IndexedInv == TypeInv /\ ChainsIntact /\ TailsPresent /\ \A c \in Chains : FromOne(ledger[c])

\* The unique index admits only the successor of the top row.
LEMMA IndexAdmitsTop ==
    ASSUME Chains \subseteq GuildChains, IndexedInv, NEW w \in Slots, InsertOk(w)
    PROVE  LET rows == ledger[ChainOf[task[w]]]
           IN  rows = {} \/ \E p \in rows : IsLast(p, rows) /\ Follows(NextRow(w), p)
<1> USE DEF IndexedInv, TypeInv, TypeOK
<1> DEFINE c == ChainOf[task[w]]
           rows == ledger[c]
           row == NextRow(w)
<1>1. pc[w] = "insert" /\ c \in Chains
    BY ChainAssumption DEF InsertOk, IngestTypeOK
<1>2. \A r \in rows : r.seq \in Nat /\ r.seq # 0 /\ r.seq # row.seq
    BY <1>1 DEF InsertOk, Conflicts, LedgerTypeOK
<1>3. /\ row.seq = tail[w].seq + 1 /\ row.previousHash = tail[w].hash /\ tail[w].seq \in Nat
      /\ tail[w] = NoRow \/ tail[w] \in rows
    BY <1>1, RowFields DEF NextRow, TailsPresent, IngestTypeOK
<1>4. FromOne(rows)
    BY <1>1
<1> HIDE DEF row, rows
<1>5. \A r \in rows : r.seq <= tail[w].seq
    <2> SUFFICES ASSUME NEW r \in rows, ~(r.seq <= tail[w].seq) PROVE FALSE
        OBVIOUS
    <2>1. row.seq \in 1 .. r.seq
        BY <1>2, <1>3
    <2> QED BY <1>2, <1>4, <2>1 DEF FromOne
<1>6. rows = {} \/ tail[w] \in rows
    BY <1>2, <1>3, <1>5 DEF NoRow
<1>7. tail[w] \in rows => IsLast(tail[w], rows) /\ Follows(row, tail[w])
    BY <1>3, <1>5 DEF IsLast, Follows
<1> QED BY <1>6, <1>7 DEF row, rows

LEMMA NextIndexedInv ==
    Chains \subseteq GuildChains /\ Sweepers = {} /\ IndexedInv /\ [Next]_vars => IndexedInv'
<1> SUFFICES ASSUME Chains \subseteq GuildChains, Sweepers = {}, IndexedInv, [Next]_vars
             PROVE  IndexedInv'
    OBVIOUS
<1> USE DEF IndexedInv, TypeInv, TypeOK
<1>1. TypeInv'
    BY NextTypeInv
<1>2. ASSUME UNCHANGED ledger,
             \A v \in Slots : pc'[v] = "insert" =>
                 \/ pc[v] = "insert" /\ task'[v] = task[v] /\ tail'[v] = tail[v]
                 \/ tail'[v] \in FindLast(ledger[ChainOf[task'[v]]])
      PROVE  IndexedInv'
    <2>1. ChainsIntact' /\ \A c \in Chains : FromOne(ledger[c])'
        BY <1>2 DEF ChainsIntact
    <2>2. TailsPresent'
        BY <1>2 DEF TailsPresent, FindLast
    <2> QED BY <1>1, <2>1, <2>2
<1>3. ASSUME NEW w \in Slots, InsertOk(w) PROVE IndexedInv'
    <2> DEFINE c == ChainOf[task[w]]
               rows == ledger[c]
               row == NextRow(w)
    <2>1. pc[w] = "insert" /\ c \in Chains
        BY <1>3, ChainAssumption DEF InsertOk, IngestTypeOK
    <2>2. /\ ledger'[c] = rows \cup {row} /\ \A d \in Chains \ {c} : ledger'[d] = ledger[d]
          /\ \A d \in Chains : ledger[d] \subseteq ledger'[d]
        BY <1>3, <2>1 DEF InsertOk, AppendRow, LedgerTypeOK
    <2>3. rows = {} \/ \E p \in rows : IsLast(p, rows) /\ Follows(row, p)
        BY <1>3, IndexAdmitsTop
    <2>4. /\ row.seq = tail[w].seq + 1 /\ tail[w].seq \in Nat /\ ContentOk(row)
          /\ \A r \in rows : r.seq \in Nat /\ r.seq # 0
          /\ Intact(rows) /\ FromOne(rows)
          /\ tail[w] = NoRow \/ tail[w] \in rows
        BY <2>1, RowFields DEF NextRow, IngestTypeOK, LedgerTypeOK, ChainsIntact, TailsPresent
    <2>5. Intact(rows \cup {row}) /\ FromOne(rows \cup {row})
        <3> HIDE DEF rows, row
        <3>1. Intact(rows \cup {row})
            BY <2>3, <2>4, AppendKeepsIntact
        <3>2. FromOne(rows \cup {row})
            <4>1. CASE rows = {}
                <5>1. row.seq = 1
                    BY <2>4, <4>1 DEF NoRow
                <5> QED BY <4>1, <5>1 DEF FromOne
            <4>2. CASE rows # {}
                <5>1. PICK p \in rows : IsLast(p, rows) /\ row.seq = p.seq + 1
                    BY <2>3, <4>2 DEF Follows
                <5>2. \A n \in 1 .. row.seq : n = row.seq \/ n \in 1 .. p.seq
                    BY <2>4, <5>1
                <5> QED BY <2>4, <5>1, <5>2 DEF FromOne
            <4> QED BY <4>1, <4>2
        <3> QED BY <3>1, <3>2
    <2>6. ChainsIntact' /\ \A d \in Chains : FromOne(ledger[d])'
        BY <2>1, <2>2, <2>5 DEF ChainsIntact
    <2>7. TailsPresent'
        <3> SUFFICES ASSUME NEW v \in Slots, pc'[v] = "insert"
                     PROVE  tail'[v] = NoRow \/ tail'[v] \in ledger'[ChainOf[task'[v]]]
            BY DEF TailsPresent
        <3>1. pc[v] = "insert" /\ task'[v] = task[v] /\ tail'[v] = tail[v]
            BY <1>3 DEF InsertOk, IngestTypeOK
        <3>2. ChainOf[task[v]] \in Chains
            BY <3>1, ChainAssumption DEF IngestTypeOK
        <3> QED BY <2>2, <3>1, <3>2 DEF TailsPresent
    <2> QED BY <1>1, <2>6, <2>7
<1>4. CASE IngestStep
    <2>1. ASSUME NEW d \in Drafts, Enqueue(d) \/ Stall(d) PROVE IndexedInv'
        BY <1>2, <2>1 DEF Enqueue, Stall
    <2>2. ASSUME NEW w \in Slots, (\E d \in Drafts : Take(w, d)) \/ InsertConflict(w) PROVE IndexedInv'
        BY <1>2, <2>2 DEF Take, InsertConflict, IngestTypeOK
    <2>3. ASSUME NEW w \in Slots, ReadTail(w) PROVE IndexedInv'
        <3>1. PICK r \in FindLast(ledger[ChainOf[task[w]]]) : tail' = [tail EXCEPT ![w] = r]
            BY <2>3 DEF ReadTail
        <3>2. pc' = [pc EXCEPT ![w] = "insert"] /\ UNCHANGED << ledger, task >>
            BY <2>3 DEF ReadTail
        <3> QED BY <1>2, <3>1, <3>2 DEF IngestTypeOK
    <2>4. ASSUME NEW w \in Slots, RetriesExhausted(w) \/ DatabaseFails(w) \/ Complete(w)
          PROVE  IndexedInv'
        <3>1. LeaveSlot(w) /\ UNCHANGED ledger
            BY <2>4 DEF RetriesExhausted, DatabaseFails, FailAppend, Complete
        <3> QED BY <1>2, <3>1 DEF LeaveSlot, IngestTypeOK
    <2> QED BY <1>3, <1>4, <2>1, <2>2, <2>3, <2>4 DEF IngestStep, SlotStep
<1>5. CASE VerificationStep
    <2>1. UNCHANGED ledger
        BY <1>5 DEF VerificationStep, VerifyStep, VerifyStart, VerifyAnchor, VerifyScan, VerifyReturn
    <2>2. UNCHANGED << pc, task, tail >>
        BY <1>5 DEF VerificationStep, MetaAudit, Enqueue, ingestVars
    <2> QED BY <1>2, <2>1, <2>2
<1>6. CASE \E i \in Instances : Crash(i)
    BY <1>2, <1>6 DEF Crash, CrashSlots
<1>7. CASE RetentionStep
    BY <1>7 DEF RetentionStep
<1>8. CASE Tick \/ UNCHANGED vars
    BY <1>2, <1>8 DEF Tick, vars, ingestVars
<1> QED BY <1>4, <1>5, <1>6, <1>7, <1>8 DEF Next

LEMMA IndexedInit == Init => IndexedInv
<1>1. Init => TailsPresent /\ ChainsIntact /\ \A c \in Chains : FromOne(ledger[c])
    BY DEF Init, IngestInit, TailsPresent, ChainsIntact, Intact, UniqueSeqs, Linked, FromOne
<1> QED BY <1>1, InitTypeInv DEF IndexedInv

\* Any number of bot processes: the in-process lock does not reach across, but
\* on chains that the unique (scope, guildId, seq) index covers the conflict
\* and the re-read of appendWithRetry keep every chain intact as long as
\* nothing is pruned.
THEOREM IndexedChainsIntact ==
    ASSUME Chains \subseteq GuildChains, Sweepers = {}
    PROVE  Spec => []ChainsIntact
<1>1. IndexedInv /\ [Next]_vars => IndexedInv'
    BY NextIndexedInv
<1>2. IndexedInv => ChainsIntact
    BY DEF IndexedInv
<1> QED BY <1>1, <1>2, IndexedInit, PTL DEF Spec

\* Any number of bot processes implement the audit trail on such chains: what
\* one inserts is on top of what all of them inserted before.
THEOREM IndexedImplementsTrail ==
    ASSUME Chains \subseteq GuildChains, Sweepers = {}
    PROVE  Spec => ImplementsTrail
<1>1. Init => IndexedInv /\ TasksRequested /\ Trail!TrailInit
    BY IndexedInit, InitTrailInv DEF TrailInv
<1>2. IndexedInv /\ TasksRequested /\ [Next]_vars => (IndexedInv /\ TasksRequested)'
    BY NextIndexedInv, NextTasksRequested DEF IndexedInv
<1>3. IndexedInv /\ TasksRequested /\ [Next]_vars => [Trail!TrailNext]_(Trail!trailVars)
    <2> SUFFICES ASSUME IndexedInv, TasksRequested, [Next]_vars
                 PROVE  [Trail!TrailNext]_(Trail!trailVars)
        OBVIOUS
    <2>1. ASSUME NEW w \in Slots, InsertOk(w)
          PROVE  LET rows == ledger[ChainOf[task[w]]]
                 IN  rows = {} \/ \E p \in rows : IsLast(p, rows) /\ Follows(NextRow(w), p)
        BY <2>1, IndexAdmitsTop
    <2> QED BY <2>1, TrailStep DEF IndexedInv
<1> QED BY <1>1, <1>2, <1>3, PTL DEF Spec, ImplementsTrail, Trail!TrailSpec
=============================================================================
