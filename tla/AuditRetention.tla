--------------------------- MODULE AuditRetention ---------------------------
(***************************************************************************)
(* RetentionService.run / sweepChain: per chain, find the prefix past the  *)
(* retention window, write it to an archive file, record the archive, emit *)
(* and only then delete it.  Each await is one step of the sweep.          *)
(***************************************************************************)
EXTENDS AuditTables

CONSTANTS
    Sweepers,            \* runs of the retention job that may overlap
    Retention,           \* retentionDays
    ArchiveBeforeDelete, \* archiveBeforeDelete
    ExportBatch          \* EXPORT_BATCH

ASSUME RetentionAssumption ==
    /\ Retention \in Nat
    /\ ArchiveBeforeDelete \in BOOLEAN
    /\ ExportBatch \in Nat \ {0}

VARIABLES
    sweep,        \* sweeper -> its local variables
    files         \* the archive files: path -> the rows written to it

retentionVars == << sweep, files >>

SweepStates == {"idle", "next", "retained", "bound", "open", "write", "record", "emit", "prune"}

IdleSweep == [pc |-> "idle", start |-> 0, todo |-> {}, chain |-> {}, first |-> 0,
              retained |-> 0, bound |-> 0, root |-> NoHash, cursor |-> 0]

RetentionInit ==
    /\ sweep = [s \in Sweepers |-> IdleSweep]
    /\ files = << >>

-----------------------------------------------------------------------------
\* Rows of the chain the sweep works on.
Swept(s) == ledger[sweep[s].chain]

Cutoff(s) == sweep[s].start - Retention

\* `${stamp}-${firstSeq}-${bound}` in the directory of the chain.
Path(s) == << sweep[s].chain, sweep[s].start, sweep[s].first, sweep[s].bound >>

Goto(s, label) == sweep' = [sweep EXCEPT ![s].pc = label]

\* The sweep leaves this chain, done or failed: the loop goes on with the others.
NextChain(s) ==
    sweep' = [sweep EXCEPT ![s] = [IdleSweep EXCEPT !.pc = "next", !.start = sweep[s].start,
                                                    !.todo = sweep[s].todo]]

-----------------------------------------------------------------------------
\* run(): the time of the sweep is read once, then chainHeads.
StartSweep(s) ==
    /\ sweep[s].pc = "idle"
    /\ sweep' = [sweep EXCEPT ![s] = [IdleSweep EXCEPT
                     !.pc = "next", !.start = now,
                     !.todo = {c \in Chains : ledger[c] # {}}]]
    /\ UNCHANGED << ledger, archives, files >>

\* sweepChain reads firstSeq; a chain emptied since is skipped.
SweepFirst(s, c) ==
    /\ sweep[s].pc = "next" /\ c \in sweep[s].todo
    /\ \E first \in FirstSeq(ledger[c]) : sweep' = [sweep EXCEPT
           ![s].todo = @ \ {c},
           ![s].chain = IF ledger[c] = {} THEN {} ELSE c,
           ![s].first = first,
           ![s].pc = IF ledger[c] = {} THEN "next" ELSE "retained"]
    /\ UNCHANGED << ledger, archives, files >>

SweepRetained(s) ==
    /\ sweep[s].pc = "retained"
    /\ \E seq \in FirstSeqAtOrAfter(Swept(s), Cutoff(s)) :
          sweep' = [sweep EXCEPT ![s].retained = seq, ![s].pc = "bound"]
    /\ UNCHANGED << ledger, archives, files >>

\* Mutant of BoundOf: the first retained entry is pruned as well.
BoundOfInclusive(s, last) ==
    IF sweep[s].retained # 0 THEN sweep[s].retained ELSE last.seq

BoundOf(s, last) == IF sweep[s].retained # 0 THEN sweep[s].retained - 1 ELSE last.seq

\* findLast and the prune bound; `last!.seq` of a chain that is gone throws.
SweepBound(s) ==
    /\ sweep[s].pc = "bound"
    /\ \E last \in FindLast(Swept(s)) :
          IF \/ sweep[s].retained = 0 /\ last = NoRow
             \/ BoundOf(s, last) < sweep[s].first
          THEN NextChain(s)
          ELSE sweep' = [sweep EXCEPT ![s].bound = BoundOf(s, last),
                                      ![s].pc = IF ArchiveBeforeDelete THEN "open" ELSE "prune"]
    /\ UNCHANGED << ledger, archives, files >>

\* findBySeq of the boundary row, then open(path, 'wx'): a vanished boundary
\* or a file that exists fails the chain.
SweepOpen(s) ==
    /\ sweep[s].pc = "open"
    /\ \/ /\ Path(s) \notin DOMAIN files
          /\ \E r \in Swept(s) :
                /\ r.seq = sweep[s].bound
                /\ sweep' = [sweep EXCEPT ![s].root = r.hash, ![s].pc = "write",
                                          ![s].cursor = sweep[s].first - 1]
          /\ files' = [p \in DOMAIN files \cup {Path(s)} |->
                           IF p = Path(s) THEN {} ELSE files[p]]
       \/ /\ Path(s) \in DOMAIN files \/ \A r \in Swept(s) : r.seq # sweep[s].bound
          /\ NextChain(s)
          /\ UNCHANGED files
    /\ UNCHANGED << ledger, archives >>

\* Mutant of SweepWrite: only the first batch is written.
SweepWriteOnePage(s) ==
    LET upTo == {r \in Swept(s) : r.seq <= sweep[s].bound}
    IN  /\ sweep[s].pc = "write"
        /\ files' = [files EXCEPT ![Path(s)] = Page(upTo, sweep[s].cursor, ExportBatch)]
        /\ Goto(s, "record")
        /\ UNCHANGED << ledger, archives >>

\* One batch of iterateChainRange is read and written; an empty one ends the file.
SweepWrite(s) ==
    LET upTo == {r \in Swept(s) : r.seq <= sweep[s].bound}
        page == Page(upTo, sweep[s].cursor, ExportBatch)
    IN  /\ sweep[s].pc = "write"
        /\ IF page = {}
           THEN Goto(s, "record") /\ UNCHANGED files
           ELSE /\ files' = [files EXCEPT ![Path(s)] = @ \cup page]
                /\ \E r \in page : IsLast(r, page) /\ sweep' = [sweep EXCEPT ![s].cursor = r.seq]
        /\ UNCHANGED << ledger, archives >>

\* createArchive: the newest record is last.
SweepRecord(s) ==
    /\ sweep[s].pc = "record"
    /\ CreateArchive(sweep[s].chain,
           [fromSeq |-> sweep[s].first, toSeq |-> sweep[s].bound,
            rootHash |-> sweep[s].root, storageRef |-> Path(s)])
    /\ Goto(s, "emit")
    /\ UNCHANGED << ledger, files >>

SweepEmit(s) ==
    /\ sweep[s].pc = "emit"
    /\ Goto(s, "prune")
    /\ UNCHANGED << ledger, archives, files >>

SweepPrune(s) ==
    /\ sweep[s].pc = "prune"
    /\ PruneUpTo(sweep[s].chain, sweep[s].bound)
    /\ NextChain(s)
    /\ UNCHANGED << archives, files >>

SweepEnd(s) ==
    /\ sweep[s].pc = "next" /\ sweep[s].todo = {}
    /\ sweep' = [sweep EXCEPT ![s] = IdleSweep]
    /\ UNCHANGED << ledger, archives, files >>

\* Any await of sweepChain rejects: the error is logged and the loop goes on.
SweepChainFails(s) ==
    /\ sweep[s].pc \notin {"idle", "next"}
    /\ NextChain(s)
    /\ UNCHANGED << ledger, archives, files >>

\* The process of the sweep dies.
CrashSweep(s) ==
    /\ sweep[s].pc # "idle"
    /\ sweep' = [sweep EXCEPT ![s] = IdleSweep]
    /\ UNCHANGED << ledger, archives, files >>

SweepStep(s) ==
    \/ \E c \in Chains : SweepFirst(s, c)
    \/ SweepRetained(s) \/ SweepBound(s) \/ SweepOpen(s) \/ SweepWrite(s)
    \/ SweepRecord(s) \/ SweepEmit(s) \/ SweepPrune(s) \/ SweepEnd(s)

-----------------------------------------------------------------------------
SweepTypeOK(x) ==
    /\ DOMAIN x = DOMAIN IdleSweep
    /\ x.pc \in SweepStates
    /\ x.todo \subseteq Chains
    /\ x.pc \notin {"idle", "next"} => x.chain \in Chains
    /\ x.start \in Nat /\ x.first \in Nat /\ x.retained \in Nat
    /\ x.bound \in Nat /\ x.cursor \in Int

RetentionTypeOK ==
    /\ DOMAIN sweep = Sweepers
    /\ \A s \in Sweepers : SweepTypeOK(sweep[s])
=============================================================================
