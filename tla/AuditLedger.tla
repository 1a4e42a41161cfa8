----------------------------- MODULE AuditLedger -----------------------------
(***************************************************************************)
(* The audit module as a whole: ingest workers, retention sweeps and chain *)
(* verifications interleave on one ledger while processes crash and        *)
(* restart and time passes.                                                *)
(***************************************************************************)
EXTENDS AuditIngest, AuditRetention, AuditVerify

CONSTANTS
    MaxCrashes,   \* bound: process crashes
    MaxNow        \* bound: days that pass

VARIABLES
    crashes,      \* process crashes so far
    disturbed     \* history: verifications whose chain lost rows since they began

vars == << ledger, archives, now, crashes, disturbed, ingestVars, retentionVars, verifyVars >>

Init ==
    /\ ledger = [c \in Chains |-> {}]
    /\ archives = [c \in Chains |-> << >>]
    /\ now = 0
    /\ crashes = 0
    /\ disturbed = {}
    /\ IngestInit
    /\ RetentionInit
    /\ VerifyInit

\* A process dies with all it runs; the sweep and the verification are re-run.
Crash(i) ==
    /\ crashes < MaxCrashes
    /\ \E w \in Slots : InstanceOf[w] = i /\ pc[w] # "idle"
    /\ crashes' = crashes + 1
    /\ CrashSlots(i)
    /\ UNCHANGED << now, archives, disturbed, retentionVars, verifyVars >>

Tick ==
    /\ now < MaxNow
    /\ now' = now + 1
    /\ UNCHANGED << ledger, archives, crashes, disturbed, ingestVars, retentionVars, verifyVars >>

IngestStep ==
    /\ \/ \E d \in Drafts : Enqueue(d) \/ Stall(d)
       \/ \E w \in Slots : SlotStep(w) \/ DatabaseFails(w)
    /\ UNCHANGED << now, archives, crashes, disturbed, retentionVars, verifyVars >>

RetentionStep ==
    /\ \E s \in Sweepers : StartSweep(s) \/ SweepStep(s) \/ SweepChainFails(s) \/ CrashSweep(s)
    /\ disturbed' = disturbed \cup {v \in Verifiers :
           verifier[v].pc # "idle" /\ ledger'[verifier[v].chain] # ledger[verifier[v].chain]}
    /\ UNCHANGED << now, crashes, ingestVars, verifyVars >>

\* metaAudit: a verification is itself recorded, in the chain it verified.
\* Drafts bounds how many.
MetaAudit(c) ==
    LET fresh == {d \in Drafts : ChainOf[d] = c /\ job[d] = "none"}
    IN  \/ \E d \in fresh : Enqueue(d)
        \/ fresh = {} /\ UNCHANGED ingestVars

VerificationStep ==
    /\ \/ \E v \in Verifiers : VerifyStep(v) /\ UNCHANGED ingestVars
       \/ \E v \in Verifiers : VerifyReturn(v) /\ MetaAudit(verifier[v].chain)
    /\ disturbed' = {v \in disturbed : verifier'[v].pc # "idle"}
    /\ UNCHANGED << now, crashes, retentionVars >>

Next ==
    \/ IngestStep \/ RetentionStep \/ VerificationStep
    \/ \E i \in Instances : Crash(i)
    \/ Tick

Spec == Init /\ [][Next]_vars

\* A live process keeps working through its slots, and BullMQ's stalled check
\* and the retry of a rejected job are timers that always fire again.
FairSpec ==
    /\ Spec
    /\ \A w \in Slots : WF_vars(IngestStep /\ SlotStep(w))
    /\ \A d \in Drafts : WF_vars(IngestStep /\ Stall(d))

-----------------------------------------------------------------------------
TypeOK ==
    /\ LedgerTypeOK
    /\ IngestTypeOK
    /\ RetentionTypeOK
    /\ now \in Nat
    /\ disturbed \subseteq {v \in Verifiers : verifier[v].pc # "idle"}

\* The tail a slot is about to build on is still the top of its chain, unless
\* the chain was pruned empty since it was read.
TailsFresh ==
    \A w \in Slots : pc[w] = "insert" =>
        LET rows == ledger[ChainOf[task[w]]]
        IN  rows = {} \/ IsLast(tail[w], rows)

\* Every chain is intact: seqs are unique, every row but the first follows a
\* row that is there, and every hash matches its content, whatever the workers
\* of one process interleave (withChainLock, appendWithRetry).
ChainsIntact == \A c \in Chains : Intact(ledger[c])

\* At every moment an undisturbed verifyChain finds the surviving chain valid:
\* its first row starts at seq 1 or links to the newest archive that ends
\* right below it (sweepChain's order of archive and prune).
SurvivingChainVerifies ==
    \A c \in Chains :
        \A first \in FirstSeq(ledger[c]) :
            BrokenIn(ledger[c], NoRow, FindAnchor(c, first - 1)) = {}

\* The real verification, with its reads spread out, reports a broken chain
\* only when a sweep pruned the chain while it ran, or when it began on a
\* chain that was pruned empty (no first seq, so no anchor is looked up) and an
\* append built on the old tail landed afterwards.
BrokenOnlyWhenPruned ==
    \A v \in Verifiers : verifier[v].pc = "done" /\ ~verifier[v].valid =>
        v \in disturbed \/ verifier[v].first = 0

Archived(c) == UNION {files[p] : p \in {q \in DOMAIN files : q[1] = c}}

\* A job that completed left its entry in the ledger or in an archive file,
\* through crashes, retries, stalls and prunes: the ingest is never lossy.
CompletedIsKept ==
    \A d \in Drafts : job[d] = "completed" =>
        \E r \in ledger[ChainOf[d]] \cup Archived(ChainOf[d]) : r.draft = d

\* Only a stalled job, re-run from the start, can enter its draft twice: a
\* rejected attempt never left a row behind.
OneRowPerRun ==
    \A d \in Drafts :
        Cardinality({r \in ledger[ChainOf[d]] \cup Archived(ChainOf[d]) : r.draft = d})
            <= 1 + stalls[d]

\* An archive record names a file that holds its whole segment, and its root
\* hash is the hash of the segment's last row: a crash half-way through a file
\* leaves no record (createArchive comes after the close).
ArchivesComplete ==
    \A c \in Chains : \A k \in DOMAIN archives[c] :
        LET a == archives[c][k]
        IN  /\ {r.seq : r \in files[a.storageRef]} = a.fromSeq .. a.toSeq
            /\ Intact(files[a.storageRef])
            /\ \E r \in files[a.storageRef] : r.seq = a.toSeq /\ r.hash = a.rootHash

\* No row leaves the ledger before an archive file holds it, and a sweep that
\* saw an entry inside the window prunes only expired entries, whatever is
\* appended while it archives.  (A sweep that saw none takes the bound from
\* findLast, so an entry that lands in between goes as well: left out here.)
PrunesAreSafe ==
    [][\A c \in Chains : LET pruned == ledger[c] \ ledger'[c]
       IN  /\ pruned \subseteq Archived(c)
           /\ \A s \in Sweepers :
                 sweep[s].pc = "prune" /\ sweep[s].retained # 0 /\ sweep[s].chain = c =>
                     \A r \in pruned : r.at < Cutoff(s)]_vars

\* A queued draft is settled in the end: completed, or parked as failed.
QueuedSettles ==
    \A d \in Drafts : job[d] # "none" ~> job[d] \in {"completed", "failed"}

\* The module implements the audit trail: entries go on top, linked, for
\* drafts that were handed in, and only a bottom part ever disappears.
Trail == INSTANCE AuditTrail WITH requested <- {d \in Drafts : job[d] # "none"}

ImplementsTrail == Trail!TrailSpec
=============================================================================
