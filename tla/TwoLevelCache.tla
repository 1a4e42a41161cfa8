---------------------------- MODULE TwoLevelCache ----------------------------
(***************************************************************************)
(* One key of CacheService and the row it is a copy of: an in-memory level *)
(* per process, a Redis level they share, reads that fill them, and writes *)
(* that invalidate them.  The key is a guild's permission snapshot (filled *)
(* by getOrSet) or a dashboard session (set at login, never filled).       *)
(***************************************************************************)
EXTENDS Naturals

CONSTANTS
    Procs,           \* processes of the bot
    Readers,         \* concurrent reads
    CacheWriters,    \* writes of the row, each done once
    HomeOf,          \* reader or writer -> its process
    MaxCacheFaults   \* bound: Redis calls that fail, which the store swallows

ASSUME CacheAssumption ==
    /\ HomeOf \in [Readers \cup CacheWriters -> Procs]
    /\ MaxCacheFaults \in Nat

VARIABLES
    use,       \* what the key holds: "snapshot" or "session"
    row,       \* version of the row; a session's second version is revoked
    l1,        \* process -> version in memory, or NoCopy
    l2,        \* version in Redis, or NoCopy
    inflight,  \* processes with a loader under way for the key
    reader,    \* reader -> [pc, val]
    writer,    \* writer -> steps it still has to do, or {"idle"}
    newest,    \* history: writers whose write made the row's version
    clean,     \* history: writers that no read with a miss overlapped and no fault hit
    cacheFaults

cacheVars == << use, row, l1, l2, inflight, reader, writer, newest, clean, cacheFaults >>

NoCopy == 0
Resting == [pc |-> "idle", val |-> NoCopy]
Copies == Nat    \* NoCopy, and versions from 1

\* DashboardSessionService.create stores the hot copy in Redis alone.
CacheInit ==
    /\ use \in {"snapshot", "session"}
    /\ row = 1 /\ l1 = [p \in Procs |-> NoCopy]
    /\ l2 = IF use = "session" THEN 1 ELSE NoCopy
    /\ inflight = {}
    /\ reader = [r \in Readers |-> Resting]
    /\ writer = [w \in CacheWriters |-> {"idle"}]
    /\ newest = {} /\ clean = {} /\ cacheFaults = 0

ReaderAt(r, pc) == reader[r].pc = pc
ReadOn(r, pc, val) == reader' = [reader EXCEPT ![r] = [pc |-> pc, val |-> val]]
Rest(r) == reader' = [reader EXCEPT ![r] = Resting]
Underway == {w \in CacheWriters : writer[w] \notin {{"idle"}, {}}}
Misses == \E r \in Readers : reader[r] # Resting

-----------------------------------------------------------------------------
(* get, getOrSet: a hit in memory ends the read, and changes nothing. *)

MissMemory(r) ==
    /\ ReaderAt(r, "idle") /\ l1[HomeOf[r]] = NoCopy
    /\ ReadOn(r, "redis", NoCopy) /\ clean' = clean \ Underway
    /\ UNCHANGED << use, row, l1, l2, inflight, writer, newest, cacheFaults >>

\* A Redis that fails is a miss.
ReadRedis(r) ==
    /\ ReaderAt(r, "redis")
    /\ \/ ReadOn(r, "answered", l2) /\ cacheFaults' = cacheFaults
       \/ /\ cacheFaults < MaxCacheFaults /\ cacheFaults' = cacheFaults + 1
          /\ ReadOn(r, "answered", NoCopy)
    /\ UNCHANGED << use, row, l1, l2, inflight, writer, newest, clean >>

\* A hit is put in memory, the copy of a session too, although create keeps it
\* out of there (l2Only).
BackFill(r) ==
    /\ ReaderAt(r, "answered") /\ reader[r].val # NoCopy
    /\ l1' = [l1 EXCEPT ![HomeOf[r]] = reader[r].val] /\ Rest(r)
    /\ UNCHANGED << use, row, l2, inflight, writer, newest, clean, cacheFaults >>

\* A miss waits for a loader under way or starts one; a session is looked up
\* in its table (findActive) and not stored again.
Miss(r) ==
    /\ ReaderAt(r, "answered") /\ reader[r].val = NoCopy
    /\ IF use = "session" \/ HomeOf[r] \in inflight
       THEN Rest(r) /\ inflight' = inflight
       ELSE ReadOn(r, "load", NoCopy) /\ inflight' = inflight \cup {HomeOf[r]}
    /\ UNCHANGED << use, row, l1, l2, writer, newest, clean, cacheFaults >>

LoadSnapshot(r) ==
    /\ ReaderAt(r, "load") /\ ReadOn(r, "fillMemory", row)
    /\ UNCHANGED << use, row, l1, l2, inflight, writer, newest, clean, cacheFaults >>

LoadFails(r) ==
    /\ ReaderAt(r, "load") /\ Rest(r)
    /\ inflight' = inflight \ {HomeOf[r]}
    /\ UNCHANGED << use, row, l1, l2, writer, newest, clean, cacheFaults >>

FillMemory(r) ==
    /\ ReaderAt(r, "fillMemory") /\ ReadOn(r, "fillRedis", reader[r].val)
    /\ inflight' = inflight \ {HomeOf[r]}
    /\ l1' = [l1 EXCEPT ![HomeOf[r]] = reader[r].val]
    /\ UNCHANGED << use, row, l2, writer, newest, clean, cacheFaults >>

FillRedis(r) ==
    /\ ReaderAt(r, "fillRedis") /\ Rest(r)
    /\ \/ l2' = reader[r].val /\ cacheFaults' = cacheFaults
       \/ cacheFaults < MaxCacheFaults /\ cacheFaults' = cacheFaults + 1 /\ l2' = l2
    /\ UNCHANGED << use, row, l1, inflight, writer, newest, clean >>

-----------------------------------------------------------------------------
(* Writes. *)

Forget(w) == l1' = [l1 EXCEPT ![HomeOf[w]] = NoCopy]

\* Mutant of WriteSnapshot: the handler deletes the key from memory only.
WriteForgetsMemory(w) ==
    /\ use = "snapshot" /\ writer[w] = {"idle"}
    /\ row' = row + 1 /\ newest' = {w}
    /\ writer' = [writer EXCEPT ![w] = {"handler"}]
    /\ clean' = IF Misses THEN clean ELSE clean \cup {w}
    /\ UNCHANGED << use, l1, l2, inflight, reader, cacheFaults >>

\* assignGroup, setClaimGrant and the like write and publish an event ...
WriteSnapshot(w) ==
    /\ use = "snapshot" /\ writer[w] = {"idle"}
    /\ row' = row + 1 /\ newest' = {w}
    /\ writer' = [writer EXCEPT ![w] = {"handler", "redis"}]
    /\ clean' = IF Misses THEN clean ELSE clean \cup {w}
    /\ UNCHANGED << use, l1, l2, inflight, reader, cacheFaults >>

\* ... whose handler calls invalidate: memory at once, Redis when it answers.
Invalidate(w) ==
    /\ "handler" \in writer[w] /\ Forget(w)
    /\ writer' = [writer EXCEPT ![w] = @ \ {"handler"}]
    /\ UNCHANGED << use, row, l2, inflight, reader, newest, clean, cacheFaults >>

\* destroy: memory at once, then the revocation and Redis in either order.
DestroySession(w) ==
    /\ use = "session" /\ writer[w] = {"idle"} /\ Forget(w)
    /\ writer' = [writer EXCEPT ![w] = {"revoke", "redis"}]
    /\ clean' = IF Misses THEN clean ELSE clean \cup {w}
    /\ UNCHANGED << use, row, l2, inflight, reader, newest, cacheFaults >>

Revoke(w) ==
    /\ "revoke" \in writer[w] /\ writer' = [writer EXCEPT ![w] = @ \ {"revoke"}]
    /\ row' = 2 /\ newest' = newest \cup {w}
    /\ UNCHANGED << use, l1, l2, inflight, reader, clean, cacheFaults >>

DeleteFromRedis(w) ==
    /\ "redis" \in writer[w] /\ "handler" \notin writer[w]
    /\ writer' = [writer EXCEPT ![w] = @ \ {"redis"}]
    /\ \/ l2' = NoCopy /\ UNCHANGED << clean, cacheFaults >>
       \/ /\ cacheFaults < MaxCacheFaults /\ cacheFaults' = cacheFaults + 1
          /\ l2' = l2 /\ clean' = clean \ {w}
    /\ UNCHANGED << use, row, l1, inflight, reader, newest >>

\* The time to live of a copy ends, or the memory level evicts it.
EvictMemory(p) ==
    /\ l1[p] # NoCopy /\ l1' = [l1 EXCEPT ![p] = NoCopy]
    /\ UNCHANGED << use, row, l2, inflight, reader, writer, newest, clean, cacheFaults >>

ExpireRedis ==
    /\ l2 # NoCopy /\ l2' = NoCopy
    /\ UNCHANGED << use, row, l1, inflight, reader, writer, newest, clean, cacheFaults >>

CacheNext ==
    \/ \E r \in Readers :
        \/ MissMemory(r) \/ ReadRedis(r) \/ BackFill(r) \/ Miss(r)
        \/ LoadSnapshot(r) \/ LoadFails(r) \/ FillMemory(r) \/ FillRedis(r)
    \/ \E w \in CacheWriters :
        WriteSnapshot(w) \/ Invalidate(w) \/ DestroySession(w) \/ Revoke(w) \/ DeleteFromRedis(w)
    \/ \E p \in Procs : EvictMemory(p)
    \/ ExpireRedis

CacheSpec == CacheInit /\ [][CacheNext]_cacheVars

-----------------------------------------------------------------------------
CacheTypeOK ==
    /\ use \in {"snapshot", "session"} /\ row \in Nat \ {NoCopy}
    /\ l1 \in [Procs -> Copies] /\ l2 \in Copies /\ inflight \subseteq Procs
    /\ reader \in [Readers -> [pc : {"idle", "redis", "answered", "load", "fillMemory", "fillRedis"}, val : Copies]]
    /\ writer \in [CacheWriters -> SUBSET {"idle", "handler", "revoke", "redis"}]
    /\ newest \subseteq CacheWriters /\ clean \subseteq CacheWriters
    /\ cacheFaults \in Nat

\* Once the latest write is over, and no read that missed memory ran meanwhile
\* nor did Redis fail it, neither Redis nor the memory of the writer's process
\* holds an older version, whatever reads, evictions and other writes follow:
\* a changed grant decides and a destroyed session is gone, there.  (Another
\* process keeps the copy it had until that expires.)
NoCopyOutlives ==
    \A w \in newest \cap clean : writer[w] = {} =>
        {l1[HomeOf[w]], l2} \subseteq {NoCopy, row}
=============================================================================
