----------------------------- MODULE CacheProofs -----------------------------
(***************************************************************************)
(* A write that nothing overlapped leaves no older copy behind, in the two *)
(* levels of the cache, for any number of processes, readers, writers and  *)
(* Redis faults; in the records cached under the tokens of a webhook       *)
(* endpoint, for any number of tokens, deliveries and calls; and in the    *)
(* bundles of texts, for any number of processes, guilds and edits.        *)
(***************************************************************************)
EXTENDS TwoLevelCache, WebhookEndpoints, Translations, FiniteSetTheorems, TLAPS

CurrentOr(v) == v = NoCopy \/ v = row

\* No read that missed memory is under way while a clean write is.
AloneWhileWriting == \A w \in clean : writer[w] # {} => ~Misses

\* A destroyed session leaves Redis for good, and so never comes back.
SessionGone ==
    use = "session" =>
        /\ \A r \in Readers : reader[r].pc \in {"idle", "redis", "answered"}
        /\ \A w \in CacheWriters :
            /\ "handler" \notin writer[w]
            /\ "idle" \notin writer[w] /\ "revoke" \notin writer[w] => row = 2
        /\ \A w \in clean :
            /\ l1[HomeOf[w]] = NoCopy
            /\ "redis" \notin writer[w] => l2 = NoCopy
            /\ writer[w] = {} => \A r \in Readers : reader[r].val = NoCopy

\* What the write of a snapshot has invalidated is filled from the row only.
SnapshotCurrent ==
    use = "snapshot" =>
        /\ \A w \in CacheWriters : writer[w] \in {{"idle"}, {"handler", "redis"}, {"redis"}, {}}
        /\ \A w \in clean \cap newest :
            /\ "handler" \notin writer[w] => CurrentOr(l1[HomeOf[w]])
            /\ writer[w] = {} => CurrentOr(l2) /\ \A r \in Readers : CurrentOr(reader[r].val)

CacheInv ==
    /\ CacheTypeOK
    /\ \A w \in clean : writer[w] # {"idle"}
    /\ \A w \in CacheWriters : "idle" \in writer[w] => writer[w] = {"idle"}
    /\ AloneWhileWriting
    /\ SessionGone
    /\ SnapshotCurrent
-----------------------------------------------------------------------------
(* What a read does on its way leaves a clean write's guarantees alone. *)

LEMMA ReadKeepsInv ==
    ASSUME CacheInv, NEW r \in Readers,
           \/ ReadRedis(r) \/ BackFill(r) \/ Miss(r)
           \/ LoadSnapshot(r) \/ LoadFails(r) \/ FillMemory(r) \/ FillRedis(r)
    PROVE  CacheInv'
<1> USE CacheAssumption DEF CacheInv, CacheTypeOK, Copies, NoCopy
<1>1. reader[r] # Resting /\ \A w \in clean : writer[w] = {}
    BY DEF ReadRedis, BackFill, Miss, LoadSnapshot, LoadFails, FillMemory, FillRedis,
           ReaderAt, Resting, AloneWhileWriting, Misses
<1>2. UNCHANGED << use, row, writer, newest, clean >>
    BY DEF ReadRedis, BackFill, Miss, LoadSnapshot, LoadFails, FillMemory, FillRedis
<1>3. CacheTypeOK'
    BY DEF ReadRedis, BackFill, Miss, LoadSnapshot, LoadFails, FillMemory, FillRedis,
           ReaderAt, ReadOn, Rest, Resting
<1>4. AloneWhileWriting'
    BY <1>1, <1>2 DEF AloneWhileWriting
<1>5. SessionGone'
    BY <1>1, <1>2 DEF SessionGone, ReadRedis, BackFill, Miss, LoadSnapshot, LoadFails, FillMemory,
           FillRedis, ReaderAt, ReadOn, Rest, Resting
<1>6. SnapshotCurrent'
    BY <1>1, <1>2 DEF SnapshotCurrent, CurrentOr, ReadRedis, BackFill, Miss, LoadSnapshot, LoadFails,
           FillMemory, FillRedis, ReaderAt, ReadOn, Rest, Resting
<1> QED
    BY <1>2, <1>3, <1>4, <1>5, <1>6

LEMMA MissKeepsInv ==
    ASSUME CacheInv, NEW r \in Readers, MissMemory(r)
    PROVE  CacheInv'
<1> USE CacheAssumption DEF CacheInv, CacheTypeOK, Copies, NoCopy, MissMemory, ReaderAt, ReadOn
<1>1. \A w \in clean' : w \in clean /\ writer[w] = {}
    BY DEF Underway
<1>2. CacheTypeOK'
    OBVIOUS
<1>3. AloneWhileWriting'
    BY <1>1 DEF AloneWhileWriting
<1>4. SessionGone'
    BY <1>1 DEF SessionGone
<1>5. SnapshotCurrent'
    BY <1>1 DEF SnapshotCurrent, CurrentOr
<1> QED
    BY <1>1, <1>2, <1>3, <1>4, <1>5

-----------------------------------------------------------------------------
LEMMA StartKeepsInv ==
    ASSUME CacheInv, NEW w \in CacheWriters, WriteSnapshot(w) \/ DestroySession(w)
    PROVE  CacheInv'
<1> USE CacheAssumption DEF CacheInv, CacheTypeOK, Copies, NoCopy, WriteSnapshot, DestroySession, Forget
<1>1. w \notin clean /\ clean \subseteq clean' /\ clean' \subseteq clean \cup {w}
    OBVIOUS
<1>2. w \in clean' => ~Misses
    BY <1>1
<1>3. CacheTypeOK'
    OBVIOUS
<1>4. Misses' = Misses
    BY DEF Misses
<1>5. AloneWhileWriting'
    BY <1>1, <1>2, <1>4 DEF AloneWhileWriting
<1>6. SessionGone'
    BY <1>1 DEF SessionGone
<1>7. SnapshotCurrent'
    <2>1. CASE DestroySession(w)
        BY <2>1 DEF SnapshotCurrent
    <2>2. CASE WriteSnapshot(w)
        <3>1. newest' = {w} /\ writer'[w] = {"handler", "redis"}
            BY <2>2
        <3>2. \A x \in CacheWriters : writer'[x] \in {{"idle"}, {"handler", "redis"}, {"redis"}, {}}
            BY <2>2 DEF SnapshotCurrent
        <3> QED
            BY <3>1, <3>2 DEF SnapshotCurrent
    <2> QED
        BY <2>1, <2>2
<1>8. /\ \A x \in clean' : writer'[x] # {"idle"}
      /\ \A x \in CacheWriters : "idle" \in writer'[x] => writer'[x] = {"idle"}
    BY <1>1
<1> QED
    BY <1>3, <1>5, <1>6, <1>7, <1>8 DEF CacheInv

LEMMA WriteKeepsInv ==
    ASSUME CacheInv, NEW w \in CacheWriters, Invalidate(w) \/ Revoke(w) \/ DeleteFromRedis(w)
    PROVE  CacheInv'
<1> USE CacheAssumption DEF CacheInv, CacheTypeOK, Copies, NoCopy, Invalidate, Revoke, DeleteFromRedis, Forget
<1>1. /\ writer[w] # {} /\ "idle" \notin writer[w] /\ writer'[w] \subseteq writer[w]
      /\ \A x \in CacheWriters \ {w} : writer'[x] = writer[x]
      /\ clean' \subseteq clean /\ reader' = reader /\ use' = use
    OBVIOUS
<1>2. CacheTypeOK'
    OBVIOUS
<1>3. w \in clean => \A r \in Readers : reader[r] = Resting
    BY <1>1 DEF AloneWhileWriting, Misses
<1>4. AloneWhileWriting'
    BY <1>1, <1>3 DEF AloneWhileWriting, Misses
<1>5. SessionGone'
    BY <1>1, <1>3 DEF SessionGone, Resting
<1>6. SnapshotCurrent'
    <2>1. CASE Revoke(w)
        BY <2>1, <1>1 DEF SnapshotCurrent
    <2>2. CASE Invalidate(w)
        <3>1. use = "snapshot" => writer[w] = {"handler", "redis"} /\ writer'[w] = {"redis"}
            BY <2>2 DEF SnapshotCurrent
        <3>2. \A p \in Procs : l1'[p] = l1[p] \/ l1'[p] = NoCopy
            BY <2>2
        <3>3. UNCHANGED << row, l2, newest, clean >> /\ l1'[HomeOf[w]] = NoCopy
            BY <2>2
        <3> QED
            BY <1>1, <3>1, <3>2, <3>3 DEF SnapshotCurrent, CurrentOr
    <2>3. CASE DeleteFromRedis(w)
        BY <2>3, <1>1, <1>3 DEF SnapshotCurrent, CurrentOr, Resting
    <2> QED
        BY <2>1, <2>2, <2>3
<1> QED
    BY <1>1, <1>2, <1>4, <1>5, <1>6

LEMMA ExpiryKeepsInv ==
    ASSUME CacheInv, ExpireRedis \/ (\E p \in Procs : EvictMemory(p))
    PROVE  CacheInv'
<1> USE CacheAssumption DEF CacheInv, CacheTypeOK, Copies, NoCopy, ExpireRedis, EvictMemory
<1>1. CacheTypeOK'
    OBVIOUS
<1>2. AloneWhileWriting'
    BY DEF AloneWhileWriting, Misses
<1>3. SessionGone'
    BY DEF SessionGone
<1>4. SnapshotCurrent'
    BY DEF SnapshotCurrent, CurrentOr
<1> QED
    BY <1>1, <1>2, <1>3, <1>4

-----------------------------------------------------------------------------
LEMMA CacheAlways == CacheSpec => []CacheInv
<1> USE CacheAssumption DEF NoCopy
<1>1. CacheInit => CacheInv
    BY DEF CacheInit, CacheInv, CacheTypeOK, Copies, AloneWhileWriting, SessionGone, SnapshotCurrent, Resting
<1>2. CacheInv /\ [CacheNext]_cacheVars => CacheInv'
    <2>1. ASSUME CacheInv, UNCHANGED cacheVars
          PROVE  CacheInv'
        BY <2>1 DEF cacheVars, CacheInv, CacheTypeOK, Copies, AloneWhileWriting, Misses, SessionGone,
                    SnapshotCurrent, CurrentOr
    <2> QED
        BY <2>1, ReadKeepsInv, MissKeepsInv, StartKeepsInv, WriteKeepsInv, ExpiryKeepsInv DEF CacheNext
<1> QED
    BY <1>1, <1>2, PTL DEF CacheSpec

\* After the latest write is over, neither Redis nor its process serves an
\* older copy, if no read that missed memory overlapped it and Redis did not
\* fail it: invalidate drops both levels, and only the row fills them again.
THEOREM NoCopySurvives == CacheSpec => []NoCopyOutlives
<1>1. CacheInv => NoCopyOutlives
    BY CacheAssumption DEF NoCopy, CacheInv, CacheTypeOK, NoCopyOutlives, SessionGone, SnapshotCurrent, CurrentOr
<1> QED
    BY <1>1, CacheAlways, PTL

-----------------------------------------------------------------------------
(* The records of a webhook endpoint. *)

Lookups == [pc : {"idle", "load", "store", "done"}, token : Tokens \cup {0}, record : Records]

EndpointsTyped ==
    /\ endpoint \in Records /\ issued \subseteq Tokens
    /\ byToken \in [Tokens -> SUBSET Records]
    /\ arrival \in [Arrivals -> Lookups]
    /\ manager \in [Managers -> [pc : {"idle", "write", "invalidate", "done", "refused"},
                                 token : Tokens \cup {0}, patch : Patches \cup {"none"}]]

Evicting(t) == \E m \in Managers : manager[m].pc = "invalidate" /\ manager[m].token = t

\* A record that is cached, or about to be, was read from a row of its token.
RecordsMatch ==
    /\ \A t \in Tokens : \A r \in byToken[t] : r.present /\ r.token = t
    /\ \A a \in Arrivals : arrival[a].pc \in {"load", "store"} => arrival[a].token \in Tokens
    /\ \A a \in Arrivals : arrival[a].pc = "store" =>
           arrival[a].record.present /\ arrival[a].record.token = arrival[a].token

\* A delivery that still has to store what it read holds the row as it is.
StoresCurrent ==
    \A a \in Arrivals : arrival[a].pc = "store" =>
        arrival[a].token \in clouded \/ Evicting(arrival[a].token) \/ ~Outdated(arrival[a].record)

EndpointsInv ==
    /\ EndpointsTyped
    /\ issued = {} => ~endpoint.present
    /\ RecordsMatch
    /\ StoresCurrent
    /\ CachedRecordIsCurrent

-----------------------------------------------------------------------------
\* The absent row and an idle delivery have the types of a row and a delivery.
LEMMA NothingTyped ==
    NoRecord \in Records /\ Unresolved \in Lookups /\ [Unresolved EXCEPT !.pc = "done"] \in Lookups
    BY DEF NoRecord, Records, Unresolved, Lookups

\* A delivery looks up, reads the row, or stores what it read.
LEMMA ArrivalKeeps ==
    ASSUME EndpointsInv, NEW a \in Arrivals,
           LoadByToken(a) \/ StoreRecord(a) \/ \E t \in Tokens : LookUp(a, t)
    PROVE  EndpointsInv'
<1> USE DEF EndpointsInv
<1>1. UNCHANGED << endpoint, issued, manager, clouded >>
    BY DEF LoadByToken, StoreRecord, LookUp
<1>2. \A x \in Arrivals \ {a} : arrival'[x] = arrival[x]
    BY DEF EndpointsTyped, LoadByToken, StoreRecord, LookUp
<1>3. arrival'[a].pc = "store" => LoadByToken(a) /\ arrival'[a].record = endpoint
    <2>1. CASE LoadByToken(a)
        BY <2>1 DEF EndpointsTyped, LoadByToken, Unresolved
    <2>2. CASE StoreRecord(a)
        BY <2>2 DEF EndpointsTyped, StoreRecord, Unresolved
    <2>3. ASSUME NEW t \in Tokens, LookUp(a, t)
          PROVE  arrival'[a].pc # "store"
        BY <2>3 DEF EndpointsTyped, LookUp, Unresolved
    <2> QED
        BY <2>1, <2>2, <2>3
<1>4. CASE LoadByToken(a)
    <2>1. EndpointsTyped'
        <3>1. [arrival[a] EXCEPT !.pc = "store", !.record = endpoint] \in Lookups
            BY DEF EndpointsTyped, Lookups
        <3> QED
            BY <1>4, <3>1, NothingTyped DEF EndpointsTyped, LoadByToken
    <2>2. RecordsMatch'
        BY <1>4 DEF RecordsMatch, EndpointsTyped, LoadByToken, Unresolved
    <2>3. StoresCurrent'
        BY <1>1, <1>2, <1>3, <1>4 DEF StoresCurrent, Evicting, Outdated
    <2>4. CachedRecordIsCurrent'
        BY <1>1, <1>4 DEF CachedRecordIsCurrent, LoadByToken
    <2> QED
        BY <1>1, <2>1, <2>2, <2>3, <2>4
<1>5. CASE StoreRecord(a)
    <2>1. EndpointsTyped'
        <3>1. arrival[a].record \in Records
            BY DEF EndpointsTyped, Lookups
        <3> QED
            BY <1>5, <3>1, NothingTyped DEF EndpointsTyped, StoreRecord
    <2>2. RecordsMatch'
        BY <1>2, <1>5 DEF RecordsMatch, StoreRecord, EndpointsTyped, Unresolved
    <2>3. StoresCurrent'
        BY <1>1, <1>2, <1>3, <1>5 DEF StoresCurrent, Evicting, Outdated, StoreRecord, LoadByToken
    <2>4. CachedRecordIsCurrent'
        BY <1>1, <1>5 DEF CachedRecordIsCurrent, StoreRecord, StoresCurrent, Evicting, Outdated, EndpointsTyped,
                          RecordsMatch
    <2> QED
        BY <1>1, <2>1, <2>2, <2>3, <2>4
<1>6. ASSUME NEW t \in Tokens, LookUp(a, t)
      PROVE  EndpointsInv'
    <2>1. EndpointsTyped'
        <3>1. [pc |-> "load", token |-> t, record |-> NoRecord] \in Lookups
            BY NothingTyped DEF Lookups
        <3> QED
            BY <1>6, <3>1, NothingTyped DEF EndpointsTyped, LookUp
    <2>2. RecordsMatch'
        BY <1>6 DEF RecordsMatch, EndpointsTyped, LookUp, Unresolved
    <2>3. StoresCurrent'
        BY <1>1, <1>2, <1>3, <1>6 DEF StoresCurrent, Evicting, Outdated, LookUp, LoadByToken
    <2>4. CachedRecordIsCurrent'
        BY <1>1, <1>6 DEF CachedRecordIsCurrent, LookUp
    <2> QED
        BY <1>1, <2>1, <2>2, <2>3, <2>4
<1> QED
    BY <1>4, <1>5, <1>6

\* An expired record is gone.
LEMMA RecordExpiryKeeps ==
    ASSUME EndpointsInv, NEW t \in Tokens, ExpireRecord(t)
    PROVE  EndpointsInv'
    BY DEF EndpointsInv, ExpireRecord, EndpointsTyped, RecordsMatch, StoresCurrent, Evicting, Outdated,
           CachedRecordIsCurrent

\* The first row has a token nothing was cached under.
LEMMA CreateKeeps ==
    ASSUME EndpointsInv, NEW t \in Tokens, CreateEndpoint(t)
    PROVE  EndpointsInv'
<1> USE DEF EndpointsInv, CreateEndpoint
<1>1. UNCHANGED << byToken, arrival, manager, clouded >> /\ ~endpoint.present
    OBVIOUS
<1>2. EndpointsTyped'
    BY DEF EndpointsTyped, Records
<1>3. RecordsMatch'
    BY <1>1 DEF RecordsMatch
<1>4. StoresCurrent'
    BY <1>1 DEF StoresCurrent, Evicting, Outdated, RecordsMatch
<1>5. CachedRecordIsCurrent'
    BY <1>1 DEF CachedRecordIsCurrent, RecordsMatch
<1> QED
    BY <1>2, <1>3, <1>4, <1>5

\* A write of the row: its call goes on to evict the token it read, and the row
\* had that token, unless it is clouded now.
LEMMA RowWriteKeeps ==
    ASSUME EndpointsInv, NEW m \in Managers, NEW r \in Records, RowWritten(m, r),
           issued \subseteq issued', issued' \subseteq Tokens
    PROVE  EndpointsInv'
<1> USE DEF EndpointsInv, RowWritten
<1>1. /\ manager'[m].pc = "invalidate" /\ manager'[m].token = manager[m].token
      /\ \A x \in Managers : manager[x].pc = "invalidate" => manager'[x] = manager[x]
    BY DEF EndpointsTyped
<1>2. \A t \in Tokens : Evicting(t) => Evicting(t)'
    BY <1>1 DEF Evicting
<1>3. EndpointsTyped'
    BY DEF EndpointsTyped
<1>4. issued' = {} => ~endpoint'.present
    OBVIOUS
<1>5. RecordsMatch'
    BY DEF RecordsMatch
<1>6. ASSUME NEW t \in Tokens, t \notin clouded', ~Evicting(t)'
      PROVE  endpoint' = endpoint \/ endpoint.token # t
    BY <1>1, <1>6 DEF Evicting
<1>7. StoresCurrent'
    BY <1>2, <1>6 DEF StoresCurrent, Outdated, RecordsMatch
<1>8. CachedRecordIsCurrent'
    <2>1. ASSUME NEW t \in Tokens, t \notin clouded', ~Evicting(t)'
          PROVE  byToken'[t] \subseteq {endpoint'}
        <3>1. byToken[t] \subseteq {endpoint}
            BY <2>1, <1>2 DEF CachedRecordIsCurrent, Evicting
        <3> QED
            BY <2>1, <3>1, <1>6 DEF RecordsMatch
    <2> QED
        BY <2>1 DEF CachedRecordIsCurrent, Evicting
<1> QED
    BY <1>3, <1>4, <1>5, <1>7, <1>8

\* An eviction leaves nothing under the token, and what a delivery has still to
\* store there is current, or the token is clouded.
LEMMA EvictionKeeps ==
    ASSUME EndpointsInv, NEW m \in Managers, InvalidateToken(m)
    PROVE  EndpointsInv'
<1> USE DEF EndpointsInv, InvalidateToken
<1>1. \A t \in Tokens : t # manager[m].token => (Evicting(t) => Evicting(t)')
    BY DEF Evicting, EndpointsTyped
<1>2. EndpointsTyped'
    BY DEF EndpointsTyped
<1>3. RecordsMatch'
    BY DEF RecordsMatch, EndpointsTyped
<1>4. StoresCurrent'
    BY <1>1 DEF StoresCurrent, Crossing, Outdated, RecordsMatch
<1>5. CachedRecordIsCurrent'
    <2>1. ASSUME NEW t \in Tokens, t \notin clouded', ~Evicting(t)'
          PROVE  byToken'[t] \subseteq {endpoint'}
        <3>1. CASE t = manager[m].token
            BY <3>1 DEF EndpointsTyped
        <3>2. CASE t # manager[m].token
            BY <2>1, <3>2, <1>1 DEF EndpointsTyped, CachedRecordIsCurrent, Evicting
        <3> QED
            BY <3>1, <3>2
    <2> QED
        BY <2>1 DEF CachedRecordIsCurrent, Evicting
<1> QED
    BY <1>2, <1>3, <1>4, <1>5

\* A call begins, or fails before it wrote.
LEMMA CallKeeps ==
    ASSUME EndpointsInv, NEW m \in Managers,
           ManageFails(m) \/ \E patch \in Patches : RequireOwned(m, patch)
    PROVE  EndpointsInv'
<1> USE DEF EndpointsInv, ManageFails, RequireOwned
<1>1. UNCHANGED << endpoint, issued, byToken, arrival, clouded >>
    OBVIOUS
<1>2. \A x \in Managers : manager[x].pc = "invalidate" => manager'[x] = manager[x]
    BY DEF EndpointsTyped
<1>3. EndpointsTyped'
    <2>1. CASE ManageFails(m)
        BY <2>1 DEF EndpointsTyped
    <2>2. ASSUME NEW patch \in Patches, RequireOwned(m, patch)
          PROVE  EndpointsTyped'
        BY <2>2 DEF EndpointsTyped, Records
    <2> QED
        BY <2>1, <2>2
<1>4. RecordsMatch'
    BY <1>1 DEF RecordsMatch
<1>5. StoresCurrent'
    BY <1>1, <1>2 DEF StoresCurrent, Evicting, Outdated
<1>6. CachedRecordIsCurrent'
    BY <1>1, <1>2 DEF CachedRecordIsCurrent
<1> QED
    BY <1>1, <1>3, <1>4, <1>5, <1>6

\* A crash forgets the deliveries, and clouds what was not evicted yet.
LEMMA CrashKeeps ==
    ASSUME EndpointsInv, EndpointsCrash
    PROVE  EndpointsInv'
<1> USE DEF EndpointsInv, EndpointsCrash
<1>1. EndpointsTyped'
    <2>1. arrival' \in [Arrivals -> Lookups]
        BY NothingTyped
    <2>2. manager' \in [Managers -> [pc : {"idle", "write", "invalidate", "done", "refused"},
                                     token : Tokens \cup {0}, patch : Patches \cup {"none"}]]
        BY DEF EndpointsTyped
    <2> QED
        BY <2>1, <2>2 DEF EndpointsTyped
<1>2. \A a \in Arrivals : arrival'[a].pc \in {"idle", "done"}
    BY DEF Unresolved
<1>3. CachedRecordIsCurrent'
    BY DEF CachedRecordIsCurrent
<1> QED
    BY <1>1, <1>2, <1>3 DEF RecordsMatch, StoresCurrent

-----------------------------------------------------------------------------
LEMMA EndpointsAlways == EndpointsSpec => []EndpointsInv
<1>1. EndpointsInit => EndpointsInv
    BY DEF EndpointsInit, EndpointsInv, EndpointsTyped, RecordsMatch, StoresCurrent, CachedRecordIsCurrent,
           NoRecord, Unresolved, Records, Lookups
<1>2. EndpointsInv /\ [EndpointsNext]_endpointVars => EndpointsInv'
    <2> SUFFICES ASSUME EndpointsInv, [EndpointsNext]_endpointVars
                 PROVE  EndpointsInv'
        OBVIOUS
    <2>1. CASE UNCHANGED endpointVars
        BY <2>1 DEF endpointVars, EndpointsInv, EndpointsTyped, RecordsMatch, StoresCurrent, Evicting, Outdated,
                    CachedRecordIsCurrent
    <2>2. ASSUME NEW m \in Managers,
                 UpdateEndpoint(m) \/ SoftDelete(m) \/ \E t \in Tokens : RotateToken(m, t)
          PROVE  EndpointsInv'
        <3>1. endpoint \in Records /\ issued \subseteq Tokens
            BY DEF EndpointsInv, EndpointsTyped
        <3>2. PICK r \in Records : RowWritten(m, r)
            BY <2>2, <3>1 DEF UpdateEndpoint, SoftDelete, RotateToken, Records, NoRecord
        <3>3. issued \subseteq issued' /\ issued' \subseteq Tokens
            BY <2>2, <3>1 DEF UpdateEndpoint, SoftDelete, RotateToken
        <3> QED
            BY <3>2, <3>3, RowWriteKeeps
    <2> QED
        BY <2>1, <2>2, ArrivalKeeps, RecordExpiryKeeps, CreateKeeps, EvictionKeeps, CallKeeps, CrashKeeps
        DEF EndpointsNext
<1> QED
    BY <1>1, <1>2, PTL DEF EndpointsSpec

\* A record cached under a token is the endpoint's row, for any number of tokens,
\* deliveries and calls, unless something named in CachedRecordIsCurrent crossed
\* its eviction: a revoked token stops resolving when the call returns.
THEOREM EndpointsStayCurrent == EndpointsSpec => []CachedRecordIsCurrent
    BY EndpointsAlways, PTL DEF EndpointsInv

\* What EndpointsTyped leaves out of the types: one record at most under a
\* token, and tokens that were clouded.
EndpointsBounded ==
    /\ \A t \in Tokens : byToken[t] = {} \/ \E r \in Records : byToken[t] = {r}
    /\ clouded \subseteq Tokens \cup {0} /\ mishandled \in Nat

LEMMA EndpointsStayBounded ==
    ASSUME EndpointsTyped, EndpointsBounded, [EndpointsNext]_endpointVars
    PROVE  EndpointsBounded'
<1> USE DEF EndpointsTyped, EndpointsBounded
<1>1. ASSUME NEW a \in Arrivals, LoadByToken(a) \/ StoreRecord(a) \/ \E t \in Tokens : LookUp(a, t)
      PROVE  EndpointsBounded'
    BY <1>1 DEF LoadByToken, StoreRecord, LookUp, Lookups
<1>2. ASSUME NEW t \in Tokens, ExpireRecord(t) \/ CreateEndpoint(t)
      PROVE  EndpointsBounded'
    BY <1>2 DEF ExpireRecord, CreateEndpoint, Mishandle
<1>3. ASSUME NEW m \in Managers, NEW new, RowWritten(m, new)
      PROVE  EndpointsBounded'
    BY <1>3 DEF RowWritten, Records
<1>4. ASSUME NEW m \in Managers, InvalidateToken(m)
      PROVE  EndpointsBounded'
    BY <1>4 DEF InvalidateToken
<1>5. ASSUME NEW m \in Managers, ManageFails(m) \/ \E patch \in Patches : RequireOwned(m, patch)
      PROVE  EndpointsBounded'
    BY <1>5 DEF ManageFails, RequireOwned, Mishandle
<1>6. CASE EndpointsCrash
    BY <1>6 DEF EndpointsCrash, Mishandle
<1>7. CASE UNCHANGED endpointVars
    BY <1>7 DEF endpointVars
<1> QED
    BY <1>1, <1>2, <1>3, <1>4, <1>5, <1>6, <1>7
    DEF EndpointsNext, UpdateEndpoint, SoftDelete, RotateToken

LEMMA EndpointsKeepTypes == EndpointsSpec => []EndpointsTypeOK
<1>1. EndpointsInit => EndpointsBounded
    BY DEF EndpointsInit, EndpointsBounded
<1>2. EndpointsInv /\ EndpointsBounded /\ [EndpointsNext]_endpointVars => EndpointsBounded'
    BY EndpointsStayBounded DEF EndpointsInv
<1>3. EndpointsInv /\ EndpointsBounded => EndpointsTypeOK
    <2> SUFFICES ASSUME EndpointsTyped, EndpointsBounded
                 PROVE  EndpointsTypeOK
        BY DEF EndpointsInv
    <2>1. ASSUME NEW t \in Tokens
          PROVE  byToken[t] \subseteq Records /\ Cardinality(byToken[t]) <= 1
        <3>1. CASE byToken[t] = {}
            BY <3>1, FS_EmptySet
        <3>2. ASSUME NEW r \in Records, byToken[t] = {r}
              PROVE  byToken[t] \subseteq Records /\ Cardinality(byToken[t]) <= 1
            <4>1. Cardinality({r}) = 1
                BY FS_Singleton
            <4> QED
                BY <3>2, <4>1
        <3> QED
            BY <2>1, <3>1, <3>2 DEF EndpointsBounded
    <2> QED
        BY <2>1 DEF EndpointsTypeOK, EndpointsTyped, EndpointsBounded, Lookups
<1> QED
    BY <1>1, <1>2, <1>3, EndpointsAlways, PTL DEF EndpointsSpec

-----------------------------------------------------------------------------
(* The bundles of translated texts. *)

Bundles == {NoBundle} \cup Values
TextRows == [scope : Scopes, value : Values, live : BOOLEAN]
TextLookups == [pc : {"idle", "load", "fill", "remember"}, scope : Scopes, bundle : Bundles]
EditPcs == {"idle", "update", "remove", "create", "told", "dropping", "over", "failed"}
EditStates == [pc : EditPcs, scope : Scopes, row : {NoRow} \cup Edits, by : SUBSET Bots]

Begun(e) == edit[e].pc \in {"idle", "update", "remove", "create"}
Fresh(bundle) == bundle \in {NoBundle} \cup Compiled(AllGuilds)

\* A request names the row it found, and creates its own row last.
RowsKnown ==
    /\ \A e \in Edits : edit[e].pc \in {"update", "remove"} =>
           edit[e].row \in DOMAIN texts /\ texts[edit[e].row].scope = edit[e].scope
    /\ \A e \in DOMAIN texts \cup alone \cup latest : ~Begun(e)

\* What an edit that nothing overlapped has dropped is fetched anew only.
AloneReaches(e) ==
    /\ edit[e].pc \in {"told", "dropping"} => ~Looking
    /\ EditAt(e, "dropping") => \A b \in edit[e].by : remembered[b][AllGuilds] = NoBundle
    /\ EditAt(e, "over") =>
        /\ \A b \in edit[e].by : Fresh(remembered[b][AllGuilds])
        /\ Fresh(bundles[AllGuilds])
        /\ \A b \in Bots : lookup[b].scope = AllGuilds => Fresh(lookup[b].bundle)

ReachInv ==
    /\ TranslationsTypeOK
    /\ RowsKnown
    /\ \A e \in latest \cap alone : AloneReaches(e)

-----------------------------------------------------------------------------
LEMMA TextsTyped ==
    TranslationsTypeOK <=>
        /\ texts \in [DOMAIN texts -> TextRows] /\ DOMAIN texts \subseteq Edits
        /\ remembered \in [Bots -> [Scopes -> Bundles]] /\ bundles \in [Scopes -> Bundles]
        /\ lookup \in [Bots -> TextLookups] /\ edit \in [Edits -> EditStates]
        /\ latest \subseteq Edits /\ alone \subseteq Edits /\ slips \in Nat
    BY DEF TranslationsTypeOK, TextRows, Bundles, TextLookups, EditStates, EditPcs

LEMMA CompiledTyped ==
    ASSUME TranslationsTypeOK, NEW s \in Scopes
    PROVE  Compiled(s) \subseteq Values
    BY DEF TranslationsTypeOK, Compiled, Now, Live, Rows, Values

LEMMA InitReaches ==
    ASSUME TranslationsInit
    PROVE  ReachInv
<1>1. Unused \in EditStates /\ Quiet \in TextLookups
    BY DEF Unused, Quiet, EditStates, EditPcs, TextLookups, Scopes, Bundles
<1>2. texts = [e \in {} |-> Absent] /\ DOMAIN texts = {}
    BY DEF TranslationsInit
<1>3. texts \in [DOMAIN texts -> TextRows]
    BY <1>2
<1>4. TranslationsTypeOK
    BY <1>1, <1>2, <1>3, TextsTyped DEF TranslationsInit, Bundles
<1>5. RowsKnown
    BY <1>2 DEF TranslationsInit, RowsKnown, Unused
<1> QED
    BY <1>4, <1>5 DEF TranslationsInit, ReachInv

-----------------------------------------------------------------------------
(* TextLookups. *)

LEMMA LookupTyped ==
    ASSUME TranslationsTypeOK, NEW b \in Bots, NEW s \in Scopes,
           AskRedis(b, s) \/ Load(b) \/ FillBundle(b) \/ Remember(b)
    PROVE  TranslationsTypeOK'
<1> USE TextsTyped
<1>1. Quiet \in TextLookups
    BY DEF Quiet, TextLookups, Scopes, Bundles
<1>2. lookup' \in [Bots -> TextLookups]
    <2>1. CASE AskRedis(b, s)
        BY <2>1 DEF AskRedis, LookupOn, TextLookups, Bundles
    <2>2. CASE Load(b)
        <3>1. lookup[b].scope \in Scopes
            BY DEF TextLookups
        <3> QED
            BY <2>2, <3>1, CompiledTyped DEF Load, LookupOn, TextLookups, Bundles
    <2>3. CASE FillBundle(b)
        BY <2>3 DEF FillBundle, TextLookups
    <2>4. CASE Remember(b)
        BY <2>4, <1>1 DEF Remember, LookupEnds
    <2> QED
        BY <2>1, <2>2, <2>3, <2>4
<1>3. remembered' \in [Bots -> [Scopes -> Bundles]] /\ bundles' \in [Scopes -> Bundles]
    <2>1. lookup[b].scope \in Scopes /\ lookup[b].bundle \in Bundles
        BY DEF TextLookups
    <2>2. AskRedis(b, s) \/ Load(b) => UNCHANGED << remembered, bundles >>
        BY DEF AskRedis, Load
    <2>3. FillBundle(b) => remembered' = remembered /\ bundles' \in [Scopes -> Bundles]
        BY <2>1 DEF FillBundle
    <2>4. Remember(b) => bundles' = bundles /\ remembered' \in [Bots -> [Scopes -> Bundles]]
        BY <2>1 DEF Remember
    <2> QED
        BY <2>2, <2>3, <2>4
<1>4. UNCHANGED << texts, edit, latest >> /\ alone' \subseteq alone /\ slips' \in Nat
    BY DEF AskRedis, Load, FillBundle, Remember, Slip
<1>5. /\ texts' \in [DOMAIN texts' -> TextRows] /\ DOMAIN texts' \subseteq Edits
      /\ edit' \in [Edits -> EditStates] /\ latest' \subseteq Edits /\ alone' \subseteq Edits
    BY <1>4
<1> QED
    BY <1>2, <1>3, <1>4, <1>5
    DEF TranslationsTypeOK, TextRows, Bundles, TextLookups, EditStates, EditPcs

LEMMA LookupKeepsInv ==
    ASSUME ReachInv, NEW b \in Bots, NEW s \in Scopes,
           AskRedis(b, s) \/ Load(b) \/ FillBundle(b) \/ Remember(b)
    PROVE  ReachInv'
<1>1. TranslationsTypeOK /\ TranslationsTypeOK'
    BY LookupTyped DEF ReachInv
<1>2. UNCHANGED << texts, edit, latest >> /\ alone' \subseteq alone
    BY DEF AskRedis, Load, FillBundle, Remember
<1>3. RowsKnown'
    BY <1>2 DEF ReachInv, RowsKnown, Begun
<1>4. \A v : Fresh(v)' <=> Fresh(v)
    BY <1>2 DEF Fresh, Compiled, Now, Live, Rows
<1>5. ASSUME NEW e \in latest' \cap alone'
      PROVE  AloneReaches(e)'
    <2>1. AloneReaches(e) /\ e \in Edits
        BY <1>1, <1>2, <1>5 DEF ReachInv, TranslationsTypeOK
    <2>2. edit'[e] = edit[e]
        BY <1>2
    <2>3. CASE AskRedis(b, s)
        <3>1. s = AllGuilds => EditAt(e, "over")
            BY <2>3, <1>5 DEF AskRedis, EditAt
        <3>2. /\ \A x \in Bots \ {b} : lookup'[x] = lookup[x]
              /\ lookup'[b].scope = s /\ lookup'[b].bundle \in {NoBundle, bundles[s]}
            BY <2>3, <1>1 DEF AskRedis, LookupOn, TranslationsTypeOK
        <3>3. UNCHANGED << remembered, bundles >>
            BY <2>3 DEF AskRedis
        <3>4. edit[e].pc \in {"told", "dropping"} /\ Looking' => Looking
            BY <3>1, <3>2 DEF Looking, EditAt, Quiet
        <3>5. EditAt(e, "over") =>
                  \A x \in Bots : lookup'[x].scope = AllGuilds => Fresh(lookup'[x].bundle)
            BY <2>1, <3>2 DEF AloneReaches, Fresh
        <3> QED
            BY <1>4, <2>1, <2>2, <3>3, <3>4, <3>5 DEF AloneReaches, EditAt
    <2>4. CASE Load(b) \/ FillBundle(b) \/ Remember(b)
        <3>1. Looking' => Looking
            BY <2>4, <1>1 DEF Load, FillBundle, Remember, LookupOn, LookupEnds, Looking, Quiet,
                              TranslationsTypeOK
        <3>2. lookup[b] # Quiet
            BY <2>4 DEF Load, FillBundle, Remember, Quiet
        <3>3. edit[e].pc \in {"told", "dropping"} => lookup[b].scope # AllGuilds
            BY <2>1, <3>2 DEF AloneReaches, Looking
        <3>4. EditAt(e, "over") =>
                  \A x \in Bots : lookup'[x].scope = AllGuilds => Fresh(lookup'[x].bundle)
            BY <2>1, <2>4, <1>1 DEF Load, FillBundle, Remember, LookupOn, LookupEnds, Quiet,
                                    AloneReaches, Fresh, TranslationsTypeOK
        <3>5. EditAt(e, "over") => Fresh(bundles'[AllGuilds])
            BY <2>1, <2>4, <1>1 DEF Load, FillBundle, Remember, AloneReaches, TranslationsTypeOK, Scopes
        <3>6. ASSUME NEW x \in edit[e].by
              PROVE  \/ remembered'[x][AllGuilds] = remembered[x][AllGuilds]
                     \/ lookup[b].scope = AllGuilds /\ remembered'[x][AllGuilds] = lookup[b].bundle
            <4>1. x \in Bots
                BY <1>1, <2>1 DEF TranslationsTypeOK
            <4>2. CASE Load(b) \/ FillBundle(b)
                BY <4>2 DEF Load, FillBundle
            <4>3. CASE Remember(b)
                BY <4>1, <4>3, <1>1 DEF Remember, TranslationsTypeOK, Scopes
            <4> QED
                BY <2>4, <4>2, <4>3
        <3>7. EditAt(e, "dropping") => \A x \in edit[e].by : remembered'[x][AllGuilds] = NoBundle
            BY <2>1, <3>3, <3>6 DEF AloneReaches, EditAt
        <3>8. EditAt(e, "over") => \A x \in edit[e].by : Fresh(remembered'[x][AllGuilds])
            BY <2>1, <3>6 DEF AloneReaches
        <3> QED
            BY <1>4, <2>1, <2>2, <3>1, <3>4, <3>5, <3>7, <3>8 DEF AloneReaches, EditAt
    <2> QED
        BY <2>3, <2>4
<1> QED
    BY <1>1, <1>3, <1>5 DEF ReachInv
-----------------------------------------------------------------------------
(* Edits. *)

LEMMA EditTyped ==
    ASSUME TranslationsTypeOK, NEW e \in Edits, NEW pc \in EditPcs, EditTo(e, pc)
    PROVE  /\ edit' \in [Edits -> EditStates]
           /\ edit'[e].pc = pc /\ edit'[e].scope = edit[e].scope
           /\ edit'[e].row = edit[e].row /\ edit'[e].by = edit[e].by
           /\ \A x \in Edits \ {e} : edit'[x] = edit[x]
<1>1. edit \in [Edits -> EditStates]
    BY TextsTyped
<1> QED
    BY <1>1 DEF EditTo, EditStates

\* A text of everybody compiles to what it did when no such row changed.
LEMMA SameText ==
    ASSUME \A r \in DOMAIN texts : texts[r].scope = AllGuilds =>
               r \in DOMAIN texts' /\ texts'[r] = texts[r],
           \A r \in DOMAIN texts' : texts'[r].scope = AllGuilds =>
               r \in DOMAIN texts /\ texts[r].scope = AllGuilds
    PROVE  Compiled(AllGuilds)' = Compiled(AllGuilds)
<1>1. Live(AllGuilds)' = Live(AllGuilds) /\ \A r \in Live(AllGuilds) : texts'[r] = texts[r]
    BY DEF Live, Rows
<1> QED
    BY <1>1 DEF Compiled, Now

\* An edit that writes the text of everybody is the only one whose drop counts,
\* and it has dropped nothing yet; other edits leave that text alone.
LEMMA TextWriteKeepsInv ==
    ASSUME ReachInv, NEW e \in Edits, UpdateText(e) \/ CreateText(e) \/ RemoveText(e)
    PROVE  ReachInv'
<1>1. TranslationsTypeOK /\ RowsKnown /\ Begun(e) /\ Wrote(e)
    BY DEF ReachInv, UpdateText, CreateText, RemoveText, EditAt, Begun
<1>2. /\ edit' \in [Edits -> EditStates]
      /\ edit'[e].pc = "told" /\ edit'[e].scope = edit[e].scope /\ edit'[e].by = edit[e].by
      /\ \A x \in Edits \ {e} : edit'[x] = edit[x]
    BY <1>1, EditTyped DEF Wrote, EditPcs
<1>3. edit[e].scope \in Scopes /\ texts \in [DOMAIN texts -> TextRows] /\ DOMAIN texts \subseteq Edits
    BY <1>1, TextsTyped DEF EditStates
<1>4. /\ DOMAIN texts \subseteq DOMAIN texts' /\ DOMAIN texts' \subseteq DOMAIN texts \cup {e}
      /\ \A r \in DOMAIN texts : texts'[r].scope = texts[r].scope
      /\ e \notin DOMAIN texts
      /\ e \in DOMAIN texts' => texts'[e].scope = edit[e].scope
    BY <1>1, <1>3 DEF UpdateText, CreateText, RemoveText, RowsKnown, TextRows
<1>5. texts' \in [DOMAIN texts' -> TextRows]
    <2>1. CASE UpdateText(e) \/ RemoveText(e)
        <3>1. edit[e].row \in DOMAIN texts
            BY <1>1, <2>1 DEF UpdateText, RemoveText, RowsKnown, EditAt
        <3>2. CASE UpdateText(e)
            BY <1>3, <3>1, <3>2 DEF UpdateText, TextRows, Values
        <3>3. CASE RemoveText(e)
            BY <1>3, <3>1, <3>3 DEF RemoveText, TextRows
        <3> QED
            BY <2>1, <3>2, <3>3
    <2>2. CASE CreateText(e)
        <3>1. [scope |-> edit[e].scope, value |-> e, live |-> TRUE] \in TextRows
            BY <1>3 DEF TextRows, Values
        <3>2. \A r \in DOMAIN texts : texts[r] \in TextRows
            BY <1>3
        <3> QED
            BY <2>2, <3>1, <3>2 DEF CreateText
    <2> QED
        BY <2>1, <2>2
<1>6. TranslationsTypeOK'
    BY <1>1, <1>2, <1>3, <1>4, <1>5
    DEF TranslationsTypeOK, Wrote, TextRows, EditStates, EditPcs
<1>7. RowsKnown'
    <2>1. latest' \cup alone' \subseteq latest \cup alone \cup {e}
        BY <1>1 DEF Wrote
    <2>2. \A x \in DOMAIN texts' \cup alone' \cup latest' : x = e \/ x \in DOMAIN texts \cup alone \cup latest
        BY <1>4, <2>1
    <2>3. \A x \in DOMAIN texts' \cup alone' \cup latest' : ~Begun(x)'
        <3>1. ~Begun(e)'
            BY <1>2 DEF Begun
        <3>2. \A x \in DOMAIN texts \cup alone \cup latest : x # e /\ x \in Edits /\ edit'[x] = edit[x]
            BY <1>1, <1>2 DEF RowsKnown, TranslationsTypeOK
        <3> QED
            BY <1>1, <2>2, <3>1, <3>2 DEF RowsKnown, Begun
    <2>4. \A x \in Edits \ {e} : edit'[x].pc \in {"update", "remove"} =>
              edit'[x].row \in DOMAIN texts' /\ texts'[edit'[x].row].scope = edit'[x].scope
        BY <1>1, <1>2, <1>4 DEF RowsKnown
    <2> QED
        BY <1>2, <2>3, <2>4 DEF RowsKnown
<1>8. ASSUME NEW x \in latest' \cap alone'
      PROVE  AloneReaches(x)'
    <2>1. CASE edit[e].scope = AllGuilds
        <3>1. x = e /\ e \in alone' /\ e \notin alone
            BY <1>1, <1>8, <2>1 DEF Wrote, RowsKnown
        <3>2. ~Looking'
            BY <1>1, <3>1 DEF Wrote, Looking
        <3> QED
            BY <1>2, <3>1, <3>2 DEF AloneReaches, EditAt
    <2>2. CASE edit[e].scope # AllGuilds
        <3>1. x \in Edits /\ x # e /\ x \in latest \cap alone /\ AloneReaches(x)
            <4>1. x \in latest /\ x \in Edits
                BY <1>1, <1>8, <2>2 DEF Wrote, TranslationsTypeOK
            <4>2. x # e
                BY <1>1, <4>1 DEF RowsKnown
            <4> QED
                BY <1>1, <1>8, <4>1, <4>2 DEF Wrote, ReachInv
        <3>2. Compiled(AllGuilds)' = Compiled(AllGuilds)
            <4>1. \A r \in DOMAIN texts : texts[r].scope = AllGuilds => texts'[r] = texts[r]
                BY <1>1, <1>3, <2>2 DEF UpdateText, CreateText, RemoveText, RowsKnown, EditAt
            <4> QED
                BY <1>4, <2>2, <4>1, SameText
        <3>3. UNCHANGED << remembered, bundles, lookup >> /\ edit'[x] = edit[x]
            BY <1>1, <1>2, <3>1 DEF Wrote
        <3> QED
            BY <3>1, <3>2, <3>3 DEF AloneReaches, Fresh, Looking, EditAt
    <2> QED
        BY <2>1, <2>2
<1> QED
    BY <1>6, <1>7, <1>8 DEF ReachInv

LEMMA FindEffect ==
    ASSUME TranslationsTypeOK, NEW e \in Edits, NEW s \in Scopes, FindText(e, s)
    PROVE  /\ edit' \in [Edits -> EditStates] /\ EditAt(e, "idle")
           /\ \A x \in Edits \ {e} : edit'[x] = edit[x]
           /\ edit'[e].pc \in {"update", "remove"} =>
                  edit'[e].row \in DOMAIN texts /\ texts[edit'[e].row].scope = edit'[e].scope
<1>1. edit \in [Edits -> EditStates] /\ Live(s) \subseteq Edits
    BY TextsTyped DEF Live, Rows
<1>2. CASE \E r \in Live(s), pc \in {"update", "remove"} :
               edit' = [edit EXCEPT ![e] = [Unused EXCEPT !.pc = pc, !.scope = s, !.row = r]]
    <2>1. PICK r \in Live(s), pc \in {"update", "remove"} :
              edit' = [edit EXCEPT ![e] = [Unused EXCEPT !.pc = pc, !.scope = s, !.row = r]]
        BY <1>2
    <2> DEFINE new == [Unused EXCEPT !.pc = pc, !.scope = s, !.row = r]
    <2>2. new \in EditStates
        BY <1>1 DEF Unused, EditStates, EditPcs
    <2>3. new.pc = pc /\ new.scope = s /\ new.row = r
        BY DEF Unused
    <2>4. edit' = [edit EXCEPT ![e] = new]
        BY <2>1
    <2>5. r \in DOMAIN texts /\ texts[r].scope = s
        BY DEF Live, Rows
    <2> HIDE DEF new
    <2> QED
        BY <1>1, <2>2, <2>3, <2>4, <2>5 DEF FindText
<1>3. CASE edit' = [edit EXCEPT ![e] = [Unused EXCEPT !.pc = "create", !.scope = s]]
    <2> DEFINE new == [Unused EXCEPT !.pc = "create", !.scope = s]
    <2>1. new \in EditStates
        BY DEF Unused, EditStates, EditPcs
    <2>2. new.pc = "create"
        BY DEF Unused
    <2>3. edit' = [edit EXCEPT ![e] = new]
        BY <1>3
    <2> HIDE DEF new
    <2> QED
        BY <1>1, <2>1, <2>2, <2>3 DEF FindText
<1> QED
    BY <1>2, <1>3 DEF FindText

LEMMA InvalidateEffect ==
    ASSUME TranslationsTypeOK, NEW e \in Edits, NEW b \in Bots, InvalidateBundle(b, e)
    PROVE  /\ edit' \in [Edits -> EditStates] /\ EditAt(e, "told")
           /\ edit'[e].pc = "dropping" /\ edit'[e].by = {b}
           /\ \A x \in Edits \ {e} : edit'[x] = edit[x]
           /\ remembered' \in [Bots -> [Scopes -> Bundles]] /\ remembered'[b][AllGuilds] = NoBundle
           /\ \A x \in Bots : remembered'[x][AllGuilds] \in {remembered[x][AllGuilds], NoBundle}
<1>1. edit \in [Edits -> EditStates] /\ remembered \in [Bots -> [Scopes -> Bundles]]
    BY TextsTyped
<1>2. AllGuilds \in Scopes /\ NoBundle \in Bundles
    BY DEF Scopes, Bundles
<1> DEFINE new == [edit[e] EXCEPT !.pc = "dropping", !.by = {b}]
<1>3. new \in EditStates /\ new.pc = "dropping" /\ new.by = {b}
    <2>1. edit[e] \in EditStates
        BY <1>1
    <2>2. new.pc = "dropping" /\ new.by = {b}
        BY <2>1 DEF EditStates
    <2>3. new \in EditStates
        BY <2>1 DEF EditStates, EditPcs
    <2> QED
        BY <2>2, <2>3
<1>4. edit' = [edit EXCEPT ![e] = new] /\ EditAt(e, "told")
    BY <1>1 DEF InvalidateBundle
<1>5. /\ remembered' \in [Bots -> [Scopes -> Bundles]] /\ remembered'[b][AllGuilds] = NoBundle
      /\ \A x \in Bots : remembered'[x][AllGuilds] \in {remembered[x][AllGuilds], NoBundle}
    BY <1>1, <1>2 DEF InvalidateBundle
<1> HIDE DEF new
<1> QED
    BY <1>1, <1>3, <1>4, <1>5

\* The steps of a request that leave the table and the lookups alone.
LEMMA RequestKeepsInv ==
    ASSUME ReachInv, NEW e \in Edits,
           \/ \E s \in Scopes : FindText(e, s)
           \/ CreateRefused(e) \/ DropBundle(e) \/ EditDies(e)
           \/ \E b \in Bots : InvalidateBundle(b, e)
    PROVE  ReachInv'
<1>1. /\ TranslationsTypeOK /\ RowsKnown
      /\ edit \in [Edits -> EditStates]
      /\ UNCHANGED << texts, lookup, latest, alone >>
    BY TextsTyped DEF ReachInv, FindText, CreateRefused, DropBundle, EditDies, InvalidateBundle
<1>2. /\ edit' \in [Edits -> EditStates]
      /\ \A x \in Edits \ {e} : edit'[x] = edit[x]
    <2>1. CASE \E s \in Scopes : FindText(e, s)
        BY <1>1, <2>1, FindEffect
    <2>2. CASE CreateRefused(e) \/ DropBundle(e) \/ EditDies(e)
        BY <1>1, <2>2, EditTyped DEF CreateRefused, DropBundle, EditDies, EditPcs
    <2>3. CASE \E b \in Bots : InvalidateBundle(b, e)
        BY <1>1, <2>3, InvalidateEffect
    <2> QED
        BY <2>1, <2>2, <2>3
<1>3. /\ remembered' \in [Bots -> [Scopes -> Bundles]] /\ bundles' \in [Scopes -> Bundles]
      /\ slips' \in Nat
    <2>1. CASE (\E s \in Scopes : FindText(e, s)) \/ CreateRefused(e) \/ DropBundle(e) \/ EditDies(e)
        <3>1. \A x \in Bundles : [bundles EXCEPT ![AllGuilds] = x] \in [Scopes -> Bundles]
            BY <1>1, TextsTyped
        <3>2. NoBundle \in Bundles /\ slips \in Nat /\ slips + 1 \in Nat
            BY <1>1, TextsTyped DEF Bundles
        <3>3. /\ remembered' = remembered
              /\ bundles' = bundles \/ bundles' = [bundles EXCEPT ![AllGuilds] = NoBundle]
              /\ slips' \in {slips, slips + 1}
            BY <2>1 DEF FindText, CreateRefused, DropBundle, EditDies, Slip
        <3> QED
            BY <1>1, <3>1, <3>2, <3>3, TextsTyped
    <2>2. CASE \E b \in Bots : InvalidateBundle(b, e)
        BY <1>1, <2>2, TextsTyped, InvalidateEffect DEF InvalidateBundle
    <2> QED
        BY <2>1, <2>2
<1>4. TranslationsTypeOK'
    BY <1>1, <1>2, <1>3 DEF TranslationsTypeOK, EditStates, EditPcs, Bundles
<1>5. RowsKnown'
    <2>1. edit'[e].pc \in {"update", "remove"} =>
              edit'[e].row \in DOMAIN texts /\ texts[edit'[e].row].scope = edit'[e].scope
        <3>1. CASE \E s \in Scopes : FindText(e, s)
            BY <1>1, <3>1, FindEffect
        <3>2. CASE CreateRefused(e) \/ DropBundle(e) \/ EditDies(e)
            BY <1>1, <3>2, EditTyped DEF CreateRefused, DropBundle, EditDies, EditPcs
        <3>3. CASE \E b \in Bots : InvalidateBundle(b, e)
            BY <1>1, <3>3, InvalidateEffect
        <3> QED
            BY <3>1, <3>2, <3>3
    <2>2. ~Begun(e) => ~Begun(e)'
        <3>1. ~\E s \in Scopes : FindText(e, s) /\ ~Begun(e)
            BY DEF FindText, EditAt, Begun
        <3>2. CASE CreateRefused(e) \/ DropBundle(e) \/ EditDies(e)
            BY <1>1, <3>2, EditTyped DEF CreateRefused, DropBundle, EditDies, EditPcs, Begun
        <3>3. CASE \E b \in Bots : InvalidateBundle(b, e)
            BY <1>1, <3>3, InvalidateEffect DEF Begun
        <3> QED
            BY <3>1, <3>2, <3>3
    <2>3. ASSUME NEW x \in DOMAIN texts \cup alone \cup latest
          PROVE  ~Begun(x)'
        <3>1. ~Begun(x) /\ x \in Edits
            BY <1>1 DEF RowsKnown, TranslationsTypeOK
        <3> QED
            BY <1>2, <2>2, <3>1 DEF Begun
    <2>4. \A x \in Edits : edit'[x].pc \in {"update", "remove"} =>
              edit'[x].row \in DOMAIN texts /\ texts[edit'[x].row].scope = edit'[x].scope
        BY <1>1, <1>2, <2>1 DEF RowsKnown
    <2> QED
        BY <1>1, <2>3, <2>4 DEF RowsKnown
<1>6. \A v : Fresh(v)' <=> Fresh(v)
    BY <1>1 DEF Fresh, Compiled, Now, Live, Rows
<1>7. Fresh(NoBundle) /\ AllGuilds \in Scopes
    BY DEF Fresh, Scopes
<1>8. /\ bundles'[AllGuilds] \in {bundles[AllGuilds], NoBundle}
      /\ \A b \in Bots : remembered'[b][AllGuilds] \in {remembered[b][AllGuilds], NoBundle}
    <2>1. CASE (\E s \in Scopes : FindText(e, s)) \/ CreateRefused(e) \/ DropBundle(e) \/ EditDies(e)
        BY <1>1, <1>7, <2>1, TextsTyped DEF FindText, CreateRefused, DropBundle, EditDies, Slip
    <2>2. CASE \E b \in Bots : InvalidateBundle(b, e)
        BY <1>1, <2>2, InvalidateEffect DEF InvalidateBundle
    <2> QED
        BY <2>1, <2>2
<1>9. ASSUME NEW x \in latest' \cap alone'
      PROVE  AloneReaches(x)'
    <2>1. x \in Edits /\ AloneReaches(x) /\ ~Begun(x)
        BY <1>1 DEF ReachInv, TranslationsTypeOK, RowsKnown
    <2>2. edit[x].by \subseteq Bots
        BY <1>1, <2>1 DEF EditStates
    <2>3. CASE edit'[x] = edit[x]
        BY <1>1, <1>6, <1>7, <1>8, <2>1, <2>2, <2>3 DEF AloneReaches, EditAt, Looking
    <2>4. CASE x = e /\ (CreateRefused(e) \/ EditDies(e))
        <3>1. edit'[e].pc = "failed"
            BY <1>1, <2>4, EditTyped DEF CreateRefused, EditDies, EditPcs
        <3> QED
            BY <2>4, <3>1 DEF AloneReaches, EditAt
    <2>5. CASE x = e /\ DropBundle(e)
        <3>1. EditAt(e, "dropping") /\ edit'[e].pc \in {"over", "failed"} /\ edit'[e].by = edit[e].by
            BY <1>1, <2>5, EditTyped DEF DropBundle, EditPcs
        <3>2. edit'[e].pc = "over" => bundles'[AllGuilds] = NoBundle
            BY <1>1, <1>7, <2>5, EditTyped, TextsTyped DEF DropBundle, EditPcs
        <3>3. \A b \in edit[e].by : remembered'[b][AllGuilds] = NoBundle
            BY <2>1, <2>5, <3>1 DEF AloneReaches, DropBundle
        <3>4. \A b \in Bots : lookup[b].scope = AllGuilds => lookup[b].bundle = NoBundle
            BY <2>1, <2>5, <3>1 DEF AloneReaches, Looking, EditAt, Quiet
        <3> QED
            BY <1>1, <1>6, <1>7, <2>5, <3>1, <3>2, <3>3, <3>4 DEF AloneReaches, EditAt
    <2>6. CASE x = e /\ \E b \in Bots : InvalidateBundle(b, e)
        <3>1. PICK b \in Bots : InvalidateBundle(b, e)
            BY <2>6
        <3>2. edit'[e].pc = "dropping" /\ edit'[e].by = {b} /\ remembered'[b][AllGuilds] = NoBundle
            BY <1>1, <3>1, InvalidateEffect
        <3>3. ~Looking
            BY <2>1, <2>6, <3>1 DEF InvalidateBundle, AloneReaches, EditAt
        <3> QED
            BY <1>1, <2>6, <3>2, <3>3 DEF AloneReaches, EditAt, Looking
    <2>7. CASE x = e /\ \E s \in Scopes : FindText(e, s)
        BY <2>1, <2>7 DEF FindText, EditAt, Begun
    <2> QED
        BY <1>2, <2>1, <2>3, <2>4, <2>5, <2>6, <2>7
<1> QED
    BY <1>4, <1>5, <1>9 DEF ReachInv

-----------------------------------------------------------------------------
(* The rest: restarts, the time to live, and the rows of a guild. *)

LEMMA RestartKeepsInv ==
    ASSUME ReachInv, NEW b \in Bots, RestartBot(b)
    PROVE  ReachInv'
<1>1. /\ TranslationsTypeOK /\ RowsKnown /\ UNCHANGED << texts, bundles, latest, alone >>
      /\ edit \in [Edits -> EditStates] /\ lookup \in [Bots -> TextLookups]
    BY TextsTyped DEF ReachInv, RestartBot
<1>2. \A x \in Edits : \/ edit'[x] = edit[x]
                       \/ edit[x].pc = "dropping" /\ edit'[x] = [edit[x] EXCEPT !.pc = "failed"]
    BY DEF RestartBot, EditAt
<1>3. edit' \in [Edits -> EditStates]
    <2>1. \A x \in Edits : [edit[x] EXCEPT !.pc = "failed"] \in EditStates
        BY <1>1 DEF EditStates, EditPcs
    <2>2. edit' = [x \in Edits |-> edit'[x]]
        BY DEF RestartBot
    <2> QED
        BY <1>1, <1>2, <2>1, <2>2
<1>4. /\ remembered' \in [Bots -> [Scopes -> Bundles]] /\ lookup' \in [Bots -> TextLookups] /\ slips' \in Nat
      /\ \A x \in Bots : /\ remembered'[x][AllGuilds] \in {remembered[x][AllGuilds], NoBundle}
                         /\ lookup'[x] \in {lookup[x], Quiet}
    <2>1. Quiet \in TextLookups /\ AllGuilds \in Scopes
        BY DEF Quiet, TextLookups, Scopes, Bundles
    <2> QED
        BY <1>1, <2>1, TextsTyped DEF RestartBot, LookupEnds, Bundles, Slip
<1>5. TranslationsTypeOK'
    BY <1>1, <1>3, <1>4 DEF TranslationsTypeOK, EditStates, EditPcs, TextLookups, Bundles
<1>6. RowsKnown'
    <2>1. ASSUME NEW x \in Edits, edit'[x].pc \in {"update", "remove"}
          PROVE  edit'[x] = edit[x]
        BY <1>1, <1>2, <2>1 DEF EditStates
    <2>2. ASSUME NEW x \in DOMAIN texts \cup alone \cup latest
          PROVE  ~Begun(x)'
        <3>1. ~Begun(x) /\ x \in Edits
            BY <1>1 DEF RowsKnown, TranslationsTypeOK
        <3> QED
            BY <1>1, <1>2, <3>1 DEF Begun, EditStates
    <2> QED
        BY <1>1, <2>1, <2>2 DEF RowsKnown
<1>7. \A v : Fresh(v)' <=> Fresh(v)
    BY <1>1 DEF Fresh, Compiled, Now, Live, Rows
<1>8. ASSUME NEW x \in latest' \cap alone'
      PROVE  AloneReaches(x)'
    <2>1. x \in Edits /\ AloneReaches(x) /\ edit[x].by \subseteq Bots
        BY <1>1 DEF ReachInv, TranslationsTypeOK
    <2>2. CASE edit'[x] = edit[x]
        <3>1. Looking' => Looking
            BY <1>4 DEF Looking
        <3> QED
            BY <1>1, <1>4, <1>7, <2>1, <2>2, <3>1 DEF AloneReaches, EditAt, Fresh, Quiet
    <2>3. CASE edit'[x].pc = "failed"
        BY <2>3 DEF AloneReaches, EditAt
    <2>4. edit[x] \in EditStates
        BY <1>1, <2>1
    <2>5. [edit[x] EXCEPT !.pc = "failed"].pc = "failed"
        BY <2>4 DEF EditStates
    <2> QED
        BY <1>2, <2>1, <2>2, <2>3, <2>5
<1> QED
    BY <1>5, <1>6, <1>8 DEF ReachInv

LEMMA ForgottenKeepsInv ==
    ASSUME ReachInv, (\E s \in Scopes : ExpireBundle(s)) \/ (\E g \in TextGuilds : GuildDeleted(g))
    PROVE  ReachInv'
<1>1. /\ TranslationsTypeOK /\ RowsKnown
      /\ UNCHANGED << remembered, lookup, edit, latest, alone, slips >>
      /\ texts \in [DOMAIN texts -> TextRows]
    BY TextsTyped DEF ReachInv, ExpireBundle, GuildDeleted
<1>2. /\ DOMAIN texts' = DOMAIN texts
      /\ \A r \in DOMAIN texts : /\ texts'[r].scope = texts[r].scope
                                 /\ texts[r].scope = AllGuilds => texts'[r] = texts[r]
      /\ texts' \in [DOMAIN texts' -> TextRows]
    <2>1. CASE \E s \in Scopes : ExpireBundle(s)
        BY <1>1, <2>1 DEF ExpireBundle
    <2>2. ASSUME NEW g \in TextGuilds, GuildDeleted(g)
          PROVE  /\ DOMAIN texts' = DOMAIN texts
                 /\ \A r \in DOMAIN texts : /\ texts'[r].scope = texts[r].scope
                                            /\ texts'[r] \in TextRows
                                            /\ texts[r].scope = AllGuilds => texts'[r] = texts[r]
                 /\ texts' = [r \in DOMAIN texts |-> texts'[r]]
        <3>1. g # AllGuilds
            BY TranslationsAssumption DEF AllGuilds
        <3>2. texts' = [r \in DOMAIN texts |-> [texts[r] EXCEPT !.live = @ /\ texts[r].scope # g]]
            BY <2>2 DEF GuildDeleted
        <3>3. ASSUME NEW r \in DOMAIN texts
              PROVE  /\ texts'[r].scope = texts[r].scope
                     /\ texts'[r] \in TextRows
                     /\ texts[r].scope = AllGuilds => texts'[r] = texts[r]
            <4>1. texts[r] \in TextRows
                BY <1>1
            <4>2. texts'[r] = [texts[r] EXCEPT !.live = @ /\ texts[r].scope # g]
                BY <3>2
            <4>3. texts'[r] = [scope |-> texts[r].scope, value |-> texts[r].value,
                               live |-> texts[r].live /\ texts[r].scope # g]
                BY <4>1, <4>2 DEF TextRows
            <4> QED
                BY <3>1, <4>1, <4>3 DEF TextRows
        <3> QED
            BY <3>2, <3>3
    <2> QED
        BY <2>1, <2>2
<1>3. /\ bundles' \in [Scopes -> Bundles]
      /\ bundles'[AllGuilds] \in {bundles[AllGuilds], NoBundle}
    BY <1>1, TextsTyped DEF ExpireBundle, GuildDeleted, Bundles, Scopes
<1>4. TranslationsTypeOK'
    BY <1>1, <1>2, <1>3 DEF TranslationsTypeOK, TextRows, Bundles
<1>5. RowsKnown'
    BY <1>1, <1>2 DEF RowsKnown, Begun
<1>6. Compiled(AllGuilds)' = Compiled(AllGuilds)
    BY <1>2, SameText
<1>7. \A x \in latest' \cap alone' : AloneReaches(x)'
    BY <1>1, <1>3, <1>6 DEF ReachInv, AloneReaches, Fresh, EditAt, Looking
<1> QED
    BY <1>4, <1>5, <1>7 DEF ReachInv

-----------------------------------------------------------------------------
LEMMA TextsAlways == TranslationsSpec => []ReachInv
<1>1. TranslationsInit => ReachInv
    BY InitReaches
<1>2. ReachInv /\ [TranslationsNext]_textVars => ReachInv'
    <2>1. ASSUME ReachInv, UNCHANGED textVars
          PROVE  ReachInv'
        BY <2>1 DEF textVars, ReachInv, TranslationsTypeOK, RowsKnown, Begun, AloneReaches, Looking,
                    EditAt, Fresh, Compiled, Now, Live, Rows
    <2>2. ASSUME ReachInv, NEW b \in Bots, NEW s \in Shows[b], AskRedis(b, s)
          PROVE  ReachInv'
        BY <2>2, LookupKeepsInv, TranslationsAssumption DEF Scopes, AllGuilds
    <2>3. ASSUME ReachInv, NEW b \in Bots, Load(b) \/ FillBundle(b) \/ Remember(b)
          PROVE  ReachInv'
        BY <2>3, LookupKeepsInv DEF Scopes
    <2> QED
        BY <2>1, <2>2, <2>3, TextWriteKeepsInv, RequestKeepsInv, RestartKeepsInv, ForgottenKeepsInv
        DEF TranslationsNext
<1> QED
    BY <1>1, <1>2, PTL DEF TranslationsSpec

\* Redis and the process that handled the event of the latest global edit hold
\* no older text, if no lookup of that bundle overlapped the edit: invalidate
\* drops both, and from then on only load fills them.
THEOREM EditsReachHandler == TranslationsSpec => []EditReachesHandler
<1>1. ReachInv => EditReachesHandler
    BY DEF ReachInv, AloneReaches, Fresh, EditReachesHandler
<1> QED
    BY <1>1, TextsAlways, PTL
=============================================================================
