--------------------------- MODULE StorageObjects ---------------------------
(***************************************************************************)
(* The storage module: StorageServiceImpl keeps the byte store (driver),   *)
(* the catalog of ref-counted objects and the usage per guild in step with *)
(* one await after the other, so that concurrent store() and delete()      *)
(* calls interleave at each of them and any of them may throw.             *)
(***************************************************************************)
EXTENDS Integers, Sequences, FiniteSetsExt

CONSTANTS
    Callers,      \* concurrent calls of the service
    Scopes,       \* guild (or global) and namespace
    GuildScopes,  \* the scopes that belong to a guild: quota and usage apply
    Contents,     \* bodies, by their hash
    SizeOf,       \* content -> bytes
    QuotaBytes,   \* quota of every guild; 0 is unlimited
    MaxObjects,   \* bound: catalog rows
    MaxHeld,      \* bound: references handed out for a row
    MaxFaults     \* bound: calls that fail half-way

ASSUME StorageAssumption ==
    /\ GuildScopes \subseteq Scopes
    /\ SizeOf \in [Contents -> Nat]
    /\ \E largest \in Contents : \A x \in Contents : SizeOf[x] <= SizeOf[largest]
    /\ IsFiniteSet(Callers) /\ Callers # {}
    /\ QuotaBytes \in Nat /\ MaxObjects \in Nat /\ MaxHeld \in Nat /\ MaxFaults \in Nat

VARIABLES
    objects,   \* storage_objects: the rows in order of creation; the id is the index
    bytes,     \* keys the driver holds
    usage,     \* storage_usage: guild scope -> [bytes, count]
    call,      \* caller -> [pc, key, id] of the call it is in
    held,      \* history: id -> references store() returned and no delete() took back
    granted,   \* history: ids store() ever returned
    faults,    \* history: calls that failed half-way
    doubled    \* history: two deletes of one row overlapped

vars == << objects, bytes, usage, call, held, granted, faults, doubled >>

Keys == Scopes \X Contents
Ids == 1 .. MaxObjects
Rows == DOMAIN objects
Size(key) == SizeOf[key[2]]
Live == {i \in Rows : ~objects[i].deleted}
Metered(key) == key[1] \in GuildScopes

Idle == [pc |-> "idle", key |-> << >>, id |-> 0]
At(c, pc) == call[c].pc = pc
Goto(c, pc) == call' = [call EXCEPT ![c].pc = pc]
Return(c) == call' = [call EXCEPT ![c] = Idle]

Init ==
    /\ objects = << >>
    /\ bytes = {}
    /\ usage = [s \in GuildScopes |-> [bytes |-> 0, count |-> 0]]
    /\ call = [c \in Callers |-> Idle]
    /\ held = [i \in Ids |-> 0]
    /\ granted = {}
    /\ faults = 0
    /\ doubled = FALSE

AddUsage(key, sign) ==
    usage' = IF Metered(key)
             THEN [usage EXCEPT ![key[1]] = [bytes |-> @.bytes + sign * Size(key),
                                             count |-> @.count + sign]]
             ELSE usage

-----------------------------------------------------------------------------
(* store() *)

\* Mutant of WithinQuota: the new object is left out of the projection.
WithinQuotaNow(key) ==
    Metered(key) /\ QuotaBytes # 0 => usage[key[1]].bytes <= QuotaBytes

\* assertWithinQuota; a rejected call changes nothing.
WithinQuota(key) ==
    Metered(key) /\ QuotaBytes # 0 => usage[key[1]].bytes + Size(key) <= QuotaBytes

Store(c, key) ==
    /\ At(c, "idle") /\ WithinQuota(key)
    /\ call' = [call EXCEPT ![c] = [pc |-> "lookup", key |-> key, id |-> 0]]
    /\ UNCHANGED << objects, bytes, usage, held, granted, faults, doubled >>

\* The live rows findByHash may answer with.
FindByHash(key) == {i \in Live : objects[i].key = key}

\* Mutant of LookupHit: the row that was found is not passed on.
LookupHitForgetsRow(c) ==
    /\ At(c, "lookup") /\ FindByHash(call[c].key) # {}
    /\ Goto(c, "increment")
    /\ UNCHANGED << objects, bytes, usage, held, granted, faults, doubled >>

LookupHit(c) ==
    /\ At(c, "lookup")
    /\ \E i \in FindByHash(call[c].key) :
          /\ held[i] < MaxHeld
          /\ call' = [call EXCEPT ![c].pc = "increment", ![c].id = i]
    /\ UNCHANGED << objects, bytes, usage, held, granted, faults, doubled >>

LookupMiss(c) ==
    /\ At(c, "lookup") /\ FindByHash(call[c].key) = {}
    /\ Goto(c, "put")
    /\ UNCHANGED << objects, bytes, usage, held, granted, faults, doubled >>

\* Mutant of Increment: a dedupe hit is charged but not counted.
IncrementNothing(c) ==
    /\ At(c, "increment")
    /\ Goto(c, "stored")
    /\ UNCHANGED << objects, bytes, usage, held, granted, faults, doubled >>

\* storeDeduped: incrementRefCount, whatever became of the row since the lookup.
Increment(c) ==
    /\ At(c, "increment")
    /\ objects' = [objects EXCEPT ![call[c].id].refCount = @ + 1]
    /\ Goto(c, "stored")
    /\ UNCHANGED << bytes, usage, held, granted, faults, doubled >>

\* Mutant of Put: a key that was catalogued before is taken to be there still.
PutNothing(c) ==
    /\ At(c, "put")
    /\ Goto(c, "create")
    /\ UNCHANGED << objects, bytes, usage, held, granted, faults, doubled >>

Put(c) ==
    /\ At(c, "put")
    /\ bytes' = bytes \cup {call[c].key}
    /\ Goto(c, "create")
    /\ UNCHANGED << objects, usage, held, granted, faults, doubled >>

Create(c) ==
    /\ At(c, "create") /\ Len(objects) < MaxObjects
    /\ objects' = Append(objects, [key |-> call[c].key, refCount |-> 1, deleted |-> FALSE])
    /\ call' = [call EXCEPT ![c].pc = "account", ![c].id = Len(objects) + 1]
    /\ UNCHANGED << bytes, usage, held, granted, faults, doubled >>

Account(c) ==
    /\ At(c, "account")
    /\ AddUsage(call[c].key, 1)
    /\ Goto(c, "stored")
    /\ UNCHANGED << objects, bytes, held, granted, faults, doubled >>

\* ObjectStored is out: the caller has its reference.
StoreReturn(c) ==
    /\ At(c, "stored")
    /\ held' = [held EXCEPT ![call[c].id] = @ + 1]
    /\ granted' = granted \cup {call[c].id}
    /\ Return(c)
    /\ UNCHANGED << objects, bytes, usage, faults, doubled >>

-----------------------------------------------------------------------------
(* delete() *)

\* requireObject finds a live row; a deleted one is not found and nothing changes.
Delete(c, i) ==
    /\ At(c, "idle") /\ i \in granted \cap Live
    /\ call' = [call EXCEPT ![c] = [pc |-> "softDelete", key |-> objects[i].key, id |-> i]]
    /\ held' = [held EXCEPT ![i] = IF @ > 0 THEN @ - 1 ELSE 0]
    /\ UNCHANGED << objects, bytes, usage, granted, faults, doubled >>

SoftDelete(c) ==
    /\ At(c, "softDelete")
    /\ objects' = [objects EXCEPT ![call[c].id].deleted = TRUE]
    /\ doubled' = (doubled \/ objects[call[c].id].deleted)
    /\ Goto(c, "decrement")
    /\ UNCHANGED << bytes, usage, held, granted, faults >>

Decrement(c) ==
    /\ At(c, "decrement")
    /\ objects' = [objects EXCEPT ![call[c].id].refCount = @ - 1]
    /\ Goto(c, "release")
    /\ UNCHANGED << bytes, usage, held, granted, faults, doubled >>

\* Mutant of Release: only a row without references left is taken off the usage.
ReleaseAtZero(c) ==
    /\ At(c, "release")
    /\ IF objects[call[c].id].refCount = 0 THEN AddUsage(call[c].key, -1) ELSE UNCHANGED usage
    /\ Return(c)
    /\ UNCHANGED << objects, bytes, held, granted, faults, doubled >>

\* addUsage of a guild's object; the ObjectDeleted event changes nothing more.
Release(c) ==
    /\ At(c, "release")
    /\ AddUsage(call[c].key, -1)
    /\ Return(c)
    /\ UNCHANGED << objects, bytes, held, granted, faults, doubled >>

-----------------------------------------------------------------------------
\* The database, the driver or the bus throws, or the process dies: the call
\* ends where it is and nothing it did is undone.
Fail(c) ==
    /\ ~At(c, "idle") /\ faults < MaxFaults
    /\ faults' = faults + 1
    /\ Return(c)
    /\ UNCHANGED << objects, bytes, usage, held, granted, doubled >>

StoreStep(c) ==
    \/ \E key \in Keys : Store(c, key)
    \/ LookupHit(c) \/ LookupMiss(c) \/ Increment(c) \/ Put(c) \/ Create(c) \/ Account(c)
    \/ StoreReturn(c)

DeleteStep(c) ==
    \/ \E i \in Rows : Delete(c, i)
    \/ SoftDelete(c) \/ Decrement(c) \/ Release(c)

Next == \E c \in Callers : StoreStep(c) \/ DeleteStep(c) \/ Fail(c)

Spec == Init /\ [][Next]_vars

-----------------------------------------------------------------------------
PutStates == {"put", "lookup"}
RowStates == {"increment", "account", "stored", "softDelete", "decrement", "release"}

TypeOK ==
    /\ \A i \in Rows : /\ objects[i].key \in Keys
                       /\ objects[i].refCount \in Int
                       /\ objects[i].deleted \in BOOLEAN
    /\ bytes \subseteq Keys
    /\ \A s \in GuildScopes : usage[s].bytes \in Int /\ usage[s].count \in Int
    /\ \A c \in Callers : \/ call[c] = Idle
                          \/ call[c].pc \in PutStates \cup {"create"} /\ call[c].key \in Keys
                          \/ call[c].pc \in RowStates /\ call[c].id \in Rows
    /\ held \in [Ids -> Nat] /\ granted \subseteq Rows
    /\ faults \in Nat /\ doubled \in BOOLEAN

Quiet == \A c \in Callers : At(c, "idle")

LiveOf(s) == {i \in Live : objects[i].key[1] = s}
LiveSizes(s) == [i \in Rows |-> IF i \in LiveOf(s) THEN Size(objects[i].key) ELSE 0]

\* w[1] + ... + w[n]
SumTo(w, n) == LET sum[m \in 0 .. n] == IF m = 0 THEN 0 ELSE sum[m - 1] + w[m] IN sum[n]

LiveBytes(s) == SumTo(LiveSizes(s), Len(objects))

\* A live row always has its bytes: storeFresh puts before it creates, and a
\* delete of another row with the same key leaves them.
LiveHaveBytes == \A i \in Live : objects[i].key \in bytes

\* A reference that store() returned is counted until it is deleted, so a row
\* somebody holds is never among the rows whose refs have all been released,
\* whatever fails half-way and whatever else is stored and deleted meanwhile.
HeldAreCounted == ~doubled => \A i \in Rows : objects[i].refCount >= held[i]

\* When no call is in flight, none failed half-way and no two deletes of a row
\* overlapped, the usage of a guild is that of its live rows, however often
\* they were deduplicated (addUsage in storeFresh and delete, not in storeDeduped).
UsageMatchesCatalog ==
    Quiet /\ faults = 0 /\ ~doubled =>
        \A s \in GuildScopes : usage[s] = [bytes |-> LiveBytes(s), count |-> Cardinality(LiveOf(s))]

\* The quota is checked before the bytes are charged, so calls that overlap
\* overshoot it together: by one object for every further call, never by more.
OvershootBounded ==
    QuotaBytes # 0 /\ faults = 0 /\ ~doubled =>
        \A s \in GuildScopes :
            LiveBytes(s) <= QuotaBytes + (Cardinality(Callers) - 1) * Max({SizeOf[x] : x \in Contents})

\* findDeletedWithZeroRefs: "their bytes are orphaned and safe to reclaim".
Reclaimable == {i \in Rows : objects[i].deleted /\ objects[i].refCount <= 0}

ReclaimableIsOrphaned ==
    \A i \in Reclaimable : \A j \in Live : objects[i].key # objects[j].key
=============================================================================
