------------------------- MODULE StorageObjectsProofs -------------------------
(***************************************************************************)
(* For any number of callers, scopes, contents and half-way failures: the  *)
(* bytes of live rows are there, held references are counted, the usage of *)
(* a guild is that of its catalog, and calls that overlap take it over its *)
(* quota by one object each.                                               *)
(***************************************************************************)
EXTENDS StorageObjects, FiniteSetTheorems, NaturalsInduction, TLAPS

ObjectRows == [key : Keys, refCount : Int, deleted : BOOLEAN]
CallStates == [pc : {"idle"} \cup PutStates \cup {"create"} \cup RowStates,
               key : Keys \cup {<< >>}, id : Nat]

Typed ==
    /\ objects \in Seq(ObjectRows)
    /\ bytes \subseteq Keys
    /\ usage \in [GuildScopes -> [bytes : Int, count : Int]]
    /\ call \in [Callers -> CallStates]
    /\ \A c \in Callers :
        /\ call[c].pc = "idle" => call[c] = Idle
        /\ call[c].pc # "idle" => call[c].key \in Keys
        /\ call[c].pc \in RowStates => call[c].id \in Rows
    /\ held \in [Ids -> Nat] /\ granted \subseteq Rows /\ Rows \subseteq Ids
    /\ faults \in Nat /\ doubled \in BOOLEAN

\* A call that is about to catalogue an object has put its bytes, and no call
\* takes bytes away.
BytesInv ==
    /\ LiveHaveBytes
    /\ \A c \in Callers : At(c, "create") => call[c].key \in bytes

\* References a store() has counted but not returned yet.
Pending(i) == {c \in Callers : call[c].pc \in {"account", "stored"} /\ call[c].id = i}
Owed(i) == held[i] + Cardinality(Pending(i))

\* A row counts the references that are out and those about to be; one more
\* while a delete() has taken its reference and not discounted it.
Counted(i) ==
    /\ objects[i].refCount >= Owed(i)
    /\ i \in granted /\ ~objects[i].deleted => objects[i].refCount >= 1 + Cardinality(Pending(i))
    /\ \A c \in Callers : call[c].id = i =>
        /\ At(c, "softDelete") /\ ~objects[i].deleted => objects[i].refCount >= 1 + Owed(i)
        /\ At(c, "decrement") =>
            /\ objects[i].deleted /\ objects[i].refCount >= 1 + Owed(i)
            /\ \A d \in Callers : At(d, "decrement") /\ call[d].id = i => d = c

CountInv ==
    /\ \A i \in Ids : held[i] > 0 => i \in granted
    /\ ~doubled => \A i \in Rows : Counted(i)

StorageInv == Typed /\ BytesInv /\ CountInv

-----------------------------------------------------------------------------
LEMMA InitHolds ==
    ASSUME Init
    PROVE  StorageInv
<1>1. Idle \in CallStates /\ Idle.pc = "idle"
    BY DEF Idle, CallStates
<1>2. Typed
    <2>1. Rows = {} /\ objects \in Seq(ObjectRows)
        BY DEF Init, Rows
    <2>2. usage \in [GuildScopes -> [bytes : Int, count : Int]] /\ held \in [Ids -> Nat]
        BY DEF Init
    <2>3. call \in [Callers -> CallStates] /\ \A c \in Callers : call[c] = Idle /\ call[c].pc = "idle"
        BY <1>1 DEF Init
    <2> QED
        BY <2>1, <2>2, <2>3 DEF Init, Typed, RowStates
<1>3. BytesInv
    BY <1>1 DEF Init, BytesInv, LiveHaveBytes, Live, Rows, At
<1>4. CountInv
    BY DEF Init, CountInv, Rows
<1> QED
    BY <1>2, <1>3, <1>4 DEF StorageInv

\* A call of the service is where the step takes it, and the others stay.
LEMMA Moves ==
    ASSUME Typed, NEW c \in Callers
    PROVE  /\ \A pc \in {"increment", "put", "create", "stored", "account", "decrement", "release"} :
                  Goto(c, pc) => call' = [call EXCEPT ![c] =
                      [pc |-> pc, key |-> call[c].key, id |-> call[c].id]]
           /\ Return(c) => call' = [call EXCEPT ![c] = [pc |-> "idle", key |-> << >>, id |-> 0]]
<1>1. call[c] = [pc |-> call[c].pc, key |-> call[c].key, id |-> call[c].id]
    BY DEF Typed, CallStates
<1> QED
    BY <1>1 DEF Typed, Goto, Return, Idle

LEMMA AddUsageTyped ==
    ASSUME StorageAssumption, Typed, NEW key \in Keys, NEW sign \in {1, -1}, AddUsage(key, sign)
    PROVE  usage' \in [GuildScopes -> [bytes : Int, count : Int]]
<1>1. Size(key) \in Nat
    BY DEF StorageAssumption, Size, Keys
<1>2. CASE Metered(key)
    <2>1. key[1] \in GuildScopes /\ usage[key[1]] \in [bytes : Int, count : Int]
        BY <1>2 DEF Metered, Typed
    <2>2. /\ usage[key[1]].bytes + sign * Size(key) \in Int
          /\ usage[key[1]].count + sign \in Int
        BY <1>1, <2>1
    <2> QED
        BY <1>2, <2>1, <2>2 DEF AddUsage, Typed
<1>3. CASE ~Metered(key)
    BY <1>3 DEF AddUsage, Typed
<1> QED
    BY <1>2, <1>3

\* The state of the call a step takes on, and the rows it may name.
LEMMA CallTyped ==
    ASSUME Typed, NEW c \in Callers, NEW new \in CallStates, call' = [call EXCEPT ![c] = new],
           new.pc = "idle" => new = Idle, new.pc # "idle" => new.key \in Keys,
           new.pc \in RowStates => new.id \in Rows', Rows \subseteq Rows'
    PROVE  /\ call' \in [Callers -> CallStates]
           /\ \A d \in Callers :
               /\ call'[d].pc = "idle" => call'[d] = Idle
               /\ call'[d].pc # "idle" => call'[d].key \in Keys
               /\ call'[d].pc \in RowStates => call'[d].id \in Rows'
    BY DEF Typed

LEMMA RowTyped ==
    ASSUME Typed, NEW i \in Rows
    PROVE  /\ i \in Ids /\ objects[i] \in ObjectRows /\ Len(objects) \in Nat
           /\ Rows = 1 .. Len(objects)
           /\ objects[i].refCount \in Int /\ objects[i].refCount + 1 \in Int /\ objects[i].refCount - 1 \in Int
           /\ \A n \in Int : [objects EXCEPT ![i].refCount = n] \in Seq(ObjectRows)
           /\ [objects EXCEPT ![i].deleted = TRUE] \in Seq(ObjectRows)
<1>1. objects \in Seq(ObjectRows) /\ i \in 1 .. Len(objects) /\ i \in Ids
    BY DEF Typed, Rows
<1>2. objects[i] \in ObjectRows
    BY <1>1
<1>3. /\ \A n \in Int : [objects[i] EXCEPT !.refCount = n] \in ObjectRows
      /\ [objects[i] EXCEPT !.deleted = TRUE] \in ObjectRows
    BY <1>2 DEF ObjectRows
<1>5. objects[i].refCount \in Int
    BY <1>2 DEF ObjectRows
<1>4. \A row \in ObjectRows : [objects EXCEPT ![i] = row] \in Seq(ObjectRows)
    BY <1>1
<1> QED
    BY <1>1, <1>2, <1>3, <1>4, <1>5 DEF Rows

LEMMA StoreTyped ==
    ASSUME StorageAssumption, Typed, NEW c \in Callers, StoreStep(c)
    PROVE  Typed'
<1>1. call[c] \in CallStates /\ \A i \in Rows : i \in Nat
    BY DEF Typed, Rows, Ids
<1>2. CASE \E key \in Keys : Store(c, key)
    <2>1. PICK key \in Keys : Store(c, key)
        BY <1>2
    <2>2. [pc |-> "lookup", key |-> key, id |-> 0] \in CallStates
        BY DEF CallStates, PutStates
    <2> QED
        BY <2>1, <2>2, CallTyped DEF Store, Typed, Rows, RowStates
<1>3. CASE LookupHit(c)
    <2>1. PICK i \in FindByHash(call[c].key) : call' = [call EXCEPT ![c].pc = "increment", ![c].id = i]
        BY <1>3 DEF LookupHit
    <2> DEFINE new == [call[c] EXCEPT !.pc = "increment", !.id = i]
    <2>2. i \in Rows /\ call[c].key \in Keys
        BY <1>3 DEF FindByHash, Live, LookupHit, At, Typed
    <2>3. new \in CallStates
        BY <1>1, <2>2 DEF CallStates, RowStates
    <2>4. new.pc = "increment" /\ new.id = i /\ new.key = call[c].key
        BY <1>1 DEF CallStates
    <2>5. call' = [call EXCEPT ![c] = new]
        BY <2>1 DEF Typed
    <2> HIDE DEF new
    <2> QED
        BY <1>3, <2>2, <2>3, <2>4, <2>5, CallTyped DEF LookupHit, Typed, Rows
<1>4. ASSUME NEW pc \in {"put", "stored", "create", "account"}, Goto(c, pc), ~At(c, "idle"),
             pc = "stored" => call[c].pc \in RowStates, pc # "account",
             UNCHANGED objects
      PROVE  /\ call' \in [Callers -> CallStates]
             /\ \A d \in Callers :
                 /\ call'[d].pc = "idle" => call'[d] = Idle
                 /\ call'[d].pc # "idle" => call'[d].key \in Keys
                 /\ call'[d].pc \in RowStates => call'[d].id \in Rows'
    <2>1. [pc |-> pc, key |-> call[c].key, id |-> call[c].id] \in CallStates
        BY <1>1, <1>4 DEF CallStates, PutStates, RowStates
    <2>2. call' = [call EXCEPT ![c] = [pc |-> pc, key |-> call[c].key, id |-> call[c].id]]
        BY <1>4, Moves
    <2> QED
        BY <1>4, <2>1, <2>2, CallTyped DEF Typed, At, RowStates, Rows
<1>5. CASE LookupMiss(c) \/ Put(c)
    BY <1>4, <1>5 DEF LookupMiss, Put, Typed, At, Rows
<1>6. CASE Increment(c)
    <2>1. call[c].id \in Rows /\ call[c].pc \in RowStates
        BY <1>6 DEF Increment, At, Typed, RowStates
    <2>2. objects[call[c].id].refCount + 1 \in Int
        BY <2>1, RowTyped
    <2>3. objects' \in Seq(ObjectRows) /\ Rows' = Rows
        BY <1>6, <2>1, <2>2, RowTyped DEF Increment, Rows
    <2>4. [pc |-> "stored", key |-> call[c].key, id |-> call[c].id] \in CallStates
        BY <1>1 DEF CallStates, RowStates
    <2>5. call' = [call EXCEPT ![c] = [pc |-> "stored", key |-> call[c].key, id |-> call[c].id]]
        BY <1>6, Moves DEF Increment
    <2> QED
        BY <1>6, <2>1, <2>3, <2>4, <2>5, CallTyped DEF Increment, Typed, At
<1>7. CASE Create(c)
    <2> DEFINE row == [key |-> call[c].key, refCount |-> 1, deleted |-> FALSE]
    <2>1. row \in ObjectRows /\ call[c].key \in Keys
        BY <1>7 DEF Create, At, Typed, ObjectRows
    <2>2. /\ objects' \in Seq(ObjectRows) /\ Len(objects) \in Nat
          /\ Rows = 1 .. Len(objects) /\ Rows' = 1 .. (Len(objects) + 1)
        BY <1>7, <2>1 DEF Create, Typed, Rows
    <2> DEFINE new == [call[c] EXCEPT !.pc = "account", !.id = Len(objects) + 1]
    <2>3. new \in CallStates
        <3>1. Len(objects) + 1 \in Nat
            BY <2>2
        <3> QED
            BY <1>1, <3>1 DEF CallStates, RowStates
    <2>4. new.pc = "account" /\ new.id = Len(objects) + 1 /\ new.key = call[c].key
        BY <1>1 DEF CallStates
    <2>5. call' = [call EXCEPT ![c] = new]
        BY <1>7 DEF Create, Typed
    <2>6. Rows' \subseteq Ids /\ Rows \subseteq Rows'
        BY <1>7, <2>2, StorageAssumption DEF Create, Ids
    <2>7. new.id \in Rows'
        BY <2>2, <2>4
    <2> HIDE DEF new, row
    <2>8. /\ call' \in [Callers -> CallStates]
          /\ \A d \in Callers :
              /\ call'[d].pc = "idle" => call'[d] = Idle
              /\ call'[d].pc # "idle" => call'[d].key \in Keys
              /\ call'[d].pc \in RowStates => call'[d].id \in Rows'
        BY <2>1, <2>3, <2>4, <2>5, <2>6, <2>7, CallTyped
    <2> QED
        BY <1>7, <2>2, <2>6, <2>8 DEF Create, Typed
<1>8. CASE Account(c)
    <2>1. call[c].key \in Keys /\ call[c].pc \in RowStates
        BY <1>8 DEF Account, At, Typed, RowStates
    <2>2. usage' \in [GuildScopes -> [bytes : Int, count : Int]]
        BY <1>8, <2>1, AddUsageTyped DEF Account
    <2> QED
        BY <1>4, <1>8, <2>1, <2>2 DEF Account, Typed, At, Rows
<1>9. CASE StoreReturn(c)
    <2>1. call[c].id \in Rows
        BY <1>9 DEF StoreReturn, At, Typed, RowStates
    <2>2. [pc |-> "idle", key |-> << >>, id |-> 0] \in CallStates
        BY DEF CallStates
    <2>3. call' = [call EXCEPT ![c] = [pc |-> "idle", key |-> << >>, id |-> 0]]
        BY <1>9, Moves DEF StoreReturn
    <2>4. held' \in [Ids -> Nat]
        <3>1. held \in [Ids -> Nat] /\ call[c].id \in Ids
            BY <2>1 DEF Typed
        <3>2. held' = [held EXCEPT ![call[c].id] = @ + 1]
            BY <1>9 DEF StoreReturn
        <3> QED
            BY <3>1, <3>2
    <2> QED
        BY <1>9, <2>1, <2>2, <2>3, <2>4, CallTyped DEF StoreReturn, Typed, Idle, Rows, RowStates
<1> QED
    BY <1>2, <1>3, <1>5, <1>6, <1>7, <1>8, <1>9 DEF StoreStep

LEMMA DeleteTyped ==
    ASSUME StorageAssumption, Typed, NEW c \in Callers, DeleteStep(c) \/ Fail(c)
    PROVE  Typed'
<1>1. call[c] \in CallStates /\ \A i \in Rows : i \in Nat /\ i \in Ids
    BY DEF Typed, Rows, Ids
<1>2. [pc |-> "idle", key |-> << >>, id |-> 0] \in CallStates
    BY DEF CallStates
<1>3. CASE \E i \in Rows : Delete(c, i)
    <2>1. PICK i \in Rows : Delete(c, i)
        BY <1>3
    <2>2. objects[i].key \in Keys
        BY RowTyped DEF ObjectRows
    <2>3. [pc |-> "softDelete", key |-> objects[i].key, id |-> i] \in CallStates
        BY <1>1, <2>2 DEF CallStates, RowStates
    <2>4. held' \in [Ids -> Nat]
        BY <1>1, <2>1 DEF Delete, Typed
    <2> QED
        BY <2>1, <2>2, <2>3, <2>4, CallTyped DEF Delete, Typed, Rows
<1>4. CASE SoftDelete(c)
    <2>1. call[c].id \in Rows /\ call[c].key \in Keys
        BY <1>4 DEF SoftDelete, At, Typed, RowStates
    <2>2. objects' \in Seq(ObjectRows) /\ Rows' = Rows
        BY <1>4, <2>1, RowTyped DEF SoftDelete, Rows
    <2>3. [pc |-> "decrement", key |-> call[c].key, id |-> call[c].id] \in CallStates
        BY <1>1 DEF CallStates, RowStates
    <2>4. call' = [call EXCEPT ![c] = [pc |-> "decrement", key |-> call[c].key, id |-> call[c].id]]
        BY <1>4, Moves DEF SoftDelete
    <2>5. doubled' \in BOOLEAN
        <3>1. doubled' = (doubled \/ objects[call[c].id].deleted)
            BY <1>4 DEF SoftDelete
        <3> QED
            BY <3>1
    <2>6. UNCHANGED << bytes, usage, held, granted, faults >>
        BY <1>4 DEF SoftDelete
    <2> QED
        BY <2>1, <2>2, <2>3, <2>4, <2>5, <2>6, CallTyped DEF Typed
<1>5. CASE Decrement(c)
    <2>1. call[c].id \in Rows /\ call[c].key \in Keys
        BY <1>5 DEF Decrement, At, Typed, RowStates
    <2>2. objects[call[c].id].refCount - 1 \in Int
        BY <2>1, RowTyped
    <2>3. objects' \in Seq(ObjectRows) /\ Rows' = Rows
        BY <1>5, <2>1, <2>2, RowTyped DEF Decrement, Rows
    <2>4. [pc |-> "release", key |-> call[c].key, id |-> call[c].id] \in CallStates
        BY <1>1 DEF CallStates, RowStates
    <2>5. call' = [call EXCEPT ![c] = [pc |-> "release", key |-> call[c].key, id |-> call[c].id]]
        BY <1>5, Moves DEF Decrement
    <2> QED
        BY <1>5, <2>1, <2>3, <2>4, <2>5, CallTyped DEF Decrement, Typed
<1>6. CASE Release(c)
    <2>1. call[c].key \in Keys
        BY <1>6 DEF Release, At, Typed
    <2>2. usage' \in [GuildScopes -> [bytes : Int, count : Int]]
        BY <1>6, <2>1, AddUsageTyped DEF Release
    <2>3. call' = [call EXCEPT ![c] = [pc |-> "idle", key |-> << >>, id |-> 0]]
        BY <1>6, Moves DEF Release
    <2> QED
        BY <1>2, <1>6, <2>2, <2>3, CallTyped DEF Release, Typed, Idle, Rows, RowStates
<1>7. CASE Fail(c)
    <2>1. call' = [call EXCEPT ![c] = [pc |-> "idle", key |-> << >>, id |-> 0]]
        BY <1>7, Moves DEF Fail
    <2>2. faults' \in Nat
        BY <1>7 DEF Fail, Typed
    <2> QED
        BY <1>2, <1>7, <2>1, <2>2, CallTyped DEF Fail, Typed, Idle, Rows, RowStates
<1> QED
    BY <1>3, <1>4, <1>5, <1>6, <1>7 DEF DeleteStep

-----------------------------------------------------------------------------
(* The bytes. *)

LEMMA BytesKept ==
    ASSUME Typed, Typed', BytesInv, NEW c \in Callers, StoreStep(c) \/ DeleteStep(c) \/ Fail(c)
    PROVE  BytesInv'
<1>1. bytes \subseteq bytes'
    BY DEF StoreStep, Store, LookupHit, LookupMiss, Increment, Put, Create, Account, StoreReturn,
           DeleteStep, Delete, SoftDelete, Decrement, Release, Fail
<1>2. CASE Create(c)
    <2>1. /\ Rows' = Rows \cup {Len(objects) + 1}
          /\ \A i \in Rows : objects'[i] = objects[i]
          /\ objects'[Len(objects) + 1].key = call[c].key
        BY <1>2 DEF Create, Typed, Rows
    <2>2. \A d \in Callers : At(d, "create")' => At(d, "create") /\ call'[d].key = call[d].key
        BY <1>2 DEF Create, Typed, At
    <2> QED
        BY <1>1, <1>2, <2>1, <2>2 DEF BytesInv, LiveHaveBytes, Live, At, Create
<1>3. CASE ~Create(c)
    <2>1. \A i \in Rows' : i \in Rows /\ objects'[i].key = objects[i].key
                           /\ (objects[i].deleted => objects'[i].deleted)
        <3>1. CASE UNCHANGED objects
            BY <3>1 DEF Rows
        <3>2. CASE Increment(c) \/ SoftDelete(c) \/ Decrement(c)
            <4>1. call[c].id \in Rows /\ objects \in Seq(ObjectRows)
                BY <3>2 DEF Increment, SoftDelete, Decrement, At, Typed, RowStates
            <4>2. \A i \in Rows : objects[i] \in ObjectRows
                BY RowTyped
            <4>3. CASE Increment(c)
                BY <4>1, <4>2, <4>3 DEF Increment, Rows, ObjectRows
            <4>4. CASE SoftDelete(c)
                BY <4>1, <4>2, <4>4 DEF SoftDelete, Rows, ObjectRows
            <4>5. CASE Decrement(c)
                BY <4>1, <4>2, <4>5 DEF Decrement, Rows, ObjectRows
            <4> QED
                BY <3>2, <4>3, <4>4, <4>5
        <3> QED
            BY <1>3, <3>1, <3>2 DEF StoreStep, Store, LookupHit, LookupMiss, Put, Account, StoreReturn,
                                    DeleteStep, Delete, Release, Fail
    <2>2. \A d \in Callers : At(d, "create")' =>
              call'[d].key = call[d].key /\ (At(d, "create") \/ call[d].key \in bytes')
        <3>1. \A d \in Callers \ {c} : call'[d] = call[d]
            BY DEF StoreStep, Store, LookupHit, LookupMiss, Increment, Put, Create, Account, StoreReturn,
                   DeleteStep, Delete, SoftDelete, Decrement, Release, Fail, Goto, Return, Typed
        <3>2. At(c, "create")' => Put(c)
            <4>1. call[c] \in CallStates
                BY DEF Typed
            <4>2. CASE \/ \E key \in Keys : Store(c, key)
                       \/ \E i \in Rows : Delete(c, i)
                       \/ LookupHit(c) \/ SoftDelete(c)
                BY <4>1, <4>2, Moves DEF Store, Delete, LookupHit, SoftDelete, Typed, At, CallStates
            <4>3. CASE LookupMiss(c) \/ Increment(c) \/ Account(c) \/ Decrement(c)
                BY <4>3, Moves DEF LookupMiss, Increment, Account, Decrement, Typed, At
            <4>4. CASE StoreReturn(c) \/ Release(c) \/ Fail(c)
                BY <4>4, Moves DEF StoreReturn, Release, Fail, Typed, At
            <4> QED
                BY <1>3, <4>2, <4>3, <4>4 DEF StoreStep, DeleteStep
        <3>3. Put(c) => call'[c].key = call[c].key /\ call[c].key \in bytes'
            BY Moves DEF Put, Typed
        <3> QED
            BY <3>1, <3>2, <3>3 DEF At
    <2> QED
        BY <1>1, <2>1, <2>2 DEF BytesInv, LiveHaveBytes, Live, At
<1> QED
    BY <1>2, <1>3

-----------------------------------------------------------------------------
(* The references. *)

LEMMA PendingFinite ==
    ASSUME StorageAssumption, NEW i
    PROVE  IsFiniteSet(Pending(i)) /\ Cardinality(Pending(i)) \in Nat
<1>1. Pending(i) \subseteq Callers /\ IsFiniteSet(Callers)
    BY DEF Pending, StorageAssumption
<1> QED
    BY <1>1, FS_Subset, FS_CardinalityType

\* A row that a step neither counts, discounts nor takes a reference of.
LEMMA RowKept ==
    ASSUME StorageAssumption, Typed, NEW i \in Rows, Counted(i),
           objects'[i] = objects[i], held'[i] = held[i], i \in granted' => i \in granted,
           Pending(i)' \subseteq Pending(i),
           \A d \in Callers : call'[d].id = i /\ (At(d, "softDelete")' \/ At(d, "decrement")') =>
               call'[d] = call[d]
    PROVE  Counted(i)'
<1>1. /\ Cardinality(Pending(i)') \in Nat /\ Cardinality(Pending(i)) \in Nat
      /\ Cardinality(Pending(i)') <= Cardinality(Pending(i))
    <2>1. IsFiniteSet(Pending(i)') /\ Cardinality(Pending(i)') <= Cardinality(Pending(i))
        BY PendingFinite, FS_Subset
    <2> QED
        BY <2>1, PendingFinite, FS_CardinalityType
<1>2. /\ held[i] \in Nat /\ objects[i].refCount \in Int
      /\ Owed(i)' \in Nat /\ Owed(i) \in Nat /\ Owed(i)' <= Owed(i)
    <2>1. held[i] \in Nat /\ objects[i].refCount \in Int
        BY RowTyped DEF Typed
    <2> QED
        BY <1>1, <2>1 DEF Owed
<1>3. /\ objects'[i].refCount >= Owed(i)'
      /\ i \in granted' /\ ~objects'[i].deleted =>
          objects'[i].refCount >= 1 + Cardinality(Pending(i)')
    BY <1>1, <1>2 DEF Counted
<1>4. ASSUME NEW c \in Callers, call'[c].id = i, At(c, "softDelete")', ~objects'[i].deleted
      PROVE  objects'[i].refCount >= 1 + Owed(i)'
    <2>1. call[c].id = i /\ At(c, "softDelete")
        BY <1>4 DEF At
    <2>2. objects[i].refCount >= 1 + Owed(i)
        BY <1>4, <2>1 DEF Counted
    <2> QED
        BY <1>2, <2>2
<1>5. ASSUME NEW c \in Callers, call'[c].id = i, At(c, "decrement")'
      PROVE  /\ objects'[i].deleted /\ objects'[i].refCount >= 1 + Owed(i)'
             /\ \A d \in Callers : At(d, "decrement")' /\ call'[d].id = i => d = c
    <2>1. call[c].id = i /\ At(c, "decrement")
        BY <1>5 DEF At
    <2>2. /\ objects[i].deleted /\ objects[i].refCount >= 1 + Owed(i)
          /\ \A d \in Callers : At(d, "decrement") /\ call[d].id = i => d = c
        BY <2>1 DEF Counted
    <2> QED
        BY <1>2, <2>2 DEF At
<1> QED
    BY <1>3, <1>4, <1>5 DEF Counted

\* Steps that count and discount nothing, and take no further reference.
LEMMA CountKept ==
    ASSUME StorageAssumption, Typed, CountInv, NEW c \in Callers,
           \/ \E key \in Keys : Store(c, key)
           \/ LookupHit(c) \/ LookupMiss(c) \/ Put(c) \/ Account(c) \/ Release(c) \/ Fail(c)
    PROVE  CountInv'
<1>1. UNCHANGED << objects, held, granted, doubled >>
    BY DEF Store, LookupHit, LookupMiss, Put, Account, Release, Fail
<1>2. /\ \A d \in Callers \ {c} : call'[d] = call[d]
      /\ ~At(c, "softDelete")' /\ ~At(c, "decrement")'
      /\ call'[c].pc \in {"account", "stored"} => At(c, "account") /\ call'[c].id = call[c].id
    <2>1. call[c] \in CallStates /\ call \in [Callers -> CallStates]
        BY DEF Typed
    <2>2. CASE \E key \in Keys : Store(c, key)
        BY <2>1, <2>2 DEF Store, At
    <2>3. CASE LookupHit(c)
        <3>1. PICK i \in FindByHash(call[c].key) : call' = [call EXCEPT ![c].pc = "increment", ![c].id = i]
            BY <2>3 DEF LookupHit
        <3>2. call'[c] = [call[c] EXCEPT !.pc = "increment", !.id = i]
            BY <2>1, <3>1
        <3>3. call'[c].pc = "increment" /\ \A d \in Callers \ {c} : call'[d] = call[d]
            BY <2>1, <3>1, <3>2 DEF CallStates
        <3> QED
            BY <3>3 DEF At
    <2>4. CASE LookupMiss(c) \/ Put(c) \/ Account(c)
        BY <2>1, <2>4, Moves DEF LookupMiss, Put, Account, At
    <2>5. CASE Release(c) \/ Fail(c)
        BY <2>1, <2>5, Moves DEF Release, Fail, At
    <2> QED
        BY <2>2, <2>3, <2>4, <2>5
<1>3. \A i : Pending(i)' \subseteq Pending(i)
    BY <1>2 DEF Pending, At
<1>4. \A d \in Callers : At(d, "softDelete")' \/ At(d, "decrement")' => call'[d] = call[d]
    BY <1>2
<1>5. ASSUME ~doubled', NEW i \in Rows'
      PROVE  Counted(i)'
    <2>1. i \in Rows /\ Counted(i)
        BY <1>1, <1>5 DEF CountInv, Rows
    <2> QED
        BY <1>1, <1>3, <1>4, <2>1, RowKept
<1> QED
    BY <1>1, <1>5 DEF CountInv

LEMMA IncrementCounts ==
    ASSUME StorageAssumption, Typed, CountInv, NEW c \in Callers, Increment(c)
    PROVE  CountInv'
<1>1. call[c] \in CallStates /\ call[c].id \in Rows /\ At(c, "increment")
    BY DEF Typed, Increment, At, RowStates
<1>2. PICK row \in Rows : row = call[c].id
    BY <1>1
<1>3. /\ \A d \in Callers \ {c} : call'[d] = call[d]
      /\ call'[c].pc = "stored" /\ call'[c].id = row
    BY <1>1, <1>2, Moves DEF Increment, Typed
<1>7. /\ c \notin Pending(row) /\ Pending(row)' = Pending(row) \cup {c}
      /\ \A i : i # row => Pending(i)' \subseteq Pending(i)
    BY <1>1, <1>2, <1>3 DEF Pending, At
<1>4. /\ UNCHANGED << held, granted, doubled >> /\ Rows' = Rows
      /\ \A i \in Rows \ {row} : objects'[i] = objects[i]
      /\ objects'[row].refCount = objects[row].refCount + 1
      /\ objects'[row].deleted = objects[row].deleted
    <2>1. objects \in Seq(ObjectRows) /\ objects[row] \in ObjectRows
        BY <1>1, RowTyped DEF Typed
    <2> QED
        BY <1>2, <2>1 DEF Increment, Rows, ObjectRows
<1>5. ASSUME ~doubled', NEW i \in Rows, i # row
      PROVE  Counted(i)'
    <2>1. Counted(i)
        BY <1>4, <1>5 DEF CountInv
    <2> QED
        BY <1>3, <1>4, <1>5, <1>7, <2>1, RowKept DEF At
<1>6. ASSUME ~doubled'
      PROVE  Counted(row)'
    <2>1. Counted(row)
        BY <1>1, <1>4, <1>6 DEF CountInv
    <2>2. Cardinality(Pending(row)') = Cardinality(Pending(row)) + 1 /\ Cardinality(Pending(row)) \in Nat
        BY <1>7, PendingFinite, FS_AddElement
    <2>3. held[row] \in Nat /\ objects[row].refCount \in Int
        BY <1>1, RowTyped DEF Typed
    <2>4. Owed(row) \in Nat /\ Owed(row)' = Owed(row) + 1
        BY <1>4, <2>2, <2>3 DEF Owed
    <2>5. /\ objects'[row].refCount >= Owed(row)'
          /\ row \in granted' /\ ~objects'[row].deleted =>
              objects'[row].refCount >= 1 + Cardinality(Pending(row)')
        BY <1>4, <2>1, <2>2, <2>3, <2>4 DEF Counted
    <2>6. ASSUME NEW d \in Callers, call'[d].id = row, At(d, "softDelete")' \/ At(d, "decrement")'
          PROVE  call'[d] = call[d] /\ d # c
        BY <1>3, <2>6 DEF At
    <2>7. ASSUME NEW d \in Callers, call'[d].id = row, At(d, "softDelete")', ~objects'[row].deleted
          PROVE  objects'[row].refCount >= 1 + Owed(row)'
        <3>1. objects[row].refCount >= 1 + Owed(row)
            BY <1>4, <2>1, <2>6, <2>7 DEF Counted, At
        <3> QED
            BY <1>4, <2>3, <2>4, <3>1
    <2>8. ASSUME NEW d \in Callers, call'[d].id = row, At(d, "decrement")'
          PROVE  /\ objects'[row].deleted /\ objects'[row].refCount >= 1 + Owed(row)'
                 /\ \A x \in Callers : At(x, "decrement")' /\ call'[x].id = row => x = d
        <3>1. /\ objects[row].deleted /\ objects[row].refCount >= 1 + Owed(row)
              /\ \A x \in Callers : At(x, "decrement") /\ call[x].id = row => x = d
            BY <2>1, <2>6, <2>8 DEF Counted, At
        <3>2. objects'[row].refCount >= 1 + Owed(row)'
            BY <1>4, <2>3, <2>4, <3>1
        <3> QED
            BY <1>4, <2>6, <3>1, <3>2 DEF At
    <2> QED
        BY <2>5, <2>7, <2>8 DEF Counted
<1> QED
    BY <1>4, <1>5, <1>6 DEF CountInv

LEMMA CreateCounts ==
    ASSUME StorageAssumption, Typed, Typed', CountInv, NEW c \in Callers, Create(c)
    PROVE  CountInv'
<1> DEFINE fresh == Len(objects) + 1
<1>1. /\ objects \in Seq(ObjectRows) /\ Rows = 1 .. Len(objects) /\ Len(objects) \in Nat
      /\ call \in [Callers -> CallStates] /\ call[c] \in CallStates /\ At(c, "create")
    BY DEF Typed, Rows, Create
<1>2. /\ UNCHANGED << held, granted, doubled >> /\ Rows' = Rows \cup {fresh} /\ fresh \notin Rows
      /\ \A i \in Rows : objects'[i] = objects[i]
      /\ objects'[fresh].refCount = 1 /\ ~objects'[fresh].deleted
    BY <1>1 DEF Create, Rows
<1>3. /\ \A d \in Callers \ {c} : call'[d] = call[d]
      /\ call'[c].pc = "account" /\ call'[c].id = fresh
    BY <1>1 DEF Create, CallStates
<1>4. \A d \in Callers : call[d].pc \in RowStates => call[d].id # fresh
    BY <1>2 DEF Typed
<1>5. ASSUME ~doubled', NEW i \in Rows
      PROVE  Counted(i)'
    <2>1. Counted(i) /\ i # fresh
        BY <1>2, <1>5 DEF CountInv
    <2>2. Pending(i)' \subseteq Pending(i)
        BY <1>3, <2>1 DEF Pending
    <2> QED
        BY <1>2, <1>3, <2>1, <2>2, RowKept DEF At
<1>6. PICK new : new = fresh
    OBVIOUS
<1>7. Counted(new)'
    <2>1. Pending(new)' = {c}
        BY <1>3, <1>4, <1>6 DEF Pending, RowStates
    <2>2. new \in Ids /\ new \notin granted /\ held[new] \in Nat
        BY <1>2, <1>6 DEF Typed
    <2>3. held[new] = 0
        BY <2>2 DEF CountInv
    <2>4. Cardinality(Pending(new)') = 1
        BY <2>1, FS_Singleton
    <2>5. Owed(new)' = 1
        BY <1>2, <2>3, <2>4 DEF Owed
    <2>6. \A d \in Callers : call'[d].id = new => ~At(d, "softDelete")' /\ ~At(d, "decrement")'
        BY <1>3, <1>4, <1>6 DEF At, RowStates
    <2> QED
        BY <1>2, <1>6, <2>2, <2>5, <2>6 DEF Counted
<1> HIDE DEF fresh
<1> QED
    BY <1>2, <1>5, <1>6, <1>7 DEF CountInv

LEMMA ReturnCounts ==
    ASSUME StorageAssumption, Typed, CountInv, NEW c \in Callers, StoreReturn(c)
    PROVE  CountInv'
<1>1. call[c] \in CallStates /\ call[c].id \in Rows /\ At(c, "stored")
    BY DEF Typed, StoreReturn, At, RowStates
<1>2. PICK row \in Rows : row = call[c].id
    BY <1>1
<1>3. /\ \A d \in Callers \ {c} : call'[d] = call[d]
      /\ call'[c].pc = "idle"
    BY <1>1, Moves DEF StoreReturn, Typed
<1>4. /\ c \in Pending(row) /\ Pending(row)' = Pending(row) \ {c}
      /\ \A i : Pending(i)' \subseteq Pending(i)
    BY <1>1, <1>2, <1>3 DEF Pending, At
<1>5. /\ UNCHANGED << objects, doubled >> /\ Rows' = Rows
      /\ \A i \in Ids \ {row} : held'[i] = held[i]
      /\ held'[row] = held[row] + 1 /\ granted' = granted \cup {row} /\ row \in Ids
    BY <1>2, RowTyped DEF StoreReturn, Rows, Typed
<1>6. ASSUME ~doubled', NEW i \in Rows, i # row
      PROVE  Counted(i)'
    <2>1. Counted(i) /\ i \in Ids
        BY <1>5, <1>6 DEF CountInv, Typed
    <2> QED
        BY <1>3, <1>4, <1>5, <1>6, <2>1, RowKept DEF At
<1>7. ASSUME ~doubled'
      PROVE  Counted(row)'
    <2>1. Counted(row)
        BY <1>5, <1>7 DEF CountInv
    <2>2. /\ Cardinality(Pending(row)') = Cardinality(Pending(row)) - 1
          /\ Cardinality(Pending(row)) \in Nat /\ Cardinality(Pending(row)') \in Nat
        <3>1. IsFiniteSet(Pending(row)) /\ IsFiniteSet(Pending(row)')
            BY <1>4, PendingFinite, FS_Subset
        <3> QED
            BY <1>4, <3>1, FS_RemoveElement, FS_CardinalityType
    <2>3. held[row] \in Nat /\ objects[row].refCount \in Int
        BY RowTyped DEF Typed
    <2>4. Owed(row) \in Nat /\ Owed(row)' = Owed(row)
        BY <1>5, <2>2, <2>3 DEF Owed
    <2>5. objects[row].refCount >= 1 + Cardinality(Pending(row)')
        BY <2>1, <2>2, <2>3 DEF Counted, Owed
    <2>6. \A d \in Callers : At(d, "softDelete")' \/ At(d, "decrement")' => call'[d] = call[d]
        BY <1>3 DEF At
    <2>7. \A d \in Callers : At(d, "softDelete")' \/ At(d, "decrement")' => d # c
        BY <1>3 DEF At
    <2> QED
        BY <1>5, <2>1, <2>4, <2>5, <2>6 DEF Counted, At
<1> QED
    BY <1>5, <1>6, <1>7 DEF CountInv, Typed

\* delete() takes one reference of a live row; the row counts one for it, or
\* one that an earlier delete() took and never discounted.
LEMMA DeleteCounts ==
    ASSUME StorageAssumption, Typed, CountInv, NEW c \in Callers, NEW row \in Rows, Delete(c, row)
    PROVE  CountInv'
<1>1. /\ At(c, "idle") /\ row \in granted /\ ~objects[row].deleted /\ row \in Ids
      /\ call' = [call EXCEPT ![c] = [pc |-> "softDelete", key |-> objects[row].key, id |-> row]]
    BY RowTyped DEF Delete, Live
<1>2. /\ \A d \in Callers \ {c} : call'[d] = call[d]
      /\ call'[c].pc = "softDelete" /\ call'[c].id = row
    BY <1>1 DEF Typed
<1>3. \A i : Pending(i)' = Pending(i)
    BY <1>1, <1>2 DEF Pending, At
<1>4. /\ UNCHANGED << objects, doubled, granted >> /\ Rows' = Rows
      /\ \A i \in Ids \ {row} : held'[i] = held[i]
      /\ held[row] \in Nat /\ held'[row] \in Nat
      /\ held[row] > 0 => held'[row] = held[row] - 1
      /\ held[row] = 0 => held'[row] = 0
    BY <1>1 DEF Delete, Rows, Typed
<1>5. ASSUME ~doubled', NEW i \in Rows, i # row
      PROVE  Counted(i)'
    <2>1. Counted(i) /\ i \in Ids
        BY <1>4, <1>5 DEF CountInv, Typed
    <2> QED
        BY <1>2, <1>3, <1>4, <1>5, <2>1, RowKept DEF At
<1>6. ASSUME ~doubled'
      PROVE  Counted(row)'
    <2>1. Counted(row)
        BY <1>4, <1>6 DEF CountInv
    <2>2. Cardinality(Pending(row)) \in Nat /\ objects[row].refCount \in Int
        BY PendingFinite, RowTyped
    <2>3. /\ objects[row].refCount >= 1 + Cardinality(Pending(row))
          /\ objects[row].refCount >= held[row] + Cardinality(Pending(row))
        BY <1>1, <2>1 DEF Counted, Owed
    <2>4. Owed(row)' = held'[row] + Cardinality(Pending(row))
        BY <1>3 DEF Owed
    <2>5. objects[row].refCount >= 1 + Owed(row)' /\ Owed(row)' \in Nat
        BY <1>4, <2>2, <2>3, <2>4
    <2>6. \A d \in Callers : ~(At(d, "decrement")' /\ call'[d].id = row)
        <3>1. \A d \in Callers : ~(At(d, "decrement") /\ call[d].id = row)
            BY <1>1, <2>1 DEF Counted
        <3> QED
            BY <1>2, <3>1 DEF At
    <2>7. objects[row].refCount >= Owed(row)'
        BY <2>2, <2>5
    <2> QED
        BY <1>3, <1>4, <2>3, <2>5, <2>6, <2>7 DEF Counted
<1>7. \A i \in Ids : held'[i] > 0 => i \in granted'
    BY <1>1, <1>4 DEF CountInv
<1> QED
    BY <1>4, <1>5, <1>6, <1>7 DEF CountInv

\* The first of two overlapping deletes; the second one makes doubled true.
LEMMA SoftDeleteCounts ==
    ASSUME StorageAssumption, Typed, CountInv, NEW c \in Callers, SoftDelete(c)
    PROVE  CountInv'
<1>1. call[c] \in CallStates /\ call[c].id \in Rows /\ At(c, "softDelete")
    BY DEF Typed, SoftDelete, At, RowStates
<1>2. PICK row \in Rows : row = call[c].id
    BY <1>1
<1>3. /\ \A d \in Callers \ {c} : call'[d] = call[d]
      /\ call'[c].pc = "decrement" /\ call'[c].id = row
    BY <1>1, <1>2, Moves DEF SoftDelete, Typed
<1>4. \A i : Pending(i)' = Pending(i)
    BY <1>1, <1>3 DEF Pending, At
<1>5. /\ UNCHANGED << held, granted >> /\ Rows' = Rows
      /\ \A i \in Rows \ {row} : objects'[i] = objects[i]
      /\ objects'[row].refCount = objects[row].refCount /\ objects'[row].deleted
    <2>1. objects \in Seq(ObjectRows) /\ objects[row] \in ObjectRows
        BY <1>2, RowTyped DEF Typed
    <2> QED
        BY <1>2, <2>1 DEF SoftDelete, Rows, ObjectRows
<1>6. ~doubled' => ~doubled /\ ~objects[row].deleted
    BY <1>2 DEF SoftDelete
<1>7. ASSUME ~doubled', NEW i \in Rows, i # row
      PROVE  Counted(i)'
    <2>1. Counted(i)
        BY <1>6, <1>7 DEF CountInv
    <2> QED
        BY <1>3, <1>4, <1>5, <1>7, <2>1, RowKept DEF At
<1>8. ASSUME ~doubled'
      PROVE  Counted(row)'
    <2>1. Counted(row) /\ ~objects[row].deleted
        BY <1>6, <1>8 DEF CountInv
    <2>2. objects[row].refCount >= 1 + Owed(row)
        BY <1>1, <1>2, <2>1 DEF Counted
    <2>3. Owed(row)' = Owed(row)
        BY <1>4, <1>5 DEF Owed
    <2>4. held[row] \in Nat /\ objects[row].refCount \in Int /\ Cardinality(Pending(row)) \in Nat
        BY PendingFinite, RowTyped DEF Typed
    <2>5. objects[row].refCount >= Owed(row)
        BY <2>2, <2>4 DEF Owed
    <2>6. \A d \in Callers : At(d, "decrement")' /\ call'[d].id = row => d = c
        BY <1>3, <2>1 DEF Counted, At
    <2> QED
        BY <1>5, <2>2, <2>3, <2>5, <2>6 DEF Counted
<1> QED
    BY <1>5, <1>6, <1>7, <1>8 DEF CountInv

LEMMA DecrementCounts ==
    ASSUME StorageAssumption, Typed, CountInv, NEW c \in Callers, Decrement(c)
    PROVE  CountInv'
<1>1. call[c] \in CallStates /\ call[c].id \in Rows /\ At(c, "decrement")
    BY DEF Typed, Decrement, At, RowStates
<1>2. PICK row \in Rows : row = call[c].id
    BY <1>1
<1>3. /\ \A d \in Callers \ {c} : call'[d] = call[d]
      /\ call'[c].pc = "release" /\ call'[c].id = row
    BY <1>1, <1>2, Moves DEF Decrement, Typed
<1>4. \A i : Pending(i)' = Pending(i)
    BY <1>1, <1>3 DEF Pending, At
<1>5. /\ UNCHANGED << held, granted, doubled >> /\ Rows' = Rows
      /\ \A i \in Rows \ {row} : objects'[i] = objects[i]
      /\ objects'[row].refCount = objects[row].refCount - 1
      /\ objects'[row].deleted = objects[row].deleted
    <2>1. objects \in Seq(ObjectRows) /\ objects[row] \in ObjectRows
        BY <1>2, RowTyped DEF Typed
    <2> QED
        BY <1>2, <2>1 DEF Decrement, Rows, ObjectRows
<1>6. ASSUME ~doubled', NEW i \in Rows, i # row
      PROVE  Counted(i)'
    <2>1. Counted(i)
        BY <1>5, <1>6 DEF CountInv
    <2> QED
        BY <1>3, <1>4, <1>5, <1>6, <2>1, RowKept DEF At
<1>7. ASSUME ~doubled'
      PROVE  Counted(row)'
    <2>1. /\ objects[row].deleted /\ objects[row].refCount >= 1 + Owed(row)
          /\ \A d \in Callers : At(d, "decrement") /\ call[d].id = row => d = c
        BY <1>1, <1>2, <1>5, <1>7 DEF CountInv, Counted
    <2>2. held[row] \in Nat /\ objects[row].refCount \in Int /\ Cardinality(Pending(row)) \in Nat
        BY PendingFinite, RowTyped DEF Typed
    <2>3. Owed(row)' = Owed(row) /\ Owed(row) \in Nat
        BY <1>4, <1>5, <2>2 DEF Owed
    <2>4. objects'[row].refCount >= Owed(row)'
        BY <1>5, <2>1, <2>2, <2>3
    <2>5. \A d \in Callers : ~(At(d, "decrement")' /\ call'[d].id = row)
        BY <1>3, <2>1 DEF At
    <2> QED
        BY <1>5, <2>1, <2>4, <2>5 DEF Counted
<1> QED
    BY <1>5, <1>6, <1>7 DEF CountInv

-----------------------------------------------------------------------------
LEMMA StorageStep ==
    ASSUME StorageInv, [Next]_vars
    PROVE  StorageInv'
<1> USE StorageAssumption
<1>1. ASSUME NEW c \in Callers, StoreStep(c) \/ DeleteStep(c) \/ Fail(c)
      PROVE  StorageInv'
    <2>1. Typed /\ Typed'
        BY <1>1, StoreTyped, DeleteTyped DEF StorageInv
    <2>2. BytesInv'
        BY <1>1, <2>1, BytesKept DEF StorageInv
    <2>3. CountInv'
        BY <1>1, <2>1, CountKept, IncrementCounts, CreateCounts, ReturnCounts, DeleteCounts,
           SoftDeleteCounts, DecrementCounts
        DEF StorageInv, StoreStep, DeleteStep
    <2> QED
        BY <2>1, <2>2, <2>3 DEF StorageInv
<1>2. CASE UNCHANGED vars
    <2>1. UNCHANGED << objects, bytes, usage, call, held, granted, faults, doubled >>
        BY <1>2 DEF vars
    <2>2. Typed'
        BY <2>1 DEF StorageInv, Typed, Rows
    <2>3. BytesInv'
        BY <2>1 DEF StorageInv, BytesInv, LiveHaveBytes, Live, Rows, At
    <2>4. CountInv'
        <3>1. \A i : Pending(i)' = Pending(i)
            BY <2>1 DEF Pending
        <3>2. ASSUME ~doubled', NEW i \in Rows'
              PROVE  Counted(i)'
            <4>1. i \in Rows /\ Counted(i)
                BY <2>1, <3>2 DEF StorageInv, CountInv, Rows
            <4> QED
                BY <2>1, <3>1, <4>1, RowKept DEF StorageInv
        <3> QED
            BY <2>1, <3>2 DEF StorageInv, CountInv
    <2> QED
        BY <2>2, <2>3, <2>4 DEF StorageInv
<1> QED
    BY <1>1, <1>2 DEF Next

LEMMA StorageAlways == Spec => []StorageInv
<1>1. Init => StorageInv
    BY InitHolds
<1>2. StorageInv /\ [Next]_vars => StorageInv'
    BY StorageStep
<1> QED
    BY <1>1, <1>2, PTL DEF Spec

\* Every reachable state has the declared types: in particular, every call
\* that is at work on a row names one that exists.
THEOREM StorageTyped == Spec => []TypeOK
<1>1. StorageInv => TypeOK
    <2>1. ASSUME Typed, NEW i \in Rows
          PROVE  /\ objects[i].key \in Keys /\ objects[i].refCount \in Int
                 /\ objects[i].deleted \in BOOLEAN
        <3>1. objects[i] \in ObjectRows
            BY <2>1, RowTyped
        <3> QED
            BY <3>1 DEF ObjectRows
    <2>2. ASSUME Typed, NEW c \in Callers
          PROVE  \/ call[c] = Idle
                 \/ call[c].pc \in PutStates \cup {"create"} /\ call[c].key \in Keys
                 \/ call[c].pc \in RowStates /\ call[c].id \in Rows
        <3>1. call[c].pc \in {"idle"} \cup PutStates \cup {"create"} \cup RowStates
            BY <2>2 DEF Typed, CallStates
        <3> QED
            BY <2>2, <3>1 DEF Typed, PutStates
    <2>3. ASSUME Typed, NEW s \in GuildScopes
          PROVE  usage[s].bytes \in Int /\ usage[s].count \in Int
        BY <2>3 DEF Typed
    <2> QED
        BY <2>1, <2>2, <2>3 DEF StorageInv, TypeOK, Typed
<1> QED
    BY <1>1, StorageAlways, PTL

\* The bytes of a live row are in the store, whatever calls overlap or fail
\* half-way: storeFresh puts before it creates, and delete leaves bytes alone.
THEOREM BytesStay == Spec => []LiveHaveBytes
<1>1. StorageInv => LiveHaveBytes
    BY DEF StorageInv, BytesInv
<1> QED
    BY <1>1, StorageAlways, PTL

\* A reference store() returned is counted until it is deleted, so that the
\* row is no orphan, as long as no two deletes of a row overlap.
THEOREM HeldStayCounted == Spec => []HeldAreCounted
<1>1. StorageInv => HeldAreCounted
    <2>1. ASSUME StorageInv, ~doubled, NEW i \in Rows
          PROVE  objects[i].refCount >= held[i]
        <3>1. objects[i].refCount >= Owed(i)
            BY <2>1 DEF StorageInv, CountInv, Counted
        <3>2. held[i] \in Nat /\ objects[i].refCount \in Int /\ Cardinality(Pending(i)) \in Nat
            BY <2>1, StorageAssumption, PendingFinite, RowTyped DEF StorageInv, Typed
        <3> QED
            BY <3>1, <3>2 DEF Owed
    <2> QED
        BY <2>1 DEF HeldAreCounted
<1> QED
    BY <1>1, StorageAlways, PTL

-----------------------------------------------------------------------------
(* Sums over the rows. *)

\* Induction up to n, for a set.
LEMMA UpTo ==
    ASSUME NEW n \in Nat, NEW P, 0 \in P, \A m \in 1 .. n : m - 1 \in P => m \in P
    PROVE  \A m \in 0 .. n : m \in P
<1> DEFINE Bad == {m \in 0 .. n : m \notin P}
<1>1. Bad \in SUBSET Nat
    OBVIOUS
<1>2. SUFFICES ASSUME Bad # {}
               PROVE  FALSE
    OBVIOUS
<1>3. PICK m \in Bad : \A k \in Bad : << k, m >> \notin OpToRel(<, Nat)
    <2> HIDE DEF Bad
    <2> QED
        BY <1>1, <1>2, NatLessThanWellFounded, WFMin, Zenon
<1>4. \A k \in Bad : ~(k < m)
    BY <1>1, <1>3, Zenon DEF OpToRel
<1>5. m \in 1 .. n /\ m - 1 \in 0 .. n /\ m - 1 < m
    <2>1. m \in 0 .. n /\ m \notin P
        BY <1>3
    <2>2. m # 0
        BY <2>1
    <2> QED
        BY <2>1, <2>2
<1>6. m - 1 \in P
    BY <1>4, <1>5
<1> QED
    BY <1>3, <1>5, <1>6

\* The partial sums of w up to n.
Sums(f, w, n) == f = [m \in 0 .. n |-> IF m = 0 THEN 0 ELSE f[m - 1] + w[m]]

LEMMA SumsAre ==
    ASSUME NEW n \in Nat, NEW w, \A i \in 1 .. n : w[i] \in Int, NEW f, Sums(f, w, n)
    PROVE  /\ f[0] = 0 /\ \A m \in 1 .. n : f[m] = f[m - 1] + w[m]
           /\ \A m \in 0 .. n : f[m] \in Int
<1>1. f[0] = 0 /\ \A m \in 1 .. n : f[m] = f[m - 1] + w[m]
    BY DEF Sums
<1> DEFINE P == {m \in 0 .. n : f[m] \in Int}
<1>2. 0 \in P
    BY <1>1
<1>3. \A m \in 1 .. n : m - 1 \in P => m \in P
    BY <1>1
<1>4. \A m \in 0 .. n : m \in P
    <2> HIDE DEF P
    <2> QED
        BY <1>2, <1>3, UpTo
<1> QED
    BY <1>1, <1>4

LEMMA SumsExist ==
    ASSUME NEW n \in Nat, NEW w, \A i \in 1 .. n : w[i] \in Int
    PROVE  \E f : Sums(f, w, n)
<1> DEFINE P == {k \in 0 .. n : \E f : Sums(f, w, k)}
<1>1. 0 \in P
    <2>1. Sums([m \in 0 .. 0 |-> 0], w, 0)
        BY DEF Sums
    <2> QED
        BY <2>1
<1>2. ASSUME NEW k \in 1 .. n, k - 1 \in P
      PROVE  k \in P
    <2>1. PICK f : Sums(f, w, k - 1)
        BY <1>2
    <2> DEFINE g == [m \in 0 .. k |-> IF m = k THEN f[k - 1] + w[k] ELSE f[m]]
    <2>2. f[0] = 0 /\ \A m \in 1 .. k - 1 : f[m] = f[m - 1] + w[m]
        BY <2>1, <1>2 DEF Sums
    <2>3. \A m \in 0 .. k : g[m] = IF m = 0 THEN 0 ELSE g[m - 1] + w[m]
        BY <1>2, <2>2
    <2>4. Sums(g, w, k)
        BY <2>3 DEF Sums
    <2> QED
        BY <2>4
<1>3. \A m \in 0 .. n : m \in P
    <2> HIDE DEF P
    <2> QED
        BY <1>1, <1>2, UpTo
<1> QED
    BY <1>3

\* What SumTo is: the next number added to the sum so far.
LEMMA SumIs ==
    ASSUME NEW n \in Nat, NEW w, \A i \in 1 .. n : w[i] \in Int
    PROVE  /\ SumTo(w, n) \in Int
           /\ n = 0 => SumTo(w, n) = 0
           /\ n # 0 => SumTo(w, n) = SumTo(w, n - 1) + w[n]
<1>1. \A k : SumTo(w, k) = (CHOOSE f : Sums(f, w, k))[k]
    BY DEF SumTo, Sums
<1>2. ASSUME NEW k \in 0 .. n
      PROVE  Sums(CHOOSE f : Sums(f, w, k), w, k)
    BY SumsExist
<1> DEFINE f == CHOOSE x : Sums(x, w, n)
<1>3. Sums(f, w, n)
    BY <1>2
<1>4. SumTo(w, n) = f[n]
    BY <1>1
<1> HIDE DEF f
<1>5. CASE n = 0
    <2>1. f[0] = 0
        BY <1>3, SumsAre
    <2> QED
        BY <1>4, <1>5, <2>1
<1>6. CASE n # 0
    <2> DEFINE g == CHOOSE x : Sums(x, w, n - 1)
    <2>1. Sums(g, w, n - 1)
        BY <1>2, <1>6
    <2>2. SumTo(w, n - 1) = g[n - 1]
        BY <1>1
    <2> HIDE DEF g
    <2>3. /\ f[0] = 0 /\ g[0] = 0
          /\ \A m \in 1 .. n - 1 : f[m] = f[m - 1] + w[m] /\ g[m] = g[m - 1] + w[m]
          /\ f[n] = f[n - 1] + w[n] /\ f[n] \in Int
        BY <1>3, <1>6, <2>1, SumsAre
    <2> DEFINE P == {m \in 0 .. n - 1 : f[m] = g[m]}
    <2>4. 0 \in P /\ \A m \in 1 .. n - 1 : m - 1 \in P => m \in P
        BY <1>6, <2>3
    <2>5. \A m \in 0 .. n - 1 : m \in P
        <3> HIDE DEF P
        <3> QED
            BY <1>6, <2>4, UpTo
    <2>6. f[n - 1] = g[n - 1]
        BY <1>6, <2>5
    <2> QED
        BY <1>4, <1>6, <2>2, <2>3, <2>6
<1> QED
    BY <1>5, <1>6

\* A number that differs makes the difference of two sums.
LEMMA SumChanges ==
    ASSUME NEW n \in Nat, NEW w, NEW v, NEW j \in 1 .. n,
           \A i \in 1 .. n : w[i] \in Int /\ v[i] \in Int,
           \A i \in 1 .. n : i # j => v[i] = w[i]
    PROVE  SumTo(v, n) = SumTo(w, n) + (v[j] - w[j])
<1> DEFINE P == {m \in 0 .. n : SumTo(v, m) = IF j <= m THEN SumTo(w, m) + (v[j] - w[j]) ELSE SumTo(w, m)}
<1>1. 0 \in P
    BY SumIs
<1>2. ASSUME NEW m \in 1 .. n, m - 1 \in P
      PROVE  m \in P
    <2>1. SumTo(v, m) = SumTo(v, m - 1) + v[m] /\ SumTo(w, m) = SumTo(w, m - 1) + w[m]
        BY SumIs
    <2>2. SumTo(v, m - 1) = IF j <= m - 1 THEN SumTo(w, m - 1) + (v[j] - w[j]) ELSE SumTo(w, m - 1)
        BY <1>2
    <2>3. SumTo(w, m - 1) \in Int /\ w[m] \in Int /\ v[m] \in Int /\ w[j] \in Int /\ v[j] \in Int
        BY SumIs
    <2>4. CASE m = j
        BY <1>2, <2>1, <2>2, <2>3, <2>4
    <2>5. CASE m # j
        BY <1>2, <2>1, <2>2, <2>3, <2>5
    <2> QED
        BY <2>4, <2>5
<1>3. \A m \in 0 .. n : m \in P
    <2> HIDE DEF P
    <2> QED
        BY <1>1, <1>2, UpTo
<1> QED
    BY <1>3

\* A sum of smaller numbers is smaller.
LEMMA SumGrows ==
    ASSUME NEW n \in Nat, NEW w, NEW v, \A i \in 1 .. n : w[i] \in Int /\ v[i] \in Int /\ v[i] <= w[i]
    PROVE  SumTo(v, n) <= SumTo(w, n)
<1> DEFINE P == {m \in 0 .. n : SumTo(v, m) <= SumTo(w, m)}
<1>1. 0 \in P
    BY SumIs
<1>2. ASSUME NEW m \in 1 .. n, m - 1 \in P
      PROVE  m \in P
    <2>1. SumTo(v, m) = SumTo(v, m - 1) + v[m] /\ SumTo(w, m) = SumTo(w, m - 1) + w[m]
        BY SumIs
    <2>2. SumTo(w, m - 1) \in Int /\ SumTo(v, m - 1) \in Int /\ SumTo(v, m - 1) <= SumTo(w, m - 1)
        BY <1>2, SumIs
    <2> QED
        BY <2>1, <2>2
<1>3. \A m \in 0 .. n : m \in P
    <2> HIDE DEF P
    <2> QED
        BY <1>1, <1>2, UpTo
<1> QED
    BY <1>3

\* Sums of equal numbers are equal.
LEMMA SumSame ==
    ASSUME NEW n \in Nat, NEW w, NEW v, \A i \in 1 .. n : w[i] \in Int /\ v[i] = w[i]
    PROVE  SumTo(v, n) = SumTo(w, n)
<1>1. SumTo(v, n) <= SumTo(w, n)
    BY SumGrows
<1>2. SumTo(w, n) <= SumTo(v, n)
    BY SumGrows
<1>3. SumTo(v, n) \in Int /\ SumTo(w, n) \in Int
    BY SumIs
<1> QED
    BY <1>1, <1>2, <1>3

\* A sum of ones and zeros counts the ones.
LEMMA SumCounts ==
    ASSUME NEW n \in Nat, NEW w, \A i \in 1 .. n : w[i] \in {0, 1}
    PROVE  SumTo(w, n) = Cardinality({i \in 1 .. n : w[i] = 1})
<1> DEFINE Ones(m) == {i \in 1 .. m : w[i] = 1}
           P == {m \in 0 .. n : IsFiniteSet(Ones(m)) /\ SumTo(w, m) = Cardinality(Ones(m))}
<1>1. 0 \in P
    <2>1. Ones(0) = {}
        OBVIOUS
    <2>2. SumTo(w, 0) = 0
        BY SumIs
    <2> QED
        BY <2>1, <2>2, FS_EmptySet
<1>2. ASSUME NEW m \in 1 .. n, m - 1 \in P
      PROVE  m \in P
    <2>1. SumTo(w, m) = SumTo(w, m - 1) + w[m]
        BY SumIs
    <2>2. IsFiniteSet(Ones(m - 1)) /\ SumTo(w, m - 1) = Cardinality(Ones(m - 1))
        BY <1>2
    <2>3. Cardinality(Ones(m - 1)) \in Nat
        BY <2>2, FS_CardinalityType
    <2>4. CASE w[m] = 0
        <3>1. Ones(m) = Ones(m - 1)
            BY <2>4
        <3> QED
            BY <2>1, <2>2, <2>3, <2>4, <3>1
    <2>5. CASE w[m] = 1
        <3>1. Ones(m) = Ones(m - 1) \cup {m} /\ m \notin Ones(m - 1)
            BY <2>5
        <3>2. IsFiniteSet(Ones(m)) /\ Cardinality(Ones(m)) = Cardinality(Ones(m - 1)) + 1
            <4> HIDE DEF Ones
            <4> QED
                BY <2>2, <3>1, FS_AddElement
        <3> QED
            BY <2>1, <2>2, <2>5, <3>2
    <2> QED
        BY <2>4, <2>5
<1>3. \A m \in 0 .. n : m \in P
    <2> HIDE DEF P
    <2> QED
        BY <1>1, <1>2, UpTo
<1> QED
    BY <1>3

-----------------------------------------------------------------------------
(* What a row counts for in the usage of its scope. *)

Opening(i) == {c \in Callers : At(c, "account") /\ call[c].id = i}
Closing(i) == {c \in Callers : call[c].pc \in {"decrement", "release"} /\ call[c].id = i}

\* Under a measure m of keys: all of it, but for what a store() has not charged
\* yet and what a delete() has taken back.
Value(m, i) ==
    m[objects[i].key]
    - (IF Opening(i) # {} THEN m[objects[i].key] ELSE 0)
    - (IF objects[i].deleted /\ Closing(i) = {} THEN m[objects[i].key] ELSE 0)
Values(m, s) == [i \in Rows |-> IF objects[i].key[1] = s THEN Value(m, i) ELSE 0]
Total(m, s) == SumTo(Values(m, s), Len(objects))

Measures == [Keys -> Nat]
ByBytes == [key \in Keys |-> Size(key)]
ByCount == [key \in Keys |-> 1]

\* A call works on a row of its key; one call charges a row, and one takes a
\* row back when no two deletes of it overlapped.
Paired ==
    /\ \A c \in Callers : call[c].pc \in RowStates => call[c].key = objects[call[c].id].key
    /\ \A i \in Rows : \A c, d \in Opening(i) : c = d
    /\ ~doubled => \A i \in Rows : /\ Closing(i) # {} => objects[i].deleted
                                   /\ \A c, d \in Closing(i) : c = d

\* The usage is the total, by bytes and by count.
Charged ==
    faults = 0 /\ ~doubled =>
        \A s \in GuildScopes : usage[s].bytes = Total(ByBytes, s) /\ usage[s].count = Total(ByCount, s)

-----------------------------------------------------------------------------
\* Rows as a step of a call leaves them, but for a new one and a deleted one.
LEMMA RowsStay ==
    ASSUME Typed, NEW c \in Callers, StoreStep(c) \/ DeleteStep(c), ~Create(c), ~SoftDelete(c)
    PROVE  /\ Rows' = Rows /\ Len(objects') = Len(objects) /\ doubled' = doubled
           /\ \A i \in Rows : objects'[i].key = objects[i].key /\ objects'[i].deleted = objects[i].deleted
<1>1. doubled' = doubled
    BY DEF StoreStep, Store, LookupHit, LookupMiss, Increment, Put, Account, StoreReturn, DeleteStep,
           Delete, Decrement, Release
<1>2. CASE UNCHANGED objects
    BY <1>1, <1>2 DEF Rows
<1>3. CASE Increment(c) \/ Decrement(c)
    <2>1. call[c].id \in Rows /\ objects \in Seq(ObjectRows)
        BY <1>3 DEF Increment, Decrement, At, Typed, RowStates
    <2>2. \A i \in Rows : objects[i] \in ObjectRows
        BY RowTyped
    <2>3. PICK n : objects' = [objects EXCEPT ![call[c].id].refCount = n]
        BY <1>3 DEF Increment, Decrement
    <2> QED
        BY <1>1, <2>1, <2>2, <2>3 DEF Rows, ObjectRows
<1> QED
    BY <1>2, <1>3 DEF StoreStep, Store, LookupHit, LookupMiss, Put, Account, StoreReturn, DeleteStep,
                      Delete, Release

\* The row a store() adds, and the one a delete() marks.
LEMMA RowComes ==
    ASSUME Typed, NEW c \in Callers, Create(c)
    PROVE  /\ Len(objects) \in Nat /\ Len(objects') = Len(objects) + 1
           /\ Rows = 1 .. Len(objects) /\ Rows' = 1 .. Len(objects) + 1
           /\ \A i \in Rows : objects'[i] = objects[i]
           /\ objects'[Len(objects) + 1] = [key |-> call[c].key, refCount |-> 1, deleted |-> FALSE]
           /\ call'[c].pc = "account" /\ call'[c].id = Len(objects) + 1 /\ call'[c].key = call[c].key
           /\ doubled' = doubled
<1>1. call[c] \in CallStates
    BY DEF Typed
<1> QED
    BY <1>1 DEF Create, Typed, Rows, CallStates

LEMMA RowGoes ==
    ASSUME Typed, NEW c \in Callers, SoftDelete(c)
    PROVE  /\ Rows' = Rows /\ Len(objects') = Len(objects) /\ call[c].id \in Rows
           /\ \A i \in Rows : objects'[i].key = objects[i].key
           /\ \A i \in Rows \ {call[c].id} : objects'[i].deleted = objects[i].deleted
           /\ objects'[call[c].id].deleted
           /\ doubled' = (doubled \/ objects[call[c].id].deleted)
           /\ call'[c].pc = "decrement" /\ call'[c].id = call[c].id /\ call'[c].key = call[c].key
<1>1. call[c].id \in Rows /\ objects \in Seq(ObjectRows) /\ call[c] \in CallStates
    BY DEF SoftDelete, At, Typed, RowStates
<1>2. \A i \in Rows : objects[i] \in ObjectRows
    BY RowTyped
<1>3. call'[c].pc = "decrement" /\ call'[c].id = call[c].id /\ call'[c].key = call[c].key
    BY <1>1 DEF SoftDelete, Goto, Typed, CallStates
<1>4. objects' = [objects EXCEPT ![call[c].id].deleted = TRUE]
    BY DEF SoftDelete
<1>5. doubled' = (doubled \/ objects[call[c].id].deleted)
    BY DEF SoftDelete
<1>6. ASSUME NEW row \in Rows, objects' = [objects EXCEPT ![row].deleted = TRUE]
      PROVE  /\ Rows' = Rows /\ Len(objects') = Len(objects)
             /\ \A i \in Rows : objects'[i].key = objects[i].key
             /\ \A i \in Rows \ {row} : objects'[i].deleted = objects[i].deleted
             /\ objects'[row].deleted
    BY <1>1, <1>2, <1>6 DEF Rows, ObjectRows
<1> QED
    BY <1>1, <1>3, <1>4, <1>5, <1>6

\* The other calls stay as they are.
LEMMA OthersStay ==
    ASSUME Typed, NEW c \in Callers, StoreStep(c) \/ DeleteStep(c) \/ Fail(c)
    PROVE  \A d \in Callers \ {c} : call'[d] = call[d]
    BY DEF Typed, StoreStep, Store, LookupHit, LookupMiss, Increment, Put, Create, Account, StoreReturn,
           DeleteStep, Delete, SoftDelete, Decrement, Release, Fail, Goto, Return

\* Where a step takes a call: on with the row it has, to a row of its key, or
\* out.
LEMMA CallGoes ==
    ASSUME Typed, NEW c \in Callers, StoreStep(c) \/ DeleteStep(c) \/ Fail(c), ~Create(c)
    PROVE  \/ call'[c].pc \notin RowStates
           \/ /\ call[c].pc \in RowStates /\ call'[c].id = call[c].id /\ call'[c].key = call[c].key
           \/ /\ call'[c].pc \in {"increment", "softDelete"} /\ call'[c].id \in Rows
              /\ call'[c].key = objects[call'[c].id].key
<1>1. call[c] \in CallStates
    BY DEF Typed
<1>2. CASE (\E key \in Keys : Store(c, key)) \/ LookupMiss(c) \/ Put(c) \/ StoreReturn(c) \/ Release(c) \/ Fail(c)
    <2>1. call'[c].pc \in {"lookup", "put", "create", "idle"}
        <3>1. CASE (\E key \in Keys : Store(c, key)) \/ LookupMiss(c) \/ Put(c)
            BY <1>1, <3>1 DEF Typed, CallStates, Store, LookupMiss, Put, Goto
        <3>2. CASE StoreReturn(c) \/ Release(c) \/ Fail(c)
            BY <3>2 DEF Typed, StoreReturn, Release, Fail, Return, Idle
        <3> QED
            BY <1>2, <3>1, <3>2
    <2> QED
        BY <2>1 DEF RowStates
<1>3. CASE Increment(c) \/ Account(c) \/ SoftDelete(c) \/ Decrement(c)
    BY <1>1, <1>3 DEF Typed, CallStates, Increment, Account, SoftDelete, Decrement, Goto, RowStates, At
<1>4. CASE LookupHit(c)
    <2>1. PICK i \in FindByHash(call[c].key) : call' = [call EXCEPT ![c].pc = "increment", ![c].id = i]
        BY <1>4 DEF LookupHit
    <2> QED
        BY <1>1, <2>1 DEF Typed, CallStates, FindByHash, Live
<1>5. CASE \E i \in Rows : Delete(c, i)
    BY <1>1, <1>5 DEF Typed, Delete
<1> QED
    BY <1>2, <1>3, <1>4, <1>5 DEF StoreStep, DeleteStep

\* Opening and Closing of the rows, as the calls move.
LEMMA OpeningMoves ==
    ASSUME Typed, NEW c \in Callers, StoreStep(c) \/ DeleteStep(c), ~Create(c), NEW i
    PROVE  /\ Account(c) => Opening(i)' = Opening(i) \ {c}
           /\ ~Account(c) => Opening(i)' = Opening(i)
<1>1. \A d \in Callers \ {c} : call'[d] = call[d]
    BY OthersStay
<1>2. call[c] \in CallStates
    BY DEF Typed
<1>3. ~At(c, "account")'
    BY <1>2 DEF At, Typed, CallStates, StoreStep, Store, LookupHit, LookupMiss, Increment, Put, Account, StoreReturn,
           DeleteStep, Delete, SoftDelete, Decrement, Release, Goto, Return, Idle
<1>4. ~Account(c) => ~At(c, "account")
    BY DEF At, StoreStep, Store, LookupHit, LookupMiss, Increment, Put, Account, StoreReturn,
           DeleteStep, Delete, SoftDelete, Decrement, Release
<1> QED
    BY <1>1, <1>3, <1>4 DEF Opening, At

LEMMA ClosingMoves ==
    ASSUME Typed, NEW c \in Callers, StoreStep(c) \/ DeleteStep(c), NEW i
    PROVE  /\ SoftDelete(c) => Closing(i)' = Closing(i) \cup (IF call[c].id = i THEN {c} ELSE {})
           /\ Release(c) => Closing(i)' = Closing(i) \ {c}
           /\ ~SoftDelete(c) /\ ~Release(c) => Closing(i)' = Closing(i)
<1>1. \A d \in Callers \ {c} : call'[d] = call[d]
    BY OthersStay
<1>2. call[c] \in CallStates
    BY DEF Typed
<1>3. CASE SoftDelete(c)
    <2>1. call[c].pc = "softDelete" /\ ~Release(c)
        BY <1>3 DEF SoftDelete, Release, At
    <2>2. call'[c].pc = "decrement" /\ call'[c].id = call[c].id
        BY <1>3, RowGoes
    <2> QED
        BY <1>1, <1>3, <2>1, <2>2 DEF Closing
<1>4. CASE Release(c)
    <2>1. call'[c].pc = "idle"
        BY <1>4 DEF Release, Return, Idle, Typed
    <2>2. ~SoftDelete(c)
        BY <1>4 DEF SoftDelete, Release, At
    <2> QED
        BY <1>1, <1>4, <2>1, <2>2 DEF Closing
<1>5. CASE ~SoftDelete(c) /\ ~Release(c)
    <2>1. CASE Decrement(c)
        <3>1. call[c].pc = "decrement" /\ call'[c].pc = "release" /\ call'[c].id = call[c].id
            BY <1>2, <2>1 DEF Decrement, Goto, Typed, CallStates, At
        <3> QED
            BY <1>1, <1>5, <3>1 DEF Closing
    <2>2. CASE ~Decrement(c)
        <3>1. call[c].pc \notin {"decrement", "release"}
            BY <1>5, <2>2 DEF At, StoreStep, Store, LookupHit, LookupMiss, Increment, Put, Create, Account,
                              StoreReturn, DeleteStep, Delete
        <3>2. call'[c].pc \notin {"decrement", "release"}
            BY <1>2, <1>5, <2>2
            DEF Typed, CallStates, StoreStep, Store, LookupHit, LookupMiss, Increment, Put, Create, Account,
                StoreReturn, DeleteStep, Delete, Goto, Return, Idle
        <3> QED
            BY <1>1, <1>5, <3>1, <3>2 DEF Closing
    <2> QED
        BY <2>1, <2>2
<1> QED
    BY <1>3, <1>4, <1>5

LEMMA PairedKept ==
    ASSUME Typed, Paired, NEW c \in Callers, StoreStep(c) \/ DeleteStep(c) \/ Fail(c)
    PROVE  Paired'
<1>1. \A d \in Callers \ {c} : call'[d] = call[d]
    BY OthersStay
<1>2. \A d \in Callers : call[d].pc \in RowStates => call[d].id \in Rows
    BY DEF Typed
<1>3. CASE Create(c)
    <2>0. PICK new : new = Len(objects) + 1
        OBVIOUS
    <2>1. /\ Len(objects) \in Nat /\ Rows = 1 .. Len(objects) /\ Rows' = Rows \cup {new} /\ new \notin Rows
          /\ \A i \in Rows : objects'[i] = objects[i]
          /\ objects'[new].key = call[c].key
          /\ call'[c].pc = "account" /\ call'[c].id = new /\ call'[c].key = call[c].key /\ doubled' = doubled
        <3>1. /\ Len(objects) \in Nat /\ Rows = 1 .. Len(objects) /\ Rows' = 1 .. new
              /\ \A i \in Rows : objects'[i] = objects[i]
              /\ objects'[new] = [key |-> call[c].key, refCount |-> 1, deleted |-> FALSE]
              /\ call'[c].pc = "account" /\ call'[c].id = new /\ call'[c].key = call[c].key
              /\ doubled' = doubled
            BY <1>3, <2>0, RowComes
        <3>2. 1 .. new = 1 .. Len(objects) \cup {new} /\ new \notin 1 .. Len(objects)
            BY <2>0, <3>1
        <3> QED
            BY <3>1, <3>2
    <2>2. \A d \in Callers : call'[d].pc \in RowStates => call'[d].key = objects'[call'[d].id].key
        BY <1>1, <1>2, <2>1 DEF Paired
    <2>3. call[c].pc = "create"
        BY <1>3 DEF Create, At
    <2>4. \A i \in Rows : Opening(i)' = Opening(i) /\ Closing(i)' = Closing(i)
        BY <1>1, <2>1, <2>3 DEF Opening, Closing, At
    <2>5. Opening(new)' \subseteq {c} /\ Closing(new)' = {}
        <3>1. {"account", "decrement", "release"} \subseteq RowStates
            BY DEF RowStates
        <3>2. \A d \in Callers \ {c} : call'[d].pc \in {"account", "decrement", "release"} => call'[d].id # new
            BY <1>1, <1>2, <2>1, <3>1
        <3> QED
            BY <2>1, <3>2 DEF Opening, Closing, At
    <2>6. \A i \in Rows' : \A d, e \in Opening(i)' : d = e
        BY <2>1, <2>4, <2>5 DEF Paired
    <2>7. ~doubled' => \A i \in Rows' : /\ Closing(i)' # {} => objects'[i].deleted
                                        /\ \A d, e \in Closing(i)' : d = e
        BY <2>1, <2>4, <2>5 DEF Paired
    <2> QED
        BY <2>2, <2>6, <2>7 DEF Paired
<1>4. CASE ~Create(c) /\ ~Fail(c) /\ ~SoftDelete(c)
    <2>1. Rows' = Rows /\ doubled' = doubled
          /\ \A i \in Rows : objects'[i].key = objects[i].key /\ objects'[i].deleted = objects[i].deleted
        BY <1>4, RowsStay
    <2>2. \A d \in Callers : call'[d].pc \in RowStates => call'[d].key = objects'[call'[d].id].key
        BY <1>1, <1>2, <1>4, <2>1, CallGoes DEF Paired
    <2>3. \A i \in Rows : Opening(i)' \subseteq Opening(i) /\ Closing(i)' \subseteq Closing(i)
        BY <1>4, OpeningMoves, ClosingMoves
    <2> QED
        BY <2>1, <2>2, <2>3 DEF Paired
<1>5. CASE SoftDelete(c) /\ ~Create(c)
    <2>1. /\ Rows' = Rows /\ call[c].id \in Rows
          /\ \A i \in Rows : objects'[i].key = objects[i].key
          /\ \A i \in Rows \ {call[c].id} : objects'[i].deleted = objects[i].deleted
          /\ objects'[call[c].id].deleted
          /\ doubled' = (doubled \/ objects[call[c].id].deleted)
        BY <1>5, RowGoes
    <2>2. \A d \in Callers : call'[d].pc \in RowStates => call'[d].key = objects'[call'[d].id].key
        BY <1>1, <1>2, <1>5, <2>1, CallGoes DEF Paired
    <2>3. \A i \in Rows : Opening(i)' \subseteq Opening(i)
        BY <1>5, OpeningMoves DEF DeleteStep, SoftDelete, Account, At
    <2>4. \A i \in Rows : Closing(i)' = Closing(i) \cup (IF call[c].id = i THEN {c} ELSE {})
        BY <1>5, ClosingMoves DEF DeleteStep
    <2>5. ~doubled' => Closing(call[c].id) = {}
        BY <2>1 DEF Paired
    <2>6. \A i \in Rows' : \A d, e \in Opening(i)' : d = e
        BY <2>1, <2>3 DEF Paired
    <2>7. ~doubled' => \A i \in Rows' : /\ Closing(i)' # {} => objects'[i].deleted
                                        /\ \A d, e \in Closing(i)' : d = e
        <3>1. ASSUME ~doubled', NEW i \in Rows, i = call[c].id
              PROVE  Closing(i)' = {c} /\ objects'[i].deleted
            BY <2>1, <2>4, <2>5, <3>1
        <3>2. ASSUME ~doubled', NEW i \in Rows, i # call[c].id
              PROVE  Closing(i)' = Closing(i) /\ objects'[i].deleted = objects[i].deleted /\ ~doubled
            <4>1. Closing(i)' = Closing(i)
                BY <2>4, <3>2
            <4>2. i \in Rows \ {call[c].id}
                BY <3>2
            <4>3. objects'[i].deleted = objects[i].deleted
                BY <2>1, <4>2
            <4>4. ~doubled
                BY <2>1, <3>2
            <4> QED
                BY <4>1, <4>3, <4>4
        <3> QED
            BY <2>1, <3>1, <3>2 DEF Paired
    <2> QED
        BY <2>2, <2>6, <2>7 DEF Paired
<1>6. CASE Fail(c)
    <2>1. call'[c].pc = "idle" /\ UNCHANGED << objects, doubled >>
        BY <1>6 DEF Fail, Return, Idle, Typed
    <2>2. \A i \in Rows : Opening(i)' \subseteq Opening(i) /\ Closing(i)' \subseteq Closing(i)
        BY <1>1, <2>1 DEF Opening, Closing, At
    <2>3. "idle" \notin RowStates
        BY DEF RowStates
    <2> QED
        BY <1>1, <2>1, <2>2, <2>3 DEF Paired, Rows
<1> QED
    BY <1>3, <1>4, <1>5, <1>6

-----------------------------------------------------------------------------
(* The total and the usage move together. *)

LEMMA ValueTyped ==
    ASSUME Typed, NEW m \in Measures, NEW i \in Rows
    PROVE  Value(m, i) \in Int /\ m[objects[i].key] \in Nat
<1>1. objects[i].key \in Keys
    BY RowTyped DEF ObjectRows
<1>2. m[objects[i].key] \in Nat
    BY <1>1 DEF Measures
<1>3. \A n \in Nat : \A p, q \in BOOLEAN : n - (IF p THEN n ELSE 0) - (IF q THEN n ELSE 0) \in Int
    OBVIOUS
<1>4. (Opening(i) # {}) \in BOOLEAN /\ (objects[i].deleted /\ Closing(i) = {}) \in BOOLEAN
    OBVIOUS
<1> QED
    BY <1>2, <1>3, <1>4 DEF Value

LEMMA TotalStays ==
    ASSUME Typed, NEW m \in Measures, NEW s, Rows' = Rows, Len(objects') = Len(objects),
           \A i \in Rows : objects'[i].key = objects[i].key /\ Value(m, i)' = Value(m, i)
    PROVE  Total(m, s)' = Total(m, s)
<1>1. Len(objects) \in Nat /\ Rows = 1 .. Len(objects)
    BY DEF Typed, Rows
<1>2. PICK w, v : w = Values(m, s) /\ v = Values(m, s)'
    OBVIOUS
<1>3. \A i \in Rows : w[i] \in Int /\ v[i] = w[i]
    BY <1>2, ValueTyped DEF Values
<1>4. SumTo(v, Len(objects)) = SumTo(w, Len(objects))
    BY <1>1, <1>3, SumSame
<1> QED
    BY <1>2, <1>4 DEF Total

LEMMA TotalMoves ==
    ASSUME Typed, NEW m \in Measures, NEW s, Rows' = Rows, Len(objects') = Len(objects),
           NEW j \in Rows, NEW d \in Int,
           \A i \in Rows : objects'[i].key = objects[i].key,
           \A i \in Rows : Value(m, i)' = IF i = j THEN Value(m, i) + d ELSE Value(m, i)
    PROVE  Total(m, s)' = Total(m, s) + (IF objects[j].key[1] = s THEN d ELSE 0)
<1>1. Len(objects) \in Nat /\ Rows = 1 .. Len(objects)
    BY DEF Typed, Rows
<1>2. PICK w, v : w = Values(m, s) /\ v = Values(m, s)'
    OBVIOUS
<1>3. PICK x \in Int : x = IF objects[j].key[1] = s THEN d ELSE 0
    OBVIOUS
<1>4. \A i \in Rows : w[i] \in Int /\ v[i] = IF i = j THEN w[i] + x ELSE w[i]
    <2> SUFFICES ASSUME NEW i \in Rows
                 PROVE  w[i] \in Int /\ v[i] = IF i = j THEN w[i] + x ELSE w[i]
        OBVIOUS
    <2>1. /\ w[i] = IF objects[i].key[1] = s THEN Value(m, i) ELSE 0
          /\ v[i] = IF objects'[i].key[1] = s THEN Value(m, i)' ELSE 0
        BY <1>2 DEF Values
    <2>2. Value(m, i) \in Int
        BY ValueTyped
    <2> QED
        BY <1>3, <2>1, <2>2
<1>5. \A i \in Rows : v[i] \in Int
    BY <1>3, <1>4
<1>6. ASSUME NEW n \in Nat, n = Len(objects)
      PROVE  SumTo(v, n) = SumTo(w, n) + x
    <2>1. j \in 1 .. n /\ j \in Nat
        BY <1>1, <1>6
    <2>2. \A i \in 1 .. n : w[i] \in Int /\ v[i] \in Int
        BY <1>1, <1>4, <1>5, <1>6
    <2>3. \A i \in 1 .. n : i # j => v[i] = w[i]
        BY <1>1, <1>4, <1>6
    <2>4. SumTo(v, n) = SumTo(w, n) + (v[j] - w[j])
        BY <2>1, <2>2, <2>3, SumChanges
    <2>5. w[j] \in Int /\ v[j] = w[j] + x
        BY <1>4
    <2> QED
        BY <1>3, <2>4, <2>5
<1> QED
    BY <1>1, <1>2, <1>3, <1>6 DEF Total

\* A row that is catalogued and not charged counts for nothing.
LEMMA TotalOfCreate ==
    ASSUME Typed, NEW m \in Measures, NEW s, NEW c \in Callers, Create(c)
    PROVE  Total(m, s)' = Total(m, s)
<1>1. /\ Len(objects) \in Nat /\ Len(objects') = Len(objects) + 1
      /\ Rows = 1 .. Len(objects) /\ Rows' = 1 .. Len(objects) + 1
      /\ \A i \in Rows : objects'[i] = objects[i]
      /\ objects'[Len(objects) + 1] = [key |-> call[c].key, refCount |-> 1, deleted |-> FALSE]
      /\ call'[c].pc = "account" /\ call'[c].id = Len(objects) + 1
    BY RowComes
<1>2. PICK n \in Nat : n = Len(objects)
    BY <1>1
<1>3. call[c].pc = "create" /\ call[c].key \in Keys /\ \A d \in Callers \ {c} : call'[d] = call[d]
    BY OthersStay DEF Create, At, Typed, StoreStep
<1>4. \A i \in Rows : Opening(i)' = Opening(i) /\ Closing(i)' = Closing(i)
    BY <1>1, <1>2, <1>3 DEF Opening, Closing, At
<1>5. \A i \in Rows : Value(m, i)' = Value(m, i)
    BY <1>1, <1>4 DEF Value
<1>6. Value(m, n + 1)' = 0
    <2>1. Opening(n + 1)' # {}
        BY <1>1, <1>2 DEF Opening, At
    <2>2. objects'[n + 1].key = call[c].key /\ ~objects'[n + 1].deleted /\ m[call[c].key] \in Nat
        BY <1>1, <1>2, <1>3 DEF Measures
    <2> QED
        BY <2>1, <2>2 DEF Value
<1>7. PICK w, v : w = Values(m, s) /\ v = Values(m, s)'
    OBVIOUS
<1>8. /\ \A i \in 1 .. n : w[i] \in Int /\ v[i] = w[i]
      /\ v[n + 1] = 0
    <2>1. ASSUME NEW i \in 1 .. n
          PROVE  w[i] \in Int /\ v[i] = w[i]
        <3>1. i \in Rows /\ i \in Rows' /\ objects'[i].key = objects[i].key
            BY <1>1, <1>2
        <3> QED
            BY <1>5, <1>7, <3>1, ValueTyped DEF Values
    <2>2. n + 1 \in Rows'
        BY <1>1, <1>2
    <2>3. v[n + 1] = 0
        BY <1>6, <1>7, <2>2 DEF Values
    <2> QED
        BY <2>1, <2>3
<1>9. SumTo(v, n) = SumTo(w, n) /\ SumTo(w, n) \in Int
    BY <1>8, SumSame, SumIs
<1>10. SumTo(v, n + 1) = SumTo(v, n) + v[n + 1]
    <2>1. \A i \in 1 .. n + 1 : v[i] \in Int
        BY <1>8
    <2> QED
        BY <2>1, SumIs
<1> QED
    BY <1>1, <1>2, <1>7, <1>8, <1>9, <1>10 DEF Total

LEMMA UsageMoves ==
    ASSUME Typed, StorageAssumption, NEW key \in Keys, NEW sign \in {1, -1}, AddUsage(key, sign),
           NEW s \in GuildScopes
    PROVE  /\ usage'[s].bytes = usage[s].bytes + (IF key[1] = s THEN sign * Size(key) ELSE 0)
           /\ usage'[s].count = usage[s].count + (IF key[1] = s THEN sign ELSE 0)
<1>1. usage[s] \in [bytes : Int, count : Int] /\ usage \in [GuildScopes -> [bytes : Int, count : Int]]
    BY DEF Typed
<1>2. CASE Metered(key) /\ key[1] = s
    BY <1>1, <1>2 DEF AddUsage
<1>3. CASE ~(Metered(key) /\ key[1] = s)
    <2>1. usage'[s] = usage[s] /\ key[1] # s
        BY <1>1, <1>3 DEF AddUsage, Metered
    <2> QED
        BY <1>1, <2>1
<1> QED
    BY <1>2, <1>3

LEMMA MeasuresAre ==
    ASSUME StorageAssumption
    PROVE  /\ ByBytes \in Measures /\ ByCount \in Measures
           /\ \A key \in Keys : Size(key) \in Nat /\ ByBytes[key] = Size(key) /\ ByCount[key] = 1
    BY DEF StorageAssumption, ByBytes, ByCount, Measures, Size, Keys

\* A charge, or a credit, changes the row's value by the measure of its key.
LEMMA ChargeKept ==
    ASSUME StorageAssumption, Typed, Paired, NEW c \in Callers, Account(c) \/ Release(c), Charged
    PROVE  Charged'
<1>1. PICK sign \in {1, -1} : AddUsage(call[c].key, sign) /\ (Account(c) => sign = 1) /\ (Release(c) => sign = -1)
    BY DEF Account, Release, At
<1>2. call[c].pc \in RowStates /\ call[c].id \in Rows /\ call[c].key = objects[call[c].id].key /\ call[c].key \in Keys
    BY DEF Account, Release, At, Typed, RowStates, Paired
<1>3. PICK j \in Rows : j = call[c].id
    BY <1>2
<1>4. /\ Rows' = Rows /\ Len(objects') = Len(objects) /\ doubled' = doubled
      /\ \A i \in Rows : objects'[i].key = objects[i].key /\ objects'[i].deleted = objects[i].deleted
    BY RowsStay DEF StoreStep, DeleteStep, Account, Release, Create, SoftDelete, At
<1>5. faults' = faults
    BY DEF Account, Release
<1>6. ASSUME ~doubled, NEW m \in Measures
      PROVE  \A i \in Rows : Value(m, i)' = IF i = j THEN Value(m, i) + sign * m[call[c].key] ELSE Value(m, i)
    <2>1. m[call[c].key] \in Nat /\ objects[j].key = call[c].key
        BY <1>2, <1>3 DEF Measures
    <2>2. CASE Account(c)
        <3>1. \A i \in Rows : Opening(i)' = Opening(i) \ {c} /\ Closing(i)' = Closing(i)
            BY <2>2, OpeningMoves, ClosingMoves DEF StoreStep, Account, Create, SoftDelete, Release, At
        <3>2. c \in Opening(j) /\ \A i \in Rows \ {j} : c \notin Opening(i)
            BY <1>3, <2>2 DEF Opening, Account
        <3>3. Opening(j)' = {}
            BY <3>1, <3>2 DEF Paired
        <3>4. \A i \in Rows \ {j} : Value(m, i)' = Value(m, i)
            BY <1>4, <3>1, <3>2 DEF Value
        <3>5. Value(m, j)' = Value(m, j) + m[call[c].key]
            BY <1>4, <2>1, <3>1, <3>2, <3>3 DEF Value
        <3> QED
            BY <1>1, <2>1, <2>2, <3>4, <3>5
    <2>3. CASE Release(c)
        <3>1. \A i \in Rows : Opening(i)' = Opening(i) /\ Closing(i)' = Closing(i) \ {c}
            BY <2>3, OpeningMoves, ClosingMoves DEF DeleteStep, Account, Create, Release, At
        <3>2. c \in Closing(j) /\ \A i \in Rows \ {j} : c \notin Closing(i)
            BY <1>3, <2>3 DEF Closing, Release, At
        <3>3. Closing(j)' = {} /\ objects[j].deleted
            BY <1>6, <3>1, <3>2 DEF Paired
        <3>4. \A i \in Rows \ {j} : Value(m, i)' = Value(m, i)
            BY <1>4, <3>1, <3>2 DEF Value
        <3>5. Value(m, j)' = Value(m, j) - m[call[c].key]
            BY <1>4, <2>1, <3>1, <3>2, <3>3 DEF Value
        <3>6. Value(m, j) \in Int
            BY ValueTyped
        <3> QED
            BY <1>1, <2>1, <2>3, <3>4, <3>5, <3>6
    <2> QED
        BY <2>2, <2>3
<1>7. ASSUME ~doubled, NEW m \in Measures, NEW s
      PROVE  Total(m, s)' = Total(m, s) + (IF call[c].key[1] = s THEN sign * m[call[c].key] ELSE 0)
    <2>1. PICK d \in Int : d = sign * m[call[c].key]
        BY <1>1, <1>2 DEF Measures
    <2>2. \A i \in Rows : Value(m, i)' = IF i = j THEN Value(m, i) + d ELSE Value(m, i)
        BY <1>6, <1>7, <2>1
    <2>3. Total(m, s)' = Total(m, s) + (IF objects[j].key[1] = s THEN d ELSE 0)
        BY <1>4, <2>2, TotalMoves
    <2> QED
        BY <1>2, <1>3, <2>1, <2>3
<1>8. ASSUME faults = 0, ~doubled, NEW s \in GuildScopes
      PROVE  usage'[s].bytes = Total(ByBytes, s)' /\ usage'[s].count = Total(ByCount, s)'
    <2>1. usage[s].bytes = Total(ByBytes, s) /\ usage[s].count = Total(ByCount, s)
        BY <1>8 DEF Charged
    <2>2. /\ usage'[s].bytes = usage[s].bytes + (IF call[c].key[1] = s THEN sign * Size(call[c].key) ELSE 0)
          /\ usage'[s].count = usage[s].count + (IF call[c].key[1] = s THEN sign ELSE 0)
        BY <1>1, <1>2, UsageMoves
    <2>3. Total(ByBytes, s)' = Total(ByBytes, s) + (IF call[c].key[1] = s THEN sign * Size(call[c].key) ELSE 0)
        BY <1>2, <1>7, <1>8, MeasuresAre
    <2>4. Total(ByCount, s)' = Total(ByCount, s) + (IF call[c].key[1] = s THEN sign ELSE 0)
        <3>1. Total(ByCount, s)' = Total(ByCount, s) + (IF call[c].key[1] = s THEN sign * 1 ELSE 0)
            BY <1>2, <1>7, <1>8, MeasuresAre
        <3>2. sign * 1 = sign
            BY <1>1
        <3> QED
            BY <3>1, <3>2
    <2> QED
        BY <2>1, <2>2, <2>3, <2>4
<1> QED
    BY <1>4, <1>5, <1>8 DEF Charged

LEMMA ChargedKept ==
    ASSUME StorageAssumption, Typed, Paired, Charged, NEW c \in Callers, StoreStep(c) \/ DeleteStep(c) \/ Fail(c)
    PROVE  Charged'
<1>1. CASE Account(c) \/ Release(c)
    BY <1>1, ChargeKept
<1>2. CASE Fail(c)
    BY <1>2 DEF Fail, Charged, Typed
<1>3. ASSUME ~(Account(c) \/ Release(c)), ~Fail(c)
      PROVE  UNCHANGED << usage, faults >> /\ (StoreStep(c) \/ DeleteStep(c))
    BY <1>3 DEF StoreStep, Store, LookupHit, LookupMiss, Increment, Put, Create, StoreReturn,
                DeleteStep, Delete, SoftDelete, Decrement
<1>4. ASSUME ~(Account(c) \/ Release(c)), ~Fail(c), ~doubled', NEW m \in Measures, NEW s
      PROVE  Total(m, s)' = Total(m, s) /\ ~doubled
    <2>1. CASE Create(c)
        BY <1>4, <2>1, TotalOfCreate, RowComes
    <2>2. CASE SoftDelete(c)
        <3>1. /\ Rows' = Rows /\ Len(objects') = Len(objects) /\ call[c].id \in Rows
              /\ \A i \in Rows : objects'[i].key = objects[i].key
              /\ \A i \in Rows \ {call[c].id} : objects'[i].deleted = objects[i].deleted
              /\ objects'[call[c].id].deleted
              /\ ~doubled /\ ~objects[call[c].id].deleted
            BY <1>4, <2>2, RowGoes
        <3>2. \A i \in Rows : Opening(i)' = Opening(i)
            BY <2>2, OpeningMoves DEF DeleteStep, SoftDelete, Account, Create, At
        <3>3. \A i \in Rows : Closing(i)' = Closing(i) \cup (IF call[c].id = i THEN {c} ELSE {})
            BY <2>2, ClosingMoves DEF DeleteStep
        <3>4. \A i \in Rows \ {call[c].id} : Value(m, i)' = Value(m, i)
            BY <3>1, <3>2, <3>3 DEF Value
        <3>5. ASSUME NEW i \in Rows, i = call[c].id
              PROVE  Value(m, i)' = Value(m, i)
            <4>1. Closing(i)' # {} /\ ~objects[i].deleted /\ objects'[i].key = objects[i].key
                BY <3>1, <3>3, <3>5
            <4> QED
                BY <3>2, <4>1 DEF Value
        <3>6. Total(m, s)' = Total(m, s)
            BY <3>1, <3>4, <3>5, TotalStays
        <3> QED
            BY <3>1, <3>6
    <2>3. CASE ~Create(c) /\ ~SoftDelete(c)
        <3>1. /\ Rows' = Rows /\ Len(objects') = Len(objects) /\ doubled' = doubled
              /\ \A i \in Rows : objects'[i].key = objects[i].key /\ objects'[i].deleted = objects[i].deleted
            BY <1>3, <1>4, <2>3, RowsStay
        <3>2. \A i \in Rows : Opening(i)' = Opening(i) /\ Closing(i)' = Closing(i)
            BY <1>3, <1>4, <2>3, OpeningMoves, ClosingMoves
        <3>3. \A i \in Rows : Value(m, i)' = Value(m, i)
            BY <3>1, <3>2 DEF Value
        <3>4. Total(m, s)' = Total(m, s)
            BY <3>1, <3>3, TotalStays
        <3> QED
            BY <1>4, <3>1, <3>4
    <2> QED
        BY <2>1, <2>2, <2>3
<1>5. CASE ~(Account(c) \/ Release(c)) /\ ~Fail(c)
    <2> SUFFICES ASSUME faults' = 0, ~doubled', NEW s \in GuildScopes
                 PROVE  usage'[s].bytes = Total(ByBytes, s)' /\ usage'[s].count = Total(ByCount, s)'
        BY DEF Charged
    <2>1. Total(ByBytes, s)' = Total(ByBytes, s) /\ Total(ByCount, s)' = Total(ByCount, s) /\ ~doubled
        BY <1>4, <1>5, MeasuresAre
    <2> QED
        BY <1>3, <1>5, <2>1 DEF Charged
<1> QED
    BY <1>1, <1>2, <1>5

-----------------------------------------------------------------------------
(* How far calls that overlap take a guild over its quota. *)

Largest == Max({SizeOf[x] : x \in Contents})

\* Calls of store() on a scope that have passed the quota and not catalogued
\* their object, and those that have and not charged it.
Arriving(s) == {c \in Callers : call[c].pc \in {"lookup", "put", "create"} /\ call[c].key[1] = s}
Charging(s) == {c \in Callers : At(c, "account") /\ call[c].key[1] = s}

\* With n callers and the largest object of size z: what is live, and what all
\* that arrive may add, stays below the quota and n - 1 objects more.  One of
\* those that arrive counts with its own size: it was the last to be let in.
Limit == QuotaBytes + (Cardinality(Callers) - 1) * Largest
Fits(s) ==
    IF Arriving(s) = {} THEN LiveBytes(s) <= Limit
    ELSE \E c \in Arriving(s) :
            LiveBytes(s) + Size(call[c].key) + Largest * (Cardinality(Arriving(s)) - 1) <= Limit
Bounded == QuotaBytes # 0 /\ faults = 0 /\ ~doubled => \A s \in GuildScopes : Fits(s)

LEMMA LargestIs ==
    ASSUME StorageAssumption
    PROVE  Largest \in Nat /\ \A key \in Keys : Size(key) \in Nat /\ Size(key) <= Largest
<1>1. PICK big \in Contents : \A x \in Contents : SizeOf[x] <= SizeOf[big]
    BY DEF StorageAssumption
<1>2. \A x \in Contents : SizeOf[x] \in Nat
    BY DEF StorageAssumption
<1> DEFINE sizes == {SizeOf[x] : x \in Contents}
<1>3. SizeOf[big] \in sizes /\ \A n \in sizes : SizeOf[big] >= n
    BY <1>1, <1>2
<1>4. Largest \in sizes /\ \A n \in sizes : Largest >= n
    <2> HIDE DEF sizes
    <2>1. \E m \in sizes : \A n \in sizes : m >= n
        BY <1>3
    <2>2. Largest = CHOOSE m \in sizes : \A n \in sizes : m >= n
        BY DEF Largest, Max, sizes
    <2> QED
        BY <2>1, <2>2
<1> QED
    BY <1>2, <1>4 DEF Size, Keys

LEMMA Products ==
    ASSUME NEW z \in Nat
    PROVE  /\ \A k \in Nat : z * k \in Nat /\ z * (k + 1) = z * k + z /\ k * z = z * k
           /\ \A j, k \in Nat : j <= k => z * j <= z * k
<1>1. \A k \in Nat : z * k \in Nat /\ z * (k + 1) = z * k + z /\ k * z = z * k
    OBVIOUS
<1>2. ASSUME NEW j \in Nat, NEW k \in Nat, j <= k
      PROVE  z * j <= z * k
    <2>1. PICK d \in Nat : k = j + d
        <3>1. k - j \in Nat /\ k = j + (k - j)
            BY <1>2
        <3> QED
            BY <3>1
    <2>2. z * k = z * j + z * d
        BY <2>1
    <2>3. z * d \in Nat /\ z * j \in Nat
        OBVIOUS
    <2> QED
        BY <2>2, <2>3
<1> QED
    BY <1>1, <1>2

LEMMA CallersFinite ==
    ASSUME StorageAssumption, NEW T \in SUBSET Callers
    PROVE  IsFiniteSet(T) /\ Cardinality(T) \in Nat /\ Cardinality(T) <= Cardinality(Callers)
    BY FS_Subset, FS_CardinalityType DEF StorageAssumption

LEMMA LiveTyped ==
    ASSUME StorageAssumption, Typed, NEW s
    PROVE  /\ LiveBytes(s) \in Int /\ Len(objects) \in Nat /\ Rows = 1 .. Len(objects)
           /\ \A i \in Rows : LiveSizes(s)[i] \in Nat
<1>1. Len(objects) \in Nat /\ Rows = 1 .. Len(objects)
    BY DEF Typed, Rows
<1>2. \A i \in Rows : LiveSizes(s)[i] \in Nat
    BY RowTyped, LargestIs DEF LiveSizes, ObjectRows
<1> QED
    BY <1>1, <1>2, SumIs DEF LiveBytes

\* What is live is charged, but for what the calls that charge are about to.
LEMMA LiveAtMost ==
    ASSUME StorageAssumption, Typed, Paired, NEW s \in GuildScopes
    PROVE  LiveBytes(s) <= Total(ByBytes, s) + Largest * Cardinality(Charging(s))
<1>1. PICK n, live, w : n = Len(objects) /\ live = LiveSizes(s) /\ w = Values(ByBytes, s)
    OBVIOUS
<1>2. n \in Nat /\ Rows = 1 .. n /\ \A i \in 1 .. n : live[i] \in Int /\ w[i] \in Int
    BY <1>1, LiveTyped, ValueTyped, MeasuresAre DEF Values
<1> DEFINE Upto(m) == {c \in Charging(s) : call[c].id <= m}
           P == {m \in 0 .. n : SumTo(live, m) <= SumTo(w, m) + Largest * Cardinality(Upto(m))}
<1>3. Largest \in Nat /\ \A key \in Keys : Size(key) \in Nat /\ Size(key) <= Largest
    BY LargestIs
<1>4. \A c \in Charging(s) : /\ call[c].id \in 1 .. n /\ c \in Opening(call[c].id)
                             /\ objects[call[c].id].key[1] = s
    BY <1>2 DEF Charging, Opening, At, Typed, Paired, RowStates
<1>5. 0 \in P
    <2>1. Upto(0) = {}
        BY <1>2, <1>4
    <2>2. Cardinality({}) = 0 /\ Largest * 0 = 0
        BY <1>3, FS_EmptySet
    <2>3. SumTo(live, 0) = 0 /\ SumTo(w, 0) = 0
        BY SumIs
    <2>4. SumTo(live, 0) <= SumTo(w, 0) + Largest * Cardinality(Upto(0))
        <3>1. Cardinality(Upto(0)) = 0
            BY <2>1, <2>2
        <3> HIDE DEF Upto
        <3> QED
            BY <2>2, <2>3, <3>1
    <2>5. 0 \in 0 .. n
        BY <1>2
    <2> HIDE DEF Upto
    <2> QED
        BY <2>4, <2>5
<1>6. ASSUME NEW m \in 1 .. n, m - 1 \in P
      PROVE  m \in P
    <2>1. PICK k \in Nat : k = Cardinality(Upto(m - 1)) /\ IsFiniteSet(Upto(m - 1))
        BY CallersFinite DEF Charging
    <2>2. SumTo(live, m - 1) <= SumTo(w, m - 1) + Largest * k
        BY <1>6, <2>1
    <2>3. /\ SumTo(live, m) = SumTo(live, m - 1) + live[m] /\ SumTo(w, m) = SumTo(w, m - 1) + w[m]
          /\ SumTo(live, m - 1) \in Int /\ SumTo(w, m - 1) \in Int /\ live[m] \in Int /\ w[m] \in Int
        BY <1>2, SumIs
    <2>4. Largest * k \in Nat /\ Largest * (k + 1) = Largest * k + Largest
        BY <1>3, Products
    <2>5. m \in Rows /\ objects[m].key \in Keys /\ objects[m].deleted \in BOOLEAN
        BY <1>2, RowTyped DEF ObjectRows
    <2>6. PICK z \in Nat : z = Size(objects[m].key) /\ z <= Largest /\ ByBytes[objects[m].key] = z
        BY <1>3, <2>5, MeasuresAre
    <2>7. /\ live[m] = IF ~objects[m].deleted /\ objects[m].key[1] = s THEN z ELSE 0
          /\ w[m] = IF objects[m].key[1] = s
                    THEN z - (IF Opening(m) # {} THEN z ELSE 0)
                           - (IF objects[m].deleted /\ Closing(m) = {} THEN z ELSE 0)
                    ELSE 0
        BY <1>1, <2>5, <2>6 DEF LiveSizes, LiveOf, Live, Values, Value
    <2>8. CASE objects[m].key[1] = s /\ Opening(m) # {}
        <3>1. PICK c \in Opening(m) : TRUE
            BY <2>8
        <3>2. c \in Charging(s) /\ call[c].id = m
            BY <2>8, <3>1 DEF Opening, Charging, Paired, RowStates, At
        <3>3. \A d \in Charging(s) : call[d].id = m => d = c
            BY <1>4, <2>5, <3>1 DEF Paired
        <3>4. Upto(m) = Upto(m - 1) \cup {c} /\ c \notin Upto(m - 1)
            BY <1>4, <3>2, <3>3
        <3>5. Cardinality(Upto(m)) = k + 1
            <4> HIDE DEF Upto
            <4> QED
                BY <2>1, <3>4, FS_AddElement
        <3>6. live[m] <= w[m] + Largest
            BY <2>6, <2>7, <2>8, <1>3, <2>5
        <3>7. SumTo(live, m) <= SumTo(w, m) + Largest * (k + 1)
            BY <1>3, <2>2, <2>3, <2>4, <3>6
        <3> QED
            BY <3>5, <3>7
    <2>9. CASE ~(objects[m].key[1] = s /\ Opening(m) # {})
        <3>1. Upto(m) = Upto(m - 1)
            BY <1>4, <2>9
        <3>2. live[m] <= w[m]
            BY <2>5, <2>6, <2>7, <2>9
        <3>3. SumTo(live, m) <= SumTo(w, m) + Largest * k
            BY <1>3, <2>2, <2>3, <2>4, <3>2
        <3>4. Cardinality(Upto(m)) = k
            BY <2>1, <3>1
        <3>5. m \in 0 .. n
            BY <1>2
        <3> HIDE DEF Upto
        <3> QED
            BY <3>3, <3>4, <3>5
    <2> QED
        BY <2>8, <2>9
<1>7. \A m \in 0 .. n : m \in P
    <2> HIDE DEF P
    <2> QED
        BY <1>2, <1>5, <1>6, UpTo
<1>8. Upto(n) = Charging(s)
    BY <1>4
<1>9. n \in P
    BY <1>2, <1>7
<1> QED
    BY <1>1, <1>8, <1>9 DEF LiveBytes, Total

-----------------------------------------------------------------------------
\* What is live never grows, but by the object a call catalogues.
LEMMA LiveShrinks ==
    ASSUME StorageAssumption, Typed, Typed', NEW c \in Callers, StoreStep(c) \/ DeleteStep(c), ~Create(c), NEW s
    PROVE  LiveBytes(s)' <= LiveBytes(s)
<1>1. /\ Rows' = Rows /\ Len(objects') = Len(objects)
      /\ \A i \in Rows : objects'[i].key = objects[i].key /\ (objects[i].deleted => objects'[i].deleted)
    <2>1. CASE SoftDelete(c)
        BY <2>1, RowGoes
    <2>2. CASE ~SoftDelete(c)
        BY <2>2, RowsStay
    <2> QED
        BY <2>1, <2>2
<1>2. PICK n, live, after : n = Len(objects) /\ live = LiveSizes(s) /\ after = LiveSizes(s)'
    OBVIOUS
<1>3. n \in Nat /\ Rows = 1 .. n /\ \A i \in 1 .. n : live[i] \in Nat
    BY <1>2, LiveTyped
<1>4. \A i \in 1 .. n : Size(objects[i].key) \in Nat
    BY <1>3, RowTyped, LargestIs DEF ObjectRows
<1>5. \A i \in 1 .. n : after[i] \in {live[i], 0}
    BY <1>1, <1>2, <1>3 DEF LiveSizes, LiveOf, Live, Size
<1>6. \A i \in 1 .. n : live[i] \in Int /\ after[i] \in Int /\ after[i] <= live[i]
    BY <1>3, <1>5
<1>7. SumTo(after, n) <= SumTo(live, n)
    BY <1>3, <1>6, SumGrows
<1> QED
    BY <1>1, <1>2, <1>7 DEF LiveBytes

LEMMA LiveGrows ==
    ASSUME StorageAssumption, Typed, NEW c \in Callers, Create(c), NEW s
    PROVE  /\ call[c].key \in Keys
           /\ LiveBytes(s)' = LiveBytes(s) + (IF call[c].key[1] = s THEN Size(call[c].key) ELSE 0)
<1>1. /\ Len(objects) \in Nat /\ Len(objects') = Len(objects) + 1
      /\ Rows = 1 .. Len(objects) /\ Rows' = 1 .. Len(objects) + 1
      /\ \A i \in Rows : objects'[i] = objects[i]
      /\ objects'[Len(objects) + 1] = [key |-> call[c].key, refCount |-> 1, deleted |-> FALSE]
    BY RowComes
<1>2. call[c].key \in Keys /\ Size(call[c].key) \in Nat
    BY LargestIs DEF Create, At, Typed
<1>3. PICK n, live, after : n = Len(objects) /\ live = LiveSizes(s) /\ after = LiveSizes(s)'
    OBVIOUS
<1>4. n \in Nat /\ \A i \in 1 .. n : live[i] \in Int
    BY <1>3, LiveTyped
<1>5. \A i \in 1 .. n : after[i] = live[i]
    BY <1>1, <1>3 DEF LiveSizes, LiveOf, Live, Size
<1>6. after[n + 1] = IF call[c].key[1] = s THEN Size(call[c].key) ELSE 0
    <2>1. n + 1 \in Rows' /\ objects'[n + 1].key = call[c].key /\ objects'[n + 1].deleted = FALSE
        BY <1>1, <1>3
    <2> QED
        BY <1>3, <2>1 DEF LiveSizes, LiveOf, Live, Size
<1>7. \A i \in 1 .. n + 1 : after[i] \in Int
    <2>1. after[n + 1] \in Int
        BY <1>2, <1>6
    <2>2. \A i \in 1 .. n + 1 : i \in 1 .. n \/ i = n + 1
        BY <1>4
    <2> QED
        BY <1>4, <1>5, <2>1, <2>2
<1>8. SumTo(after, n) = SumTo(live, n)
    BY <1>4, <1>5, SumSame
<1>9. SumTo(after, n + 1) = SumTo(after, n) + after[n + 1]
    BY <1>4, <1>7, SumIs
<1> QED
    BY <1>1, <1>2, <1>3, <1>6, <1>8, <1>9 DEF LiveBytes

\* The calls that arrive: one more when the quota lets it in, one less when it
\* finds its object or catalogues it.
LEMMA ArrivingMoves ==
    ASSUME Typed, NEW c \in Callers, StoreStep(c) \/ DeleteStep(c), NEW s
    PROVE  /\ \A key \in Keys : Store(c, key) =>
                  /\ call[c].pc = "idle" /\ call'[c].key = key
                  /\ Arriving(s)' = Arriving(s) \cup (IF key[1] = s THEN {c} ELSE {})
           /\ LookupHit(c) \/ Create(c) => Arriving(s)' = Arriving(s) \ {c}
           /\ ~(\E key \in Keys : Store(c, key)) /\ ~LookupHit(c) /\ ~Create(c) =>
                  Arriving(s)' = Arriving(s) /\ \A d \in Arriving(s) : call'[d].key = call[d].key
<1>1. \A d \in Callers \ {c} : call'[d] = call[d]
    BY OthersStay
<1>2. call[c] \in CallStates
    BY DEF Typed
<1>3. ASSUME NEW key \in Keys, Store(c, key)
      PROVE  /\ call[c].pc = "idle" /\ call'[c].key = key
             /\ Arriving(s)' = Arriving(s) \cup (IF key[1] = s THEN {c} ELSE {})
    <2>1. call[c].pc = "idle" /\ call'[c].pc = "lookup" /\ call'[c].key = key
        BY <1>3 DEF Store, At, Typed
    <2> QED
        BY <1>1, <2>1 DEF Arriving
<1>4. CASE LookupHit(c) \/ Create(c)
    <2>1. call'[c].pc \in {"increment", "account"}
        BY <1>2, <1>4 DEF LookupHit, Create, Typed, CallStates
    <2> QED
        BY <1>1, <1>4, <2>1 DEF Arriving, LookupHit, Create, At, Store
<1>5. CASE LookupMiss(c) \/ Put(c)
    <2>1. /\ call[c].pc \in {"lookup", "put"} /\ call'[c].pc \in {"put", "create"}
          /\ call'[c].key = call[c].key
        BY <1>2, <1>5 DEF LookupMiss, Put, Goto, At, Typed, CallStates
    <2> QED
        BY <1>1, <1>3, <1>4, <2>1 DEF Arriving
<1>6. CASE Increment(c) \/ Account(c) \/ StoreReturn(c) \/ DeleteStep(c)
    <2>1. call[c].pc \notin {"lookup", "put", "create"} /\ call'[c].pc \notin {"lookup", "put", "create"}
        BY <1>2, <1>6 DEF Increment, Account, StoreReturn, DeleteStep, Delete, SoftDelete, Decrement, Release,
                          Goto, Return, Idle, At, Typed, CallStates
    <2> QED
        BY <1>1, <1>3, <1>4, <2>1 DEF Arriving
<1> QED
    BY <1>3, <1>4, <1>5, <1>6 DEF StoreStep

-----------------------------------------------------------------------------
(* One step of a call keeps a guild below the limit. *)

LEMMA LimitIs ==
    ASSUME StorageAssumption
    PROVE  /\ Cardinality(Callers) \in Nat \ {0} /\ Largest \in Nat
           /\ Limit \in Nat /\ QuotaBytes \in Nat /\ Limit >= QuotaBytes
<1>1. Cardinality(Callers) \in Nat /\ Cardinality(Callers) # 0
    BY FS_CardinalityType, FS_EmptySet DEF StorageAssumption
<1>2. Largest \in Nat /\ QuotaBytes \in Nat
    BY LargestIs DEF StorageAssumption
<1>3. PICK k \in Nat : k = Cardinality(Callers) - 1
    BY <1>1
<1>4. k * Largest \in Nat
    BY <1>2, <1>3, Products
<1> QED
    BY <1>1, <1>2, <1>3, <1>4 DEF Limit

\* A call that is let in while the quota has room.
LEMMA LetIn ==
    ASSUME StorageAssumption, Typed, Paired, Charged, QuotaBytes # 0, faults = 0, ~doubled,
           NEW c \in Callers, NEW key \in Keys, Store(c, key),
           NEW s \in GuildScopes, key[1] = s, LiveBytes(s)' <= LiveBytes(s), LiveBytes(s)' \in Int
    PROVE  Fits(s)'
<1>1. call[c].pc = "idle" /\ call'[c].key = key /\ Arriving(s)' = Arriving(s) \cup {c} /\ c \notin Arriving(s)
    <2>1. StoreStep(c)
        BY DEF StoreStep
    <2>2. call[c].pc = "idle" /\ call'[c].key = key /\ Arriving(s)' = Arriving(s) \cup {c}
        BY <2>1, ArrivingMoves
    <2> QED
        BY <2>2 DEF Arriving
<1>2. Largest \in Nat /\ Size(key) \in Nat /\ Size(key) <= Largest
    BY LargestIs
<1>3. Total(ByBytes, s) + Size(key) <= QuotaBytes /\ Total(ByBytes, s) \in Int
    <2>1. Metered(key)
        BY DEF Metered
    <2>2. usage[s].bytes + Size(key) <= QuotaBytes
        BY <2>1 DEF Store, WithinQuota
    <2>3. usage[s].bytes = Total(ByBytes, s) /\ usage[s].bytes \in Int
        BY DEF Charged, Typed
    <2> QED
        BY <2>2, <2>3
<1>4. PICK a, h, n \in Nat : /\ a = Cardinality(Arriving(s)) /\ h = Cardinality(Charging(s)) /\ n = Cardinality(Callers) - 1
                             /\ a + h <= n /\ Cardinality(Arriving(s)') = a + 1
    <2>1. Arriving(s) \in SUBSET Callers /\ Charging(s) \in SUBSET Callers /\ Arriving(s) \cap Charging(s) = {}
        BY DEF Arriving, Charging, At
    <2>2. c \notin Charging(s)
        BY <1>1 DEF Charging, At
    <2>3. PICK both : both = Arriving(s) \cup Charging(s)
        OBVIOUS
    <2>4. both \in SUBSET Callers /\ c \notin both
        <3>1. c \notin Arriving(s)
            BY <1>1
        <3> QED
            BY <2>1, <2>2, <2>3, <3>1
    <2>5. Cardinality(both) = Cardinality(Arriving(s)) + Cardinality(Charging(s))
        <3>1. Cardinality(Arriving(s) \cap Charging(s)) = 0
            BY <2>1, FS_EmptySet
        <3>2. /\ IsFiniteSet(Arriving(s)) /\ IsFiniteSet(Charging(s))
              /\ Cardinality(Arriving(s)) \in Nat /\ Cardinality(Charging(s)) \in Nat
            BY <2>1, CallersFinite
        <3>3. Cardinality(both) = Cardinality(Arriving(s)) + Cardinality(Charging(s)) - Cardinality(Arriving(s) \cap Charging(s))
            BY <2>3, <3>2, FS_Union
        <3> QED
            BY <3>1, <3>2, <3>3
    <2>6. Cardinality(both \cup {c}) = Cardinality(both) + 1 /\ both \cup {c} \in SUBSET Callers
        BY <2>4, CallersFinite, FS_AddElement
    <2>7. Cardinality(both \cup {c}) <= Cardinality(Callers) /\ Cardinality(Callers) \in Nat \ {0}
        BY <2>6, CallersFinite, LimitIs
    <2>8. Cardinality(Arriving(s)) \in Nat /\ Cardinality(Charging(s)) \in Nat
        BY <2>1, CallersFinite
    <2>9. Cardinality(Arriving(s)') = Cardinality(Arriving(s)) + 1
        <3> DEFINE here == Arriving(s)
        <3>1. IsFiniteSet(here) /\ c \notin here
            BY <1>1, <2>1, CallersFinite
        <3>2. Cardinality(here \cup {c}) = Cardinality(here) + 1
            <4> HIDE DEF here
            <4> QED
                BY <3>1, FS_AddElement
        <3> QED
            BY <1>1, <3>2
    <2> QED
        BY <2>5, <2>6, <2>7, <2>8, <2>9
<1>5. LiveBytes(s) <= Total(ByBytes, s) + Largest * h /\ LiveBytes(s) \in Int
    BY <1>4, LiveAtMost, LiveTyped
<1>6. PICK lh, la, ln \in Nat : /\ lh = Largest * h /\ la = Largest * a /\ ln = n * Largest /\ la + lh <= ln
    <2>1. Largest * h \in Nat /\ Largest * a \in Nat /\ n * Largest = Largest * n /\ Largest * n \in Nat
        BY <1>2, <1>4, Products
    <2>2. Largest * (a + h) = Largest * a + Largest * h
        BY <1>2, <1>4
    <2>3. Largest * (a + h) <= Largest * n
        BY <1>2, <1>4, Products
    <2> QED
        BY <2>1, <2>2, <2>3
<1>7. LiveBytes(s)' + Size(key) + la <= Limit
    <2>1. Limit = QuotaBytes + ln /\ QuotaBytes \in Nat
        BY <1>4, <1>6 DEF Limit, StorageAssumption
    <2> QED
        BY <1>2, <1>3, <1>5, <1>6, <2>1
<1>8. LiveBytes(s)' + Size(call'[c].key) + Largest * (Cardinality(Arriving(s)') - 1) <= Limit
    <2>1. Cardinality(Arriving(s)') - 1 = a
        BY <1>4
    <2> QED
        BY <1>1, <1>6, <1>7, <2>1
<1>9. c \in Arriving(s)'
    BY <1>1
<1> QED
    BY <1>8, <1>9 DEF Fits, Size

\* A call that is done arriving: its place is free, and its object is live.
LEMMA Arrived ==
    ASSUME StorageAssumption, Typed, NEW c \in Callers, NEW s,
           Fits(s), c \in Arriving(s), Arriving(s)' = Arriving(s) \ {c},
           \A d \in Arriving(s)' : call'[d].key = call[d].key /\ call[d].key \in Keys, call[c].key \in Keys,
           LiveBytes(s) \in Int, LiveBytes(s)' \in Int, LiveBytes(s)' <= LiveBytes(s) + Size(call[c].key)
    PROVE  Fits(s)'
<1>1. Largest \in Nat /\ \A key \in Keys : Size(key) \in Nat /\ Size(key) <= Largest
    BY LargestIs
<1>2. PICK w \in Arriving(s) : LiveBytes(s) + Size(call[w].key) + Largest * (Cardinality(Arriving(s)) - 1) <= Limit
    BY DEF Fits
<1>3. Arriving(s) \in SUBSET Callers
    BY DEF Arriving
<1>4. IsFiniteSet(Arriving(s)) /\ Cardinality(Arriving(s)') = Cardinality(Arriving(s)) - 1
    <2> DEFINE here == Arriving(s)
    <2>1. IsFiniteSet(here) /\ c \in here
        BY <1>3, CallersFinite
    <2>2. Cardinality(here \ {c}) = Cardinality(here) - 1
        <3> HIDE DEF here
        <3> QED
            BY <2>1, FS_RemoveElement
    <2>3. Arriving(s)' = here \ {c}
        OBVIOUS
    <2> HIDE DEF here
    <2>4. Cardinality(Arriving(s)') = Cardinality(here) - 1
        BY <2>2, <2>3
    <2> USE DEF here
    <2> QED
        BY <2>1, <2>4
<1>5. Limit \in Int
    BY LimitIs
<1>6. CASE Arriving(s)' = {}
    <2>1. w = c /\ Cardinality(Arriving(s)) = 1
        <3>1. Arriving(s) = {c} /\ Cardinality({c}) = 1
            BY <1>6, FS_Singleton
        <3> QED
            BY <1>2, <3>1
    <2>2. Largest * (1 - 1) = 0
        BY <1>1
    <2>3. LiveBytes(s) + Size(call[c].key) <= Limit
        BY <1>1, <1>2, <1>5, <2>1, <2>2
    <2> QED
        BY <1>1, <1>5, <1>6, <2>3 DEF Fits
<1>7. CASE Arriving(s)' # {}
    <2>1. PICK d \in Arriving(s)' : w # c => d = w
        BY <1>2, <1>7
    <2>2. PICK k \in Nat : k = Cardinality(Arriving(s)) - 2
        <3>1. Cardinality(Arriving(s)) \in Nat
            BY <1>3, CallersFinite
        <3>2. Arriving(s)' \in SUBSET Callers
            BY <1>3
        <3>3. Cardinality(Arriving(s)') \in Nat /\ Cardinality(Arriving(s)') # 0
            BY <1>7, <3>2, CallersFinite, FS_EmptySet
        <3>4. PICK a, b : a = Cardinality(Arriving(s)) /\ b = Cardinality(Arriving(s)')
            OBVIOUS
        <3>5. a \in Nat /\ b \in Nat /\ b # 0 /\ b = a - 1
            BY <1>4, <3>1, <3>3, <3>4
        <3>6. a - 2 \in Nat
            BY <3>5
        <3> QED
            BY <3>4, <3>6
    <2>3. Cardinality(Arriving(s)) - 1 = k + 1 /\ Cardinality(Arriving(s)') - 1 = k
        <3>1. Cardinality(Arriving(s)) \in Nat
            BY <1>3, CallersFinite
        <3> QED
            BY <1>4, <2>2, <3>1
    <2>4. Largest * (k + 1) = Largest * k + Largest /\ Largest * k \in Nat
        BY <1>1, Products
    <2>5. /\ Size(call[w].key) \in Nat /\ Size(call[c].key) \in Nat /\ Size(call[d].key) \in Nat
          /\ Size(call[w].key) <= Largest /\ Size(call[c].key) <= Largest /\ Size(call[d].key) <= Largest
        <3>1. call[w].key \in Keys /\ call[d].key \in Keys
            BY <1>2, <2>1
        <3> QED
            BY <1>1, <3>1
    <2>6. LiveBytes(s) + Size(call[w].key) + (Largest * k + Largest) <= Limit
        BY <1>2, <2>3, <2>4
    <2>7. LiveBytes(s)' + Size(call[d].key) + Largest * k <= Limit
        <3>1. CASE w = c
            BY <1>1, <1>5, <2>4, <2>5, <2>6, <3>1
        <3>2. CASE w # c
            BY <1>1, <1>5, <2>1, <2>4, <2>5, <2>6, <3>2
        <3> QED
            BY <3>1, <3>2
    <2>8. call'[d].key = call[d].key
        BY <2>1
    <2>9. LiveBytes(s)' + Size(call'[d].key) + Largest * (Cardinality(Arriving(s)') - 1) <= Limit
        BY <2>3, <2>7, <2>8
    <2> QED
        BY <1>7, <2>1, <2>9 DEF Fits, Size
<1> QED
    BY <1>6, <1>7

\* Nobody arrives or is done arriving.
LEMMA FitsSame ==
    ASSUME StorageAssumption, NEW s, Fits(s), Arriving(s)' = Arriving(s),
           \A d \in Arriving(s) : call'[d].key = call[d].key /\ Size(call[d].key) \in Int,
           LiveBytes(s) \in Int, LiveBytes(s)' \in Int, LiveBytes(s)' <= LiveBytes(s)
    PROVE  Fits(s)'
<1>1. Limit \in Int /\ Largest \in Nat
    BY LimitIs
<1>2. CASE Arriving(s) = {}
    BY <1>1, <1>2 DEF Fits
<1>3. CASE Arriving(s) # {}
    <2>1. PICK w \in Arriving(s) : LiveBytes(s) + Size(call[w].key) + Largest * (Cardinality(Arriving(s)) - 1) <= Limit
        BY <1>3 DEF Fits
    <2>2. PICK k \in Int : k = Largest * (Cardinality(Arriving(s)) - 1)
        <3>1. Arriving(s) \in SUBSET Callers
            BY DEF Arriving
        <3>2. PICK j \in Int : j = Cardinality(Arriving(s)) - 1
            BY <3>1, CallersFinite
        <3>3. Largest * j \in Int
            BY <1>1, <3>2
        <3> QED
            BY <3>2, <3>3
    <2>3. LiveBytes(s)' + Size(call[w].key) + k <= Limit
        BY <1>1, <2>1, <2>2
    <2>4. LiveBytes(s)' + Size(call'[w].key) + Largest * (Cardinality(Arriving(s)') - 1) <= Limit
        BY <2>1, <2>2, <2>3
    <2> QED
        BY <1>3, <2>1, <2>4 DEF Fits, Size
<1> QED
    BY <1>2, <1>3

LEMMA BoundedKept ==
    ASSUME StorageAssumption, Typed, Typed', Paired, Charged, Bounded,
           NEW c \in Callers, StoreStep(c) \/ DeleteStep(c) \/ Fail(c)
    PROVE  Bounded'
<1> SUFFICES ASSUME QuotaBytes # 0, faults' = 0, ~doubled', NEW s \in GuildScopes
             PROVE  Fits(s)'
    BY DEF Bounded
<1>1. faults = 0 /\ ~doubled /\ ~Fail(c)
    BY DEF StoreStep, Store, LookupHit, LookupMiss, Increment, Put, Create, Account, StoreReturn,
           DeleteStep, Delete, SoftDelete, Decrement, Release, Fail, Typed
<1>2. Fits(s) /\ (StoreStep(c) \/ DeleteStep(c))
    BY <1>1 DEF Bounded
<1>3. LiveBytes(s) \in Int /\ LiveBytes(s)' \in Int
    <2>1. LiveBytes(s)' \in Int
        <3>1. /\ \A i \in Rows' : objects'[i].key \in Keys
              /\ Len(objects') \in Nat /\ Rows' = 1 .. Len(objects')
            <4>1. objects' \in Seq(ObjectRows)
                BY DEF Typed
            <4>2. \A q \in Seq(ObjectRows) : /\ Len(q) \in Nat /\ DOMAIN q = 1 .. Len(q)
                                             /\ \A i \in DOMAIN q : q[i] \in ObjectRows
                OBVIOUS
            <4>3. \A x \in ObjectRows : x.key \in Keys
                BY DEF ObjectRows
            <4> QED
                BY <4>1, <4>2, <4>3 DEF Rows
        <3>2. PICK w : w = LiveSizes(s)'
            OBVIOUS
        <3>3. \A i \in 1 .. Len(objects') : w[i] \in Int
            BY <3>1, <3>2, LargestIs DEF LiveSizes, Size
        <3> QED
            BY <3>1, <3>2, <3>3, SumIs DEF LiveBytes
    <2> QED
        BY <2>1, LiveTyped
<1>4. \A d \in Callers : call[d].pc \in {"lookup", "put", "create"} => call[d].key \in Keys
    BY DEF Typed
<1>5. \A d \in Arriving(s) : d \in Callers /\ call[d].key \in Keys /\ Size(call[d].key) \in Nat
    BY <1>4, LargestIs DEF Arriving
<1>6. ASSUME NEW key \in Keys, Store(c, key)
      PROVE  Fits(s)'
    <2>1. LiveBytes(s)' <= LiveBytes(s)
        BY <1>2, <1>6, LiveShrinks DEF Store, Create, At
    <2>2. CASE key[1] = s
        BY <1>1, <1>3, <1>6, <2>1, <2>2, LetIn
    <2>3. CASE key[1] # s
        <3>1. Arriving(s)' = Arriving(s) /\ c \notin Arriving(s)
            BY <1>2, <1>6, <2>3, ArrivingMoves DEF Arriving
        <3>2. \A d \in Arriving(s) : call'[d].key = call[d].key /\ Size(call[d].key) \in Int
            BY <1>2, <1>5, <3>1, OthersStay
        <3> QED
            BY <1>2, <1>3, <2>1, <3>1, <3>2, FitsSame
    <2> QED
        BY <2>2, <2>3
<1>7. CASE LookupHit(c) \/ Create(c)
    <2>1. Arriving(s)' = Arriving(s) \ {c} /\ call[c].pc \in {"lookup", "create"} /\ call[c].key \in Keys
        BY <1>2, <1>4, <1>7, ArrivingMoves DEF LookupHit, Create, At
    <2>2. \A d \in Arriving(s)' : call'[d].key = call[d].key /\ call[d].key \in Keys
        BY <1>2, <1>5, <2>1, OthersStay
    <2>3. Size(call[c].key) \in Nat
        BY <2>1, LargestIs
    <2>4. LiveBytes(s)' <= LiveBytes(s) + (IF call[c].key[1] = s THEN Size(call[c].key) ELSE 0)
        <3>1. CASE Create(c)
            BY <1>3, <3>1, LiveGrows
        <3>2. CASE ~Create(c)
            <4>1. LiveBytes(s)' <= LiveBytes(s)
                BY <1>2, <3>2, LiveShrinks
            <4> QED
                BY <1>3, <2>3, <4>1
        <3> QED
            BY <3>1, <3>2
    <2>5. CASE call[c].key[1] = s
        <3>1. c \in Arriving(s)
            BY <2>1, <2>5 DEF Arriving
        <3>2. LiveBytes(s)' <= LiveBytes(s) + Size(call[c].key)
            BY <2>4, <2>5
        <3> QED
            BY <1>2, <1>3, <2>1, <2>2, <3>1, <3>2, Arrived
    <2>6. CASE call[c].key[1] # s
        <3>1. Arriving(s)' = Arriving(s)
            BY <2>1, <2>6 DEF Arriving
        <3>2. \A d \in Arriving(s) : call'[d].key = call[d].key /\ Size(call[d].key) \in Int
            BY <1>5, <2>2, <3>1
        <3>3. LiveBytes(s)' <= LiveBytes(s)
            BY <1>3, <2>4, <2>6
        <3> QED
            BY <1>2, <1>3, <3>1, <3>2, <3>3, FitsSame
    <2> QED
        BY <2>5, <2>6
<1>8. CASE ~(\E key \in Keys : Store(c, key)) /\ ~LookupHit(c) /\ ~Create(c)
    <2>1. Arriving(s)' = Arriving(s) /\ \A d \in Arriving(s) : call'[d].key = call[d].key
        BY <1>2, <1>8, ArrivingMoves
    <2>2. LiveBytes(s)' <= LiveBytes(s)
        BY <1>2, <1>8, LiveShrinks
    <2>3. \A d \in Arriving(s) : call'[d].key = call[d].key /\ Size(call[d].key) \in Int
        BY <1>5, <2>1
    <2> QED
        BY <1>2, <1>3, <2>1, <2>2, <2>3, FitsSame
<1> QED
    BY <1>6, <1>7, <1>8

-----------------------------------------------------------------------------
(* The usage of a guild, and what is live of it. *)

LedgerInv == Paired /\ Charged /\ Bounded

LEMMA LedgerInit ==
    ASSUME StorageAssumption, Init
    PROVE  LedgerInv
<1>1. objects = << >> /\ Rows = {} /\ Len(objects) = 0 /\ \A c \in Callers : call[c].pc = "idle"
    BY DEF Init, Rows, Idle
<1>2. Paired
    BY <1>1 DEF Paired, RowStates
<1>3. \A w : SumTo(w, 0) = 0
    BY SumIs
<1>4. Charged
    BY <1>1, <1>3 DEF Charged, Total, Init
<1>5. Bounded
    <2> SUFFICES ASSUME NEW s \in GuildScopes
                 PROVE  Fits(s)
        BY DEF Bounded
    <2>1. Arriving(s) = {}
        BY <1>1 DEF Arriving
    <2>2. LiveBytes(s) = 0
        BY <1>1, <1>3 DEF LiveBytes
    <2>3. Limit \in Nat
        BY LimitIs
    <2> QED
        BY <2>1, <2>2, <2>3 DEF Fits
<1> QED
    BY <1>2, <1>4, <1>5 DEF LedgerInv

LEMMA LedgerStep ==
    ASSUME StorageAssumption, Typed, Typed', LedgerInv, [Next]_vars
    PROVE  LedgerInv'
<1>1. ASSUME NEW c \in Callers, StoreStep(c) \/ DeleteStep(c) \/ Fail(c)
      PROVE  LedgerInv'
    BY <1>1, PairedKept, ChargedKept, BoundedKept DEF LedgerInv
<1>2. CASE UNCHANGED vars
    <2>1. Paired'
        BY <1>2 DEF vars, LedgerInv, Paired, Opening, Closing, At, Rows
    <2>2. Charged'
        <3>1. UNCHANGED << objects, call, usage, faults, doubled >>
            BY <1>2 DEF vars
        <3>2. /\ Rows' = Rows /\ Len(objects') = Len(objects)
              /\ \A i \in Rows : Opening(i)' = Opening(i) /\ Closing(i)' = Closing(i)
            BY <3>1 DEF Rows, Opening, Closing, At
        <3>3. ASSUME NEW m \in Measures, NEW s
              PROVE  Total(m, s)' = Total(m, s)
            <4>1. \A i \in Rows : objects'[i].key = objects[i].key /\ Value(m, i)' = Value(m, i)
                BY <3>1, <3>2 DEF Value
            <4> QED
                BY <3>2, <4>1, TotalStays
        <3>4. \A s : Total(ByBytes, s)' = Total(ByBytes, s) /\ Total(ByCount, s)' = Total(ByCount, s)
            BY <3>3, MeasuresAre
        <3> QED
            BY <3>1, <3>4 DEF LedgerInv, Charged
    <2>3. Bounded'
        BY <1>2 DEF vars, LedgerInv, Bounded, Fits, Arriving, LiveBytes, LiveSizes, LiveOf, Live, Rows
    <2> QED
        BY <2>1, <2>2, <2>3 DEF LedgerInv
<1> QED
    BY <1>1, <1>2 DEF Next

LEMMA LedgerAlways == Spec => []LedgerInv
<1>1. Init => LedgerInv
    BY StorageAssumption, LedgerInit
<1>2. Typed /\ Typed' /\ LedgerInv /\ [Next]_vars => LedgerInv'
    BY StorageAssumption, LedgerStep
<1>3. StorageInv => Typed
    BY DEF StorageInv
<1> QED
    BY <1>1, <1>2, <1>3, StorageAlways, PTL DEF Spec

\* When no call is under way, none failed half-way and no two deletes of a row
\* overlapped, the usage addUsage kept for a guild is the bytes and the number of
\* its live rows: with nothing left to charge or to take back, the value of a
\* row is what it adds to them.
THEOREM UsageMatches == Spec => []UsageMatchesCatalog
<1> USE StorageAssumption
<1>1. StorageInv /\ LedgerInv => UsageMatchesCatalog
    <2> SUFFICES ASSUME Typed, Charged, Quiet, faults = 0, ~doubled, NEW s \in GuildScopes
                 PROVE  usage[s] = [bytes |-> LiveBytes(s), count |-> Cardinality(LiveOf(s))]
        BY DEF StorageInv, LedgerInv, UsageMatchesCatalog
    <2>1. PICK n \in Nat : n = Len(objects) /\ Rows = 1 .. n
        BY LiveTyped
    <2>2. \A i \in Rows : Opening(i) = {} /\ Closing(i) = {}
        BY DEF Quiet, Opening, Closing, At
    <2>3. ASSUME NEW m \in Measures, NEW i \in Rows
          PROVE  Values(m, s)[i] = IF i \in LiveOf(s) THEN m[objects[i].key] ELSE 0
        <3>1. Value(m, i) = IF objects[i].deleted THEN 0 ELSE m[objects[i].key]
            BY <2>2, ValueTyped DEF Value
        <3> QED
            BY <3>1 DEF Values, LiveOf, Live
    <2>4. \A i \in Rows : objects[i].key \in Keys
        BY RowTyped DEF ObjectRows
    <2>5. usage[s].bytes = LiveBytes(s)
        <3>1. PICK w, v : w = Values(ByBytes, s) /\ v = LiveSizes(s)
            OBVIOUS
        <3>2. \A i \in 1 .. n : w[i] \in Int /\ v[i] = w[i]
            BY <2>1, <2>3, <2>4, <3>1, MeasuresAre DEF LiveSizes
        <3>3. SumTo(v, n) = SumTo(w, n)
            BY <3>2, SumSame
        <3> QED
            BY <2>1, <3>1, <3>3 DEF Charged, Total, LiveBytes
    <2>6. usage[s].count = Cardinality(LiveOf(s))
        <3>1. PICK w : w = Values(ByCount, s)
            OBVIOUS
        <3>2. \A i \in 1 .. n : w[i] = IF i \in LiveOf(s) THEN 1 ELSE 0
            BY <2>1, <2>3, <2>4, <3>1, MeasuresAre
        <3>3. SumTo(w, n) = Cardinality({i \in 1 .. n : w[i] = 1})
            BY <3>2, SumCounts
        <3>4. {i \in 1 .. n : w[i] = 1} = LiveOf(s)
            BY <2>1, <3>2 DEF LiveOf, Live
        <3> QED
            BY <2>1, <3>1, <3>3, <3>4 DEF Charged, Total
    <2>7. usage[s] \in [bytes : Int, count : Int]
        BY DEF Typed
    <2> QED
        BY <2>5, <2>6, <2>7
<1> QED
    BY <1>1, StorageAlways, LedgerAlways, PTL

\* assertWithinQuota reads a usage that calls under way have yet to charge, so
\* that they overshoot the quota together; with n callers, by n - 1 objects of
\* the largest size and never by more.
THEOREM OvershootStaysBounded == Spec => []OvershootBounded
<1> USE StorageAssumption
<1>1. StorageInv /\ LedgerInv => OvershootBounded
    <2> SUFFICES ASSUME Typed, Bounded, QuotaBytes # 0, faults = 0, ~doubled, NEW s \in GuildScopes
                 PROVE  LiveBytes(s) <= Limit
        BY DEF StorageInv, LedgerInv, OvershootBounded, Limit, Largest
    <2>1. Fits(s)
        BY DEF Bounded
    <2>2. LiveBytes(s) \in Int /\ Limit \in Int /\ Largest \in Nat
        BY LiveTyped, LimitIs
    <2>3. CASE Arriving(s) # {}
        <3>1. PICK w \in Arriving(s) : LiveBytes(s) + Size(call[w].key) + Largest * (Cardinality(Arriving(s)) - 1) <= Limit
            BY <2>1, <2>3 DEF Fits
        <3>2. call[w].key \in Keys
            BY DEF Arriving, Typed
        <3>3. Size(call[w].key) \in Nat
            BY <3>2, LargestIs
        <3>4. PICK k \in Nat : k = Cardinality(Arriving(s)) - 1
            <4>1. Arriving(s) \in SUBSET Callers
                BY DEF Arriving
            <4>2. Cardinality(Arriving(s)) \in Nat /\ Cardinality(Arriving(s)) # 0
                BY <2>3, <4>1, CallersFinite, FS_EmptySet
            <4> QED
                BY <4>2
        <3>5. Largest * k \in Nat
            BY <2>2, <3>4, Products
        <3> QED
            BY <2>2, <3>1, <3>3, <3>4, <3>5
    <2> QED
        BY <2>1, <2>3 DEF Fits
<1> QED
    BY <1>1, StorageAlways, LedgerAlways, PTL
=============================================================================
