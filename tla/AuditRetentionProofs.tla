------------------------ MODULE AuditRetentionProofs ------------------------
(***************************************************************************)
(* The retention sweep and the verification of the audit module, for every *)
(* number of drafts, slots, chains and verifications: what a sweep prunes  *)
(* is in a complete archive first, no completed entry is lost, an entry is *)
(* entered once per run of its job, and what survives a prune still        *)
(* verifies.                                                               *)
(***************************************************************************)
EXTENDS AuditLedgerProofs, FiniteSetTheorems

\* The retention job runs one sweep at a time.
OneSweeper == \A s, t \in Sweepers : s = t

-----------------------------------------------------------------------------
(* Lemmas about numbers, rows and the repository calls. *)

\* A nonempty set of naturals has a least element.
LEMMA LeastNatural ==
    ASSUME NEW T \in SUBSET Nat, T # {}
    PROVE  \E m \in T : \A n \in T : m <= n
<1>1. PICK m \in T : \A n \in T : << n, m >> \notin OpToRel(<, Nat)
    BY NatLessThanWellFounded, WFMin, Zenon
<1>2. \A n \in T : ~(n < m)
    BY <1>1, Zenon DEF OpToRel
<1> QED BY <1>2

\* A nonempty set of indices of a sequence has a greatest element.
LEMMA GreatestIndex ==
    ASSUME NEW n \in Nat, NEW T \in SUBSET (1 .. n), T # {}
    PROVE  \E m \in T : \A k \in T : k <= m
<1> DEFINE Dist == {n - k : k \in T}
<1>1. Dist \in SUBSET Nat /\ Dist # {}
    <2>1. PICK k \in T : TRUE
        OBVIOUS
    <2>2. n - k \in Dist
        OBVIOUS
    <2>3. \A j \in T : n - j \in Nat
        OBVIOUS
    <2> QED BY <2>2, <2>3
<1>2. PICK d \in Dist : \A e \in Dist : d <= e
    BY <1>1, LeastNatural, Zenon
<1>3. PICK m \in T : d = n - m
    BY <1>2
<1>4. \A k \in T : n - m <= n - k
    BY <1>2, <1>3
<1> QED BY <1>3, <1>4

\* A nonempty chain has a first row.
LEMMA FirstExists ==
    ASSUME NEW rows, rows # {}, \A r \in rows : r.seq \in Nat
    PROVE  \E r \in rows : IsFirst(r, rows)
<1> DEFINE Seqs == {r.seq : r \in rows}
<1>1. PICK m \in Seqs : \A n \in Seqs : m <= n
    <2>1. Seqs \in SUBSET Nat /\ Seqs # {}
        OBVIOUS
    <2> HIDE DEF Seqs
    <2> QED BY <2>1, LeastNatural, Zenon
<1> QED BY <1>1 DEF IsFirst

\* The rows up to n, the segment a sweep archives.
Below(rows, n) == {r \in rows : r.seq <= n}

\* Every seq between two rows that are present is present.
Contiguous(rows) == \A r, q \in rows : \A n \in r.seq .. q.seq : \E p \in rows : p.seq = n

\* An append on top keeps a chain contiguous.
LEMMA AppendKeepsContiguous ==
    ASSUME NEW rows, \A r \in rows : r.seq \in Nat, Contiguous(rows), NEW row, row.seq \in Nat,
           rows = {} \/ \E p \in rows : IsLast(p, rows) /\ row.seq = p.seq + 1
    PROVE  Contiguous(rows \cup {row})
<1> SUFFICES ASSUME NEW r \in rows \cup {row}, NEW q \in rows \cup {row}, NEW n \in r.seq .. q.seq
             PROVE  \E p \in rows \cup {row} : p.seq = n
    BY DEF Contiguous
<1>1. CASE n = row.seq
    BY <1>1
<1>2. CASE n # row.seq
    <2>1. PICK p \in rows : IsLast(p, rows) /\ row.seq = p.seq + 1
        BY <1>2
    <2>2. r \in rows /\ n \in r.seq .. p.seq
        BY <1>2, <2>1 DEF IsLast
    <2> QED BY <2>1, <2>2 DEF Contiguous
<1> QED BY <1>1, <1>2

\* So does a prune.
LEMMA PruneKeepsContiguous ==
    ASSUME NEW rows, \A r \in rows : r.seq \in Nat, Contiguous(rows), NEW n \in Nat
    PROVE  Contiguous(KeepAbove(rows, n))
BY DEF Contiguous, KeepAbove

\* The lower part of an intact chain is intact.
LEMMA BelowKeepsIntact ==
    ASSUME NEW rows, \A r \in rows : r.seq \in Nat, Intact(rows), NEW n \in Nat
    PROVE  Intact(Below(rows, n))
<1>1. UniqueSeqs(Below(rows, n)) /\ \A r \in Below(rows, n) : ContentOk(r)
    BY DEF Intact, UniqueSeqs, Below
<1>2. ASSUME NEW r \in Below(rows, n), NEW q \in Below(rows, n), q.seq < r.seq
      PROVE  \E p \in Below(rows, n) : Follows(r, p)
    <2>1. PICK p \in rows : Follows(r, p)
        BY <1>2 DEF Intact, Linked, Below
    <2> QED BY <2>1 DEF Follows, Below
<1> QED BY <1>1, <1>2 DEF Intact, Linked

\* In a contiguous, intact chain a row follows the row one seq below it.
LEMMA FollowsBelow ==
    ASSUME NEW rows, \A r \in rows : r.seq \in Nat, Intact(rows),
           NEW r \in rows, NEW p \in rows, r.seq = p.seq + 1
    PROVE  Follows(r, p)
<1>1. PICK q \in rows : Follows(r, q)
    BY DEF Intact, Linked
<1>2. q = p
    BY <1>1 DEF Follows, Intact, UniqueSeqs
<1> QED BY <1>1, <1>2

\* What a prune leaves starts right above the bound, on the row at the bound.
LEMMA PruneLeavesNext ==
    ASSUME NEW rows, \A r \in rows : r.seq \in Nat, Contiguous(rows), Intact(rows),
           NEW p \in rows, NEW r, IsFirst(r, KeepAbove(rows, p.seq))
    PROVE  Follows(r, p)
<1>1. r \in rows /\ p.seq < r.seq
    BY DEF IsFirst, KeepAbove
<1>2. PICK q \in rows : q.seq = p.seq + 1
    BY <1>1 DEF Contiguous
<1>3. r.seq = p.seq + 1
    BY <1>1, <1>2 DEF IsFirst, KeepAbove
<1> QED BY <1>1, <1>3, FollowsBelow

\* A page holds every row between the cursor and its own last row.
LEMMA PageHasNoGap ==
    ASSUME NEW rows, IsFiniteSet(rows), \A r \in rows : r.seq \in Nat,
           NEW cursor \in Int, NEW batch \in Nat \ {0},
           NEW last \in Page(rows, cursor, batch)
    PROVE  \A r \in rows : cursor < r.seq /\ r.seq <= last.seq => r \in Page(rows, cursor, batch)
<1> DEFINE Under(r) == {q \in rows : cursor < q.seq /\ q.seq < r.seq}
<1> SUFFICES ASSUME NEW r \in rows, cursor < r.seq, r.seq <= last.seq
             PROVE  Cardinality(Under(r)) < batch
    BY DEF Page
<1>1. last \in rows /\ Cardinality(Under(last)) < batch
    BY DEF Page
<1>2. Under(r) \in SUBSET Under(last)
    BY <1>1
<1>3. IsFiniteSet(Under(last)) /\ IsFiniteSet(Under(r))
    <2>1. Under(last) \in SUBSET rows /\ Under(r) \in SUBSET rows
        OBVIOUS
    <2> HIDE DEF Under
    <2> QED BY <2>1, FS_Subset
<1> HIDE DEF Under
<1>4. Cardinality(Under(r)) <= Cardinality(Under(last))
    BY <1>2, <1>3, FS_Subset
<1>5. Cardinality(Under(r)) \in Nat /\ Cardinality(Under(last)) \in Nat
    BY <1>3, FS_CardinalityType
<1> QED BY <1>1, <1>4, <1>5

\* A page is empty only when no row is above the cursor.
LEMMA EmptyPageIsEnd ==
    ASSUME NEW rows, \A r \in rows : r.seq \in Nat, NEW cursor \in Int, NEW batch \in Nat \ {0},
           Page(rows, cursor, batch) = {}
    PROVE  \A r \in rows : r.seq <= cursor
<1> DEFINE above == {r \in rows : cursor < r.seq}
<1> SUFFICES ASSUME above # {} PROVE FALSE
    OBVIOUS
<1>1. PICK r \in above : IsFirst(r, above)
    <2>1. \A r \in above : r.seq \in Nat
        OBVIOUS
    <2> HIDE DEF above
    <2> QED BY <2>1, FirstExists
<1>2. {q \in rows : cursor < q.seq /\ q.seq < r.seq} = {}
    BY <1>1 DEF IsFirst
<1>3. r \in Page(rows, cursor, batch)
    BY <1>2, FS_EmptySet DEF Page
<1> QED BY <1>3

-----------------------------------------------------------------------------
(* The archives of a chain.                                                 *)

\* The newest archive that ends at n has root hash h.
Anchors(c, n, h) == FindAnchor(c, n) = [toSeq |-> n, rootHash |-> h]

\* Every archive record names a file that is there.
ArchivesFiled ==
    /\ DOMAIN archives = Chains
    /\ \A c \in Chains :
          /\ archives[c] \in Seq({archives[c][k] : k \in DOMAIN archives[c]})
          /\ \A k \in DOMAIN archives[c] : archives[c][k].storageRef \in DOMAIN files

\* The records of a chain after createArchive.
LEMMA CreateArchiveAppends ==
    ASSUME ArchivesFiled, NEW c \in Chains, NEW record, CreateArchive(c, record)
    PROVE  /\ DOMAIN archives' = Chains
           /\ \A d \in Chains \ {c} : archives'[d] = archives[d]
           /\ Len(archives[c]) \in Nat /\ DOMAIN archives[c] = 1 .. Len(archives[c])
           /\ DOMAIN archives'[c] = 1 .. Len(archives[c]) + 1
           /\ \A k \in DOMAIN archives[c] : archives'[c][k] = archives[c][k]
           /\ archives'[c][Len(archives[c]) + 1] = record
           /\ archives'[c] \in Seq({archives'[c][k] : k \in DOMAIN archives'[c]})
<1> DEFINE recs == archives[c]
           R == {recs[k] : k \in DOMAIN recs} \cup {record}
<1>1. archives' = [archives EXCEPT ![c] = Append(recs, record)]
    BY DEF CreateArchive
<1>2. recs \in Seq(R) /\ record \in R
    <2>1. recs \in Seq({recs[k] : k \in DOMAIN recs})
        BY DEF ArchivesFiled
    <2> QED BY <2>1, SeqMonotonic
<1> HIDE DEF R
<1>3. /\ Append(recs, record) \in Seq(R)
      /\ Len(recs) \in Nat /\ DOMAIN recs = 1 .. Len(recs)
      /\ Len(Append(recs, record)) = Len(recs) + 1
      /\ \A k \in 1 .. Len(recs) : Append(recs, record)[k] = recs[k]
      /\ Append(recs, record)[Len(recs) + 1] = record
    BY <1>2, AppendProperties, LenProperties
<1>4. archives'[c] = Append(recs, record) /\ DOMAIN archives' = Chains
    BY <1>1 DEF ArchivesFiled
<1>5. DOMAIN archives'[c] = 1 .. Len(recs) + 1
    BY <1>3, <1>4, LenProperties
<1>6. archives'[c] \in Seq({archives'[c][k] : k \in DOMAIN archives'[c]})
    BY <1>3, <1>4, <1>5
<1>7. \A d \in Chains \ {c} : archives'[d] = archives[d]
    BY <1>1 DEF ArchivesFiled
<1> QED BY <1>3, <1>4, <1>5, <1>6, <1>7

\* findAnchor finds the record that was just created, and every other anchor
\* as before.
LEMMA NewAnchor ==
    ASSUME ArchivesFiled, NEW c \in Chains, NEW record, CreateArchive(c, record)
    PROVE  Anchors(c, record.toSeq, record.rootHash)'
<1> DEFINE n == record.toSeq
           last == Len(archives[c]) + 1
           ends == {k \in DOMAIN archives'[c] : archives'[c][k].toSeq = n}
<1>1. /\ Len(archives[c]) \in Nat /\ DOMAIN archives'[c] = 1 .. last
      /\ archives'[c][last] = record
    BY CreateArchiveAppends
<1>2. last \in ends /\ \A m \in ends : m <= last /\ m \in Int
    BY <1>1
<1>3. (CHOOSE k \in ends : \A m \in ends : m <= k) = last
    <2>1. \A k \in ends : (\A m \in ends : m <= k) => k = last
        BY <1>1, <1>2
    <2> HIDE DEF ends, last
    <2> QED BY <1>2, <2>1
<1>4. FindAnchor(c, n)' = [toSeq |-> n, rootHash |-> archives'[c][last].rootHash]
    BY <1>2, <1>3 DEF FindAnchor
<1> QED BY <1>1, <1>4 DEF Anchors

LEMMA OldAnchors ==
    ASSUME ArchivesFiled, NEW c \in Chains, NEW record, CreateArchive(c, record),
           NEW d \in Chains, NEW n, d # c \/ record.toSeq # n
    PROVE  FindAnchor(d, n)' = FindAnchor(d, n)
<1> DEFINE Ends(recs) == {k \in DOMAIN recs : recs[k].toSeq = n}
           Newest(ends) == CHOOSE k \in ends : \A m \in ends : m <= k
           Found(recs) == IF Ends(recs) = {} THEN NoAnchor
                          ELSE [toSeq |-> n, rootHash |-> recs[Newest(Ends(recs))].rootHash]
<1>1. FindAnchor(d, n) = Found(archives[d]) /\ FindAnchor(d, n)' = Found(archives'[d])
    BY DEF FindAnchor
<1>2. CASE d # c
    <2>1. archives'[d] = archives[d]
        BY <1>2, CreateArchiveAppends
    <2> HIDE DEF Found
    <2> QED BY <1>1, <2>1
<1>3. CASE d = c
    <2>1. /\ Len(archives[c]) \in Nat /\ DOMAIN archives[c] = 1 .. Len(archives[c])
          /\ DOMAIN archives'[c] = 1 .. Len(archives[c]) + 1
          /\ \A k \in DOMAIN archives[c] : archives'[c][k] = archives[c][k]
          /\ archives'[c][Len(archives[c]) + 1] = record
        BY CreateArchiveAppends
    <2>2. Ends(archives'[c]) = Ends(archives[c])
        <3>1. ASSUME NEW k \in 1 .. Len(archives[c]) + 1
              PROVE  archives'[c][k].toSeq = n <=>
                         k \in DOMAIN archives[c] /\ archives[c][k].toSeq = n
            BY <1>3, <2>1
        <3> QED BY <2>1, <3>1
    <2>3. Ends(archives[c]) \in SUBSET (1 .. Len(archives[c]))
        BY <2>1
    <2> DEFINE k == Newest(Ends(archives[c]))
    <2>4. Ends(archives[c]) # {} => k \in Ends(archives[c])
        <3> HIDE DEF Ends
        <3> QED BY <2>1, <2>3, GreatestIndex
    <2>5. Ends(archives[c]) # {} => archives'[c][k] = archives[c][k]
        <3> HIDE DEF k
        <3> QED BY <2>1, <2>4
    <2>6. Found(archives'[c]) = Found(archives[c])
        <3> HIDE DEF Ends, Newest
        <3> QED BY <2>2, <2>5
    <2> HIDE DEF Found
    <2> QED BY <1>1, <1>3, <2>6
<1> QED BY <1>2, <1>3

-----------------------------------------------------------------------------
(* The inductive invariant.  What a sweep read of its chain stays true while *)
(* it works, because only entries on top are added meanwhile; the file it    *)
(* writes is the chain up to its cursor; and the first row of a chain, or    *)
(* the tail an append is about to build on in an emptied chain, links to the *)
(* newest archive that ends right below it.                                  *)

ChainsWhole == \A c \in Chains : Contiguous(ledger[c]) /\ IsFiniteSet(ledger[c])

FirstLinked ==
    \A c \in Chains : \A r \in ledger[c] : IsFirst(r, ledger[c]) =>
        IF r.seq = 1 THEN r.previousHash = NoHash ELSE Anchors(c, r.seq - 1, r.previousHash)

StaleTailsAnchored ==
    \A w \in Slots : pc[w] = "insert" /\ ledger[ChainOf[task[w]]] = {} =>
        \/ tail[w] = NoRow
        \/ tail[w].seq > 0 /\ Anchors(ChainOf[task[w]], tail[w].seq, tail[w].hash)

\* The awaits of sweepChain after the bound is fixed.
BoundFixed == {"open", "write", "record", "emit", "prune"}

\* firstSeq and firstSeqAtOrAfter still hold.
ReadsHold(s) ==
    sweep[s].pc \notin {"idle", "next"} =>
        /\ \E r \in Swept(s) : IsFirst(r, Swept(s)) /\ r.seq = sweep[s].first
        /\ sweep[s].pc # "retained" /\ sweep[s].retained # 0 =>
              /\ \E r \in Swept(s) : r.seq = sweep[s].retained
              /\ \A r \in Swept(s) : r.seq < sweep[s].retained => r.at < Cutoff(s)

\* The bound is a row of the chain, below the first retained one.
BoundHolds(s) ==
    sweep[s].pc \in BoundFixed =>
        /\ sweep[s].first <= sweep[s].bound
        /\ \E r \in Swept(s) : r.seq = sweep[s].bound
        /\ sweep[s].retained # 0 => sweep[s].bound < sweep[s].retained

\* The file holds the chain up to the cursor, then up to the bound.
FileHolds(s) ==
    /\ sweep[s].pc \in BoundFixed \ {"open"} =>
          /\ Path(s) \in DOMAIN files
          /\ \A r \in Swept(s) : r.seq = sweep[s].bound => r.hash = sweep[s].root
    /\ sweep[s].pc \in {"write", "record"} =>
          \A c \in Chains : \A k \in DOMAIN archives[c] : archives[c][k].storageRef # Path(s)
    /\ sweep[s].pc = "write" =>
          /\ sweep[s].cursor <= sweep[s].bound
          /\ files[Path(s)] = Below(Swept(s), sweep[s].cursor)
    /\ sweep[s].pc \in {"record", "emit", "prune"} =>
          files[Path(s)] = Below(Swept(s), sweep[s].bound)
    /\ sweep[s].pc \in {"emit", "prune"} =>
          Anchors(sweep[s].chain, sweep[s].bound, sweep[s].root)

SweepHolds(s) == ReadsHold(s) /\ BoundHolds(s) /\ FileHolds(s)

RetentionParts ==
    /\ ChainsWhole
    /\ ArchivesFiled
    /\ ArchivesComplete
    /\ FirstLinked
    /\ StaleTailsAnchored
    /\ \A s \in Sweepers : SweepHolds(s)

RetentionInv == SafeInv /\ RetentionParts

-----------------------------------------------------------------------------
(* The steps of the workers. *)

LEMMA SameAnchors ==
    ASSUME UNCHANGED archives, NEW c, NEW n
    PROVE  FindAnchor(c, n)' = FindAnchor(c, n)
BY DEF FindAnchor

LEMMA SameArchives ==
    ASSUME ArchivesFiled, ArchivesComplete, UNCHANGED << archives, files >>
    PROVE  ArchivesFiled' /\ ArchivesComplete'
<1>1. ArchivesFiled'
    BY DEF ArchivesFiled
<1>2. ArchivesComplete'
    BY DEF ArchivesComplete
<1> QED BY <1>1, <1>2

\* A step that changes no row, archive, file or sweep, and builds on no other
\* tail of an emptied chain.
LEMMA QuietStep ==
    ASSUME RetentionParts, UNCHANGED << ledger, archives, retentionVars >>,
           \A w \in Slots : pc'[w] = "insert" =>
               \/ pc[w] = "insert" /\ task'[w] = task[w] /\ tail'[w] = tail[w]
               \/ ledger[ChainOf[task'[w]]] = {} => tail'[w] = NoRow
    PROVE  RetentionParts'
<1> USE DEF RetentionParts
<1>1. ChainsWhole' /\ ArchivesFiled' /\ ArchivesComplete'
    BY SameArchives DEF ChainsWhole, retentionVars
<1>2. FirstLinked' /\ StaleTailsAnchored'
    BY SameAnchors DEF FirstLinked, StaleTailsAnchored, Anchors
<1>3. ASSUME NEW s \in Sweepers PROVE SweepHolds(s)'
    <2>1. UNCHANGED << sweep[s], Swept(s), Cutoff(s), Path(s), files >>
        BY DEF retentionVars, Swept, Cutoff, Path
    <2>2. ReadsHold(s)' /\ BoundHolds(s)'
        BY <2>1 DEF SweepHolds, ReadsHold, BoundHolds
    <2>3. FileHolds(s)'
        BY <2>1, SameAnchors DEF SweepHolds, FileHolds, Anchors
    <2> QED BY <2>2, <2>3 DEF SweepHolds
<1> QED BY <1>1, <1>2, <1>3

\* What an insert does: one row on top of one chain.
LEMMA InsertOkOnTop ==
    ASSUME SafeInv, NEW w \in Slots, InsertOk(w)
    PROVE  LET c == ChainOf[task[w]]
               rows == ledger[c]
               row == NextRow(w)
           IN  /\ pc[w] = "insert" /\ task[w] \in Drafts /\ c \in Chains
               /\ ledger' = [ledger EXCEPT ![c] = rows \cup {row}]
               /\ ledger'[c] = rows \cup {row}
               /\ \A d \in Chains \ {c} : ledger'[d] = ledger[d]
               /\ row.seq \in Nat /\ row.seq = tail[w].seq + 1 /\ row.previousHash = tail[w].hash
               /\ row.draft = task[w]
               /\ rows = {} \/ \E p \in rows : IsLast(p, rows) /\ row.seq = p.seq + 1
               /\ \A r \in rows : r.seq \in Nat /\ r.seq < row.seq
<1> DEFINE c == ChainOf[task[w]]
           rows == ledger[c]
           row == NextRow(w)
<1>1. pc[w] = "insert" /\ task[w] \in Drafts /\ c \in Chains
    BY ChainAssumption DEF SafeInv, TypeInv, TypeOK, InsertOk, IngestTypeOK
<1>2. /\ ledger' = [ledger EXCEPT ![c] = rows \cup {row}] /\ ledger'[c] = rows \cup {row}
      /\ \A d \in Chains \ {c} : ledger'[d] = ledger[d]
    BY <1>1 DEF InsertOk, AppendRow, SafeInv, TypeInv, TypeOK, LedgerTypeOK
<1>3. row.previousHash = tail[w].hash
    BY RowFields DEF NextRow
<1>4. \A r \in rows : r.seq \in Nat
    BY <1>1 DEF SafeInv, TypeInv, TypeOK, LedgerTypeOK
<1>5. /\ rows = {} \/ \E p \in rows : IsLast(p, rows) /\ Follows(row, p)
      /\ row.seq \in Nat /\ row.seq = tail[w].seq + 1 /\ row.draft = task[w]
    BY <1>1, NextRowOnTop
<1>6. /\ rows = {} \/ \E p \in rows : IsLast(p, rows) /\ row.seq = p.seq + 1
      /\ \A r \in rows : r.seq < row.seq
    <2> HIDE DEF rows, row
    <2> QED BY <1>4, <1>5 DEF IsLast, Follows
<1> QED BY <1>1, <1>2, <1>3, <1>4, <1>5, <1>6

\* A row on top disturbs no sweep: all a sweep has read lies below it.
LEMMA InsertOkSweeps ==
    ASSUME RetentionInv, NEW w \in Slots, InsertOk(w), UNCHANGED << archives, retentionVars >>,
           NEW s \in Sweepers
    PROVE  SweepHolds(s)'
<1> DEFINE c == ChainOf[task[w]]
           row == NextRow(w)
<1>1. UNCHANGED << sweep[s], Cutoff(s), Path(s), files >>
    BY DEF retentionVars, Cutoff, Path
<1>2. CASE sweep[s].pc \in {"idle", "next"}
    BY <1>1, <1>2 DEF SweepHolds, ReadsHold, BoundHolds, FileHolds, BoundFixed
<1>3. CASE sweep[s].pc \notin {"idle", "next"}
    <2>1. sweep[s].chain \in Chains /\ sweep[s].bound \in Nat /\ sweep[s].cursor \in Int
        BY <1>3 DEF RetentionInv, SafeInv, TypeInv, TypeOK, RetentionTypeOK, SweepTypeOK
    <2>2. /\ \A r \in Swept(s) : r.seq \in Nat
          /\ \/ Swept(s)' = Swept(s)
             \/ /\ Swept(s)' = Swept(s) \cup {row}
                /\ row.seq \in Nat
                /\ \A r \in Swept(s) : r.seq < row.seq
        BY <1>1, <2>1, InsertOkOnTop
           DEF Swept, RetentionInv, SafeInv, TypeInv, TypeOK, LedgerTypeOK
    <2> HIDE DEF row
    <2>3. ReadsHold(s)'
        BY <1>1, <2>2 DEF RetentionInv, RetentionParts, SweepHolds, ReadsHold, IsFirst
    <2>4. BoundHolds(s)'
        BY <1>1, <2>2 DEF RetentionInv, RetentionParts, SweepHolds, BoundHolds
    <2>5. ASSUME sweep[s].pc \in BoundFixed, NEW n \in Int, n <= sweep[s].bound
          PROVE  \/ Swept(s)' = Swept(s)
                 \/ Below(Swept(s)', n) = Below(Swept(s), n) /\ row.seq # sweep[s].bound
        BY <2>1, <2>2, <2>5 DEF RetentionInv, RetentionParts, SweepHolds, BoundHolds, Below
    <2>6. FileHolds(s)'
        BY <1>1, <2>1, <2>2, <2>5, SameAnchors
           DEF RetentionInv, RetentionParts, SweepHolds, FileHolds, BoundFixed, Anchors
    <2> QED BY <2>3, <2>4, <2>6 DEF SweepHolds
<1> QED BY <1>2, <1>3

\* An insert keeps the chains linked to their archives: into an emptied chain
\* it builds on nothing or on the last row that was archived.
LEMMA InsertOkRetention ==
    ASSUME OneProcessOnly, RetentionInv, NEW w \in Slots, InsertOk(w),
           UNCHANGED << archives, retentionVars >>
    PROVE  RetentionParts'
<1> USE DEF RetentionInv, RetentionParts
<1> DEFINE c == ChainOf[task[w]]
           rows == ledger[c]
           row == NextRow(w)
<1>1. /\ pc[w] = "insert" /\ task[w] \in Drafts /\ c \in Chains
      /\ ledger'[c] = rows \cup {row}
      /\ \A d \in Chains \ {c} : ledger'[d] = ledger[d]
      /\ row.seq \in Nat /\ row.seq = tail[w].seq + 1 /\ row.previousHash = tail[w].hash
      /\ rows = {} \/ \E p \in rows : IsLast(p, rows) /\ row.seq = p.seq + 1
      /\ \A r \in rows : r.seq \in Nat /\ r.seq < row.seq
    BY InsertOkOnTop
<1>2. ChainsWhole'
    <2>1. Contiguous(rows \cup {row}) /\ IsFiniteSet(rows \cup {row})
        <3>1. Contiguous(rows) /\ IsFiniteSet(rows)
            BY <1>1 DEF ChainsWhole
        <3> HIDE DEF rows, row
        <3> QED BY <1>1, <3>1, AppendKeepsContiguous, FS_AddElement
    <2> QED BY <1>1, <2>1 DEF ChainsWhole
<1>3. ArchivesFiled' /\ ArchivesComplete'
    BY SameArchives DEF retentionVars
<1>4. FirstLinked'
    <2> SUFFICES ASSUME NEW d \in Chains, NEW r \in ledger'[d], IsFirst(r, ledger'[d])
                 PROVE  IF r.seq = 1 THEN r.previousHash = NoHash
                        ELSE Anchors(d, r.seq - 1, r.previousHash)
        BY SameAnchors DEF FirstLinked, Anchors
    <2>1. CASE d # c
        BY <1>1, <2>1 DEF FirstLinked
    <2>2. CASE d = c /\ rows # {}
        <3>1. r \in rows /\ IsFirst(r, rows)
            <4> HIDE DEF row
            <4> QED BY <1>1, <2>2 DEF IsFirst
        <3> QED BY <2>2, <3>1 DEF FirstLinked
    <2>3. CASE d = c /\ rows = {}
        <3>1. r = row
            BY <1>1, <2>3
        <3>2. \/ tail[w] = NoRow
              \/ tail[w].seq > 0 /\ Anchors(c, tail[w].seq, tail[w].hash)
            BY <1>1, <2>3 DEF StaleTailsAnchored
        <3>3. tail[w].seq \in Nat
            BY DEF SafeInv, TypeInv, TypeOK, IngestTypeOK
        <3> HIDE DEF row
        <3> QED BY <1>1, <2>3, <3>1, <3>2, <3>3 DEF NoRow
    <2> QED BY <2>1, <2>2, <2>3
<1>5. StaleTailsAnchored'
    <2> SUFFICES ASSUME NEW v \in Slots, pc'[v] = "insert", ledger'[ChainOf[task'[v]]] = {}
                 PROVE  \/ tail'[v] = NoRow
                        \/ tail'[v].seq > 0 /\ Anchors(ChainOf[task'[v]], tail'[v].seq, tail'[v].hash)
        BY SameAnchors DEF StaleTailsAnchored, Anchors
    <2>1. v # w /\ pc[v] = "insert" /\ task'[v] = task[v] /\ tail'[v] = tail[v]
        BY DEF InsertOk, SafeInv, TypeInv, TypeOK, IngestTypeOK
    <2>2. ChainOf[task[v]] \in Chains \ {c}
        BY <1>1, <2>1, ChainAssumption, InsertersExclusive DEF SafeInv, TypeInv, TypeOK, IngestTypeOK
    <2> QED BY <1>1, <2>1, <2>2 DEF StaleTailsAnchored
<1>6. \A s \in Sweepers : SweepHolds(s)'
    BY InsertOkSweeps
<1> QED BY <1>2, <1>3, <1>4, <1>5, <1>6

-----------------------------------------------------------------------------
(* The steps of the one sweep. *)

\* What the invariant gives about the chain a sweep works on.
LEMMA SweptChain ==
    ASSUME RetentionInv, NEW s \in Sweepers
    PROVE  /\ DOMAIN sweep = Sweepers /\ DOMAIN sweep[s] = DOMAIN IdleSweep
           /\ sweep[s].first \in Nat /\ sweep[s].retained \in Nat /\ sweep[s].bound \in Nat
           /\ sweep[s].cursor \in Int /\ Cutoff(s) \in Int
           /\ sweep[s].pc \notin {"idle", "next"} =>
                 /\ sweep[s].chain \in Chains
                 /\ Contiguous(Swept(s)) /\ IsFiniteSet(Swept(s)) /\ Intact(Swept(s))
                 /\ \A r \in Swept(s) : r.seq \in Nat /\ r.seq # 0 /\ r.at \in Nat
                 /\ \E r \in Swept(s) : IsFirst(r, Swept(s)) /\ r.seq = sweep[s].first
<1>1. /\ DOMAIN sweep = Sweepers /\ DOMAIN sweep[s] = DOMAIN IdleSweep
      /\ sweep[s].first \in Nat /\ sweep[s].retained \in Nat /\ sweep[s].bound \in Nat
      /\ sweep[s].cursor \in Int /\ Cutoff(s) \in Int
      /\ sweep[s].pc \notin {"idle", "next"} => sweep[s].chain \in Chains
    BY RetentionAssumption
       DEF RetentionInv, SafeInv, TypeInv, TypeOK, RetentionTypeOK, SweepTypeOK, Cutoff
<1>2. CASE sweep[s].pc \in {"idle", "next"}
    BY <1>1, <1>2
<1>3. CASE sweep[s].pc \notin {"idle", "next"}
    <2>1. sweep[s].chain \in Chains
        BY <1>1, <1>3
    <2>2. Contiguous(Swept(s)) /\ IsFiniteSet(Swept(s))
        BY <2>1 DEF RetentionInv, RetentionParts, ChainsWhole, Swept
    <2>3. Intact(Swept(s))
        BY <2>1 DEF RetentionInv, SafeInv, ChainsIntact, Swept
    <2>4. \A r \in Swept(s) : r.seq \in Nat /\ r.seq # 0 /\ r.at \in Nat
        BY <2>1 DEF RetentionInv, SafeInv, TypeInv, TypeOK, LedgerTypeOK, Swept
    <2>5. \E r \in Swept(s) : IsFirst(r, Swept(s)) /\ r.seq = sweep[s].first
        BY <1>3 DEF RetentionInv, RetentionParts, SweepHolds, ReadsHold
    <2> QED BY <1>1, <2>1, <2>2, <2>3, <2>4, <2>5
<1> QED BY <1>2, <1>3

\* A step that changes no row, no archive and no tail.
LEMMA SameLinks ==
    ASSUME RetentionParts, UNCHANGED << ledger, archives, ingestVars >>
    PROVE  ChainsWhole' /\ FirstLinked' /\ StaleTailsAnchored'
<1>1. ChainsWhole'
    BY DEF RetentionParts, ChainsWhole
<1>2. FirstLinked' /\ StaleTailsAnchored'
    BY SameAnchors DEF RetentionParts, FirstLinked, StaleTailsAnchored, Anchors, ingestVars
<1> QED BY <1>1, <1>2

\* A step of the one sweep that only changes its local variables.
LEMMA LocalSweepStep ==
    ASSUME OneSweeper, RetentionParts, UNCHANGED << ledger, archives, files, ingestVars >>,
           NEW s \in Sweepers, SweepHolds(s)'
    PROVE  RetentionParts'
<1>1. ArchivesFiled' /\ ArchivesComplete'
    BY SameArchives DEF RetentionParts
<1>2. \A t \in Sweepers : SweepHolds(t)'
    BY DEF OneSweeper
<1> QED BY <1>1, <1>2, SameLinks DEF RetentionParts

\* A sweep between two chains holds nothing.
LEMMA BetweenChains ==
    ASSUME NEW s \in Sweepers, sweep'[s].pc \in {"idle", "next"}
    PROVE  SweepHolds(s)'
BY DEF SweepHolds, ReadsHold, BoundHolds, FileHolds, BoundFixed

\* StartSweep, SweepEnd, SweepChainFails, CrashSweep: the sweep leaves its chain.
LEMMA LeaveChainStep ==
    ASSUME OneSweeper, RetentionInv, NEW s \in Sweepers, UNCHANGED ingestVars,
           StartSweep(s) \/ SweepEnd(s) \/ SweepChainFails(s) \/ CrashSweep(s)
    PROVE  RetentionParts'
<1>1. UNCHANGED << ledger, archives, files >>
    BY DEF StartSweep, SweepEnd, SweepChainFails, CrashSweep
<1>2. sweep'[s].pc \in {"idle", "next"}
    <2>1. s \in DOMAIN sweep
        BY SweptChain
    <2>2. CASE StartSweep(s) \/ SweepChainFails(s)
        BY <2>1, <2>2 DEF StartSweep, SweepChainFails, NextChain, IdleSweep
    <2>3. CASE SweepEnd(s) \/ CrashSweep(s)
        BY <2>1, <2>3 DEF SweepEnd, CrashSweep, IdleSweep
    <2> QED BY <2>2, <2>3
<1> QED BY <1>1, <1>2, BetweenChains, LocalSweepStep DEF RetentionInv

\* firstSeq.
LEMMA SweepFirstStep ==
    ASSUME OneSweeper, RetentionInv, NEW s \in Sweepers, NEW c \in Chains, SweepFirst(s, c),
           UNCHANGED ingestVars
    PROVE  RetentionParts'
<1>1. PICK first \in FirstSeq(ledger[c]) : sweep' = [sweep EXCEPT
          ![s].todo = @ \ {c},
          ![s].chain = IF ledger[c] = {} THEN {} ELSE c,
          ![s].first = first,
          ![s].pc = IF ledger[c] = {} THEN "next" ELSE "retained"]
    BY DEF SweepFirst
<1>2. UNCHANGED << ledger, archives, files >>
    BY DEF SweepFirst
<1>3. CASE ledger[c] = {}
    <2>1. sweep'[s].pc = "next"
        BY <1>1, <1>3, SweptChain DEF IdleSweep
    <2> QED BY <1>2, <2>1, BetweenChains, LocalSweepStep DEF RetentionInv
<1>4. CASE ledger[c] # {}
    <2>1. sweep'[s].pc = "retained" /\ sweep'[s].chain = c /\ sweep'[s].first = first
        BY <1>1, <1>4, SweptChain DEF IdleSweep
    <2>2. \E r \in ledger[c] : IsFirst(r, ledger[c]) /\ r.seq = first
        BY <1>4, <1>1 DEF FirstSeq
    <2>3. SweepHolds(s)'
        BY <1>2, <2>1, <2>2 DEF SweepHolds, ReadsHold, BoundHolds, FileHolds, BoundFixed, Swept
    <2> QED BY <1>2, <2>3, LocalSweepStep DEF RetentionInv
<1> QED BY <1>3, <1>4

\* firstSeqAtOrAfter: every row below the first one inside the window is expired.
LEMMA SweepRetainedStep ==
    ASSUME OneSweeper, RetentionInv, NEW s \in Sweepers, SweepRetained(s), UNCHANGED ingestVars
    PROVE  RetentionParts'
<1> DEFINE kept == {r \in Swept(s) : r.at >= Cutoff(s)}
<1>1. PICK seq \in FirstSeq(kept) : sweep' = [sweep EXCEPT ![s].retained = seq, ![s].pc = "bound"]
    BY DEF SweepRetained, FirstSeqAtOrAfter
<1>2. UNCHANGED << ledger, archives, files >> /\ sweep[s].pc = "retained"
    BY DEF SweepRetained
<1>3. /\ sweep'[s].pc = "bound" /\ sweep'[s].retained = seq
      /\ UNCHANGED << sweep[s].chain, sweep[s].first, sweep[s].start >>
    BY <1>1, SweptChain DEF IdleSweep
<1>4. UNCHANGED << Swept(s), Cutoff(s) >>
    BY <1>2, <1>3 DEF Swept, Cutoff
<1>5. seq # 0 => /\ \E r \in Swept(s) : r.seq = seq
                 /\ \A r \in Swept(s) : r.seq < seq => r.at < Cutoff(s)
    BY <1>1, <1>2, SweptChain DEF FirstSeq, IsFirst
<1>6. ReadsHold(s)'
    BY <1>2, <1>3, <1>4, <1>5, SweptChain DEF ReadsHold
<1>7. SweepHolds(s)'
    BY <1>3, <1>6 DEF SweepHolds, BoundHolds, FileHolds, BoundFixed
<1> QED BY <1>2, <1>7, LocalSweepStep DEF RetentionInv

\* The prune bound is a row of the chain, because the chain has no gaps.
LEMMA SweepBoundStep ==
    ASSUME OneSweeper, ArchiveBeforeDelete, RetentionInv, NEW s \in Sweepers, SweepBound(s),
           UNCHANGED ingestVars
    PROVE  RetentionParts'
<1>1. UNCHANGED << ledger, archives, files >> /\ sweep[s].pc = "bound"
    BY DEF SweepBound
<1>2. CASE NextChain(s)
    <2>1. sweep'[s].pc = "next"
        BY <1>2, SweptChain DEF NextChain, IdleSweep
    <2> QED BY <1>1, <2>1, BetweenChains, LocalSweepStep DEF RetentionInv
<1>3. CASE ~NextChain(s)
    <2>1. PICK last \in FindLast(Swept(s)) :
              /\ ~(BoundOf(s, last) < sweep[s].first)
              /\ sweep' = [sweep EXCEPT ![s].bound = BoundOf(s, last), ![s].pc = "open"]
        BY <1>3 DEF SweepBound
    <2>2. PICK f \in Swept(s) : IsFirst(f, Swept(s)) /\ f.seq = sweep[s].first
        BY <1>1, SweptChain
    <2>3. last \in Swept(s)
        BY <2>1, <2>2, FindLastIsLast DEF IsLast
    <2>4. /\ sweep'[s].pc = "open" /\ sweep'[s].bound = BoundOf(s, last)
          /\ UNCHANGED << sweep[s].chain, sweep[s].first, sweep[s].start, sweep[s].retained >>
        BY <2>1, SweptChain DEF IdleSweep
    <2>5. UNCHANGED << Swept(s), Cutoff(s) >>
        BY <1>1, <2>4 DEF Swept, Cutoff
    <2>6. BoundOf(s, last) \in Nat /\ sweep[s].first <= BoundOf(s, last)
        <3>1. last.seq \in Nat /\ sweep[s].retained \in Nat /\ sweep[s].first \in Nat
            BY <1>1, <2>3, SweptChain
        <3> QED BY <2>1, <3>1 DEF BoundOf
    <2>7. \E r \in Swept(s) : r.seq = BoundOf(s, last)
        <3>1. CASE sweep[s].retained = 0
            BY <2>3, <3>1 DEF BoundOf
        <3>2. CASE sweep[s].retained # 0
            <4>1. PICK q \in Swept(s) : q.seq = sweep[s].retained
                BY <1>1, <3>2 DEF RetentionInv, RetentionParts, SweepHolds, ReadsHold
            <4>2. Contiguous(Swept(s)) /\ q.seq \in Nat /\ BoundOf(s, last) = q.seq - 1
                BY <1>1, <3>2, <4>1, SweptChain DEF BoundOf
            <4>3. BoundOf(s, last) \in f.seq .. q.seq
                BY <1>1, <2>2, <2>6, <4>2, SweptChain
            <4> QED BY <4>2, <4>3 DEF Contiguous
        <3> QED BY <3>1, <3>2
    <2>8. ReadsHold(s)'
        BY <1>1, <2>4, <2>5 DEF RetentionInv, RetentionParts, SweepHolds, ReadsHold
    <2>9. BoundHolds(s)'
        <3>1. sweep[s].retained # 0 => BoundOf(s, last) < sweep[s].retained
            BY SweptChain DEF BoundOf
        <3> QED BY <2>4, <2>5, <2>6, <2>7, <3>1 DEF BoundHolds
    <2>10. SweepHolds(s)'
        BY <2>4, <2>8, <2>9 DEF SweepHolds, FileHolds, BoundFixed
    <2> QED BY <1>1, <2>10, LocalSweepStep DEF RetentionInv
<1> QED BY <1>2, <1>3

\* A file under its own name: no archive names it yet.
LEMMA SweepOpenStep ==
    ASSUME OneSweeper, RetentionInv, NEW s \in Sweepers, SweepOpen(s), UNCHANGED ingestVars
    PROVE  RetentionParts'
<1>1. UNCHANGED << ledger, archives >> /\ sweep[s].pc = "open"
    BY DEF SweepOpen
<1>2. CASE NextChain(s) /\ UNCHANGED files
    <2>1. sweep'[s].pc = "next"
        BY <1>2, SweptChain DEF NextChain, IdleSweep
    <2> QED BY <1>1, <1>2, <2>1, BetweenChains, LocalSweepStep DEF RetentionInv
<1>3. CASE ~(NextChain(s) /\ UNCHANGED files)
    <2> DEFINE x == sweep[s]
    <2>1. PICK r \in Swept(s) :
              /\ r.seq = x.bound
              /\ sweep' = [sweep EXCEPT ![s].root = r.hash, ![s].pc = "write",
                                        ![s].cursor = x.first - 1]
        BY <1>3 DEF SweepOpen
    <2>2. /\ Path(s) \notin DOMAIN files
          /\ files' = [p \in DOMAIN files \cup {Path(s)} |-> IF p = Path(s) THEN {} ELSE files[p]]
        BY <1>3 DEF SweepOpen
    <2>3. /\ sweep'[s].pc = "write" /\ sweep'[s].root = r.hash /\ sweep'[s].cursor = x.first - 1
          /\ UNCHANGED << sweep[s].chain, sweep[s].first, sweep[s].start, sweep[s].retained,
                          sweep[s].bound >>
        BY <2>1, SweptChain DEF IdleSweep
    <2>4. UNCHANGED << Swept(s), Cutoff(s), Path(s) >>
        BY <1>1, <2>3 DEF Swept, Cutoff, Path
    <2>5. ArchivesFiled' /\ ArchivesComplete'
        <3>1. ASSUME NEW c \in Chains, NEW k \in DOMAIN archives[c]
              PROVE  /\ archives[c][k].storageRef \in DOMAIN files'
                     /\ files'[archives[c][k].storageRef] = files[archives[c][k].storageRef]
            BY <2>2 DEF RetentionInv, RetentionParts, ArchivesFiled
        <3>2. ArchivesFiled'
            BY <1>1, <3>1 DEF RetentionInv, RetentionParts, ArchivesFiled
        <3>3. ArchivesComplete'
            BY <1>1, <3>1 DEF RetentionInv, RetentionParts, ArchivesComplete
        <3> QED BY <3>2, <3>3
    <2>6. ReadsHold(s)' /\ BoundHolds(s)'
        <3>1. ReadsHold(s) /\ BoundHolds(s)
            BY DEF RetentionInv, RetentionParts, SweepHolds
        <3>2. ReadsHold(s)'
            BY <1>1, <2>3, <2>4, <3>1 DEF ReadsHold
        <3>3. BoundHolds(s)'
            BY <1>1, <2>3, <2>4, <3>1 DEF BoundHolds, BoundFixed
        <3> QED BY <3>2, <3>3
    <2>7. FileHolds(s)'
        <3>1. \A q \in Swept(s) : q.seq = x.bound => q.hash = r.hash
            BY <1>1, <2>1, SweptChain DEF Intact, UniqueSeqs
        <3>2. \A c \in Chains : \A k \in DOMAIN archives[c] : archives[c][k].storageRef # Path(s)
            BY <2>2 DEF RetentionInv, RetentionParts, ArchivesFiled
        <3>3. Below(Swept(s), x.first - 1) = {}
            BY <1>1, SweptChain DEF Below, IsFirst
        <3>4. x.first - 1 <= x.bound
            <4>1. x.first <= x.bound
                BY <1>1 DEF RetentionInv, RetentionParts, SweepHolds, BoundHolds, BoundFixed
            <4> QED BY <4>1, SweptChain
        <3>5. files'[Path(s)] = {} /\ Path(s) \in DOMAIN files'
            BY <2>2
        <3> QED BY <1>1, <2>3, <2>4, <3>1, <3>2, <3>3, <3>4, <3>5 DEF FileHolds
    <2>8. \A t \in Sweepers : SweepHolds(t)'
        BY <2>6, <2>7 DEF OneSweeper, SweepHolds
    <2> QED BY <1>1, <2>5, <2>8, SameLinks DEF RetentionInv, RetentionParts
<1> QED BY <1>2, <1>3

\* A batch is written: the file is the chain up to the cursor, without a gap,
\* whatever was appended since the last batch.
LEMMA SweepWriteStep ==
    ASSUME OneSweeper, RetentionInv, NEW s \in Sweepers, SweepWrite(s), UNCHANGED ingestVars
    PROVE  RetentionParts'
<1> DEFINE x == sweep[s]
           rows == Swept(s)
           upTo == Below(rows, x.bound)
           page == Page(upTo, x.cursor, ExportBatch)
<1>1. /\ UNCHANGED << ledger, archives >> /\ x.pc = "write"
      /\ IF page = {}
         THEN Goto(s, "record") /\ UNCHANGED files
         ELSE /\ files' = [files EXCEPT ![Path(s)] = @ \cup page]
              /\ \E r \in page : IsLast(r, page) /\ sweep' = [sweep EXCEPT ![s].cursor = r.seq]
    BY DEF SweepWrite, Below
<1>2. /\ ReadsHold(s) /\ BoundHolds(s)
      /\ x.first <= x.bound /\ \E r \in rows : r.seq = x.bound
      /\ Path(s) \in DOMAIN files
      /\ \A r \in rows : r.seq = x.bound => r.hash = x.root
      /\ \A c \in Chains : \A k \in DOMAIN archives[c] : archives[c][k].storageRef # Path(s)
      /\ x.cursor <= x.bound
      /\ files[Path(s)] = Below(rows, x.cursor)
    BY <1>1 DEF RetentionInv, RetentionParts, SweepHolds, BoundHolds, FileHolds, BoundFixed
<1>3. /\ x.bound \in Nat /\ x.cursor \in Int /\ ExportBatch \in Nat \ {0}
      /\ IsFiniteSet(upTo) /\ \A r \in upTo : r.seq \in Nat
      /\ \A r \in rows : r.seq \in Nat
    <2>1. upTo \in SUBSET rows
        BY DEF Below
    <2>2. IsFiniteSet(rows) /\ \A r \in rows : r.seq \in Nat
        BY <1>1, SweptChain
    <2> HIDE DEF rows, upTo
    <2>3. IsFiniteSet(upTo)
        BY <2>1, <2>2, FS_Subset
    <2> QED BY <2>1, <2>2, <2>3, SweptChain, RetentionAssumption
<1>4. CASE page = {}
    <2>1. sweep'[s].pc = "record"
          /\ UNCHANGED << files, sweep[s].chain, sweep[s].first, sweep[s].start, sweep[s].retained,
                          sweep[s].bound, sweep[s].cursor, sweep[s].root >>
        BY <1>1, <1>4, SweptChain DEF Goto, IdleSweep
    <2>2. UNCHANGED << Swept(s), Cutoff(s), Path(s) >>
        BY <1>1, <2>1 DEF Swept, Cutoff, Path
    <2>3. x.cursor = x.bound
        <3>1. \A r \in upTo : r.seq <= x.cursor
            <4> HIDE DEF upTo, x
            <4> QED BY <1>3, <1>4, EmptyPageIsEnd
        <3> QED BY <1>2, <1>3, <3>1 DEF Below
    <2>4. ReadsHold(s)' /\ BoundHolds(s)'
        BY <1>1, <1>2, <2>1, <2>2 DEF ReadsHold, BoundHolds, BoundFixed
    <2>5. FileHolds(s)'
        BY <1>1, <1>2, <2>1, <2>2, <2>3 DEF FileHolds
    <2> QED BY <1>1, <2>1, <2>4, <2>5, LocalSweepStep DEF RetentionInv, SweepHolds
<1>5. CASE page # {}
    <2>1. PICK last \in page : IsLast(last, page) /\ sweep' = [sweep EXCEPT ![s].cursor = last.seq]
        BY <1>1, <1>5
    <2>2. sweep'[s].pc = "write" /\ sweep'[s].cursor = last.seq
          /\ UNCHANGED << sweep[s].chain, sweep[s].first, sweep[s].start, sweep[s].retained,
                          sweep[s].bound, sweep[s].root >>
        BY <1>1, <2>1, SweptChain DEF IdleSweep
    <2>3. UNCHANGED << Swept(s), Cutoff(s), Path(s) >>
        BY <1>1, <2>2 DEF Swept, Cutoff, Path
    <2>4. last \in rows /\ last.seq <= x.bound /\ x.cursor < last.seq
        BY DEF Page, Below
    <2>5. Below(rows, x.cursor) \cup page = Below(rows, last.seq)
        <3>1. \A r \in upTo : x.cursor < r.seq /\ r.seq <= last.seq => r \in page
            <4> HIDE DEF upTo, x
            <4> QED BY <1>3, PageHasNoGap
        <3>2. \A r \in page : r \in rows /\ r.seq <= last.seq
            BY <2>1 DEF IsLast, Page, Below
        <3> HIDE DEF page, rows, x
        <3>3. ASSUME NEW r \in rows, r.seq <= last.seq
              PROVE  r.seq <= x.cursor \/ r \in page
            BY <1>3, <2>4, <3>1, <3>3 DEF Below
        <3> QED BY <1>3, <2>4, <3>2, <3>3 DEF Below
    <2>6. files' = [files EXCEPT ![Path(s)] = Below(rows, last.seq)]
        BY <1>1, <1>2, <1>5, <2>5
    <2>7. ArchivesFiled' /\ ArchivesComplete'
        <3>1. ASSUME NEW c \in Chains, NEW k \in DOMAIN archives[c]
              PROVE  /\ archives[c][k].storageRef \in DOMAIN files'
                     /\ files'[archives[c][k].storageRef] = files[archives[c][k].storageRef]
            BY <1>2, <2>6 DEF RetentionInv, RetentionParts, ArchivesFiled
        <3>2. ArchivesFiled'
            BY <1>1, <3>1 DEF RetentionInv, RetentionParts, ArchivesFiled
        <3>3. ArchivesComplete'
            BY <1>1, <3>1 DEF RetentionInv, RetentionParts, ArchivesComplete
        <3> QED BY <3>2, <3>3
    <2>8. ReadsHold(s)' /\ BoundHolds(s)'
        BY <1>1, <1>2, <2>2, <2>3 DEF ReadsHold, BoundHolds, BoundFixed
    <2>9. FileHolds(s)'
        <3>1. files'[Path(s)] = Below(rows, last.seq) /\ Path(s) \in DOMAIN files'
            BY <1>2, <2>6
        <3> QED BY <1>1, <1>2, <2>2, <2>3, <2>4, <3>1 DEF FileHolds
    <2>10. \A t \in Sweepers : SweepHolds(t)'
        BY <2>8, <2>9 DEF OneSweeper, SweepHolds
    <2> QED BY <1>1, <2>7, <2>10, SameLinks DEF RetentionInv, RetentionParts
<1> QED BY <1>4, <1>5

\* createArchive: the record names a complete file and is the newest anchor.
LEMMA SweepRecordStep ==
    ASSUME OneSweeper, RetentionInv, NEW s \in Sweepers, SweepRecord(s), UNCHANGED ingestVars
    PROVE  RetentionParts'
<1> DEFINE x == sweep[s]
           c == x.chain
           rows == Swept(s)
           record == [fromSeq |-> x.first, toSeq |-> x.bound, rootHash |-> x.root,
                      storageRef |-> Path(s)]
<1>1. /\ UNCHANGED << ledger, files >> /\ x.pc = "record"
      /\ CreateArchive(c, record) /\ Goto(s, "emit")
    BY DEF SweepRecord
<1>2. /\ ReadsHold(s) /\ BoundHolds(s)
      /\ x.first <= x.bound /\ \E r \in rows : r.seq = x.bound
      /\ Path(s) \in DOMAIN files
      /\ \A r \in rows : r.seq = x.bound => r.hash = x.root
      /\ files[Path(s)] = Below(rows, x.bound)
    BY <1>1 DEF RetentionInv, RetentionParts, SweepHolds, BoundHolds, FileHolds, BoundFixed
<1>3. /\ c \in Chains /\ x.bound \in Nat /\ x.first \in Nat
      /\ Contiguous(rows) /\ Intact(rows) /\ \A r \in rows : r.seq \in Nat /\ r.seq # 0
      /\ \E r \in rows : IsFirst(r, rows) /\ r.seq = x.first
    BY <1>1, SweptChain
<1>4. ArchivesFiled
    BY DEF RetentionInv, RetentionParts
<1> DEFINE last == Len(archives[c]) + 1
<1>5. /\ DOMAIN archives' = Chains
      /\ \A d \in Chains \ {c} : archives'[d] = archives[d]
      /\ DOMAIN archives'[c] = DOMAIN archives[c] \cup {last}
      /\ \A k \in DOMAIN archives[c] : archives'[c][k] = archives[c][k]
      /\ archives'[c][last] = record
      /\ archives'[c] \in Seq({archives'[c][k] : k \in DOMAIN archives'[c]})
    <2> HIDE DEF record, c
    <2>1. /\ Len(archives[c]) \in Nat /\ DOMAIN archives[c] = 1 .. Len(archives[c])
          /\ DOMAIN archives'[c] = 1 .. last
        BY <1>1, <1>3, <1>4, CreateArchiveAppends
    <2>2. DOMAIN archives'[c] = DOMAIN archives[c] \cup {last}
        BY <2>1
    <2> QED BY <1>1, <1>3, <1>4, <2>2, CreateArchiveAppends
<1>6. ArchivesFiled'
    <2> SUFFICES ASSUME NEW d \in Chains
                 PROVE  /\ archives'[d] \in Seq({archives'[d][k] : k \in DOMAIN archives'[d]})
                        /\ \A k \in DOMAIN archives'[d] : archives'[d][k].storageRef \in DOMAIN files'
        BY <1>5 DEF ArchivesFiled
    <2>1. CASE d # c
        BY <1>1, <1>4, <1>5, <2>1 DEF ArchivesFiled
    <2>2. CASE d = c
        <3>1. record.storageRef \in DOMAIN files
            BY <1>2
        <3> HIDE DEF record, c, last
        <3> QED BY <1>1, <1>4, <1>5, <2>2, <3>1 DEF ArchivesFiled
    <2> QED BY <2>1, <2>2
<1>7. ArchivesComplete'
    <2> DEFINE Complete1(a) ==
            /\ {r.seq : r \in files[a.storageRef]} = a.fromSeq .. a.toSeq
            /\ Intact(files[a.storageRef])
            /\ \E r \in files[a.storageRef] : r.seq = a.toSeq /\ r.hash = a.rootHash
    <2>1. \A d \in Chains : \A k \in DOMAIN archives[d] : Complete1(archives[d][k])
        BY DEF RetentionInv, RetentionParts, ArchivesComplete
    <2>2. Complete1(record)
        <3>1. {r.seq : r \in Below(rows, x.bound)} = x.first .. x.bound
            <4>1. \A r \in Below(rows, x.bound) : r.seq \in x.first .. x.bound
                BY <1>3 DEF Below, IsFirst
            <4>2. ASSUME NEW n \in x.first .. x.bound
                  PROVE  \E r \in Below(rows, x.bound) : r.seq = n
                <5>1. \E r \in rows : r.seq = n
                    BY <1>2, <1>3 DEF Contiguous
                <5> QED BY <5>1 DEF Below
            <4> HIDE DEF rows, x
            <4> QED BY <4>1, <4>2
        <3>2. Intact(Below(rows, x.bound))
            <4> HIDE DEF rows, x
            <4> QED BY <1>3, BelowKeepsIntact
        <3>3. \E r \in Below(rows, x.bound) : r.seq = x.bound /\ r.hash = x.root
            BY <1>2, <1>3 DEF Below
        <3> QED BY <1>2, <3>1, <3>2, <3>3
    <2>3. \A d \in Chains : \A k \in DOMAIN archives'[d] : Complete1(archives'[d][k])
        <3> HIDE DEF Complete1, record, last, c
        <3> QED BY <1>3, <1>5, <2>1, <2>2
    <2> QED BY <1>1, <2>3 DEF ArchivesComplete
<1>8. ASSUME NEW d \in Chains, NEW n, d # c \/ n # x.bound
      PROVE  FindAnchor(d, n)' = FindAnchor(d, n)
    BY <1>1, <1>3, <1>4, <1>8, OldAnchors
<1>9. FirstLinked'
    <2> SUFFICES ASSUME NEW d \in Chains, NEW r \in ledger[d], IsFirst(r, ledger[d])
                 PROVE  IF r.seq = 1 THEN r.previousHash = NoHash
                        ELSE Anchors(d, r.seq - 1, r.previousHash)'
        BY <1>1 DEF FirstLinked
    <2>1. IF r.seq = 1 THEN r.previousHash = NoHash ELSE Anchors(d, r.seq - 1, r.previousHash)
        BY DEF RetentionInv, RetentionParts, FirstLinked
    <2>2. d # c \/ r.seq - 1 # x.bound
        BY <1>2, <1>3 DEF IsFirst, Swept
    <2> QED BY <1>8, <2>1, <2>2 DEF Anchors
<1>10. StaleTailsAnchored'
    <2>1. ASSUME NEW w \in Slots, pc[w] = "insert", ledger[ChainOf[task[w]]] = {}
          PROVE  \/ tail[w] = NoRow
                 \/ tail[w].seq > 0 /\ Anchors(ChainOf[task[w]], tail[w].seq, tail[w].hash)'
        <3>1. ChainOf[task[w]] \in Chains \ {c}
            BY <1>3, <2>1, ChainAssumption
               DEF RetentionInv, SafeInv, TypeInv, TypeOK, IngestTypeOK, Swept
        <3>2. \/ tail[w] = NoRow
              \/ tail[w].seq > 0 /\ Anchors(ChainOf[task[w]], tail[w].seq, tail[w].hash)
            BY <2>1 DEF RetentionInv, RetentionParts, StaleTailsAnchored
        <3> QED BY <1>8, <3>1, <3>2 DEF Anchors, ingestVars
    <2> QED BY <1>1, <2>1 DEF StaleTailsAnchored, ingestVars
<1>11. /\ sweep'[s].pc = "emit"
       /\ UNCHANGED << sweep[s].chain, sweep[s].first, sweep[s].start, sweep[s].retained,
                       sweep[s].bound, sweep[s].root >>
    BY <1>1, SweptChain DEF Goto, IdleSweep
<1>12. UNCHANGED << Swept(s), Cutoff(s), Path(s) >>
    BY <1>1, <1>11 DEF Swept, Cutoff, Path
<1>13. SweepHolds(s)'
    <2>1. ReadsHold(s)' /\ BoundHolds(s)'
        BY <1>1, <1>2, <1>11, <1>12 DEF ReadsHold, BoundHolds, BoundFixed
    <2>2. Anchors(c, x.bound, x.root)'
        BY <1>1, <1>3, <1>4, <1>11, NewAnchor DEF Anchors
    <2>3. FileHolds(s)'
        BY <1>1, <1>2, <1>11, <1>12, <2>2 DEF FileHolds, Anchors
    <2> QED BY <2>1, <2>3 DEF SweepHolds
<1>14. \A t \in Sweepers : SweepHolds(t)'
    BY <1>13 DEF OneSweeper
<1>15. ChainsWhole'
    BY <1>1 DEF RetentionInv, RetentionParts, ChainsWhole
<1> QED BY <1>6, <1>7, <1>9, <1>10, <1>14, <1>15 DEF RetentionParts

LEMMA SweepEmitStep ==
    ASSUME OneSweeper, RetentionInv, NEW s \in Sweepers, SweepEmit(s), UNCHANGED ingestVars
    PROVE  RetentionParts'
<1>1. UNCHANGED << ledger, archives, files >> /\ sweep[s].pc = "emit"
    BY DEF SweepEmit
<1>2. /\ sweep'[s].pc = "prune"
      /\ UNCHANGED << sweep[s].chain, sweep[s].first, sweep[s].start, sweep[s].retained,
                      sweep[s].bound, sweep[s].root >>
    BY SweptChain DEF SweepEmit, Goto, IdleSweep
<1>3. UNCHANGED << Swept(s), Cutoff(s), Path(s) >>
    BY <1>1, <1>2 DEF Swept, Cutoff, Path
<1>4. SweepHolds(s)
    BY DEF RetentionInv, RetentionParts
<1>5. ReadsHold(s)' /\ BoundHolds(s)'
    BY <1>1, <1>2, <1>3, <1>4 DEF SweepHolds, ReadsHold, BoundHolds, BoundFixed
<1>6. FileHolds(s)'
    BY <1>1, <1>2, <1>3, <1>4, SameAnchors DEF SweepHolds, FileHolds, BoundFixed, Anchors
<1> QED BY <1>1, <1>5, <1>6, LocalSweepStep DEF RetentionInv, SweepHolds

\* The prune: what is left starts right above the archived segment.
LEMMA SweepPruneStep ==
    ASSUME OneSweeper, RetentionInv, NEW s \in Sweepers, SweepPrune(s), UNCHANGED ingestVars
    PROVE  RetentionParts'
<1> DEFINE c == sweep[s].chain
           rows == Swept(s)
           bound == sweep[s].bound
<1>1. /\ UNCHANGED << archives, files >> /\ sweep[s].pc = "prune"
      /\ PruneUpTo(c, bound) /\ NextChain(s)
    BY DEF SweepPrune
<1>2. /\ c \in Chains /\ bound \in Nat
      /\ Contiguous(rows) /\ IsFiniteSet(rows) /\ Intact(rows)
      /\ \A r \in rows : r.seq \in Nat /\ r.seq # 0
    BY <1>1, SweptChain
<1>3. PICK p \in rows : p.seq = bound
    BY <1>1 DEF RetentionInv, RetentionParts, SweepHolds, BoundHolds, BoundFixed
<1>4. Anchors(c, bound, p.hash)
    BY <1>1, <1>3 DEF RetentionInv, RetentionParts, SweepHolds, FileHolds, BoundFixed
<1>5. /\ ledger'[c] = KeepAbove(rows, bound)
      /\ \A d \in Chains \ {c} : ledger'[d] = ledger[d]
    BY <1>1, <1>2
       DEF PruneUpTo, Swept, RetentionInv, SafeInv, TypeInv, TypeOK, LedgerTypeOK
<1>6. ChainsWhole'
    <2>1. Contiguous(KeepAbove(rows, bound)) /\ IsFiniteSet(KeepAbove(rows, bound))
        <3>1. KeepAbove(rows, bound) \in SUBSET rows
            BY DEF KeepAbove
        <3> HIDE DEF rows, bound
        <3> QED BY <1>2, <3>1, PruneKeepsContiguous, FS_Subset
    <2> QED BY <1>5, <2>1 DEF RetentionInv, RetentionParts, ChainsWhole
<1>7. FirstLinked'
    <2> SUFFICES ASSUME NEW d \in Chains, NEW r \in ledger'[d], IsFirst(r, ledger'[d])
                 PROVE  IF r.seq = 1 THEN r.previousHash = NoHash
                        ELSE Anchors(d, r.seq - 1, r.previousHash)
        BY <1>1, SameAnchors DEF FirstLinked, Anchors
    <2>1. CASE d # c
        BY <1>5, <2>1 DEF RetentionInv, RetentionParts, FirstLinked
    <2>2. CASE d = c
        <3>1. Follows(r, p)
            <4> HIDE DEF rows, bound
            <4> QED BY <1>2, <1>3, <1>5, <2>2, PruneLeavesNext
        <3>2. r.seq = bound + 1 /\ r.previousHash = p.hash
            BY <1>3, <3>1 DEF Follows
        <3>3. bound # 0
            BY <1>2, <1>3
        <3> HIDE DEF bound
        <3> QED BY <1>2, <1>4, <2>2, <3>2, <3>3
    <2> QED BY <2>1, <2>2
<1>8. StaleTailsAnchored'
    <2> SUFFICES ASSUME NEW w \in Slots, pc[w] = "insert", ledger'[ChainOf[task[w]]] = {}
                 PROVE  \/ tail[w] = NoRow
                        \/ tail[w].seq > 0 /\ Anchors(ChainOf[task[w]], tail[w].seq, tail[w].hash)
        BY <1>1, SameAnchors DEF StaleTailsAnchored, Anchors, ingestVars
    <2>1. ChainOf[task[w]] \in Chains
        BY ChainAssumption DEF RetentionInv, SafeInv, TypeInv, TypeOK, IngestTypeOK
    <2>2. CASE ChainOf[task[w]] # c
        BY <1>5, <2>1, <2>2 DEF RetentionInv, RetentionParts, StaleTailsAnchored
    <2>3. CASE ChainOf[task[w]] = c
        <3>1. IsLast(tail[w], rows)
            BY <1>3, <2>3 DEF RetentionInv, SafeInv, TailsFresh, Swept
        <3>2. tail[w] \in rows /\ bound <= tail[w].seq
            BY <1>3, <3>1 DEF IsLast
        <3>3. ~(tail[w].seq > bound)
            BY <1>5, <2>3, <3>2 DEF KeepAbove
        <3>4. tail[w].seq = p.seq /\ tail[w].seq # 0
            BY <1>2, <1>3, <3>2, <3>3
        <3>5. tail[w] = p
            BY <1>2, <3>2, <3>4 DEF Intact, UniqueSeqs
        <3> QED BY <1>2, <1>3, <1>4, <2>3, <3>4, <3>5
    <2> QED BY <2>2, <2>3
<1>9. ArchivesFiled' /\ ArchivesComplete'
    BY <1>1, SameArchives DEF RetentionInv, RetentionParts
<1>10. sweep'[s].pc = "next"
    BY <1>1, SweptChain DEF NextChain, IdleSweep
<1>11. \A t \in Sweepers : SweepHolds(t)'
    BY <1>10, BetweenChains DEF OneSweeper
<1> QED BY <1>6, <1>7, <1>8, <1>9, <1>11 DEF RetentionParts

-----------------------------------------------------------------------------
(* Every step keeps the retention invariant. *)

\* A slot that comes to an insert without being at one has just read the tail.
LEMMA TailsRead ==
    ASSUME TypeInv, [Next]_vars, NEW v \in Slots, pc'[v] = "insert"
    PROVE  \/ pc[v] = "insert" /\ task'[v] = task[v] /\ tail'[v] = tail[v]
           \/ ledger[ChainOf[task'[v]]] = {} => tail'[v] = NoRow
<1> USE DEF TypeInv, TypeOK
<1>1. CASE IngestStep
    <2>1. CASE \E d \in Drafts : Enqueue(d) \/ Stall(d)
        BY <2>1 DEF Enqueue, Stall
    <2>2. ASSUME NEW w \in Slots, (\E d \in Drafts : Take(w, d)) \/ InsertConflict(w) \/ InsertOk(w)
          PROVE  pc[v] = "insert" /\ task'[v] = task[v] /\ tail'[v] = tail[v]
        BY <2>2 DEF Take, InsertConflict, InsertOk, IngestTypeOK
    <2>3. ASSUME NEW w \in Slots, RetriesExhausted(w) \/ DatabaseFails(w) \/ Complete(w)
          PROVE  pc[v] = "insert" /\ task'[v] = task[v] /\ tail'[v] = tail[v]
        <3>1. LeaveSlot(w)
            BY <2>3 DEF RetriesExhausted, DatabaseFails, FailAppend, Complete
        <3> QED BY <3>1 DEF LeaveSlot, IngestTypeOK
    <2>4. ASSUME NEW w \in Slots, ReadTail(w)
          PROVE  \/ pc[v] = "insert" /\ task'[v] = task[v] /\ tail'[v] = tail[v]
                 \/ ledger[ChainOf[task'[v]]] = {} => tail'[v] = NoRow
        <3>1. PICK r \in FindLast(ledger[ChainOf[task[w]]]) : tail' = [tail EXCEPT ![w] = r]
            BY <2>4 DEF ReadTail
        <3>2. pc' = [pc EXCEPT ![w] = "insert"] /\ UNCHANGED task
            BY <2>4 DEF ReadTail
        <3> QED BY <3>1, <3>2 DEF FindLast, IngestTypeOK
    <2> QED BY <1>1, <2>1, <2>2, <2>3, <2>4 DEF IngestStep, SlotStep
<1>2. CASE VerificationStep
    BY <1>2 DEF VerificationStep, MetaAudit, Enqueue, ingestVars
<1>3. CASE \E i \in Instances : Crash(i)
    BY <1>3 DEF Crash, CrashSlots
<1>4. CASE RetentionStep \/ Tick \/ UNCHANGED vars
    BY <1>4 DEF RetentionStep, Tick, vars, ingestVars
<1> QED BY <1>1, <1>2, <1>3, <1>4 DEF Next

\* Only an insert of the workers touches rows, archives, files or sweeps, of
\* all steps but those of the sweeps.
LEMMA OtherStepsQuiet ==
    ASSUME [Next]_vars, ~RetentionStep, ~\E w \in Slots : InsertOk(w)
    PROVE  UNCHANGED << ledger, archives, retentionVars >>
BY DEF Next, IngestStep, SlotStep, Enqueue, Stall, Take, ReadTail, InsertConflict, RetriesExhausted,
       DatabaseFails, FailAppend, Complete, VerificationStep, VerifyStep, VerifyStart, VerifyAnchor,
       VerifyScan, VerifyReturn, Crash, CrashSlots, Tick, vars

\* A step that inserts is a step of the workers.
LEMMA InsertOkAlone ==
    ASSUME TypeInv, [Next]_vars, NEW w \in Slots, InsertOk(w)
    PROVE  /\ UNCHANGED << now, archives, disturbed, retentionVars, verifyVars >>
           /\ ~RetentionStep
<1>1. pc[w] = "insert" /\ pc'[w] = "emit"
    BY DEF InsertOk, TypeInv, TypeOK, IngestTypeOK
<1>2. ~RetentionStep /\ ~VerificationStep /\ ~Tick /\ ~UNCHANGED vars
    BY <1>1 DEF RetentionStep, VerificationStep, MetaAudit, Enqueue, Tick, vars, ingestVars
<1>3. ASSUME NEW i \in Instances PROVE ~Crash(i)
    BY <1>1 DEF Crash, CrashSlots
<1> QED BY <1>2, <1>3 DEF Next, IngestStep

LEMMA NextRetentionInv ==
    OneProcessOnly /\ OneSweeper /\ ArchiveBeforeDelete /\ RetentionInv /\ [Next]_vars
        => RetentionInv'
<1> SUFFICES ASSUME OneProcessOnly, OneSweeper, ArchiveBeforeDelete, RetentionInv, [Next]_vars
             PROVE  RetentionInv'
    OBVIOUS
<1>1. SafeInv'
    BY NextSafeInv DEF RetentionInv
<1>2. TypeInv
    BY DEF RetentionInv, SafeInv
<1>3. CASE \E w \in Slots : InsertOk(w)
    BY <1>1, <1>2, <1>3, InsertOkAlone, InsertOkRetention DEF RetentionInv
<1>4. CASE RetentionStep
    <2>1. UNCHANGED ingestVars
        BY <1>4 DEF RetentionStep
    <2>2. PICK s \in Sweepers : StartSweep(s) \/ SweepStep(s) \/ SweepChainFails(s) \/ CrashSweep(s)
        BY <1>4 DEF RetentionStep
    <2>3. RetentionParts'
        BY <2>1, <2>2, LeaveChainStep, SweepFirstStep, SweepRetainedStep, SweepBoundStep,
           SweepOpenStep, SweepWriteStep, SweepRecordStep, SweepEmitStep, SweepPruneStep
           DEF SweepStep
    <2> QED BY <1>1, <2>3 DEF RetentionInv
<1>5. CASE ~RetentionStep /\ ~\E w \in Slots : InsertOk(w)
    BY <1>1, <1>2, <1>5, OtherStepsQuiet, TailsRead, QuietStep DEF RetentionInv
<1> QED BY <1>3, <1>4, <1>5

LEMMA InitRetentionInv == Init => RetentionInv
<1> SUFFICES ASSUME Init PROVE RetentionInv
    OBVIOUS
<1>1. ChainsWhole
    BY FS_EmptySet DEF Init, ChainsWhole, Contiguous
<1>2. ArchivesFiled /\ ArchivesComplete
    <2>1. \A c \in Chains : archives[c] = << >> /\ DOMAIN archives[c] = {}
        BY DEF Init
    <2> QED BY <2>1, EmptySeq DEF Init, ArchivesFiled, ArchivesComplete
<1>3. FirstLinked /\ StaleTailsAnchored
    BY DEF Init, IngestInit, FirstLinked, StaleTailsAnchored
<1>4. \A s \in Sweepers : SweepHolds(s)
    BY DEF Init, RetentionInit, IdleSweep, SweepHolds, ReadsHold, BoundHolds, FileHolds, BoundFixed
<1> QED BY <1>1, <1>2, <1>3, <1>4, InitSafeInv DEF RetentionInv, RetentionParts

\* The retention invariant holds always, for one process and one sweep at a time.
LEMMA RetentionInvariant ==
    ASSUME OneProcessOnly, OneSweeper, ArchiveBeforeDelete
    PROVE  Spec => []RetentionInv
<1>1. RetentionInv /\ [Next]_vars => RetentionInv'
    BY NextRetentionInv
<1> QED BY <1>1, InitRetentionInv, PTL DEF Spec

\* Every archive record names a file that holds its whole segment, and its
\* root hash is the hash of the segment's last row: what createArchive
\* promises, whatever is appended while the file is written and wherever the
\* sweep fails or its process dies.
THEOREM OneSweepArchivesComplete ==
    ASSUME OneProcessOnly, OneSweeper, ArchiveBeforeDelete
    PROVE  Spec => []ArchivesComplete
<1>1. RetentionInv => ArchivesComplete
    BY DEF RetentionInv, RetentionParts
<1> QED BY <1>1, RetentionInvariant, PTL

\* What a step removes from the ledger is in the file of the sweep.
LEMMA PrunedIsArchived ==
    ASSUME OneSweeper, RetentionInv, [Next]_vars, NEW c \in Chains
    PROVE  LET pruned == ledger[c] \ ledger'[c]
           IN  /\ pruned \subseteq Archived(c)
               /\ \A s \in Sweepers :
                     sweep[s].pc = "prune" /\ sweep[s].retained # 0 /\ sweep[s].chain = c =>
                         \A r \in pruned : r.at < Cutoff(s)
<1> DEFINE pruned == ledger[c] \ ledger'[c]
<1>1. CASE \E s \in Sweepers : SweepPrune(s) /\ sweep[s].chain = c
    <2>1. PICK s \in Sweepers : SweepPrune(s) /\ sweep[s].chain = c
        BY <1>1
    <2>2. /\ sweep[s].pc = "prune" /\ sweep[s].bound \in Nat
          /\ ledger' = [ledger EXCEPT ![c] = KeepAbove(@, sweep[s].bound)]
        BY <2>1, SweptChain DEF SweepPrune, PruneUpTo
    <2>3. \A r \in ledger[c] : r.seq \in Nat
        BY DEF RetentionInv, SafeInv, TypeInv, TypeOK, LedgerTypeOK
    <2>4. pruned = Below(Swept(s), sweep[s].bound)
        BY <2>1, <2>2, <2>3
           DEF Swept, Below, KeepAbove, RetentionInv, SafeInv, TypeInv, TypeOK, LedgerTypeOK
    <2>5. Path(s) \in DOMAIN files /\ Path(s)[1] = c /\ files[Path(s)] = pruned
        BY <2>1, <2>2, <2>4
           DEF RetentionInv, RetentionParts, SweepHolds, FileHolds, BoundFixed, Path
    <2>6. sweep[s].retained # 0 => \A r \in pruned : r.at < Cutoff(s)
        <3>1. sweep[s].retained # 0 =>
                  /\ sweep[s].bound < sweep[s].retained
                  /\ \A r \in Swept(s) : r.seq < sweep[s].retained => r.at < Cutoff(s)
            BY <2>2 DEF RetentionInv, RetentionParts, SweepHolds, ReadsHold, BoundHolds, BoundFixed
        <3>2. sweep[s].retained \in Nat /\ \A r \in Swept(s) : r.seq \in Nat
            BY <2>2, SweptChain
        <3> HIDE DEF pruned
        <3> QED BY <2>2, <2>4, <3>1, <3>2 DEF Below
    <2> HIDE DEF pruned
    <2>7. pruned \subseteq Archived(c)
        BY <2>5 DEF Archived
    <2> USE DEF pruned
    <2> QED BY <2>6, <2>7 DEF OneSweeper
<1>2. CASE ~\E s \in Sweepers : SweepPrune(s) /\ sweep[s].chain = c
    <2>1. pruned = {}
        <3>1. CASE \E w \in Slots : InsertOk(w)
            BY <3>1, InsertOkOnTop DEF RetentionInv
        <3>2. CASE RetentionStep
            <4>1. PICK s \in Sweepers :
                      StartSweep(s) \/ SweepStep(s) \/ SweepChainFails(s) \/ CrashSweep(s)
                BY <3>2 DEF RetentionStep
            <4>2. CASE SweepPrune(s)
                BY <1>2, <4>2 DEF SweepPrune, PruneUpTo, RetentionInv, SafeInv, TypeInv, TypeOK, LedgerTypeOK
            <4>3. CASE ~SweepPrune(s)
                BY <4>1, <4>3 DEF StartSweep, SweepStep, SweepFirst, SweepRetained, SweepBound,
                    SweepOpen, SweepWrite, SweepRecord, SweepEmit, SweepEnd, SweepChainFails, CrashSweep
            <4> QED BY <4>2, <4>3
        <3>3. CASE ~RetentionStep /\ ~\E w \in Slots : InsertOk(w)
            BY <3>3, OtherStepsQuiet
        <3> QED BY <3>1, <3>2, <3>3
    <2> QED BY <2>1
<1> QED BY <1>1, <1>2

\* No row leaves the ledger before an archive file holds it, and a sweep that
\* saw an entry inside the window prunes only expired entries.
THEOREM OneSweepPrunesSafely ==
    ASSUME OneProcessOnly, OneSweeper, ArchiveBeforeDelete
    PROVE  Spec => PrunesAreSafe
<1>1. RetentionInv /\ [Next]_vars =>
          [\A c \in Chains : LET pruned == ledger[c] \ ledger'[c]
           IN  /\ pruned \subseteq Archived(c)
               /\ \A s \in Sweepers :
                     sweep[s].pc = "prune" /\ sweep[s].retained # 0 /\ sweep[s].chain = c =>
                         \A r \in pruned : r.at < Cutoff(s)]_vars
    BY PrunedIsArchived
<1> QED BY <1>1, RetentionInvariant, PTL DEF Spec, PrunesAreSafe

-----------------------------------------------------------------------------
(* Verification. *)

\* verify() finds nothing broken in a page that starts right after `previous`
\* and has no gap, when the first row of the chain is linked to the anchor.
LEMMA PageIsValid ==
    ASSUME NEW rows, Contiguous(rows), Intact(rows), \A r \in rows : r.seq \in Nat /\ r.seq # 0,
           NEW page \in SUBSET rows, NEW previous, NEW anchor,
           previous = NoRow \/ previous \in rows,
           \A q \in page : previous.seq < q.seq,
           \A q \in page, r \in rows : previous.seq < r.seq /\ r.seq <= q.seq => r \in page,
           previous = NoRow => \A r \in rows : IsFirst(r, rows) =>
               IF r.seq = 1 THEN r.previousHash = NoHash
               ELSE anchor = [toSeq |-> r.seq - 1, rootHash |-> r.previousHash]
    PROVE  BrokenIn(page, previous, anchor) = {}
<1> SUFFICES ASSUME NEW r \in page PROVE EntryOk(r, Before(r, page, previous), anchor)
    BY DEF BrokenIn
<1> DEFINE below == {q \in page : q.seq < r.seq}
<1>1. r \in rows /\ r.seq \in Nat /\ r.seq # 0 /\ ContentOk(r) /\ previous.seq \in Nat
    BY DEF Intact, NoRow
<1>2. CASE below # {}
    <2>1. PICK q \in page : q.seq < r.seq
        BY <1>2
    <2>2. PICK p \in rows : Follows(r, p)
        BY <1>1, <2>1 DEF Intact, Linked
    <2>3. r.seq = p.seq + 1 /\ p.seq \in Nat /\ p.seq # 0 /\ q.seq <= p.seq
        BY <1>1, <2>1, <2>2 DEF Follows
    <2>4. p \in below
        BY <1>1, <2>1, <2>3
    <2>5. IsLast(p, below)
        BY <1>1, <2>3, <2>4 DEF IsLast
    <2>6. \A x \in below : IsLast(x, below) => x = p
        BY <2>4, <2>5 DEF IsLast, Intact, UniqueSeqs
    <2>7. Before(r, page, previous) = p
        <3>1. Before(r, page, previous) = CHOOSE x \in below : IsLast(x, below)
            BY <1>2 DEF Before
        <3> HIDE DEF below
        <3> QED BY <2>4, <2>5, <2>6, <3>1
    <2>8. p # NoRow
        BY <2>3 DEF NoRow
    <2> QED BY <1>1, <2>2, <2>7, <2>8 DEF EntryOk
<1>3. CASE below = {}
    <2>1. Before(r, page, previous) = previous
        BY <1>3 DEF Before
    <2>2. CASE previous = NoRow
        <3>1. IsFirst(r, rows)
            <4>1. \A x \in rows : x.seq < r.seq => x \in below
                BY <1>1, <2>2 DEF NoRow
            <4> QED BY <1>1, <1>3, <4>1 DEF IsFirst
        <3>2. IF r.seq = 1 THEN r.previousHash = NoHash
              ELSE anchor = [toSeq |-> r.seq - 1, rootHash |-> r.previousHash]
            BY <1>1, <2>2, <3>1
        <3>3. r.seq # 1 => anchor # NoAnchor
            BY <1>1, <3>2 DEF NoAnchor
        <3> QED BY <1>1, <2>1, <2>2, <3>2, <3>3 DEF EntryOk
    <2>3. CASE previous # NoRow
        <3>1. previous \in rows /\ previous.seq < r.seq
            BY <2>3
        <3>2. PICK p \in rows : p.seq = r.seq - 1
            BY <1>1, <3>1 DEF Contiguous
        <3>3. p.seq = previous.seq
            <4>1. ~(previous.seq < p.seq)
                BY <1>1, <1>3, <3>2
            <4> QED BY <1>1, <3>1, <3>2, <4>1
        <3>4. Follows(r, previous)
            BY <1>1, <3>1, <3>2, <3>3, FollowsBelow
        <3> QED BY <1>1, <2>1, <2>3, <3>4 DEF EntryOk
    <2> QED BY <2>2, <2>3
<1> QED BY <1>2, <1>3

LEMMA ChainVerifies ==
    ASSUME RetentionInv
    PROVE  SurvivingChainVerifies
<1> SUFFICES ASSUME NEW c \in Chains, NEW first \in FirstSeq(ledger[c])
             PROVE  BrokenIn(ledger[c], NoRow, FindAnchor(c, first - 1)) = {}
    BY DEF SurvivingChainVerifies
<1> DEFINE rows == ledger[c]
           anchor == FindAnchor(c, first - 1)
<1>1. Contiguous(rows) /\ Intact(rows) /\ \A r \in rows : r.seq \in Nat /\ r.seq # 0
    BY DEF RetentionInv, RetentionParts, ChainsWhole, SafeInv, ChainsIntact, TypeInv, TypeOK, LedgerTypeOK
<1>2. \A r \in rows : IsFirst(r, rows) =>
          IF r.seq = 1 THEN r.previousHash = NoHash
          ELSE anchor = [toSeq |-> r.seq - 1, rootHash |-> r.previousHash]
    <2> SUFFICES ASSUME NEW r \in rows, IsFirst(r, rows), r.seq # 1
                 PROVE  anchor = [toSeq |-> r.seq - 1, rootHash |-> r.previousHash]
        BY DEF RetentionInv, RetentionParts, FirstLinked
    <2>1. r.seq = first
        BY <1>1 DEF FirstSeq, IsFirst
    <2> QED BY <2>1 DEF RetentionInv, RetentionParts, FirstLinked, Anchors
<1> HIDE DEF rows, anchor
<1>3. \A q \in rows : NoRow.seq < q.seq
    BY <1>1 DEF NoRow
<1>4. BrokenIn(rows, NoRow, anchor) = {}
    BY <1>1, <1>2, <1>3, PageIsValid
<1> QED BY <1>4 DEF rows, anchor

\* At every moment an undisturbed verifyChain finds the surviving chain valid:
\* its first row starts at seq 1 or links to the newest archive that ends
\* right below it.
THEOREM OneSweepChainVerifies ==
    ASSUME OneProcessOnly, OneSweeper, ArchiveBeforeDelete
    PROVE  Spec => []SurvivingChainVerifies
BY RetentionInvariant, ChainVerifies, PTL

\* A verification that began on a chain with rows, and from whose chain no row
\* was pruned since, has seen what is still there.
ScanHolds(v) ==
    LET x == verifier[v]
        rows == ledger[x.chain]
    IN  x.pc # "idle" /\ v \notin disturbed /\ x.first # 0 =>
            /\ x.chain \in Chains /\ x.valid
            /\ \E r \in rows : /\ IsFirst(r, rows) /\ r.seq = x.first
                               /\ x.pc # "anchor" /\ x.first > 1 =>
                                     x.anchor = [toSeq |-> x.first - 1, rootHash |-> r.previousHash]
            /\ x.previous = NoRow \/ x.previous \in rows

VerifyFields ==
    /\ DOMAIN verifier = Verifiers
    /\ \A v \in Verifiers : DOMAIN verifier[v] = DOMAIN IdleVerify

ScanInv == RetentionInv /\ VerifyFields /\ \A v \in Verifiers : ScanHolds(v)

\* A verification that neither moves nor loses a row of its chain.
LEMMA ScanUndisturbed ==
    ASSUME NEW v \in Verifiers, ScanHolds(v), UNCHANGED verifier[v],
           v \notin disturbed' => v \notin disturbed,
           verifier[v].chain \in Chains /\ v \notin disturbed' =>
               LET rows == ledger[verifier[v].chain]
                   rowsNext == ledger'[verifier[v].chain]
               IN  rows \subseteq rowsNext /\ \A r \in rows : IsFirst(r, rows) => IsFirst(r, rowsNext)
    PROVE  ScanHolds(v)'
<1> DEFINE x == verifier[v]
           rows == ledger[x.chain]
           rowsNext == ledger'[x.chain]
<1> SUFFICES ASSUME x.pc # "idle", v \notin disturbed', x.first # 0
             PROVE  /\ x.chain \in Chains /\ x.valid
                    /\ \E r \in rowsNext :
                           /\ IsFirst(r, rowsNext) /\ r.seq = x.first
                           /\ x.pc # "anchor" /\ x.first > 1 =>
                                 x.anchor = [toSeq |-> x.first - 1, rootHash |-> r.previousHash]
                    /\ x.previous = NoRow \/ x.previous \in rowsNext
    BY DEF ScanHolds
<1>1. /\ x.chain \in Chains /\ x.valid
      /\ \E r \in rows : /\ IsFirst(r, rows) /\ r.seq = x.first
                         /\ x.pc # "anchor" /\ x.first > 1 =>
                               x.anchor = [toSeq |-> x.first - 1, rootHash |-> r.previousHash]
      /\ x.previous = NoRow \/ x.previous \in rows
    BY DEF ScanHolds
<1>2. rows \subseteq rowsNext /\ \A r \in rows : IsFirst(r, rows) => IsFirst(r, rowsNext)
    BY <1>1
<1> HIDE DEF x, rows, rowsNext
<1> QED BY <1>1, <1>2

\* The reads of a verification.
LEMMA VerifyReads ==
    ASSUME ScanInv, NEW v \in Verifiers, (\E c \in Chains : VerifyStart(v, c)) \/ VerifyAnchor(v),
           disturbed' = {u \in disturbed : verifier'[u].pc # "idle"}
    PROVE  ScanHolds(v)'
<1> USE DEF ScanInv
<1>1. ASSUME NEW c \in Chains, VerifyStart(v, c) PROVE ScanHolds(v)'
    <2>1. PICK first \in FirstSeq(ledger[c]) :
              verifier' = [verifier EXCEPT ![v] = [IdleVerify EXCEPT !.chain = c, !.first = first,
                                !.pc = IF first > 1 THEN "anchor" ELSE "scan"]]
        BY <1>1 DEF VerifyStart
    <2>2. /\ verifier'[v].chain = c /\ verifier'[v].first = first
          /\ verifier'[v].pc = IF first > 1 THEN "anchor" ELSE "scan"
          /\ verifier'[v].valid = TRUE /\ verifier'[v].previous = NoRow
        BY <2>1 DEF VerifyFields, IdleVerify
    <2>3. first # 0 => \E r \in ledger[c] : IsFirst(r, ledger[c]) /\ r.seq = first
        BY DEF FirstSeq
    <2>4. UNCHANGED ledger
        BY <1>1 DEF VerifyStart
    <2> QED BY <2>2, <2>3, <2>4 DEF ScanHolds
<1>2. CASE VerifyAnchor(v)
    <2> DEFINE x == verifier[v]
    <2>1. /\ x.pc = "anchor" /\ UNCHANGED ledger
          /\ verifier'[v].anchor = FindAnchor(x.chain, x.first - 1) /\ verifier'[v].pc = "scan"
          /\ UNCHANGED << verifier[v].chain, verifier[v].first, verifier[v].valid,
                          verifier[v].previous >>
        BY <1>2 DEF VerifyAnchor, VerifyFields, IdleVerify
    <2>2. v \notin disturbed' => v \notin disturbed
        BY <2>1
    <2>3. ScanHolds(v)
        OBVIOUS
    <2>4. \A r \in ledger[x.chain] :
              x.chain \in Chains /\ IsFirst(r, ledger[x.chain]) /\ r.seq > 1 =>
                  FindAnchor(x.chain, r.seq - 1) = [toSeq |-> r.seq - 1, rootHash |-> r.previousHash]
        BY DEF RetentionInv, RetentionParts, FirstLinked, Anchors
    <2> QED BY <2>1, <2>2, <2>3, <2>4 DEF ScanHolds
<1> QED BY <1>1, <1>2

\* A batch of the scan: nothing in it is broken.
LEMMA ScanStep ==
    ASSUME ScanInv, NEW v \in Verifiers, VerifyScan(v),
           disturbed' = {u \in disturbed : verifier'[u].pc # "idle"}
    PROVE  ScanHolds(v)'
<1> USE DEF ScanInv
<1> DEFINE x == verifier[v]
           rows == ledger[x.chain]
           page == Page(rows, x.previous.seq, VerifyBatch)
           broken == BrokenIn(page, x.previous, x.anchor)
<1>1. /\ x.pc = "scan" /\ UNCHANGED ledger
      /\ \/ \E seq \in FirstSeq(broken) \ {0} :
               verifier' = [verifier EXCEPT ![v].pc = "done", ![v].valid = FALSE, ![v].brokenSeq = seq]
         \/ verifier' = [verifier EXCEPT ![v].pc = "done"]
         \/ \E r \in page : verifier' = [verifier EXCEPT ![v].previous = r]
    BY DEF VerifyScan
<1>2. UNCHANGED << verifier[v].chain, verifier[v].first, verifier[v].anchor >> /\ verifier'[v].pc # "idle"
    BY <1>1 DEF VerifyFields, IdleVerify
<1>3. CASE v \in disturbed' \/ x.first = 0
    BY <1>2, <1>3 DEF ScanHolds
<1>4. CASE v \notin disturbed' /\ x.first # 0
    <2>1. /\ x.chain \in Chains /\ x.valid
          /\ \E r \in rows : /\ IsFirst(r, rows) /\ r.seq = x.first
                             /\ x.first > 1 =>
                                   x.anchor = [toSeq |-> x.first - 1, rootHash |-> r.previousHash]
          /\ x.previous = NoRow \/ x.previous \in rows
        BY <1>1, <1>2, <1>4 DEF ScanHolds
    <2>2. Contiguous(rows) /\ IsFiniteSet(rows) /\ Intact(rows) /\ \A r \in rows : r.seq \in Nat /\ r.seq # 0
        BY <2>1 DEF RetentionInv, RetentionParts, ChainsWhole, SafeInv, ChainsIntact, TypeInv, TypeOK,
                    LedgerTypeOK
    <2>3. \A r \in rows : IsFirst(r, rows) =>
              IF r.seq = 1 THEN r.previousHash = NoHash
              ELSE x.anchor = [toSeq |-> r.seq - 1, rootHash |-> r.previousHash]
        <3> SUFFICES ASSUME NEW r \in rows, IsFirst(r, rows)
                     PROVE  IF r.seq = 1 THEN r.previousHash = NoHash
                            ELSE x.anchor = [toSeq |-> r.seq - 1, rootHash |-> r.previousHash]
            OBVIOUS
        <3>1. r.seq = 1 => r.previousHash = NoHash
            BY <2>1 DEF RetentionInv, RetentionParts, FirstLinked
        <3>2. PICK q \in rows : /\ IsFirst(q, rows) /\ q.seq = x.first
                                /\ x.first > 1 =>
                                      x.anchor = [toSeq |-> x.first - 1, rootHash |-> q.previousHash]
            BY <2>1
        <3>3. q = r
            BY <2>2, <3>2 DEF IsFirst, Intact, UniqueSeqs
        <3> HIDE DEF rows, x
        <3> QED BY <2>2, <3>1, <3>2, <3>3
    <2>4. page \in SUBSET rows /\ x.previous.seq \in Int /\ \A q \in page : x.previous.seq < q.seq
        BY <2>1, <2>2 DEF Page, NoRow
    <2>5. \A q \in page, r \in rows : x.previous.seq < r.seq /\ r.seq <= q.seq => r \in page
        <3>1. VerifyBatch \in Nat \ {0}
            BY VerifyAssumption
        <3> HIDE DEF rows, x
        <3> QED BY <2>2, <2>4, <3>1, PageHasNoGap
    <2>6. broken = {}
        <3> HIDE DEF rows, x, page
        <3> QED BY <2>1, <2>2, <2>3, <2>4, <2>5, PageIsValid
    <2>7. \/ verifier' = [verifier EXCEPT ![v].pc = "done"]
          \/ \E r \in page : verifier' = [verifier EXCEPT ![v].previous = r]
        <3>1. FirstSeq(broken) \ {0} = {}
            BY <2>6 DEF FirstSeq
        <3> QED BY <1>1, <3>1
    <2>8. verifier'[v].valid = x.valid /\ (verifier'[v].previous = x.previous \/ verifier'[v].previous \in page)
        <3> HIDE DEF page
        <3> QED BY <2>7 DEF VerifyFields, IdleVerify
    <2> QED BY <1>1, <1>2, <2>1, <2>4, <2>8 DEF ScanHolds
<1> QED BY <1>3, <1>4

LEMMA NextScanInv ==
    OneProcessOnly /\ OneSweeper /\ ArchiveBeforeDelete /\ ScanInv /\ [Next]_vars => ScanInv'
<1> SUFFICES ASSUME OneProcessOnly, OneSweeper, ArchiveBeforeDelete, ScanInv, [Next]_vars
             PROVE  ScanInv'
    OBVIOUS
<1> USE DEF ScanInv
<1>1. RetentionInv'
    BY NextRetentionInv
<1>2. ASSUME NEW v \in Verifiers, UNCHANGED << ledger, verifier >>,
             v \notin disturbed' => v \notin disturbed
      PROVE  ScanHolds(v)'
    BY <1>2, ScanUndisturbed
<1>3. CASE \E w \in Slots : InsertOk(w)
    <2>1. PICK w \in Slots : InsertOk(w)
        BY <1>3
    <2>2. UNCHANGED << disturbed, verifier >>
        BY <2>1, InsertOkAlone DEF RetentionInv, SafeInv, verifyVars
    <2>3. ASSUME NEW v \in Verifiers, verifier[v].chain \in Chains
          PROVE  LET rows == ledger[verifier[v].chain]
                     rowsNext == ledger'[verifier[v].chain]
                 IN  rows \subseteq rowsNext /\ \A r \in rows : IsFirst(r, rows) => IsFirst(r, rowsNext)
        <3> DEFINE row == NextRow(w)
                   c == ChainOf[task[w]]
                   rows == ledger[verifier[v].chain]
        <3>1. \/ ledger'[verifier[v].chain] = rows
              \/ ledger'[verifier[v].chain] = rows \cup {row} /\ \A r \in rows : r.seq <= row.seq
            <4>1. /\ ledger'[c] = ledger[c] \cup {row}
                  /\ \A d \in Chains \ {c} : ledger'[d] = ledger[d]
                  /\ row.seq \in Nat
                  /\ \A r \in ledger[c] : r.seq \in Nat /\ r.seq < row.seq
                BY <2>1, InsertOkOnTop DEF RetentionInv
            <4> HIDE DEF row, c
            <4> QED BY <2>3, <4>1
        <3> HIDE DEF row
        <3> QED BY <3>1 DEF IsFirst
    <2>4. ASSUME NEW v \in Verifiers PROVE ScanHolds(v)'
        BY <2>2, <2>3, ScanUndisturbed
    <2> QED BY <1>1, <2>2, <2>4 DEF VerifyFields
<1>4. CASE RetentionStep
    <2>1. UNCHANGED verifier
        BY <1>4 DEF RetentionStep, verifyVars
    <2>2. ASSUME NEW v \in Verifiers PROVE ScanHolds(v)'
        <3>1. CASE verifier[v].pc = "idle"
            BY <2>1, <3>1 DEF ScanHolds
        <3>2. CASE verifier[v].pc # "idle"
            <4>1. v \notin disturbed' =>
                      v \notin disturbed /\ ledger'[verifier[v].chain] = ledger[verifier[v].chain]
                BY <1>4, <3>2 DEF RetentionStep
            <4> QED BY <2>1, <4>1, ScanUndisturbed
        <3> QED BY <3>1, <3>2
    <2> QED BY <1>1, <2>1, <2>2 DEF VerifyFields
<1>5. CASE VerificationStep
    <2>1. PICK v \in Verifiers : VerifyStep(v) \/ VerifyReturn(v)
        BY <1>5 DEF VerificationStep
    <2>2. /\ disturbed' = {u \in disturbed : verifier'[u].pc # "idle"} /\ UNCHANGED ledger
        BY <1>5 DEF VerificationStep, VerifyStep, VerifyStart, VerifyAnchor, VerifyScan, VerifyReturn
    <2>3. VerifyFields' /\ \A u \in Verifiers \ {v} : verifier'[u] = verifier[u]
        BY <2>1 DEF VerifyStep, VerifyStart, VerifyAnchor, VerifyScan, VerifyReturn, VerifyFields, IdleVerify
    <2>4. ScanHolds(v)'
        <3>1. CASE VerifyReturn(v)
            <4>1. verifier'[v].pc = "idle"
                BY <3>1 DEF VerifyReturn, VerifyFields, IdleVerify
            <4> QED BY <4>1 DEF ScanHolds
        <3> QED BY <2>1, <2>2, <3>1, VerifyReads, ScanStep DEF VerifyStep
    <2>5. ASSUME NEW u \in Verifiers \ {v} PROVE ScanHolds(u)'
        <3>1. CASE verifier[u].pc = "idle"
            BY <2>3, <3>1 DEF ScanHolds
        <3>2. CASE verifier[u].pc # "idle"
            BY <2>2, <2>3, <3>2, ScanUndisturbed
        <3> QED BY <3>1, <3>2
    <2> QED BY <1>1, <2>3, <2>4, <2>5
<1>6. CASE /\ ~RetentionStep /\ ~VerificationStep /\ ~\E w \in Slots : InsertOk(w)
    <2>1. UNCHANGED ledger
        BY <1>6, OtherStepsQuiet
    <2>2. UNCHANGED << verifier, disturbed >>
        BY <1>6 DEF Next, IngestStep, Crash, Tick, vars, verifyVars
    <2> QED BY <1>1, <1>2, <2>1, <2>2 DEF VerifyFields
<1> QED BY <1>3, <1>4, <1>5, <1>6

\* The real verification, with its reads spread out, reports a broken chain
\* only when a sweep pruned the chain while it ran, or when it began on an
\* empty chain.
THEOREM OneSweepBrokenOnlyWhenPruned ==
    ASSUME OneProcessOnly, OneSweeper, ArchiveBeforeDelete
    PROVE  Spec => []BrokenOnlyWhenPruned
<1>1. Init => ScanInv
    <2>1. Init => VerifyFields /\ \A v \in Verifiers : ScanHolds(v)
        BY DEF Init, VerifyInit, VerifyFields, IdleVerify, ScanHolds
    <2> QED BY <2>1, InitRetentionInv DEF ScanInv
<1>2. ScanInv /\ [Next]_vars => ScanInv'
    BY NextScanInv
<1>3. ScanInv => BrokenOnlyWhenPruned
    BY DEF ScanInv, ScanHolds, BrokenOnlyWhenPruned
<1> QED BY <1>1, <1>2, <1>3, PTL DEF Spec

-----------------------------------------------------------------------------
(* What the ledger and the archives hold together.                          *)

Kept(c) == ledger[c] \cup Archived(c)

\* Every seq, wherever it went: only an insert adds to what is kept.
LEMMA KeptGrowsByInserts ==
    ASSUME TypeInv, [Next]_vars, NEW c \in Chains
    PROVE  \/ Kept(c)' \subseteq Kept(c)
           \/ \E w \in Slots : /\ InsertOk(w) /\ ChainOf[task[w]] = c
                               /\ Kept(c)' = Kept(c) \cup {NextRow(w)}
<1> USE DEF TypeInv, TypeOK
<1>1. ASSUME NEW w \in Slots, InsertOk(w)
      PROVE  \/ Kept(c)' \subseteq Kept(c)
             \/ ChainOf[task[w]] = c /\ Kept(c)' = Kept(c) \cup {NextRow(w)}
    <2>1. UNCHANGED files
        BY <1>1, InsertOkAlone DEF retentionVars
    <2>2. ledger' = [ledger EXCEPT ![ChainOf[task[w]]] = @ \cup {NextRow(w)}]
        BY <1>1 DEF InsertOk, AppendRow
    <2>3. ledger'[c] = IF ChainOf[task[w]] = c THEN ledger[c] \cup {NextRow(w)} ELSE ledger[c]
        BY <2>2 DEF LedgerTypeOK
    <2>4. UNCHANGED Archived(c)
        BY <2>1 DEF Archived
    <2> QED BY <2>3, <2>4 DEF Kept
<1>2. CASE RetentionStep
    <2>1. PICK s \in Sweepers : StartSweep(s) \/ SweepStep(s) \/ SweepChainFails(s) \/ CrashSweep(s)
        BY <1>2 DEF RetentionStep
    <2>2. CASE SweepOpen(s)
        <3>1. /\ UNCHANGED ledger
              /\ \/ UNCHANGED files
                 \/ files' = [p \in DOMAIN files \cup {Path(s)} |-> IF p = Path(s) THEN {} ELSE files[p]]
            BY <2>2 DEF SweepOpen
        <3>2. Archived(c)' \subseteq Archived(c)
            BY <3>1 DEF Archived
        <3> QED BY <3>1, <3>2 DEF Kept
    <2>3. CASE SweepWrite(s)
        <3> DEFINE page == Page({r \in Swept(s) : r.seq <= sweep[s].bound}, sweep[s].cursor, ExportBatch)
        <3>1. /\ UNCHANGED ledger
              /\ UNCHANGED files \/ files' = [files EXCEPT ![Path(s)] = @ \cup page]
            BY <2>3 DEF SweepWrite
        <3>2. page \subseteq ledger[Path(s)[1]]
            BY DEF Page, Swept, Path
        <3> HIDE DEF page
        <3>3. \A p \in DOMAIN files' : p \in DOMAIN files /\ files'[p] \subseteq files[p] \cup ledger[p[1]]
            BY <3>1, <3>2
        <3>4. Archived(c)' \subseteq Archived(c) \cup ledger[c]
            BY <3>3 DEF Archived
        <3> QED BY <3>1, <3>4 DEF Kept
    <2>4. CASE SweepPrune(s)
        <3>1. UNCHANGED files /\ ledger'[c] \subseteq ledger[c]
            BY <2>4 DEF SweepPrune, PruneUpTo, KeepAbove, LedgerTypeOK
        <3>2. UNCHANGED Archived(c)
            BY <3>1 DEF Archived
        <3> QED BY <3>1, <3>2 DEF Kept
    <2>5. CASE ~SweepOpen(s) /\ ~SweepWrite(s) /\ ~SweepPrune(s)
        <3>1. UNCHANGED << ledger, files >>
            BY <2>1, <2>5 DEF StartSweep, SweepStep, SweepFirst, SweepRetained, SweepBound, SweepRecord,
                              SweepEmit, SweepEnd, SweepChainFails, CrashSweep
        <3> QED BY <3>1 DEF Kept, Archived
    <2> QED BY <2>2, <2>3, <2>4, <2>5
<1>3. CASE ~RetentionStep /\ ~\E w \in Slots : InsertOk(w)
    BY <1>3, OtherStepsQuiet DEF Kept, Archived, retentionVars
<1> QED BY <1>1, <1>2, <1>3

\* With one sweep at a time nothing that is kept is ever lost.
LEMMA KeptIsKept ==
    ASSUME OneSweeper, RetentionInv, [Next]_vars, NEW c \in Chains
    PROVE  Kept(c) \subseteq Kept(c)'
<1>1. \A p \in DOMAIN files : p \in DOMAIN files' /\ files[p] \subseteq files'[p]
    <2>1. CASE RetentionStep
        <3>1. PICK s \in Sweepers :
                  StartSweep(s) \/ SweepStep(s) \/ SweepChainFails(s) \/ CrashSweep(s)
            BY <2>1 DEF RetentionStep
        <3>2. CASE SweepOpen(s)
            BY <3>2 DEF SweepOpen
        <3>3. CASE SweepWrite(s)
            BY <3>3 DEF SweepWrite
        <3>4. CASE ~SweepOpen(s) /\ ~SweepWrite(s)
            BY <3>1, <3>4 DEF StartSweep, SweepStep, SweepFirst, SweepRetained, SweepBound,
                              SweepRecord, SweepEmit, SweepPrune, SweepEnd, SweepChainFails, CrashSweep
        <3> QED BY <3>2, <3>3, <3>4
    <2>2. CASE \E w \in Slots : InsertOk(w)
        BY <2>2, InsertOkAlone DEF RetentionInv, SafeInv, retentionVars
    <2>3. CASE ~RetentionStep /\ ~\E w \in Slots : InsertOk(w)
        BY <2>3, OtherStepsQuiet DEF retentionVars
    <2> QED BY <2>1, <2>2, <2>3
<1>2. Archived(c) \subseteq Archived(c)'
    BY <1>1 DEF Archived
<1>3. ledger[c] \ ledger'[c] \subseteq Archived(c)
    BY PrunedIsArchived
<1> QED BY <1>2, <1>3 DEF Kept

\* A job that completed, or is about to, left its entry behind.
EntryKept ==
    \A d \in Drafts :
        job[d] = "completed" \/ (\E w \in Slots : task[w] = d /\ pc[w] = "emit") =>
            \E r \in Kept(ChainOf[d]) : r.draft = d

\* Which step brings a job to its emit, and which completes it.
LEMMA EmitStep ==
    ASSUME TypeInv, [Next]_vars, NEW d \in Drafts
    PROVE  /\ \A w \in Slots : task'[w] = d /\ pc'[w] = "emit" =>
                  task[w] = d /\ (pc[w] = "emit" \/ InsertOk(w))
           /\ job'[d] = "completed" =>
                  job[d] = "completed" \/ \E w \in Slots : task[w] = d /\ pc[w] = "emit"
<1> USE DEF TypeInv, TypeOK
<1>1. CASE IngestStep
    <2>1. ASSUME NEW e \in Drafts, Enqueue(e) \/ Stall(e)
          PROVE  UNCHANGED << pc, task >> /\ (job'[d] = "completed" => job[d] = "completed")
        BY <2>1 DEF Enqueue, Stall, IngestTypeOK
    <2>2. ASSUME NEW w \in Slots, (\E e \in Drafts : Take(w, e)) \/ ReadTail(w) \/ InsertConflict(w)
          PROVE  /\ \A v \in Slots : task'[v] = d /\ pc'[v] = "emit" => task[v] = d /\ pc[v] = "emit"
                 /\ job'[d] = "completed" => job[d] = "completed"
        BY <2>2 DEF Take, ReadTail, InsertConflict, IngestTypeOK
    <2>3. ASSUME NEW w \in Slots, InsertOk(w)
          PROVE  /\ \A v \in Slots : task'[v] = d /\ pc'[v] = "emit" =>
                        task[v] = d /\ (pc[v] = "emit" \/ InsertOk(v))
                 /\ UNCHANGED job
        BY <2>3 DEF InsertOk, IngestTypeOK
    <2>4. ASSUME NEW w \in Slots, RetriesExhausted(w) \/ DatabaseFails(w) \/ Complete(w)
          PROVE  /\ \A v \in Slots : task'[v] = d /\ pc'[v] = "emit" => task[v] = d /\ pc[v] = "emit"
                 /\ job'[d] = "completed" =>
                        job[d] = "completed" \/ \E v \in Slots : task[v] = d /\ pc[v] = "emit"
        <3>1. /\ LeaveSlot(w)
              /\ job'[d] = "completed" => job[d] = "completed" \/ (task[w] = d /\ pc[w] = "emit")
            BY <2>4 DEF RetriesExhausted, DatabaseFails, FailAppend, RejectJob, Complete, IngestTypeOK
        <3> QED BY <3>1 DEF LeaveSlot, IngestTypeOK
    <2> QED BY <1>1, <2>1, <2>2, <2>3, <2>4 DEF IngestStep, SlotStep
<1>2. CASE VerificationStep
    BY <1>2 DEF VerificationStep, MetaAudit, Enqueue, ingestVars, IngestTypeOK
<1>3. CASE \E i \in Instances : Crash(i)
    BY <1>3, IngestAssumption DEF Crash, CrashSlots, IngestTypeOK
<1>4. CASE RetentionStep \/ Tick \/ UNCHANGED vars
    BY <1>4 DEF RetentionStep, Tick, vars, ingestVars
<1> QED BY <1>1, <1>2, <1>3, <1>4 DEF Next

LEMMA NextEntryKept ==
    ASSUME OneSweeper, RetentionInv, EntryKept, [Next]_vars
    PROVE  EntryKept'
<1> SUFFICES ASSUME NEW d \in Drafts,
                    job'[d] = "completed" \/ \E w \in Slots : task'[w] = d /\ pc'[w] = "emit"
             PROVE  \E r \in Kept(ChainOf[d])' : r.draft = d
    BY DEF EntryKept
<1>1. TypeInv /\ ChainOf[d] \in Chains
    BY ChainAssumption DEF RetentionInv, SafeInv
<1>2. Kept(ChainOf[d]) \subseteq Kept(ChainOf[d])'
    BY <1>1, KeptIsKept
<1>3. CASE \E w \in Slots : task[w] = d /\ InsertOk(w)
    <2>1. PICK w \in Slots : task[w] = d /\ InsertOk(w)
        BY <1>3
    <2>2. NextRow(w) \in ledger'[ChainOf[d]] /\ NextRow(w).draft = d
        BY <2>1, InsertOkOnTop DEF RetentionInv
    <2> QED BY <2>2 DEF Kept
<1>4. CASE ~\E w \in Slots : task[w] = d /\ InsertOk(w)
    <2>1. job[d] = "completed" \/ \E w \in Slots : task[w] = d /\ pc[w] = "emit"
        BY <1>1, <1>4, EmitStep
    <2> QED BY <1>2, <2>1 DEF EntryKept
<1> QED BY <1>3, <1>4

\* A job that completed left its entry in the ledger or in an archive file,
\* through crashes, retries, stalls and prunes: the ingest is never lossy.
THEOREM OneSweepKeepsCompleted ==
    ASSUME OneProcessOnly, OneSweeper, ArchiveBeforeDelete
    PROVE  Spec => []CompletedIsKept
<1>1. Init => EntryKept
    BY IngestAssumption DEF Init, IngestInit, EntryKept
<1>2. RetentionInv /\ EntryKept /\ [Next]_vars => EntryKept'
    BY NextEntryKept
<1>3. EntryKept => CompletedIsKept
    BY DEF EntryKept, CompletedIsKept, Kept
<1> QED BY <1>1, <1>2, <1>3, RetentionInvariant, PTL DEF Spec

-----------------------------------------------------------------------------
(* One entry per run of a job, whatever the numbers of processes and sweeps. *)

\* A job is worked on by one slot, and is active while it is.
OneSlotPerJob ==
    \A w \in Slots : task[w] \in Drafts =>
        /\ job[task[w]] = "active"
        /\ \A v \in Slots : task[v] = task[w] => v = w

\* The current run of the job has, or may have, entered its draft.
Entered(d) ==
    \/ job[d] = "completed"
    \/ job[d] = "active" /\ \A w \in Slots : task[w] = d => pc[w] = "emit"

Entries(d) == {r \in Kept(ChainOf[d]) : r.draft = d}

EntryBound(d) ==
    /\ IsFiniteSet(Entries(d))
    /\ Cardinality(Entries(d)) <= stalls[d] + (IF Entered(d) THEN 1 ELSE 0)

EntryInv == TypeInv /\ OneSlotPerJob /\ \A d \in Drafts : EntryBound(d)

LEMMA NextOneSlotPerJob ==
    ASSUME TypeInv, OneSlotPerJob, [Next]_vars
    PROVE  OneSlotPerJob'
<1> USE DEF TypeInv, TypeOK
<1>0. NoDraft \notin Drafts
    BY IngestAssumption
<1>1. CASE IngestStep
    <2>1. ASSUME NEW d \in Drafts, Enqueue(d) PROVE OneSlotPerJob'
        BY <2>1 DEF Enqueue, OneSlotPerJob, IngestTypeOK
    <2>2. ASSUME NEW d \in Drafts, Stall(d) PROVE OneSlotPerJob'
        BY <2>2 DEF Stall, OneSlotPerJob, IngestTypeOK
    <2>3. ASSUME NEW w \in Slots, NEW d \in Drafts, Take(w, d) PROVE OneSlotPerJob'
        <3>1. /\ job[d] = "waiting" /\ job' = [job EXCEPT ![d] = "active"]
              /\ task' = [task EXCEPT ![w] = d]
            BY <2>3 DEF Take
        <3>2. \A v \in Slots : task[v] # d
            BY <3>1 DEF OneSlotPerJob
        <3> QED BY <3>1, <3>2 DEF OneSlotPerJob, IngestTypeOK
    <2>4. ASSUME NEW w \in Slots, ReadTail(w) \/ InsertOk(w) \/ InsertConflict(w) PROVE OneSlotPerJob'
        BY <2>4 DEF ReadTail, InsertOk, InsertConflict, OneSlotPerJob
    <2>5. ASSUME NEW w \in Slots, RetriesExhausted(w) \/ DatabaseFails(w) \/ Complete(w)
          PROVE  OneSlotPerJob'
        <3>1. /\ task[w] \in Drafts /\ task' = [task EXCEPT ![w] = NoDraft]
              /\ \E to \in JobStates : job' = [job EXCEPT ![task[w]] = to]
            BY <2>5 DEF RetriesExhausted, DatabaseFails, FailAppend, RejectJob, Complete, LeaveSlot,
                        IngestTypeOK, JobStates
        <3> QED BY <1>0, <3>1 DEF OneSlotPerJob, IngestTypeOK
    <2> QED BY <1>1, <2>1, <2>2, <2>3, <2>4, <2>5 DEF IngestStep, SlotStep
<1>2. CASE VerificationStep
    BY <1>2 DEF VerificationStep, MetaAudit, Enqueue, ingestVars, OneSlotPerJob, IngestTypeOK
<1>3. CASE \E i \in Instances : Crash(i)
    BY <1>0, <1>3 DEF Crash, CrashSlots, OneSlotPerJob, IngestTypeOK
<1>4. CASE RetentionStep \/ Tick \/ UNCHANGED vars
    BY <1>4 DEF RetentionStep, Tick, vars, ingestVars, OneSlotPerJob
<1> QED BY <1>1, <1>2, <1>3, <1>4 DEF Next

\* A run that entered its draft goes on to complete, or is counted as stalled.
LEMMA EnteredStep ==
    ASSUME TypeInv, OneSlotPerJob, [Next]_vars, NEW d \in Drafts
    PROVE  /\ stalls'[d] \in Nat /\ stalls[d] <= stalls'[d]
           /\ Entered(d) => Entered(d)' \/ stalls'[d] = stalls[d] + 1
<1> USE DEF TypeInv, TypeOK
<1>0. NoDraft \notin Drafts
    BY IngestAssumption
<1>1. CASE IngestStep
    <2>1. ASSUME NEW e \in Drafts, Enqueue(e)
          PROVE  UNCHANGED stalls /\ (Entered(d) => Entered(d)')
        BY <2>1 DEF Enqueue, Entered, IngestTypeOK
    <2>2. ASSUME NEW e \in Drafts, Stall(e)
          PROVE  /\ stalls'[d] \in Nat /\ stalls[d] <= stalls'[d]
                 /\ Entered(d) => Entered(d)' \/ stalls'[d] = stalls[d] + 1
        BY <2>2 DEF Stall, Entered, IngestTypeOK
    <2>3. ASSUME NEW w \in Slots, NEW e \in Drafts, Take(w, e)
          PROVE  UNCHANGED stalls /\ (Entered(d) => Entered(d)')
        BY <2>3 DEF Take, Entered, IngestTypeOK
    <2>4. ASSUME NEW w \in Slots, ReadTail(w) \/ InsertOk(w) \/ InsertConflict(w)
          PROVE  UNCHANGED stalls /\ (Entered(d) => Entered(d)')
        BY <2>4 DEF ReadTail, InsertOk, InsertConflict, Entered, OneSlotPerJob, IngestTypeOK
    <2>5. ASSUME NEW w \in Slots, RetriesExhausted(w) \/ DatabaseFails(w)
          PROVE  UNCHANGED stalls /\ (Entered(d) => Entered(d)')
        <3>1. /\ task[w] \in Drafts /\ pc[w] # "emit" /\ LeaveSlot(w) /\ UNCHANGED stalls
              /\ \E to \in JobStates : job' = [job EXCEPT ![task[w]] = to]
            BY <2>5 DEF RetriesExhausted, DatabaseFails, FailAppend, RejectJob, IngestTypeOK, JobStates
        <3>2. ~Entered(task[w])
            BY <3>1 DEF Entered, OneSlotPerJob
        <3>3. d # task[w] => job'[d] = job[d]
            BY <3>1 DEF IngestTypeOK
        <3>4. \A v \in Slots : task'[v] = d => task[v] = d /\ pc'[v] = pc[v]
            BY <1>0, <3>1 DEF LeaveSlot, IngestTypeOK
        <3> QED BY <3>1, <3>2, <3>3, <3>4 DEF Entered
    <2>6. ASSUME NEW w \in Slots, Complete(w)
          PROVE  UNCHANGED stalls /\ (Entered(d) => Entered(d)')
        <3>1. /\ task[w] \in Drafts /\ LeaveSlot(w) /\ UNCHANGED stalls
              /\ job' = [job EXCEPT ![task[w]] = "completed"]
            BY <2>6 DEF Complete, IngestTypeOK
        <3>2. \A v \in Slots : task'[v] = d => task[v] = d /\ pc'[v] = pc[v]
            BY <1>0, <3>1 DEF LeaveSlot, IngestTypeOK
        <3> QED BY <3>1, <3>2 DEF Entered, IngestTypeOK
    <2> QED BY <1>1, <2>1, <2>2, <2>3, <2>4, <2>5, <2>6 DEF IngestStep, SlotStep, IngestTypeOK
<1>2. CASE VerificationStep
    BY <1>2 DEF VerificationStep, MetaAudit, Enqueue, ingestVars, Entered, IngestTypeOK
<1>3. CASE \E i \in Instances : Crash(i)
    BY <1>0, <1>3 DEF Crash, CrashSlots, Entered, IngestTypeOK
<1>4. CASE RetentionStep \/ Tick \/ UNCHANGED vars
    BY <1>4 DEF RetentionStep, Tick, vars, ingestVars, Entered, IngestTypeOK
<1> QED BY <1>1, <1>2, <1>3, <1>4 DEF Next

LEMMA NextEntryBound ==
    ASSUME EntryInv, [Next]_vars, NEW d \in Drafts
    PROVE  EntryBound(d)'
<1> USE DEF EntryInv
<1>1. ChainOf[d] \in Chains /\ stalls[d] \in Nat
    BY ChainAssumption DEF TypeInv, TypeOK, IngestTypeOK
<1>2. /\ IsFiniteSet(Entries(d)) /\ Cardinality(Entries(d)) \in Nat
      /\ Cardinality(Entries(d)) <= stalls[d] + (IF Entered(d) THEN 1 ELSE 0)
    BY FS_CardinalityType DEF EntryBound
<1>3. /\ stalls'[d] \in Nat /\ stalls[d] <= stalls'[d]
      /\ Entered(d) => Entered(d)' \/ stalls'[d] = stalls[d] + 1
    BY EnteredStep
<1>4. CASE Entries(d)' \subseteq Entries(d)
    <2>1. IsFiniteSet(Entries(d)') /\ Cardinality(Entries(d)') <= Cardinality(Entries(d))
        <3> DEFINE E == Entries(d)
                   F == Entries(d)'
        <3> HIDE DEF E, F
        <3>1. F \in SUBSET E /\ IsFiniteSet(E)
            BY <1>2, <1>4 DEF E, F
        <3>2. IsFiniteSet(F) /\ Cardinality(F) <= Cardinality(E)
            BY <3>1, FS_Subset
        <3> QED BY <3>2 DEF E, F
    <2>2. Cardinality(Entries(d)') \in Nat
        BY <2>1, FS_CardinalityType
    <2> QED BY <1>1, <1>2, <1>3, <2>1, <2>2 DEF EntryBound
<1>5. CASE ~(Entries(d)' \subseteq Entries(d))
    <2>1. PICK w \in Slots : /\ InsertOk(w) /\ ChainOf[task[w]] = ChainOf[d]
                             /\ Kept(ChainOf[d])' = Kept(ChainOf[d]) \cup {NextRow(w)}
        BY <1>1, <1>5, KeptGrowsByInserts DEF Entries
    <2>2. NextRow(w).draft = task[w]
        BY RowFields DEF NextRow
    <2>3. task[w] = d /\ Entries(d)' = Entries(d) \cup {NextRow(w)}
        <3>1. Entries(d)' = IF task[w] = d THEN Entries(d) \cup {NextRow(w)} ELSE Entries(d)
            BY <2>1, <2>2 DEF Entries
        <3> QED BY <1>5, <3>1
    <2>4. IsFiniteSet(Entries(d)') /\ Cardinality(Entries(d)') <= Cardinality(Entries(d)) + 1
        <3> DEFINE E == Entries(d)
                   F == Entries(d)'
        <3>1. IsFiniteSet(E) /\ Cardinality(E) \in Nat /\ F = E \cup {NextRow(w)}
            BY <1>2, <2>3
        <3> HIDE DEF E, F
        <3>2. IsFiniteSet(F) /\ Cardinality(F) <= Cardinality(E) + 1
            BY <3>1, FS_AddElement
        <3> QED BY <3>2 DEF E, F
    <2>5. job[d] = "active" /\ pc[w] = "insert" /\ pc' = [pc EXCEPT ![w] = "emit"]
          /\ UNCHANGED << job, task, stalls >>
        BY <2>1, <2>3 DEF InsertOk, OneSlotPerJob
    <2>6. ~Entered(d) /\ Entered(d)'
        BY <2>3, <2>5 DEF Entered, OneSlotPerJob, TypeInv, TypeOK, IngestTypeOK
    <2>7. Cardinality(Entries(d)') \in Nat
        BY <2>4, FS_CardinalityType
    <2> QED BY <1>1, <1>2, <2>4, <2>5, <2>6, <2>7 DEF EntryBound
<1> QED BY <1>4, <1>5

\* A draft is entered at most once per run of its job: only a stalled job,
\* re-run from the start, can enter it twice; a rejected attempt never left a
\* row behind.  For every number of processes and of overlapping sweeps.
THEOREM OneEntryPerRun == Spec => []OneRowPerRun
<1>1. Init => EntryInv
    <2> SUFFICES ASSUME Init PROVE EntryInv
        OBVIOUS
    <2>1. OneSlotPerJob
        BY IngestAssumption DEF Init, IngestInit, OneSlotPerJob
    <2>2. ASSUME NEW d \in Drafts PROVE EntryBound(d)
        <3>1. Entries(d) = {}
            BY ChainAssumption DEF Init, RetentionInit, Entries, Kept, Archived
        <3>2. stalls[d] = 0
            BY DEF Init, IngestInit
        <3> QED BY <3>1, <3>2, FS_EmptySet DEF EntryBound
    <2> QED BY <2>1, <2>2, InitTypeInv DEF EntryInv
<1>2. EntryInv /\ [Next]_vars => EntryInv'
    <2> SUFFICES ASSUME EntryInv, [Next]_vars PROVE EntryInv'
        OBVIOUS
    <2>1. TypeInv' /\ OneSlotPerJob'
        BY NextTypeInv, NextOneSlotPerJob DEF EntryInv
    <2>2. \A d \in Drafts : EntryBound(d)'
        BY NextEntryBound
    <2> QED BY <2>1, <2>2 DEF EntryInv
<1>3. EntryInv => OneRowPerRun
    <2> SUFFICES ASSUME EntryInv, NEW d \in Drafts PROVE Cardinality(Entries(d)) <= 1 + stalls[d]
        BY DEF OneRowPerRun, Entries, Kept
    <2>1. IsFiniteSet(Entries(d)) /\ stalls[d] \in Nat
        BY DEF EntryInv, EntryBound, TypeInv, TypeOK, IngestTypeOK
    <2>2. Cardinality(Entries(d)) \in Nat
        BY <2>1, FS_CardinalityType
    <2> QED BY <2>1, <2>2 DEF EntryInv, EntryBound
<1> QED BY <1>1, <1>2, <1>3, PTL DEF Spec
=============================================================================
