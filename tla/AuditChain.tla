----------------------------- MODULE AuditChain -----------------------------
(***************************************************************************)
(* The audit ledger table and the repository calls on it                   *)
(* (src/modules/audit/infrastructure/audit.repository.ts), the hash chain  *)
(* rule (domain/audit-chain.service.ts) and the unique indexes of          *)
(* prisma/schema.prisma.  A chain is one (scope, guildId) pair.            *)
(***************************************************************************)
EXTENDS Integers, FiniteSets

CONSTANTS
    Chains,        \* the (scope, guildId) pairs
    GuildChains,   \* the chains whose guildId is not NULL
    Drafts,        \* audit entry drafts, one per envelope (its dedupe key)
    ChainOf        \* the chain a draft belongs to

ASSUME ChainAssumption ==
    /\ GuildChains \subseteq Chains
    /\ ChainOf \in [Drafts -> Chains]

VARIABLE ledger    \* chain -> its rows in audit_entries

NoHash == << >>

\* The digest covers every field of the draft, the seq and the previous hash.
\* It is collision free, so it is modelled as the tuple of what it covers.
Hash(d, seq, prev) == << d, seq, prev >>

Row(d, at, seq, prev) ==
    [seq |-> seq, draft |-> d, at |-> at,
     previousHash |-> prev, hash |-> Hash(d, seq, prev)]

\* What `last?.seq ?? 0n` and `last?.hash ?? null` read from an absent row.
NoRow == [seq |-> 0, hash |-> NoHash]

-----------------------------------------------------------------------------
(* Repository reads, over the rows of one chain: the set of possible results. *)

IsLast(r, rows) == r \in rows /\ \A q \in rows : q.seq <= r.seq

\* Mutant of FindLast: the order is ascending.
FindLastAscending(rows) ==
    IF rows = {} THEN {NoRow} ELSE {r \in rows : \A q \in rows : r.seq <= q.seq}

\* findLast: ORDER BY seq DESC LIMIT 1; a tie is broken either way.
FindLast(rows) == IF rows = {} THEN {NoRow} ELSE {r \in rows : IsLast(r, rows)}

IsFirst(r, rows) == r \in rows /\ \A q \in rows : r.seq <= q.seq

\* firstSeq: ORDER BY seq ASC LIMIT 1; 0 stands for null.
FirstSeq(rows) == IF rows = {} THEN {0} ELSE {r.seq : r \in {q \in rows : IsFirst(q, rows)}}

\* firstSeqAtOrAfter: the first seq still inside the window; 0 stands for null.
FirstSeqAtOrAfter(rows, cutoff) == FirstSeq({r \in rows : r.at >= cutoff})

\* One page of iterateChain(Range): the `batch` lowest rows above the cursor.
Page(rows, cursor, batch) ==
    {r \in rows : /\ cursor < r.seq
                  /\ Cardinality({q \in rows : cursor < q.seq /\ q.seq < r.seq}) < batch}

-----------------------------------------------------------------------------
(* Repository writes. *)

\* Mutant of Conflicts: the schema lacks the unique (scope, guildId, seq).
ConflictsOnHashOnly(c, row) == \E r \in ledger[c] : r.hash = row.hash

\* P2002: unique (scope, guildId, seq), where MySQL holds rows with a NULL
\* guildId distinct, and the unique hash.
Conflicts(c, row) ==
    \/ c \in GuildChains /\ \E r \in ledger[c] : r.seq = row.seq
    \/ \E r \in ledger[c] : r.hash = row.hash

AppendRow(c, row) == ledger' = [ledger EXCEPT ![c] = @ \cup {row}]

\* Mutant of KeepAbove: DELETE WHERE seq < upTo.
KeepFrom(rows, upTo) == {r \in rows : r.seq >= upTo}

KeepAbove(rows, upTo) == {r \in rows : r.seq > upTo}

\* pruneUpTo: DELETE WHERE seq <= upTo.
PruneUpTo(c, upTo) == ledger' = [ledger EXCEPT ![c] = KeepAbove(@, upTo)]

-----------------------------------------------------------------------------
(* The hash chain rule. *)

\* A row follows its predecessor: AuditChainService.verify's seqOk and linkageOk.
Follows(r, p) == r.seq = p.seq + 1 /\ r.previousHash = p.hash

\* contentOk: the stored hash is the digest of the stored content.
ContentOk(r) == r.hash = Hash(r.draft, r.seq, r.previousHash)

UniqueSeqs(rows) == \A r, q \in rows : r.seq = q.seq => r = q

\* Every row but the first one present follows a row that is present.
Linked(rows) ==
    \A r \in rows : (\E q \in rows : q.seq < r.seq) => \E p \in rows : Follows(r, p)

Intact(rows) == UniqueSeqs(rows) /\ Linked(rows) /\ \A r \in rows : ContentOk(r)
=============================================================================
