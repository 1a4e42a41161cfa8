----------------------------- MODULE AuditTables -----------------------------
(***************************************************************************)
(* What the parts of the audit module share beside the ledger: the         *)
(* audit_archives table and the clock.                                     *)
(***************************************************************************)
EXTENDS AuditChain, Sequences

VARIABLES
    archives,     \* chain -> its rows in audit_archives, oldest first
    now           \* the clock, in days

NoAnchor == [toSeq |-> 0, rootHash |-> NoHash]

\* findAnchor: the newest archive of the chain that ends at toSeq.
FindAnchor(c, toSeq) ==
    LET ends == {k \in DOMAIN archives[c] : archives[c][k].toSeq = toSeq}
    IN  IF ends = {} THEN NoAnchor
        ELSE LET k == CHOOSE n \in ends : \A m \in ends : m <= n
             IN  [toSeq |-> toSeq, rootHash |-> archives[c][k].rootHash]

\* createArchive.
CreateArchive(c, record) == archives' = [archives EXCEPT ![c] = Append(@, record)]
=============================================================================
