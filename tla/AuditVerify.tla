----------------------------- MODULE AuditVerify -----------------------------
(***************************************************************************)
(* AuditService.verifyChain with AuditChainService.verify: firstSeq, the   *)
(* archive anchor and the batched scan are separate reads of a ledger that *)
(* the ingest workers and the retention sweep keep changing.               *)
(***************************************************************************)
EXTENDS AuditTables

CONSTANTS
    Verifiers,        \* concurrent calls of verifyChain
    VerifyBatch       \* EXPORT_BATCH of the scan

ASSUME VerifyAssumption == VerifyBatch \in Nat \ {0}

VARIABLE verifier     \* call -> its local variables and its result

verifyVars == << verifier >>

IdleVerify == [pc |-> "idle", chain |-> {}, first |-> 0, anchor |-> NoAnchor,
               previous |-> NoRow, valid |-> TRUE, brokenSeq |-> 0]

VerifyInit == verifier = [v \in Verifiers |-> IdleVerify]

-----------------------------------------------------------------------------
\* verify() on one entry after `previous`: expectedPrevious, seqOk, contentOk.
EntryOk(r, previous, anchor) ==
    /\ ContentOk(r)
    /\ IF previous # NoRow THEN Follows(r, previous)
       ELSE IF r.seq = 1 THEN r.previousHash = NoHash
       ELSE anchor # NoAnchor /\ anchor.toSeq = r.seq - 1 /\ r.previousHash = anchor.rootHash

\* The entry verify() saw before r: the page's, or the last of the page before.
Before(r, page, previous) ==
    LET below == {q \in page : q.seq < r.seq}
    IN  IF below = {} THEN previous ELSE CHOOSE q \in below : IsLast(q, below)

BrokenIn(page, previous, anchor) ==
    {r \in page : ~EntryOk(r, Before(r, page, previous), anchor)}

-----------------------------------------------------------------------------
\* Mutant of VerifyStart: the scan starts without looking for an anchor.
VerifyStartNoAnchor(v, c) ==
    /\ verifier[v].pc = "idle"
    /\ \E first \in FirstSeq(ledger[c]) :
          verifier' = [verifier EXCEPT ![v] =
              [IdleVerify EXCEPT !.chain = c, !.first = first, !.pc = "scan"]]
    /\ UNCHANGED << ledger, archives >>

\* firstSeq; an anchor is looked up only above seq 1.
VerifyStart(v, c) ==
    /\ verifier[v].pc = "idle"
    /\ \E first \in FirstSeq(ledger[c]) :
          verifier' = [verifier EXCEPT ![v] =
              [IdleVerify EXCEPT !.chain = c, !.first = first,
                                 !.pc = IF first > 1 THEN "anchor" ELSE "scan"]]
    /\ UNCHANGED << ledger, archives >>

VerifyAnchor(v) ==
    /\ verifier[v].pc = "anchor"
    /\ verifier' = [verifier EXCEPT
           ![v].anchor = FindAnchor(verifier[v].chain, verifier[v].first - 1), ![v].pc = "scan"]
    /\ UNCHANGED << ledger, archives >>

\* One batch: stop at the first broken entry, at the end, or go on with the next.
VerifyScan(v) ==
    LET rows   == ledger[verifier[v].chain]
        prior  == verifier[v].previous
        page   == Page(rows, prior.seq, VerifyBatch)
        broken == BrokenIn(page, prior, verifier[v].anchor)
    IN  /\ verifier[v].pc = "scan"
        /\ \/ \E seq \in FirstSeq(broken) \ {0} :
                 verifier' = [verifier EXCEPT ![v].pc = "done", ![v].valid = FALSE,
                                              ![v].brokenSeq = seq]
           \/ page = {} /\ verifier' = [verifier EXCEPT ![v].pc = "done"]
           \/ /\ broken = {}
              /\ \E r \in page : IsLast(r, page)
                    /\ verifier' = [verifier EXCEPT ![v].previous = r]
        /\ UNCHANGED << ledger, archives >>

\* The verified / broken events go out; the meta audit entry that follows is
\* AuditLedger's.
VerifyReturn(v) ==
    /\ verifier[v].pc = "done"
    /\ verifier' = [verifier EXCEPT ![v] = IdleVerify]
    /\ UNCHANGED << ledger, archives >>

VerifyStep(v) ==
    \/ \E c \in Chains : VerifyStart(v, c)
    \/ VerifyAnchor(v) \/ VerifyScan(v)
=============================================================================
