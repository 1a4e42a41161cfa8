----------------------------- MODULE AuditTrail -----------------------------
(***************************************************************************)
(* What the audit module promises, without queue, workers or sweeps: per   *)
(* chain a trail of linked entries that grows only at its top, by an entry *)
(* for a draft that was handed in, and shrinks only from its bottom.       *)
(***************************************************************************)
EXTENDS AuditChain

VARIABLE requested   \* the drafts handed to the module

trailVars == << ledger, requested >>

TrailInit ==
    /\ ledger = [c \in Chains |-> {}]
    /\ requested = {}

Request(d) ==
    /\ requested' = requested \cup {d}
    /\ UNCHANGED ledger

\* One new entry, right above the last one whenever the trail has entries.
Record(d) ==
    LET c == ChainOf[d]
    IN  /\ d \in requested
        /\ \E r \in ledger'[c] :
              /\ r.draft = d
              /\ ContentOk(r)
              /\ ledger[c] # {} => \E p \in ledger[c] : IsLast(p, ledger[c]) /\ Follows(r, p)
              /\ AppendRow(c, r)
        /\ UNCHANGED requested

\* A bottom part of one trail goes at once: all that goes is below all that stays.
Prune(c) ==
    /\ \E kept \in SUBSET ledger[c] :
          /\ \A r \in kept, q \in ledger[c] \ kept : q.seq < r.seq
          /\ ledger' = [ledger EXCEPT ![c] = kept]
    /\ UNCHANGED requested

TrailNext ==
    \/ \E d \in Drafts : Request(d) \/ Record(d)
    \/ \E c \in Chains : Prune(c)

TrailSpec == TrailInit /\ [][TrailNext]_trailVars
=============================================================================
