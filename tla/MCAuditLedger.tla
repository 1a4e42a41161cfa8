--------------------------- MODULE MCAuditLedger ---------------------------
(* Instances of AuditLedger for TLC: one chain, its drafts and the slots.  *)
EXTENDS AuditLedger, TLC

CONSTANTS global, guild, d1, d2, d3, w1, w2, w3, p1, p2

OneChainOf == [d \in Drafts |-> CHOOSE c \in Chains : TRUE]
OneProcess == [w \in Slots |-> p1]

\* Nothing tells the drafts apart, nor the slots of one process.
OneProcessSymmetry == Permutations(Drafts) \cup Permutations(Slots)

TwoProcesses == [w \in Slots |-> IF w = w1 THEN p1 ELSE p2]
=============================================================================
