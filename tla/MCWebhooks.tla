----------------------------- MODULE MCWebhooks -----------------------------
(* Instances of Webhooks for TLC.                                          *)
EXTENDS Webhooks, TLC

CONSTANTS r1, r2, identified, unidentified, w1, n1, b1, b2

RequestSymmetry == Permutations(Requests)
=============================================================================
