----------------------------- MODULE MCScheduler -----------------------------
(* Instances of Scheduler for TLC.                                         *)
EXTENDS Scheduler, TLC

CONSTANTS reminder, cleanup, backup, c1, c2, w1

CallerSymmetry == Permutations(Callers)
=============================================================================
