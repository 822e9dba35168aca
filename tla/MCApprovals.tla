---------------------------- MODULE MCApprovals ----------------------------
(* One action, and one or two calls at a time.                              *)
EXTENDS Approvals, TLC

CONSTANTS c1, c2, act

MCSymmetry == Permutations(Calls)
=============================================================================
