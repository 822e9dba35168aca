--------------------------- MODULE MCAgentSession ---------------------------
(* Small instances of AgentSession.                                         *)
EXTENDS AgentSession, TLC

CONSTANTS j1, j2, m1, m2, d1, d2, d3, cso, cae

MCSymmetry == Permutations(Jobs) \cup Permutations(Messages) \cup Permutations(Drivers)
=============================================================================
