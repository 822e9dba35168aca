------------------------ MODULE MCRuntimePermissions ------------------------
(* Two calls that ask for the same action on the same target.               *)
EXTENDS RuntimePermissions, TLC

CONSTANTS r1, r2, k

MCKeyOf == [r \in Requests |-> k]
=============================================================================
