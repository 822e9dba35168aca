------------------------------ MODULE MCTables ------------------------------
(***************************************************************************)
(* Two parts of the database, side by side: the notifications of a session *)
(* and the records of a project.  They share no row, so a behaviour is one *)
(* of one part; the other stands still.  Findings and attack paths never   *)
(* refer to each other, and a behaviour has them one after the other.      *)
(***************************************************************************)
EXTENDS NotificationTable, ProjectRecords

CONSTANTS n1, n2, main, sub, x, y

VARIABLE part

(* Nothing tells one notification, or one asset identity, from another; the *)
(* metadata adds at most one of two identities at a time, so the order in   *)
(* which new ones get their ids plays no part.                              *)
MCSymmetry == Permutations(Ntf) \cup Permutations(Idents)

MCInit == Init /\ RecordsInit /\ part \in {"notifications", "records"}

MCNext == \/ part = "notifications" /\ Next /\ UNCHANGED <<part, recordVars>>
          \/ /\ part = "records" /\ RecordsNext /\ UNCHANGED <<part, vars>>
             /\ db'.findings = << >> \/ db'.paths = {}

MCSpec == MCInit /\ [][MCNext]_<<part, vars, recordVars>>
=============================================================================
