---------------------------- MODULE MCKnowledge ----------------------------
(* Two uploads that share a name, one deletion, one save of the            *)
(* configuration.                                                          *)
EXTENDS Knowledge

MCUploads == {"u1", "u2"}
MCNames   == {"x", "y"}
MCFilesOf == [u \in MCUploads |-> IF u = "u1" THEN {"x", "y"} ELSE {"x"}]
MCClients == MCUploads \cup {"delete", "loop", "reader"}
=============================================================================
