------------------------------ MODULE HostKeys ------------------------------
(***************************************************************************)
(* Trusting the SSH key of a managed host (service/host/hosts.py): the key *)
(* is shown to the user, who confirms its fingerprint; connections accept  *)
(* only the keys in known_hosts (service/host/connection.py).              *)
(*                                                                         *)
(* Meanwhile the host may be moved to another address                      *)
(* (update_managed_host) and the server there may present another key.     *)
(***************************************************************************)
EXTENDS Naturals

CONSTANTS Endpoints, HostKeySet, MaxMoves

NoKey == "none"

VARIABLES host,      \* the endpoint of the managed host
          server,    \* external: [Endpoints -> the key presented there]
          known,     \* known_hosts: [Endpoints -> key or NoKey]
          shown,     \* the keys the user has been shown
          keyCall,   \* the request in progress: preview or trust, and the host it read
          link,      \* the open connection: [at, key] the server had when it was made
          moves

keyVars == <<host, server, known, shown, keyCall, link, moves>>

NoCallYet == [do |-> "none", at |-> CHOOSE e \in Endpoints : TRUE, fp |-> NoKey]

HostKeysInit ==
  /\ host \in Endpoints
  /\ server \in [Endpoints -> HostKeySet]
  /\ known = [e \in Endpoints |-> NoKey]
  /\ shown = {} /\ keyCall = NoCallYet /\ moves = 0
  /\ link = [at |-> host, key |-> NoKey]

(* update_managed_host *)
host_moves(e) ==
  /\ moves < MaxMoves /\ moves' = moves + 1
  /\ host' = e
  /\ UNCHANGED <<server, known, shown, keyCall, link>>

server_changes(e, k) ==
  /\ moves < MaxMoves /\ moves' = moves + 1
  /\ server' = [server EXCEPT ![e] = k]
  /\ UNCHANGED <<host, known, shown, keyCall, link>>

(* The row of the host is read; the key is fetched later. *)
key_requested(do, fp) ==
  /\ keyCall = NoCallYet
  /\ keyCall' = [do |-> do, at |-> host, fp |-> fp]
  /\ UNCHANGED <<host, server, known, shown, link, moves>>

preview_managed_host_key ==
  /\ keyCall.do = "preview"
  /\ shown' = shown \cup {server[keyCall.at]}
  /\ keyCall' = NoCallYet
  /\ UNCHANGED <<host, server, known, link, moves>>

(* Mutant: the fingerprint is not compared with the key fetched. *)
Confirmed_blindly(key, fp) == TRUE

Confirmed(key, fp) == key = fp

(* The line of the endpoint is replaced. *)
write_known_host_key(e, k) == [known EXCEPT ![e] = k]

trust_managed_host_key ==
  /\ keyCall.do = "trust"
  /\ known' = IF Confirmed(server[keyCall.at], keyCall.fp) THEN write_known_host_key(keyCall.at, server[keyCall.at]) ELSE known
  /\ keyCall' = NoCallYet
  /\ UNCHANGED <<host, server, shown, link, moves>>

(* connect_managed_host; asyncssh refuses a key that is not in the file. *)
connect_managed_host ==
  /\ known[host] = server[host]
  /\ link' = [at |-> host, key |-> server[host]]
  /\ UNCHANGED <<host, server, known, shown, keyCall, moves>>

HostKeysNext ==
  \/ \E e \in Endpoints : host_moves(e) \/ \E k \in HostKeySet : server_changes(e, k)
  \/ key_requested("preview", NoKey) \/ \E fp \in shown : key_requested("trust", fp)
  \/ preview_managed_host_key \/ trust_managed_host_key \/ connect_managed_host

HostKeysSpec == HostKeysInit /\ [][HostKeysNext]_keyVars

-----------------------------------------------------------------------------
(* The server talks only to servers whose key the user has been shown,     *)
(* although the host may move and the server change its key between        *)
(* showing it and trusting it (trust_managed_host_key).                    *)
LinkedKeyWasShown == link.key # NoKey => link.key \in shown
=============================================================================
