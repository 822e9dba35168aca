---------------------------- MODULE MCServices -----------------------------
(***************************************************************************)
(* The services a request or a tool call uses, side by side: approvals,    *)
(* the guarded tools, the workspaces and what goes on inside one, the      *)
(* sockets, the inventory of hosts, images, users and proxies, the keys of *)
(* hosts, the proxy check and the CVE look-up.  They share nothing that is *)
(* modelled, so a behaviour is one of one part; the others stand still.    *)
(***************************************************************************)
EXTENDS Approvals, GuardedTools, Workspaces, WorkspaceIO, Sockets, Inventory, HostKeys,
        ProxyCheck, CveDiscovery, TLC

CONSTANTS c1, c2, a1, t1, w1, w2, r1, x1, x2

VARIABLE part

Parts == {"approvals", "tools", "boxes", "inside", "sockets", "inventory",
          "keys", "proxy", "cves"}

(* What a part may start from is only chosen in its own behaviours. *)
ChosenInItsPart ==
  /\ IF part = "tools" THEN hostRow.account \/ hostRow = NoHost
                       ELSE mode = "normal" /\ hostRow = NoHost
  /\ part # "inside"  => ~remote
  /\ part # "sockets" => sock.kind = "host" /\ ~sock.ssh /\ ~sock.stubborn
  /\ part # "keys"    => host = "a" /\ server["a"] = "k1" /\ server["b"] = "k1"
  /\ part # "proxy"   => chk.proxy = [type |-> "http", account |-> "none"]

MCInit == /\ Init /\ ToolsInit /\ BoxInit /\ IOInit /\ SocketsInit
          /\ InventoryInit /\ HostKeysInit /\ ProxyCheckInit /\ CveInit
          /\ part \in Parts /\ ChosenInItsPart

MCNext == \/ /\ part = "approvals" /\ Next
             /\ UNCHANGED <<part, guardVars, boxVars, ioVars, sockVars, inventoryVars, keyVars, chk, cveVars>>
          \/ /\ part = "tools" /\ ToolsNext
             /\ UNCHANGED <<part, vars, boxVars, ioVars, sockVars, inventoryVars, keyVars, chk, cveVars>>
          \/ /\ part = "boxes" /\ BoxNext
             /\ UNCHANGED <<part, vars, guardVars, ioVars, sockVars, inventoryVars, keyVars, chk, cveVars>>
          \/ /\ part = "inside" /\ IONext
             /\ UNCHANGED <<part, vars, guardVars, boxVars, sockVars, inventoryVars, keyVars, chk, cveVars>>
          \/ /\ part = "sockets" /\ SocketsNext
             /\ UNCHANGED <<part, vars, guardVars, boxVars, ioVars, inventoryVars, keyVars, chk, cveVars>>
          \/ /\ part = "inventory" /\ InventoryNext
             /\ UNCHANGED <<part, vars, guardVars, boxVars, ioVars, sockVars, keyVars, chk, cveVars>>
          \/ /\ part = "keys" /\ HostKeysNext
             /\ UNCHANGED <<part, vars, guardVars, boxVars, ioVars, sockVars, inventoryVars, chk, cveVars>>
          \/ /\ part = "proxy" /\ ProxyCheckNext
             /\ UNCHANGED <<part, vars, guardVars, boxVars, ioVars, sockVars, inventoryVars, keyVars, cveVars>>
          \/ /\ part = "cves" /\ CveNext
             /\ UNCHANGED <<part, vars, guardVars, boxVars, ioVars, sockVars, inventoryVars, keyVars, chk>>

MCSpec == MCInit /\ [][MCNext]_<<part, vars, guardVars, boxVars, ioVars, sockVars, inventoryVars, keyVars, chk, cveVars>>

IdsOfTables  == [t \in Tables |-> IF t \in {"host", "proxy"} THEN 2 ELSE 1]
ToolsOfCalls == "t1" :> {"http"} @@ "t2" :> {"ssh", "async"}
OneScope     == {[targets |-> {"a"}, actions |-> {"http", "ssh"}]}
TwoHosts     == {[addr |-> "a", account |-> TRUE,  local |-> FALSE],
                 [addr |-> "b", account |-> FALSE, local |-> FALSE]}

(* Approvals, workspaces, files and tool runs are well typed; the other    *)
(* parts have their types in the invariants of their theorems.             *)
ServicesTypeOK == TypeOK /\ BoxTypeOK /\ IOTypeOK

(* No content of a file is lost although requests overlap, fail and are    *)
(* canceled; a failed one puts the old file back, and no temporary file    *)
(* outlives its upload, but for the failures of the clean-up itself        *)
(* (service/sandbox/files.py, service/sandbox/remote_files.py).            *)
FilesAreSafe == StoredIsKept /\ FileSurvives /\ NoTempLeft

(* A tool run is running exactly as long as its task, and leaves no        *)
(* process behind when it has ended (service/toolpack.py).                 *)
RunsHaveTheirProcess == EndedHasNoProcess /\ RunningHasTask

(* A socket handler that has returned leaves no task, no shell and no      *)
(* connection, two tasks never send at once, and output is forwarded to    *)
(* its end (handler/host/hosts.py, handler/sandbox/containers.py,          *)
(* handler/agent/sessions.py, service/sandbox/novnc.py).                   *)
HandlerCleansUp == ReturnedLeavesNothing /\ OneSender /\ EndedIsForwarded

(* Who answers is who was meant: a connection shows a key the user was     *)
(* shown and confirmed, and a proxy that was found good carries the        *)
(* connection it was asked for (service/host/hosts.py,                     *)
(* service/egress_proxy/proxies.py).                                       *)
PeersAreChecked == LinkedKeyWasShown /\ CheckedIsTunneled
=============================================================================
