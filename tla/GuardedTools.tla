---------------------------- MODULE GuardedTools ----------------------------
(***************************************************************************)
(* The tools that reach out: web requests, scans, port probes, SSH and     *)
(* workspace commands (core/tools/network.py, core/tools/sandbox.py), the  *)
(* guard each of them passes (core/execution_guard.py) and the policy that *)
(* evaluates an action against a declared scope (core/policy_engine.py).   *)
(*                                                                         *)
(* The calls of one turn run in parallel.  Each awaits the guard, and acts *)
(* in a later step; meanwhile the permission mode may change, the rules    *)
(* may be cleared and the host of the workspace may be edited.  The        *)
(* waiting itself is RuntimePermissions' subject and is abstract here.     *)
(***************************************************************************)
EXTENDS Naturals, FiniteSets

CONSTANTS ToolCalls,    \* tool calls that run in parallel
          ToolsOf,      \* [ToolCalls -> the tools it may be a call of]
          Sites,        \* hosts and URLs
          Scopes,       \* [targets, actions]: what a session may declare
          Hosts,        \* [addr, account, local]: what may stand in the host's row
          JobLimit,     \* _ASYNC_COMMAND_CONCURRENCY_LIMIT
          MaxAlways,    \* bound on "always allow" answers
          MaxEdits      \* bound on edits of the workspace's host

ASSUME SitesAssumption == Sites \cap {"none", "ref"} = {}   \* what stands for no host, and for a credential

VARIABLES call, mode, rules, scope, hostRow, jobs, given, edits

guardVars == <<call, mode, rules, scope, hostRow, jobs, given, edits>>

(* A scan stands for a port probe too: the same guard, the same risk.  Risk *)
(* L3 is guarded as L2 is.                                                 *)
Risk    == [http |-> 1, scan |-> 2, ssh |-> 2, command |-> 2, async |-> 2]
Local   == {"command", "async"}
Nowhere == "none"
Workspace == "workspace"                                    \* workspace://<id>
NoHost == [addr |-> Nowhere, account |-> FALSE, local |-> TRUE]

IdleCall == [pc |-> "idle", tool |-> Nowhere, goal |-> Nowhere, secret |-> Nowhere, login |-> "given",
         grounds |-> Nowhere, answer |-> Nowhere, wasFull |-> FALSE, said |-> FALSE, reached |-> {}]

ToolsInit == /\ call = [c \in ToolCalls |-> IdleCall]
             /\ mode \in {"normal", "full"}
             /\ scope \in Scopes
             /\ hostRow \in Hosts \cup {NoHost}
             /\ rules = {} /\ given = {} /\ jobs = 0 /\ edits = 0

-----------------------------------------------------------------------------
(* evaluate_action: the reasons to deny, and the effect. *)
Denials(action, bounds) ==
     {r \in {"target"}   : action.target \notin bounds.targets}
\cup {r \in {"action"}   : action.tool \notin bounds.actions}
\cup {r \in {"window"}   : ~bounds.valid}
\cup {r \in {"risk"}     : action.risk > bounds.risk}
\cup {r \in {"rollback"} : action.write /\ ~action.rollback}
\cup {r \in {"load"}     : action.load = "over"}

evaluate_action(action, bounds, production) ==
  CASE Denials(action, bounds) # {}                                           -> "deny"
    [] Denials(action, bounds) = {} /\ (action.risk >= 2 \/ (production /\ action.write)) -> "approve"
    [] OTHER                                                                  -> "allow"

(* authorize_network_action, the guard without a user to ask. *)
authorize_network_action(tool, target) ==
  /\ target \in scope.targets
  /\ evaluate_action([target |-> target, tool |-> tool, risk |-> Risk[tool],
                      write |-> FALSE, rollback |-> FALSE, load |-> "none"],
                     [targets |-> scope.targets, risk |-> 1, valid |-> TRUE,
                      actions |-> IF scope.actions = {} THEN {tool} ELSE scope.actions], FALSE) = "allow"

-----------------------------------------------------------------------------
(* Mutant: the risk of a declared action is not looked at. *)
needs_user_decision_bold(r) ==
  r.tool \notin Local => \/ r.goal \notin scope.targets
                         \/ scope.actions # {} /\ r.tool \notin scope.actions

needs_user_decision(r) == \/ Risk[r.tool] >= 2
                          \/ r.goal \notin scope.targets
                          \/ scope.actions # {} /\ r.tool \notin scope.actions

Key(r) == <<r.tool, r.goal>>                           \* action type and target
Acting(r, g) == [r EXCEPT !.pc = "act", !.grounds = g]

(* authorize_network_action_runtime, authorize_local_action_runtime and    *)
(* the synchronous beginning of require_permission.                        *)
Guarded(r) ==
  CASE mode = "full"                                               -> Acting(r, "full")
    [] mode # "full" /\ ~needs_user_decision(r)                    -> Acting(r, "scope")
    [] mode # "full" /\ needs_user_decision(r) /\ Key(r) \in rules -> Acting(r, "rule")
    [] OTHER                                                       -> [r EXCEPT !.pc = "asking"]

Called(tool, goal) == [IdleCall EXCEPT !.tool = tool, !.goal = goal, !.wasFull = (mode = "full")]
CallBecomes(c, r) == call' = [call EXCEPT ![c] = r]
CallAt(c, l) == call[c].pc = l
Fails(c) == CallBecomes(c, IdleCall)

(* http_request, browser_fetch, web_security_scan, port_probe. *)
network_tool(c, tool, url) ==
  /\ CallAt(c, "idle")
  /\ CallBecomes(c, Guarded(Called(tool, url)))
  /\ UNCHANGED <<mode, rules, scope, hostRow, jobs, given, edits>>

(* execute_sync_command, execute_async_command: only in a workspace. *)
command_tool(c, tool) ==
  /\ CallAt(c, "idle") /\ hostRow # NoHost
  /\ CallBecomes(c, Guarded(Called(tool, Workspace)))
  /\ UNCHANGED <<mode, rules, scope, hostRow, jobs, given, edits>>

(* ssh_command: with a credential_ref or without; the target, and a        *)
(* username of the call or of its credential,                              *)
(* may be missing.                                                         *)
ssh_command(c, target, ref, username) ==
  /\ CallAt(c, "idle")
  /\ CallBecomes(c, [Called("ssh", target) EXCEPT !.pc = "resolve", !.secret = IF ref THEN "ref" ELSE Nowhere,
                                              !.login = IF username THEN "given" ELSE "missing"])
  /\ UNCHANGED <<mode, rules, scope, hostRow, jobs, given, edits>>

(* _resolve_ssh_credential_for_context: who is reached, and with what. *)
OfManagedHost(r) == r.secret = Nowhere /\ hostRow # NoHost /\ ~hostRow.local

resolve_managed(c) ==
  LET r == call[c] IN
  /\ CallAt(c, "resolve") /\ OfManagedHost(r)
  /\ IF r.goal \notin {Nowhere, hostRow.addr} \/ ~hostRow.account
       THEN Fails(c)
       ELSE CallBecomes(c, Guarded([r EXCEPT !.goal = hostRow.addr, !.secret = hostRow.addr, !.login = "given"]))
  /\ UNCHANGED <<mode, rules, scope, hostRow, jobs, given, edits>>

resolve_given(c) ==
  LET r == call[c] IN
  /\ CallAt(c, "resolve") /\ ~OfManagedHost(r)
  /\ IF r.goal = Nowhere \/ r.login = "missing" THEN Fails(c) ELSE CallBecomes(c, Guarded([r EXCEPT !.login = "given"]))
  /\ UNCHANGED <<mode, rules, scope, hostRow, jobs, given, edits>>

-----------------------------------------------------------------------------
(* The user answers (decide), once, always or not at all, and may correct  *)
(* himself until the call has noticed.                                     *)
user_decides(c, d) ==
  /\ call[c].pc \in {"asking", "answered"}
  /\ d = "always" => Cardinality(given) < MaxAlways
  /\ rules' = IF d = "always" THEN rules \cup {Key(call[c])} ELSE rules
  /\ given' = IF d = "always" THEN given \cup {Key(call[c])} ELSE given
  /\ CallBecomes(c, [call[c] EXCEPT !.pc = "answered", !.answer = IF d = "reject" THEN "reject" ELSE "allow",
                                !.said = @ \/ d # "reject"])
  /\ UNCHANGED <<mode, scope, hostRow, jobs, edits>>

(* The wait runs out, or the turn is canceled. *)
expires(c) ==
  /\ call[c].pc \in {"asking", "answered"}
  /\ Fails(c)
  /\ UNCHANGED <<mode, rules, scope, hostRow, jobs, given, edits>>

goes_on(c) ==
  LET r == call[c] IN
  /\ CallAt(c, "answered")
  /\ CASE mode = "full"                           -> CallBecomes(c, Acting(r, "full"))
       [] mode # "full" /\ r.answer = "allow"     -> CallBecomes(c, Acting(r, "user"))
       [] OTHER                                   -> Fails(c)
  /\ UNCHANGED <<mode, rules, scope, hostRow, jobs, given, edits>>

(* update_mode: full access lets everyone through who waits. *)
update_mode(m) ==
  /\ mode # m /\ mode' = m
  /\ call' = [c \in ToolCalls |->
       LET r == call[c] IN
       IF m = "full" /\ r.pc # "idle"
         THEN [r EXCEPT !.wasFull = TRUE,
                        !.answer = IF r.pc \in {"asking", "answered"} THEN "allow" ELSE @,
                        !.pc = IF @ = "asking" THEN "answered" ELSE @]
         ELSE r]
  /\ UNCHANGED <<rules, scope, hostRow, jobs, given, edits>>

clear_rules ==
  /\ rules # {} /\ rules' = {}
  /\ UNCHANGED <<call, mode, scope, hostRow, jobs, given, edits>>

(* The row of the host is edited while a call waits. *)
host_edited(h) ==
  /\ edits < MaxEdits /\ hostRow # NoHost /\ hostRow # h
  /\ edits' = edits + 1 /\ hostRow' = h
  /\ UNCHANGED <<call, mode, rules, scope, jobs, given>>

-----------------------------------------------------------------------------
(* The tool acts.  Redirects are reported, never followed; a port probe    *)
(* connects to several ports of the host; SSH closes what it opened.       *)
act(c) ==
  /\ CallAt(c, "act") /\ call[c].tool # "async"
  /\ CallBecomes(c, [call[c] EXCEPT !.pc = "acted", !.reached = {call[c].goal}])
  /\ UNCHANGED <<mode, rules, scope, hostRow, jobs, given, edits>>

(* An asynchronous command is started if few enough run. *)
count_running(c) ==
  /\ CallAt(c, "act") /\ call[c].tool = "async"
  /\ IF jobs >= JobLimit THEN Fails(c) ELSE CallBecomes(c, [call[c] EXCEPT !.pc = "counted"])
  /\ UNCHANGED <<mode, rules, scope, hostRow, jobs, given, edits>>

start_async(c) ==
  /\ CallAt(c, "counted")
  /\ jobs' = jobs + 1
  /\ CallBecomes(c, [call[c] EXCEPT !.pc = "acted", !.reached = {call[c].goal}])
  /\ UNCHANGED <<mode, rules, scope, hostRow, given, edits>>

(* A job ends by itself, or by cancel_sandbox_async_job. *)
job_ends ==
  /\ jobs > 0 /\ jobs' = jobs - 1
  /\ UNCHANGED <<call, mode, rules, scope, hostRow, given, edits>>

returns(c) ==
  /\ CallAt(c, "acted")
  /\ CallBecomes(c, IdleCall)
  /\ UNCHANGED <<mode, rules, scope, hostRow, jobs, given, edits>>

ToolsNext ==
  \/ \E c \in ToolCalls :
       \/ \E tool \in ToolsOf[c] \cap {"http", "scan"}, url \in Sites : network_tool(c, tool, url)
       \/ \E tool \in ToolsOf[c] \cap Local : command_tool(c, tool)
       \/ \E target \in Sites \cup {Nowhere}, ref, username \in BOOLEAN :
            "ssh" \in ToolsOf[c] /\ ssh_command(c, target, ref, username)
       \/ resolve_managed(c) \/ resolve_given(c)
       \/ \E d \in {"once", "always", "reject"} : user_decides(c, d)
       \/ expires(c) \/ goes_on(c) \/ act(c) \/ count_running(c) \/ start_async(c) \/ returns(c)
  \/ \E m \in {"normal", "full"} : update_mode(m)
  \/ clear_rules \/ job_ends
  \/ \E h \in Hosts : host_edited(h)

ToolsSpec == ToolsInit /\ [][ToolsNext]_guardVars

-----------------------------------------------------------------------------
(* What a tool reached is what was authorised when it asked, however long  *)
(* the answer took: the user allowed this call, or once and for all this   *)
(* action on this target, or full access was on while the call lived, or   *)
(* the scope covers it and the policy would allow it without asking        *)
(* (authorize_network_action_runtime).  A host's password goes to no other *)
(* host (ssh_command).                                                     *)
ActedIsAuthorized ==
  \A c \in ToolCalls : LET r == call[c] IN
       r.reached # {} =>
         /\ r.reached = {r.goal}
         /\ r.secret \in Sites => r.reached = {r.secret}
         /\ r.grounds = "full"  => r.wasFull
         /\ r.grounds = "user"  => r.said \/ r.wasFull
         /\ r.grounds = "rule"  => Key(r) \in given
         /\ r.grounds = "scope" => authorize_network_action(r.tool, r.goal)
=============================================================================
