----------------------------- MODULE Workspaces -----------------------------
(***************************************************************************)
(* Which execution workspace a turn gets.  A user sends messages to a chat *)
(* session and to a session of a work project (service/agent/runtime.py);  *)
(* meanwhile workspaces are created, started, stopped and deleted          *)
(* (service/sandbox/lifecycle.py), the project is edited, canceled,        *)
(* retried and deleted (service/work_project/projects.py), and sessions    *)
(* come and go.                                                            *)
(*                                                                         *)
(* A request is a task with a program counter; a step is one database      *)
(* session, split where the code writes after what it read before its      *)
(* first write (SQLite takes its lock with the first write).  Workspace    *)
(* ids are those of SQLite: one more than the highest, so the id of a      *)
(* deleted workspace may come back with another owner.                     *)
(*                                                                         *)
(* Left out: the generation of a workspace (the time of its last update),  *)
(* which only decides whether the agent graph is built anew; admins, whom  *)
(* every ownership check lets through; and how a turn runs (AgentSession). *)
(***************************************************************************)
EXTENDS Naturals, FiniteSets, FiniteSetsExt

CONSTANTS Submits,      \* requests that send a message or select a workspace
          MaxBox,       \* bound on workspace ids
          MaxBoxOps     \* bound on requests other than sending a message

ASSUME SubmitsAssumption == Submits \cap {"lifecycle", "project"} = {}
ASSUME BoundsOfBoxes == MaxBox \in Nat /\ MaxBoxOps \in Nat

VARIABLES box,          \* [1..MaxBox -> [status, owner]]
          project,      \* [status, bound]: the work project
          meta,         \* [Sessions -> [there, sel, running, rt]]: session rows
          turn,         \* [Sessions -> [on, box, checked, started]]: the running turn
          req,          \* [Requests -> [pc, ...]]: the requests being served
          seen,         \* [Submits -> facts true at some moment of the request]
          epoch,        \* how often the project was canceled
          ops           \* how many requests were made

boxVars == <<box, project, meta, turn, req, seen, epoch, ops>>

Boxes    == 1..MaxBox
None     == 0           \* no workspace
Sessions == {"chat", "proj"}
Requests == Submits \cup {"lifecycle", "project"}
BoxStatuses == {"absent", "running", "stopped", "paused", "error"}

Me       == "me"        \* the user who sends messages
Owners   == {Me, "someone"}

NoTurn   == [on |-> FALSE, box |-> None, checked |-> 0, started |-> 0]
NoMeta   == [there |-> FALSE, sel |-> None, running |-> FALSE, rt |-> None]
NoBox    == [status |-> "absent", owner |-> "someone"]
Idle     == [pc |-> "done", s |-> "chat", want |-> None, box |-> None, sel |-> None,
             new |-> FALSE, checked |-> 0, back |-> "done"]

-----------------------------------------------------------------------------
(* Reading rows. *)

Exists(b)  == b # None /\ box[b].status # "absent"
Running(b) == b # None /\ box[b].status = "running"

resolve_selection(b) == Exists(b) /\ box[b].owner = Me

can_create_work_project_session == project.status \notin {"absent", "canceled"}

(* Mutant: a canceled project is not looked at. *)
can_run_unchecked(s) == meta[s].there

can_run_work_project_session(s) ==
  meta[s].there /\ (s = "proj" => can_create_work_project_session)

(* Mutant: any running workspace will do. *)
allows_any(b) == Running(b)

work_project_allows(b) == project.bound = b /\ Running(b)

(* SQLite gives out one id more than the highest. *)
NextBox == Max({0} \cup {b \in Boxes : Exists(b)}) + 1

-----------------------------------------------------------------------------
(* Requests. *)

At(t, l)         == req[t].pc = l
Goto(t, l)       == req' = [req EXCEPT ![t].pc = l]
Keep(t, l, f, v) == req' = [req EXCEPT ![t].pc = l, ![t][f] = v]
Done(t)          == req' = [req EXCEPT ![t] = Idle]

(* A request that raises.  A new chat whose first message fails is deleted *)
(* with the session it made.                                               *)
refuse(t) ==
  IF req[t].new THEN Goto(t, "discard") ELSE Done(t)

Begins(t) == At(t, "done")
Counted == ops < MaxBoxOps /\ ops' = ops + 1

(* cancel_all of a session: its turn ends. *)
Stopped(ss) == /\ turn' = [s \in Sessions |-> IF s \in ss THEN NoTurn ELSE turn[s]]
               /\ meta' = [s \in Sessions |-> IF s \in ss THEN [meta[s] EXCEPT !.running = FALSE] ELSE meta[s]]

-----------------------------------------------------------------------------
(* Sending a message: choosing the workspace. *)

submit_user_turn(t, s, want) ==
  /\ Begins(t)
  /\ req' = [req EXCEPT ![t] = [Idle EXCEPT !.pc = "select", !.s = s, !.want = want, !.back = "access"]]
  /\ UNCHANGED <<box, project, meta, turn, epoch, ops>>

(* A session name stands for one session after another: it is given out    *)
(* again once nothing is left of the last one.                             *)
Unused(s) == ~meta[s].there /\ ~turn[s].on /\ \A t \in Submits : At(t, "done") \/ req[t].s # s

(* A chat that does not exist yet. *)
submit_new_chat_turn(t, want) ==
  /\ Begins(t) /\ Unused("chat")
  /\ meta' = [meta EXCEPT !["chat"] = [NoMeta EXCEPT !.there = TRUE]]
  /\ req' = [req EXCEPT ![t] = [Idle EXCEPT !.pc = "select", !.want = want, !.back = "access", !.new = TRUE]]
  /\ UNCHANGED <<box, project, turn, epoch, ops>>

(* A session of the project keeps to the workspace of the project. *)
apply_turn_sandbox_selection(t) ==
  LET q == req[t]  m == meta[q.s] IN
  /\ At(t, "select")
  /\ CASE ~m.there                                   -> refuse(t)
       [] m.there /\ q.s = "proj"                    -> Keep(t, "bound", "sel", m.sel)
       [] m.there /\ q.s = "chat" /\ q.want = None /\ m.sel = None
                                                     -> req' = [req EXCEPT ![t].pc = "default", ![t].back = "switch"]
       [] m.there /\ q.s = "chat" /\ (q.want = m.sel \/ (q.want = None /\ m.sel # None))
                                                     -> Goto(t, "access")
       [] OTHER                                      -> Keep(t, "switch", "box", q.want)
  /\ UNCHANGED <<box, project, meta, turn, epoch, ops>>

read_project_workspace(t) ==
  LET q == req[t] IN
  /\ At(t, "bound")
  /\ IF q.want \notin {None, project.bound} THEN refuse(t) ELSE Keep(t, "sync", "box", project.bound)
  /\ UNCHANGED <<box, project, meta, turn, epoch, ops>>

(* The generation may have changed even where the workspace has not. *)
sync_project_session(t) ==
  LET q == req[t] IN
  /\ At(t, "sync")
  /\ \/ meta' = [meta EXCEPT ![q.s].sel = IF meta[q.s].there THEN q.box ELSE @]
     \/ q.sel = q.box /\ UNCHANGED meta
  /\ Goto(t, "access")
  /\ UNCHANGED <<box, project, turn, epoch, ops>>

(* The selection of a session is changed only while it is idle; the check  *)
(* and the write are steps apart, and the turn that slipped in between is  *)
(* stopped.  Also a request of its own.                                    *)
select_workspace(t, b) ==
  /\ Begins(t) /\ Counted
  /\ req' = [req EXCEPT ![t] = [Idle EXCEPT !.pc = "switch", !.box = b, !.back = "done"]]
  /\ UNCHANGED <<box, project, meta, turn, epoch>>

update_selected_sandbox_container(t) ==
  LET q == req[t] IN
  /\ At(t, "switch")
  /\ \/ refuse(t)         \* no such session, one that runs, or has outstanding work
     \/ meta[q.s].there /\ ~meta[q.s].running /\ Goto(t, "resolve")
  /\ UNCHANGED <<box, project, meta, turn, epoch, ops>>

resolve_new_selection(t) ==
  /\ At(t, "resolve")
  /\ IF req[t].box = None \/ resolve_selection(req[t].box) THEN Goto(t, "write") ELSE refuse(t)
  /\ UNCHANGED <<box, project, meta, turn, epoch, ops>>

update_session_sandbox_container(t) ==
  LET q == req[t] IN
  /\ At(t, "write")
  /\ IF meta[q.s].there THEN /\ meta' = [meta EXCEPT ![q.s].sel = q.box]
                             /\ Goto(t, "invalidate")
                        ELSE refuse(t) /\ UNCHANGED meta
  /\ UNCHANGED <<box, project, turn, epoch, ops>>

invalidate_session_tool_binding(t) ==
  LET q == req[t] IN
  /\ At(t, "invalidate")
  /\ Stopped({q.s})
  /\ IF q.back = "done" THEN Done(t) ELSE Goto(t, "access")
  /\ UNCHANGED <<box, project, epoch, ops>>

-----------------------------------------------------------------------------
(* The default workspace of the user: the first one, started if need be,   *)
(* or a new one.  A failing initialization leaves it in error, and it is   *)
(* used all the same.                                                      *)

ensure_default_portable_workspace(t) ==
  LET mine == {b \in Boxes : resolve_selection(b)}
      b    == IF mine = {} THEN NextBox ELSE Min(mine) IN
  /\ At(t, "default") /\ b \in Boxes
  /\ Keep(t, CASE mine = {}                       -> "ensure"
               [] mine # {} /\ Running(b)         -> req[t].back
               [] OTHER                           -> "restart", "box", b)
  /\ box' = IF mine = {} THEN [box EXCEPT ![b] = [status |-> "running", owner |-> Me]] ELSE box
  /\ UNCHANGED <<project, meta, turn, epoch, ops>>

(* _set_status: a row that is gone is not set. *)
SetStatus(b, st) == box' = [box EXCEPT ![b].status = IF Exists(b) THEN st ELSE @]

start_default(t) ==
  /\ At(t, "restart")
  /\ SetStatus(req[t].box, "running")
  /\ Goto(t, IF Exists(req[t].box) THEN "ensure" ELSE req[t].back)
  /\ UNCHANGED <<project, meta, turn, epoch, ops>>

ensure_workspace(t) ==
  /\ At(t, "ensure")
  /\ \/ Goto(t, req[t].back) /\ Exists(req[t].box)
     \/ Goto(t, "failed")
  /\ UNCHANGED <<box, project, meta, turn, epoch, ops>>

initialization_failed(t) ==
  /\ At(t, "failed")
  /\ SetStatus(req[t].box, "error")
  /\ Goto(t, req[t].back)
  /\ UNCHANGED <<project, meta, turn, epoch, ops>>

-----------------------------------------------------------------------------
(* Sending a message: the context of the turn. *)

(* can_access_session, can_run_work_project_session and                    *)
(* ensure_chat_session_meta, one step here: the second decides, and it is  *)
(* what the turn rests on.                                                 *)
submit_turn(t) ==
  LET q == req[t] IN
  /\ At(t, "access")
  /\ IF can_run_work_project_session(q.s) THEN Keep(t, "context", "checked", epoch) ELSE refuse(t)
  /\ UNCHANGED <<box, project, meta, turn, epoch, ops>>

build_runtime_context(t) ==
  LET q == req[t]
      m == meta[q.s]
      b == CASE q.s = "proj"      -> project.bound
             [] q.s = "chat" /\ q.want # None -> q.want
             [] OTHER             -> IF m.running THEN m.rt ELSE m.sel
      l == IF q.s = "proj" THEN "allowed" ELSE "binding" IN
  /\ At(t, "context")
  /\ req' = [req EXCEPT ![t].pc = IF b = None THEN "default" ELSE l, ![t].box = b, ![t].back = l]
  /\ UNCHANGED <<box, project, meta, turn, epoch, ops>>

(* resolve_sandbox_container_tool_binding: whose it is, then how it is. *)
resolve_owner(t) ==
  /\ At(t, "binding")
  /\ IF resolve_selection(req[t].box) THEN Goto(t, "status") ELSE Keep(t, "start", "box", None)
  /\ UNCHANGED <<box, project, meta, turn, epoch, ops>>

resolve_status(t) ==
  /\ At(t, "status")
  /\ IF Running(req[t].box) THEN Goto(t, "start") ELSE Keep(t, "start", "box", None)
  /\ UNCHANGED <<box, project, meta, turn, epoch, ops>>

(* resolve_project_sandbox_container_tool_binding follows the permission. *)
resolve_project_binding(t) ==
  /\ At(t, "allowed")
  /\ IF work_project_allows(req[t].box) THEN Goto(t, "exists") ELSE Keep(t, "start", "box", None)
  /\ UNCHANGED <<box, project, meta, turn, epoch, ops>>

resolve_project_selection(t) ==
  /\ At(t, "exists")
  /\ IF Exists(req[t].box) THEN Goto(t, "status") ELSE Keep(t, "start", "box", None)
  /\ UNCHANGED <<box, project, meta, turn, epoch, ops>>

(* A running session queues the message for the turn it has. *)
start_turn(t) ==
  LET q == req[t] IN
  /\ At(t, "start")
  /\ IF turn[q.s].on THEN UNCHANGED <<turn, meta>>
     ELSE /\ turn' = [turn EXCEPT ![q.s] = [on |-> TRUE, box |-> q.box, checked |-> q.checked, started |-> epoch]]
          /\ meta' = [meta EXCEPT ![q.s] = IF @.there THEN [@ EXCEPT !.running = TRUE, !.rt = q.box] ELSE @]
  /\ Done(t)
  /\ UNCHANGED <<box, project, epoch, ops>>

turn_ends(s) ==
  /\ turn[s].on
  /\ Stopped({s})
  /\ UNCHANGED <<box, project, req, epoch, ops>>

delete_new_chat(t) ==
  /\ At(t, "discard")
  /\ turn' = [turn EXCEPT !["chat"] = NoTurn]
  /\ meta' = [meta EXCEPT !["chat"] = NoMeta]
  /\ Done(t)
  /\ UNCHANGED <<box, project, epoch, ops>>

-----------------------------------------------------------------------------
(* Workspaces come, change and go. *)

create_sandbox_container(o) ==
  /\ Begins("lifecycle") /\ Counted /\ NextBox \in Boxes
  /\ box' = [box EXCEPT ![NextBox] = [status |-> "running", owner |-> o]]
  /\ req' = [req EXCEPT !["lifecycle"] = [Idle EXCEPT !.pc = "ensure", !.box = NextBox]]
  /\ UNCHANGED <<project, meta, turn, epoch>>

(* start, stop, pause and resume: _set_status *)
set_status(b, st) ==
  /\ Begins("lifecycle") /\ Counted /\ Exists(b)
  /\ SetStatus(b, st)
  /\ req' = [req EXCEPT !["lifecycle"] = IF st = "running" THEN [Idle EXCEPT !.pc = "ensure", !.box = b] ELSE @]
  /\ UNCHANGED <<project, meta, turn, epoch>>

(* Mutant: the link to the project is left behind. *)
delete_sandbox_container_unlinked(b) ==
  /\ Begins("lifecycle") /\ Counted /\ Exists(b)
  /\ box' = [box EXCEPT ![b] = NoBox]
  /\ UNCHANGED <<project, meta, turn, req, epoch>>

(* The row goes, and with it its link to the project. *)
delete_sandbox_container(b) ==
  /\ Begins("lifecycle") /\ Counted /\ Exists(b)
  /\ box' = [box EXCEPT ![b] = NoBox]
  /\ project' = [project EXCEPT !.bound = IF @ = b THEN None ELSE @]
  /\ UNCHANGED <<meta, turn, req, epoch>>

-----------------------------------------------------------------------------
(* The work project. *)

ProjectSessions == {s \in {"proj"} : meta[s].there}

(* _validate_work_project_metadata_for_write, for the workspace *)
validate_metadata(b) == b = None \/ (resolve_selection(b) /\ Running(b))

ProjectRequest(l, b) ==
  /\ Begins("project") /\ Counted
  /\ req' = [req EXCEPT !["project"] = [Idle EXCEPT !.pc = l, !.box = b]]
  /\ UNCHANGED <<box, meta, turn>>

(* Creating the project, and changing it, in two steps: validate, write. *)
update_work_project_metadata(b) ==
  /\ validate_metadata(b)
  /\ ProjectRequest("metadata", b)
  /\ UNCHANGED <<project, epoch>>

(* A workspace that is gone breaks the foreign key of the link. *)
write_metadata ==
  LET b == req["project"].box IN
  /\ At("project", "metadata")
  /\ IF b = None \/ Exists(b)
     THEN /\ project' = [status |-> IF project.status = "absent" THEN "working" ELSE project.status, bound |-> b]
          /\ meta' = [meta EXCEPT !["proj"].sel = IF "proj" \in ProjectSessions THEN b ELSE @]
     ELSE UNCHANGED <<project, meta>>
  /\ Done("project")
  /\ UNCHANGED <<box, turn, epoch, ops>>

(* The sessions are those of the moment of the commit. *)
cancel_work_project ==
  /\ can_create_work_project_session
  /\ project' = [project EXCEPT !.status = "canceled"]
  /\ epoch' = epoch + 1
  /\ ProjectRequest(IF ProjectSessions = {} THEN "done" ELSE "cancel", None)

cancel_sessions ==
  /\ At("project", "cancel")
  /\ Stopped({"proj"})
  /\ Done("project")
  /\ UNCHANGED <<box, project, epoch, ops>>

(* derive_work_project_status: by its tasks. *)
retry_work_project(st) ==
  /\ project.status = "canceled"
  /\ project' = [project EXCEPT !.status = st]
  /\ ProjectRequest("done", None)
  /\ UNCHANGED epoch

create_work_project_session ==
  /\ can_create_work_project_session /\ Unused("proj")
  /\ ProjectRequest("session", project.bound)
  /\ UNCHANGED <<project, epoch>>

insert_project_session ==
  /\ At("project", "session")
  /\ meta' = [meta EXCEPT !["proj"] = IF project.status = "absent" THEN @
                                      ELSE [NoMeta EXCEPT !.there = TRUE, !.sel = req["project"].box]]
  /\ Done("project")
  /\ UNCHANGED <<box, project, turn, epoch, ops>>

(* delete_session, of a chat or for the project: its turn is stopped,      *)
(* then its rows go.                                                       *)
delete_session(s) ==
  /\ meta[s].there
  /\ Begins("project") /\ Counted
  /\ req' = [req EXCEPT !["project"] = [Idle EXCEPT !.pc = "unsession", !.s = s]]
  /\ turn' = [turn EXCEPT ![s] = NoTurn]
  /\ meta' = [meta EXCEPT ![s].running = FALSE]
  /\ UNCHANGED <<box, project, epoch>>

delete_session_records ==
  /\ At("project", "unsession")
  /\ meta' = [meta EXCEPT ![req["project"].s] = NoMeta]
  /\ IF req["project"].back = "unproject" THEN Goto("project", "unproject") ELSE Done("project")
  /\ UNCHANGED <<box, project, turn, epoch, ops>>

delete_work_project ==
  /\ project.status # "absent"
  /\ Begins("project") /\ Counted
  /\ req' = [req EXCEPT !["project"] = [Idle EXCEPT !.s = "proj", !.back = "unproject",
                                                   !.pc = IF ProjectSessions = {} THEN "unproject" ELSE "unsession"]]
  /\ turn' = [turn EXCEPT !["proj"] = IF ProjectSessions = {} THEN @ ELSE NoTurn]
  /\ meta' = [meta EXCEPT !["proj"].running = FALSE]
  /\ UNCHANGED <<box, project, epoch>>

(* A session that came meanwhile keeps the project: the foreign key. *)
delete_project_row ==
  /\ At("project", "unproject")
  /\ project' = IF ProjectSessions = {} THEN [status |-> "absent", bound |-> None] ELSE project
  /\ Done("project")
  /\ UNCHANGED <<box, meta, turn, epoch, ops>>

-----------------------------------------------------------------------------
(* What is true of the workspaces now. *)
Facts == LET up == {b \in Boxes : box[b].status = "running"} IN
  (({"mine"} \X {b \in Boxes : Exists(b) /\ box[b].owner = Me})
   \cup ({"up"} \X up) \cup ({"bound"} \X (up \cap {project.bound})))

Submission(t) ==
  \/ \E s \in Sessions, b \in Boxes \cup {None} : submit_user_turn(t, s, b)
  \/ \E b \in Boxes \cup {None} : submit_new_chat_turn(t, b) \/ select_workspace(t, b)
  \/ apply_turn_sandbox_selection(t) \/ read_project_workspace(t) \/ sync_project_session(t)
  \/ update_selected_sandbox_container(t) \/ resolve_new_selection(t)
  \/ update_session_sandbox_container(t) \/ invalidate_session_tool_binding(t)
  \/ ensure_default_portable_workspace(t) \/ start_default(t)
  \/ submit_turn(t) \/ build_runtime_context(t)
  \/ resolve_owner(t) \/ resolve_status(t) \/ resolve_project_binding(t)
  \/ resolve_project_selection(t) \/ start_turn(t) \/ delete_new_chat(t)

Administration ==
  \/ \E o \in Owners : create_sandbox_container(o)
  \/ \E b \in Boxes : \/ delete_sandbox_container(b)
                      \/ \E st \in {"running", "stopped", "paused"} : set_status(b, st)
  \/ \E b \in Boxes \cup {None} : update_work_project_metadata(b)
  \/ \E st \in {"working", "completed"} : retry_work_project(st)
  \/ \E s \in Sessions : delete_session(s)
  \/ write_metadata \/ cancel_work_project \/ cancel_sessions
  \/ create_work_project_session \/ insert_project_session
  \/ delete_session_records \/ delete_work_project \/ delete_project_row

BoxNext ==
  /\ \/ \E t \in Submits : Submission(t)
     \/ \E t \in Submits \cup {"lifecycle"} : ensure_workspace(t) \/ initialization_failed(t)
     \/ \E s \in Sessions : turn_ends(s)
     \/ Administration
  /\ seen' = [t \in Submits |-> IF req'[t].pc = "done" THEN {} ELSE seen[t] \cup Facts']

BoxInit ==
  /\ box = [b \in Boxes |-> NoBox]
  /\ project = [status |-> "absent", bound |-> None]
  /\ meta = [s \in Sessions |-> NoMeta]
  /\ turn = [s \in Sessions |-> NoTurn]
  /\ req = [t \in Requests |-> Idle]
  /\ seen = [t \in Submits |-> {}]
  /\ epoch = 0 /\ ops = 0

BoxSpec == BoxInit /\ [][BoxNext]_boxVars

-----------------------------------------------------------------------------
PCs == {"done", "select", "bound", "sync", "switch", "resolve", "write", "invalidate", "default",
        "restart", "ensure", "failed", "access", "context", "binding", "status", "allowed",
        "exists", "start", "discard", "metadata", "cancel", "session", "unsession", "unproject"}

(* The kinds of the variables, and the rows the schema and the deletions   *)
(* keep consistent: the workspace of the project exists, and a session of  *)
(* the project has its project.                                            *)
BoxTypeOK ==
  /\ box \in [Boxes -> [status : BoxStatuses, owner : Owners]]
  /\ project \in [status : {"absent", "working", "completed", "canceled"}, bound : Boxes \cup {None}]
  /\ meta \in [Sessions -> [there : BOOLEAN, sel : Boxes \cup {None}, running : BOOLEAN, rt : Boxes \cup {None}]]
  /\ turn \in [Sessions -> [on : BOOLEAN, box : Boxes \cup {None}, checked : Nat, started : Nat]]
  /\ \A t \in Requests : req[t].pc \in PCs
  /\ project.bound # None => Exists(project.bound) /\ project.status # "absent"
  /\ meta["proj"].there => project.status # "absent"
  /\ epoch \in Nat /\ ops \in 0..MaxBoxOps

(* A turn is given a workspace only if, while its message was being        *)
(* served, that workspace was running and the user's own (chat), or        *)
(* running as the workspace of the project (project session) - whatever    *)
(* was selected, deleted, bound anew or created under the same id          *)
(* meanwhile (build_runtime_context).                                      *)
BindingIsGrounded ==
  \A t \in Submits :
    At(t, "start") /\ req[t].box # None =>
      (IF req[t].s = "proj" THEN {<<"bound", req[t].box>>}
                            ELSE {<<"mine", req[t].box>>, <<"up", req[t].box>>}) \subseteq seen[t]

(* Once canceling a project has returned, the only turn its session can    *)
(* have is one whose message was let through before the cancellation and   *)
(* started after it: turns that were running are stopped, later messages   *)
(* are refused (cancel_work_project, can_run_work_project_session).        *)
CanceledIsQuiet ==
  project.status = "canceled" /\ ~At("project", "cancel") /\ meta["proj"].there /\ turn["proj"].on =>
    turn["proj"].started = epoch /\ turn["proj"].checked < epoch
=============================================================================
