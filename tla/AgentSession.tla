---------------------------- MODULE AgentSession ----------------------------
(***************************************************************************)
(* One conversation of the agent runtime (core/runtime/session.py): the    *)
(* driver tasks that run its turns and drain its notifications, the user's *)
(* requests (send a message, interrupt, cancel everything), the background *)
(* commands its turns start and that wake it when they end, and restarts.  *)
(*                                                                         *)
(* Everything runs on one asyncio loop, so a step is what a task does      *)
(* between two awaits that can suspend it; a database call is the step     *)
(* that commits it, and the caller goes on in a later step.  A task that   *)
(* is canceled is canceled at its await: before the call took effect (its  *)
(* pc is still the one of the call) or after (its pc is the next one).     *)
(*                                                                         *)
(* Every task is a process with a program counter:                         *)
(*   Drivers            tasks running _drive / _relaunch_driver            *)
(*   Jobs               the _run_async task of the command whose           *)
(*                      obligation is that row                             *)
(*   "user"             the request that submits a message                 *)
(*   "interrupt", "cancel_all"   the two ways a user stops the session     *)
(*   "boot"             the startup sequence after a restart               *)
(* A process that is not there, or has ended, is "done".                   *)
(***************************************************************************)
EXTENDS NotificationRows

CONSTANTS
    Jobs,           \* the rows that are obligations of commands; the others are messages
    Drivers,        \* names for driver tasks, reused once a task is gone
    NoOne,
    MaxRelaunch,    \* _MAX_DRIVER_RELAUNCH
    MaxTurns,       \* bound on submitted messages
    MaxFaults,      \* bound on interrupts, cancel-alls and restarts together
    MaxCrashes      \* bound on the restarts among them

ASSUME JobsAssumption == Jobs \subseteq Ntf
ASSUME BoundsAssumption == {MaxRelaunch, MaxTurns, MaxFaults, MaxCrashes} \subseteq Nat

VARIABLES
    row, clock,     \* the notification table
    meta,           \* the session's row: is_running and runtime_agent_code
    live,           \* the run_state its subscribers saw last
    pc,             \* [Procs -> program counter]
    inst,           \* [Procs -> the main agent instance the process works for]
    item,           \* [Drivers -> the notification a driver selected or claimed]
    attempt,        \* [Drivers -> how many times the driver was relaunched]
    current,        \* _current_task, NoOne also when that task is done
    lock,           \* the holder of _start_lock
    popped,         \* the jobs a cancellation took out of the _jobs registry
    tools,          \* the jobs an open tool call of the turn creates or cancels
    sel,            \* [Procs -> what a cancellation selected]
    awaited,        \* [Stoppers -> the driver task a stopper awaits]
    halted,         \* the last driver to go was canceled
    used            \* how much of each bound is used up

Stoppers == {"interrupt", "cancel_all"}
Procs    == Drivers \cup Jobs \cup Stoppers \cup {"user", "boot"}
Messages == Ntf \ Jobs

(* Tasks, jobs and requests are different things.                           *)
ASSUME NamesAssumption ==
    /\ Drivers \cap Jobs = {}
    /\ (Drivers \cup Jobs) \cap (Stoppers \cup {"user", "boot"}) = {}
    /\ NoOne \notin Procs

vars == <<row, clock, meta, live, pc, inst, item, attempt, current, lock,
          popped, tools, sel, awaited, halted, used>>

table  == <<row, clock>>
shown  == <<meta, live>>
driver == <<inst, item, attempt>>
calls  == <<popped, tools>>
stops  == <<sel, awaited, halted>>

-----------------------------------------------------------------------------
(* Program counters.                                                        *)

Waiting  == {"launch0", "launch"}                  \* not yet inside _turn_lock
Holding  == {"turn", "complete", "preempted", "failed", "release"}
Draining == Waiting \cup Holding \cup {"turn0", "claim", "cas", "recon"}
Settling == {"stopcheck", "stopwrite", "idle", "idleread", "idlepub"}
Resuming == {"resume", "recover", "mark", "spawn"}

DriverPC == Draining \cup Settling
            \cup {"recon_none", "recon_some", "x_flush", "dying", "dropped", "done"}
JobPC    == Resuming \cup Settling \cup {"created", "lost", "run", "jobcancel", "done"}
UserPC   == {"enqueue", "mark", "spawn", "done"}
BootPC   == {"b_jobs", "b_reset", "b_recover", "recover", "mark", "spawn", "done"}
IntPC    == Settling \cup {"i_wait", "i_flush", "done"}
AllPC    == {"stopcheck", "stopwrite", "c_wait", "c_jobs", "c_jobwait", "c_select", "c_flush",
             "c_force", "c_pub", "done"}

TypeOK ==
    /\ row \in [Ntf -> Rows] /\ clock \in Nat
    /\ meta \in [running : BOOLEAN, code : Instances] /\ live \in BOOLEAN
    /\ pc \in [Procs -> DriverPC \cup JobPC \cup UserPC \cup BootPC \cup IntPC \cup AllPC]
    /\ \A d \in Drivers : pc[d] \in DriverPC
    /\ \A j \in Jobs : pc[j] \in JobPC
    /\ pc["user"] \in UserPC /\ pc["boot"] \in BootPC
    /\ pc["interrupt"] \in IntPC /\ pc["cancel_all"] \in AllPC
    /\ inst \in [Procs -> Instances]
    /\ item \in [Drivers -> Ntf \cup {NoOne}]
    /\ attempt \in [Drivers -> 0..MaxRelaunch]
    /\ current \in Drivers \cup {NoOne}
    /\ lock \in Procs \cup {NoOne}
    /\ popped \subseteq Jobs /\ tools \subseteq Jobs
    /\ sel \in [Procs -> SUBSET Ntf]
    /\ awaited \in [Stoppers -> Drivers \cup {NoOne}]
    /\ halted \in BOOLEAN
    /\ used \in [turns : 0..MaxTurns, stops : 0..MaxFaults, crashes : 0..MaxCrashes]

Anyone == CHOOSE i \in Instances : TRUE

Init ==
    /\ row = [n \in Ntf |-> NoRow] /\ clock = 0
    /\ meta = [running |-> FALSE, code |-> Anyone] /\ live = FALSE
    /\ pc = [p \in Procs |-> "done"]
    /\ inst = [p \in Procs |-> Anyone]
    /\ item = [d \in Drivers |-> NoOne]
    /\ attempt = [d \in Drivers |-> 0]
    /\ current = NoOne /\ lock = NoOne
    /\ popped = {} /\ tools = {}
    /\ sel = [p \in Procs |-> {}]
    /\ awaited = [s \in Stoppers |-> NoOne]
    /\ halted = FALSE
    /\ used = [turns |-> 0, stops |-> 0, crashes |-> 0]

Up == pc["boot"] = "done"

is_running == current # NoOne

has_pending_main == PendingFor(row, Instances) # {}
has_outstanding  == OutstandingFor(row, Instances) # {}

TurnLockFree == \A d \in Drivers : pc[d] \in Waiting \cup {"dropped", "done"}

(* A name for a new driver task.                                            *)
Unused(d) == pc[d] = "done" /\ \A s \in Stoppers : awaited[s] # d

Goto(p, l) == pc' = [pc EXCEPT ![p] = l]

-----------------------------------------------------------------------------
(* A user message: start_turn.  A running session gets it as a             *)
(* notification, an idle one starts a driver with it.                      *)

start_turn(i) ==
    /\ Up /\ pc["user"] = "done" /\ lock = NoOne
    /\ used.turns < MaxTurns
    /\ is_running => \E n \in Messages : row[n].status = "absent"
    /\ used' = [used EXCEPT !.turns = @ + 1]
    /\ lock' = "user"
    /\ inst' = [inst EXCEPT !["user"] = i]
    /\ Goto("user", IF is_running THEN "enqueue" ELSE "mark")
    /\ UNCHANGED <<calls, table, shown, item, attempt, current, stops>>

enqueue_user_message(n) ==
    /\ pc["user"] = "enqueue"
    /\ row[n].status = "absent"
    /\ row' = [row EXCEPT ![n] = NewUserMessage(inst["user"], clock)]
    /\ clock' = clock + 1
    /\ lock' = NoOne
    /\ Goto("user", "done")
    /\ UNCHANGED <<calls, shown, driver, current, stops, used>>

(* The critical section start_turn and start_notification_recovery share:  *)
(* is_running is committed first, then the driver task is created.         *)
mark_session_running(p) ==
    /\ pc[p] = "mark"
    /\ meta' = [running |-> TRUE, code |-> inst[p]]
    /\ Goto(p, "spawn")
    /\ UNCHANGED <<calls, table, live, driver, current, lock, stops, used>>

create_driver(p, d) ==
    /\ pc[p] = "spawn"
    /\ Unused(d)
    /\ live' = TRUE
    /\ current' = d
    /\ lock' = NoOne
    /\ inst' = [inst EXCEPT ![d] = inst[p]]
    /\ attempt' = [attempt EXCEPT ![d] = 0]
    /\ pc' = [pc EXCEPT ![p] = "done", ![d] = IF p = "user" THEN "launch0" ELSE "launch"]
    /\ halted' = FALSE
    /\ UNCHANGED <<calls, table, meta, item, sel, awaited, used>>

-----------------------------------------------------------------------------
(* The driver: _drive, and run_until_idle inside it.                        *)

(* _turn_lock is taken; a relaunched driver has slept first.                *)
drive(d) ==
    /\ pc[d] \in Waiting
    /\ TurnLockFree
    /\ current' = d
    /\ Goto(d, IF pc[d] = "launch0" THEN "turn0" ELSE "claim")
    /\ UNCHANGED <<calls, table, shown, driver, lock, stops, used>>

(* No tool call is open: a stream ends, and is preempted, only then.        *)
NoOpenTool == \A j \in tools : pc[j] = "done"

(* The initial turn returns or is preempted; any exception escapes the loop. *)
initial_turn_ends(d) ==
    /\ pc[d] = "turn0" /\ NoOpenTool
    /\ Goto(d, "claim") \/ Goto(d, "recon")
    /\ tools' = {}
    /\ UNCHANGED <<popped, table, shown, driver, current, lock, stops, used>>

claim_select(d) ==
    /\ pc[d] = "claim"
    /\ \/ /\ PendingFor(row, {inst[d]}) = {}
          /\ Goto(d, "recon")
          /\ UNCHANGED item
       \/ \E n \in Ntf : /\ IsNextPending(row, inst[d], n)
                         /\ item' = [item EXCEPT ![d] = n]
                         /\ Goto(d, "cas")
    /\ UNCHANGED <<calls, table, shown, inst, attempt, current, lock, stops, used>>

claim_update(d) ==
    /\ pc[d] = "cas"
    /\ row' = [row EXCEPT ![item[d]] = Claimed(@)]
    /\ IF row[item[d]].status = "pending"
       THEN Goto(d, "turn") /\ UNCHANGED item
       ELSE Goto(d, "recon") /\ item' = [item EXCEPT ![d] = NoOne]
    /\ UNCHANGED <<calls, clock, shown, inst, attempt, current, lock, stops, used>>

(* The claim raises (a database error): the exception leaves the loop.      *)
claim_fails(d) ==
    /\ pc[d] \in {"claim", "cas"}
    /\ item' = [item EXCEPT ![d] = NoOne]
    /\ Goto(d, "recon")
    /\ UNCHANGED <<calls, table, shown, inst, attempt, current, lock, stops, used>>

(* The turn returns, is preempted by InterruptSignal, or raises.  The last *)
(* two are handled in an except clause, where a cancellation is not caught *)
(* by the clause next to it.                                               *)
turn_ends(d) ==
    /\ pc[d] = "turn" /\ NoOpenTool
    /\ \E l \in {"complete", "preempted", "failed"} : Goto(d, l)
    /\ tools' = {}
    /\ UNCHANGED <<popped, table, shown, driver, current, lock, stops, used>>

(* Mutants: the result overwrites a row that was canceled meanwhile; a     *)
(* turn that raised is not recorded.                                       *)
finish_notification_unchecked(d) ==
    /\ pc[d] \in {"complete", "preempted", "failed"}
    /\ row' = [row EXCEPT ![item[d]].status = IF pc[d] = "failed" THEN "failed" ELSE "completed"]
    /\ item' = [item EXCEPT ![d] = NoOne]
    /\ Goto(d, "claim")
    /\ UNCHANGED <<calls, clock, shown, inst, attempt, current, lock, stops, used>>

finish_notification_unrecorded(d) ==
    /\ pc[d] \in {"complete", "preempted", "failed"}
    /\ row' = IF pc[d] = "failed" THEN row
              ELSE [row EXCEPT ![item[d]] = Finished(@, "completed")]
    /\ item' = [item EXCEPT ![d] = NoOne]
    /\ Goto(d, "claim")
    /\ UNCHANGED <<calls, clock, shown, inst, attempt, current, lock, stops, used>>

(* The write itself is taken to succeed: one that raises (executor.py:93,  *)
(* 106) ends the driver and leaves the row to the next restart.            *)
finish_notification(d) ==
    /\ pc[d] \in {"complete", "preempted", "failed"}
    /\ row' = [row EXCEPT ![item[d]] =
                 Finished(@, IF pc[d] = "failed" THEN "failed" ELSE "completed")]
    /\ item' = [item EXCEPT ![d] = NoOne]
    /\ Goto(d, "claim")
    /\ UNCHANGED <<calls, clock, shown, inst, attempt, current, lock, stops, used>>

release_notification(d) ==
    /\ pc[d] = "release"
    /\ row' = [row EXCEPT ![item[d]] = Released(@)]
    /\ item' = [item EXCEPT ![d] = NoOne]
    /\ Goto(d, "dying")
    /\ UNCHANGED <<calls, clock, shown, inst, attempt, current, lock, stops, used>>

(* Mutant: the lock a canceled driver held is not released.                 *)
driver_unwinds_locked(d) ==
    /\ pc[d] \in {"dying", "dropped"}
    /\ current' = IF current = d THEN NoOne ELSE current
    /\ item' = [item EXCEPT ![d] = NoOne]
    /\ attempt' = [attempt EXCEPT ![d] = 0]
    /\ sel' = [sel EXCEPT ![d] = {}]
    /\ Goto(d, "done")
    /\ UNCHANGED <<calls, table, shown, inst, lock, awaited, halted, used>>

(* A canceled driver unwinds: no reconciliation, no run state.              *)
driver_unwinds(d) ==
    /\ pc[d] \in {"dying", "dropped"}
    /\ current' = IF current = d THEN NoOne ELSE current
    /\ lock' = IF lock = d THEN NoOne ELSE lock
    /\ item' = [item EXCEPT ![d] = NoOne]
    /\ attempt' = [attempt EXCEPT ![d] = 0]
    /\ sel' = [sel EXCEPT ![d] = {}]
    /\ Goto(d, "done")
    /\ UNCHANGED <<calls, table, shown, inst, awaited, halted, used>>

(* Mutant: the driver does not look again after its last claim.             *)
reconcile_driver_blind(d) ==
    /\ pc[d] = "recon"
    /\ lock = NoOne
    /\ lock' = d
    /\ Goto(d, "recon_none")
    /\ UNCHANGED <<calls, table, shown, driver, current, stops, used>>

(* _reconcile_driver takes _start_lock and looks for its own pending work.  *)
reconcile_driver(d) ==
    /\ pc[d] = "recon"
    /\ lock = NoOne
    /\ lock' = d
    /\ Goto(d, IF PendingFor(row, {inst[d]}) = {} THEN "recon_none" ELSE "recon_some")
    /\ UNCHANGED <<calls, table, shown, driver, current, stops, used>>

(* Nothing found: the lock is released and _current_task cleared before    *)
(* anyone else can run.                                                    *)
driver_goes_idle(d) ==
    /\ pc[d] = "recon_none"
    /\ lock' = NoOne
    /\ current' = IF current = d THEN NoOne ELSE current
    /\ Goto(d, "stopcheck")
    /\ UNCHANGED <<calls, table, shown, driver, stops, used>>

(* Mutant: one relaunch too many.                                           *)
relaunch_driver_off_by_one(d, e) ==
    /\ pc[d] = "recon_some"
    /\ attempt[d] <= MaxRelaunch
    /\ Unused(e)
    /\ lock' = NoOne
    /\ current' = e
    /\ inst' = [inst EXCEPT ![e] = inst[d]]
    /\ attempt' = [attempt EXCEPT ![e] = attempt[d] + 1, ![d] = 0]
    /\ pc' = [pc EXCEPT ![d] = "done", ![e] = "launch"]
    /\ UNCHANGED <<calls, table, shown, item, stops, used>>

relaunch_driver(d, e) ==
    /\ pc[d] = "recon_some"
    /\ attempt[d] < MaxRelaunch
    /\ Unused(e)
    /\ lock' = NoOne
    /\ current' = e
    /\ inst' = [inst EXCEPT ![e] = inst[d]]
    /\ attempt' = [attempt EXCEPT ![e] = attempt[d] + 1, ![d] = 0]
    /\ pc' = [pc EXCEPT ![d] = "done", ![e] = "launch"]
    /\ UNCHANGED <<calls, table, shown, item, stops, used>>

(* The budget is used up: cancel_session_notifications, still under the lock. *)
give_up_select(d) ==
    /\ pc[d] = "recon_some"
    /\ attempt[d] >= MaxRelaunch
    /\ sel' = [sel EXCEPT ![d] = OutstandingFor(row, Instances)]
    /\ Goto(d, "x_flush")
    /\ UNCHANGED <<calls, table, shown, driver, current, lock, awaited, halted, used>>

CancelRows(S) == row' = [n \in Ntf |-> IF n \in S THEN Cancelled(row[n]) ELSE row[n]]

give_up_flush(d) ==
    /\ pc[d] = "x_flush"
    /\ CancelRows(sel[d])
    /\ sel' = [sel EXCEPT ![d] = {}]
    /\ lock' = NoOne
    /\ current' = IF current = d THEN NoOne ELSE current
    /\ Goto(d, "stopcheck")
    /\ UNCHANGED <<calls, clock, shown, driver, awaited, halted, used>>

-----------------------------------------------------------------------------
(* Winding down: _mark_session_stopped, which checks and then writes, and  *)
(* _publish_idle_if_inactive, which checks, reads and then publishes.  A   *)
(* driver, an interrupt and a job that found nothing pending all end with  *)
(* it; cancel_all only takes the first half.                               *)

AfterStop(p) == IF p = "cancel_all" THEN "c_jobs" ELSE "idle"

mark_session_stopped(p) ==
    /\ pc[p] = "stopcheck"
    /\ Goto(p, IF has_outstanding THEN AfterStop(p) ELSE "stopwrite")
    /\ UNCHANGED <<calls, table, shown, driver, current, lock, stops, used>>

finish_session_run(p) ==
    /\ pc[p] = "stopwrite"
    /\ meta' = [meta EXCEPT !.running = FALSE]
    /\ Goto(p, AfterStop(p))
    /\ UNCHANGED <<calls, table, live, driver, current, lock, stops, used>>

publish_idle_if_inactive(p) ==
    /\ \/ pc[p] = "idle" /\ Goto(p, IF is_running THEN "done" ELSE "idleread")
       \/ pc[p] = "idleread" /\ Goto(p, IF has_pending_main THEN "done" ELSE "idlepub")
    /\ attempt' = [d \in Drivers |-> IF d = p THEN 0 ELSE attempt[d]]
    /\ UNCHANGED <<calls, table, shown, inst, item, current, lock, stops, used>>

publish_idle(p) ==
    /\ pc[p] = "idlepub"
    /\ live' = FALSE
    /\ Goto(p, "done")
    /\ UNCHANGED <<calls, table, meta, driver, current, lock, stops, used>>

-----------------------------------------------------------------------------
(* Background commands.                                                     *)

(* A tool call of the running turn: the job and its obligation are one     *)
(* transaction, the task that runs the command is created after it.        *)
start_async_sandbox_command(d, j) ==
    /\ pc[d] \in {"turn0", "turn"}
    /\ row[j].status = "absent"
    /\ row' = [row EXCEPT ![j] = NewObligation("async_job_finished", inst[d], clock)]
    /\ clock' = clock + 1
    /\ tools' = tools \cup {j}
    /\ Goto(j, "created")
    /\ UNCHANGED <<popped, shown, driver, current, lock, stops, used>>

create_job_task(j) ==
    /\ pc[j] = "created"
    /\ Goto(j, "run")
    /\ tools' = tools \ {j}
    /\ UNCHANGED <<popped, table, shown, driver, current, lock, stops, used>>

(* Mutant: the job ends without resolving its obligation.                   *)
finish_async_job_unresolved(j) ==
    /\ pc[j] = "run"
    /\ Goto(j, "resume")
    /\ UNCHANGED <<calls, table, shown, driver, current, lock, stops, used>>

(* complete_async_job or fail_async_job: the owner is to be woken.          *)
finish_async_job(j) ==
    /\ pc[j] = "run"
    /\ row' = [row EXCEPT ![j] = Resolved(@, TRUE)]
    /\ Goto(j, "resume")
    /\ UNCHANGED <<calls, clock, shown, driver, current, lock, stops, used>>

(* The tasks _cancel_runtime_jobs can find.                                 *)
Registered ==
    {j \in Jobs \ popped : pc[j] \in Resuming \cup Settling \cup {"run"}}

(* A tool call of the running turn cancels one command: its task, which it *)
(* awaits, or the database row if there is no such task.                   *)
cancel_async_sandbox_command(d, j) ==
    /\ pc[d] \in {"turn0", "turn"}
    /\ \/ /\ j \in Registered
          /\ popped' = popped \cup {j}
          /\ tools' = tools \cup {j}
          /\ Goto(j, "jobcancel")
          /\ UNCHANGED row
       \/ /\ pc[j] = "lost"
          /\ row' = [row EXCEPT ![j] = Resolved(@, FALSE)]
          /\ Goto(j, "done")
          /\ UNCHANGED calls
    /\ UNCHANGED <<clock, shown, driver, current, lock, stops, used>>

cancel_async_job(j) ==
    /\ pc[j] = "jobcancel"
    /\ row' = [row EXCEPT ![j] = Resolved(@, FALSE)]
    /\ Goto(j, "resume")
    /\ UNCHANGED <<calls, clock, shown, driver, current, lock, stops, used>>

(* resume_session: start a driver if there is pending work, else settle.    *)
(* Taken to succeed: without a session or a user it returns, and an error   *)
(* in build_runtime_context is dropped (_resume_owner of command_jobs.py);  *)
(* what is pending then waits for the next message.                         *)
resume_session(j) ==
    /\ pc[j] = "resume"
    /\ Goto(j, CASE has_pending_main -> "recover"
                 [] ~has_pending_main /\ is_running -> "done"
                 [] ~has_pending_main /\ ~is_running -> "stopcheck")
    /\ inst' = [inst EXCEPT ![j] = meta.code]
    /\ UNCHANGED <<calls, table, shown, item, attempt, current, lock, stops, used>>

start_notification_recovery(p) ==
    /\ pc[p] = "recover"
    /\ lock = NoOne
    /\ IF is_running \/ ~has_pending_main
       THEN Goto(p, "done") /\ UNCHANGED lock
       ELSE Goto(p, "mark") /\ lock' = p
    /\ UNCHANGED <<calls, table, shown, driver, current, stops, used>>

-----------------------------------------------------------------------------
(* Stopping.                                                                *)

(* Where task.cancel() takes a driver.  A turn hands its notification back *)
(* unless the cancellation came before the claim returned; a result that   *)
(* is being recorded in an except clause, or a release, is simply dropped. *)
CanceledAt(l) ==
    CASE l \in Waiting  -> {"dropped"}
      [] l = "turn"     -> {"release", "dying"}
      [] l = "complete" -> {"release"}
      [] l = "dropped"  -> {"dropped"}
      [] OTHER          -> {"dying"}

(* What becomes of job j when the turn whose tool call created or cancels  *)
(* it is canceled: a job whose task was not created yet never runs, and    *)
(* the cancellation reaches a job that is being canceled a second time.    *)
JobCut(j) ==
    CASE pc[j] \in {"created", "jobcancel"} -> "lost"
      [] OTHER -> "done"

(* Cancels the current driver, and the open tool calls of its turn.         *)
CancelDriver(s, l) ==
    /\ \E k \in CanceledAt(pc[current]) :
          pc' = [p \in Procs |-> CASE p = s       -> l
                                   [] p = current -> k
                                   [] p \in tools -> JobCut(p)
                                   [] OTHER       -> pc[p]]
    /\ tools' = {}
    /\ awaited' = [awaited EXCEPT ![s] = current]
    /\ halted' = TRUE
    /\ UNCHANGED popped

interrupt ==
    /\ Up /\ pc["interrupt"] = "done"
    /\ used.stops + used.crashes < MaxFaults
    /\ is_running
    /\ CancelDriver("interrupt", "i_wait")
    /\ used' = [used EXCEPT !.stops = @ + 1]
    /\ UNCHANGED <<table, shown, driver, current, lock, sel>>

(* The driver is gone: cancel_main_agent_interrupted_notifications.         *)
interrupt_select ==
    /\ pc["interrupt"] = "i_wait"
    /\ pc[awaited["interrupt"]] = "done"
    /\ sel' = [sel EXCEPT !["interrupt"] = InterruptedFor(row, Instances)]
    /\ awaited' = [awaited EXCEPT !["interrupt"] = NoOne]
    /\ Goto("interrupt", "i_flush")
    /\ UNCHANGED <<calls, table, shown, driver, current, lock, halted, used>>

(* Mutant: the interrupt returns without marking the session stopped.       *)
interrupt_flush_unmarked ==
    /\ pc["interrupt"] = "i_flush"
    /\ CancelRows(sel["interrupt"])
    /\ sel' = [sel EXCEPT !["interrupt"] = {}]
    /\ Goto("interrupt", "idle")
    /\ UNCHANGED <<calls, clock, shown, driver, current, lock, awaited, halted, used>>

interrupt_flush ==
    /\ pc["interrupt"] = "i_flush"
    /\ CancelRows(sel["interrupt"])
    /\ sel' = [sel EXCEPT !["interrupt"] = {}]
    /\ Goto("interrupt", "stopcheck")
    /\ UNCHANGED <<calls, clock, shown, driver, current, lock, awaited, halted, used>>

cancel_all ==
    /\ Up /\ pc["cancel_all"] = "done"
    /\ used.stops + used.crashes < MaxFaults
    /\ used' = [used EXCEPT !.stops = @ + 1]
    /\ \/ /\ is_running
          /\ CancelDriver("cancel_all", "c_wait")
       \/ /\ ~is_running
          /\ Goto("cancel_all", "c_jobs")
          /\ UNCHANGED <<calls, awaited, halted>>
    /\ UNCHANGED <<table, shown, driver, current, lock, sel>>

cancel_all_driver_gone ==
    /\ pc["cancel_all"] = "c_wait"
    /\ pc[awaited["cancel_all"]] = "done"
    /\ awaited' = [awaited EXCEPT !["cancel_all"] = NoOne]
    /\ Goto("cancel_all", "stopcheck")
    /\ UNCHANGED <<calls, table, shown, driver, current, lock, sel, halted, used>>

(* cancel_session_async_sandbox_commands cancels every registered task.    *)
(* One that was already in an except clause (K) ends there; the others     *)
(* cancel their job and resume the owner once more.                        *)
cancel_runtime_jobs(K) ==
    /\ pc["cancel_all"] = "c_jobs"
    /\ K \subseteq Registered /\ \A j \in K : pc[j] # "run"
    /\ pc' = [p \in Procs |-> CASE p = "cancel_all" -> "c_jobwait"
                                [] p \in K -> "done"
                                [] p \in Registered \ K -> "jobcancel"
                                [] OTHER -> pc[p]]
    /\ popped' = popped \cup Registered
    /\ lock' = IF lock \in Registered THEN NoOne ELSE lock
    /\ sel' = [sel EXCEPT !["cancel_all"] = Registered]
    /\ UNCHANGED <<tools, table, shown, driver, current, awaited, halted, used>>

(* Those tasks have ended; cancel_running_async_jobs_for_session then      *)
(* resolves what is still RUNNING in the database.                         *)
cancel_running_async_jobs ==
    /\ pc["cancel_all"] = "c_jobwait"
    /\ \A j \in sel["cancel_all"] : pc[j] = "done"
    /\ row' = [n \in Ntf |-> IF n \in Jobs /\ pc[n] \in {"created", "lost", "run", "jobcancel"}
                             THEN Resolved(row[n], FALSE) ELSE row[n]]
    /\ pc' = [p \in Procs |-> CASE p = "cancel_all" -> "c_select"
                                [] p \in Jobs -> IF pc[p] = "lost" THEN "done" ELSE pc[p]
                                [] OTHER -> pc[p]]
    /\ sel' = [sel EXCEPT !["cancel_all"] = {}]
    /\ UNCHANGED <<calls, clock, shown, driver, current, lock, awaited, halted, used>>

cancel_all_select ==
    /\ pc["cancel_all"] = "c_select"
    /\ sel' = [sel EXCEPT !["cancel_all"] = OutstandingFor(row, Instances)]
    /\ Goto("cancel_all", "c_flush")
    /\ UNCHANGED <<calls, table, shown, driver, current, lock, awaited, halted, used>>

cancel_all_flush ==
    /\ pc["cancel_all"] = "c_flush"
    /\ CancelRows(sel["cancel_all"])
    /\ sel' = [sel EXCEPT !["cancel_all"] = {}]
    /\ Goto("cancel_all", "c_force")
    /\ UNCHANGED <<calls, clock, shown, driver, current, lock, awaited, halted, used>>

force_mark_session_stopped ==
    /\ pc["cancel_all"] = "c_force"
    /\ meta' = [meta EXCEPT !.running = FALSE]
    /\ Goto("cancel_all", "c_pub")
    /\ UNCHANGED <<calls, table, live, driver, current, lock, stops, used>>

cancel_all_publish ==
    /\ pc["cancel_all"] = "c_pub"
    /\ live' = FALSE
    /\ Goto("cancel_all", "done")
    /\ UNCHANGED <<calls, table, meta, driver, current, lock, stops, used>>

-----------------------------------------------------------------------------
(* The process dies at any moment and is started again.  The startup       *)
(* sequence runs before any request is accepted.                           *)

crash ==
    /\ used.crashes < MaxCrashes /\ used.stops + used.crashes < MaxFaults
    /\ used' = [used EXCEPT !.crashes = @ + 1]
    /\ pc' = [p \in Procs |-> IF p = "boot" THEN "b_jobs" ELSE "done"]
    /\ item' = [d \in Drivers |-> NoOne]
    /\ attempt' = [d \in Drivers |-> 0]
    /\ inst' = [p \in Procs |-> Anyone]
    /\ popped' = {} /\ tools' = {}
    /\ sel' = [p \in Procs |-> {}]
    /\ awaited' = [s \in Stoppers |-> NoOne]
    /\ current' = NoOne /\ lock' = NoOne
    /\ live' = FALSE /\ halted' = FALSE
    /\ UNCHANGED <<table, meta>>

(* mark_stale_running_async_jobs_failed                                     *)
boot_fail_stale_jobs ==
    /\ pc["boot"] = "b_jobs"
    /\ row' = [n \in Ntf |-> IF n \in Jobs THEN Resolved(row[n], TRUE) ELSE row[n]]
    /\ Goto("boot", "b_reset")
    /\ UNCHANGED <<calls, clock, shown, driver, current, lock, stops, used>>

reset_processing_notifications_all ==
    /\ pc["boot"] = "b_reset"
    /\ row' = [n \in Ntf |-> Reset(row[n])]
    /\ Goto("boot", "b_recover")
    /\ UNCHANGED <<calls, clock, shown, driver, current, lock, stops, used>>

(* Mutant: the startup does not start a driver.                             *)
recover_pending_sessions_idle ==
    /\ pc["boot"] = "b_recover"
    /\ Goto("boot", "done")
    /\ meta' = [meta EXCEPT !.running = @ /\ has_outstanding]
    /\ UNCHANGED <<calls, table, live, driver, current, lock, stops, used>>

(* Only a session marked running is looked at.                              *)
recover_pending_sessions ==
    /\ pc["boot"] = "b_recover"
    /\ IF meta.running /\ has_outstanding
       THEN Goto("boot", "recover")
       ELSE Goto("boot", "done")
    /\ meta' = [meta EXCEPT !.running = @ /\ has_outstanding]
    /\ inst' = [inst EXCEPT !["boot"] = meta.code]
    /\ UNCHANGED <<calls, table, live, item, attempt, current, lock, stops, used>>

-----------------------------------------------------------------------------

DriverStep(d) ==
    \/ drive(d)
    \/ initial_turn_ends(d)
    \/ claim_select(d)
    \/ claim_update(d)
    \/ turn_ends(d)
    \/ finish_notification(d)
    \/ release_notification(d)
    \/ driver_unwinds(d)
    \/ reconcile_driver(d)
    \/ driver_goes_idle(d)
    \/ \E e \in Drivers : relaunch_driver(d, e)
    \/ give_up_select(d)
    \/ give_up_flush(d)

JobStep(j) ==
    \/ create_job_task(j)
    \/ finish_async_job(j)
    \/ cancel_async_job(j)
    \/ resume_session(j)

InterruptStep == interrupt_select \/ interrupt_flush

CancelAllStep ==
    \/ cancel_all_driver_gone
    \/ \E K \in SUBSET Jobs : cancel_runtime_jobs(K)
    \/ cancel_running_async_jobs
    \/ cancel_all_select
    \/ cancel_all_flush
    \/ force_mark_session_stopped
    \/ cancel_all_publish

BootStep ==
    \/ boot_fail_stale_jobs
    \/ reset_processing_notifications_all
    \/ recover_pending_sessions

(* The steps several kinds of process share.                                *)
CommonStep(p) ==
    \/ mark_session_running(p)
    \/ \E d \in Drivers : create_driver(p, d)
    \/ start_notification_recovery(p)
    \/ mark_session_stopped(p)
    \/ finish_session_run(p)
    \/ publish_idle_if_inactive(p)
    \/ publish_idle(p)

(* What users, models and the environment may do but need not.              *)
Environment ==
    \/ \E i \in Instances : start_turn(i)
    \/ interrupt
    \/ cancel_all
    \/ crash
    \/ \E d \in Drivers : claim_fails(d)
    \/ \E d \in Drivers, j \in Jobs : \/ start_async_sandbox_command(d, j)
                                      \/ cancel_async_sandbox_command(d, j)

Next ==
    \/ Environment
    \/ \E n \in Messages : enqueue_user_message(n)
    \/ \E d \in Drivers : DriverStep(d)
    \/ \E j \in Jobs : JobStep(j)
    \/ InterruptStep
    \/ CancelAllStep
    \/ BootStep
    \/ \E p \in Procs : CommonStep(p)

(* A task that can run does run: the loop is fair, database calls return,  *)
(* a turn ends (main_max_turns, stream idle timeout), a command ends       *)
(* (timeout_seconds).                                                      *)
Fairness ==
    /\ WF_vars(\E n \in Messages : enqueue_user_message(n))
    /\ \A d \in Drivers : WF_vars(DriverStep(d))
    /\ \A j \in Jobs : WF_vars(JobStep(j))
    /\ WF_vars(InterruptStep)
    /\ WF_vars(CancelAllStep)
    /\ WF_vars(BootStep)
    /\ \A p \in Procs : WF_vars(CommonStep(p))

Spec == Init /\ [][Next]_vars

FairSpec == Spec /\ Fairness

-----------------------------------------------------------------------------

(* A stop that is going to discard row n, or may still find it.             *)
StopCovers(n) ==
    \/ pc["interrupt"] = "i_wait"
    \/ pc["interrupt"] = "i_flush" /\ n \in sel["interrupt"]
    \/ pc["cancel_all"] \in {"c_wait", "stopcheck", "stopwrite", "c_jobs", "c_jobwait", "c_select"}
    \/ pc["cancel_all"] = "c_flush" /\ n \in sel["cancel_all"]

(* Someone is going to look for the notifications that are ready, or to    *)
(* discard n.                                                              *)
Attended(n) ==
    \/ \E d \in Drivers : pc[d] \in Draining \cup {"recon_some"}
    \/ \E d \in Drivers : pc[d] = "x_flush" /\ n \in sel[d]
    \/ \E p \in Jobs \cup {"boot", "user"} : pc[p] \in Resuming
    \/ ~Up
    \/ StopCovers(n)

(* No wakeup is lost: whenever a notification is ready for the main agent, *)
(* a driver is going to look for it, a finished command is about to start  *)
(* one, a request is starting one, or a stop is about to discard it.  The  *)
(* one exception the code makes is a user message that an interrupt spared *)
(* and that waits for the next driver (start_turn against                  *)
(* _reconcile_driver, resume_session against is_running).  A restart loses *)
(* no wakeup either, unless the session's row said stopped when the        *)
(* process died (recover_pending_sessions).                                *)
NoLostWakeup ==
    \A n \in PendingFor(row, Instances) :
        \/ Attended(n)
        \/ halted /\ row[n].kind = "user_message" /\ ~row[n].started
        \/ used.crashes > 0 /\ ~meta.running

(* A notification marked PROCESSING is in the hands of a driver that will  *)
(* settle it or hand it back, even when the driver was canceled inside     *)
(* the claim or while recording the result: then the stop that canceled it *)
(* is still to discard the row.                                            *)
ProcessingHasHandler ==
    \A n \in Ntf : row[n].status = "processing" =>
        \/ \E d \in Drivers : item[d] = n /\ pc[d] \in Holding
        \/ StopCovers(n)
        \/ ~Up

(* A result that is awaited is being worked on, so the session it keeps    *)
(* "running" will be woken; only a stop that hits a tool call between the  *)
(* commit of the job and the creation of its task leaves one behind.       *)
AwaitedHasWorker ==
    \A j \in Jobs : row[j].status = "awaiting" =>
        \/ pc[j] \in {"created", "run", "jobcancel"}
        \/ pc[j] = "lost" /\ used.stops > 0
        \/ ~Up

(* What is claimed or awaited is in somebody's hands, and all is typed.    *)
ClaimedIsHandled == TypeOK /\ ProcessingHasHandler /\ AwaitedHasWorker

AllDone == \A p \in Procs : pc[p] = "done" \/ pc[p] = "lost"

(* A session at rest looks at rest: when nothing runs and nothing is       *)
(* outstanding, the database row says stopped and so did the last run      *)
(* state the clients were sent, whichever of the driver, the interrupt,    *)
(* the cancel-all and the canceled command wound it down last.             *)
SettledIsIdle == AllDone /\ ~has_outstanding => ~meta.running /\ ~live

(* The database row says running while a driver works, which is what a     *)
(* restart goes by: winding a session down is a "no-op while other work is *)
(* active" (_settle_session_idle, _mark_session_stopped).                  *)
DrivingIsMarked ==
    \A d \in Drivers : pc[d] \in Draining /\ current = d => meta.running

(* A user message that an interrupt spared, or the result of a command     *)
(* whose call a stop hit before its task was created.                      *)
LeftByStop(n) ==
    \/ halted /\ row[n].kind = "user_message" /\ ~row[n].started
    \/ n \in Jobs /\ pc[n] = "lost" /\ used.stops > 0

(* Every message and every result is dealt with in the end, but for what a *)
(* stop leaves for the next turn.                                          *)
EverythingSettles ==
    \A n \in Ntf : []<>(row[n].status \notin Outstanding \/ LeftByStop(n))

(* A message queued while an agent runs is picked up by the running loop:  *)
(* "so the running loop preempts at its next safe point without losing     *)
(* state" (_enqueue_user_message).                                         *)
QueuedMessageReachesLoop ==
    \A n \in Messages : row[n].status = "pending" ~> row[n].status # "pending"

(* A stop returns, and so does the request that started a turn: nobody     *)
(* waits for a task that waits for them.                                   *)
StopsReturn ==
    \A s \in Stoppers \cup {"user"} : []<>(pc[s] = "done")

-----------------------------------------------------------------------------
(* Refinement: every step is a statement of the notification store, or     *)
(* leaves it alone.                                                        *)

Cancelling(p) ==
    IF p = "interrupt" /\ pc[p] = "i_flush" THEN [mode |-> "interrupt", rows |-> sel[p]]
    ELSE IF pc[p] \in {"x_flush", "c_flush"} THEN [mode |-> "all", rows |-> sel[p]]
    ELSE [mode |-> "none", rows |-> {}]

Store == INSTANCE NotificationTable
    WITH Main <- Instances, Cancels <- Drivers \cup Stoppers,
         sel <- [p \in Drivers \cup Stoppers |-> Cancelling(p)]

StoreSpec == Store!Spec
=============================================================================
