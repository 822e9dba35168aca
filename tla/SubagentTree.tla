---------------------------- MODULE SubagentTree ----------------------------
(***************************************************************************)
(* The subagents of one session (core/delegation/subagents.py): a tree of  *)
(* runs below the main agent, each with a task row, an obligation towards  *)
(* its parent (NotificationRows; row[s] is the obligation of run s and     *)
(* row[s].to its parent), and a driver that drains its notifications, goes *)
(* dormant while its own children run, and is woken when they end.         *)
(*                                                                         *)
(* Processes: the drive task of every run, the tool call that cancels one  *)
(* run ("tool"), the user's cancel-all ("all").  A step is what a task     *)
(* does between two awaits; task.cancel() is delivered at the await of its *)
(* target in a step of its own (hit).  _cancel_subagent of a dormant run   *)
(* is executed by the process that cancels it, so each process has a stack *)
(* of teardowns.  The main agent's own driver is AgentSession's: here it   *)
(* starts runs and takes the results addressed to it.                      *)
(***************************************************************************)
EXTENDS NotificationRows, Sequences, FiniteSets

CONSTANTS
    Root,           \* the main agent instance
    MaxRelaunch,    \* _MAX_SUBAGENT_RELAUNCH
    MaxCancels,     \* bound on cancel_subagent_task tool calls
    MaxAlls,        \* bound on cancel-alls
    MaxCrashes,     \* bound on restarts
    MaxTroubles     \* bound on all of these together

ASSUME TreeAssumption == Instances = Ntf \cup {Root} /\ Root \notin Ntf
ASSUME NamesAssumption == Ntf \cap {"tool", "all"} = {}   \* what stands for the processes that cancel
ASSUME BoundsAssumption == {MaxRelaunch, MaxCancels, MaxAlls, MaxCrashes, MaxTroubles} \subseteq Nat

VARIABLES
    row,        \* obligations, by run
    task,       \* [Ntf -> status of the AgentSubordinateTask row]
    owner,      \* [Ntf -> the instance whose turn started the run]
    starter,    \* [Ntf -> where the start_subagent_task_run task of the run is]
    reg,        \* the runs in _drivers
    pc,         \* [Ntf -> where the run's drive task is; "none": None or done]
    item,       \* [Ntf -> the claimed notification (a run), or the run itself for none]
    attempt,    \* [Ntf -> relaunch_attempts]
    hit,        \* runs whose drive task has a cancellation to take
    stack,      \* [Procs -> the teardowns the process executes, innermost last]
    waits,      \* [Procs -> the drive tasks the process awaits]
    cpc,        \* [Cancelers -> program counter]
    boot,       \* the startup after a crash
    stale,      \* the runs start_subagent_runtime found RUNNING
    aborted,    \* history: runs whose teardown a second cancellation broke off
    used        \* how much of each bound is used up

Cancelers == {"tool", "all"}
Procs     == Ntf \cup Cancelers

rows    == <<row, task>>
drives  == <<pc, item, attempt>>
cancels == <<stack, waits, cpc>>
births  == <<owner, starter>>
lifes   == <<boot, stale, aborted>>
treeVars == <<rows, drives, cancels, births, lifes, reg, hit, used>>

TaskStatus == {"absent", "running", "completed", "failed", "canceled"}
InTry      == {"turn0", "claim", "turn", "release", "pend", "outst", "output", "kick", "clean"}
DriveStep  == InTry \cup {"none", "teardown", "dying"}
StarterStep == {"none", "create", "register"}
Locked     == {"pend", "outst"}         \* the drive holds its driver's start_lock
FrameStep  == {"notes", "match", "stop", "wait", "inner", "sweep", "flush", "record", "kick", "clean"}
Frames     == [run : Instances, how : {"canceled", "failed"}, at : FrameStep,
               todo : SUBSET Ntf, dormant : SUBSET Ntf]

TreeTypeOK ==
    /\ row \in [Ntf -> Rows] /\ task \in [Ntf -> TaskStatus]
    /\ owner \in [Ntf -> Instances]
    /\ starter \in [Ntf -> StarterStep]
    /\ {reg, hit, stale, aborted} \subseteq SUBSET Ntf
    /\ pc \in [Ntf -> DriveStep]
    /\ item \in [Ntf -> Ntf] /\ attempt \in [Ntf -> 0..MaxRelaunch]
    /\ stack \in [Procs -> Seq(Frames)] /\ waits \in [Procs -> SUBSET Ntf]
    /\ cpc \in [Cancelers -> {"idle", "wait", "inner"}]
    /\ boot \in {"up", "reset", "stale", "cancel"}
    /\ used \in [cancels : 0..MaxCancels, alls : 0..MaxAlls, crashes : 0..MaxCrashes]

TreeInit ==
    /\ row = [s \in Ntf |-> [NoRow EXCEPT !.kind = "subagent_finished", !.to = Root]]
    /\ task = [s \in Ntf |-> "absent"]
    /\ owner = [s \in Ntf |-> Root] /\ starter = [s \in Ntf |-> "none"]
    /\ reg = {} /\ hit = {} /\ stale = {} /\ aborted = {} /\ boot = "up"
    /\ pc = [s \in Ntf |-> "none"] /\ item = [s \in Ntf |-> s]
    /\ attempt = [s \in Ntf |-> 0]
    /\ stack = [p \in Procs |-> <<>>] /\ waits = [p \in Procs |-> {}]
    /\ cpc = [c \in Cancelers |-> "idle"]
    /\ used = [cancels |-> 0, alls |-> 0, crashes |-> 0]

Up == boot = "up"
Budget == used.cancels + used.alls + used.crashes < MaxTroubles

(* A drive takes its next step: the backend is up and no cancellation is   *)
(* waiting to be taken first.                                              *)
Runs(s, l) == Up /\ pc[s] = l /\ s \notin hit

(* The drive task is there and not done: what _stop_driver_task looks at.  *)
Live(s) == pc[s] # "none"

Goto(s, l) == pc' = [pc EXCEPT ![s] = l]

Top(p)      == stack[p][Len(stack[p])]
SetTop(p, f) == [stack EXCEPT ![p][Len(stack[p])] = f]
Pop(p)      == [stack EXCEPT ![p] = SubSeq(@, 1, Len(@) - 1)]
Teardown(s, how) == [run |-> s, how |-> how, at |-> "notes", todo |-> {}, dormant |-> {}]
Push(p, s)  == [stack EXCEPT ![p] = Append(@, Teardown(s, "canceled"))]

(* The process can go on with its stack: it is no canceled drive, and it   *)
(* does not await a task.                                                  *)
Steps(p, l) == Up /\ stack[p] # <<>> /\ Top(p).at = l /\ (p \in Ntf => p \notin hit)

-----------------------------------------------------------------------------
(* Starting a run: the tool creates a shielded starter task and its turn   *)
(* goes on only when that has returned.                                    *)

Turning(i) == i # Root => (pc[i] \in {"turn0", "turn"} /\ i \notin hit)

start_subagent_task(i, s) ==
    /\ Up /\ Turning(i)
    /\ starter[s] = "none" /\ task[s] = "absent" /\ s \notin reg /\ s # i
    /\ owner' = [owner EXCEPT ![s] = i]
    /\ starter' = [starter EXCEPT ![s] = "create"]
    /\ UNCHANGED <<rows, drives, cancels, reg, hit, lifes, used>>

(* Task row and obligation are one transaction.                             *)
create_subagent_task(s) ==
    /\ Up /\ starter[s] = "create"
    /\ task' = [task EXCEPT ![s] = "running"]
    /\ row' = [row EXCEPT ![s] = NewObligation("subagent_finished", owner[s], 0)]
    /\ starter' = [starter EXCEPT ![s] = "register"]
    /\ UNCHANGED <<drives, cancels, owner, reg, hit, lifes, used>>

register_driver(s) ==
    /\ Up /\ starter[s] = "register"
    /\ starter' = [starter EXCEPT ![s] = "none"]
    /\ reg' = reg \cup {s}
    /\ Goto(s, "turn0")
    /\ UNCHANGED <<rows, item, attempt, cancels, owner, hit, lifes, used>>

-----------------------------------------------------------------------------
(* The drive: run_until_idle, then _settle_subagent.                        *)

NoOpenTool(s) == \A c \in Ntf : starter[c] # "none" => owner[c] # s

(* The initial turn returns or is preempted, or raises.                     *)
initial_turn_ends(s) ==
    /\ Runs(s, "turn0") /\ NoOpenTool(s)
    /\ \/ Goto(s, "claim") /\ UNCHANGED stack
       \/ Goto(s, "teardown") /\ stack' = [stack EXCEPT ![s] = <<Teardown(s, "failed")>>]
    /\ UNCHANGED <<rows, item, attempt, waits, cpc, births, reg, hit, lifes, used>>

claim_next_pending_notification(s) ==
    /\ Runs(s, "claim")
    /\ \/ /\ PendingFor(row, {s}) = {}
          /\ Goto(s, "pend")
          /\ UNCHANGED <<row, item>>
       \/ \E n \in PendingFor(row, {s}) :
             /\ row' = [row EXCEPT ![n] = Claimed(@)]
             /\ item' = [item EXCEPT ![s] = n]
             /\ Goto(s, "turn")
    /\ UNCHANGED <<task, attempt, cancels, births, reg, hit, lifes, used>>

notification_turn_ends(s) ==
    /\ Runs(s, "turn") /\ NoOpenTool(s)
    /\ \E r \in {"completed", "failed"} :
          row' = [row EXCEPT ![item[s]] = Finished(@, r)]
    /\ item' = [item EXCEPT ![s] = s]
    /\ Goto(s, "claim")
    /\ UNCHANGED <<task, attempt, cancels, births, reg, hit, lifes, used>>

release_notification(s) ==
    /\ Runs(s, "release")
    /\ row' = [row EXCEPT ![item[s]] = Released(@)]
    /\ item' = [item EXCEPT ![s] = s]
    /\ Goto(s, "teardown")
    /\ stack' = [stack EXCEPT ![s] = <<Teardown(s, "canceled")>>]
    /\ UNCHANGED <<task, attempt, waits, cpc, births, reg, hit, lifes, used>>

(* Mutant: a relaunch is counted twice and the budget is not checked.       *)
settle_pending_twice(s) ==
    /\ Runs(s, "pend")
    /\ IF PendingFor(row, {s}) = {} THEN Goto(s, "outst") /\ UNCHANGED attempt
       ELSE attempt' = [attempt EXCEPT ![s] = @ + 2] /\ Goto(s, "claim")
    /\ UNCHANGED <<rows, item, cancels, births, reg, hit, lifes, used>>

(* Under start_lock: a result that came after the last claim relaunches    *)
(* the driver, or fails the run when the budget is used up.                *)
settle_pending(s) ==
    /\ Runs(s, "pend")
    /\ IF PendingFor(row, {s}) = {} THEN Goto(s, "outst") /\ UNCHANGED <<attempt, stack>>
       ELSE IF attempt[s] < MaxRelaunch
       THEN /\ attempt' = [attempt EXCEPT ![s] = @ + 1]
            /\ Goto(s, "claim") /\ UNCHANGED stack
       ELSE /\ Goto(s, "teardown") /\ UNCHANGED attempt
            /\ stack' = [stack EXCEPT ![s] = <<Teardown(s, "failed")>>]
    /\ UNCHANGED <<rows, item, waits, cpc, births, reg, hit, lifes, used>>

(* Mutant: the driver finishes although its children still run.             *)
settle_outstanding_blind(s) ==
    /\ Runs(s, "outst")
    /\ Goto(s, "output")
    /\ UNCHANGED <<rows, item, attempt, cancels, births, reg, hit, lifes, used>>

(* Mutant: the driver always goes dormant.                                  *)
settle_outstanding_sleeps(s) ==
    /\ Runs(s, "outst")
    /\ Goto(s, "none")
    /\ attempt' = [attempt EXCEPT ![s] = 0]
    /\ waits' = [p \in Procs |-> waits[p] \ {s}]
    /\ UNCHANGED <<rows, item, stack, cpc, births, reg, hit, lifes, used>>

(* Still under start_lock: dormant while something is owed, else finish.   *)
(* What else the pending query missed is answered by whoever resolves it.  *)
settle_outstanding(s) ==
    /\ Runs(s, "outst")
    /\ IF OutstandingFor(row, {s}) = {} THEN Goto(s, "output") /\ UNCHANGED <<attempt, waits>>
       ELSE /\ Goto(s, "none")
            /\ attempt' = [attempt EXCEPT ![s] = 0]
            /\ waits' = [p \in Procs |-> waits[p] \ {s}]
    /\ UNCHANGED <<rows, item, stack, cpc, births, reg, hit, lifes, used>>

(* Mutant: the obligation is left to a later transaction.                   *)
FinishTask_unresolved(s, status) ==
    IF task[s] = "running"
    THEN task' = [task EXCEPT ![s] = status] /\ UNCHANGED row
    ELSE UNCHANGED rows

(* Mutant: the end of the run is not stored.                                *)
FinishTask_dropped(s, status) == UNCHANGED rows

(* _finish_subagent_task: task row and obligation in one transaction, and  *)
(* only a RUNNING row is finished.                                         *)
FinishTask(s, status) ==
    IF task[s] = "running"
    THEN /\ task' = [task EXCEPT ![s] = status]
         /\ row' = [row EXCEPT ![s] = Resolved(@, status # "canceled")]
    ELSE UNCHANGED rows

complete_subagent(s) ==
    /\ Runs(s, "output")
    /\ FinishTask(s, "completed")
    /\ Goto(s, "kick")
    /\ UNCHANGED <<item, attempt, cancels, births, reg, hit, lifes, used>>

(* Mutant: the parent is not told.                                          *)
Wakes_not(i, l) == pc' = l

(* resume_subagent_instance: a registered driver without a live task is    *)
(* given one, once its start_lock is free.                                 *)
Wakes(i, l) ==
    /\ i \in Ntf => pc[i] \notin Locked
    /\ IF i \in reg /\ pc[i] = "none"
       THEN pc' = [l EXCEPT ![i] = "claim"]
       ELSE pc' = l

resume_parent(s) ==
    /\ Runs(s, "kick")
    /\ Wakes(owner[s], [pc EXCEPT ![s] = "clean"])
    /\ UNCHANGED <<rows, item, attempt, cancels, births, reg, hit, lifes, used>>

cleanup_subagent(s) ==
    /\ Runs(s, "clean")
    /\ reg' = reg \ {s}
    /\ Goto(s, "none")
    /\ waits' = [p \in Procs |-> waits[p] \ {s}]
    /\ UNCHANGED <<rows, item, attempt, stack, cpc, births, hit, lifes, used>>

-----------------------------------------------------------------------------
(* A cancellation reaches the drive: inside the try of _drive_subagent it  *)
(* becomes _cancel_subagent; in that handler it breaks the teardown off,   *)
(* and what the teardown awaits is canceled once more (asyncio.gather).    *)

take_cancel(s) ==
    /\ Up /\ s \in hit
    /\ IF pc[s] \in InTry
       THEN /\ hit' = hit \ {s}
            /\ IF pc[s] = "turn"
               THEN Goto(s, "release") /\ UNCHANGED stack
               ELSE /\ Goto(s, "teardown")
                    /\ stack' = [stack EXCEPT ![s] = <<Teardown(s, "canceled")>>]
            /\ UNCHANGED aborted
       ELSE /\ hit' = (hit \ {s}) \cup waits[s]
            /\ Goto(s, "dying")
            /\ stack' = [stack EXCEPT ![s] = <<>>]
            /\ aborted' = aborted \cup {stack[s][n].run : n \in DOMAIN stack[s]}
    /\ UNCHANGED <<rows, item, attempt, waits, cpc, births, reg, boot, stale, used>>

(* gather raises once everything it awaits has ended.                       *)
drive_aborts(s) ==
    /\ Runs(s, "dying") /\ waits[s] = {}
    /\ Goto(s, "none")
    /\ item' = [item EXCEPT ![s] = s]
    /\ waits' = [p \in Procs |-> waits[p] \ {s}]
    /\ UNCHANGED <<rows, attempt, stack, cpc, births, reg, hit, lifes, used>>

(* One step of the innermost teardown of process p.                         *)

cancel_notifications(p) ==
    /\ Steps(p, "notes")
    /\ row' = [n \in Ntf |-> IF n \in OutstandingFor(row, {Top(p).run})
                             THEN Cancelled(row[n]) ELSE row[n]]
    /\ stack' = SetTop(p, [Top(p) EXCEPT !.at = "match"])
    /\ UNCHANGED <<task, drives, waits, cpc, births, reg, hit, lifes, used>>

match_children(p) ==
    /\ Steps(p, "match")
    /\ stack' = SetTop(p, [Top(p) EXCEPT !.at = "stop",
                             !.todo = {c \in reg : owner[c] = Top(p).run}])
    /\ UNCHANGED <<rows, drives, waits, cpc, births, reg, hit, lifes, used>>

(* _stop_driver_task, for one of the matched drivers, under its start_lock. *)
stop_driver(p, c) ==
    /\ Steps(p, "stop") /\ c \in Top(p).todo
    /\ pc[c] \notin Locked
    /\ IF Live(c)
       THEN /\ hit' = hit \cup {c}
            /\ waits' = [waits EXCEPT ![p] = @ \cup {c}]
            /\ stack' = SetTop(p, [Top(p) EXCEPT !.todo = @ \ {c}])
       ELSE /\ stack' = SetTop(p, [Top(p) EXCEPT !.todo = @ \ {c}, !.dormant = @ \cup {c}])
            /\ UNCHANGED <<hit, waits>>
    /\ UNCHANGED <<rows, drives, cpc, births, reg, lifes, used>>

(* All stopped and ended: the dormant ones are torn down here, in turn.     *)
cancel_dormant(p) ==
    /\ Steps(p, "stop") /\ Top(p).todo = {} /\ waits[p] = {}
    /\ IF Top(p).dormant = {}
       THEN stack' = SetTop(p, [Top(p) EXCEPT !.at = "sweep"])
       ELSE \E c \in Top(p).dormant :
               stack' = [stack EXCEPT ![p] =
                           Append(SetTop(p, [Top(p) EXCEPT !.dormant = @ \ {c}])[p],
                                  Teardown(c, "canceled"))]
    /\ UNCHANGED <<rows, drives, waits, cpc, births, reg, hit, lifes, used>>

(* cancel_running_child_subagent_tasks: SELECT, then write what was read.   *)
sweep_select(p) ==
    /\ Steps(p, "sweep")
    /\ stack' = SetTop(p, [Top(p) EXCEPT !.at = "flush",
                    !.todo = {c \in Ntf : task[c] = "running" /\ row[c].to = Top(p).run}])
    /\ UNCHANGED <<rows, drives, waits, cpc, births, reg, hit, lifes, used>>

SweepRows(S) ==
    /\ task' = [c \in Ntf |-> IF c \in S THEN "canceled" ELSE task[c]]
    /\ row' = [c \in Ntf |-> IF c \in S THEN Resolved(row[c], FALSE) ELSE row[c]]

sweep_flush(p) ==
    /\ Steps(p, "flush")
    /\ SweepRows(Top(p).todo)
    /\ stack' = SetTop(p, [Top(p) EXCEPT !.at = "record", !.todo = {}])
    /\ UNCHANGED <<drives, waits, cpc, births, reg, hit, lifes, used>>

finish_record(p) ==
    /\ Steps(p, "record")
    /\ FinishTask(Top(p).run, Top(p).how)
    /\ stack' = SetTop(p, [Top(p) EXCEPT !.at = "kick"])
    /\ UNCHANGED <<drives, waits, cpc, births, reg, hit, lifes, used>>

teardown_resumes_parent(p) ==
    /\ Steps(p, "kick")
    /\ Wakes(owner[Top(p).run], pc)
    /\ stack' = SetTop(p, [Top(p) EXCEPT !.at = "clean"])
    /\ UNCHANGED <<rows, item, attempt, waits, cpc, births, reg, hit, lifes, used>>

(* _cleanup_subagent; the drive's own teardown is the end of the drive.     *)
teardown_cleans(p) ==
    /\ Steps(p, "clean")
    /\ reg' = reg \ {Top(p).run}
    /\ stack' = Pop(p)
    /\ IF p \in Ntf /\ Len(stack[p]) = 1
       THEN /\ Goto(p, "none")
            /\ waits' = [q \in Procs |-> waits[q] \ {p}]
       ELSE UNCHANGED <<pc, waits>>
    /\ UNCHANGED <<rows, item, attempt, cpc, births, hit, lifes, used>>

-----------------------------------------------------------------------------
(* cancel_subagent_task_run, called as a tool.                              *)

cancel_subagent_task(s) ==
    /\ Up /\ cpc["tool"] = "idle" /\ used.cancels < MaxCancels /\ Budget
    /\ task[s] # "absent"
    /\ s \in reg => pc[s] \notin Locked
    /\ used' = [used EXCEPT !.cancels = @ + 1]
    /\ IF s \notin reg
       THEN FinishTask(s, "canceled") /\ UNCHANGED <<cancels, hit>>
       ELSE IF Live(s)
       THEN /\ hit' = hit \cup {s}
            /\ waits' = [waits EXCEPT !["tool"] = {s}]
            /\ cpc' = [cpc EXCEPT !["tool"] = "wait"]
            /\ UNCHANGED <<rows, stack>>
       ELSE /\ stack' = Push("tool", s)
            /\ cpc' = [cpc EXCEPT !["tool"] = "wait"]
            /\ UNCHANGED <<rows, hit, waits>>
    /\ UNCHANGED <<drives, births, reg, lifes>>

tool_returns ==
    /\ Up /\ cpc["tool"] = "wait"
    /\ waits["tool"] = {} /\ stack["tool"] = <<>>
    /\ cpc' = [cpc EXCEPT !["tool"] = "idle"]
    /\ UNCHANGED <<rows, drives, stack, waits, births, reg, hit, lifes, used>>

(* The turn that called the tool is canceled: the task it awaits is        *)
(* canceled again, and a teardown it executes itself is broken off.        *)
tool_canceled ==
    /\ Up /\ cpc["tool"] = "wait"
    /\ hit' = hit \cup waits["tool"]
    /\ waits' = [waits EXCEPT !["tool"] = {}]
    /\ aborted' = aborted \cup {stack["tool"][n].run : n \in DOMAIN stack["tool"]}
    /\ stack' = [stack EXCEPT !["tool"] = <<>>]
    /\ cpc' = [cpc EXCEPT !["tool"] = "idle"]
    /\ UNCHANGED <<rows, drives, births, reg, boot, stale, used>>

-----------------------------------------------------------------------------
(* cancel_session_subagent_runs: starters, then drivers, then rows.  It is *)
(* executed with one frame for the whole session, run = Root.              *)

cancel_session_starters ==
    /\ Up /\ cpc["all"] = "idle" /\ used.alls < MaxAlls /\ Budget
    /\ used' = [used EXCEPT !.alls = @ + 1]
    /\ starter' = [s \in Ntf |-> "none"]
    /\ cpc' = [cpc EXCEPT !["all"] = "wait"]
    /\ UNCHANGED <<rows, drives, stack, waits, owner, reg, hit, lifes>>

cancel_session_drivers ==
    /\ Up /\ cpc["all"] = "wait"
    /\ stack' = [stack EXCEPT !["all"] =
                   <<[Teardown(Root, "canceled") EXCEPT !.at = "stop", !.todo = reg]>>]
    /\ cpc' = [cpc EXCEPT !["all"] = "inner"]
    /\ UNCHANGED <<rows, drives, waits, births, reg, hit, lifes, used>>

cancel_session_select ==
    /\ Up /\ cpc["all"] = "inner" /\ Len(stack["all"]) = 1 /\ Top("all").at = "sweep"
    /\ stack' = SetTop("all", [Top("all") EXCEPT !.at = "flush",
                                 !.todo = {c \in Ntf : task[c] = "running"}])
    /\ UNCHANGED <<rows, drives, waits, cpc, births, reg, hit, lifes, used>>

cancel_session_flush ==
    /\ Up /\ cpc["all"] = "inner" /\ Len(stack["all"]) = 1 /\ Top("all").at = "flush"
    /\ SweepRows(Top("all").todo)
    /\ stack' = [stack EXCEPT !["all"] = <<>>]
    /\ cpc' = [cpc EXCEPT !["all"] = "idle"]
    /\ UNCHANGED <<drives, waits, births, reg, hit, lifes, used>>

-----------------------------------------------------------------------------
(* A crash, and start_subagent_runtime.                                     *)

backend_crash ==
    /\ used.crashes < MaxCrashes /\ Budget
    /\ used' = [used EXCEPT !.crashes = @ + 1]
    /\ starter' = [s \in Ntf |-> "none"]
    /\ reg' = {} /\ hit' = {} /\ stale' = {} /\ aborted' = {} /\ boot' = "reset"
    /\ pc' = [s \in Ntf |-> "none"] /\ item' = [s \in Ntf |-> s]
    /\ attempt' = [s \in Ntf |-> 0]
    /\ stack' = [p \in Procs |-> <<>>] /\ waits' = [p \in Procs |-> {}]
    /\ cpc' = [c \in Cancelers |-> "idle"]
    /\ UNCHANGED <<rows, owner>>

reset_processing_notifications_all ==
    /\ boot = "reset"
    /\ row' = [n \in Ntf |-> Reset(row[n])]
    /\ boot' = "stale"
    /\ UNCHANGED <<task, drives, cancels, births, reg, hit, stale, aborted, used>>

mark_stale_running_subagent_tasks_failed ==
    /\ boot = "stale"
    /\ stale' = {s \in Ntf : task[s] = "running"}
    /\ task' = [s \in Ntf |-> IF s \in stale' THEN "failed" ELSE task[s]]
    /\ row' = [s \in Ntf |-> IF s \in stale' THEN Resolved(row[s], TRUE) ELSE row[s]]
    /\ boot' = "cancel"
    /\ UNCHANGED <<drives, cancels, births, reg, hit, aborted, used>>

(* For each of them: its own notifications are canceled, nobody will ever  *)
(* claim them.                                                             *)
cancel_stale_notifications ==
    /\ boot = "cancel"
    /\ row' = [n \in Ntf |-> IF n \in OutstandingFor(row, stale) THEN Cancelled(row[n]) ELSE row[n]]
    /\ stale' = {} /\ boot' = "up"
    /\ UNCHANGED <<task, drives, cancels, births, reg, hit, aborted, used>>

(* The main agent's driver takes a result (AgentSession).                   *)
root_takes(n) ==
    /\ Up /\ n \in PendingFor(row, {Root})
    /\ row' = [row EXCEPT ![n] = Finished(Claimed(@), "completed")]
    /\ UNCHANGED <<task, drives, cancels, births, reg, hit, lifes, used>>

-----------------------------------------------------------------------------
Drive(s) ==
    \/ initial_turn_ends(s) \/ claim_next_pending_notification(s)
    \/ notification_turn_ends(s) \/ release_notification(s)
    \/ settle_pending(s) \/ settle_outstanding(s)
    \/ complete_subagent(s) \/ resume_parent(s) \/ cleanup_subagent(s)
    \/ take_cancel(s) \/ drive_aborts(s)

TeardownStep(p) ==
    \/ p # "all" /\ (sweep_select(p) \/ sweep_flush(p))
    \/ p = "all" /\ Len(stack[p]) > 1 /\ (sweep_select(p) \/ sweep_flush(p))
    \/ cancel_notifications(p) \/ match_children(p) \/ cancel_dormant(p)
    \/ \E c \in Ntf : stop_driver(p, c)
    \/ finish_record(p) \/ teardown_resumes_parent(p) \/ teardown_cleans(p)

CancelAll == cancel_session_drivers \/ cancel_session_select \/ cancel_session_flush

Startup ==
    \/ reset_processing_notifications_all
    \/ mark_stale_running_subagent_tasks_failed
    \/ cancel_stale_notifications

TreeNext ==
    \/ \E s \in Ntf, i \in Instances : start_subagent_task(i, s)
    \/ \E s \in Ntf : create_subagent_task(s) \/ register_driver(s) \/ root_takes(s)
    \/ \E s \in Ntf : Drive(s) \/ cancel_subagent_task(s)
    \/ \E p \in Procs : TeardownStep(p)
    \/ tool_returns \/ tool_canceled
    \/ cancel_session_starters \/ CancelAll
    \/ backend_crash \/ Startup

TreeSpec == TreeInit /\ [][TreeNext]_treeVars

-----------------------------------------------------------------------------
(* Properties.                                                              *)

(* Process p is about to wake instance i.                                   *)
WillWake(p, i) ==
    \/ p \in Ntf /\ pc[p] = "kick" /\ owner[p] = i
    \/ \E n \in DOMAIN stack[p] : /\ stack[p][n].at \notin {"clean"}
                                   /\ stack[p][n].run \in Ntf
                                   /\ owner[stack[p][n].run] = i

(* No second cancellation broke off the teardown of the run or a child.    *)
Intact(s) == s \notin aborted /\ \A c \in aborted : owner[c] # s

(* No lost wake-up in the tree: a result that is ready for a registered    *)
(* run is claimed by a drive of that run or some task is about to start    *)
(* one, unless a teardown of it or of a child was broken off               *)
(* (_settle_subagent looks again under start_lock; everyone who resolves   *)
(* an obligation kicks its recipient).                                     *)
ReadyIsAttended ==
    \A s \in reg :
        (/\ Up /\ pc[s] = "none" /\ PendingFor(row, {s}) # {}
         /\ Intact(s))
        => \E p \in Procs : WillWake(p, s)

(* Nobody waits for a run that is over: the task row and the obligation of *)
(* its parent change in one transaction, whoever ends the run, also when   *)
(* a sweep writes rows it read before somebody else finished them.         *)
ObligationFollowsTask ==
    \A s \in Ntf : /\ row[s].status = "awaiting" => task[s] = "running"
                   /\ task[s] = "running" => row[s].status \in {"awaiting", "canceled"}

(* A dormant driver is owed something that will wake it: a running task    *)
(* whose registered driver has no drive has outstanding notifications, or  *)
(* is being torn down (a cancel-all in progress does that to every run).   *)
DormantIsOwed ==
    \A s \in reg :
        (Up /\ pc[s] = "none" /\ task[s] = "running" /\ Intact(s) /\ cpc["all"] = "idle")
        => \/ OutstandingFor(row, {s}) # {}
           \/ \E p \in Procs : WillWake(p, s)
           \/ \E p \in Procs : \E n \in DOMAIN stack[p] : stack[p][n].run = s

(* A task row says RUNNING only while something is there to end it: a      *)
(* starter, a registered driver, or the cancel-all that took the starter.  *)
RunningHasDriver ==
    \A s \in Ntf : (Up /\ task[s] = "running")
                   => s \in reg \/ starter[s] # "none" \/ cpc["all"] # "idle"

(* A run that completes has heard of all its children: while the result of *)
(* a child is awaited, the parent has not completed, unless its teardown   *)
(* was broken off.  (The startup ends the children of a crash first.)       *)
CompletedHasHeard ==
    \A c \in Ntf : (Up /\ row[c].status = "awaiting" /\ owner[c] \in Ntf \ aborted)
                   => task[owner[c]] # "completed"

(* A subagent that owes its parent an answer is never left alone: a ready  *)
(* result or message has a driver to take it or one about to start, a      *)
(* dormant run has work that will wake it, and a completed run has heard   *)
(* of all its children (_settle_subagent, resume_subagent_instance,        *)
(* _complete_subagent).                                                    *)
OwedIsHeard == ReadyIsAttended /\ DormantIsOwed /\ CompletedHasHeard

(* A run's task row, its obligation towards its parent and its driver tell *)
(* the same story (_complete_subagent, _teardown_subtree,                  *)
(* start_subagent_runtime).                                                *)
RunsAreSettled == TreeTypeOK /\ ObligationFollowsTask /\ RunningHasDriver
=============================================================================
