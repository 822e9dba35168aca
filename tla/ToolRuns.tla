------------------------------ MODULE ToolRuns ------------------------------
(***************************************************************************)
(* Runs of toolpack tools (service/toolpack.py) and the processes they     *)
(* start in a workspace (service/sandbox/commands.py).                     *)
(*                                                                         *)
(* A run is a task: validate the workspace, start the process, await it    *)
(* with a timeout, store the result.  A request may cancel a run at any    *)
(* moment after it was started: it kills the process it finds in           *)
(* _running_processes, waits for its end, and then cancels the task.  The  *)
(* lock of _runs is never held across an await, so storing a result does   *)
(* not suspend a task.                                                     *)
(*                                                                         *)
(* Left out: how the arguments of a tool are built, what its output is     *)
(* parsed into, and the wording of the results.                            *)
(***************************************************************************)
EXTENDS Naturals, FiniteSets

CONSTANTS Runs,         \* run ids
          Cancels       \* requests that cancel a run

ASSUME RunsAssumption == Runs # {}

VARIABLES up,           \* the workspace is running
          rpc,          \* [Runs -> where its task is]
          status,       \* [Runs -> ToolRunStatus], "none" before the run
          proc,         \* [Runs -> its process: "none", "alive", "dead"]
          registered,   \* the runs in _running_processes
          hit,          \* the runs whose task has a cancellation to deliver
          cpc,          \* [Cancels -> where the request is]
          of            \* [Cancels -> the run it cancels]

toolVars == <<up, rpc, status, proc, registered, hit, cpc, of>>

Finals  == {"completed", "failed", "canceled"}
Outcome == {"completed", "failed"}
RunPC   == {"none", "validate", "spawn", "wait", "kill", "done"}

RInit ==
  /\ up = TRUE
  /\ rpc = [r \in Runs |-> "none"] /\ status = [r \in Runs |-> "none"]
  /\ proc = [r \in Runs |-> "none"]
  /\ registered = {} /\ hit = {}
  /\ cpc = [c \in Cancels |-> "none"]
  /\ of = [c \in Cancels |-> CHOOSE r \in Runs : TRUE]

(* The task resumes: a cancellation that is due is thrown into its await. *)
Resumes(r, l) == rpc[r] = l /\ r \notin hit

(* _store_result, after which the task ends. *)
Ends(r, st) == /\ status' = [status EXCEPT ![r] = st]
               /\ rpc' = [rpc EXCEPT ![r] = "done"]

(* start_tool_run: permission, task and snapshot. *)
start_tool_run(r) ==
  /\ rpc[r] = "none"
  /\ rpc' = [rpc EXCEPT ![r] = "validate"]
  /\ status' = [status EXCEPT ![r] = "running"]
  /\ UNCHANGED <<up, proc, registered, hit, cpc, of>>

(* _validate_backend and _validate_policy, and the check of                *)
(* execute_sandbox_container_command; what they raise is stored as a       *)
(* failure.                                                                *)
validate(r) ==
  /\ Resumes(r, "validate")
  /\ \/ up /\ rpc' = [rpc EXCEPT ![r] = "spawn"] /\ UNCHANGED status
     \/ Ends(r, "failed")
  /\ UNCHANGED <<up, proc, registered, hit, cpc, of>>

(* create_subprocess_exec, or the SSH connection and its process; started  *)
(* and registered without an await in between.                             *)
spawn(r) ==
  /\ Resumes(r, "spawn")
  /\ \/ /\ rpc' = [rpc EXCEPT ![r] = "wait"]
        /\ proc' = [proc EXCEPT ![r] = "alive"]
        /\ registered' = registered \cup {r}
        /\ UNCHANGED status
     \/ Ends(r, "failed") /\ UNCHANGED <<proc, registered>>
  /\ UNCHANGED <<up, hit, cpc, of>>

process_exits(r) ==
  /\ proc[r] = "alive"
  /\ proc' = [proc EXCEPT ![r] = "dead"]
  /\ UNCHANGED <<up, rpc, status, registered, hit, cpc, of>>

(* finally: the run is taken out of _running_processes; the result of the  *)
(* command is stored.                                                      *)
communicate_returns(r, st) ==
  /\ Resumes(r, "wait") /\ proc[r] = "dead"
  /\ Ends(r, st)
  /\ registered' = registered \ {r}
  /\ UNCHANGED <<up, proc, hit, cpc, of>>

(* wait_for gives up: the process is killed and waited for. *)
timeout(r) ==
  /\ Resumes(r, "wait")
  /\ rpc' = [rpc EXCEPT ![r] = "kill"]
  /\ proc' = [proc EXCEPT ![r] = "dead"]
  /\ UNCHANGED <<up, status, registered, hit, cpc, of>>

(* Mutant: a status of its own, which no client knows. *)
timed_out_misnamed(r) ==
  /\ Resumes(r, "kill")
  /\ Ends(r, "timeout")
  /\ registered' = registered \ {r}
  /\ UNCHANGED <<up, proc, hit, cpc, of>>

timed_out(r) ==
  /\ Resumes(r, "kill")
  /\ Ends(r, "failed")
  /\ registered' = registered \ {r}
  /\ UNCHANGED <<up, proc, hit, cpc, of>>

(* Mutant: the cancellation is not told from the other ends of the task. *)
task_canceled_unstored(r) ==
  /\ r \in hit /\ rpc[r] \notin {"none", "done"}
  /\ rpc' = [rpc EXCEPT ![r] = "done"]
  /\ hit' = hit \ {r}
  /\ registered' = registered \ {r}
  /\ UNCHANGED <<up, status, proc, cpc, of>>

(* CancelledError, in whatever the task awaits.  A process that was being  *)
(* started is closed by asyncio; one that was awaited is left as it is.    *)
task_canceled(r) ==
  /\ r \in hit /\ rpc[r] \notin {"none", "done"}
  /\ Ends(r, "canceled")
  /\ hit' = hit \ {r}
  /\ registered' = registered \ {r}
  /\ UNCHANGED <<up, proc, cpc, of>>

-----------------------------------------------------------------------------
(* cancel_tool_run.  A run without a process is canceled in the same step: *)
(* cancel_running_process returns without an await.                        *)

Cancels_task(r) == IF rpc[r] = "done" THEN hit ELSE hit \cup {r}

(* Mutant: the task is canceled first, and takes the process with it. *)
cancel_tool_run_task_first(c, r) ==
  /\ cpc[c] = "none" /\ rpc[r] # "none"
  /\ of' = [of EXCEPT ![c] = r]
  /\ hit' = Cancels_task(r)
  /\ cpc' = [cpc EXCEPT ![c] = "gather"]
  /\ UNCHANGED <<up, rpc, status, proc, registered>>

cancel_tool_run(c, r) ==
  /\ cpc[c] = "none" /\ rpc[r] # "none"
  /\ of' = [of EXCEPT ![c] = r]
  /\ IF r \in registered
     THEN /\ proc' = [proc EXCEPT ![r] = "dead"]
          /\ cpc' = [cpc EXCEPT ![c] = "killed"]
          /\ UNCHANGED hit
     ELSE /\ hit' = Cancels_task(r)
          /\ cpc' = [cpc EXCEPT ![c] = "gather"]
          /\ UNCHANGED proc
  /\ UNCHANGED <<up, rpc, status, registered>>

process_waited_for(c) ==
  /\ cpc[c] = "killed"
  /\ hit' = Cancels_task(of[c])
  /\ cpc' = [cpc EXCEPT ![c] = "gather"]
  /\ UNCHANGED <<up, rpc, status, proc, registered, of>>

(* The answer carries the status that is stored. *)
cancel_answers(c) ==
  /\ cpc[c] = "gather" /\ rpc[of[c]] = "done"
  /\ cpc' = [cpc EXCEPT ![c] = "done"]
  /\ UNCHANGED <<up, rpc, status, proc, registered, hit, of>>

workspace_stops ==
  /\ up' = ~up
  /\ UNCHANGED <<rpc, status, proc, registered, hit, cpc, of>>

Task(r) ==
  \/ validate(r) \/ spawn(r) \/ timeout(r) \/ timed_out(r) \/ task_canceled(r)
  \/ \E st \in Outcome : communicate_returns(r, st)

RNext ==
  \/ \E r \in Runs : start_tool_run(r) \/ process_exits(r) \/ Task(r)
  \/ \E c \in Cancels : \/ \E r \in Runs : cancel_tool_run(c, r)
                        \/ process_waited_for(c) \/ cancel_answers(c)
  \/ workspace_stops

RSpec == RInit /\ [][RNext]_toolVars

-----------------------------------------------------------------------------
RTypeOK ==
  /\ up \in BOOLEAN
  /\ rpc \in [Runs -> RunPC] /\ status \in [Runs -> Finals \cup {"none", "running"}]
  /\ proc \in [Runs -> {"none", "alive", "dead"}]
  /\ registered \subseteq Runs /\ hit \subseteq Runs
  /\ cpc \in [Cancels -> {"none", "killed", "gather", "done"}] /\ of \in [Cancels -> Runs]

(* A run that has ended has no process left, whether it was canceled,      *)
(* timed out or returned (execute_sandbox_container_command does not kill  *)
(* the process of a canceled task, cancel_tool_run must have done it).     *)
EndedHasNoProcess == \A r \in Runs : rpc[r] = "done" => proc[r] # "alive"

(* A run that is shown as running has a task that will say otherwise, and  *)
(* a cancellation is answered with a final status.                         *)
RunningHasTask == \A r \in Runs : status[r] = "running" => rpc[r] \notin {"none", "done"}
=============================================================================
