------------------------- MODULE AgentSessionProofs -------------------------
(***************************************************************************)
(* The session driver, for any number of messages, commands, agents,       *)
(* driver tasks and relaunches.  First: which tasks can be where, who      *)
(* holds the start lock, in whose hands a claimed or awaited notification  *)
(* is.  Then what a session promises the rest of the program: no wakeup is *)
(* lost while it has one main agent, a session at rest looks at rest, and  *)
(* it calls the notification store only in ways the store allows (every    *)
(* step of its tasks is one statement of the store, or none).              *)
(***************************************************************************)
EXTENDS AgentSession, TLAPS

-----------------------------------------------------------------------------
(* The inductive invariant: what the tasks of a session are up to together. *)

Reconciling == {"recon_none", "recon_some", "x_flush"}
Dying       == {"dying", "dropped"}

(* The startup sequence is alone.                                           *)
BootAlone ==
    ~Up => /\ \A p \in Procs \ {"boot"} : pc[p] = "done"
           /\ used.crashes > 0

(* _current_task is the one driver that is not on its way out.              *)
OneDriver ==
    \A d \in Drivers :
        /\ pc[d] \in Draining \cup Reconciling => current = d
        /\ current = d => pc[d] \in Draining \cup Reconciling \cup Dying

(* _start_lock is held by a driver that reconciles, and by a request or a  *)
(* job that starts a driver, while there is none.                          *)
Locks ==
    /\ \A d \in Drivers : pc[d] \in Reconciling => lock = d
    /\ \A p \in Procs : pc[p] \in {"mark", "spawn"} => lock = p /\ current = NoOne

(* A driver was canceled by a stop that still waits for it.                 *)
WaitPC(s) == IF s = "interrupt" THEN "i_wait" ELSE "c_wait"

Stops ==
    \A d \in Drivers : pc[d] \in Dying \cup {"release"} =>
        /\ \E s \in Stoppers : awaited[s] = d /\ pc[s] = WaitPC(s)
        /\ current = d => halted

(* A message is queued only while a driver is there to see it, or after a  *)
(* stop took the driver away.                                              *)
Queueing ==
    pc["user"] = "enqueue" =>
        /\ lock = "user"
        /\ halted \/ \E d \in Drivers : pc[d] \in Draining

(* A tool call is not open on a command that already runs by itself.        *)
ToolsApart == \A j \in tools : pc[j] \notin {"run", "lost"}

Control ==
    /\ TypeOK
    /\ BootAlone
    /\ OneDriver
    /\ Locks
    /\ Stops
    /\ Queueing
    /\ ToolsApart

(* A driver that has claimed a row, or is about to, knows which.            *)
ItemsAreRows == \A d \in Drivers : pc[d] \in {"cas"} \cup Holding => item[d] \in Ntf

StartedIsClaimed == \A n \in Ntf : row[n].status = "processing" => row[n].started

(* ProcessingHasHandler and AwaitedHasWorker as a restart leaves them: only *)
(* the startup steps that settle the rows excuse a row without anyone.     *)
ProcessingIsHeld ==
    \A n \in Ntf : row[n].status = "processing" =>
        \/ \E d \in Drivers : item[d] = n /\ pc[d] \in Holding
        \/ StopCovers(n)
        \/ pc["boot"] \in {"b_jobs", "b_reset"}

AwaitedIsWorkedOn ==
    \A j \in Jobs : row[j].status = "awaiting" =>
        \/ pc[j] \in {"created", "run", "jobcancel"}
        \/ pc[j] = "lost" /\ used.stops > 0
        \/ pc["boot"] = "b_jobs"

Held ==
    /\ Control
    /\ ItemsAreRows
    /\ StartedIsClaimed
    /\ ProcessingIsHeld
    /\ AwaitedIsWorkedOn

-----------------------------------------------------------------------------
(* Types.                                                                   *)

(* Every statement writes a legal row.                                      *)
LEMMA RowTypes ==
    ASSUME NEW r \in Rows
    PROVE  /\ Resolved(r, TRUE) \in Rows /\ Resolved(r, FALSE) \in Rows
           /\ Claimed(r) \in Rows
           /\ Finished(r, "completed") \in Rows /\ Finished(r, "failed") \in Rows
           /\ Released(r) \in Rows
           /\ Cancelled(r) \in Rows
           /\ Reset(r) \in Rows
  BY DEF Rows, Statuses, Outstanding, Terminal, Kinds, Resolved, Claimed,
         Finished, Released, Cancelled, Reset

(* The rows that add_obligation and enqueue_user_message insert are rows.  *)
LEMMA NewRowTypes ==
    ASSUME NEW i \in Instances, NEW b \in Nat
    PROVE  /\ NewObligation("async_job_finished", i, b) \in Rows
           /\ NewUserMessage(i, b) \in Rows
           /\ NoRow \in Rows
<1>1. (CHOOSE x \in Instances : TRUE) \in Instances
  BY InstancesAssumption, Zenon
<1> QED BY <1>1 DEF Rows, Statuses, Outstanding, Terminal, Kinds, NewObligation,
                    NewUserMessage, NoRow

(* The types in two parts: where the tasks are, and what they hold.          *)
PCOf(p) ==
    IF p \in Drivers THEN DriverPC
    ELSE IF p \in Jobs THEN JobPC
    ELSE CASE p = "user" -> UserPC
           [] p = "boot" -> BootPC
           [] p = "interrupt" -> IntPC
           [] p = "cancel_all" -> AllPC

PCTypes == pc = [p \in Procs |-> pc[p]] /\ \A p \in Procs : pc[p] \in PCOf(p)

DataTypes ==
    /\ row \in [Ntf -> Rows] /\ clock \in Nat
    /\ meta \in [running : BOOLEAN, code : Instances] /\ live \in BOOLEAN
    /\ inst \in [Procs -> Instances]
    /\ item \in [Drivers -> Ntf \cup {NoOne}]
    /\ attempt \in [Drivers -> 0..MaxRelaunch]
    /\ current \in Drivers \cup {NoOne}
    /\ lock \in Procs \cup {NoOne}
    /\ popped \subseteq Jobs /\ tools \subseteq Jobs
    /\ sel \in [Procs -> SUBSET Ntf]
    /\ awaited \in [Stoppers -> Drivers \cup {NoOne}]
    /\ halted \in BOOLEAN
    /\ used \in [turns : 0..MaxTurns, stops : 0..MaxFaults, crashes : 0..MaxCrashes]

(* The type invariant is that of the program counters and that of the      *)
(* data.                                                                   *)
LEMMA TypeParts == TypeOK <=> PCTypes /\ DataTypes
<1>1. TypeOK => PCTypes /\ DataTypes
  BY NamesAssumption DEF TypeOK, PCTypes, DataTypes, PCOf, Procs, Stoppers
<1>2. PCTypes /\ DataTypes => TypeOK
  <2> SUFFICES ASSUME PCTypes, DataTypes PROVE TypeOK
    OBVIOUS
  <2>1. \A p \in Procs : PCOf(p) \subseteq DriverPC \cup JobPC \cup UserPC \cup BootPC \cup IntPC \cup AllPC
    BY NamesAssumption DEF PCOf, Procs, Stoppers
  <2>2. \A d \in Drivers : pc[d] \in DriverPC
    BY DEF PCTypes, PCOf, Procs
  <2>3. \A j \in Jobs : pc[j] \in JobPC
    BY NamesAssumption DEF PCTypes, PCOf, Procs
  <2>4. /\ pc["user"] \in UserPC /\ pc["boot"] \in BootPC
        /\ pc["interrupt"] \in IntPC /\ pc["cancel_all"] \in AllPC
    BY NamesAssumption DEF PCTypes, PCOf, Procs, Stoppers
  <2> QED BY <2>1, <2>2, <2>3, <2>4 DEF TypeOK, PCTypes, DataTypes
<1> QED BY <1>1, <1>2

-----------------------------------------------------------------------------

(* What a step leaves in the rows and the other data is typed.              *)
LEMMA DataStep == TypeOK /\ [Next]_vars => DataTypes'
<1> USE DEF calls, table, shown, driver, stops
<1> SUFFICES ASSUME TypeOK, DataTypes, [Next]_vars PROVE DataTypes'
  BY TypeParts
<1>1. ASSUME NEW i \in Instances, start_turn(i) PROVE DataTypes'
  BY <1>1, BoundsAssumption DEF start_turn, DataTypes, Procs
<1>2. CASE interrupt
  BY <1>2, BoundsAssumption DEF interrupt, CancelDriver, DataTypes, Stoppers
<1>3. CASE cancel_all
  <2>1. used' \in [turns : 0..MaxTurns, stops : 0..MaxFaults, crashes : 0..MaxCrashes]
    BY <1>3, BoundsAssumption DEF cancel_all, DataTypes
  <2> QED BY <1>3, <2>1 DEF cancel_all, CancelDriver, DataTypes, Stoppers
<1>4. CASE crash
  <2>1. Anyone \in Instances
    BY InstancesAssumption DEF Anyone
  <2>2. used' \in [turns : 0..MaxTurns, stops : 0..MaxFaults, crashes : 0..MaxCrashes]
    BY <1>4, BoundsAssumption DEF crash, DataTypes
  <2>3. 0 \in 0..MaxRelaunch
    BY BoundsAssumption
  <2> QED BY <1>4, <2>1, <2>2, <2>3 DEF crash, DataTypes
<1>5. ASSUME NEW d \in Drivers, claim_fails(d) PROVE DataTypes'
  BY <1>5 DEF claim_fails, DataTypes
<1>6. ASSUME NEW d \in Drivers, NEW j \in Jobs, start_async_sandbox_command(d, j)
      PROVE  DataTypes'
  <2>1. inst[d] \in Instances /\ clock + 1 \in Nat
    BY DEF DataTypes, Procs
  <2>2. row' \in [Ntf -> Rows]
    BY <1>6, <2>1, NewRowTypes DEF start_async_sandbox_command, DataTypes
  <2> QED BY <1>6, <2>1, <2>2 DEF start_async_sandbox_command, DataTypes
<1>7. ASSUME NEW d \in Drivers, NEW j \in Jobs, cancel_async_sandbox_command(d, j)
      PROVE  DataTypes'
  <2>1. row' \in [Ntf -> Rows]
    <3>1. row' = row \/ row' = [row EXCEPT ![j] = Resolved(@, FALSE)]
      BY <1>7 DEF cancel_async_sandbox_command
    <3>2. CASE row' = [row EXCEPT ![j] = Resolved(@, FALSE)]
      BY <3>2, RowTypes DEF DataTypes
    <3> QED BY <3>1, <3>2 DEF DataTypes
  <2> QED BY <1>7, <2>1 DEF cancel_async_sandbox_command, DataTypes
<1>8. ASSUME NEW n \in Messages, enqueue_user_message(n) PROVE DataTypes'
  BY <1>8, NewRowTypes DEF enqueue_user_message, Messages, DataTypes, Procs
<1>9. ASSUME NEW d \in Drivers, DriverStep(d) PROVE DataTypes'
  <2>1. CASE drive(d) \/ initial_turn_ends(d) \/ claim_select(d) \/ turn_ends(d)
    BY <2>1 DEF drive, initial_turn_ends, claim_select, turn_ends, DataTypes
  <2>2. CASE claim_update(d)
    BY <2>2, RowTypes DEF claim_update, DataTypes
  <2>3. CASE finish_notification(d)
    BY <2>3, RowTypes DEF finish_notification, DataTypes
  <2>4. CASE release_notification(d)
    BY <2>4, RowTypes DEF release_notification, DataTypes
  <2>5. CASE driver_unwinds(d)
    BY <2>5, BoundsAssumption DEF driver_unwinds, DataTypes, Procs
  <2>6. CASE reconcile_driver(d) \/ driver_goes_idle(d)
    BY <2>6 DEF reconcile_driver, driver_goes_idle, DataTypes, Procs
  <2>7. ASSUME NEW e \in Drivers, relaunch_driver(d, e) PROVE DataTypes'
    BY <2>7, BoundsAssumption DEF relaunch_driver, DataTypes, Procs
  <2>8. CASE give_up_select(d)
    BY <2>8 DEF give_up_select, OutstandingFor, DataTypes
  <2>9. CASE give_up_flush(d)
    BY <2>9, RowTypes DEF give_up_flush, CancelRows, DataTypes
  <2> QED BY <1>9, <2>1, <2>2, <2>3, <2>4, <2>5, <2>6, <2>7, <2>8, <2>9 DEF DriverStep
<1>10. ASSUME NEW j \in Jobs, JobStep(j) PROVE DataTypes'
  <2>1. CASE create_job_task(j)
    BY <2>1 DEF create_job_task, DataTypes
  <2>2. CASE finish_async_job(j)
    BY <2>2, RowTypes DEF finish_async_job, DataTypes
  <2>3. CASE cancel_async_job(j)
    BY <2>3, RowTypes DEF cancel_async_job, DataTypes
  <2>4. CASE resume_session(j)
    <3>1. meta.code \in Instances
      BY DEF DataTypes
    <3> QED BY <2>4, <3>1 DEF resume_session, DataTypes
  <2> QED BY <1>10, <2>1, <2>2, <2>3, <2>4 DEF JobStep
<1>11. CASE InterruptStep
  <2>1. CASE interrupt_select
    BY <2>1 DEF interrupt_select, InterruptedFor, DataTypes, Stoppers
  <2>2. CASE interrupt_flush
    BY <2>2, RowTypes DEF interrupt_flush, CancelRows, DataTypes
  <2> QED BY <1>11, <2>1, <2>2 DEF InterruptStep
<1>12. CASE CancelAllStep
  <2>1. CASE cancel_all_driver_gone \/ force_mark_session_stopped \/ cancel_all_publish
    BY <2>1 DEF cancel_all_driver_gone, force_mark_session_stopped, cancel_all_publish,
                DataTypes, Stoppers
  <2>2. ASSUME NEW K \in SUBSET Jobs, cancel_runtime_jobs(K) PROVE DataTypes'
    BY <2>2, JobsAssumption DEF cancel_runtime_jobs, Registered, DataTypes
  <2>3. CASE cancel_running_async_jobs
    BY <2>3, RowTypes DEF cancel_running_async_jobs, DataTypes
  <2>4. CASE cancel_all_select
    BY <2>4 DEF cancel_all_select, OutstandingFor, DataTypes
  <2>5. CASE cancel_all_flush
    BY <2>5, RowTypes DEF cancel_all_flush, CancelRows, DataTypes
  <2> QED BY <1>12, <2>1, <2>2, <2>3, <2>4, <2>5 DEF CancelAllStep
<1>13. CASE BootStep
  <2>1. CASE boot_fail_stale_jobs
    BY <2>1, RowTypes DEF boot_fail_stale_jobs, DataTypes
  <2>2. CASE reset_processing_notifications_all
    BY <2>2, RowTypes DEF reset_processing_notifications_all, DataTypes
  <2>3. CASE recover_pending_sessions
    <3>1. meta' \in [running : BOOLEAN, code : Instances] /\ meta.code \in Instances
      BY <2>3 DEF recover_pending_sessions, DataTypes
    <3> QED BY <2>3, <3>1 DEF recover_pending_sessions, DataTypes
  <2> QED BY <1>13, <2>1, <2>2, <2>3 DEF BootStep
<1>14. ASSUME NEW p \in Procs, CommonStep(p) PROVE DataTypes'
  <2>1. ASSUME NEW d \in Drivers, create_driver(p, d) PROVE DataTypes'
    <3>1. d \in Procs
      BY DEF Procs
    <3>2. 0 \in 0..MaxRelaunch
      BY BoundsAssumption
    <3> QED BY <2>1, <3>1, <3>2 DEF create_driver, DataTypes
  <2>2. CASE mark_session_running(p)
    <3>1. meta' \in [running : BOOLEAN, code : Instances]
      BY <2>2 DEF mark_session_running, DataTypes
    <3> QED BY <2>2, <3>1 DEF mark_session_running, DataTypes
  <2>5. CASE start_notification_recovery(p)
    BY <2>5 DEF start_notification_recovery, DataTypes
  <2>3. CASE mark_session_stopped(p) \/ finish_session_run(p) \/ publish_idle(p)
    BY <2>3 DEF mark_session_stopped, finish_session_run, publish_idle, DataTypes
  <2>4. CASE publish_idle_if_inactive(p)
    BY <2>4, BoundsAssumption DEF publish_idle_if_inactive, DataTypes
  <2> QED BY <1>14, <2>1, <2>2, <2>3, <2>4, <2>5 DEF CommonStep
<1>15. CASE UNCHANGED vars
  BY <1>15 DEF vars, DataTypes
<1> QED BY <1>1, <1>2, <1>3, <1>4, <1>5, <1>6, <1>7, <1>8, <1>9, <1>10, <1>11, <1>12, <1>13,
           <1>14, <1>15 DEF Next, Environment

(* No step takes a task where its kind cannot be.                           *)
LEMMA GotoTypes ==
    ASSUME PCTypes, NEW p \in Procs, NEW l, Goto(p, l), l \in PCOf(p)
    PROVE  PCTypes'
<1>1. pc' = [q \in Procs |-> pc'[q]]
  BY DEF PCTypes, Goto
<1>2. \A q \in Procs : pc'[q] \in PCOf(q)
  BY DEF PCTypes, Goto
<1>3. \A q \in Procs : PCOf(q)' = PCOf(q)
  BY DEF PCOf
<1> QED BY <1>1, <1>2 DEF PCTypes, PCOf

(* The kinds of tasks are apart.                                            *)
LEMMA ProcKinds ==
    /\ \A d \in Drivers : d \in Procs /\ PCOf(d) = DriverPC
    /\ \A j \in Jobs : j \in Procs /\ PCOf(j) = JobPC
    /\ {"user", "boot", "interrupt", "cancel_all"} \subseteq Procs
    /\ PCOf("user") = UserPC /\ PCOf("boot") = BootPC
    /\ PCOf("interrupt") = IntPC /\ PCOf("cancel_all") = AllPC
    /\ \A p \in Procs : p \in Drivers \/ p \in Jobs \/ p \in {"user", "boot", "interrupt", "cancel_all"}
    /\ \A p \in Procs : "done" \in PCOf(p)
  BY NamesAssumption DEF PCOf, Procs, Stoppers, DriverPC, JobPC, UserPC, BootPC, IntPC, AllPC

(* No step takes a task to a counter that is not of its kind.              *)
LEMMA PCStep == TypeOK /\ [Next]_vars => PCTypes'
<1> USE DEF DriverPC, JobPC, UserPC, BootPC, IntPC, AllPC, Draining, Waiting, Holding, Settling,
            Resuming
<1> SUFFICES ASSUME TypeOK, PCTypes, [Next]_vars PROVE PCTypes'
  BY TypeParts
<1>0. \A p \in Procs : PCOf(p)' = PCOf(p)
  BY DEF PCOf
<1>g. \A p \in Procs : \A l \in PCOf(p) : Goto(p, l) => PCTypes'
  BY GotoTypes
<1>m. (pc' = [p \in Procs |-> pc'[p]] /\ \A p \in Procs : pc'[p] \in PCOf(p)) => PCTypes'
  BY <1>0 DEF PCTypes
<1>t. ASSUME NEW p \in Procs, NEW q \in Procs, NEW l \in PCOf(p), NEW k \in PCOf(q),
             pc' = [pc EXCEPT ![p] = l, ![q] = k]
      PROVE  PCTypes'
  <2>1. pc' = [r \in Procs |-> pc'[r]]
    BY <1>t DEF PCTypes
  <2>2. \A r \in Procs : pc'[r] \in PCOf(r)
    BY <1>t DEF PCTypes
  <2> QED BY <2>1, <2>2, <1>m
<1>1. ASSUME NEW i \in Instances, start_turn(i) PROVE PCTypes'
  BY <1>1, <1>g, ProcKinds DEF start_turn
<1>2. ASSUME NEW s \in Stoppers, NEW l \in PCOf(s), is_running, CancelDriver(s, l)
      PROVE  PCTypes'
  <2>1. s \in Procs /\ current \in Drivers
    BY <1>2 DEF TypeOK, is_running, Procs
  <2>2. CanceledAt(pc[current]) \subseteq DriverPC
    BY DEF CanceledAt
  <2>3. \A j \in Jobs : JobCut(j) \in JobPC
    BY DEF JobCut
  <2> PICK k \in CanceledAt(pc[current]) :
        pc' = [p \in Procs |-> CASE p = s       -> l
                                 [] p = current -> k
                                 [] p \in tools -> JobCut(p)
                                 [] OTHER       -> pc[p]]
    BY <1>2 DEF CancelDriver
  <2>4. pc' = [p \in Procs |-> pc'[p]]
    OBVIOUS
  <2>5. tools \subseteq Jobs
    BY DEF TypeOK
  <2>6. s # current /\ s \notin tools /\ current \notin tools
    BY <2>1, <2>5, NamesAssumption
  <2>7. \A p \in Procs : pc'[p] \in PCOf(p)
    <3> TAKE p \in Procs
    <3>1. CASE p = s
      <4>1. pc'[p] = l
        BY <2>6, <3>1
      <4> QED BY <1>2, <3>1, <4>1
    <3>2. CASE p # s /\ p = current
      <4>1. pc'[p] = k
        BY <2>6, <3>2
      <4> QED BY <2>1, <2>2, <3>2, <4>1, ProcKinds
    <3>3. CASE p # s /\ p # current /\ p \in tools
      BY <2>3, <2>5, <3>3, ProcKinds
    <3>4. CASE p # s /\ p # current /\ p \notin tools
      BY <3>4 DEF PCTypes
    <3> QED BY <3>1, <3>2, <3>3, <3>4
  <2> QED BY <1>m, <2>4, <2>7
<1>3. CASE interrupt
  BY <1>3, <1>2, ProcKinds DEF interrupt, Stoppers
<1>4. CASE cancel_all
  BY <1>4, <1>2, <1>g, ProcKinds DEF cancel_all, Stoppers
<1>5. CASE crash
  BY <1>5, <1>m, ProcKinds DEF crash
<1>6. ASSUME NEW d \in Drivers, claim_fails(d) PROVE PCTypes'
  BY <1>6, <1>g, ProcKinds DEF claim_fails
<1>7. ASSUME NEW d \in Drivers, NEW j \in Jobs,
             start_async_sandbox_command(d, j) \/ cancel_async_sandbox_command(d, j)
      PROVE  PCTypes'
  <2>1. \E l \in {"created", "jobcancel", "done"} : Goto(j, l)
    BY <1>7 DEF start_async_sandbox_command, cancel_async_sandbox_command
  <2> QED BY <2>1, <1>g, ProcKinds
<1>8. ASSUME NEW n \in Messages, enqueue_user_message(n) PROVE PCTypes'
  BY <1>8, <1>g, ProcKinds DEF enqueue_user_message
<1>9. ASSUME NEW d \in Drivers, DriverStep(d) PROVE PCTypes'
  <2>1. ASSUME NEW e \in Drivers, relaunch_driver(d, e) PROVE PCTypes'
    BY <2>1, <1>t, ProcKinds DEF relaunch_driver
  <2>2. CASE drive(d) \/ initial_turn_ends(d) \/ claim_select(d) \/ claim_update(d) \/ turn_ends(d)
    BY <2>2, <1>g, ProcKinds DEF drive, initial_turn_ends, claim_select, claim_update, turn_ends
  <2>3. CASE \/ finish_notification(d) \/ release_notification(d) \/ driver_unwinds(d)
             \/ reconcile_driver(d) \/ driver_goes_idle(d) \/ give_up_select(d) \/ give_up_flush(d)
    BY <2>3, <1>g, ProcKinds
       DEF finish_notification, release_notification, driver_unwinds, reconcile_driver,
           driver_goes_idle, give_up_select, give_up_flush
  <2> QED BY <1>9, <2>1, <2>2, <2>3 DEF DriverStep
<1>10. ASSUME NEW j \in Jobs, JobStep(j) PROVE PCTypes'
  <2>1. CASE create_job_task(j) \/ finish_async_job(j) \/ cancel_async_job(j)
    <3>1. \E l \in {"run", "resume"} : Goto(j, l)
      BY <2>1 DEF create_job_task, finish_async_job, cancel_async_job
    <3> QED BY <3>1, <1>g, ProcKinds
  <2>2. CASE resume_session(j)
    <3>1. \E l \in {"recover", "done", "stopcheck"} : Goto(j, l)
      BY <2>2 DEF resume_session
    <3> QED BY <3>1, <1>g, ProcKinds
  <2> QED BY <1>10, <2>1, <2>2 DEF JobStep
<1>11. CASE InterruptStep
  BY <1>11, <1>g, ProcKinds DEF InterruptStep, interrupt_select, interrupt_flush
<1>12. CASE CancelAllStep
  <2>1. ASSUME NEW K \in SUBSET Jobs, cancel_runtime_jobs(K) PROVE PCTypes'
    BY <2>1, <1>m, ProcKinds DEF cancel_runtime_jobs, Registered, PCTypes
  <2>2. CASE cancel_running_async_jobs
    BY <2>2, <1>m, ProcKinds DEF cancel_running_async_jobs, PCTypes
  <2>3. CASE \/ cancel_all_driver_gone \/ cancel_all_select \/ cancel_all_flush
             \/ force_mark_session_stopped \/ cancel_all_publish
    BY <2>3, <1>g, ProcKinds DEF cancel_all_driver_gone, cancel_all_select, cancel_all_flush,
                                force_mark_session_stopped, cancel_all_publish
  <2> QED BY <1>12, <2>1, <2>2, <2>3 DEF CancelAllStep
<1>13. CASE BootStep
  BY <1>13, <1>g, ProcKinds DEF BootStep, boot_fail_stale_jobs,
                               reset_processing_notifications_all, recover_pending_sessions
<1>14. ASSUME NEW p \in Procs, CommonStep(p) PROVE PCTypes'
  <2>0. pc[p] \in PCOf(p)
    BY DEF PCTypes
  <2>1. ASSUME NEW d \in Drivers, create_driver(p, d) PROVE PCTypes'
    <3>1. (IF p = "user" THEN "launch0" ELSE "launch") \in PCOf(d)
      BY ProcKinds
    <3> QED BY <2>1, <3>1, <1>t, ProcKinds DEF create_driver
  <2>2. CASE mark_session_running(p) \/ start_notification_recovery(p)
    BY <2>0, <2>2, <1>g, ProcKinds DEF mark_session_running, start_notification_recovery
  <2>3. CASE mark_session_stopped(p) \/ finish_session_run(p)
    BY <2>0, <2>3, <1>g, ProcKinds, NamesAssumption
       DEF mark_session_stopped, finish_session_run, AfterStop, Stoppers
  <2>4. CASE publish_idle_if_inactive(p) \/ publish_idle(p)
    BY <2>0, <2>4, <1>g, ProcKinds DEF publish_idle_if_inactive, publish_idle
  <2> QED BY <1>14, <2>1, <2>2, <2>3, <2>4 DEF CommonStep
<1>15. CASE UNCHANGED vars
  BY <1>15 DEF vars, PCTypes, PCOf
<1> QED BY <1>1, <1>3, <1>4, <1>5, <1>6, <1>7, <1>8, <1>9, <1>10, <1>11, <1>12, <1>13,
           <1>14, <1>15 DEF Next, Environment

(* No step of a session breaks the type invariant.                         *)
LEMMA TypeStep == TypeOK /\ [Next]_vars => TypeOK'
<1>1. PCTypes' /\ DataTypes' => TypeOK'
  BY TypeParts, PTL
<1> QED BY <1>1, PCStep, DataStep

-----------------------------------------------------------------------------
(* Where the tasks are.                                                     *)

(* A stop moves the stopper, the driver and the open tool calls of its turn. *)
LEMMA CancelMoves ==
    ASSUME TypeOK, NEW s \in Stoppers, NEW l, is_running, CancelDriver(s, l)
    PROVE  /\ current \in Drivers
           /\ pc'[s] = l
           /\ pc'[current] \in CanceledAt(pc[current])
           /\ \A j \in tools : pc'[j] = JobCut(j)
           /\ \A p \in Procs : p # s /\ p # current /\ p \notin tools => pc'[p] = pc[p]
<1>1. s \in Procs /\ current \in Drivers /\ current \in Procs /\ tools \subseteq Jobs /\ tools \subseteq Procs
  BY DEF TypeOK, is_running, Procs
<1>2. s # current /\ s \notin tools /\ current \notin tools
  BY <1>1, NamesAssumption
<1> PICK k \in CanceledAt(pc[current]) :
      pc' = [p \in Procs |-> CASE p = s       -> l
                               [] p = current -> k
                               [] p \in tools -> JobCut(p)
                               [] OTHER       -> pc[p]]
  BY DEF CancelDriver
<1>3. pc'[s] = l
  BY <1>1, <1>2
<1>4. pc'[current] = k
  BY <1>1, <1>2
<1>5. \A j \in tools : pc'[j] = JobCut(j)
  BY <1>1, <1>2
<1>6. \A p \in Procs : p # s /\ p # current /\ p \notin tools => pc'[p] = pc[p]
  OBVIOUS
<1> QED BY <1>1, <1>3, <1>4, <1>5, <1>6

(* Whom a step moves, and that it is a task that has not ended.             *)
OnlyMoves(S) == \A p \in Procs \ S : pc'[p] = pc[p]

(* Whose program counter an action moves: its own task's, and for a stop   *)
(* that of the driver it cancels and of the tool calls open in it.         *)
LEMMA Movers ==
    ASSUME TypeOK
    PROVE  /\ \A i \in Instances : start_turn(i) => OnlyMoves({"user"}) /\ Up
           /\ interrupt => OnlyMoves({"interrupt"} \cup Drivers \cup Jobs) /\ Up
           /\ cancel_all => OnlyMoves({"cancel_all"} \cup Drivers \cup Jobs) /\ Up
           /\ \A d \in Drivers : claim_fails(d) => OnlyMoves({d}) /\ pc[d] # "done"
           /\ \A d \in Drivers, j \in Jobs :
                start_async_sandbox_command(d, j) \/ cancel_async_sandbox_command(d, j)
                => OnlyMoves({j}) /\ pc[d] # "done"
           /\ \A n \in Messages : enqueue_user_message(n) => OnlyMoves({"user"}) /\ pc["user"] # "done"
           /\ \A d \in Drivers : DriverStep(d) => OnlyMoves(Drivers) /\ pc[d] # "done"
           /\ \A j \in Jobs : JobStep(j) => OnlyMoves({j}) /\ pc[j] # "done"
           /\ InterruptStep => OnlyMoves({"interrupt"}) /\ pc["interrupt"] # "done"
           /\ CancelAllStep => OnlyMoves({"cancel_all"} \cup Jobs) /\ pc["cancel_all"] # "done"
           /\ BootStep => OnlyMoves({"boot"}) /\ ~Up
           /\ \A p \in Procs : CommonStep(p) => OnlyMoves({p} \cup Drivers) /\ pc[p] # "done"
<1>g. \A p \in Procs : \A l : Goto(p, l) => OnlyMoves({p})
  BY DEF Goto, OnlyMoves, TypeOK
<1>k. Drivers \subseteq Procs /\ Jobs \subseteq Procs /\ {"user", "boot", "interrupt", "cancel_all"} \subseteq Procs
  BY DEF Procs, Stoppers
<1>1. \A i \in Instances : start_turn(i) => OnlyMoves({"user"}) /\ Up
  BY <1>g, <1>k DEF start_turn
<1>c. \A s \in Stoppers : \A l : is_running /\ CancelDriver(s, l) => OnlyMoves({s} \cup Drivers \cup Jobs)
  BY CancelMoves DEF OnlyMoves, TypeOK
<1>2. interrupt => OnlyMoves({"interrupt"} \cup Drivers \cup Jobs) /\ Up
  BY <1>c DEF interrupt, Stoppers
<1>3. cancel_all => OnlyMoves({"cancel_all"} \cup Drivers \cup Jobs) /\ Up
  <2> SUFFICES ASSUME cancel_all PROVE OnlyMoves({"cancel_all"} \cup Drivers \cup Jobs) /\ Up
    OBVIOUS
  <2>1. CASE is_running /\ CancelDriver("cancel_all", "c_wait")
    BY <2>1, <1>c DEF cancel_all, Stoppers
  <2>2. CASE Goto("cancel_all", "c_jobs")
    BY <2>2, <1>g, <1>k DEF cancel_all, OnlyMoves
  <2> QED BY <2>1, <2>2 DEF cancel_all
<1>4. \A d \in Drivers : claim_fails(d) => OnlyMoves({d}) /\ pc[d] # "done"
  BY <1>g, <1>k DEF claim_fails
<1>5. \A d \in Drivers, j \in Jobs :
         start_async_sandbox_command(d, j) \/ cancel_async_sandbox_command(d, j)
         => OnlyMoves({j}) /\ pc[d] # "done"
  <2> TAKE d \in Drivers, j \in Jobs
  <2>1. start_async_sandbox_command(d, j) => OnlyMoves({j}) /\ pc[d] # "done"
    BY <1>g, <1>k DEF start_async_sandbox_command
  <2>2. cancel_async_sandbox_command(d, j) => OnlyMoves({j}) /\ pc[d] # "done"
    BY <1>g, <1>k DEF cancel_async_sandbox_command
  <2> QED BY <2>1, <2>2
<1>6. \A n \in Messages : enqueue_user_message(n) => OnlyMoves({"user"}) /\ pc["user"] # "done"
  BY <1>g, <1>k DEF enqueue_user_message
<1>7. \A d \in Drivers : DriverStep(d) => OnlyMoves(Drivers) /\ pc[d] # "done"
  <2> SUFFICES ASSUME NEW d \in Drivers, DriverStep(d) PROVE OnlyMoves(Drivers) /\ pc[d] # "done"
    OBVIOUS
  <2>1. ASSUME NEW e \in Drivers, relaunch_driver(d, e) PROVE OnlyMoves(Drivers) /\ pc[d] # "done"
    BY <2>1 DEF relaunch_driver, OnlyMoves, TypeOK
  <2>2. pc[d] # "done" /\ ((\E l : Goto(d, l)) \/ \E e \in Drivers : relaunch_driver(d, e))
    BY DEF DriverStep, drive, initial_turn_ends, claim_select, claim_update, turn_ends,
           finish_notification, release_notification, driver_unwinds, reconcile_driver,
           driver_goes_idle, relaunch_driver, give_up_select, give_up_flush, Waiting
  <2>3. (\E l : Goto(d, l)) => OnlyMoves(Drivers)
    BY <1>g, <1>k DEF OnlyMoves
  <2> QED BY <2>1, <2>2, <2>3
<1>8. \A j \in Jobs : JobStep(j) => OnlyMoves({j}) /\ pc[j] # "done"
  <2> SUFFICES ASSUME NEW j \in Jobs, JobStep(j) PROVE OnlyMoves({j}) /\ pc[j] # "done"
    OBVIOUS
  <2>1. pc[j] # "done" /\ \E l : Goto(j, l)
    BY DEF JobStep, create_job_task, finish_async_job, cancel_async_job, resume_session
  <2> QED BY <2>1, <1>g, <1>k
<1>9. InterruptStep => OnlyMoves({"interrupt"}) /\ pc["interrupt"] # "done"
  BY <1>g, <1>k DEF InterruptStep, interrupt_select, interrupt_flush
<1>10. CancelAllStep => OnlyMoves({"cancel_all"} \cup Jobs) /\ pc["cancel_all"] # "done"
  <2> SUFFICES ASSUME CancelAllStep PROVE OnlyMoves({"cancel_all"} \cup Jobs) /\ pc["cancel_all"] # "done"
    OBVIOUS
  <2>1. ASSUME NEW K \in SUBSET Jobs, cancel_runtime_jobs(K) PROVE OnlyMoves({"cancel_all"} \cup Jobs)
    BY <2>1 DEF cancel_runtime_jobs, Registered, OnlyMoves
  <2>2. cancel_running_async_jobs => OnlyMoves({"cancel_all"} \cup Jobs)
    BY DEF cancel_running_async_jobs, OnlyMoves
  <2>3. (\E l : Goto("cancel_all", l)) => OnlyMoves({"cancel_all"} \cup Jobs)
    BY <1>g, <1>k DEF OnlyMoves
  <2>4. /\ pc["cancel_all"] # "done"
        /\ \/ \E K \in SUBSET Jobs : cancel_runtime_jobs(K)
           \/ cancel_running_async_jobs
           \/ \E l : Goto("cancel_all", l)
    BY DEF CancelAllStep, cancel_all_driver_gone, cancel_runtime_jobs, cancel_running_async_jobs,
           cancel_all_select, cancel_all_flush, force_mark_session_stopped, cancel_all_publish
  <2> QED BY <2>1, <2>2, <2>3, <2>4
<1>11. BootStep => OnlyMoves({"boot"}) /\ ~Up
  BY <1>g, <1>k DEF BootStep, boot_fail_stale_jobs, reset_processing_notifications_all,
                    recover_pending_sessions, Up
<1>12. \A p \in Procs : CommonStep(p) => OnlyMoves({p} \cup Drivers) /\ pc[p] # "done"
  <2> SUFFICES ASSUME NEW p \in Procs, CommonStep(p) PROVE OnlyMoves({p} \cup Drivers) /\ pc[p] # "done"
    OBVIOUS
  <2>1. ASSUME NEW d \in Drivers, create_driver(p, d) PROVE OnlyMoves({p} \cup Drivers)
    BY <2>1 DEF create_driver, OnlyMoves, TypeOK
  <2>2. (\E l : Goto(p, l)) => OnlyMoves({p} \cup Drivers)
    BY <1>g, <1>k DEF OnlyMoves
  <2>3. pc[p] # "done" /\ ((\E l : Goto(p, l)) \/ \E d \in Drivers : create_driver(p, d))
    BY DEF CommonStep, mark_session_running, create_driver, start_notification_recovery,
           mark_session_stopped, finish_session_run, publish_idle_if_inactive, publish_idle
  <2> QED BY <2>1, <2>2, <2>3
<1> QED BY <1>1, <1>2, <1>3, <1>4, <1>5, <1>6, <1>7, <1>8, <1>9, <1>10, <1>11, <1>12

(* The startup sequence stays alone until it is done.                       *)
LEMMA BootAloneStep == TypeOK /\ BootAlone /\ [Next]_vars => BootAlone'
<1> SUFFICES ASSUME TypeOK, BootAlone, [Next]_vars PROVE BootAlone'
  OBVIOUS
<1>1. /\ \A d \in Drivers : d \in Procs \ {"boot"}
      /\ \A j \in Jobs : j \in Procs \ {"boot"}
      /\ {"user", "interrupt", "cancel_all"} \subseteq Procs \ {"boot"}
      /\ "boot" \in Procs
  BY ProcKinds, NamesAssumption
<1>2. CASE UNCHANGED vars
  BY <1>2 DEF vars, BootAlone, Up
<1>3. CASE crash
  BY <1>3, <1>1 DEF crash, BootAlone, Up, TypeOK
<1>4. CASE Up /\ Next /\ ~crash
  <2>1. ASSUME NEW p \in Procs, CommonStep(p) PROVE OnlyMoves(Procs \ {"boot"})
    BY <2>1, <1>1, <1>4, Movers DEF OnlyMoves, Up
  <2>2. OnlyMoves(Procs \ {"boot"})
    BY <2>1, <1>1, <1>4, Movers DEF Next, Environment, OnlyMoves
  <2> QED BY <2>2, <1>1, <1>4 DEF OnlyMoves, BootAlone, Up
<1>5. CASE ~Up /\ Next /\ ~crash
  <2>1. \A p \in Procs : pc[p] # "done" => p = "boot"
    BY <1>5 DEF BootAlone
  <2>2. BootStep \/ CommonStep("boot")
    BY <2>1, <1>1, <1>5, Movers DEF Next, Environment
  <2>3. CASE BootStep
    BY <2>3, <1>1, <1>5, Movers DEF BootAlone, OnlyMoves, BootStep, boot_fail_stale_jobs,
       reset_processing_notifications_all, recover_pending_sessions, stops
  <2>4. ASSUME NEW d \in Drivers, create_driver("boot", d) PROVE BootAlone'
    BY <2>4, <1>1 DEF create_driver, BootAlone, Up, TypeOK
  <2>5. CASE CommonStep("boot") /\ ~\E d \in Drivers : create_driver("boot", d)
    <3>1. used' = used /\ \E l : Goto("boot", l)
      BY <2>5 DEF CommonStep, mark_session_running, start_notification_recovery,
         mark_session_stopped, finish_session_run, publish_idle_if_inactive, publish_idle
    <3> QED BY <3>1, <1>1, <1>5 DEF BootAlone, Goto, TypeOK
  <2> QED BY <2>2, <2>3, <2>4, <2>5
<1> QED BY <1>2, <1>3, <1>4, <1>5

(* Only a driver and the startup of one change _current_task.               *)
LEMMA CurrentKept ==
    /\ \A i \in Instances : start_turn(i) => current' = current
    /\ interrupt \/ cancel_all => current' = current
    /\ \A d \in Drivers : claim_fails(d) => current' = current
    /\ \A d \in Drivers, j \in Jobs :
         start_async_sandbox_command(d, j) \/ cancel_async_sandbox_command(d, j) => current' = current
    /\ \A n \in Messages : enqueue_user_message(n) => current' = current
    /\ \A j \in Jobs : JobStep(j) => current' = current
    /\ InterruptStep \/ CancelAllStep \/ BootStep => current' = current
    /\ \A p \in Procs : CommonStep(p) => current' = current \/ \E d \in Drivers : create_driver(p, d)
  BY DEF start_turn, interrupt, cancel_all, claim_fails, start_async_sandbox_command,
         cancel_async_sandbox_command, enqueue_user_message, JobStep, create_job_task,
         finish_async_job, cancel_async_job, resume_session, InterruptStep, interrupt_select,
         interrupt_flush, CancelAllStep, cancel_all_driver_gone, cancel_runtime_jobs,
         cancel_running_async_jobs, cancel_all_select, cancel_all_flush,
         force_mark_session_stopped, cancel_all_publish, BootStep, boot_fail_stale_jobs,
         reset_processing_notifications_all, recover_pending_sessions, CommonStep,
         mark_session_running, start_notification_recovery, mark_session_stopped,
         finish_session_run, publish_idle_if_inactive, publish_idle

(* A driver shares only the steps that wind a session down.                 *)
LEMMA DriverWindsDown ==
    ASSUME TypeOK, NEW d \in Drivers, CommonStep(d)
    PROVE  /\ pc[d] \in Settling
           /\ mark_session_stopped(d) \/ finish_session_run(d) \/ publish_idle_if_inactive(d) \/ publish_idle(d)
           /\ \E l \in {"idle", "stopwrite", "idleread", "idlepub", "done"} : Goto(d, l)
<1>1. pc[d] \notin {"mark", "spawn", "recover"}
  BY DEF TypeOK, DriverPC, Draining, Waiting, Holding, Settling
<1>2. mark_session_stopped(d) \/ finish_session_run(d) \/ publish_idle_if_inactive(d) \/ publish_idle(d)
  BY <1>1 DEF CommonStep, mark_session_running, create_driver, start_notification_recovery
<1>3. d # "cancel_all"
  BY NamesAssumption DEF Stoppers
<1> QED BY <1>2, <1>3 DEF mark_session_stopped, finish_session_run, publish_idle_if_inactive,
                          publish_idle, Settling, AfterStop

(* There is one driver that is not on its way out, and it is _current_task. *)
LEMMA OneDriverStep == Control /\ [Next]_vars => OneDriver'
<1> SUFFICES ASSUME Control, [Next]_vars PROVE OneDriver'
  OBVIOUS
<1> USE DEF Draining, Waiting, Holding, Reconciling, Dying
<1>0. /\ TypeOK /\ OneDriver /\ Locks
      /\ \A d \in Drivers : d \in Procs /\ d # NoOne /\ d \notin Jobs \cup {"user", "boot", "interrupt", "cancel_all"}
  BY ProcKinds, NamesAssumption DEF Control, Stoppers
<1>1. CASE (\A d \in Drivers : pc'[d] = pc[d]) /\ current' = current
  BY <1>1, <1>0 DEF OneDriver
<1>2. CASE UNCHANGED vars
  BY <1>2, <1>1 DEF vars
<1>3. CASE crash
  BY <1>3, <1>0 DEF crash, OneDriver
<1>4. ASSUME NEW d \in Drivers, claim_fails(d) PROVE OneDriver'
  BY <1>4, <1>0 DEF claim_fails, Goto, OneDriver, TypeOK
<1>5. ASSUME NEW s \in Stoppers, NEW l, is_running, CancelDriver(s, l), current' = current
      PROVE  OneDriver'
  <2>1. pc'[current] \in {"dropped", "release", "dying"} /\ current \in Drivers
    BY <1>5, <1>0, CancelMoves DEF CanceledAt
  <2>2. \A d \in Drivers : d # current => pc'[d] = pc[d]
    BY <1>5, <1>0, CancelMoves, NamesAssumption DEF TypeOK
  <2> QED BY <2>1, <2>2, <1>0, <1>5 DEF OneDriver
<1>6. CASE interrupt \/ cancel_all
  <2>1. CASE interrupt
    BY <2>1, <1>5, CurrentKept DEF interrupt, Stoppers
  <2>2. CASE cancel_all /\ is_running
    BY <2>2, <1>5, CurrentKept DEF cancel_all, Stoppers
  <2>3. CASE cancel_all /\ ~is_running
    BY <2>3, <1>0, <1>1, CurrentKept DEF cancel_all, Goto, TypeOK
  <2> QED BY <1>6, <2>1, <2>2, <2>3
<1>7. ASSUME NEW d \in Drivers, DriverStep(d) PROVE OneDriver'
  <2>1. CASE drive(d) \/ initial_turn_ends(d) \/ claim_select(d) \/ claim_update(d) \/ turn_ends(d)
    BY <2>1, <1>0 DEF drive, initial_turn_ends, claim_select, claim_update, turn_ends, Goto, OneDriver, TypeOK
  <2>2. CASE finish_notification(d) \/ release_notification(d) \/ driver_unwinds(d)
    BY <2>2, <1>0 DEF finish_notification, release_notification, driver_unwinds, Goto, OneDriver, TypeOK
  <2>3. CASE reconcile_driver(d) \/ driver_goes_idle(d) \/ give_up_select(d) \/ give_up_flush(d)
    BY <2>3, <1>0 DEF reconcile_driver, driver_goes_idle, give_up_select, give_up_flush, Goto, OneDriver, TypeOK
  <2>4. ASSUME NEW e \in Drivers, relaunch_driver(d, e) PROVE OneDriver'
    BY <2>4, <1>0 DEF relaunch_driver, Unused, OneDriver, TypeOK
  <2> QED BY <1>7, <2>1, <2>2, <2>3, <2>4 DEF DriverStep
<1>8. ASSUME NEW p \in Procs, CommonStep(p) PROVE OneDriver'
  <2>1. ASSUME NEW d \in Drivers, create_driver(p, d) PROVE OneDriver'
    BY <2>1, <1>0 DEF create_driver, Unused, OneDriver, Locks, TypeOK
  <2>2. CASE p \notin Drivers /\ ~\E d \in Drivers : create_driver(p, d)
    <3>1. \E l : Goto(p, l)
      BY <1>8, <2>2 DEF CommonStep, mark_session_running, start_notification_recovery,
         mark_session_stopped, finish_session_run, publish_idle_if_inactive, publish_idle
    <3> QED BY <3>1, <1>0, <1>1, <1>8, <2>2, CurrentKept DEF Goto, TypeOK
  <2>3. CASE p \in Drivers /\ ~\E d \in Drivers : create_driver(p, d)
    <3>1. pc[p] \in Settling /\ \E l \in {"idle", "stopwrite", "idleread", "idlepub", "done"} : Goto(p, l)
      BY <1>0, <1>8, <2>3, DriverWindsDown
    <3> QED BY <3>1, <1>0, <1>8, <2>3, CurrentKept DEF Goto, TypeOK, OneDriver, Settling
  <2> QED BY <2>1, <2>2, <2>3
<1>9. ASSUME Next, ~crash, ~interrupt, ~cancel_all,
             ~\E d \in Drivers : DriverStep(d) \/ claim_fails(d),
             ~\E p \in Procs : CommonStep(p)
      PROVE  OneDriver'
  <2>1. current' = current
    BY <1>9, CurrentKept DEF Next, Environment
  <2>2. \A d \in Drivers : pc'[d] = pc[d]
    BY <1>9, <1>0, Movers DEF Next, Environment, OnlyMoves
  <2> QED BY <2>1, <2>2, <1>1
<1> QED BY <1>2, <1>3, <1>4, <1>6, <1>7, <1>8, <1>9

(* _start_lock is held by whoever is in one of its critical sections.       *)
LEMMA LocksStep == Control /\ [Next]_vars => Locks'
<1> SUFFICES ASSUME Control, [Next]_vars PROVE Locks'
  OBVIOUS
<1> DEFINE Locked == Reconciling \cup {"mark", "spawn"}
<1> USE DEF Reconciling
<1>0. /\ TypeOK /\ OneDriver /\ Locks /\ Queueing
      /\ \A d \in Drivers : d \in Procs /\ d # NoOne /\ d \notin Jobs \cup {"user", "boot", "interrupt", "cancel_all"}
      /\ \A j \in Jobs : j \in Procs /\ j # NoOne
      /\ {"user", "boot", "interrupt", "cancel_all"} \subseteq Procs
      /\ \A p \in Procs : p # NoOne
  BY ProcKinds, NamesAssumption DEF Control, Stoppers
<1>1. ASSUME \A p \in Procs : pc'[p] = pc[p] \/ pc'[p] \notin Locked,
             lock' = lock, current' = current
      PROVE  Locks'
  BY <1>1, <1>0 DEF Locks
<1>g. \A p \in Procs : \A l : Goto(p, l) /\ l \notin Locked => \A q \in Procs : pc'[q] = pc[q] \/ pc'[q] \notin Locked
  BY <1>0 DEF Goto, TypeOK
<1>2. CASE UNCHANGED vars
  BY <1>2, <1>1 DEF vars
<1>3. CASE crash
  BY <1>3, <1>0 DEF crash, Locks
<1>4. ASSUME NEW s \in Stoppers, NEW l \in {"i_wait", "c_wait"}, is_running, CancelDriver(s, l),
             current' = current, lock' = lock
      PROVE  Locks'
  <2>1. pc'[current] \notin Locked /\ current \in Drivers /\ pc'[s] \notin Locked
    BY <1>4, <1>0, CancelMoves DEF CanceledAt
  <2>2. \A j \in tools : pc'[j] \notin Locked
    BY <1>4, <1>0, CancelMoves DEF JobCut
  <2> QED BY <2>1, <2>2, <1>0, <1>1, <1>4, CancelMoves
<1>5. CASE interrupt
  BY <1>4, <1>5 DEF interrupt, Stoppers
<1>6. CASE cancel_all
  <2>1. CASE is_running
    BY <2>1, <1>4, <1>6 DEF cancel_all, Stoppers
  <2>2. CASE ~is_running
    BY <2>2, <1>0, <1>1, <1>6, <1>g DEF cancel_all
  <2> QED BY <2>1, <2>2
<1>7. ASSUME NEW i \in Instances, start_turn(i) PROVE Locks'
  BY <1>7, <1>0 DEF start_turn, Goto, Locks, TypeOK, is_running, driver
<1>8. ASSUME NEW n \in Messages, enqueue_user_message(n) PROVE Locks'
  BY <1>8, <1>0 DEF enqueue_user_message, Goto, Locks, Queueing, TypeOK
<1>9. ASSUME NEW d \in Drivers, claim_fails(d) PROVE Locks'
  BY <1>9, <1>0, <1>1, <1>g DEF claim_fails
<1>10. ASSUME NEW d \in Drivers, NEW j \in Jobs,
              start_async_sandbox_command(d, j) \/ cancel_async_sandbox_command(d, j)
       PROVE  Locks'
  <2>1. lock' = lock /\ current' = current /\ \E l \in {"created", "jobcancel", "done"} : Goto(j, l)
    BY <1>10 DEF start_async_sandbox_command, cancel_async_sandbox_command
  <2> QED BY <2>1, <1>0, <1>1, <1>g
<1>11. ASSUME NEW d \in Drivers, DriverStep(d) PROVE Locks'
  <2>1. CASE initial_turn_ends(d) \/ claim_select(d) \/ claim_update(d) \/ turn_ends(d)
             \/ finish_notification(d) \/ release_notification(d)
    <3>1. lock' = lock /\ current' = current
          /\ \E l \in {"claim", "recon", "cas", "turn", "complete", "preempted", "failed", "dying"} : Goto(d, l)
      BY <2>1 DEF initial_turn_ends, claim_select, claim_update, turn_ends, finish_notification,
                  release_notification
    <3> QED BY <3>1, <1>0, <1>1, <1>g
  <2>2. CASE drive(d)
    BY <2>2, <1>0, <1>1, <1>g DEF drive, OneDriver, Draining
  <2>3. CASE driver_unwinds(d)
    BY <2>3, <1>0 DEF driver_unwinds, Goto, Locks, TypeOK
  <2>4. CASE reconcile_driver(d)
    BY <2>4, <1>0 DEF reconcile_driver, Goto, Locks, TypeOK
  <2>5. CASE driver_goes_idle(d) \/ give_up_flush(d)
    BY <2>5, <1>0 DEF driver_goes_idle, give_up_flush, Goto, Locks, TypeOK
  <2>6. ASSUME NEW e \in Drivers, relaunch_driver(d, e) PROVE Locks'
    BY <2>6, <1>0 DEF relaunch_driver, Locks, TypeOK
  <2>7. CASE give_up_select(d)
    BY <2>7, <1>0 DEF give_up_select, Goto, Locks, TypeOK
  <2> QED BY <1>11, <2>1, <2>2, <2>3, <2>4, <2>5, <2>6, <2>7 DEF DriverStep
<1>12. ASSUME NEW j \in Jobs, JobStep(j) PROVE Locks'
  <2>1. lock' = lock /\ current' = current
        /\ \E l \in {"run", "resume", "recover", "done", "stopcheck"} : Goto(j, l)
    BY <1>12 DEF JobStep, create_job_task, finish_async_job, cancel_async_job, resume_session
  <2> QED BY <2>1, <1>0, <1>1, <1>g
<1>13. CASE InterruptStep
  BY <1>13, <1>0, <1>1, <1>g DEF InterruptStep, interrupt_select, interrupt_flush
<1>14. CASE CancelAllStep
  <2>1. ASSUME NEW K \in SUBSET Jobs, cancel_runtime_jobs(K) PROVE Locks'
    <3>1. \A p \in Procs : (pc'[p] = pc[p] /\ p \notin Registered) \/ pc'[p] \notin Locked
      BY <2>1 DEF cancel_runtime_jobs
    <3> QED BY <3>1, <2>1, <1>0 DEF cancel_runtime_jobs, Locks
  <2>2. CASE cancel_running_async_jobs
    <3>1. \A p \in Procs : pc'[p] = pc[p] \/ pc'[p] \notin Locked
      BY <2>2 DEF cancel_running_async_jobs
    <3> QED BY <3>1, <2>2, <1>1 DEF cancel_running_async_jobs
  <2>3. CASE \/ cancel_all_driver_gone \/ cancel_all_select \/ cancel_all_flush
             \/ force_mark_session_stopped \/ cancel_all_publish
    <3>1. lock' = lock /\ current' = current
          /\ \E l \in {"stopcheck", "c_flush", "c_force", "c_pub", "done"} : Goto("cancel_all", l)
      BY <2>3 DEF cancel_all_driver_gone, cancel_all_select, cancel_all_flush,
                  force_mark_session_stopped, cancel_all_publish
    <3> QED BY <3>1, <1>0, <1>1, <1>g
  <2> QED BY <1>14, <2>1, <2>2, <2>3 DEF CancelAllStep
<1>15. CASE BootStep
  <2>1. lock' = lock /\ current' = current
        /\ \E l \in {"b_reset", "b_recover", "recover", "done"} : Goto("boot", l)
    BY <1>15 DEF BootStep, boot_fail_stale_jobs, reset_processing_notifications_all, recover_pending_sessions
  <2> QED BY <2>1, <1>0, <1>1, <1>g
<1>16. ASSUME NEW p \in Procs, CommonStep(p) PROVE Locks'
  <2>1. CASE mark_session_running(p)
    BY <2>1, <1>0, <1>16 DEF mark_session_running, Goto, Locks, TypeOK
  <2>2. ASSUME NEW d \in Drivers, create_driver(p, d) PROVE Locks'
    BY <2>2, <1>0, <1>16 DEF create_driver, Locks, TypeOK, Unused
  <2>3. CASE start_notification_recovery(p)
    BY <2>3, <1>0, <1>16 DEF start_notification_recovery, Goto, Locks, TypeOK, is_running, driver
  <2>4. CASE mark_session_stopped(p) \/ finish_session_run(p) \/ publish_idle_if_inactive(p) \/ publish_idle(p)
    <3>1. lock' = lock /\ current' = current
          /\ \E l \in {"idle", "stopwrite", "idleread", "idlepub", "done", "c_jobs"} : Goto(p, l)
      BY <2>4 DEF mark_session_stopped, finish_session_run, publish_idle_if_inactive, publish_idle, AfterStop
    <3> QED BY <3>1, <1>0, <1>1, <1>16, <1>g
  <2> QED BY <1>16, <2>1, <2>2, <2>3, <2>4 DEF CommonStep
<1> QED BY <1>2, <1>3, <1>5, <1>6, <1>7, <1>8, <1>9, <1>10, <1>11, <1>12, <1>13, <1>14, <1>15,
           <1>16 DEF Next, Environment

(* A canceled driver is awaited by the stop that canceled it.               *)
LEMMA StopsStep == Control /\ [Next]_vars => Stops'
<1> SUFFICES ASSUME Control, [Next]_vars PROVE Stops'
  OBVIOUS
<1> DEFINE Gone == Dying \cup {"release"}
<1> USE DEF Dying, WaitPC
<1>0. /\ TypeOK /\ OneDriver /\ Locks /\ Stops
      /\ \A d \in Drivers : d \in Procs /\ d # NoOne /\ d \notin Jobs \cup {"user", "boot", "interrupt", "cancel_all"}
      /\ \A j \in Jobs : j \in Procs /\ j \notin {"interrupt", "cancel_all"}
      /\ {"user", "boot", "interrupt", "cancel_all"} \subseteq Procs
      /\ Stoppers = {"interrupt", "cancel_all"}
  BY ProcKinds, NamesAssumption DEF Control, Stoppers
<1>1. ASSUME \A d \in Drivers : pc'[d] \in Gone => pc[d] \in Gone /\ (current' = d => current = d),
             halted' = halted,
             \A s \in Stoppers : pc[s] = WaitPC(s) => pc'[s] = pc[s] /\ awaited'[s] = awaited[s]
      PROVE  Stops'
  BY <1>1, <1>0 DEF Stops
<1>g. \A p \in Procs : \A l : /\ Goto(p, l) /\ l \notin Gone
                              /\ p \in Stoppers => pc[p] # WaitPC(p)
        => /\ \A d \in Drivers : pc'[d] \in Gone => pc[d] \in Gone
           /\ \A s \in Stoppers : pc[s] = WaitPC(s) => pc'[s] = pc[s]
  BY <1>0 DEF Goto, TypeOK
<1>2. CASE UNCHANGED vars
  BY <1>2, <1>1 DEF vars
<1>3. CASE crash
  BY <1>3, <1>0 DEF crash, Stops
<1>4. ASSUME NEW s \in Stoppers, is_running, CancelDriver(s, WaitPC(s)), current' = current,
             pc[s] # WaitPC(s)
      PROVE  Stops'
  <2>0. halted' = TRUE /\ awaited' = [awaited EXCEPT ![s] = current]
    BY <1>4 DEF CancelDriver
  <2>1. /\ halted' = TRUE /\ awaited'[s] = current /\ current \in Drivers
        /\ \A t \in Stoppers : t # s => awaited'[t] = awaited[t]
    BY <2>0, <1>0, <1>4, CancelMoves DEF TypeOK
  <2>2. pc'[s] = WaitPC(s) /\ \A t \in Stoppers : t # s => pc'[t] = pc[t]
    BY <1>0, <1>4, CancelMoves DEF TypeOK
  <2>3. \A d \in Drivers : d # current => pc'[d] = pc[d]
    BY <1>0, <1>4, CancelMoves, NamesAssumption DEF TypeOK
  <2> QED BY <2>1, <2>2, <2>3, <1>0, <1>4 DEF Stops
<1>5. CASE interrupt
  BY <1>4, <1>5, <1>0 DEF interrupt
<1>6. CASE cancel_all
  <2>1. CASE is_running
    BY <2>1, <1>4, <1>6, <1>0 DEF cancel_all
  <2>2. CASE ~is_running
    BY <2>2, <1>0, <1>1, <1>6, <1>g DEF cancel_all, stops
  <2> QED BY <2>1, <2>2
<1>7. ASSUME NEW i \in Instances, start_turn(i) PROVE Stops'
  BY <1>7, <1>0, <1>1, <1>g DEF start_turn, stops
<1>8. ASSUME NEW n \in Messages, enqueue_user_message(n) PROVE Stops'
  BY <1>8, <1>0, <1>1, <1>g DEF enqueue_user_message, stops
<1>9. ASSUME NEW d \in Drivers, claim_fails(d) PROVE Stops'
  BY <1>9, <1>0, <1>1, <1>g DEF claim_fails, stops
<1>10. ASSUME NEW d \in Drivers, NEW j \in Jobs,
              start_async_sandbox_command(d, j) \/ cancel_async_sandbox_command(d, j)
       PROVE  Stops'
  <2>1. UNCHANGED stops /\ current' = current /\ \E l \in {"created", "jobcancel", "done"} : Goto(j, l)
    BY <1>10 DEF start_async_sandbox_command, cancel_async_sandbox_command
  <2> QED BY <2>1, <1>0, <1>1, <1>g DEF stops
<1>11. ASSUME NEW d \in Drivers, DriverStep(d) PROVE Stops'
  <2>1. CASE initial_turn_ends(d) \/ claim_select(d) \/ claim_update(d) \/ turn_ends(d)
             \/ finish_notification(d) \/ reconcile_driver(d)
    <3>1. UNCHANGED stops /\ current' = current
          /\ \E l \in {"claim", "recon", "cas", "turn", "complete", "preempted", "failed",
                       "recon_none", "recon_some"} : Goto(d, l)
      BY <2>1 DEF initial_turn_ends, claim_select, claim_update, turn_ends, finish_notification,
                  reconcile_driver
    <3> QED BY <3>1, <1>0, <1>1, <1>g DEF stops
  <2>2. CASE release_notification(d)
    BY <2>2, <1>0, <1>1 DEF release_notification, Goto, TypeOK, stops
  <2>3. CASE driver_unwinds(d)
    BY <2>3, <1>0, <1>1, <1>g DEF driver_unwinds
  <2>4. CASE drive(d)
    BY <2>4, <1>0, <1>1 DEF drive, Goto, TypeOK, stops
  <2>5. CASE driver_goes_idle(d) \/ give_up_flush(d) \/ give_up_select(d)
    BY <2>5, <1>0, <1>1, <1>g DEF driver_goes_idle, give_up_flush, give_up_select, stops
  <2>6. ASSUME NEW e \in Drivers, relaunch_driver(d, e) PROVE Stops'
    BY <2>6, <1>0, <1>1 DEF relaunch_driver, TypeOK, stops
  <2> QED BY <1>11, <2>1, <2>2, <2>3, <2>4, <2>5, <2>6 DEF DriverStep
<1>12. ASSUME NEW j \in Jobs, JobStep(j) PROVE Stops'
  <2>1. UNCHANGED stops /\ current' = current
        /\ \E l \in {"run", "resume", "recover", "done", "stopcheck"} : Goto(j, l)
    BY <1>12 DEF JobStep, create_job_task, finish_async_job, cancel_async_job, resume_session
  <2> QED BY <2>1, <1>0, <1>1, <1>g DEF stops
<1>13. CASE InterruptStep
  <2>1. CASE interrupt_select
    BY <2>1, <1>0 DEF interrupt_select, Goto, TypeOK, Stops
  <2>2. CASE interrupt_flush
    BY <2>2, <1>0, <1>1, <1>g DEF interrupt_flush
  <2> QED BY <1>13, <2>1, <2>2 DEF InterruptStep
<1>14. CASE CancelAllStep
  <2>1. CASE cancel_all_driver_gone
    BY <2>1, <1>0 DEF cancel_all_driver_gone, Goto, TypeOK, Stops
  <2>2. ASSUME NEW K \in SUBSET Jobs, cancel_runtime_jobs(K) PROVE Stops'
    <3>1. \A p \in Drivers \cup {"interrupt"} : pc'[p] = pc[p]
      BY <2>2, <1>0 DEF cancel_runtime_jobs, Registered
    <3> QED BY <3>1, <2>2, <1>0, <1>1 DEF cancel_runtime_jobs
  <2>3. CASE cancel_running_async_jobs
    <3>1. \A p \in Drivers \cup {"interrupt"} : pc'[p] = pc[p]
      BY <2>3, <1>0 DEF cancel_running_async_jobs
    <3> QED BY <3>1, <2>3, <1>0, <1>1 DEF cancel_running_async_jobs
  <2>4. CASE cancel_all_select \/ cancel_all_flush \/ force_mark_session_stopped \/ cancel_all_publish
    <3>1. halted' = halted /\ awaited' = awaited /\ current' = current /\ pc["cancel_all"] # "c_wait"
          /\ \E l \in {"c_flush", "c_force", "c_pub", "done"} : Goto("cancel_all", l)
      BY <2>4 DEF cancel_all_select, cancel_all_flush, force_mark_session_stopped, cancel_all_publish, stops
    <3> QED BY <3>1, <1>0, <1>1, <1>g
  <2> QED BY <1>14, <2>1, <2>2, <2>3, <2>4 DEF CancelAllStep
<1>15. CASE BootStep
  <2>1. UNCHANGED stops /\ current' = current
        /\ \E l \in {"b_reset", "b_recover", "recover", "done"} : Goto("boot", l)
    BY <1>15 DEF BootStep, boot_fail_stale_jobs, reset_processing_notifications_all, recover_pending_sessions
  <2> QED BY <2>1, <1>0, <1>1, <1>g DEF stops
<1>16. ASSUME NEW p \in Procs, CommonStep(p) PROVE Stops'
  <2>1. ASSUME NEW d \in Drivers, create_driver(p, d) PROVE Stops'
    BY <2>1, <1>0, <1>16 DEF create_driver, Locks, Stops, TypeOK
  <2>2. CASE ~\E d \in Drivers : create_driver(p, d)
    <3>1. UNCHANGED stops /\ current' = current
          /\ (p \in Stoppers => pc[p] # WaitPC(p))
          /\ \E l \in {"idle", "stopwrite", "idleread", "idlepub", "done", "c_jobs", "spawn", "mark"} : Goto(p, l)
      BY <1>16, <2>2 DEF CommonStep, mark_session_running, start_notification_recovery, AfterStop,
         mark_session_stopped, finish_session_run, publish_idle_if_inactive, publish_idle, stops
    <3> QED BY <3>1, <1>0, <1>1, <1>16, <1>g DEF stops
  <2> QED BY <2>1, <2>2
<1> QED BY <1>2, <1>3, <1>5, <1>6, <1>7, <1>8, <1>9, <1>10, <1>11, <1>12, <1>13, <1>14, <1>15,
           <1>16 DEF Next, Environment

(* A queued message has a driver to see it, or a stop took it away.         *)
LEMMA QueueingStep == Control /\ [Next]_vars => Queueing'
<1> SUFFICES ASSUME Control, [Next]_vars PROVE Queueing'
  OBVIOUS
<1> USE DEF Draining, Waiting, Holding
<1>0. /\ TypeOK /\ BootAlone /\ OneDriver /\ Locks /\ Stops /\ Queueing
      /\ \A d \in Drivers : d \in Procs /\ d # NoOne /\ d \notin Jobs \cup {"user", "boot", "interrupt", "cancel_all"}
      /\ \A j \in Jobs : j \in Procs /\ j \notin {"user", "boot", "interrupt", "cancel_all"}
      /\ {"user", "boot", "interrupt", "cancel_all"} \subseteq Procs
      /\ \A p \in Procs : p # NoOne
  BY ProcKinds, NamesAssumption DEF Control, Stoppers
<1>1. ASSUME pc["user"] = "enqueue" => lock' = lock /\ (halted => halted'),
             pc'["user"] = "enqueue" => pc["user"] = "enqueue",
             pc["user"] = "enqueue" =>
               halted' \/ \A d \in Drivers : pc[d] \in Draining => \E e \in Drivers : pc'[e] \in Draining
      PROVE  Queueing'
  BY <1>1, <1>0 DEF Queueing
<1>g. \A p \in Procs \ ({"user"} \cup Drivers) : \A l : Goto(p, l) =>
        pc'["user"] = pc["user"] /\ \A d \in Drivers : pc'[d] = pc[d]
  BY <1>0 DEF Goto, TypeOK
<1>2. CASE UNCHANGED vars
  BY <1>2, <1>1 DEF vars
<1>3. CASE crash
  BY <1>3, <1>0 DEF crash, Queueing
<1>4. ASSUME interrupt \/ cancel_all PROVE Queueing'
  <2>1. pc'["user"] = pc["user"] /\ lock' = lock
    BY <1>4, <1>0, Movers DEF interrupt, cancel_all, OnlyMoves
  <2>2. CASE ~is_running
    BY <1>4, <2>1, <2>2, <1>0, <1>1, <1>g DEF interrupt, cancel_all
  <2>3. CASE is_running
    <3>1. halted' = TRUE
      BY <1>4, <2>3 DEF interrupt, cancel_all, CancelDriver
    <3> QED BY <3>1, <2>1, <1>1
  <2> QED BY <2>2, <2>3
<1>5. ASSUME NEW i \in Instances, start_turn(i) PROVE Queueing'
  <2>1. pc'["user"] = "enqueue" => current \in Drivers
    BY <1>5, <1>0 DEF start_turn, Goto, TypeOK, is_running
  <2>2. pc'["user"] = "enqueue" => halted \/ \E d \in Drivers : pc[d] \in Draining
    BY <2>1, <1>5, <1>0 DEF start_turn, OneDriver, Locks, Stops, Reconciling, Dying
  <2> QED BY <2>2, <1>5, <1>0 DEF start_turn, Goto, TypeOK, Queueing, stops
<1>6. ASSUME NEW n \in Messages, enqueue_user_message(n) PROVE Queueing'
  BY <1>6, <1>0 DEF enqueue_user_message, Goto, Queueing, TypeOK
<1>7. ASSUME NEW d \in Drivers, claim_fails(d) PROVE Queueing'
  BY <1>7, <1>0, <1>1 DEF claim_fails, Goto, TypeOK, stops
<1>8. ASSUME NEW d \in Drivers, NEW j \in Jobs,
             start_async_sandbox_command(d, j) \/ cancel_async_sandbox_command(d, j)
      PROVE  Queueing'
  <2>1. UNCHANGED stops /\ lock' = lock /\ \E l : Goto(j, l)
    BY <1>8 DEF start_async_sandbox_command, cancel_async_sandbox_command
  <2> QED BY <2>1, <1>0, <1>1, <1>g DEF stops
<1>9. ASSUME NEW d \in Drivers, DriverStep(d) PROVE Queueing'
  <2>0. pc'["user"] = pc["user"]
    BY <1>9, <1>0, Movers DEF OnlyMoves
  <2>1. CASE drive(d) \/ initial_turn_ends(d) \/ claim_select(d) \/ claim_update(d) \/ turn_ends(d)
             \/ finish_notification(d)
    <3>1. UNCHANGED stops /\ lock' = lock
          /\ \E l \in {"turn0", "claim", "recon", "cas", "turn", "complete", "preempted", "failed"} : Goto(d, l)
      BY <2>1 DEF drive, initial_turn_ends, claim_select, claim_update, turn_ends, finish_notification
    <3> QED BY <3>1, <2>0, <1>0, <1>1 DEF Goto, TypeOK, stops
  <2>2. CASE release_notification(d)
    BY <2>2, <2>0, <1>0, <1>1 DEF release_notification, OneDriver, Stops, stops
  <2>3. CASE driver_unwinds(d)
    BY <2>3, <2>0, <1>0, <1>1 DEF driver_unwinds, Goto, TypeOK, Queueing, Dying
  <2>4. CASE reconcile_driver(d)
    BY <2>4, <2>0, <1>0 DEF reconcile_driver, Queueing
  <2>5. CASE \/ driver_goes_idle(d) \/ give_up_select(d) \/ give_up_flush(d)
             \/ \E e \in Drivers : relaunch_driver(d, e)
    <3>1. pc[d] \in Reconciling
      BY <2>5 DEF driver_goes_idle, give_up_select, give_up_flush, relaunch_driver, Reconciling
    <3> QED BY <3>1, <2>0, <1>0 DEF Locks, Queueing
  <2> QED BY <1>9, <2>1, <2>2, <2>3, <2>4, <2>5 DEF DriverStep
<1>10. ASSUME NEW j \in Jobs, JobStep(j) PROVE Queueing'
  <2>1. UNCHANGED stops /\ lock' = lock /\ \E l : Goto(j, l)
    BY <1>10 DEF JobStep, create_job_task, finish_async_job, cancel_async_job, resume_session
  <2> QED BY <2>1, <1>0, <1>1, <1>g DEF stops
<1>11. CASE InterruptStep
  BY <1>11, <1>0, <1>1, <1>g DEF InterruptStep, interrupt_select, interrupt_flush
<1>12. CASE CancelAllStep
  <2>1. /\ halted' = halted /\ pc'["user"] = pc["user"] /\ \A d \in Drivers : pc'[d] = pc[d]
    BY <1>12, <1>0, Movers DEF OnlyMoves, CancelAllStep, cancel_all_driver_gone, cancel_runtime_jobs,
       cancel_running_async_jobs, cancel_all_select, cancel_all_flush, force_mark_session_stopped,
       cancel_all_publish, stops
  <2>2. lock = "user" => lock' = lock
    BY <1>12, <1>0 DEF CancelAllStep, cancel_all_driver_gone, cancel_runtime_jobs, Registered,
       cancel_running_async_jobs, cancel_all_select, cancel_all_flush, force_mark_session_stopped,
       cancel_all_publish
  <2> QED BY <2>1, <2>2, <1>0, <1>1 DEF Queueing
<1>13. CASE BootStep
  <2>1. UNCHANGED stops /\ lock' = lock /\ \E l : Goto("boot", l)
    BY <1>13 DEF BootStep, boot_fail_stale_jobs, reset_processing_notifications_all, recover_pending_sessions
  <2> QED BY <2>1, <1>0, <1>1, <1>g DEF stops
<1>14. ASSUME NEW p \in Procs, CommonStep(p) PROVE Queueing'
  <2>1. ASSUME NEW d \in Drivers, create_driver(p, d) PROVE Queueing'
    BY <2>1, <1>0, <1>14 DEF create_driver, Locks, Queueing, TypeOK
  <2>2. CASE p \in Drivers
    <3>1. UNCHANGED stops /\ lock' = lock /\ pc[p] \in Settling /\ \E l : Goto(p, l)
      BY <2>2, <1>0, <1>14, DriverWindsDown DEF mark_session_stopped, finish_session_run,
         publish_idle_if_inactive, publish_idle
    <3> QED BY <2>2, <3>1, <1>0, <1>1 DEF Goto, TypeOK, Settling, stops
  <2>3. CASE p \notin Drivers /\ ~\E d \in Drivers : create_driver(p, d)
    <3>1. UNCHANGED stops /\ (pc["user"] = "enqueue" => lock' = lock)
      BY <1>14, <2>3, <1>0 DEF CommonStep, mark_session_running, start_notification_recovery, Queueing,
         mark_session_stopped, finish_session_run, publish_idle_if_inactive, publish_idle
    <3>2. \E l \in {"idle", "stopwrite", "idleread", "idlepub", "done", "c_jobs", "spawn", "mark"} : Goto(p, l)
      BY <1>14, <2>3 DEF CommonStep, mark_session_running, start_notification_recovery, AfterStop,
         mark_session_stopped, finish_session_run, publish_idle_if_inactive, publish_idle
    <3>3. /\ \A d \in Drivers : pc'[d] = pc[d]
          /\ pc'["user"] = "enqueue" => pc["user"] = "enqueue"
      BY <2>3, <3>2, <1>0, <1>14 DEF Goto, TypeOK
    <3> QED BY <3>1, <3>3, <1>0, <1>1 DEF stops
  <2> QED BY <2>1, <2>2, <2>3
<1> QED BY <1>2, <1>3, <1>4, <1>5, <1>6, <1>7, <1>8, <1>9, <1>10, <1>11, <1>12, <1>13, <1>14
        DEF Next, Environment

(* An open tool call is never on a command that runs by itself.             *)
LEMMA ToolsApartStep == Control /\ [Next]_vars => ToolsApart'
<1> SUFFICES ASSUME Control, [Next]_vars PROVE ToolsApart'
  OBVIOUS
<1>0. /\ TypeOK /\ ToolsApart
      /\ \A d \in Drivers : d \in Procs /\ d \notin Jobs \cup {"user", "boot", "interrupt", "cancel_all"}
      /\ \A j \in Jobs : j \in Procs /\ j \notin {"user", "boot", "interrupt", "cancel_all"}
      /\ {"user", "boot", "interrupt", "cancel_all"} \subseteq Procs
      /\ tools \subseteq Jobs
  BY ProcKinds, NamesAssumption DEF Control, Stoppers, TypeOK
<1>1. ASSUME tools' \subseteq tools, \A j \in Jobs : pc'[j] \in {"run", "lost"} => pc'[j] = pc[j]
      PROVE  ToolsApart'
  BY <1>1, <1>0 DEF ToolsApart
<1>2. ASSUME tools' = {} PROVE ToolsApart'
  BY <1>2 DEF ToolsApart
<1>3. CASE UNCHANGED vars
  BY <1>3, <1>1 DEF vars
<1>4. CASE crash
  BY <1>4, <1>2 DEF crash
<1>5. CASE interrupt \/ cancel_all
  <2>1. tools' = {} \/ (tools' = tools /\ Goto("cancel_all", "c_jobs"))
    BY <1>5 DEF interrupt, cancel_all, CancelDriver, calls
  <2> QED BY <2>1, <1>0, <1>1, <1>2 DEF Goto, TypeOK
<1>6. ASSUME NEW d \in Drivers, NEW j \in Jobs, start_async_sandbox_command(d, j) PROVE ToolsApart'
  BY <1>6, <1>0 DEF start_async_sandbox_command, Goto, TypeOK, ToolsApart
<1>7. ASSUME NEW d \in Drivers, NEW j \in Jobs, cancel_async_sandbox_command(d, j) PROVE ToolsApart'
  BY <1>7, <1>0 DEF cancel_async_sandbox_command, Goto, TypeOK, ToolsApart, calls
<1>8. ASSUME NEW d \in Drivers, DriverStep(d) PROVE ToolsApart'
  <2>1. tools' = tools \/ tools' = {}
    BY <1>8 DEF DriverStep, drive, initial_turn_ends, claim_select, claim_update, turn_ends,
       finish_notification, release_notification, driver_unwinds, reconcile_driver, driver_goes_idle,
       relaunch_driver, give_up_select, give_up_flush, calls
  <2>2. \A j \in Jobs : pc'[j] = pc[j]
    BY <1>8, <1>0, Movers DEF OnlyMoves
  <2> QED BY <2>1, <2>2, <1>1, <1>2
<1>9. ASSUME NEW j \in Jobs, JobStep(j) PROVE ToolsApart'
  <2>1. CASE create_job_task(j)
    BY <2>1, <1>0 DEF create_job_task, Goto, TypeOK, ToolsApart
  <2>2. CASE finish_async_job(j) \/ cancel_async_job(j) \/ resume_session(j)
    <3>1. tools' = tools /\ \E l \in {"resume", "recover", "done", "stopcheck"} : Goto(j, l)
      BY <2>2 DEF finish_async_job, cancel_async_job, resume_session, calls
    <3> QED BY <3>1, <1>0, <1>1 DEF Goto, TypeOK
  <2> QED BY <1>9, <2>1, <2>2 DEF JobStep
<1>10. CASE CancelAllStep
  <2>1. ASSUME NEW K \in SUBSET Jobs, cancel_runtime_jobs(K) PROVE ToolsApart'
    <3>1. \A j \in Jobs : pc'[j] \in {"run", "lost"} => pc'[j] = pc[j]
      BY <2>1, <1>0 DEF cancel_runtime_jobs, Registered
    <3> QED BY <3>1, <2>1, <1>1 DEF cancel_runtime_jobs
  <2>2. CASE cancel_running_async_jobs
    <3>1. \A j \in Jobs : pc'[j] \in {"run", "lost"} => pc'[j] = pc[j]
      BY <2>2, <1>0 DEF cancel_running_async_jobs
    <3> QED BY <3>1, <2>2, <1>1 DEF cancel_running_async_jobs, calls
  <2>3. CASE \/ cancel_all_driver_gone \/ cancel_all_select \/ cancel_all_flush
             \/ force_mark_session_stopped \/ cancel_all_publish
    <3>1. tools' = tools /\ \E l : Goto("cancel_all", l)
      BY <2>3 DEF cancel_all_driver_gone, cancel_all_select, cancel_all_flush,
                  force_mark_session_stopped, cancel_all_publish, calls
    <3> QED BY <3>1, <1>0, <1>1 DEF Goto, TypeOK
  <2> QED BY <1>10, <2>1, <2>2, <2>3 DEF CancelAllStep
<1>11. ASSUME NEW p \in Procs, CommonStep(p) PROVE ToolsApart'
  <2>1. ASSUME NEW d \in Drivers, create_driver(p, d) PROVE ToolsApart'
    BY <2>1, <1>0, <1>1, <1>11 DEF create_driver, TypeOK, calls
  <2>2. CASE ~\E d \in Drivers : create_driver(p, d)
    <3>1. tools' = tools
          /\ \E l \in {"idle", "stopwrite", "idleread", "idlepub", "done", "c_jobs", "spawn", "mark"} : Goto(p, l)
      BY <1>11, <2>2 DEF CommonStep, mark_session_running, start_notification_recovery, AfterStop,
         mark_session_stopped, finish_session_run, publish_idle_if_inactive, publish_idle, calls
    <3> QED BY <3>1, <1>0, <1>1, <1>11 DEF Goto, TypeOK
  <2> QED BY <2>1, <2>2
<1>12. CASE \/ \E i \in Instances : start_turn(i)
            \/ \E n \in Messages : enqueue_user_message(n)
            \/ \E d \in Drivers : claim_fails(d)
            \/ InterruptStep \/ BootStep
  <2>1. tools' = tools
    BY <1>12 DEF start_turn, enqueue_user_message, claim_fails, InterruptStep, interrupt_select,
       interrupt_flush, BootStep, boot_fail_stale_jobs, reset_processing_notifications_all,
       recover_pending_sessions, calls
  <2>2. \A j \in Jobs : pc'[j] = pc[j]
    BY <1>12, <1>0, Movers DEF OnlyMoves
  <2> QED BY <2>1, <2>2, <1>1
<1> QED BY <1>3, <1>4, <1>5, <1>6, <1>7, <1>8, <1>9, <1>10, <1>11, <1>12 DEF Next, Environment

(* The invariant of the control state holds when the application starts.   *)
LEMMA ControlInit == Init => Control
<1> SUFFICES ASSUME Init PROVE Control
  OBVIOUS
<1>1. /\ Anyone \in Instances /\ NoRow \in Rows
      /\ \A p \in Procs : "done" \in PCOf(p)
  BY InstancesAssumption, NewRowTypes, ProcKinds DEF Anyone
<1>2. PCTypes
  BY <1>1 DEF Init, PCTypes
<1>3. 0 \in 0..MaxRelaunch /\ 0 \in 0..MaxTurns /\ 0 \in 0..MaxFaults /\ 0 \in 0..MaxCrashes
  BY BoundsAssumption
<1>4. DataTypes
  BY <1>1, <1>3 DEF Init, DataTypes
<1>5. \A p \in Procs : pc[p] = "done"
  BY DEF Init
<1>6. TypeOK
  BY <1>2, <1>4, TypeParts
<1>7. \A d \in Drivers : current # d
  BY NamesAssumption DEF Init, Procs
<1> QED BY <1>5, <1>6, <1>7, ProcKinds
        DEF Control, BootAlone, Up, OneDriver, Locks, Stops, Queueing, ToolsApart, Init,
            Draining, Waiting, Holding, Reconciling, Dying

(* Every step keeps it.                                                    *)
LEMMA ControlStep == Control /\ [Next]_vars => Control'
<1>1. Control => TypeOK /\ BootAlone
  BY DEF Control
<1> QED BY <1>1, TypeStep, BootAloneStep, OneDriverStep, LocksStep, StopsStep, QueueingStep,
           ToolsApartStep DEF Control

-----------------------------------------------------------------------------
(* In whose hands the rows are.                                             *)

(* A driver that holds a row still knows which.                             *)
LEMMA ItemsStep == Control /\ ItemsAreRows /\ [Next]_vars => ItemsAreRows'
<1> SUFFICES ASSUME Control, ItemsAreRows, [Next]_vars PROVE ItemsAreRows'
  OBVIOUS
<1> DEFINE Has == {"cas"} \cup Holding
<1> USE DEF Holding
<1>0. /\ TypeOK
      /\ \A d \in Drivers : d \in Procs /\ d \notin Jobs \cup {"user", "boot", "interrupt", "cancel_all"}
      /\ \A j \in Jobs : j \in Procs
      /\ {"user", "boot", "interrupt", "cancel_all"} \subseteq Procs
  BY ProcKinds, NamesAssumption DEF Control, Stoppers
<1>1. ASSUME \A d \in Drivers : pc'[d] \in Has => pc[d] \in Has /\ item'[d] = item[d]
      PROVE  ItemsAreRows'
  BY <1>1 DEF ItemsAreRows
<1>2. CASE UNCHANGED vars
  BY <1>2, <1>1 DEF vars
<1>3. CASE crash
  BY <1>3, <1>0 DEF crash, ItemsAreRows
<1>4. ASSUME NEW s \in Stoppers, NEW l, is_running, CancelDriver(s, l), item' = item PROVE ItemsAreRows'
  <2>1. current \in Drivers /\ (pc'[current] \in Has => pc[current] \in Has)
    BY <1>4, <1>0, CancelMoves DEF CanceledAt, Waiting
  <2>2. \A d \in Drivers : d # current => pc'[d] = pc[d]
    BY <1>4, <1>0, CancelMoves, NamesAssumption DEF TypeOK
  <2> QED BY <2>1, <2>2, <1>1, <1>4
<1>5. CASE interrupt \/ cancel_all
  <2>1. item' = item
    BY <1>5 DEF interrupt, cancel_all, driver
  <2>2. CASE interrupt \/ is_running
    BY <1>4, <1>5, <2>1, <2>2 DEF interrupt, cancel_all, Stoppers
  <2>3. CASE cancel_all /\ ~is_running
    BY <2>1, <2>3, <1>0, <1>1 DEF cancel_all, Goto, TypeOK
  <2> QED BY <1>5, <2>2, <2>3
<1>6. ASSUME NEW d \in Drivers, claim_fails(d) PROVE ItemsAreRows'
  BY <1>6, <1>0, <1>1 DEF claim_fails, Goto, TypeOK
<1>7. ASSUME NEW d \in Drivers, DriverStep(d) PROVE ItemsAreRows'
  <2>1. CASE claim_select(d)
    BY <2>1, <1>0 DEF claim_select, Goto, TypeOK, ItemsAreRows
  <2>2. CASE claim_update(d) \/ turn_ends(d)
    BY <2>2, <1>0, <1>1 DEF claim_update, turn_ends, Goto, TypeOK, driver
  <2>3. CASE finish_notification(d) \/ release_notification(d) \/ driver_unwinds(d)
    BY <2>3, <1>0, <1>1 DEF finish_notification, release_notification, driver_unwinds, Goto, TypeOK
  <2>4. CASE drive(d) \/ initial_turn_ends(d) \/ reconcile_driver(d) \/ driver_goes_idle(d)
             \/ give_up_select(d) \/ give_up_flush(d)
    <3>1. item' = item
          /\ \E l \in {"turn0", "claim", "recon", "recon_none", "recon_some", "stopcheck", "x_flush"} : Goto(d, l)
      BY <2>4 DEF drive, initial_turn_ends, reconcile_driver, driver_goes_idle, give_up_select,
                  give_up_flush, driver
    <3> QED BY <3>1, <1>0, <1>1 DEF Goto, TypeOK
  <2>5. ASSUME NEW e \in Drivers, relaunch_driver(d, e) PROVE ItemsAreRows'
    BY <2>5, <1>0, <1>1 DEF relaunch_driver, TypeOK
  <2> QED BY <1>7, <2>1, <2>2, <2>3, <2>4, <2>5 DEF DriverStep
<1>8. ASSUME NEW p \in Procs, CommonStep(p) PROVE ItemsAreRows'
  <2>1. ASSUME NEW d \in Drivers, create_driver(p, d) PROVE ItemsAreRows'
    BY <2>1, <1>0, <1>1, <1>8 DEF create_driver, TypeOK
  <2>2. CASE ~\E d \in Drivers : create_driver(p, d)
    <3>1. item' = item
          /\ \E l \in {"idle", "stopwrite", "idleread", "idlepub", "done", "c_jobs", "spawn", "mark"} : Goto(p, l)
      BY <1>8, <2>2 DEF CommonStep, mark_session_running, start_notification_recovery, AfterStop,
         mark_session_stopped, finish_session_run, publish_idle_if_inactive, publish_idle, driver
    <3> QED BY <3>1, <1>0, <1>1, <1>8 DEF Goto, TypeOK
  <2> QED BY <2>1, <2>2
<1>9. CASE \/ \E i \in Instances : start_turn(i)
           \/ \E n \in Messages : enqueue_user_message(n)
           \/ \E d \in Drivers, j \in Jobs : start_async_sandbox_command(d, j) \/ cancel_async_sandbox_command(d, j)
           \/ \E j \in Jobs : JobStep(j)
           \/ InterruptStep \/ CancelAllStep \/ BootStep
  <2>1. item' = item
    BY <1>9 DEF start_turn, enqueue_user_message, start_async_sandbox_command, cancel_async_sandbox_command,
       JobStep, create_job_task, finish_async_job, cancel_async_job, resume_session,
       InterruptStep, interrupt_select, interrupt_flush, CancelAllStep, cancel_all_driver_gone,
       cancel_runtime_jobs, cancel_running_async_jobs, cancel_all_select, cancel_all_flush,
       force_mark_session_stopped, cancel_all_publish, BootStep, boot_fail_stale_jobs,
       reset_processing_notifications_all, recover_pending_sessions, driver
  <2>2. \A d \in Drivers : pc'[d] = pc[d]
    BY <1>9, <1>0, Movers DEF OnlyMoves
  <2> QED BY <2>1, <2>2, <1>1
<1> QED BY <1>2, <1>3, <1>5, <1>6, <1>7, <1>8, <1>9 DEF Next, Environment

(* The steps that leave the table alone.                                    *)
LEMMA TableKept ==
    /\ \A i \in Instances : start_turn(i) => row' = row
    /\ interrupt \/ cancel_all \/ crash => row' = row
    /\ \A d \in Drivers : claim_fails(d) => row' = row
    /\ \A d \in Drivers : DriverStep(d) => \/ row' = row
                                           \/ claim_update(d)
                                           \/ finish_notification(d)
                                           \/ release_notification(d)
                                           \/ give_up_flush(d)
    /\ \A j \in Jobs : JobStep(j) => row' = row \/ finish_async_job(j) \/ cancel_async_job(j)
    /\ InterruptStep => row' = row \/ interrupt_flush
    /\ CancelAllStep => row' = row \/ cancel_running_async_jobs \/ cancel_all_flush
    /\ BootStep => row' = row \/ boot_fail_stale_jobs \/ reset_processing_notifications_all
    /\ \A p \in Procs : CommonStep(p) => row' = row
<1> USE DEF table
<1>1. \A i \in Instances : start_turn(i) => row' = row
  BY DEF start_turn
<1>2. interrupt \/ cancel_all \/ crash => row' = row
  BY DEF interrupt, cancel_all, crash
<1>3. \A d \in Drivers : claim_fails(d) => row' = row
  BY DEF claim_fails
<1>4. \A d \in Drivers : DriverStep(d) => row' = row \/ claim_update(d) \/ finish_notification(d)
                                          \/ release_notification(d) \/ give_up_flush(d)
  BY DEF DriverStep, drive, initial_turn_ends, claim_select, turn_ends, driver_unwinds,
         reconcile_driver, driver_goes_idle, relaunch_driver, give_up_select
<1>5. \A j \in Jobs : JobStep(j) => row' = row \/ finish_async_job(j) \/ cancel_async_job(j)
  BY DEF JobStep, create_job_task, resume_session
<1>6. InterruptStep => row' = row \/ interrupt_flush
  BY DEF InterruptStep, interrupt_select
<1>7. CancelAllStep => row' = row \/ cancel_running_async_jobs \/ cancel_all_flush
  BY DEF CancelAllStep, cancel_all_driver_gone, cancel_runtime_jobs, cancel_all_select,
         force_mark_session_stopped, cancel_all_publish
<1>8. BootStep => row' = row \/ boot_fail_stale_jobs \/ reset_processing_notifications_all
  BY DEF BootStep, recover_pending_sessions
<1>9. \A p \in Procs : CommonStep(p) => row' = row
  BY DEF CommonStep, mark_session_running, create_driver, start_notification_recovery,
         mark_session_stopped, finish_session_run, publish_idle_if_inactive, publish_idle
<1> QED BY <1>1, <1>2, <1>3, <1>4, <1>5, <1>6, <1>7, <1>8, <1>9

(* What a step may do to one row: nothing, insert it, or one of the         *)
(* statements of the notification store.                                   *)
LEMMA RowMoves ==
    ASSUME TypeOK, [Next]_vars, NEW n \in Ntf
    PROVE  \/ row'[n] = row[n]
           \/ /\ row[n].status = "absent" /\ row'[n].status \in {"awaiting", "pending"}
              /\ \/ n \in Messages /\ enqueue_user_message(n) /\ ~row'[n].started
                 \/ n \in Jobs /\ \E d \in Drivers : start_async_sandbox_command(d, n) /\ row'[n].status = "awaiting"
           \/ n \in Jobs /\ finish_async_job(n) /\ row'[n] = Resolved(row[n], TRUE)
           \/ n \in Jobs /\ cancel_async_job(n) /\ row'[n] = Resolved(row[n], FALSE)
           \/ /\ n \in Jobs /\ row'[n] = Resolved(row[n], FALSE)
              /\ \/ cancel_running_async_jobs
                 \/ \E d \in Drivers : cancel_async_sandbox_command(d, n) /\ pc[n] = "lost"
           \/ n \in Jobs /\ boot_fail_stale_jobs /\ row'[n] = Resolved(row[n], TRUE)
           \/ \E d \in Drivers :
                /\ item[d] = n
                /\ \/ claim_update(d) /\ row'[n] = Claimed(row[n])
                   \/ finish_notification(d) /\ row'[n] \in {Finished(row[n], "completed"), Finished(row[n], "failed")}
                   \/ release_notification(d) /\ row'[n] = Released(row[n])
           \/ \E d \in Drivers : n \in sel[d] /\ give_up_flush(d) /\ row'[n] = Cancelled(row[n])
           \/ n \in sel["interrupt"] /\ interrupt_flush /\ row'[n] = Cancelled(row[n])
           \/ n \in sel["cancel_all"] /\ cancel_all_flush /\ row'[n] = Cancelled(row[n])
           \/ reset_processing_notifications_all /\ row'[n] = Reset(row[n])
<1>0. row \in [Ntf -> Rows]
  BY DEF TypeOK
<1>1. CASE row' = row
  BY <1>1
<1>2. ASSUME NEW m \in Messages, enqueue_user_message(m), row'[n] # row[n]
      PROVE  n = m /\ row[n].status = "absent" /\ row'[n].status = "pending" /\ ~row'[n].started
  BY <1>0, <1>2 DEF enqueue_user_message, NewUserMessage
<1>3. ASSUME NEW d \in Drivers, NEW j \in Jobs, start_async_sandbox_command(d, j), row'[n] # row[n]
      PROVE  n = j /\ row[n].status = "absent" /\ row'[n].status = "awaiting"
  BY <1>0, <1>3 DEF start_async_sandbox_command, NewObligation
<1>4. ASSUME NEW d \in Drivers, NEW j \in Jobs, cancel_async_sandbox_command(d, j), row'[n] # row[n]
      PROVE  n = j /\ row'[n] = Resolved(row[n], FALSE) /\ pc[n] = "lost"
  BY <1>0, <1>4 DEF cancel_async_sandbox_command
<1>5. ASSUME NEW j \in Jobs, finish_async_job(j), row'[n] # row[n]
      PROVE  n = j /\ row'[n] = Resolved(row[n], TRUE)
  BY <1>0, <1>5 DEF finish_async_job
<1>6. ASSUME NEW j \in Jobs, cancel_async_job(j), row'[n] # row[n]
      PROVE  n = j /\ row'[n] = Resolved(row[n], FALSE)
  BY <1>0, <1>6 DEF cancel_async_job
<1>7. ASSUME cancel_running_async_jobs, row'[n] # row[n]
      PROVE  n \in Jobs /\ row'[n] = Resolved(row[n], FALSE)
  BY <1>0, <1>7 DEF cancel_running_async_jobs
<1>8. ASSUME boot_fail_stale_jobs, row'[n] # row[n]
      PROVE  n \in Jobs /\ row'[n] = Resolved(row[n], TRUE)
  BY <1>0, <1>8 DEF boot_fail_stale_jobs
<1>9. ASSUME NEW d \in Drivers, claim_update(d), row'[n] # row[n]
      PROVE  item[d] = n /\ row'[n] = Claimed(row[n])
  BY <1>0, <1>9 DEF claim_update
<1>10. ASSUME NEW d \in Drivers, finish_notification(d), row'[n] # row[n]
       PROVE  item[d] = n /\ row'[n] \in {Finished(row[n], "completed"), Finished(row[n], "failed")}
  BY <1>0, <1>10 DEF finish_notification
<1>11. ASSUME NEW d \in Drivers, release_notification(d), row'[n] # row[n]
       PROVE  item[d] = n /\ row'[n] = Released(row[n])
  BY <1>0, <1>11 DEF release_notification
<1>12. ASSUME NEW d \in Drivers, give_up_flush(d), row'[n] # row[n]
       PROVE  n \in sel[d] /\ row'[n] = Cancelled(row[n])
  BY <1>0, <1>12 DEF give_up_flush, CancelRows
<1>13. ASSUME interrupt_flush, row'[n] # row[n]
       PROVE  n \in sel["interrupt"] /\ row'[n] = Cancelled(row[n])
  BY <1>0, <1>13 DEF interrupt_flush, CancelRows
<1>14. ASSUME cancel_all_flush, row'[n] # row[n]
       PROVE  n \in sel["cancel_all"] /\ row'[n] = Cancelled(row[n])
  BY <1>0, <1>14 DEF cancel_all_flush, CancelRows
<1>15. reset_processing_notifications_all => row'[n] = Reset(row[n])
  BY <1>0 DEF reset_processing_notifications_all
<1>16. CASE row'[n] # row[n]
  <2>1. Next /\ row' # row
    BY <1>16 DEF vars
  <2>2. \/ \E m \in Messages : enqueue_user_message(m)
        \/ \E d \in Drivers, j \in Jobs : start_async_sandbox_command(d, j) \/ cancel_async_sandbox_command(d, j)
        \/ \E j \in Jobs : finish_async_job(j) \/ cancel_async_job(j)
        \/ cancel_running_async_jobs \/ boot_fail_stale_jobs \/ reset_processing_notifications_all
        \/ interrupt_flush \/ cancel_all_flush
        \/ \E d \in Drivers : \/ claim_update(d) \/ finish_notification(d)
                              \/ release_notification(d) \/ give_up_flush(d)
    BY <2>1, TableKept DEF Next, Environment
  <2> QED BY <1>16, <2>2, <1>2, <1>3, <1>4, <1>5, <1>6, <1>7, <1>8, <1>9, <1>10, <1>11, <1>12,
             <1>13, <1>14, <1>15
<1> QED BY <1>16

(* Only a claim makes a row processing.                                     *)
LEMMA RowToProcessing ==
    ASSUME TypeOK, [Next]_vars, NEW n \in Ntf, row'[n].status = "processing"
    PROVE  \/ row'[n] = row[n]
           \/ /\ row[n].status = "pending" /\ row'[n] = Claimed(row[n])
              /\ \E d \in Drivers : claim_update(d) /\ item[d] = n
<1>1. row[n] \in Rows
  BY DEF TypeOK
<1>2. \/ row'[n] = row[n]
      \/ row'[n].status \in {"awaiting", "pending"}
      \/ row'[n] = Resolved(row[n], TRUE) \/ row'[n] = Resolved(row[n], FALSE)
      \/ row'[n] = Released(row[n]) \/ row'[n] = Reset(row[n]) \/ row'[n] = Cancelled(row[n])
      \/ row'[n] = Finished(row[n], "completed") \/ row'[n] = Finished(row[n], "failed")
      \/ row'[n] = Claimed(row[n]) /\ \E d \in Drivers : claim_update(d) /\ item[d] = n
  BY RowMoves
<1>3. CASE row'[n] = Resolved(row[n], TRUE) \/ row'[n] = Resolved(row[n], FALSE)
  BY <1>1, <1>3 DEF Resolved, Rows
<1>4. CASE row'[n] = Released(row[n]) \/ row'[n] = Reset(row[n]) \/ row'[n] = Cancelled(row[n])
  BY <1>1, <1>4 DEF Released, Reset, Cancelled, Rows
<1>5. CASE row'[n] = Finished(row[n], "completed") \/ row'[n] = Finished(row[n], "failed")
  BY <1>1, <1>5 DEF Finished, Rows
<1>6. CASE row'[n] = Claimed(row[n]) /\ \E d \in Drivers : claim_update(d) /\ item[d] = n
  BY <1>1, <1>6 DEF Claimed, Rows
<1> QED BY <1>2, <1>3, <1>4, <1>5, <1>6

(* A row gets processing only by the claim, which sets started_at.         *)
LEMMA StartedStep == TypeOK /\ StartedIsClaimed /\ [Next]_vars => StartedIsClaimed'
<1> SUFFICES ASSUME TypeOK, StartedIsClaimed, [Next]_vars,
                    NEW n \in Ntf, row'[n].status = "processing"
             PROVE  row'[n].started
  BY DEF StartedIsClaimed
<1>1. row[n] \in Rows
  BY DEF TypeOK
<1>2. CASE row'[n] = row[n]
  BY <1>2 DEF StartedIsClaimed
<1>3. CASE row[n].status = "pending" /\ row'[n] = Claimed(row[n])
  BY <1>1, <1>3 DEF Claimed, Rows
<1> QED BY <1>2, <1>3, RowToProcessing

(* A claimed row stays in the hands of its driver until the driver settles *)
(* it, hands it back, or is stopped, and then the stop covers the row.     *)
LEMMA HandlerStep ==
    Control /\ ItemsAreRows /\ StartedIsClaimed /\ ProcessingIsHeld /\ [Next]_vars
    => ProcessingIsHeld'
<1> SUFFICES ASSUME Control, ItemsAreRows, StartedIsClaimed, ProcessingIsHeld, [Next]_vars,
                    NEW n \in Ntf, row'[n].status = "processing"
             PROVE  \/ \E d \in Drivers : item'[d] = n /\ pc'[d] \in Holding
                    \/ StopCovers(n)'
                    \/ pc'["boot"] \in {"b_jobs", "b_reset"}
  BY DEF ProcessingIsHeld
<1> DEFINE Goal == \/ \E d \in Drivers : item'[d] = n /\ pc'[d] \in Holding
                   \/ StopCovers(n)'
                   \/ pc'["boot"] \in {"b_jobs", "b_reset"}
<1> HIDE DEF Goal
<1> SUFFICES Goal
  BY DEF Goal
<1> USE DEF Holding
<1>0. /\ TypeOK /\ row[n] \in Rows
      /\ \A d \in Drivers : d \in Procs /\ d \notin Jobs \cup {"user", "boot", "interrupt", "cancel_all"}
      /\ \A j \in Jobs : j \in Procs /\ j \notin {"user", "boot", "interrupt", "cancel_all"}
      /\ {"user", "boot", "interrupt", "cancel_all"} \subseteq Procs
  BY ProcKinds, NamesAssumption DEF Control, Stoppers, TypeOK
<1>1. CASE \E d \in Drivers : claim_update(d) /\ item[d] = n /\ row[n].status = "pending"
  BY <1>0, <1>1 DEF claim_update, Goto, TypeOK, Goal
<1>2. CASE ~\E d \in Drivers : claim_update(d) /\ item[d] = n /\ row[n].status = "pending"
  <2>1. row[n].status = "processing"
    BY <1>0, <1>2, RowToProcessing
  <2>2. \/ \E d \in Drivers : item[d] = n /\ pc[d] \in Holding
        \/ StopCovers(n)
        \/ pc["boot"] \in {"b_jobs", "b_reset"}
    BY <2>1 DEF ProcessingIsHeld
  <2>3. ASSUME \A d \in Drivers : item[d] = n /\ pc[d] \in Holding => item'[d] = n /\ pc'[d] \in Holding,
               StopCovers(n) => StopCovers(n)',
               pc["boot"] \in {"b_jobs", "b_reset"} => pc'["boot"] \in {"b_jobs", "b_reset"}
        PROVE  Goal
    BY <2>2, <2>3 DEF Goal
  <2>4. ASSUME pc'["interrupt"] = pc["interrupt"], pc'["cancel_all"] = pc["cancel_all"], sel' = sel
        PROVE  StopCovers(n) => StopCovers(n)'
    BY <2>4 DEF StopCovers
  <2>5. CASE UNCHANGED vars
    BY <2>5, <2>3, <2>4 DEF vars
  <2>6. CASE crash
    BY <2>6, <1>0 DEF crash, Goal
  <2>7. CASE interrupt \/ cancel_all
    <3>1. CASE interrupt
      BY <3>1, <1>0, CancelMoves DEF interrupt, StopCovers, Stoppers, Goal
    <3>2. CASE cancel_all /\ is_running
      BY <3>2, <1>0, CancelMoves DEF cancel_all, StopCovers, Stoppers, Goal
    <3>3. CASE cancel_all /\ ~is_running
      BY <3>3, <1>0 DEF cancel_all, StopCovers, Goto, TypeOK, Goal
    <3> QED BY <2>7, <3>1, <3>2, <3>3
  <2>8. CASE \/ \E i \in Instances : start_turn(i)
             \/ \E m \in Messages : enqueue_user_message(m)
             \/ \E d \in Drivers, j \in Jobs : start_async_sandbox_command(d, j) \/ cancel_async_sandbox_command(d, j)
             \/ \E j \in Jobs : JobStep(j)
    <3>1. item' = item /\ sel' = sel
      BY <2>8 DEF start_turn, enqueue_user_message, start_async_sandbox_command, cancel_async_sandbox_command,
         JobStep, create_job_task, finish_async_job, cancel_async_job, resume_session, driver, stops
    <3>2. \A p \in Drivers \cup {"interrupt", "cancel_all", "boot"} : pc'[p] = pc[p]
      BY <2>8, <1>0, Movers DEF OnlyMoves
    <3> QED BY <3>1, <3>2, <2>3, <2>4
  <2>9. ASSUME NEW d \in Drivers, claim_fails(d) PROVE Goal
    BY <2>9, <1>0, <2>3, <2>4 DEF claim_fails, Goto, TypeOK, stops
  <2>10. ASSUME NEW d \in Drivers, DriverStep(d) PROVE Goal
    <3>0. /\ pc'["interrupt"] = pc["interrupt"] /\ pc'["cancel_all"] = pc["cancel_all"] /\ pc'["boot"] = pc["boot"]
      BY <2>10, <1>0, Movers DEF OnlyMoves
    <3>1. CASE drive(d) \/ initial_turn_ends(d) \/ claim_select(d) \/ claim_update(d) \/ reconcile_driver(d)
               \/ driver_goes_idle(d)
      <4>1. /\ pc[d] \notin Holding /\ sel' = sel /\ \E l : Goto(d, l)
            /\ item' = item \/ \E x : item' = [item EXCEPT ![d] = x]
        BY <3>1 DEF drive, initial_turn_ends, claim_select, claim_update, reconcile_driver,
           driver_goes_idle, driver, stops, Waiting
      <4> QED BY <4>1, <3>0, <1>0, <2>3, <2>4 DEF Goto, TypeOK
    <3>2. CASE turn_ends(d)
      BY <3>0, <3>2, <1>0, <2>3, <2>4 DEF turn_ends, Goto, TypeOK, driver, stops
    <3>3. CASE finish_notification(d) \/ release_notification(d)
      <4>1. item[d] # n
        <5>1. item[d] = n => row'[n].status # "processing"
          <6>1. CASE finish_notification(d)
            BY <6>1, <1>0 DEF finish_notification, TypeOK, Finished, Rows
          <6>2. CASE release_notification(d)
            BY <6>2, <1>0 DEF release_notification, TypeOK, Released, Rows
          <6> QED BY <3>3, <6>1, <6>2
        <5> QED BY <5>1
      <4>2. /\ sel' = sel /\ item' = [item EXCEPT ![d] = NoOne]
            /\ Goto(d, "claim") \/ Goto(d, "dying")
        BY <3>3 DEF finish_notification, release_notification, stops
      <4> QED BY <4>1, <4>2, <3>0, <1>0, <2>3, <2>4 DEF Goto, TypeOK
    <3>4. CASE driver_unwinds(d)
      <4>1. StopCovers(n) => StopCovers(n)'
        BY <3>4, <3>0, <1>0 DEF driver_unwinds, StopCovers, TypeOK
      <4> QED BY <4>1, <3>0, <3>4, <1>0, <2>3 DEF driver_unwinds, Goto, TypeOK
    <3>5. ASSUME NEW e \in Drivers, relaunch_driver(d, e) PROVE Goal
      BY <3>5, <3>0, <1>0, <2>3, <2>4 DEF relaunch_driver, Unused, TypeOK, stops
    <3>6. CASE give_up_select(d) \/ give_up_flush(d)
      <4>1. /\ pc[d] \notin Holding /\ item' = item /\ \E l : Goto(d, l)
            /\ \E x : sel' = [sel EXCEPT ![d] = x]
        BY <3>6 DEF give_up_select, give_up_flush, driver
      <4>2. StopCovers(n) => StopCovers(n)'
        BY <4>1, <3>0, <1>0 DEF StopCovers, TypeOK
      <4> QED BY <4>1, <4>2, <3>0, <1>0, <2>3 DEF Goto, TypeOK
    <3> QED BY <2>10, <3>1, <3>2, <3>3, <3>4, <3>5, <3>6 DEF DriverStep
  <2>11. CASE InterruptStep
    <3>0. /\ \A p \in Drivers \cup {"cancel_all", "boot"} : pc'[p] = pc[p]
          /\ item' = item /\ sel'["cancel_all"] = sel["cancel_all"]
      BY <2>11, <1>0, Movers DEF OnlyMoves, InterruptStep, interrupt_select, interrupt_flush, driver, TypeOK
    <3>1. CASE interrupt_select
      <4>1. n \in InterruptedFor(row, Instances)
        BY <2>1, <1>0 DEF InterruptedFor, StartedIsClaimed, Rows
      <4>2. pc'["interrupt"] = "i_flush" /\ n \in sel'["interrupt"]
        BY <3>1, <4>1, <1>0 DEF interrupt_select, Goto, TypeOK
      <4> QED BY <4>2 DEF StopCovers, Goal
    <3>2. CASE interrupt_flush
      <4>1. n \notin sel["interrupt"]
        BY <3>2, <1>0 DEF interrupt_flush, CancelRows, Cancelled, Rows
      <4>2. StopCovers(n) => StopCovers(n)'
        BY <3>0, <3>2, <4>1 DEF interrupt_flush, StopCovers
      <4> QED BY <3>0, <4>2, <2>3
    <3> QED BY <2>11, <3>1, <3>2 DEF InterruptStep
  <2>12. CASE CancelAllStep
    <3>0. /\ \A p \in Drivers \cup {"interrupt", "boot"} : pc'[p] = pc[p]
          /\ item' = item /\ sel'["interrupt"] = sel["interrupt"]
      <4>1. \A p \in Drivers \cup {"interrupt", "boot"} : pc'[p] = pc[p]
        BY <2>12, <1>0, Movers DEF OnlyMoves
      <4>2. item' = item /\ (sel' = sel \/ \E x : sel' = [sel EXCEPT !["cancel_all"] = x])
        BY <2>12 DEF CancelAllStep, cancel_all_driver_gone, cancel_runtime_jobs,
           cancel_running_async_jobs, cancel_all_select, cancel_all_flush, force_mark_session_stopped,
           cancel_all_publish, driver, stops
      <4> QED BY <4>1, <4>2, <1>0 DEF TypeOK
    <3>1. CASE cancel_all_driver_gone
      BY <3>1, <1>0 DEF cancel_all_driver_gone, StopCovers, Goto, TypeOK, Goal
    <3>2. ASSUME NEW K \in SUBSET Jobs, cancel_runtime_jobs(K) PROVE Goal
      <4>1. pc'["cancel_all"] = "c_jobwait"
        BY <3>2, <1>0 DEF cancel_runtime_jobs, Registered
      <4> QED BY <4>1 DEF StopCovers, Goal
    <3>3. CASE cancel_running_async_jobs
      <4>1. pc'["cancel_all"] = "c_select"
        BY <3>3, <1>0 DEF cancel_running_async_jobs
      <4> QED BY <4>1 DEF StopCovers, Goal
    <3>4. CASE cancel_all_select
      <4>1. n \in OutstandingFor(row, Instances)
        BY <2>1, <1>0 DEF OutstandingFor, Outstanding, Rows
      <4>2. pc'["cancel_all"] = "c_flush" /\ n \in sel'["cancel_all"]
        BY <3>4, <4>1, <1>0 DEF cancel_all_select, Goto, TypeOK
      <4> QED BY <4>2 DEF StopCovers, Goal
    <3>5. CASE cancel_all_flush
      <4>1. n \notin sel["cancel_all"]
        BY <3>5, <1>0 DEF cancel_all_flush, CancelRows, Cancelled, Rows
      <4>2. StopCovers(n) => StopCovers(n)'
        BY <3>0, <3>5, <4>1 DEF cancel_all_flush, StopCovers
      <4> QED BY <3>0, <4>2, <2>3
    <3>6. CASE force_mark_session_stopped \/ cancel_all_publish
      <4>1. StopCovers(n) => StopCovers(n)'
        BY <3>0, <3>6 DEF force_mark_session_stopped, cancel_all_publish, StopCovers
      <4> QED BY <3>0, <4>1, <2>3
    <3> QED BY <2>12, <3>1, <3>2, <3>3, <3>4, <3>5, <3>6 DEF CancelAllStep
  <2>13. CASE BootStep
    <3>1. \A p \in Drivers \cup {"interrupt", "cancel_all"} : pc'[p] = pc[p]
      BY <2>13, <1>0, Movers DEF OnlyMoves
    <3>2. CASE boot_fail_stale_jobs
      BY <3>2, <1>0 DEF boot_fail_stale_jobs, Goto, TypeOK, Goal
    <3>3. CASE reset_processing_notifications_all
      BY <3>3, <1>0 DEF reset_processing_notifications_all, Reset, Rows
    <3>4. CASE recover_pending_sessions
      BY <3>1, <3>4, <2>3, <2>4 DEF recover_pending_sessions, stops
    <3> QED BY <2>13, <3>2, <3>3, <3>4 DEF BootStep
  <2>14. ASSUME NEW p \in Procs, CommonStep(p) PROVE Goal
    <3>1. ASSUME NEW d \in Drivers, create_driver(p, d) PROVE Goal
      <4>1. /\ p \notin Drivers \cup Stoppers
        BY <3>1, <1>0 DEF create_driver, TypeOK, DriverPC, Draining, Waiting, Settling, IntPC, AllPC, Stoppers
      <4>2. /\ \A e \in Drivers : e # d => pc'[e] = pc[e]
            /\ pc'["interrupt"] = pc["interrupt"] /\ pc'["cancel_all"] = pc["cancel_all"]
            /\ pc["boot"] \in {"b_jobs", "b_reset"} => pc'["boot"] = pc["boot"]
        BY <3>1, <4>1, <2>14, <1>0 DEF create_driver, TypeOK, Stoppers
      <4> QED BY <3>1, <4>2, <1>0, <2>3, <2>4 DEF create_driver, Unused
    <3>2. CASE ~\E d \in Drivers : create_driver(p, d)
      <4>1. /\ item' = item /\ sel' = sel /\ pc[p] \notin Holding \cup {"b_jobs", "b_reset"}
            /\ pc[p] \in {"i_wait", "i_flush", "c_wait", "c_jobs", "c_jobwait", "c_select", "c_flush"} => FALSE
            /\ \E l \in {"idle", "stopwrite", "idleread", "idlepub", "done", "c_jobs", "spawn", "mark"} : Goto(p, l)
            /\ p = "cancel_all" /\ pc[p] \in {"stopcheck", "stopwrite"} => Goto(p, "c_jobs") \/ Goto(p, "stopwrite")
        BY <2>14, <3>2 DEF CommonStep, mark_session_running, start_notification_recovery, AfterStop,
           mark_session_stopped, finish_session_run, publish_idle_if_inactive, publish_idle, driver, stops
      <4>2. StopCovers(n) => StopCovers(n)'
        BY <4>1, <1>0, <2>14 DEF StopCovers, Goto, TypeOK
      <4> QED BY <4>1, <4>2, <1>0, <2>3, <2>14 DEF Goto, TypeOK
    <3> QED BY <3>1, <3>2
  <2> QED BY <2>5, <2>6, <2>7, <2>8, <2>9, <2>10, <2>11, <2>12, <2>13, <2>14 DEF Next, Environment
<1> QED BY <1>1, <1>2

(* Only a tool call makes a row awaiting.                                   *)
LEMMA RowToAwaiting ==
    ASSUME TypeOK, [Next]_vars, NEW j \in Jobs, row'[j].status = "awaiting"
    PROVE  \/ row'[j] = row[j]
           \/ \E d \in Drivers : start_async_sandbox_command(d, j)
<1>1. j \in Ntf /\ j \notin Messages /\ row[j] \in Rows
  BY JobsAssumption DEF TypeOK, Messages
<1>2. \/ row'[j] = row[j]
      \/ \E d \in Drivers : start_async_sandbox_command(d, j)
      \/ row'[j] = Resolved(row[j], TRUE) \/ row'[j] = Resolved(row[j], FALSE)
      \/ row'[j] = Released(row[j]) \/ row'[j] = Reset(row[j]) \/ row'[j] = Cancelled(row[j])
      \/ row'[j] = Finished(row[j], "completed") \/ row'[j] = Finished(row[j], "failed")
      \/ row'[j] = Claimed(row[j])
  BY <1>1, RowMoves
<1>3. CASE row'[j] = Resolved(row[j], TRUE) \/ row'[j] = Resolved(row[j], FALSE)
  BY <1>1, <1>3 DEF Resolved, Rows
<1>4. CASE row'[j] = Released(row[j]) \/ row'[j] = Reset(row[j]) \/ row'[j] = Cancelled(row[j])
  BY <1>1, <1>4 DEF Released, Reset, Cancelled, Rows
<1>5. CASE row'[j] = Finished(row[j], "completed") \/ row'[j] = Finished(row[j], "failed")
  BY <1>1, <1>5 DEF Finished, Rows
<1>6. CASE row'[j] = Claimed(row[j])
  BY <1>1, <1>6 DEF Claimed, Rows
<1> QED BY <1>2, <1>3, <1>4, <1>5, <1>6

(* An awaited result is being worked on until its command ends.             *)
LEMMA WorkerStep == Control /\ AwaitedIsWorkedOn /\ [Next]_vars => AwaitedIsWorkedOn'
<1> SUFFICES ASSUME Control, AwaitedIsWorkedOn, [Next]_vars,
                    NEW j \in Jobs, row'[j].status = "awaiting"
             PROVE  \/ pc'[j] \in {"created", "run", "jobcancel"}
                    \/ pc'[j] = "lost" /\ used'.stops > 0
                    \/ pc'["boot"] = "b_jobs"
  BY DEF AwaitedIsWorkedOn
<1> DEFINE Goal == \/ pc'[j] \in {"created", "run", "jobcancel"}
                   \/ pc'[j] = "lost" /\ used'.stops > 0
                   \/ pc'["boot"] = "b_jobs"
<1> HIDE DEF Goal
<1> SUFFICES Goal
  BY DEF Goal
<1>0. /\ TypeOK /\ BootAlone /\ ToolsApart
      /\ \A d \in Drivers : d \in Procs /\ d \notin Jobs \cup {"user", "boot", "interrupt", "cancel_all"}
      /\ \A k \in Jobs : k \in Procs /\ k \notin {"user", "boot", "interrupt", "cancel_all"}
      /\ {"user", "boot", "interrupt", "cancel_all"} \subseteq Procs
      /\ j \in Ntf /\ row[j] \in Rows
  BY ProcKinds, NamesAssumption, JobsAssumption DEF Control, Stoppers, TypeOK
<1>1. ASSUME NEW d \in Drivers, start_async_sandbox_command(d, j) PROVE Goal
  BY <1>0, <1>1 DEF start_async_sandbox_command, Goto, TypeOK, Goal
<1>2. CASE ~\E d \in Drivers : start_async_sandbox_command(d, j)
  <2>1. row'[j] = row[j] /\ row[j].status = "awaiting"
    BY <1>0, <1>2, RowToAwaiting
  <2>2. /\ \/ pc[j] \in {"created", "run", "jobcancel"}
           \/ pc[j] = "lost" /\ used.stops > 0
           \/ pc["boot"] = "b_jobs"
        /\ pc["boot"] = "b_jobs" => pc[j] = "done"
    BY <2>1, <1>0 DEF AwaitedIsWorkedOn, BootAlone, Up
  <2>3. ASSUME pc'[j] = pc[j], used'.stops = used.stops, pc'["boot"] = pc["boot"] PROVE Goal
    BY <2>2, <2>3 DEF Goal
  <2>4. CASE UNCHANGED vars
    BY <2>3, <2>4 DEF vars
  <2>5. CASE crash
    BY <2>5, <1>0 DEF crash, Goal
  <2>6. ASSUME NEW s \in Stoppers, NEW l, is_running, CancelDriver(s, l), Up, used'.stops = used.stops + 1
        PROVE  Goal
    <3>1. used'.stops > 0
      BY <2>6, <1>0 DEF TypeOK
    <3>2. j \in tools => pc'[j] = "lost"
      BY <2>2, <2>6, <1>0, CancelMoves DEF JobCut, ToolsApart, Up
    <3>3. j \notin tools => pc'[j] = pc[j]
      BY <2>6, <1>0, CancelMoves, NamesAssumption
    <3> QED BY <2>2, <2>6, <3>1, <3>2, <3>3 DEF Goal, Up
  <2>7. CASE interrupt \/ cancel_all
    <3>1. Up /\ used'.stops = used.stops + 1
      BY <2>7, <1>0 DEF interrupt, cancel_all, TypeOK
    <3>2. CASE interrupt \/ is_running
      BY <2>6, <2>7, <3>1, <3>2 DEF interrupt, cancel_all, Stoppers
    <3>3. CASE cancel_all /\ ~is_running
      <4>1. pc'[j] = pc[j] /\ pc'["boot"] = pc["boot"]
        BY <3>3, <1>0 DEF cancel_all, Goto, TypeOK
      <4>2. used'.stops > 0
        BY <3>1, <1>0 DEF TypeOK
      <4> QED BY <2>2, <4>1, <4>2 DEF Goal
    <3> QED BY <2>7, <3>2, <3>3
  <2>8. CASE \/ \E i \in Instances : start_turn(i)
             \/ \E n \in Messages : enqueue_user_message(n)
             \/ \E d \in Drivers : claim_fails(d) \/ DriverStep(d)
             \/ InterruptStep
    <3>1. used'.stops = used.stops
      BY <2>8, <1>0 DEF start_turn, enqueue_user_message, claim_fails, DriverStep, drive, initial_turn_ends,
         claim_select, claim_update, turn_ends, finish_notification, release_notification, driver_unwinds,
         reconcile_driver, driver_goes_idle, relaunch_driver, give_up_select, give_up_flush,
         InterruptStep, interrupt_select, interrupt_flush, TypeOK
    <3>2. pc'[j] = pc[j] /\ pc'["boot"] = pc["boot"]
      BY <2>8, <1>0, Movers DEF OnlyMoves
    <3> QED BY <3>1, <3>2, <2>3
  <2>9. ASSUME NEW d \in Drivers, NEW k \in Jobs,
               start_async_sandbox_command(d, k) \/ cancel_async_sandbox_command(d, k)
        PROVE  Goal
    <3>1. used' = used
      BY <2>9 DEF start_async_sandbox_command, cancel_async_sandbox_command
    <3>2. CASE k # j
      BY <2>9, <3>1, <3>2, <1>0, <2>3, Movers DEF OnlyMoves
    <3>3. CASE k = j
      <4>1. pc'[j] = "jobcancel"
        BY <2>1, <2>9, <3>3, <1>0, <1>2 DEF cancel_async_sandbox_command, Goto, TypeOK, Resolved, Rows
      <4> QED BY <4>1 DEF Goal
    <3> QED BY <3>2, <3>3
  <2>10. ASSUME NEW k \in Jobs, JobStep(k) PROVE Goal
    <3>1. used' = used
      BY <2>10 DEF JobStep, create_job_task, finish_async_job, cancel_async_job, resume_session
    <3>2. CASE k # j
      BY <2>10, <3>1, <3>2, <1>0, <2>3, Movers DEF OnlyMoves
    <3>3. CASE k = j
      <4>1. ~finish_async_job(j) /\ ~cancel_async_job(j)
        BY <2>1, <1>0 DEF finish_async_job, cancel_async_job, TypeOK, Resolved, Rows
      <4>2. ~resume_session(j)
        BY <2>2 DEF resume_session
      <4>3. create_job_task(j)
        BY <2>10, <3>3, <4>1, <4>2 DEF JobStep
      <4> QED BY <4>3, <1>0 DEF create_job_task, Goto, TypeOK, Goal
    <3> QED BY <3>2, <3>3
  <2>11. CASE CancelAllStep
    <3>0. used' = used /\ pc'["boot"] = pc["boot"]
      <4>1. used' = used
        BY <2>11 DEF CancelAllStep, cancel_all_driver_gone, cancel_runtime_jobs, cancel_running_async_jobs,
           cancel_all_select, cancel_all_flush, force_mark_session_stopped, cancel_all_publish
      <4> QED BY <2>11, <4>1, <1>0, Movers DEF OnlyMoves
    <3>1. ASSUME NEW K \in SUBSET Jobs, cancel_runtime_jobs(K) PROVE Goal
      <4>1. pc["boot"] # "b_jobs"
        BY <3>1, <1>0 DEF cancel_runtime_jobs, BootAlone, Up
      <4>2. pc'[j] = pc[j] \/ pc'[j] = "jobcancel" \/ j \in K
        BY <3>1, <1>0 DEF cancel_runtime_jobs, Registered
      <4>3. j \notin K
        BY <2>2, <3>1, <4>1 DEF cancel_runtime_jobs, Registered, Resuming, Settling
      <4> QED BY <4>1, <4>2, <4>3, <3>0, <2>2 DEF Goal
    <3>2. CASE cancel_running_async_jobs
      <4>1. pc["boot"] # "b_jobs"
        BY <3>2, <1>0 DEF cancel_running_async_jobs, BootAlone, Up
      <4>2. row'[j] = Resolved(row[j], FALSE)
        BY <2>2, <3>2, <4>1, <1>0 DEF cancel_running_async_jobs
      <4> QED BY <2>1, <4>2, <1>0 DEF Resolved, Rows
    <3>3. CASE ~cancel_running_async_jobs /\ ~\E K \in SUBSET Jobs : cancel_runtime_jobs(K)
      <4>1. \E l : Goto("cancel_all", l)
        BY <2>11, <3>3 DEF CancelAllStep, cancel_all_driver_gone, cancel_all_select, cancel_all_flush,
           force_mark_session_stopped, cancel_all_publish
      <4> QED BY <4>1, <3>0, <1>0, <2>3 DEF Goto, TypeOK
    <3> QED BY <3>1, <3>2, <3>3
  <2>12. CASE BootStep
    <3>1. used' = used /\ pc'[j] = pc[j]
      <4>1. used' = used
        BY <2>12 DEF BootStep, boot_fail_stale_jobs, reset_processing_notifications_all, recover_pending_sessions
      <4> QED BY <2>12, <4>1, <1>0, Movers DEF OnlyMoves
    <3>2. CASE pc["boot"] = "b_jobs"
      <4>1. boot_fail_stale_jobs
        BY <2>12, <3>2 DEF BootStep, reset_processing_notifications_all, recover_pending_sessions
      <4>2. row'[j] = Resolved(row[j], TRUE)
        BY <4>1, <1>0 DEF boot_fail_stale_jobs
      <4> QED BY <2>1, <4>2, <1>0 DEF Resolved, Rows
    <3>3. CASE pc["boot"] # "b_jobs"
      BY <3>1, <3>3, <2>2 DEF Goal
    <3> QED BY <3>2, <3>3
  <2>13. ASSUME NEW p \in Procs, CommonStep(p) PROVE Goal
    <3>1. /\ used' = used /\ pc[p] \notin {"created", "run", "jobcancel", "lost", "b_jobs", "done"}
      BY <2>13 DEF CommonStep, mark_session_running, create_driver, start_notification_recovery,
         mark_session_stopped, finish_session_run, publish_idle_if_inactive, publish_idle, stops
    <3>2. pc["boot"] # "b_jobs"
      BY <3>1, <2>13, <1>0 DEF BootAlone, Up
    <3>3. p # j
      BY <2>2, <3>1, <3>2
    <3>4. pc'[j] = pc[j]
      BY <2>13, <3>3, <1>0, Movers DEF OnlyMoves
    <3> QED BY <3>1, <3>2, <3>4, <2>2 DEF Goal
  <2> QED BY <2>4, <2>5, <2>7, <2>8, <2>9, <2>10, <2>11, <2>12, <2>13 DEF Next, Environment
<1> QED BY <1>1, <1>2

-----------------------------------------------------------------------------

(* Nothing is claimed or awaited when the application starts.              *)
LEMMA HeldInit == Init => Held
<1> SUFFICES ASSUME Init PROVE Held
  OBVIOUS
<1>1. \A n \in Ntf : row[n].status = "absent"
  BY DEF Init, NoRow
<1>2. \A p \in Procs : pc[p] = "done"
  BY DEF Init
<1>3. \A d \in Drivers : pc[d] = "done"
  BY <1>2 DEF Procs
<1> QED BY <1>1, <1>3, ControlInit, JobsAssumption
        DEF Held, ItemsAreRows, StartedIsClaimed, ProcessingIsHeld, AwaitedIsWorkedOn, Holding

(* Every step keeps the whole invariant.                                   *)
LEMMA HeldStep == Held /\ [Next]_vars => Held'
<1>1. Control => TypeOK
  BY DEF Control
<1> QED BY <1>1, ControlStep, ItemsStep, StartedStep, HandlerStep, WorkerStep DEF Held

(* The inductive invariant holds at every step.                             *)
THEOREM SessionInvariance == Spec => []Held
  BY HeldInit, HeldStep, PTL DEF Spec

(* Whatever the interleaving of drivers, commands, requests, stops and     *)
(* restarts, a row marked PROCESSING is in the hands of a driver or about  *)
(* to be discarded by a stop, and an awaited result is being worked on     *)
(* (_claim_next_pending_notification_locked, _finish_notification,         *)
(* release_notification, _run_async).                                      *)
THEOREM ClaimedIsAlwaysHandled == Spec => []ClaimedIsHandled
<1>1. Held => ClaimedIsHandled
  BY DEF Held, Control, ClaimedIsHandled, ProcessingIsHeld, ProcessingHasHandler, Up,
         AwaitedIsWorkedOn, AwaitedHasWorker
<1> QED BY <1>1, SessionInvariance, PTL

(* There is never more than one driver that is not on its way out, and     *)
(* _start_lock has at most one holder (_turn_lock and _start_lock in       *)
(* start_turn, start_notification_recovery and _reconcile_driver).         *)
THEOREM DriversAreApart == Spec => [](OneDriver /\ Locks)
<1>1. Held => OneDriver /\ Locks
  BY DEF Held, Control
<1> QED BY <1>1, SessionInvariance, PTL

-----------------------------------------------------------------------------
(* The inductive form of NoLostWakeup.                                      *)

CancelAllCovers(n) ==
    \/ pc["cancel_all"] \in {"c_wait", "stopcheck", "stopwrite", "c_jobs", "c_jobwait", "c_select"}
    \/ pc["cancel_all"] = "c_flush" /\ n \in sel["cancel_all"]

InterruptCovers(n) ==
    \/ pc["interrupt"] = "i_wait"
    \/ pc["interrupt"] = "i_flush" /\ n \in sel["interrupt"]

Fresh(n) == row[n].kind = "user_message" /\ ~row[n].started

(* Who is going to look for row n.  An interrupt is relied on exactly for   *)
(* the rows it discards: a fresh message it spares waits for the next      *)
(* driver, and is let to wait only because a stop took the last one away.  *)
Woken(n) ==
    \/ \E d \in Drivers : pc[d] \in Draining \cup {"recon_some"}
    \/ \E d \in Drivers : pc[d] = "x_flush" /\ n \in sel[d]
    \/ \E p \in Jobs \cup {"boot", "user"} : pc[p] \in Resuming
    \/ ~Up
    \/ CancelAllCovers(n)
    \/ used.crashes > 0 /\ ~meta.running
    \/ Fresh(n) /\ halted
    \/ ~Fresh(n) /\ InterruptCovers(n)

Wakeups == \A n \in Ntf : row[n].status = "pending" => Woken(n)

OneAgent == \A i, k \in Instances : i = k

-----------------------------------------------------------------------------

(* How a row becomes pending.                                               *)
LEMMA RowToPending ==
    ASSUME TypeOK, [Next]_vars, NEW n \in Ntf, row'[n].status = "pending"
    PROVE  \/ row'[n] = row[n]
           \/ n \in Messages /\ enqueue_user_message(n) /\ ~row'[n].started
           \/ n \in Jobs /\ finish_async_job(n)
           \/ boot_fail_stale_jobs
           \/ \E d \in Drivers : release_notification(d)
           \/ reset_processing_notifications_all
<1>1. row[n] \in Rows
  BY DEF TypeOK
<1>2. CASE row'[n] = Resolved(row[n], FALSE)
  BY <1>1, <1>2 DEF Resolved, Rows
<1>3. CASE row'[n] = Claimed(row[n])
  BY <1>1, <1>3 DEF Claimed, Rows
<1>4. CASE row'[n] = Finished(row[n], "completed") \/ row'[n] = Finished(row[n], "failed")
  BY <1>1, <1>4 DEF Finished, Rows
<1>5. CASE row'[n] = Cancelled(row[n])
  BY <1>1, <1>5 DEF Cancelled, Rows
<1> QED BY <1>2, <1>3, <1>4, <1>5, RowMoves

(* The notifications pending for the main agents are all that are pending.  *)
LEMMA PendingIsSeen ==
    ASSUME TypeOK, NEW n \in Ntf, row[n].status = "pending"
    PROVE  /\ n \in PendingFor(row, Instances) /\ has_pending_main
           /\ n \in OutstandingFor(row, Instances) /\ has_outstanding
           /\ Fresh(n) \/ n \in InterruptedFor(row, Instances)
           /\ OneAgent => \A i \in Instances : n \in PendingFor(row, {i})
<1>1. row[n].to \in Instances
  BY DEF TypeOK, Rows
<1> QED BY <1>1 DEF PendingFor, has_pending_main, OutstandingFor, has_outstanding, Outstanding,
                    Fresh, InterruptedFor, OneAgent

(* No step of a driver, a command, a stop or a restart loses the wake-up   *)
(* of a pending notification.                                              *)
LEMMA WakeupsStep == OneAgent /\ Held /\ Wakeups /\ [Next]_vars => Wakeups'
<1> SUFFICES ASSUME OneAgent, Held, Wakeups, [Next]_vars,
                    NEW n \in Ntf, row'[n].status = "pending"
             PROVE  Woken(n)'
  BY DEF Wakeups
<1>0. /\ TypeOK /\ BootAlone /\ OneDriver /\ Locks /\ Stops /\ Queueing
      /\ \A d \in Drivers : d \in Procs /\ d # NoOne /\ d \notin Jobs \cup {"user", "boot", "interrupt", "cancel_all"}
      /\ \A j \in Jobs : j \in Procs /\ j \notin {"user", "boot", "interrupt", "cancel_all"}
      /\ {"user", "boot", "interrupt", "cancel_all"} \subseteq Procs
      /\ row[n] \in Rows
  BY ProcKinds, NamesAssumption DEF Held, Control, Stoppers, TypeOK
(* Each of the ways to be woken, after the step.                            *)
<1>d. (\E d \in Drivers : pc'[d] \in Draining \cup {"recon_some"}) => Woken(n)'
  BY DEF Woken
<1>p. (\E p \in Jobs \cup {"boot", "user"} : pc'[p] \in Resuming) => Woken(n)'
  BY DEF Woken
<1>b. pc'["boot"] # "done" => Woken(n)'
  BY DEF Woken, Up
<1>c. pc'["cancel_all"] \in {"c_wait", "stopcheck", "stopwrite", "c_jobs", "c_jobwait", "c_select"} => Woken(n)'
  BY DEF Woken, CancelAllCovers
<1>i. halted' /\ pc'["interrupt"] = "i_wait" => Woken(n)'
  BY DEF Woken, InterruptCovers
(* What is left of them by a step that moves one process p.                 *)
<1>f. ASSUME row'[n] = row[n], halted' = halted, used'.crashes = used.crashes,
             meta'.running => meta.running,
             \A d \in Drivers : pc[d] \in Draining \cup {"recon_some", "x_flush"} =>
                pc'[d] = pc[d] /\ sel'[d] = sel[d],
             \A p \in Jobs \cup {"boot", "user"} : pc[p] \in Resuming => pc'[p] = pc[p],
             Up' => Up,
             CancelAllCovers(n) => CancelAllCovers(n)',
             ~Fresh(n) /\ InterruptCovers(n) => InterruptCovers(n)'
      PROVE  Woken(n)'
  BY <1>f DEF Wakeups, Woken, Fresh
<1>1. CASE UNCHANGED vars
  BY <1>1, <1>f DEF vars, Up, CancelAllCovers, InterruptCovers
<1>2. CASE crash
  BY <1>2, <1>0, <1>b DEF crash
<1>3. CASE interrupt
  <2>1. pc'["interrupt"] = "i_wait"
    BY <1>3, <1>0, CancelMoves DEF interrupt, Stoppers
  <2>2. halted' = TRUE
    BY <1>3 DEF interrupt, CancelDriver
  <2> QED BY <2>1, <2>2, <1>i
<1>4. CASE cancel_all
  <2>1. CASE is_running
    BY <2>1, <1>4, <1>0, <1>c, CancelMoves DEF cancel_all, Stoppers
  <2>2. CASE ~is_running
    BY <2>2, <1>4, <1>0, <1>c DEF cancel_all, Goto, TypeOK
  <2> QED BY <2>1, <2>2
<1>5. ASSUME NEW i \in Instances, start_turn(i) PROVE Woken(n)'
  <2>1. /\ row' = row /\ UNCHANGED stops /\ meta' = meta /\ used'.crashes = used.crashes
        /\ pc["user"] = "done" /\ \E l : Goto("user", l)
    BY <1>5, <1>0 DEF start_turn, table, shown, TypeOK
  <2> QED BY <2>1, <1>0, <1>f DEF Goto, TypeOK, Resuming, Up, CancelAllCovers, InterruptCovers, stops
<1>6. ASSUME NEW m \in Messages, enqueue_user_message(m) PROVE Woken(n)'
  <2>1. /\ UNCHANGED stops /\ meta' = meta /\ used' = used
        /\ pc["user"] = "enqueue" /\ Goto("user", "done")
    BY <1>6 DEF enqueue_user_message, shown
  <2>2. CASE row'[n] = row[n]
    BY <2>1, <2>2, <1>0, <1>f DEF Goto, TypeOK, Resuming, Up, CancelAllCovers, InterruptCovers, stops
  <2>3. CASE row'[n] # row[n]
    <3>1. Fresh(n)'
      BY <1>6, <2>3, <1>0 DEF enqueue_user_message, TypeOK, NewUserMessage, Fresh
    <3>2. halted \/ \E d \in Drivers : pc[d] \in Draining
      BY <2>1, <1>0 DEF Queueing
    <3>3. halted' = halted /\ \A d \in Drivers : pc'[d] = pc[d]
      BY <2>1, <1>0 DEF Goto, TypeOK, stops
    <3>4. Fresh(n)' /\ halted' => Woken(n)'
      BY DEF Woken
    <3> QED BY <3>1, <3>2, <3>3, <3>4, <1>d
  <2> QED BY <2>2, <2>3
<1>7. ASSUME NEW d \in Drivers, claim_fails(d) PROVE Woken(n)'
  BY <1>7, <1>0, <1>d DEF claim_fails, Goto, TypeOK, Draining
<1>8. ASSUME NEW d \in Drivers, NEW j \in Jobs,
             start_async_sandbox_command(d, j) \/ cancel_async_sandbox_command(d, j)
      PROVE  Woken(n)'
  <2>1. pc[d] \in Draining /\ \E l : Goto(j, l)
    BY <1>8 DEF start_async_sandbox_command, cancel_async_sandbox_command, Draining, Holding
  <2> QED BY <2>1, <1>0, <1>d DEF Goto, TypeOK
<1>9. ASSUME NEW d \in Drivers, DriverStep(d) PROVE Woken(n)'
  <2>0. /\ pc'["interrupt"] = pc["interrupt"] /\ pc'["cancel_all"] = pc["cancel_all"] /\ pc'["boot"] = pc["boot"]
        /\ \A p \in Jobs \cup {"user"} : pc'[p] = pc[p]
    BY <1>9, <1>0, Movers DEF OnlyMoves
  <2>1. CASE drive(d) \/ initial_turn_ends(d) \/ claim_select(d) \/ claim_update(d) \/ turn_ends(d)
             \/ finish_notification(d)
    <3>1. \E l \in {"turn0", "claim", "recon", "cas", "turn", "complete", "preempted", "failed"} : Goto(d, l)
      BY <2>1 DEF drive, initial_turn_ends, claim_select, claim_update, turn_ends, finish_notification
    <3> QED BY <3>1, <1>0, <1>d DEF Goto, TypeOK, Draining, Holding
  <2>2. CASE release_notification(d)
    <3>1. current = d /\ pc[d] = "release"
      BY <2>2, <1>0 DEF release_notification, OneDriver, Draining, Holding
    <3>2. halted /\ \E s \in Stoppers : pc[s] = WaitPC(s)
      BY <3>1, <1>0 DEF Stops
    <3>3. halted' = halted
      BY <2>2 DEF release_notification, stops
    <3> QED BY <3>2, <3>3, <2>0, <1>c, <1>i DEF WaitPC, Stoppers
  <2>3. ASSUME row'[n] = row[n], pc[d] \notin Draining \cup {"recon_some", "x_flush"},
               halted' = halted, used' = used, meta' = meta,
               \E l : Goto(d, l), sel' = sel \/ \E x : sel' = [sel EXCEPT ![d] = x]
        PROVE  Woken(n)'
    <3>1. sel'["interrupt"] = sel["interrupt"] /\ sel'["cancel_all"] = sel["cancel_all"]
      BY <2>3, <1>0 DEF TypeOK
    <3>2. \A e \in Drivers : e # d => pc'[e] = pc[e] /\ sel'[e] = sel[e]
      BY <2>3, <1>0 DEF TypeOK, Goto
    <3> QED BY <2>3, <3>1, <3>2, <2>0, <1>f DEF Up, CancelAllCovers, InterruptCovers
  <2>4. CASE driver_unwinds(d)
    BY <2>3, <2>4 DEF driver_unwinds, table, shown, Draining, Waiting, Holding
  <2>5. CASE driver_goes_idle(d)
    BY <2>3, <2>5 DEF driver_goes_idle, table, shown, stops, Draining, Waiting, Holding
  <2>6. CASE reconcile_driver(d)
    <3>1. row' = row /\ inst[d] \in Instances
      BY <2>6, <1>0 DEF reconcile_driver, table, TypeOK
    <3>2. PendingFor(row, {inst[d]}) # {}
      BY <3>1, <1>0, PendingIsSeen
    <3>3. pc'[d] = "recon_some"
      BY <2>6, <3>2, <1>0 DEF reconcile_driver, Goto, TypeOK
    <3> QED BY <3>3, <1>d
  <2>7. ASSUME NEW e \in Drivers, relaunch_driver(d, e) PROVE Woken(n)'
    BY <2>7, <1>0, <1>d DEF relaunch_driver, TypeOK, Draining, Waiting
  <2>8. CASE give_up_select(d)
    <3>1. row' = row
      BY <2>8 DEF give_up_select, table
    <3>2. pc'[d] = "x_flush" /\ n \in sel'[d]
      BY <2>8, <3>1, <1>0, PendingIsSeen DEF give_up_select, Goto, TypeOK
    <3> QED BY <3>2 DEF Woken
  <2>9. CASE give_up_flush(d)
    <3>1. n \notin sel[d] /\ row'[n] = row[n]
      BY <2>9, <1>0 DEF give_up_flush, CancelRows, Cancelled, Rows
    <3>2. /\ halted' = halted /\ used' = used /\ meta' = meta /\ Goto(d, "stopcheck")
          /\ sel' = [sel EXCEPT ![d] = {}] /\ pc[d] = "x_flush"
      BY <2>9 DEF give_up_flush, shown
    <3>3. sel'["interrupt"] = sel["interrupt"] /\ sel'["cancel_all"] = sel["cancel_all"]
      BY <3>2, <1>0 DEF TypeOK
    <3>4. \A e \in Drivers : e # d => pc'[e] = pc[e] /\ sel'[e] = sel[e]
      BY <3>2, <1>0 DEF TypeOK, Goto
    <3>5. pc[d] \notin Draining \cup {"recon_some"}
      BY <3>2 DEF Draining, Waiting, Holding
    <3>6. Woken(n)
      BY <3>1 DEF Wakeups
    <3> QED BY <3>1, <3>2, <3>3, <3>4, <3>5, <3>6, <2>0
            DEF Woken, Up, CancelAllCovers, InterruptCovers, Fresh
  <2> QED BY <1>9, <2>1, <2>2, <2>4, <2>5, <2>6, <2>7, <2>8, <2>9 DEF DriverStep
<1>10. ASSUME NEW j \in Jobs, JobStep(j) PROVE Woken(n)'
  <2>1. CASE create_job_task(j)
    <3>1. row' = row /\ UNCHANGED stops /\ meta' = meta /\ used' = used /\ pc[j] = "created" /\ Goto(j, "run")
      BY <2>1 DEF create_job_task, table, shown
    <3> QED BY <3>1, <1>0, <1>f DEF Goto, TypeOK, Resuming, Up, CancelAllCovers, InterruptCovers, stops
  <2>2. CASE finish_async_job(j) \/ cancel_async_job(j)
    <3>1. Goto(j, "resume")
      BY <2>2 DEF finish_async_job, cancel_async_job
    <3> QED BY <3>1, <1>0, <1>p DEF Goto, TypeOK, Resuming
  <2>3. CASE resume_session(j)
    <3>1. has_pending_main
      BY <2>3, <1>0, PendingIsSeen DEF resume_session, table
    <3>2. Goto(j, "recover")
      BY <2>3, <3>1 DEF resume_session
    <3> QED BY <3>2, <1>0, <1>p DEF Goto, TypeOK, Resuming
  <2> QED BY <1>10, <2>1, <2>2, <2>3 DEF JobStep
<1>11. CASE InterruptStep
  <2>0. \A p \in Procs : p # "interrupt" => pc'[p] = pc[p]
    BY <1>11, <1>0, Movers DEF OnlyMoves
  <2>1. /\ halted' = halted /\ used' = used /\ meta' = meta
        /\ \E x : sel' = [sel EXCEPT !["interrupt"] = x]
    BY <1>11 DEF InterruptStep, interrupt_select, interrupt_flush, shown
  <2>2. \A p \in Procs : p # "interrupt" => sel'[p] = sel[p]
    BY <2>1, <1>0 DEF TypeOK
  <2>3. row'[n] = row[n] /\ (~Fresh(n) /\ InterruptCovers(n) => InterruptCovers(n)')
    <3>1. CASE interrupt_select
      <4>1. row' = row /\ pc'["interrupt"] = "i_flush" /\ sel'["interrupt"] = InterruptedFor(row, Instances)
        BY <3>1, <1>0 DEF interrupt_select, Goto, TypeOK, table
      <4> QED BY <4>1, <1>0, PendingIsSeen DEF InterruptCovers
    <3>2. CASE interrupt_flush
      BY <3>2, <1>0 DEF interrupt_flush, CancelRows, Cancelled, Rows, InterruptCovers
    <3> QED BY <1>11, <3>1, <3>2 DEF InterruptStep
  <2> QED BY <2>0, <2>1, <2>2, <2>3, <1>0, <1>f DEF Up, CancelAllCovers
<1>12. CASE CancelAllStep
  <2>1. CASE cancel_all_driver_gone
    BY <2>1, <1>0, <1>c DEF cancel_all_driver_gone, Goto, TypeOK
  <2>2. ASSUME NEW K \in SUBSET Jobs, cancel_runtime_jobs(K) PROVE Woken(n)'
    <3>1. pc'["cancel_all"] = "c_jobwait"
      BY <2>2, <1>0 DEF cancel_runtime_jobs, Registered
    <3> QED BY <3>1, <1>c
  <2>3. CASE cancel_running_async_jobs
    <3>1. pc'["cancel_all"] = "c_select"
      BY <2>3, <1>0 DEF cancel_running_async_jobs
    <3> QED BY <3>1, <1>c
  <2>4. CASE cancel_all_select
    <3>1. row' = row /\ pc'["cancel_all"] = "c_flush" /\ sel'["cancel_all"] = OutstandingFor(row, Instances)
      BY <2>4, <1>0 DEF cancel_all_select, Goto, TypeOK, table
    <3> QED BY <3>1, <1>0, PendingIsSeen DEF Woken, CancelAllCovers
  <2>5. CASE cancel_all_flush \/ force_mark_session_stopped \/ cancel_all_publish
    <3>1. /\ \A p \in Procs : p # "cancel_all" => pc'[p] = pc[p]
          /\ halted' = halted /\ used' = used
          /\ sel' = sel \/ \E x : sel' = [sel EXCEPT !["cancel_all"] = x]
      BY <2>5, <1>0, <1>12, Movers DEF cancel_all_flush, force_mark_session_stopped, cancel_all_publish,
         stops, Goto, TypeOK
    <3>2. meta'.running => meta.running
      BY <2>5, <1>0 DEF cancel_all_flush, force_mark_session_stopped, cancel_all_publish, shown, TypeOK
    <3>3. row'[n] = row[n] /\ ~CancelAllCovers(n)
      <4>1. CASE cancel_all_flush
        BY <4>1, <1>0 DEF cancel_all_flush, CancelRows, Cancelled, Rows, CancelAllCovers
      <4>2. CASE force_mark_session_stopped \/ cancel_all_publish
        BY <4>2 DEF force_mark_session_stopped, cancel_all_publish, CancelAllCovers, table
      <4> QED BY <2>5, <4>1, <4>2
    <3>4. \A p \in Procs : p # "cancel_all" => sel'[p] = sel[p]
      BY <3>1, <1>0 DEF TypeOK
    <3> QED BY <3>1, <3>2, <3>3, <3>4, <1>0, <1>f DEF Up, InterruptCovers
  <2> QED BY <1>12, <2>1, <2>2, <2>3, <2>4, <2>5 DEF CancelAllStep
<1>13. CASE BootStep
  <2>1. CASE boot_fail_stale_jobs \/ reset_processing_notifications_all
    <3>1. Goto("boot", "b_reset") \/ Goto("boot", "b_recover")
      BY <2>1 DEF boot_fail_stale_jobs, reset_processing_notifications_all
    <3> QED BY <3>1, <1>0, <1>b DEF Goto, TypeOK
  <2>2. CASE recover_pending_sessions
    <3>1. row' = row /\ used' = used /\ used.crashes > 0
      BY <2>2, <1>0 DEF recover_pending_sessions, table, BootAlone, Up
    <3>2. has_outstanding
      BY <3>1, <1>0, PendingIsSeen
    <3>3. CASE meta.running
      BY <2>2, <3>2, <3>3, <1>0, <1>b DEF recover_pending_sessions, Goto, TypeOK
    <3>4. CASE ~meta.running
      <4>1. ~meta'.running
        BY <2>2, <3>4, <1>0 DEF recover_pending_sessions, TypeOK
      <4> QED BY <3>1, <4>1 DEF Woken
    <3> QED BY <3>3, <3>4
  <2> QED BY <1>13, <2>1, <2>2 DEF BootStep
<1>14. ASSUME NEW p \in Procs, CommonStep(p) PROVE Woken(n)'
  <2>1. CASE mark_session_running(p)
    <3>1. p \in Jobs \cup {"user", "boot"}
      BY <2>1, <1>0, <1>14, ProcKinds DEF mark_session_running, TypeOK, DriverPC, Draining, Waiting,
         Holding, Settling, IntPC, AllPC
    <3> QED BY <2>1, <3>1, <1>0, <1>14, <1>p DEF mark_session_running, Goto, TypeOK, Resuming
  <2>2. ASSUME NEW d \in Drivers, create_driver(p, d) PROVE Woken(n)'
    <3>1. pc'[d] \in {"launch0", "launch"}
      BY <2>2, <1>0 DEF create_driver, TypeOK
    <3> QED BY <3>1, <1>d DEF Draining, Waiting
  <2>3. CASE start_notification_recovery(p)
    <3>0. row' = row /\ halted' = halted /\ pc[p] = "recover" /\ lock = NoOne
      BY <2>3 DEF start_notification_recovery, table, stops
    <3>1. has_pending_main
      BY <3>0, <1>0, PendingIsSeen
    <3>2. p \in Jobs \cup {"user", "boot"}
      BY <3>0, <1>0, <1>14, ProcKinds DEF TypeOK, DriverPC, Draining, Waiting, Holding, Settling, IntPC, AllPC
    <3>3. CASE is_running
      <4>1. current \in Drivers /\ pc[current] \notin Reconciling
        BY <3>0, <3>3, <1>0 DEF is_running, TypeOK, Locks
      <4>2. pc'[current] = pc[current] /\ pc'["interrupt"] = pc["interrupt"] /\ pc'["cancel_all"] = pc["cancel_all"]
        BY <2>3, <3>2, <3>3, <4>1, <1>0 DEF start_notification_recovery, Goto, TypeOK
      <4>3. CASE pc[current] \in Draining
        BY <4>1, <4>2, <4>3, <1>d
      <4>4. CASE pc[current] \in Dying
        BY <4>1, <4>2, <4>4, <3>0, <1>0, <1>c, <1>i DEF Stops, WaitPC, Stoppers
      <4> QED BY <4>1, <4>3, <4>4, <1>0 DEF OneDriver
    <3>4. CASE ~is_running
      BY <2>3, <3>1, <3>2, <3>4, <1>0, <1>14, <1>p DEF start_notification_recovery, Goto, TypeOK, Resuming
    <3> QED BY <3>3, <3>4
  <2>4. CASE mark_session_stopped(p) \/ finish_session_run(p) \/ publish_idle_if_inactive(p) \/ publish_idle(p)
    <3>1. /\ row' = row /\ UNCHANGED stops /\ used' = used /\ pc[p] \in Settling
          /\ \E l \in {"idle", "stopwrite", "idleread", "idlepub", "done", "c_jobs"} : Goto(p, l)
          /\ p = "cancel_all" /\ pc[p] \in {"stopcheck", "stopwrite"} => Goto(p, "c_jobs") \/ Goto(p, "stopwrite")
      BY <2>4 DEF mark_session_stopped, finish_session_run, publish_idle_if_inactive, publish_idle,
         AfterStop, table, Settling
    <3>2. meta'.running => meta.running
      BY <2>4, <1>0 DEF mark_session_stopped, finish_session_run, publish_idle_if_inactive, publish_idle,
         shown, TypeOK
    <3>3. p # "boot" /\ p # "user"
      BY <3>1, <1>0 DEF TypeOK, Settling, UserPC, BootPC
    <3>4. CancelAllCovers(n) => CancelAllCovers(n)'
      BY <3>1, <1>0, <1>14 DEF CancelAllCovers, Goto, TypeOK, Settling, stops
    <3>5. InterruptCovers(n) => InterruptCovers(n)'
      BY <3>1, <1>0, <1>14 DEF InterruptCovers, Goto, TypeOK, Settling, stops
    <3>6. \A q \in Procs : q # p => pc'[q] = pc[q]
      BY <3>1, <1>0, <1>14 DEF Goto, TypeOK
    <3>7. pc[p] \notin Draining \cup {"recon_some", "x_flush"} \cup Resuming
      BY <3>1 DEF Settling, Draining, Waiting, Holding, Resuming
    <3> QED BY <3>1, <3>2, <3>3, <3>4, <3>5, <3>6, <3>7, <1>0, <1>f DEF Up, stops
  <2> QED BY <1>14, <2>1, <2>2, <2>3, <2>4 DEF CommonStep
<1> QED BY <1>1, <1>2, <1>3, <1>4, <1>5, <1>6, <1>7, <1>8, <1>9, <1>10, <1>11, <1>12, <1>13, <1>14
        DEF Next, Environment

(* For a session with one main agent: once a notification is ready, the    *)
(* interleaving of claims, releases, reconciliation, finishing commands,   *)
(* stops and restarts never leaves it without someone to look for it       *)
(* (_reconcile_driver, resume_session, interrupt, cancel_all).  With two   *)
(* main agents the code does lose one (run session_two_agents), which is   *)
(* what the hypothesis excludes.                                           *)
THEOREM NoWakeupIsLost == OneAgent => (Spec => []NoLostWakeup)
<1> SUFFICES ASSUME OneAgent PROVE Spec => []NoLostWakeup
  OBVIOUS
<1>1. Init => Wakeups
  BY DEF Init, Wakeups, NoRow
<1>2. Held /\ Wakeups => NoLostWakeup
  BY DEF Wakeups, NoLostWakeup, PendingFor, Woken, Fresh, CancelAllCovers, InterruptCovers, Attended,
         StopCovers
<1> QED BY <1>1, <1>2, WakeupsStep, SessionInvariance, PTL DEF Spec

-----------------------------------------------------------------------------
(* The inductive form of SettledIsIdle.                                     *)

(* Somebody is still going to write that the session has stopped, or to    *)
(* find that it has not.                                                   *)
StopDuty ==
    \/ \E d \in Drivers : pc[d] \in Draining \cup Reconciling \cup {"stopcheck", "stopwrite"}
    \/ \E j \in Jobs : pc[j] \in {"resume", "stopcheck", "stopwrite"}
    \/ pc["interrupt"] \in {"i_wait", "i_flush", "stopcheck", "stopwrite"}
    \/ pc["cancel_all"] \in {"c_wait", "stopcheck", "stopwrite", "c_jobs", "c_jobwait", "c_select",
                             "c_flush", "c_force"}
    \/ \E p \in Procs : pc[p] = "spawn"
    \/ pc["boot"] \in {"b_jobs", "b_reset", "b_recover"}

(* Likewise for the run state that the clients are sent.                    *)
IdleDuty ==
    \/ StopDuty
    \/ \E p \in Procs : pc[p] \in {"idle", "idleread", "idlepub"}
    \/ pc["cancel_all"] = "c_pub"

Winding ==
    /\ meta.running => has_outstanding \/ StopDuty
    /\ live => has_outstanding \/ IdleDuty
    /\ ~Up => ~live

(* While a driver is the current one, it or the stop that canceled it will *)
(* see to the end of the run.                                              *)
LEMMA RunningIsSeenTo ==
    ASSUME TypeOK, OneDriver, Stops, is_running
    PROVE  \/ current \in Drivers /\ pc[current] \in Draining \cup Reconciling
           \/ pc["interrupt"] = "i_wait"
           \/ pc["cancel_all"] = "c_wait"
<1>1. current \in Drivers
  BY DEF TypeOK, is_running
<1> QED BY <1>1 DEF OneDriver, Stops, WaitPC, Stoppers

(* Every step keeps what the wind-down of a session relies on.             *)
LEMMA WindingStep == Held /\ Winding /\ [Next]_vars => Winding'
<1> SUFFICES ASSUME Held, Winding, [Next]_vars PROVE Winding'
  OBVIOUS
<1>0. /\ TypeOK /\ BootAlone /\ OneDriver /\ Locks /\ Stops
      /\ \A d \in Drivers : d \in Procs /\ d # NoOne /\ d \notin Jobs \cup {"user", "boot", "interrupt", "cancel_all"}
      /\ \A j \in Jobs : j \in Procs /\ j \notin {"user", "boot", "interrupt", "cancel_all"}
      /\ {"user", "boot", "interrupt", "cancel_all"} \subseteq Procs
  BY ProcKinds, NamesAssumption DEF Held, Control, Stoppers
(* Before the startup is over nobody was told of a run.                     *)
<1>v. ASSUME Next, ~crash, ~\E p \in Procs, d \in Drivers : create_driver(p, d)
      PROVE  (live' => live) /\ (Up => Up')
  <2>1. ASSUME NEW p \in Procs, CommonStep(p) PROVE (live' => live) /\ (Up => Up')
    <3>1. (live' => live) /\ (\E l : Goto(p, l)) /\ pc[p] # "done"
      BY <1>v, <2>1 DEF CommonStep, mark_session_running, start_notification_recovery,
         mark_session_stopped, finish_session_run, publish_idle_if_inactive, publish_idle, shown
    <3> QED BY <3>1, <1>0 DEF Goto, TypeOK, Up
  <2>2. ASSUME NEW d \in Drivers, DriverStep(d) PROVE live' = live
    BY <2>2 DEF DriverStep, drive, initial_turn_ends, claim_select, claim_update, turn_ends,
       finish_notification, release_notification, driver_unwinds, reconcile_driver,
       driver_goes_idle, relaunch_driver, give_up_select, give_up_flush, shown
  <2>3. ASSUME NEW d \in Drivers, NEW j \in Jobs,
               claim_fails(d) \/ start_async_sandbox_command(d, j) \/ cancel_async_sandbox_command(d, j)
        PROVE  live' = live
    BY <2>3 DEF claim_fails, start_async_sandbox_command, cancel_async_sandbox_command, shown
  <2>4. ASSUME NEW j \in Jobs, JobStep(j) PROVE live' = live
    BY <2>4 DEF JobStep, create_job_task, finish_async_job, cancel_async_job, resume_session, shown
  <2>5. InterruptStep \/ CancelAllStep \/ BootStep => (live' => live)
    BY DEF InterruptStep, interrupt_select, interrupt_flush, CancelAllStep, cancel_all_driver_gone,
       cancel_runtime_jobs, cancel_running_async_jobs, cancel_all_select, cancel_all_flush,
       force_mark_session_stopped, cancel_all_publish, BootStep, boot_fail_stale_jobs,
       reset_processing_notifications_all, recover_pending_sessions, shown
  <2>7. ASSUME NEW d \in Drivers, claim_fails(d) PROVE live' = live
    BY <2>7 DEF claim_fails, shown
  <2>8. ASSUME NEW i \in Instances, start_turn(i) PROVE live' = live
    BY <2>8 DEF start_turn, shown
  <2>9. ASSUME NEW m \in Messages, enqueue_user_message(m) PROVE live' = live
    BY <2>9 DEF enqueue_user_message, shown
  <2>10. interrupt \/ cancel_all => live' = live
    BY DEF interrupt, cancel_all, shown
  <2> QED
    BY <1>v, <1>0, <2>1, <2>2, <2>3, <2>4, <2>5, <2>7, <2>8, <2>9, <2>10, Movers
       DEF Next, Environment, OnlyMoves, Up
<1>b. ~Up' => ~live'
  <2>1. CASE UNCHANGED vars
    BY <2>1 DEF vars, Winding, Up
  <2>2. CASE crash
    BY <2>2 DEF crash
  <2>3. ASSUME NEW p \in Procs, NEW d \in Drivers, create_driver(p, d) PROVE Up'
    <3>1. CASE Up
      BY <2>3, <3>1, <1>0 DEF create_driver, Up, TypeOK
    <3>2. CASE ~Up
      BY <2>3, <3>2, <1>0 DEF create_driver, Up, TypeOK, BootAlone
    <3> QED BY <3>1, <3>2
  <2>4. CASE Next /\ ~crash /\ ~\E p \in Procs, d \in Drivers : create_driver(p, d)
    BY <2>4, <1>v DEF Winding
  <2> QED
    BY <2>1, <2>2, <2>3, <2>4
(* A step that leaves somebody on duty, one that leaves rows outstanding,   *)
(* and one that takes nobody off duty.                                     *)
<1>s. StopDuty' => Winding'
  BY <1>b DEF Winding, IdleDuty
<1>o. has_outstanding' => Winding'
  BY <1>b DEF Winding
<1>f. ASSUME row' = row, meta'.running => meta.running, live' => live,
             NEW p \in Procs, NEW l, Goto(p, l),
             pc[p] \notin Draining \cup Reconciling \cup Resuming \cup Settling \cup
                          {"i_wait", "i_flush", "c_wait", "c_jobs", "c_jobwait", "c_select", "c_flush",
                           "c_force", "c_pub", "b_jobs", "b_reset", "b_recover"}
                   \/ pc[p] \in {"mark", "recover"}
      PROVE  Winding'
  <2>1. has_outstanding' = has_outstanding
    BY <1>f DEF has_outstanding
  <2>2. \A q \in Procs : q # p => pc'[q] = pc[q]
    BY <1>f, <1>0 DEF Goto, TypeOK
  <2>3. \A q \in Procs : pc[q] \in Draining \cup Reconciling \cup {"resume", "spawn"} \cup Settling \cup
                          {"i_wait", "i_flush", "c_wait", "c_jobs", "c_jobwait", "c_select", "c_flush",
                           "c_force", "c_pub", "b_jobs", "b_reset", "b_recover"} => pc'[q] = pc[q]
    BY <1>f, <2>2 DEF Draining, Waiting, Holding, Reconciling, Resuming, Settling
  <2>4. StopDuty => StopDuty'
    BY <2>3, <1>0 DEF StopDuty, Settling
  <2>5. IdleDuty => IdleDuty'
    BY <2>3, <2>4, <1>0 DEF IdleDuty, Settling
  <2> QED BY <1>f, <2>1, <2>4, <2>5, <1>b DEF Winding
(* The ways to be on duty.                                                  *)
<1>d. (\E d \in Drivers : pc'[d] \in Draining \cup Reconciling \cup {"stopcheck", "stopwrite"}) => StopDuty'
  BY DEF StopDuty
<1>j. (\E j \in Jobs : pc'[j] \in {"resume", "stopcheck", "stopwrite"}) => StopDuty'
  BY DEF StopDuty
<1>i. pc'["interrupt"] \in {"i_wait", "i_flush", "stopcheck", "stopwrite"} => StopDuty'
  BY DEF StopDuty
<1>c. pc'["cancel_all"] \in {"c_wait", "stopcheck", "stopwrite", "c_jobs", "c_jobwait", "c_select",
                             "c_flush", "c_force"} => StopDuty'
  BY DEF StopDuty
<1>q. pc'["boot"] \in {"b_jobs", "b_reset", "b_recover"} => StopDuty'
  BY DEF StopDuty
<1>r. ASSUME is_running, NEW p \in Procs, NEW l, Goto(p, l),
             pc[p] \notin Draining \cup Reconciling \cup {"i_wait", "c_wait"}
      PROVE  StopDuty'
  <2>1. \A q \in Procs : pc[q] \in Draining \cup Reconciling \cup {"i_wait", "c_wait"} => pc'[q] = pc[q]
    BY <1>r, <1>0 DEF Goto, TypeOK
  <2> QED BY <2>1, <1>r, <1>0, <1>d, <1>i, <1>c, RunningIsSeenTo
<1>1. CASE UNCHANGED vars
  BY <1>1 DEF vars, Winding, StopDuty, IdleDuty, has_outstanding, Up
<1>2. CASE crash
  BY <1>2, <1>0, <1>q, <1>s DEF crash
<1>3. CASE interrupt
  BY <1>3, <1>0, <1>i, <1>s, CancelMoves DEF interrupt, Stoppers
<1>4. CASE cancel_all
  <2>1. CASE is_running
    BY <2>1, <1>4, <1>0, <1>c, <1>s, CancelMoves DEF cancel_all, Stoppers
  <2>2. CASE ~is_running
    BY <2>2, <1>4, <1>0, <1>c, <1>s DEF cancel_all, Goto, TypeOK
  <2> QED BY <2>1, <2>2
<1>5. ASSUME NEW i \in Instances, start_turn(i) PROVE Winding'
  <2>1. row' = row /\ meta' = meta /\ live' = live /\ pc["user"] = "done" /\ \E l : Goto("user", l)
    BY <1>5 DEF start_turn, table, shown
  <2> QED BY <2>1, <1>0, <1>f DEF Draining, Waiting, Holding, Reconciling, Resuming, Settling
<1>6. ASSUME NEW m \in Messages, enqueue_user_message(m) PROVE Winding'
  <2>1. m \in Ntf /\ row'[m].status = "pending" /\ row'[m].to \in Instances
    BY <1>6, <1>0 DEF enqueue_user_message, TypeOK, NewUserMessage, Messages
  <2> QED BY <2>1, <1>o DEF has_outstanding, OutstandingFor, Outstanding
<1>7. ASSUME NEW d \in Drivers, claim_fails(d) PROVE Winding'
  BY <1>7, <1>0, <1>d, <1>s DEF claim_fails, Goto, TypeOK, Draining
<1>8. ASSUME NEW d \in Drivers, NEW j \in Jobs,
             start_async_sandbox_command(d, j) \/ cancel_async_sandbox_command(d, j)
      PROVE  Winding'
  <2>1. pc[d] \in Draining /\ \E l : Goto(j, l)
    BY <1>8 DEF start_async_sandbox_command, cancel_async_sandbox_command, Draining, Holding
  <2> QED BY <2>1, <1>0, <1>d, <1>s DEF Goto, TypeOK
<1>9. ASSUME NEW d \in Drivers, DriverStep(d) PROVE Winding'
  <2>1. CASE driver_unwinds(d)
    <3>1. pc[d] \in Dying /\ Goto(d, "done")
      BY <2>1 DEF driver_unwinds, Dying
    <3>2. \A s \in Stoppers : s \in Procs /\ s # d
      BY NamesAssumption DEF Procs
    <3>3. \E s \in Stoppers : pc'[s] = WaitPC(s)
      BY <3>1, <3>2, <1>0 DEF Stops, Goto, TypeOK
    <3> QED BY <3>3, <1>i, <1>c, <1>s DEF WaitPC, Stoppers
  <2>2. ASSUME NEW e \in Drivers, relaunch_driver(d, e) PROVE Winding'
    BY <2>2, <1>0, <1>d, <1>s DEF relaunch_driver, TypeOK, Draining, Waiting
  <2>3. CASE ~driver_unwinds(d) /\ ~\E e \in Drivers : relaunch_driver(d, e)
    <3>1. \/ \E l \in {"turn0", "claim", "recon", "cas", "turn", "complete", "preempted", "failed", "recon_none",
                       "recon_some", "x_flush", "stopcheck"} : Goto(d, l)
          \/ pc[d] = "release" /\ Goto(d, "dying")
      <4>1. CASE drive(d) \/ initial_turn_ends(d) \/ claim_select(d) \/ claim_update(d)
        BY <4>1 DEF drive, initial_turn_ends, claim_select, claim_update
      <4>2. CASE turn_ends(d) \/ finish_notification(d) \/ release_notification(d)
        BY <4>2 DEF turn_ends, finish_notification, release_notification
      <4>3. CASE reconcile_driver(d) \/ driver_goes_idle(d) \/ give_up_select(d) \/ give_up_flush(d)
        BY <4>3 DEF reconcile_driver, driver_goes_idle, give_up_select, give_up_flush
      <4> QED BY <1>9, <2>3, <4>1, <4>2, <4>3 DEF DriverStep
    <3>2. CASE pc[d] = "release" /\ Goto(d, "dying")
      <4>1. \A s \in Stoppers : s \in Procs /\ s # d
        BY NamesAssumption DEF Procs
      <4>2. \E s \in Stoppers : pc'[s] = WaitPC(s)
        BY <3>2, <4>1, <1>0 DEF Stops, Goto, TypeOK
      <4> QED BY <4>2, <1>i, <1>c, <1>s DEF WaitPC, Stoppers
    <3>3. CASE ~(pc[d] = "release" /\ Goto(d, "dying"))
      <4>1. pc'[d] \in Draining \cup Reconciling \cup {"stopcheck", "stopwrite"}
        BY <3>1, <3>3, <1>0 DEF Goto, TypeOK, Draining, Holding, Waiting, Reconciling
      <4> QED BY <4>1, <1>d, <1>s
    <3> QED BY <3>2, <3>3
  <2> QED BY <2>1, <2>2, <2>3
<1>10. ASSUME NEW j \in Jobs, JobStep(j) PROVE Winding'
  <2>1. CASE create_job_task(j)
    <3>1. row' = row /\ meta' = meta /\ live' = live /\ pc[j] = "created" /\ Goto(j, "run")
      BY <2>1 DEF create_job_task, table, shown
    <3> QED BY <3>1, <1>0, <1>f DEF Draining, Waiting, Holding, Reconciling, Resuming, Settling
  <2>2. CASE finish_async_job(j) \/ cancel_async_job(j)
    <3>1. Goto(j, "resume")
      BY <2>2 DEF finish_async_job, cancel_async_job
    <3> QED BY <3>1, <1>0, <1>j, <1>s DEF Goto, TypeOK
  <2>3. CASE resume_session(j)
    <3>0. row' = row /\ pc[j] = "resume"
      BY <2>3 DEF resume_session, table
    <3>1. CASE has_pending_main
      BY <3>0, <3>1, <1>o DEF has_pending_main, has_outstanding, PendingFor, OutstandingFor, Outstanding
    <3>2. CASE ~has_pending_main /\ is_running
      <4>1. Goto(j, "done")
        BY <2>3, <3>2 DEF resume_session
      <4> QED BY <4>1, <3>0, <3>2, <1>0, <1>r, <1>s DEF Draining, Waiting, Holding, Reconciling
    <3>3. CASE ~has_pending_main /\ ~is_running
      <4>1. Goto(j, "stopcheck")
        BY <2>3, <3>3 DEF resume_session
      <4> QED BY <4>1, <1>0, <1>j, <1>s DEF Goto, TypeOK
    <3> QED BY <3>1, <3>2, <3>3
  <2> QED BY <1>10, <2>1, <2>2, <2>3 DEF JobStep
<1>11. CASE InterruptStep
  <2>1. Goto("interrupt", "i_flush") \/ Goto("interrupt", "stopcheck")
    BY <1>11 DEF InterruptStep, interrupt_select, interrupt_flush
  <2> QED BY <2>1, <1>0, <1>i, <1>s DEF Goto, TypeOK
<1>12. CASE CancelAllStep
  <2>1. CASE cancel_all_driver_gone \/ cancel_all_select \/ cancel_all_flush
    <3>1. \E l \in {"stopcheck", "c_flush", "c_force"} : Goto("cancel_all", l)
      BY <2>1 DEF cancel_all_driver_gone, cancel_all_select, cancel_all_flush
    <3> QED BY <3>1, <1>0, <1>c, <1>s DEF Goto, TypeOK
  <2>2. ASSUME NEW K \in SUBSET Jobs, cancel_runtime_jobs(K) PROVE Winding'
    <3>1. pc'["cancel_all"] = "c_jobwait"
      BY <2>2, <1>0 DEF cancel_runtime_jobs, Registered
    <3> QED BY <3>1, <1>c, <1>s
  <2>3. CASE cancel_running_async_jobs
    <3>1. pc'["cancel_all"] = "c_select"
      BY <2>3, <1>0 DEF cancel_running_async_jobs
    <3> QED BY <3>1, <1>c, <1>s
  <2>4. CASE force_mark_session_stopped
    <3>1. ~meta'.running /\ pc'["cancel_all"] = "c_pub"
      BY <2>4, <1>0 DEF force_mark_session_stopped, Goto, TypeOK
    <3> QED BY <3>1, <1>b DEF Winding, IdleDuty
  <2>5. CASE cancel_all_publish
    <3>1. row' = row /\ meta' = meta /\ ~live' /\ pc["cancel_all"] = "c_pub" /\ Goto("cancel_all", "done")
      BY <2>5 DEF cancel_all_publish, table
    <3>2. has_outstanding' = has_outstanding
      BY <3>1 DEF has_outstanding
    <3>3. \A q \in Procs : q # "cancel_all" => pc'[q] = pc[q]
      BY <3>1, <1>0 DEF Goto, TypeOK
    <3>4. StopDuty => StopDuty'
      BY <3>1, <3>3, <1>0 DEF StopDuty
    <3> QED BY <3>1, <3>2, <3>4 DEF Winding
  <2> QED BY <1>12, <2>1, <2>2, <2>3, <2>4, <2>5 DEF CancelAllStep
<1>13. CASE BootStep
  <2>1. CASE boot_fail_stale_jobs \/ reset_processing_notifications_all
    <3>1. Goto("boot", "b_reset") \/ Goto("boot", "b_recover")
      BY <2>1 DEF boot_fail_stale_jobs, reset_processing_notifications_all
    <3> QED BY <3>1, <1>0, <1>q, <1>s DEF Goto, TypeOK
  <2>2. CASE recover_pending_sessions
    <3>1. row' = row /\ live' = live /\ ~Up
      BY <2>2 DEF recover_pending_sessions, table, Up
    <3>2. meta'.running => has_outstanding'
      BY <2>2, <3>1, <1>0 DEF recover_pending_sessions, TypeOK, has_outstanding
    <3>3. ~live'
      BY <3>1 DEF Winding
    <3> QED BY <3>2, <3>3 DEF Winding
  <2> QED BY <1>13, <2>1, <2>2 DEF BootStep
<1>14. ASSUME NEW p \in Procs, CommonStep(p) PROVE Winding'
  <2>1. CASE mark_session_running(p)
    <3>1. pc'[p] = "spawn"
      BY <2>1, <1>0, <1>14 DEF mark_session_running, Goto, TypeOK
    <3> QED BY <3>1, <1>14, <1>s DEF StopDuty
  <2>2. ASSUME NEW d \in Drivers, create_driver(p, d) PROVE Winding'
    <3>1. pc'[d] \in {"launch0", "launch"}
      BY <2>2, <1>0 DEF create_driver, TypeOK
    <3> QED BY <3>1, <1>d, <1>s DEF Draining, Waiting
  <2>3. CASE start_notification_recovery(p)
    <3>1. row' = row /\ meta' = meta /\ live' = live /\ pc[p] = "recover" /\ \E l : Goto(p, l)
      BY <2>3 DEF start_notification_recovery, table, shown
    <3> QED BY <3>1, <1>14, <1>f
  <2>4. CASE mark_session_stopped(p)
    <3>1. CASE has_outstanding
      BY <2>4, <3>1, <1>o DEF mark_session_stopped, table, has_outstanding
    <3>2. CASE ~has_outstanding
      <4>1. pc'[p] = "stopwrite" /\ pc[p] = "stopcheck"
        BY <2>4, <3>2, <1>0, <1>14 DEF mark_session_stopped, Goto, TypeOK
      <4>2. p \in Drivers \cup Jobs \cup {"interrupt", "cancel_all"}
        BY <4>1, <1>0, <1>14 DEF TypeOK, UserPC, BootPC, Procs, Stoppers
      <4> QED BY <4>1, <4>2, <1>d, <1>j, <1>i, <1>c, <1>s
    <3> QED BY <3>1, <3>2
  <2>5. CASE finish_session_run(p)
    <3>1. ~meta'.running
      BY <2>5, <1>0 DEF finish_session_run, TypeOK
    <3>2. pc'[p] = AfterStop(p)
      BY <2>5, <1>0, <1>14 DEF finish_session_run, Goto, TypeOK
    <3>3. IdleDuty'
      BY <3>2, <1>14, <1>c DEF AfterStop, IdleDuty
    <3> QED BY <3>1, <3>3, <1>b DEF Winding
  <2>6. CASE publish_idle_if_inactive(p)
    <3>0. row' = row /\ meta' = meta /\ live' = live /\ pc[p] \in {"idle", "idleread"}
      BY <2>6 DEF publish_idle_if_inactive, table, shown
    <3>1. CASE Goto(p, "done") /\ pc[p] = "idle" /\ is_running
      BY <3>1, <1>14, <1>r, <1>s DEF Draining, Waiting, Holding, Reconciling
    <3>2. CASE has_pending_main
      BY <3>0, <3>2, <1>o DEF has_pending_main, has_outstanding, PendingFor, OutstandingFor, Outstanding
    <3>3. CASE Goto(p, "idleread") \/ Goto(p, "idlepub")
      <4>1. pc'[p] \in {"idleread", "idlepub"} /\ \A q \in Procs : q # p => pc'[q] = pc[q]
        BY <3>3, <1>14, <1>0 DEF Goto, TypeOK
      <4>2. StopDuty => StopDuty'
        BY <3>0, <4>1, <1>0 DEF StopDuty, Draining, Waiting, Holding, Reconciling
      <4>3. IdleDuty'
        BY <4>1, <1>14 DEF IdleDuty
      <4>4. has_outstanding' = has_outstanding
        BY <3>0 DEF has_outstanding
      <4> QED BY <3>0, <4>2, <4>3, <4>4, <1>b DEF Winding
    <3> QED BY <2>6, <3>1, <3>2, <3>3 DEF publish_idle_if_inactive
  <2>7. CASE publish_idle(p)
    <3>1. row' = row /\ meta' = meta /\ ~live' /\ pc[p] = "idlepub" /\ Goto(p, "done")
      BY <2>7 DEF publish_idle, table
    <3>2. has_outstanding' = has_outstanding
      BY <3>1 DEF has_outstanding
    <3>3. \A q \in Procs : q # p => pc'[q] = pc[q]
      BY <3>1, <1>14, <1>0 DEF Goto, TypeOK
    <3>4. StopDuty => StopDuty'
      BY <3>1, <3>3, <1>0 DEF StopDuty, Draining, Waiting, Holding, Reconciling
    <3> QED BY <3>1, <3>2, <3>4 DEF Winding
  <2> QED BY <1>14, <2>1, <2>2, <2>3, <2>4, <2>5, <2>6, <2>7 DEF CommonStep
<1> QED BY <1>1, <1>2, <1>3, <1>4, <1>5, <1>6, <1>7, <1>8, <1>9, <1>10, <1>11, <1>12, <1>13, <1>14
        DEF Next, Environment

(* Whichever of the driver, an interrupt, a cancel-all or a canceled       *)
(* command winds a session down last, and wherever the others are then,    *)
(* the database row and the clients end up with a session that is not      *)
(* running (_settle_session_idle, _publish_idle_if_inactive,               *)
(* _force_mark_session_stopped).  For any number of agents.                *)
THEOREM SettledSessionIsIdle == Spec => []SettledIsIdle
<1>1. Init => Winding
  BY DEF Init, Winding, Up, Procs
<1>2. Winding => SettledIsIdle
  <2> SUFFICES ASSUME Winding, AllDone, ~has_outstanding PROVE ~meta.running /\ ~live
    BY DEF SettledIsIdle
  <2>1. \A p \in Procs : pc[p] \in {"done", "lost"}
    BY DEF AllDone
  <2>2. ~StopDuty /\ ~IdleDuty
    BY <2>1 DEF StopDuty, IdleDuty, Procs, Stoppers, Draining, Waiting, Holding, Reconciling
  <2> QED BY <2>2 DEF Winding
<1> QED BY <1>1, <1>2, WindingStep, SessionInvariance, PTL DEF Spec

-----------------------------------------------------------------------------

(* A bulk cancellation is between its SELECT and its flush.                 *)
Flushing == {"i_flush", "x_flush", "c_flush"}
Callers  == Drivers \cup Stoppers

(* The store of the refinement speaks of rows as the session does.          *)
LEMMA SameRows ==
    /\ Store!NoRow = NoRow
    /\ \A k, i, b : Store!NewObligation(k, i, b) = NewObligation(k, i, b)
    /\ \A i, b : Store!NewUserMessage(i, b) = NewUserMessage(i, b)
    /\ \A r, ready : Store!Resolved(r, ready) = Resolved(r, ready)
    /\ \A r : Store!Claimed(r) = Claimed(r)
    /\ \A r, s : Store!Finished(r, s) = Finished(r, s)
    /\ \A r : Store!Released(r) = Released(r)
    /\ \A r : Store!Cancelled(r) = Cancelled(r)
    /\ \A r : Store!Reset(r) = Reset(r)
    /\ \A I : Store!OutstandingFor(row, I) = OutstandingFor(row, I)
    /\ \A I : Store!InterruptedFor(row, I) = InterruptedFor(row, I)
    /\ Store!Kinds = Kinds
  BY DEF Store!NoRow, NoRow, Store!NewObligation, NewObligation, Store!NewUserMessage,
         NewUserMessage, Store!Resolved, Resolved, Store!Claimed, Claimed, Store!Finished,
         Finished, Store!Released, Released, Store!Cancelled, Cancelled, Store!Reset, Reset,
         Store!OutstandingFor, OutstandingFor, Store!Outstanding, Outstanding,
         Store!InterruptedFor, InterruptedFor, Store!Kinds, Kinds

(* What a process cancels, by where it is.                                  *)
LEMMA CancellingIs ==
    ASSUME TypeOK, NEW p \in Callers
    PROVE  /\ pc[p] \notin Flushing => Cancelling(p) = Store!Idle
           /\ pc[p] = "i_flush" => /\ p = "interrupt"
                                   /\ Cancelling(p) = [mode |-> "interrupt", rows |-> sel[p]]
           /\ pc[p] \in {"x_flush", "c_flush"} => Cancelling(p) = [mode |-> "all", rows |-> sel[p]]
           /\ pc[p] \in Flushing => Cancelling(p) # Store!Idle
<1>1. pc[p] = "i_flush" => p = "interrupt"
  BY DEF TypeOK, Callers, Stoppers, DriverPC, Draining, Waiting, Holding, Settling, AllPC
<1>2. [mode |-> "interrupt", rows |-> sel[p]] # Store!Idle /\ [mode |-> "all", rows |-> sel[p]] # Store!Idle
  BY DEF Store!Idle
<1> QED BY <1>1, <1>2 DEF Cancelling, Flushing, Store!Idle

(* A caller that a step leaves alone, or that has no cancellation in        *)
(* flight before and after it.                                             *)
Quiet(p) ==
    \/ pc'[p] = pc[p] /\ sel'[p] = sel[p]
    \/ pc[p] \notin Flushing /\ pc'[p] \notin Flushing

(* A step of a session that changes neither its rows nor a bulk            *)
(* cancellation in flight is a stutter of the store.                       *)
LEMMA QuietKeeps ==
    ASSUME TypeOK, TypeOK', NEW p \in Callers, Quiet(p)
    PROVE  Cancelling(p)' = Cancelling(p)
<1>1. CASE pc'[p] = pc[p] /\ sel'[p] = sel[p]
  BY <1>1 DEF Cancelling
<1>2. CASE pc[p] \notin Flushing /\ pc'[p] \notin Flushing
  BY <1>2 DEF Cancelling, Flushing
<1> QED BY <1>1, <1>2 DEF Quiet

(* A step that changes neither the table nor a cancellation.                *)
LEMMA Stutter ==
    ASSUME TypeOK, TypeOK', row' = row, clock' = clock, \A p \in Callers : Quiet(p)
    PROVE  UNCHANGED Store!vars
<1>1. \A p \in Callers : Cancelling(p)' = Cancelling(p)
  BY QuietKeeps
<1> QED BY <1>1 DEF Store!vars, Callers

(* A step in which processes lose the cancellation they were in.            *)
LEMMA Lost ==
    ASSUME TypeOK, TypeOK', row' = row, clock' = clock,
           \A p \in Callers : Quiet(p) \/ pc'[p] \notin Flushing
    PROVE  Store!Next
<1> DEFINE C == {p \in Callers : ~Quiet(p)}
<1>1. \A p \in Callers : Cancelling(p)' = IF p \in C THEN Store!Idle ELSE Cancelling(p)
  <2> TAKE p \in Callers
  <2>1. CASE Quiet(p)
    BY <2>1, QuietKeeps
  <2>2. CASE ~Quiet(p)
    BY <2>2 DEF Cancelling, Flushing, Store!Idle
  <2> QED BY <2>1, <2>2
<1>2. Store!lose_cancels(C)
  BY <1>1 DEF Store!lose_cancels, Callers
<1>3. C \in SUBSET (Drivers \cup Stoppers)
  BY DEF Callers
<1> QED BY <1>2, <1>3 DEF Store!Next

-----------------------------------------------------------------------------

(* A session starts with the empty store.                                  *)
LEMMA RefinementInit == Init => Store!Init
<1> SUFFICES ASSUME Init PROVE Store!Init
  OBVIOUS
<1>1. \A p \in Drivers \cup Stoppers : pc[p] = "done"
  BY DEF Init, Procs
<1>2. \A p \in Drivers \cup Stoppers : Cancelling(p) = Store!Idle
  BY <1>1 DEF Cancelling, Store!Idle
<1> QED BY <1>2, SameRows DEF Init, Store!Init

-----------------------------------------------------------------------------

(* Every step of a session is a step of the store, or leaves it alone.     *)
LEMMA RefinementStep == Held /\ TypeOK' /\ [Next]_vars => [Store!Next]_(Store!vars)
<1> SUFFICES ASSUME Held, TypeOK', [Next]_vars PROVE Store!Next \/ UNCHANGED Store!vars
  OBVIOUS
<1>0. /\ TypeOK /\ BootAlone /\ ItemsAreRows
      /\ \A d \in Drivers : d \in Procs /\ d \in Callers
                            /\ d \notin Jobs \cup {"user", "boot", "interrupt", "cancel_all"}
      /\ \A j \in Jobs : j \in Procs /\ j \notin Callers /\ j \in Ntf
      /\ {"user", "boot", "interrupt", "cancel_all"} \subseteq Procs
      /\ {"interrupt", "cancel_all"} \subseteq Callers
      /\ {"user", "boot"} \cap Callers = {}
      /\ Callers \subseteq Procs
  BY ProcKinds, NamesAssumption, JobsAssumption DEF Held, Control, Stoppers, Callers, Procs
(* A step that moves one process, and at most forgets what it selected.     *)
<1>f. ASSUME NEW p \in Procs, NEW l, Goto(p, l), sel' = sel \/ \E x : sel' = [sel EXCEPT ![p] = x],
             p \in Callers => pc[p] \notin Flushing /\ l \notin Flushing
      PROVE  \A q \in Callers : Quiet(q)
  <2>1. \A q \in Procs : q # p => pc'[q] = pc[q] /\ sel'[q] = sel[q]
    BY <1>f, <1>0 DEF Goto, TypeOK
  <2>2. pc'[p] = l
    BY <1>f, <1>0 DEF Goto, TypeOK
  <2> QED BY <1>f, <1>0, <2>1, <2>2 DEF Quiet
(* The same, of a step that leaves the table alone.                         *)
<1>g. ASSUME NEW p \in Procs, NEW l, Goto(p, l), sel' = sel \/ \E x : sel' = [sel EXCEPT ![p] = x],
             p \in Callers => pc[p] \notin Flushing /\ l \notin Flushing,
             row' = row, clock' = clock
      PROVE  UNCHANGED Store!vars
  BY <1>f, <1>g, <1>0, Stutter
<1>k. (\A p \in Callers : Quiet(p)) => [p \in Drivers \cup Stoppers |-> Cancelling(p)]'
                                       = [p \in Drivers \cup Stoppers |-> Cancelling(p)]
  <2> SUFFICES ASSUME \A p \in Callers : Quiet(p)
               PROVE  \A p \in Drivers \cup Stoppers : Cancelling(p)' = Cancelling(p)
    OBVIOUS
  <2> QED BY <1>0, QuietKeeps DEF Callers
<1>1. CASE UNCHANGED vars
  BY <1>1, <1>0, Stutter DEF vars, Quiet
<1>2. CASE crash
  <2>1. \A p \in Callers : pc'[p] = "done"
    BY <1>2, <1>0 DEF crash
  <2> QED BY <1>2, <2>1, <1>0, Lost DEF crash, table, Flushing
(* A stop: the driver it cancels loses the cancellation it was in.          *)
<1>c. ASSUME NEW s \in Stoppers, NEW l, l \notin Flushing, is_running, CancelDriver(s, l), sel' = sel,
             row' = row, clock' = clock
      PROVE  Store!Next
  <2>1. \A p \in Callers : p # s /\ p # current => pc'[p] = pc[p]
    BY <1>c, <1>0, CancelMoves DEF TypeOK
  <2>2. pc'[s] = l /\ pc'[current] \in CanceledAt(pc[current])
    BY <1>c, <1>0, CancelMoves
  <2>3. pc'[current] \notin Flushing
    BY <2>2 DEF CanceledAt, Flushing, Waiting
  <2> QED BY <1>c, <1>0, <2>1, <2>2, <2>3, Lost DEF Quiet
<1>3. CASE interrupt
  BY <1>3, <1>c DEF interrupt, table, Stoppers, Flushing
<1>4. CASE cancel_all
  <2>1. CASE is_running /\ CancelDriver("cancel_all", "c_wait")
    BY <2>1, <1>4, <1>c DEF cancel_all, table, Stoppers, Flushing
  <2>2. CASE Goto("cancel_all", "c_jobs")
    BY <2>2, <1>4, <1>0, <1>g DEF cancel_all, table, Flushing
  <2> QED BY <1>4, <2>1, <2>2 DEF cancel_all
<1>5. ASSUME NEW i \in Instances, start_turn(i) PROVE UNCHANGED Store!vars
  <2>1. row' = row /\ clock' = clock /\ sel' = sel /\ \E l : Goto("user", l)
    BY <1>5 DEF start_turn, table, stops
  <2> QED BY <2>1, <1>0, <1>g
<1>6. ASSUME NEW m \in Messages, enqueue_user_message(m) PROVE Store!Next
  <2>1. sel' = sel /\ Goto("user", "done")
    BY <1>6 DEF enqueue_user_message, stops
  <2>2. \A p \in Callers : Quiet(p)
    BY <2>1, <1>0, <1>f
  <2>3. m \in Ntf /\ inst["user"] \in Instances
    BY <1>0 DEF TypeOK, Messages
  <2>4. Store!enqueue_user_message_notification(m, inst["user"])
    BY <1>6, <2>2, <2>3, <1>k, SameRows DEF enqueue_user_message, Store!enqueue_user_message_notification
  <2> QED BY <2>3, <2>4 DEF Store!Next
<1>7. ASSUME NEW d \in Drivers, claim_fails(d) PROVE UNCHANGED Store!vars
  BY <1>7, <1>0, <1>g DEF claim_fails, table, stops, Flushing
<1>8. ASSUME NEW d \in Drivers, NEW j \in Jobs, start_async_sandbox_command(d, j) PROVE Store!Next
  <2>1. sel' = sel /\ Goto(j, "created")
    BY <1>8 DEF start_async_sandbox_command, stops
  <2>2. \A p \in Callers : Quiet(p)
    BY <2>1, <1>0, <1>f
  <2>3. j \in Ntf /\ inst[d] \in Instances /\ "async_job_finished" \in Store!Kinds
    BY <1>0, SameRows DEF TypeOK, Kinds
  <2>4. Store!add_obligation_in_session(j, "async_job_finished", inst[d])
    BY <1>8, <2>2, <1>k, SameRows DEF start_async_sandbox_command, Store!add_obligation_in_session
  <2> QED BY <2>3, <2>4 DEF Store!Next
(* Resolving obligations, of one command or of several.                     *)
<1>r. ASSUME NEW S \in SUBSET Ntf, NEW ready \in BOOLEAN, clock' = clock, \A p \in Callers : Quiet(p),
             row' = [n \in Ntf |-> IF n \in S THEN Resolved(row[n], ready) ELSE row[n]]
      PROVE  Store!Next
  <2>1. Store!resolve_obligation_in_session(S, ready)
    BY <1>r, <1>k, SameRows DEF Store!resolve_obligation_in_session
  <2> QED BY <2>1 DEF Store!Next
<1>s. ASSUME NEW j \in Jobs, NEW l, NEW ready \in BOOLEAN, clock' = clock, sel' = sel, Goto(j, l),
             row' = [row EXCEPT ![j] = Resolved(@, ready)]
      PROVE  Store!Next
  <2>1. row' = [n \in Ntf |-> IF n \in {j} THEN Resolved(row[n], ready) ELSE row[n]]
    BY <1>s, <1>0 DEF TypeOK
  <2>2. \A p \in Callers : Quiet(p)
    BY <1>s, <1>0, <1>f
  <2>3. {j} \in SUBSET Ntf
    BY <1>0
  <2> QED BY <2>1, <2>2, <2>3, <1>s, <1>r
<1>9. ASSUME NEW d \in Drivers, NEW j \in Jobs, cancel_async_sandbox_command(d, j)
      PROVE  Store!Next \/ UNCHANGED Store!vars
  <2>1. CASE Goto(j, "jobcancel") /\ UNCHANGED row
    BY <2>1, <1>9, <1>0, <1>g DEF cancel_async_sandbox_command, stops
  <2>2. CASE Goto(j, "done") /\ row' = [row EXCEPT ![j] = Resolved(@, FALSE)]
    BY <2>2, <1>9, <1>0, <1>s DEF cancel_async_sandbox_command, stops
  <2> QED BY <1>9, <2>1, <2>2 DEF cancel_async_sandbox_command
(* The two halves of a bulk cancellation.                                   *)
<1>u. ASSUME NEW p \in Callers, row' = row, clock' = clock, NEW l, NEW x, Goto(p, l),
             sel' = [sel EXCEPT ![p] = x], pc[p] \notin Flushing,
             \/ l \in {"x_flush", "c_flush"} /\ x = OutstandingFor(row, Instances)
             \/ p = "interrupt" /\ l = "i_flush" /\ x = InterruptedFor(row, Instances)
      PROVE  Store!Next
  <2>1. \A q \in Callers : q # p => Quiet(q)
    BY <1>u, <1>0 DEF Goto, TypeOK, Quiet
  <2>2. \A q \in Callers : q # p => Cancelling(q)' = Cancelling(q)
    BY <2>1, <1>0, QuietKeeps
  <2>3. pc'[p] = l /\ sel'[p] = x
    BY <1>u, <1>0 DEF Goto, TypeOK
  <2>4. Cancelling(p) = Store!Idle
    BY <1>u, <1>0, CancellingIs
  <2>5. CASE l \in {"x_flush", "c_flush"} /\ x = OutstandingFor(row, Instances)
    <3>1. Cancelling(p)' = [mode |-> "all", rows |-> x]
      BY <2>3, <2>5 DEF Cancelling
    <3>2. Store!cancel_session_notifications(p, Instances)
      BY <1>u, <2>2, <2>4, <2>5, <3>1, SameRows DEF Store!cancel_session_notifications, Callers
    <3> QED BY <3>2 DEF Store!Next, Callers
  <2>6. CASE p = "interrupt" /\ l = "i_flush" /\ x = InterruptedFor(row, Instances)
    <3>1. Cancelling(p)' = [mode |-> "interrupt", rows |-> x]
      BY <2>3, <2>6 DEF Cancelling
    <3>2. Store!cancel_main_agent_interrupted_notifications(p)
      BY <1>u, <2>2, <2>4, <2>6, <3>1, SameRows
         DEF Store!cancel_main_agent_interrupted_notifications, Callers
    <3> QED BY <3>2 DEF Store!Next, Callers
  <2> QED BY <1>u, <2>5, <2>6
<1>w. ASSUME NEW p \in Callers, CancelRows(sel[p]), clock' = clock, NEW l, Goto(p, l), l \notin Flushing,
             sel' = [sel EXCEPT ![p] = {}], pc[p] \in Flushing
      PROVE  Store!Next
  <2>1. \A q \in Callers : q # p => Quiet(q)
    BY <1>w, <1>0 DEF Goto, TypeOK, Quiet
  <2>2. \A q \in Callers : q # p => Cancelling(q)' = Cancelling(q)
    BY <2>1, <1>0, QuietKeeps
  <2>3. Cancelling(p)' = Store!Idle
    BY <1>w, <1>0 DEF Goto, TypeOK, Cancelling, Flushing, Store!Idle
  <2>4. Cancelling(p) # Store!Idle /\ Cancelling(p).rows = sel[p]
    BY <1>w, <1>0, CancellingIs DEF Flushing
  <2>5. Store!flush_cancel(p)
    BY <1>w, <2>2, <2>3, <2>4, SameRows DEF Store!flush_cancel, CancelRows, Callers
  <2> QED BY <2>5 DEF Store!Next, Callers
<1>10. ASSUME NEW d \in Drivers, DriverStep(d) PROVE Store!Next \/ UNCHANGED Store!vars
  (* The driver is in no bulk cancellation, before or after.                *)
  <2>1. CASE drive(d) \/ initial_turn_ends(d) \/ claim_select(d) \/ turn_ends(d)
             \/ reconcile_driver(d) \/ driver_goes_idle(d) \/ driver_unwinds(d)
    <3>1. row' = row /\ clock' = clock /\ (sel' = sel \/ \E x : sel' = [sel EXCEPT ![d] = x])
      BY <2>1 DEF drive, initial_turn_ends, claim_select, turn_ends, reconcile_driver,
         driver_goes_idle, driver_unwinds, table, stops
    <3>2. pc[d] \notin Flushing
      BY <2>1 DEF drive, initial_turn_ends, claim_select, turn_ends, reconcile_driver,
         driver_goes_idle, driver_unwinds, Flushing, Waiting
    <3>3. CASE drive(d) \/ initial_turn_ends(d) \/ claim_select(d) \/ turn_ends(d)
      <4>1. \E l \in {"turn0", "claim", "recon", "cas", "complete", "preempted", "failed"} : Goto(d, l)
        BY <3>3 DEF drive, initial_turn_ends, claim_select, turn_ends
      <4> QED BY <4>1, <3>1, <3>2, <1>0, <1>g DEF Flushing
    <3>4. CASE reconcile_driver(d) \/ driver_goes_idle(d) \/ driver_unwinds(d)
      <4>1. \E l \in {"recon_none", "recon_some", "stopcheck", "done"} : Goto(d, l)
        BY <3>4 DEF reconcile_driver, driver_goes_idle, driver_unwinds
      <4> QED BY <4>1, <3>1, <3>2, <1>0, <1>g DEF Flushing
    <3> QED BY <2>1, <3>3, <3>4
  <2>2. CASE claim_update(d)
    <3>1. item[d] \in Ntf
      BY <2>2, <1>0 DEF claim_update, ItemsAreRows
    <3>2. sel' = sel /\ (Goto(d, "turn") \/ Goto(d, "recon")) /\ pc[d] = "cas" /\ clock' = clock
      BY <2>2 DEF claim_update, stops
    <3>3. \A p \in Callers : Quiet(p)
      BY <3>2, <1>0, <1>f DEF Flushing
    <3>4. Store!claim_next_pending_notification(item[d])
      BY <2>2, <3>2, <3>3, <1>k, SameRows DEF claim_update, Store!claim_next_pending_notification
    <3> QED BY <3>1, <3>4 DEF Store!Next
  <2>3. CASE finish_notification(d)
    <3>1. item[d] \in Ntf
      BY <2>3, <1>0 DEF finish_notification, ItemsAreRows, Holding
    <3>2. sel' = sel /\ Goto(d, "claim") /\ pc[d] \notin Flushing /\ clock' = clock
      BY <2>3 DEF finish_notification, stops, Flushing
    <3>3. \A p \in Callers : Quiet(p)
      BY <3>2, <1>0, <1>f DEF Flushing
    <3>4. Store!finish_notification(item[d], IF pc[d] = "failed" THEN "failed" ELSE "completed")
      BY <2>3, <3>2, <3>3, <1>k, SameRows DEF finish_notification, Store!finish_notification
    <3> QED BY <3>1, <3>4 DEF Store!Next
  <2>4. CASE release_notification(d)
    <3>1. item[d] \in Ntf
      BY <2>4, <1>0 DEF release_notification, ItemsAreRows, Holding
    <3>2. sel' = sel /\ Goto(d, "dying") /\ pc[d] \notin Flushing /\ clock' = clock
      BY <2>4 DEF release_notification, stops, Flushing
    <3>3. \A p \in Callers : Quiet(p)
      BY <3>2, <1>0, <1>f DEF Flushing
    <3>4. Store!release_notification(item[d])
      BY <2>4, <3>2, <3>3, <1>k, SameRows DEF release_notification, Store!release_notification
    <3> QED BY <3>1, <3>4 DEF Store!Next
  <2>5. ASSUME NEW e \in Drivers, relaunch_driver(d, e) PROVE UNCHANGED Store!vars
    <3>1. \A p \in Callers : Quiet(p)
      BY <2>5, <1>0 DEF relaunch_driver, Quiet, Flushing, TypeOK, Unused, stops
    <3> QED BY <2>5, <3>1, <1>0, Stutter DEF relaunch_driver, table
  <2>6. CASE give_up_select(d)
    BY <2>6, <1>0, <1>u DEF give_up_select, table, Flushing
  <2>7. CASE give_up_flush(d)
    BY <2>7, <1>0, <1>w DEF give_up_flush, Flushing
  <2> QED BY <1>10, <2>1, <2>2, <2>3, <2>4, <2>5, <2>6, <2>7 DEF DriverStep
<1>11. ASSUME NEW j \in Jobs, JobStep(j) PROVE Store!Next \/ UNCHANGED Store!vars
  <2>1. CASE create_job_task(j) \/ resume_session(j)
    <3>1. row' = row /\ clock' = clock /\ sel' = sel /\ \E l : Goto(j, l)
      BY <2>1 DEF create_job_task, resume_session, table, stops
    <3> QED BY <3>1, <1>0, <1>g
  <2>2. CASE finish_async_job(j)
    BY <2>2, <1>s DEF finish_async_job, stops
  <2>3. CASE cancel_async_job(j)
    BY <2>3, <1>s DEF cancel_async_job, stops
  <2> QED BY <1>11, <2>1, <2>2, <2>3 DEF JobStep
<1>12. CASE InterruptStep
  <2>1. CASE interrupt_select
    BY <2>1, <1>0, <1>u DEF interrupt_select, table, Flushing
  <2>2. CASE interrupt_flush
    BY <2>2, <1>0, <1>w DEF interrupt_flush, Flushing
  <2> QED BY <1>12, <2>1, <2>2 DEF InterruptStep
<1>13. CASE CancelAllStep
  <2>1. CASE cancel_all_driver_gone \/ force_mark_session_stopped \/ cancel_all_publish
    <3>1. row' = row /\ clock' = clock /\ sel' = sel /\ pc["cancel_all"] \notin Flushing
      BY <2>1 DEF cancel_all_driver_gone, force_mark_session_stopped, cancel_all_publish, table, stops, Flushing
    <3>2. \E l \in {"stopcheck", "c_pub", "done"} : Goto("cancel_all", l)
      BY <2>1 DEF cancel_all_driver_gone, force_mark_session_stopped, cancel_all_publish
    <3> QED BY <3>1, <3>2, <1>0, <1>g DEF Flushing
  <2>2. ASSUME NEW K \in SUBSET Jobs, cancel_runtime_jobs(K) PROVE UNCHANGED Store!vars
    <3>1. pc'["cancel_all"] = "c_jobwait" /\ pc["cancel_all"] = "c_jobs"
      BY <2>2, <1>0 DEF cancel_runtime_jobs, Registered
    <3>2. \A q \in Callers : q # "cancel_all" => pc'[q] = pc[q] /\ sel'[q] = sel[q]
      BY <2>2, <1>0 DEF cancel_runtime_jobs, Registered, TypeOK
    <3>3. \A q \in Callers : Quiet(q)
      BY <3>1, <3>2 DEF Quiet, Flushing
    <3> QED BY <2>2, <3>3, <1>0, Stutter DEF cancel_runtime_jobs, table
  <2>3. CASE cancel_running_async_jobs
    <3>1. pc'["cancel_all"] = "c_select" /\ pc["cancel_all"] = "c_jobwait"
      BY <2>3, <1>0 DEF cancel_running_async_jobs
    <3>2. \A q \in Callers : q # "cancel_all" => pc'[q] = pc[q] /\ sel'[q] = sel[q]
      BY <2>3, <1>0 DEF cancel_running_async_jobs, TypeOK
    <3>3. \A q \in Callers : Quiet(q)
      BY <3>1, <3>2 DEF Quiet, Flushing
    <3> DEFINE S == {n \in Ntf : n \in Jobs /\ pc[n] \in {"created", "lost", "run", "jobcancel"}}
    <3>4. row' = [n \in Ntf |-> IF n \in S THEN Resolved(row[n], FALSE) ELSE row[n]]
      BY <2>3 DEF cancel_running_async_jobs
    <3>5. clock' = clock /\ S \in SUBSET Ntf
      BY <2>3 DEF cancel_running_async_jobs
    <3> HIDE DEF S
    <3> QED BY <3>3, <3>4, <3>5, <1>r
  <2>4. CASE cancel_all_select
    BY <2>4, <1>0, <1>u DEF cancel_all_select, table, Flushing
  <2>5. CASE cancel_all_flush
    BY <2>5, <1>0, <1>w DEF cancel_all_flush, Flushing
  <2> QED BY <1>13, <2>1, <2>2, <2>3, <2>4, <2>5 DEF CancelAllStep
<1>14. CASE BootStep
  <2>0. BootStep => sel' = sel /\ clock' = clock /\ \E l : Goto("boot", l)
    BY DEF BootStep, boot_fail_stale_jobs, reset_processing_notifications_all, recover_pending_sessions,
           table, stops
  <2>q. \A p \in Callers : Quiet(p)
    BY <1>14, <2>0, <1>0, <1>f
  <2>1. CASE boot_fail_stale_jobs
    BY <2>1, <2>0, <2>q, <1>14, <1>r, JobsAssumption DEF boot_fail_stale_jobs
  <2>2. CASE reset_processing_notifications_all
    <3>1. \A p \in Callers : pc[p] = "done"
      BY <2>2, <1>0 DEF reset_processing_notifications_all, BootAlone, Up
    <3>2. \A p \in Callers : Cancelling(p) = Store!Idle
      BY <3>1, <1>0, CancellingIs DEF Flushing
    <3>3. Store!reset_processing_notifications_all
      BY <2>2, <2>0, <2>q, <1>14, <1>k, <3>2, SameRows
         DEF reset_processing_notifications_all, Store!reset_processing_notifications_all, Callers
    <3> QED BY <3>3 DEF Store!Next
  <2>3. CASE recover_pending_sessions
    BY <2>3, <2>q, <1>0, Stutter DEF recover_pending_sessions, table
  <2> QED BY <1>14, <2>1, <2>2, <2>3 DEF BootStep
<1>15. ASSUME NEW p \in Procs, CommonStep(p) PROVE UNCHANGED Store!vars
  <2>1. row' = row /\ clock' = clock /\ sel' = sel /\ pc[p] \notin Flushing
    BY <1>15 DEF CommonStep, mark_session_running, create_driver, start_notification_recovery,
       mark_session_stopped, finish_session_run, publish_idle_if_inactive, publish_idle, table, stops, Flushing
  <2>2. CASE \E d \in Drivers : create_driver(p, d)
    <3>1. \A q \in Callers : Quiet(q)
      BY <2>1, <2>2, <1>0 DEF create_driver, Unused, Quiet, Flushing, TypeOK
    <3> QED BY <2>1, <3>1, <1>0, Stutter
  <2>3. CASE ~\E d \in Drivers : create_driver(p, d)
    <3>1. \E l \in {"spawn", "done", "mark", "stopwrite", "idle", "c_jobs", "idleread", "idlepub"} : Goto(p, l)
      BY <1>15, <2>3 DEF CommonStep, mark_session_running, start_notification_recovery,
         mark_session_stopped, finish_session_run, publish_idle_if_inactive, publish_idle, AfterStop
    <3> QED BY <2>1, <3>1, <1>15, <1>g DEF Flushing
  <2> QED BY <2>2, <2>3
<1> QED BY <1>1, <1>2, <1>3, <1>4, <1>5, <1>6, <1>7, <1>8, <1>9, <1>10, <1>11, <1>12, <1>13, <1>14, <1>15
        DEF Next, Environment

(* Every call the drivers, the jobs, the stops and the startup of a session *)
(* make, whatever the order they interleave in and wherever a task is      *)
(* canceled or the process dies, is one that the notification store admits *)
(* (service/agent/notifications.py), so what the store promises holds of   *)
(* the rows of a running session: in particular only the startup resets    *)
(* claimed rows, while no cancellation is in flight.                       *)
THEOREM SessionUsesStore == Spec => StoreSpec
<1>1. Init => Store!Init
  BY RefinementInit
<1>2. Held => TypeOK
  BY DEF Held, Control
<1>3. Held /\ Held' /\ [Next]_vars => [Store!Next]_(Store!vars)
  BY <1>2, RefinementStep, PTL
<1>4. Spec => []Held
  BY SessionInvariance
<1> QED BY <1>1, <1>3, <1>4, PTL DEF Spec, StoreSpec, Store!Spec
=============================================================================
