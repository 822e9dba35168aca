------------------------- MODULE SubagentTreeProofs -------------------------
(***************************************************************************)
(* The tree of subagents, for any number of runs, relaunches, cancels and  *)
(* restarts: what a run's task row, its obligation, its driver and the     *)
(* teardowns under way know of one another.                                *)
(***************************************************************************)
EXTENDS SubagentTree, TLAPS

-----------------------------------------------------------------------------
(* The inductive invariant.                                                 *)

Known(s) == task[s] # "absent"

(* Nothing runs before the startup is over, and no task is RUNNING when    *)
(* its last step comes.                                                     *)
StartupAlone ==
    /\ ~Up => /\ reg = {} /\ hit = {} /\ aborted = {}
              /\ \A s \in Ntf : starter[s] = "none" /\ pc[s] = "none"
              /\ \A p \in Procs : stack[p] = <<>> /\ waits[p] = {}
              /\ cpc["tool"] = "idle" /\ cpc["all"] = "idle"
    /\ boot = "cancel" => \A s \in Ntf : task[s] # "running"

(* A run exists before anything is done with it.                            *)
KnownFirst ==
    /\ \A s \in reg \cup aborted : Known(s)
    /\ \A s \in Ntf : pc[s] # "none" => Known(s)

(* A starter works on a run that nobody else has, first without its row.    *)
StartersApart ==
    \A s \in Ntf :
        /\ starter[s] # "none" => pc[s] = "none" /\ s \notin reg
        /\ starter[s] = "create" => ~Known(s)
        /\ starter[s] = "register" => Known(s) /\ task[s] # "completed"

(* A run's parent exists before it, and its obligation to the parent from  *)
(* the moment of its task row.                                              *)
ParentsFirst ==
    \A s \in Ntf :
        /\ Known(s) \/ starter[s] # "none" =>
              owner[s] # s /\ (owner[s] \in Ntf => Known(owner[s]))
        /\ Known(s) <=> row[s].status # "absent"
        /\ Known(s) => row[s].to = owner[s]

(* What a drive has claimed was addressed to it.                            *)
ItemsFit ==
    \A s \in Ntf : pc[s] \in {"turn", "release"} =>
        row[item[s]].status # "absent" /\ row[item[s]].to = s

Lineage == KnownFirst /\ StartersApart /\ ParentsFirst /\ ItemsFit

(* Cancellations are asked of, and awaited from, drives that are there.     *)
AwaitedLive ==
    /\ \A s \in hit : Live(s)
    /\ \A p \in Procs : \A s \in waits[p] : Live(s)

(* Which process has teardowns, and whose the first is.                     *)
StacksAgree ==
    /\ \A s \in Ntf : /\ pc[s] = "teardown" <=> stack[s] # <<>>
                      /\ pc[s] = "teardown" => stack[s][1].run = s
                      /\ pc[s] = "dying" => s \in aborted
    /\ cpc["tool"] = "idle" => stack["tool"] = <<>>
    /\ cpc["all"] = "inner" <=> stack["all"] # <<>>

(* A teardown, at its place in a stack.                                     *)
FrameFits(p, n, f) ==
    /\ f.run = Root <=> p = "all" /\ n = 1
    /\ f.run = Root => f.at \in {"stop", "sweep", "flush"}
    /\ n < Len(stack[p]) => f.at = "stop"
    /\ f.run # Root => Known(f.run)
    /\ f.at \in {"kick", "clean"} => task[f.run] # "running"
    /\ \A c \in f.todo \cup f.dormant : Known(c)
    /\ f.at = "flush" /\ f.run # Root => \A c \in f.todo : owner[c] = f.run

FramesFit == \A p \in Procs : \A n \in DOMAIN stack[p] : FrameFits(p, n, stack[p][n])

(* A drive that tells its parent has ended its task.                        *)
EndedBeforeKick == \A s \in Ntf : pc[s] \in {"kick", "clean"} => task[s] # "running"

(* The cancel-all is about to write what it has read.                       *)
Flushing == stack["all"] # <<>> /\ stack["all"][1].at = "flush"
Swept(s) == s \in stack["all"][1].todo

(* Whoever is RUNNING has somebody, or is among what the cancel-all will    *)
(* sweep, and its children with it.                                         *)
RunningIsMinded ==
    /\ \A s \in Ntf : Up /\ task[s] = "running" =>
          \/ s \in reg \/ starter[s] # "none"
          \/ cpc["all"] # "idle" /\ (Flushing => Swept(s))
    /\ Flushing => \A c \in stack["all"][1].todo :
          owner[c] \in Ntf => task[owner[c]] # "running" \/ Swept(owner[c])

(* What is settled in every state.                                          *)
SettledInv ==
    /\ TreeTypeOK /\ ObligationFollowsTask
    /\ StartupAlone /\ Lineage /\ AwaitedLive /\ StacksAgree /\ FramesFit
    /\ EndedBeforeKick /\ RunningIsMinded

(* While its tool call starts a child a run is in its turn, or on its way  *)
(* out; it has not completed.                                               *)
OpenToolHolds ==
    \A c \in Ntf : starter[c] # "none" /\ owner[c] \in Ntf /\ owner[c] \notin aborted =>
        /\ task[owner[c]] # "completed"
        /\ pc[owner[c]] \in {"turn0", "turn", "release", "teardown"}
           \/ (pc[owner[c]] = "none" /\ owner[c] \notin reg)

(* A run that has completed is over.                                        *)
CompletedIsOver ==
    \A s \in Ntf : task[s] = "completed" /\ s \notin aborted =>
        pc[s] \in {"kick", "clean", "teardown"} \/ (pc[s] = "none" /\ s \notin reg)

(* It completes when nothing is owed to it, and is owed nothing afterwards. *)
NothingOwed ==
    /\ \A s \in Ntf : pc[s] = "output" /\ s \notin aborted => OutstandingFor(row, {s}) = {}
    /\ CompletedHasHeard

(* A run that has looked for its results, or is dormant.                    *)
Asleep(s) == pc[s] = "outst" \/ (pc[s] = "none" /\ s \in reg)

(* The result that a run did not see before it looked for what is owed to  *)
(* it has somebody who brings it.                                           *)
ResultIsBrought ==
    \A s \in Ntf : Up /\ Intact(s) /\ PendingFor(row, {s}) # {} /\ Asleep(s)
                   => \E p \in Procs : WillWake(p, s)

TornDown(s) == \E p \in Procs : \E n \in DOMAIN stack[p] : stack[p][n].run = s

(* A dormant run is owed something, up to the sweep that ends it.           *)
SleeperIsOwed ==
    \A s \in reg : /\ Up /\ pc[s] = "none" /\ task[s] = "running" /\ Intact(s)
                   /\ cpc["all"] = "idle" \/ (Flushing /\ ~Swept(s))
                   => \/ OutstandingFor(row, {s}) # {}
                      \/ \E p \in Procs : WillWake(p, s)
                      \/ TornDown(s)

OwedInv == OpenToolHolds /\ CompletedIsOver /\ NothingOwed /\ ResultIsBrought /\ SleeperIsOwed

-----------------------------------------------------------------------------
(* Stacks.                                                                  *)

(* Only the empty sequence has no elements.                                 *)
LEMMA EmptyHasNone == ASSUME NEW S, NEW t \in Seq(S) PROVE t = <<>> <=> Len(t) = 0
OBVIOUS

(* A stack is a finite sequence of teardowns, the last on top.              *)
LEMMA StackShape ==
    ASSUME TreeTypeOK, NEW p \in Procs
    PROVE  /\ stack[p] \in Seq(Frames) /\ Len(stack[p]) \in Nat
           /\ DOMAIN stack[p] = 1..Len(stack[p])
           /\ \A n \in DOMAIN stack[p] : stack[p][n] \in Frames
           /\ stack[p] = <<>> <=> Len(stack[p]) = 0
           /\ stack[p] # <<>> => Len(stack[p]) \in DOMAIN stack[p] /\ 1 \in DOMAIN stack[p]
           /\ stack[p] # <<>> => Top(p) \in Frames
BY DEF TreeTypeOK, Top

(* The step of a teardown changes the top of one stack.                     *)
TopBecomes(p, f) ==
    /\ stack' \in [Procs -> Seq(Frames)]
    /\ \A q \in Procs : /\ q # p => stack'[q] = stack[q]
                        /\ Len(stack'[q]) = Len(stack[q])
                        /\ DOMAIN stack'[q] = DOMAIN stack[q]
                        /\ stack'[q] = <<>> <=> stack[q] = <<>>
    /\ \A n \in DOMAIN stack[p] : stack'[p][n] = IF n = Len(stack[p]) THEN f ELSE stack[p][n]

(* Setting the top does just that.                                          *)
LEMMA TopSet ==
    ASSUME TreeTypeOK, NEW p \in Procs, stack[p] # <<>>, NEW f \in Frames, stack' = SetTop(p, f)
    PROVE  TopBecomes(p, f)
<1>1. stack \in [Procs -> Seq(Frames)] /\ stack[p] \in Seq(Frames)
  BY DEF TreeTypeOK
<1>2. stack' = [stack EXCEPT ![p] = [stack[p] EXCEPT ![Len(stack[p])] = f]]
  BY DEF SetTop
<1> DEFINE t == [stack[p] EXCEPT ![Len(stack[p])] = f]
<1>3. /\ t \in Seq(Frames) /\ Len(t) = Len(stack[p]) /\ DOMAIN t = DOMAIN stack[p]
      /\ t # <<>>
      /\ \A n \in DOMAIN stack[p] : t[n] = IF n = Len(stack[p]) THEN f ELSE stack[p][n]
  BY <1>1, StackShape
<1> HIDE DEF t
<1>4. stack' = [stack EXCEPT ![p] = t]
  BY <1>2 DEF t
<1> QED BY <1>1, <1>3, <1>4 DEF TopBecomes

(* A teardown that ends leaves the stack.                                   *)
LEMMA TopPopped ==
    ASSUME TreeTypeOK, NEW p \in Procs, stack[p] # <<>>, stack' = Pop(p)
    PROVE  /\ stack' \in [Procs -> Seq(Frames)]
           /\ \A q \in Procs : q # p => stack'[q] = stack[q]
           /\ Len(stack'[p]) = Len(stack[p]) - 1
           /\ DOMAIN stack'[p] = 1..(Len(stack[p]) - 1)
           /\ stack'[p] = <<>> <=> Len(stack[p]) = 1
           /\ \A n \in DOMAIN stack'[p] : n \in DOMAIN stack[p] /\ stack'[p][n] = stack[p][n]
<1>1. stack \in [Procs -> Seq(Frames)] /\ stack[p] \in Seq(Frames)
  BY DEF TreeTypeOK
<1> DEFINE t == SubSeq(stack[p], 1, Len(stack[p]) - 1)
<1>2. stack' = [stack EXCEPT ![p] = t]
  BY DEF Pop
<1>3. /\ t \in Seq(Frames) /\ Len(t) = Len(stack[p]) - 1 /\ DOMAIN t = 1..(Len(stack[p]) - 1)
      /\ t = <<>> <=> Len(stack[p]) = 1
      /\ \A n \in DOMAIN t : n \in DOMAIN stack[p] /\ t[n] = stack[p][n]
  <2> DEFINE k == Len(stack[p]) - 1
  <2>1. k \in Nat /\ DOMAIN stack[p] = 1..(k + 1) /\ Len(stack[p]) = k + 1
    BY <1>1, StackShape
  <2>2. \A n \in 1..k : stack[p][n] \in Frames
    BY <2>1, StackShape
  <2>3. SubSeq(stack[p], 1, k) = [n \in 1..k |-> stack[p][n]]
    BY <1>1, <2>1
  <2>4. SubSeq(stack[p], 1, k) \in Seq(Frames) /\ Len(SubSeq(stack[p], 1, k)) = k
    BY <1>1, <2>1, <2>2
  <2>5. t = [n \in 1..k |-> stack[p][n]] /\ t \in Seq(Frames) /\ Len(t) = k
    BY <2>1, <2>3, <2>4
  <2>7. DOMAIN t = 1..k /\ \A n \in 1..k : n \in 1..(k + 1) /\ t[n] = stack[p][n]
    BY <2>1, <2>5
  <2>6. t = <<>> <=> k = 0
    <3>1. t \in Seq(Frames) /\ Len(t) = k
      BY <2>5
    <3> HIDE DEF t, k
    <3> QED BY <3>1, EmptyHasNone
  <2> HIDE DEF t
  <2> QED BY <2>1, <2>5, <2>6, <2>7
<1> HIDE DEF t
<1> QED BY <1>1, <1>2, <1>3

(* A dormant run's teardown goes on top of the one that found it.           *)
LEMMA TopPushed ==
    ASSUME TreeTypeOK, NEW p \in Procs, stack[p] # <<>>, NEW f \in Frames, NEW g \in Frames,
           stack' = [stack EXCEPT ![p] = Append(SetTop(p, f)[p], g)]
    PROVE  /\ stack' \in [Procs -> Seq(Frames)]
           /\ \A q \in Procs : q # p => stack'[q] = stack[q]
           /\ Len(stack'[p]) = Len(stack[p]) + 1
           /\ DOMAIN stack'[p] = 1..(Len(stack[p]) + 1)
           /\ stack'[p] # <<>>
           /\ \A n \in DOMAIN stack'[p] :
                 stack'[p][n] = IF n = Len(stack[p]) + 1 THEN g
                                ELSE IF n = Len(stack[p]) THEN f ELSE stack[p][n]
<1>1. stack \in [Procs -> Seq(Frames)] /\ stack[p] \in Seq(Frames)
  BY DEF TreeTypeOK
<1> DEFINE t == [stack[p] EXCEPT ![Len(stack[p])] = f]
<1>2. SetTop(p, f)[p] = t
  BY <1>1 DEF SetTop
<1>3. /\ t \in Seq(Frames) /\ Len(t) = Len(stack[p]) /\ DOMAIN t = DOMAIN stack[p]
      /\ t # <<>>
      /\ \A n \in DOMAIN stack[p] : t[n] = IF n = Len(stack[p]) THEN f ELSE stack[p][n]
  BY <1>1, StackShape
<1> HIDE DEF t
<1> DEFINE u == Append(t, g)
<1>4. /\ u \in Seq(Frames) /\ Len(u) = Len(t) + 1 /\ DOMAIN u = 1..(Len(t) + 1) /\ u # <<>>
      /\ \A n \in DOMAIN u : u[n] = IF n = Len(t) + 1 THEN g ELSE t[n]
  BY <1>3
<1>5. stack' = [stack EXCEPT ![p] = u]
  BY <1>2
<1>6. DOMAIN t = 1..Len(t) /\ Len(t) \in Nat
  BY <1>3
<1> HIDE DEF u
<1>7. stack' \in [Procs -> Seq(Frames)] /\ stack'[p] = u /\ \A q \in Procs : q # p => stack'[q] = stack[q]
  BY <1>1, <1>4, <1>5
<1>8. \A n \in 1..(Len(stack[p]) + 1) :
         u[n] = IF n = Len(stack[p]) + 1 THEN g ELSE IF n = Len(stack[p]) THEN f ELSE stack[p][n]
  BY <1>3, <1>4, <1>6
<1> QED BY <1>3, <1>4, <1>6, <1>7, <1>8

(* A stack may be emptied, or begin with one teardown.                      *)
LEMMA StackSet ==
    ASSUME TreeTypeOK, NEW p \in Procs, NEW f \in Frames
    PROVE  /\ [stack EXCEPT ![p] = <<>>] \in [Procs -> Seq(Frames)]
           /\ [stack EXCEPT ![p] = <<f>>] \in [Procs -> Seq(Frames)]
           /\ <<f>> # <<>> /\ Len(<<f>>) = 1 /\ DOMAIN <<f>> = {1} /\ <<f>>[1] = f
           /\ Append(<<>>, f) = <<f>>
BY DEF TreeTypeOK

(* A teardown that begins is one of the records Frames.                     *)
LEMMA TeardownTyped ==
    ASSUME NEW s \in Ntf, NEW h \in {"canceled", "failed"}
    PROVE  Teardown(s, h) \in Frames
BY TreeAssumption DEF Teardown, Frames, FrameStep

(* What a statement makes of a row is a row.                                *)
LEMMA RowsStayRows ==
    ASSUME NEW r \in Rows
    PROVE  /\ Claimed(r) \in Rows /\ Released(r) \in Rows /\ Cancelled(r) \in Rows /\ Reset(r) \in Rows
           /\ \A b \in BOOLEAN : Resolved(r, b) \in Rows
           /\ \A x \in {"completed", "failed"} : Finished(r, x) \in Rows /\ Finished(Claimed(r), x) \in Rows
           /\ \A i \in Instances : NewObligation("subagent_finished", i, 0) \in Rows
BY DEF Rows, Statuses, Outstanding, Terminal, Kinds, Claimed, Released, Cancelled, Reset, Resolved,
       Finished, NewObligation

(* The task rows and the obligations keep their types.                      *)
LEMMA RowTypesStep ==
    TreeTypeOK /\ [TreeNext]_treeVars => row' \in [Ntf -> Rows] /\ task' \in [Ntf -> TaskStatus]
<1> SUFFICES ASSUME TreeTypeOK, [TreeNext]_treeVars
             PROVE  row' \in [Ntf -> Rows] /\ task' \in [Ntf -> TaskStatus]
  OBVIOUS
<1> DEFINE Typed == row' \in [Ntf -> Rows] /\ task' \in [Ntf -> TaskStatus]
<1>0. /\ row \in [Ntf -> Rows] /\ task \in [Ntf -> TaskStatus] /\ owner \in [Ntf -> Instances]
      /\ item \in [Ntf -> Ntf]
      /\ {"running", "completed", "failed", "canceled"} \subseteq TaskStatus
  BY DEF TreeTypeOK, TaskStatus
<1>f. ASSUME NEW s, NEW h \in {"completed", "failed", "canceled"}, FinishTask(s, h) PROVE Typed
  <2> DEFINE b == h # "canceled"
  <2>1. \A r \in Rows : Resolved(r, b) \in Rows
    BY RowsStayRows
  <2>2. \/ UNCHANGED rows
        \/ task' = [task EXCEPT ![s] = h] /\ row' = [row EXCEPT ![s] = Resolved(@, b)]
    BY <1>f DEF FinishTask
  <2> HIDE DEF b
  <2> QED BY <1>0, <2>1, <2>2 DEF rows
<1>w. ASSUME NEW S, SweepRows(S) PROVE Typed
  BY <1>w, <1>0, RowsStayRows DEF SweepRows
<1>1. ASSUME NEW s \in Ntf, create_subagent_task(s)
      PROVE  Typed
  BY <1>1, <1>0, RowsStayRows DEF create_subagent_task
<1>2. ASSUME NEW s \in Ntf, claim_next_pending_notification(s)
      PROVE  Typed
  BY <1>2, <1>0, RowsStayRows DEF claim_next_pending_notification
<1>3. ASSUME NEW s \in Ntf, notification_turn_ends(s)
      PROVE  Typed
  BY <1>3, <1>0, RowsStayRows DEF notification_turn_ends
<1>4. ASSUME NEW s \in Ntf, release_notification(s)
      PROVE  Typed
  BY <1>4, <1>0, RowsStayRows DEF release_notification
<1>5. ASSUME NEW s \in Ntf, complete_subagent(s)
      PROVE  Typed
  BY <1>5, <1>f DEF complete_subagent
<1>6. ASSUME NEW s \in Ntf, root_takes(s)
      PROVE  Typed
  BY <1>6, <1>0, RowsStayRows DEF root_takes
<1>7. ASSUME NEW s \in Ntf, cancel_subagent_task(s)
      PROVE  Typed
  BY <1>7, <1>0, <1>f DEF cancel_subagent_task, rows
<1>8. ASSUME NEW p \in Procs, sweep_flush(p), p = "all" => Len(stack[p]) > 1
      PROVE  Typed
  BY <1>8, <1>w DEF sweep_flush
<1>9. ASSUME NEW p \in Procs, cancel_notifications(p)
      PROVE  Typed
  BY <1>9, <1>0, RowsStayRows DEF cancel_notifications
<1>10. ASSUME NEW p \in Procs, finish_record(p)
      PROVE  Typed
  <2>1. Top(p) \in Frames /\ Top(p).how \in {"canceled", "failed"}
    BY <1>10, StackShape DEF finish_record, Steps, Frames
  <2> QED BY <1>10, <1>f, <2>1 DEF finish_record
<1>11. CASE cancel_session_flush
  BY <1>11, <1>w DEF cancel_session_flush
<1>12. CASE reset_processing_notifications_all
  BY <1>12, <1>0, RowsStayRows DEF reset_processing_notifications_all
<1>13. CASE mark_stale_running_subagent_tasks_failed
  BY <1>13, <1>0, RowsStayRows DEF mark_stale_running_subagent_tasks_failed
<1>14. CASE cancel_stale_notifications
  BY <1>14, <1>0, RowsStayRows DEF cancel_stale_notifications
<1>15. ASSUME NEW s \in Ntf, NEW i \in Instances,
             start_subagent_task(i, s)
      PROVE  Typed
  BY <1>15, <1>0 DEF start_subagent_task, rows, drives, cancels, births, lifes
<1>16. ASSUME NEW s \in Ntf,
             register_driver(s) \/ initial_turn_ends(s) \/ settle_pending(s) \/
             settle_outstanding(s) \/ resume_parent(s) \/ cleanup_subagent(s) \/
             take_cancel(s) \/ drive_aborts(s)
      PROVE  Typed
  BY <1>16, <1>0 DEF register_driver, initial_turn_ends, settle_pending, settle_outstanding,
         resume_parent, cleanup_subagent, take_cancel, drive_aborts, rows, drives,
         cancels, births, lifes
<1>17. ASSUME NEW p \in Procs,
             sweep_select(p) \/ match_children(p) \/ cancel_dormant(p) \/
             teardown_resumes_parent(p) \/ teardown_cleans(p)
      PROVE  Typed
  BY <1>17, <1>0 DEF sweep_select, match_children, cancel_dormant, teardown_resumes_parent,
         teardown_cleans, rows, drives, cancels, births, lifes
<1>18. ASSUME NEW p \in Procs, NEW c \in Ntf,
             stop_driver(p, c)
      PROVE  Typed
  BY <1>18, <1>0 DEF stop_driver, rows, drives, cancels, births, lifes
<1>19. CASE tool_returns \/ tool_canceled \/ cancel_session_starters \/
          cancel_session_drivers \/ cancel_session_select \/ backend_crash \/ UNCHANGED
          treeVars
  BY <1>19, <1>0 DEF tool_returns, tool_canceled, cancel_session_starters, cancel_session_drivers,
         cancel_session_select, backend_crash, treeVars, rows, drives, cancels, births,
         lifes
<1> QED BY <1>1, <1>2, <1>3, <1>4, <1>5, <1>6, <1>7, <1>8, <1>9, <1>10, <1>11, <1>12, <1>13, <1>14,
           <1>15, <1>16, <1>17, <1>18, <1>19
        DEF TreeNext, Drive, TeardownStep, CancelAll, Startup

(* What a step of a teardown makes of it: the next step, with these drivers *)
(* to stop and these to tear down.                                          *)
Turned(t, l, T, D) == [run |-> t.run, how |-> t.how, at |-> l, todo |-> T, dormant |-> D]

(* A teardown is its five fields.                                           *)
LEMMA SameTeardown ==
    ASSUME NEW f \in Frames, NEW g \in Frames, f.run = g.run, f.how = g.how, f.at = g.at,
           f.todo = g.todo, f.dormant = g.dormant
    PROVE  f = g
BY DEF Frames

(* An update of some fields of a teardown is Turned of the rest.            *)
LEMMA TeardownIsRecord ==
    ASSUME NEW t \in Frames, NEW l \in FrameStep, NEW T \in SUBSET Ntf, NEW D \in SUBSET Ntf
    PROVE  /\ Turned(t, l, T, D) \in Frames
           /\ [t EXCEPT !.at = l] = Turned(t, l, t.todo, t.dormant)
           /\ [t EXCEPT !.at = l, !.todo = T] = Turned(t, l, T, t.dormant)
           /\ [t EXCEPT !.todo = T] = Turned(t, t.at, T, t.dormant)
           /\ [t EXCEPT !.dormant = D] = Turned(t, t.at, t.todo, D)
<1>0. /\ t.run \in Instances /\ t.how \in {"canceled", "failed"} /\ t.at \in FrameStep
      /\ t.todo \in SUBSET Ntf /\ t.dormant \in SUBSET Ntf
  BY DEF Frames
<1>1. \A k \in FrameStep : \A U, V \in SUBSET Ntf : Turned(t, k, U, V) \in Frames
  BY <1>0 DEF Turned, Frames
<1>2. [t EXCEPT !.at = l] = Turned(t, l, t.todo, t.dormant)
  <2> DEFINE u == [t EXCEPT !.at = l]
             w == Turned(t, l, t.todo, t.dormant)
  <2>1. u \in Frames /\ u.run = t.run /\ u.how = t.how
    BY <1>0 DEF Frames
  <2>2. u.at = l /\ u.todo = t.todo /\ u.dormant = t.dormant
    BY DEF Frames
  <2>3. w \in Frames /\ w.run = t.run /\ w.how = t.how /\ w.at = l /\ w.todo = t.todo /\ w.dormant = t.dormant
    BY <1>0, <1>1 DEF Turned
  <2>4. u = w
    <3> HIDE DEF u, w
    <3> QED BY <2>1, <2>2, <2>3, SameTeardown
  <2> QED BY <2>4
<1>3. [t EXCEPT !.at = l, !.todo = T] = Turned(t, l, T, t.dormant)
  <2> DEFINE u == [t EXCEPT !.at = l, !.todo = T]
             w == Turned(t, l, T, t.dormant)
  <2>1. u \in Frames /\ u.run = t.run /\ u.how = t.how
    BY <1>0 DEF Frames
  <2>2. u.at = l /\ u.todo = T /\ u.dormant = t.dormant
    BY DEF Frames
  <2>3. w \in Frames /\ w.run = t.run /\ w.how = t.how /\ w.at = l /\ w.todo = T /\ w.dormant = t.dormant
    BY <1>0, <1>1 DEF Turned
  <2>4. u = w
    <3> HIDE DEF u, w
    <3> QED BY <2>1, <2>2, <2>3, SameTeardown
  <2> QED BY <2>4
<1>4. [t EXCEPT !.todo = T] = Turned(t, t.at, T, t.dormant)
  <2> DEFINE u == [t EXCEPT !.todo = T]
             w == Turned(t, t.at, T, t.dormant)
  <2>1. u \in Frames /\ u.run = t.run /\ u.how = t.how
    BY <1>0 DEF Frames
  <2>2. u.at = t.at /\ u.todo = T /\ u.dormant = t.dormant
    BY DEF Frames
  <2>3. w \in Frames /\ w.run = t.run /\ w.how = t.how /\ w.at = t.at /\ w.todo = T /\ w.dormant = t.dormant
    BY <1>0, <1>1 DEF Turned
  <2>4. u = w
    <3> HIDE DEF u, w
    <3> QED BY <2>1, <2>2, <2>3, SameTeardown
  <2> QED BY <2>4
<1>5. [t EXCEPT !.dormant = D] = Turned(t, t.at, t.todo, D)
  <2> DEFINE u == [t EXCEPT !.dormant = D]
             w == Turned(t, t.at, t.todo, D)
  <2>1. u \in Frames /\ u.run = t.run /\ u.how = t.how
    BY <1>0 DEF Frames
  <2>2. u.at = t.at /\ u.todo = t.todo /\ u.dormant = D
    BY DEF Frames
  <2>3. w \in Frames /\ w.run = t.run /\ w.how = t.how /\ w.at = t.at /\ w.todo = t.todo /\ w.dormant = D
    BY <1>0, <1>1 DEF Turned
  <2>4. u = w
    <3> HIDE DEF u, w
    <3> QED BY <2>1, <2>2, <2>3, SameTeardown
  <2> QED BY <2>4
<1> QED BY <1>1, <1>2, <1>3, <1>4, <1>5

(* So is the update of both sets of drivers.                                *)
LEMMA StoppedIsRecord ==
    ASSUME NEW t \in Frames, NEW T \in SUBSET Ntf, NEW D \in SUBSET Ntf
    PROVE  [t EXCEPT !.todo = T, !.dormant = D] = Turned(t, t.at, T, D)
<1> DEFINE u == [t EXCEPT !.todo = T, !.dormant = D]
           w == Turned(t, t.at, T, D)
<1>1. u \in Frames /\ u.run = t.run /\ u.how = t.how /\ u.at = t.at /\ u.todo = T /\ u.dormant = D
  BY DEF Frames
<1>2. w \in Frames /\ w.run = t.run /\ w.how = t.how /\ w.at = t.at /\ w.todo = T /\ w.dormant = D
  BY DEF Turned, Frames
<1>3. u = w
  <2> HIDE DEF u, w
  <2> QED BY <1>1, <1>2, SameTeardown
<1> QED BY <1>3

(* The top of the stack of p goes on to l.                                  *)
Turns(p, l, T, D) ==
    /\ stack[p] # <<>> /\ Top(p) \in Frames /\ Turned(Top(p), l, T, D) \in Frames
    /\ TopBecomes(p, Turned(Top(p), l, T, D))

(* A new top made from the old one is a turn.                               *)
LEMMA TopTurns ==
    ASSUME TreeTypeOK, NEW p \in Procs, stack[p] # <<>>,
           NEW l \in FrameStep, NEW T \in SUBSET Ntf, NEW D \in SUBSET Ntf,
           stack' = SetTop(p, Turned(Top(p), l, T, D))
    PROVE  Turns(p, l, T, D)
<1>1. Top(p) \in Frames
  BY StackShape
<1>2. Turned(Top(p), l, T, D) \in Frames
  BY <1>1 DEF Turned, Frames
<1> QED BY <1>1, <1>2, TopSet DEF Turns

(* Which step of a teardown turns the top to what.                          *)
LEMMA TeardownTurns ==
    ASSUME TreeTypeOK, NEW p \in Procs
    PROVE
           /\ sweep_select(p) =>
                Turns(p, "flush", {c \in Ntf : task[c] = "running" /\ row[c].to = Top(p).run}, Top(p).dormant)
           /\ p = "all" /\ cancel_session_select =>
                Turns(p, "flush", {c \in Ntf : task[c] = "running"}, Top(p).dormant)
           /\ sweep_flush(p) =>
                Turns(p, "record", {}, Top(p).dormant)
           /\ cancel_notifications(p) =>
                Turns(p, "match", Top(p).todo, Top(p).dormant)
           /\ match_children(p) =>
                Turns(p, "stop", {c \in reg : owner[c] = Top(p).run}, Top(p).dormant)
           /\ cancel_dormant(p) /\ Top(p).dormant = {} =>
                Turns(p, "sweep", {}, {})
           /\ finish_record(p) =>
                Turns(p, "kick", Top(p).todo, Top(p).dormant)
           /\ teardown_resumes_parent(p) =>
                Turns(p, "clean", Top(p).todo, Top(p).dormant)
           /\ \A c \in Ntf : stop_driver(p, c) =>
                \E D \in SUBSET (Top(p).dormant \cup {c}) : Turns(p, "stop", Top(p).todo \ {c}, D)
<1> DEFINE t == Top(p)
<1>1. ASSUME stack[p] # <<>> PROVE t \in Frames /\ t.todo \in SUBSET Ntf /\ t.dormant \in SUBSET Ntf
  BY <1>1, StackShape DEF Frames
<1>2. {"match", "stop", "sweep", "flush", "record", "kick", "clean"} \subseteq FrameStep
  BY DEF FrameStep
<1>3. reg \in SUBSET Ntf
  BY DEF TreeTypeOK
<1>s. ASSUME p = "all", cancel_session_select PROVE stack[p] # <<>>
  <2>1. Len(stack[p]) = 1
    BY <1>s DEF cancel_session_select
  <2> QED BY <2>1, StackShape
<1>4. ASSUME sweep_select(p)
      PROVE  Turns(p, "flush", {c \in Ntf : task[c] = "running" /\ row[c].to = Top(p).run}, Top(p).dormant)
  <2> DEFINE T == {c \in Ntf : task[c] = "running" /\ row[c].to = Top(p).run}
             D == Top(p).dormant
  <2>1. /\ stack[p] # <<>>
        /\ stack' = SetTop(p, [t EXCEPT !.at = "flush",
                     !.todo = {c \in Ntf : task[c] = "running" /\ row[c].to = Top(p).run}])
    BY <1>4 DEF sweep_select, Steps, TreeTypeOK
  <2>2. T \in SUBSET Ntf /\ D \in SUBSET Ntf
    BY <1>1, <1>3, <2>1
  <2>3. [t EXCEPT !.at = "flush", !.todo = {c \in Ntf : task[c] = "running" /\ row[c].to = Top(p).run}] = Turned(t, "flush", T, D)
    BY <1>1, <1>2, <2>1, <2>2, TeardownIsRecord
  <2> HIDE DEF T, D
  <2>4. Turns(p, "flush", T, D)
    BY <1>2, <2>1, <2>2, <2>3, TopTurns
  <2> QED BY <2>4 DEF T, D
<1>5. ASSUME p = "all" /\ cancel_session_select
      PROVE  Turns(p, "flush", {c \in Ntf : task[c] = "running"}, Top(p).dormant)
  <2> DEFINE T == {c \in Ntf : task[c] = "running"}
             D == Top(p).dormant
  <2>1. stack[p] # <<>> /\ stack' = SetTop(p, [t EXCEPT !.at = "flush", !.todo = {c \in Ntf : task[c] = "running"}])
    BY <1>5, <1>s DEF cancel_session_select, Steps, TreeTypeOK
  <2>2. T \in SUBSET Ntf /\ D \in SUBSET Ntf
    BY <1>1, <1>3, <2>1
  <2>3. [t EXCEPT !.at = "flush", !.todo = {c \in Ntf : task[c] = "running"}] = Turned(t, "flush", T, D)
    BY <1>1, <1>2, <2>1, <2>2, TeardownIsRecord
  <2> HIDE DEF T, D
  <2>4. Turns(p, "flush", T, D)
    BY <1>2, <2>1, <2>2, <2>3, TopTurns
  <2> QED BY <2>4 DEF T, D
<1>6. ASSUME sweep_flush(p)
      PROVE  Turns(p, "record", {}, Top(p).dormant)
  <2> DEFINE T == {}
             D == Top(p).dormant
  <2>1. stack[p] # <<>> /\ stack' = SetTop(p, [t EXCEPT !.at = "record", !.todo = {}])
    BY <1>6 DEF sweep_flush, Steps, TreeTypeOK
  <2>2. T \in SUBSET Ntf /\ D \in SUBSET Ntf
    BY <1>1, <1>3, <2>1
  <2>3. [t EXCEPT !.at = "record", !.todo = {}] = Turned(t, "record", T, D)
    BY <1>1, <1>2, <2>1, <2>2, TeardownIsRecord
  <2> HIDE DEF T, D
  <2>4. Turns(p, "record", T, D)
    BY <1>2, <2>1, <2>2, <2>3, TopTurns
  <2> QED BY <2>4 DEF T, D
<1>7. ASSUME cancel_notifications(p)
      PROVE  Turns(p, "match", Top(p).todo, Top(p).dormant)
  <2> DEFINE T == Top(p).todo
             D == Top(p).dormant
  <2>1. stack[p] # <<>> /\ stack' = SetTop(p, [t EXCEPT !.at = "match"])
    BY <1>7 DEF cancel_notifications, Steps, TreeTypeOK
  <2>2. T \in SUBSET Ntf /\ D \in SUBSET Ntf
    BY <1>1, <1>3, <2>1
  <2>3. [t EXCEPT !.at = "match"] = Turned(t, "match", T, D)
    BY <1>1, <1>2, <2>1, <2>2, TeardownIsRecord
  <2> HIDE DEF T, D
  <2>4. Turns(p, "match", T, D)
    BY <1>2, <2>1, <2>2, <2>3, TopTurns
  <2> QED BY <2>4 DEF T, D
<1>8. ASSUME match_children(p)
      PROVE  Turns(p, "stop", {c \in reg : owner[c] = Top(p).run}, Top(p).dormant)
  <2> DEFINE T == {c \in reg : owner[c] = Top(p).run}
             D == Top(p).dormant
  <2>1. stack[p] # <<>> /\ stack' = SetTop(p, [t EXCEPT !.at = "stop", !.todo = {c \in reg : owner[c] = Top(p).run}])
    BY <1>8 DEF match_children, Steps, TreeTypeOK
  <2>2. T \in SUBSET Ntf /\ D \in SUBSET Ntf
    BY <1>1, <1>3, <2>1
  <2>3. [t EXCEPT !.at = "stop", !.todo = {c \in reg : owner[c] = Top(p).run}] = Turned(t, "stop", T, D)
    BY <1>1, <1>2, <2>1, <2>2, TeardownIsRecord
  <2> HIDE DEF T, D
  <2>4. Turns(p, "stop", T, D)
    BY <1>2, <2>1, <2>2, <2>3, TopTurns
  <2> QED BY <2>4 DEF T, D
<1>9. ASSUME cancel_dormant(p) /\ Top(p).dormant = {}
      PROVE  Turns(p, "sweep", {}, {})
  <2> DEFINE T == {}
             D == {}
  <2>1. stack[p] # <<>> /\ stack' = SetTop(p, [t EXCEPT !.at = "sweep"])
    BY <1>9 DEF cancel_dormant, Steps, TreeTypeOK
  <2>2. T \in SUBSET Ntf /\ D \in SUBSET Ntf
    BY <1>1, <1>3, <2>1
  <2>3. [t EXCEPT !.at = "sweep"] = Turned(t, "sweep", T, D)
    <3>1. t.todo = T /\ t.dormant = D
      BY <1>9 DEF cancel_dormant
    <3> HIDE DEF T, D
    <3> QED BY <1>1, <1>2, <2>1, <2>2, <3>1, TeardownIsRecord
  <2> HIDE DEF T, D
  <2>4. Turns(p, "sweep", T, D)
    BY <1>2, <2>1, <2>2, <2>3, TopTurns
  <2> QED BY <2>4 DEF T, D
<1>10. ASSUME finish_record(p)
      PROVE  Turns(p, "kick", Top(p).todo, Top(p).dormant)
  <2> DEFINE T == Top(p).todo
             D == Top(p).dormant
  <2>1. stack[p] # <<>> /\ stack' = SetTop(p, [t EXCEPT !.at = "kick"])
    BY <1>10 DEF finish_record, Steps, TreeTypeOK
  <2>2. T \in SUBSET Ntf /\ D \in SUBSET Ntf
    BY <1>1, <1>3, <2>1
  <2>3. [t EXCEPT !.at = "kick"] = Turned(t, "kick", T, D)
    BY <1>1, <1>2, <2>1, <2>2, TeardownIsRecord
  <2> HIDE DEF T, D
  <2>4. Turns(p, "kick", T, D)
    BY <1>2, <2>1, <2>2, <2>3, TopTurns
  <2> QED BY <2>4 DEF T, D
<1>11. ASSUME teardown_resumes_parent(p)
      PROVE  Turns(p, "clean", Top(p).todo, Top(p).dormant)
  <2> DEFINE T == Top(p).todo
             D == Top(p).dormant
  <2>1. stack[p] # <<>> /\ stack' = SetTop(p, [t EXCEPT !.at = "clean"])
    BY <1>11 DEF teardown_resumes_parent, Steps, TreeTypeOK
  <2>2. T \in SUBSET Ntf /\ D \in SUBSET Ntf
    BY <1>1, <1>3, <2>1
  <2>3. [t EXCEPT !.at = "clean"] = Turned(t, "clean", T, D)
    BY <1>1, <1>2, <2>1, <2>2, TeardownIsRecord
  <2> HIDE DEF T, D
  <2>4. Turns(p, "clean", T, D)
    BY <1>2, <2>1, <2>2, <2>3, TopTurns
  <2> QED BY <2>4 DEF T, D
<1>12. ASSUME NEW c \in Ntf, stop_driver(p, c)
      PROVE  \E D \in SUBSET (Top(p).dormant \cup {c}) : Turns(p, "stop", Top(p).todo \ {c}, D)
  <2>1. stack[p] # <<>> /\ t.at = "stop"
    BY <1>12 DEF stop_driver, Steps
  <2>2. PICK D \in SUBSET (t.dormant \cup {c}) : stack' = SetTop(p, Turned(t, "stop", t.todo \ {c}, D))
    <3>1. CASE Live(c)
      <4>1. stack' = SetTop(p, [t EXCEPT !.todo = t.todo \ {c}])
        BY <1>1, <1>12, <2>1, <3>1 DEF stop_driver, Frames
      <4>2. [t EXCEPT !.todo = t.todo \ {c}] = Turned(t, t.at, t.todo \ {c}, t.dormant)
        BY <1>1, <1>2, <2>1, TeardownIsRecord
      <4> QED BY <2>1, <4>1, <4>2
    <3>2. CASE ~Live(c)
      <4>1. stack' = SetTop(p, [t EXCEPT !.todo = t.todo \ {c}, !.dormant = t.dormant \cup {c}])
        BY <1>1, <1>12, <2>1, <3>2 DEF stop_driver, Frames
      <4>2. [t EXCEPT !.todo = t.todo \ {c}, !.dormant = t.dormant \cup {c}]
            = Turned(t, t.at, t.todo \ {c}, t.dormant \cup {c})
        <5> DEFINE T == t.todo \ {c}
                   D == t.dormant \cup {c}
        <5>1. T \in SUBSET Ntf /\ D \in SUBSET Ntf /\ t \in Frames
          BY <1>1, <2>1
        <5> HIDE DEF T, D, t
        <5>2. [t EXCEPT !.todo = T, !.dormant = D] = Turned(t, t.at, T, D)
          BY <5>1, StoppedIsRecord
        <5> QED BY <5>2 DEF T, D
      <4> QED BY <2>1, <4>1, <4>2
    <3> QED BY <3>1, <3>2
  <2>3. t.todo \ {c} \in SUBSET Ntf /\ D \in SUBSET Ntf
    BY <1>1, <2>1
  <2> QED BY <1>2, <2>1, <2>2, <2>3, TopTurns
<1> QED BY <1>4, <1>5, <1>6, <1>7, <1>8, <1>9, <1>10, <1>11, <1>12

(* The cancel-all reads the RUNNING tasks into its own teardown.            *)
LEMMA SelectTurns ==
    ASSUME TreeTypeOK, cancel_session_select
    PROVE  Turns("all", "flush", {c \in Ntf : task[c] = "running"}, Top("all").dormant)
<1>1. \A p \in Procs : p = "all" =>
         Turns(p, "flush", {c \in Ntf : task[c] = "running"}, Top(p).dormant)
  BY TeardownTurns
<1>2. "all" \in Procs
  BY DEF Procs, Cancelers
<1> QED BY <1>1, <1>2

(* The teardown of a dormant run goes on top.                               *)
Pushes(p, f, g) ==
    /\ stack[p] # <<>> /\ Top(p) \in Frames /\ f \in Frames /\ g \in Frames
    /\ stack' \in [Procs -> Seq(Frames)]
    /\ \A q \in Procs : q # p => stack'[q] = stack[q]
    /\ Len(stack'[p]) = Len(stack[p]) + 1
    /\ DOMAIN stack'[p] = 1..(Len(stack[p]) + 1)
    /\ stack'[p] # <<>>
    /\ \A n \in DOMAIN stack'[p] :
          stack'[p][n] = IF n = Len(stack[p]) + 1 THEN g
                         ELSE IF n = Len(stack[p]) THEN f ELSE stack[p][n]

(* A dormant run taken from the top is torn down on top of it.              *)
LEMMA DormantPushed ==
    ASSUME TreeTypeOK, NEW p \in Procs, cancel_dormant(p), Top(p).dormant # {}
    PROVE  /\ Top(p).at = "stop" /\ Top(p).todo = {}
           /\ \E c \in Top(p).dormant :
                 /\ c \in Ntf /\ Teardown(c, "canceled") \in Frames
                 /\ Pushes(p, Turned(Top(p), "stop", {}, Top(p).dormant \ {c}), Teardown(c, "canceled"))
<1> DEFINE t == Top(p)
<1>1. stack[p] # <<>> /\ t.at = "stop" /\ t.todo = {}
  BY DEF cancel_dormant, Steps
<1>2. t \in Frames /\ t.dormant \in SUBSET Ntf
  BY <1>1, StackShape DEF Frames
<1>3. PICK c \in t.dormant :
         stack' = [stack EXCEPT ![p] = Append(SetTop(p, [t EXCEPT !.dormant = t.dormant \ {c}])[p],
                                             Teardown(c, "canceled"))]
  <2>1. \E c \in t.dormant :
         stack' = [stack EXCEPT ![p] = Append(SetTop(p, [t EXCEPT !.dormant = @ \ {c}])[p],
                                             Teardown(c, "canceled"))]
    BY DEF cancel_dormant
  <2>2. \A c : [t EXCEPT !.dormant = @ \ {c}] = [t EXCEPT !.dormant = t.dormant \ {c}]
    BY <1>2 DEF Frames
  <2> QED BY <2>1, <2>2
<1>4. [t EXCEPT !.dormant = t.dormant \ {c}] = Turned(t, "stop", {}, t.dormant \ {c})
      /\ Turned(t, "stop", {}, t.dormant \ {c}) \in Frames
  <2>1. t.dormant \ {c} \in SUBSET Ntf /\ "stop" \in FrameStep
    BY <1>2 DEF FrameStep
  <2> QED BY <1>1, <1>2, <2>1, TeardownIsRecord
<1>5. c \in Ntf /\ Teardown(c, "canceled") \in Frames
  BY <1>2, TeardownTyped
<1> HIDE DEF t
<1>6. Pushes(p, Turned(t, "stop", {}, t.dormant \ {c}), Teardown(c, "canceled"))
  <2> DEFINE f == Turned(t, "stop", {}, t.dormant \ {c})
             g == Teardown(c, "canceled")
  <2>1. f \in Frames /\ g \in Frames /\ stack' = [stack EXCEPT ![p] = Append(SetTop(p, f)[p], g)]
    BY <1>3, <1>4, <1>5
  <2> HIDE DEF f, g
  <2>2. Pushes(p, f, g)
    <3>1. Top(p) \in Frames
      BY <1>2 DEF t
    <3>2. /\ stack' \in [Procs -> Seq(Frames)]
          /\ \A q \in Procs : q # p => stack'[q] = stack[q]
          /\ Len(stack'[p]) = Len(stack[p]) + 1
          /\ DOMAIN stack'[p] = 1..(Len(stack[p]) + 1)
          /\ stack'[p] # <<>>
          /\ \A n \in DOMAIN stack'[p] :
                stack'[p][n] = IF n = Len(stack[p]) + 1 THEN g
                               ELSE IF n = Len(stack[p]) THEN f ELSE stack[p][n]
      BY <1>1, <2>1, TopPushed
    <3> QED BY <1>1, <2>1, <3>1, <3>2 DEF Pushes
  <2> QED BY <2>2 DEF f, g
<1> QED BY <1>1, <1>3, <1>5, <1>6 DEF t

(* A stack with one teardown, or with none.                                 *)
Starts(p, f) ==
    /\ f \in Frames /\ stack' \in [Procs -> Seq(Frames)]
    /\ \A q \in Procs : q # p => stack'[q] = stack[q]
    /\ stack'[p] # <<>> /\ Len(stack'[p]) = 1 /\ DOMAIN stack'[p] = {1} /\ stack'[p][1] = f

Empties(p) ==
    /\ stack' \in [Procs -> Seq(Frames)]
    /\ \A q \in Procs : q # p => stack'[q] = stack[q]
    /\ stack'[p] = <<>> /\ DOMAIN stack'[p] = {}

(* Assigning a stack of one teardown, or the empty one, does that.          *)
LEMMA StackStarts ==
    ASSUME TreeTypeOK, NEW p \in Procs
    PROVE  /\ \A f \in Frames : stack' = [stack EXCEPT ![p] = <<f>>] => Starts(p, f)
           /\ stack' = [stack EXCEPT ![p] = <<>>] => Empties(p)
<1>1. stack \in [Procs -> Seq(Frames)]
  BY DEF TreeTypeOK
<1>2. ASSUME NEW f \in Frames, stack' = [stack EXCEPT ![p] = <<f>>] PROVE Starts(p, f)
  <2>1. stack'[p] = <<f>> /\ \A q \in Procs : q # p => stack'[q] = stack[q]
    BY <1>1, <1>2
  <2>2. <<f>> # <<>> /\ Len(<<f>>) = 1 /\ DOMAIN <<f>> = {1} /\ <<f>>[1] = f
    BY StackSet
  <2> QED BY <1>2, <2>1, <2>2, StackSet DEF Starts
<1>3. stack' = [stack EXCEPT ![p] = <<>>] => Empties(p)
  BY <1>1, StackSet DEF Empties
<1> QED BY <1>2, <1>3

(* What the cancel-all begins with is a teardown for the whole session.     *)
LEMMA RootTeardown ==
    ASSUME TreeTypeOK
    PROVE  LET f == [Teardown(Root, "canceled") EXCEPT !.at = "stop", !.todo = reg]
           IN f \in Frames /\ f.run = Root /\ f.at = "stop" /\ f.todo = reg /\ f.dormant = {}
BY TreeAssumption DEF Frames, FrameStep, Teardown, TreeTypeOK

(* Which step starts or empties which stack.                                *)
LEMMA StacksStart ==
    ASSUME TreeTypeOK
    PROVE  /\ \A s \in Ntf :
                /\ initial_turn_ends(s) \/ settle_pending(s) =>
                      \/ stack' = stack /\ pc'[s] # "teardown"
                      \/ Starts(s, Teardown(s, "failed")) /\ pc'[s] = "teardown"
                /\ release_notification(s) => Starts(s, Teardown(s, "canceled"))
                /\ take_cancel(s) /\ pc[s] \in InTry =>
                      \/ stack' = stack /\ pc'[s] = "release"
                      \/ Starts(s, Teardown(s, "canceled")) /\ pc'[s] = "teardown"
                /\ take_cancel(s) /\ pc[s] \notin InTry => Empties(s)
                /\ cancel_subagent_task(s) /\ stack["tool"] = <<>> =>
                      stack' = stack \/ Starts("tool", Teardown(s, "canceled"))
           /\ tool_canceled => Empties("tool")
           /\ cancel_session_flush => Empties("all")
           /\ cancel_session_drivers =>
                 \E f : Starts("all", f) /\ f.run = Root /\ f.at = "stop" /\ f.todo = reg /\ f.dormant = {}
<1>0. /\ Ntf \subseteq Procs /\ "tool" \in Procs /\ "all" \in Procs
      /\ pc \in [Ntf -> DriveStep] /\ stack \in [Procs -> Seq(Frames)]
  BY DEF Procs, Cancelers, TreeTypeOK
<1>1. ASSUME NEW s \in Ntf
      PROVE  /\ Teardown(s, "canceled") \in Frames /\ Teardown(s, "failed") \in Frames
             /\ stack' = [stack EXCEPT ![s] = <<Teardown(s, "canceled")>>] => Starts(s, Teardown(s, "canceled"))
             /\ stack' = [stack EXCEPT ![s] = <<Teardown(s, "failed")>>] => Starts(s, Teardown(s, "failed"))
             /\ stack' = [stack EXCEPT ![s] = <<>>] => Empties(s)
  <2>1. Teardown(s, "canceled") \in Frames /\ Teardown(s, "failed") \in Frames
    BY TeardownTyped
  <2> QED BY <1>0, <2>1, StackStarts
<1>2. ASSUME NEW s \in Ntf, initial_turn_ends(s) \/ settle_pending(s)
      PROVE  \/ stack' = stack /\ pc'[s] # "teardown"
             \/ Starts(s, Teardown(s, "failed")) /\ pc'[s] = "teardown"
  BY <1>0, <1>1, <1>2 DEF initial_turn_ends, settle_pending, Goto
<1>3. ASSUME NEW s \in Ntf, release_notification(s) PROVE Starts(s, Teardown(s, "canceled"))
  BY <1>1, <1>3 DEF release_notification
<1>4. ASSUME NEW s \in Ntf, take_cancel(s), pc[s] \in InTry
      PROVE  \/ stack' = stack /\ pc'[s] = "release"
             \/ Starts(s, Teardown(s, "canceled")) /\ pc'[s] = "teardown"
  BY <1>0, <1>1, <1>4 DEF take_cancel, Goto
<1>5. ASSUME NEW s \in Ntf, take_cancel(s), pc[s] \notin InTry PROVE Empties(s)
  BY <1>1, <1>5 DEF take_cancel
<1>6. ASSUME NEW s \in Ntf, cancel_subagent_task(s), stack["tool"] = <<>>
      PROVE  stack' = stack \/ Starts("tool", Teardown(s, "canceled"))
  <2>1. CASE stack' = Push("tool", s)
    <3>1. Teardown(s, "canceled") \in Frames
      BY <1>1
    <3>2. Append(<<>>, Teardown(s, "canceled")) = <<Teardown(s, "canceled")>>
      BY <1>0, <3>1, StackSet
    <3>3. stack' = [stack EXCEPT !["tool"] = <<Teardown(s, "canceled")>>]
      BY <1>6, <2>1, <3>2 DEF Push
    <3> QED BY <1>0, <3>1, <3>3, StackStarts
  <2> QED BY <1>6, <2>1 DEF cancel_subagent_task, cancels
<1>7. /\ tool_canceled => Empties("tool")
      /\ cancel_session_flush => Empties("all")
  BY <1>0, StackStarts DEF tool_canceled, cancel_session_flush
<1>8. ASSUME cancel_session_drivers
      PROVE  \E f : Starts("all", f) /\ f.run = Root /\ f.at = "stop" /\ f.todo = reg /\ f.dormant = {}
  <2> DEFINE f == [Teardown(Root, "canceled") EXCEPT !.at = "stop", !.todo = reg]
  <2>1. f \in Frames /\ f.run = Root /\ f.at = "stop" /\ f.todo = reg /\ f.dormant = {}
    BY RootTeardown
  <2>2. stack' = [stack EXCEPT !["all"] = <<f>>]
    BY <1>8 DEF cancel_session_drivers
  <2> HIDE DEF f
  <2>3. Starts("all", f)
    BY <1>0, <2>1, <2>2, StackStarts
  <2> QED BY <2>1, <2>3
<1> QED BY <1>2, <1>3, <1>4, <1>5, <1>6, <1>7, <1>8

(* The types of the drives and the starters after the step.                 *)
DriveTypes ==
    /\ pc' \in [Ntf -> DriveStep] /\ starter' \in [Ntf -> StarterStep]
    /\ owner' \in [Ntf -> Instances]
    /\ item' \in [Ntf -> Ntf] /\ attempt' \in [Ntf -> 0..MaxRelaunch]

(* The drives, and where the starters are, keep their types.                *)
LEMMA DriveTypesStep ==
    TreeTypeOK /\ StacksAgree /\ FramesFit /\ [TreeNext]_treeVars => DriveTypes
<1> SUFFICES ASSUME TreeTypeOK, StacksAgree, FramesFit, [TreeNext]_treeVars PROVE DriveTypes
  OBVIOUS
<1> USE DEF DriveTypes
<1>0. /\ pc \in [Ntf -> DriveStep] /\ starter \in [Ntf -> StarterStep] /\ owner \in [Ntf -> Instances]
      /\ item \in [Ntf -> Ntf] /\ attempt \in [Ntf -> 0..MaxRelaunch] /\ MaxRelaunch \in Nat
      /\ {"none", "turn0", "claim", "turn", "release", "pend", "outst", "output", "kick", "clean",
          "teardown", "dying"} \subseteq DriveStep
      /\ {"none", "create", "register"} \subseteq StarterStep
  BY BoundsAssumption DEF TreeTypeOK, DriveStep, InTry, StarterStep
<1>w. ASSUME NEW i, NEW l \in [Ntf -> DriveStep], Wakes(i, l) PROVE pc' \in [Ntf -> DriveStep]
  BY <1>w, <1>0 DEF Wakes

<1>1. ASSUME NEW s \in Ntf, NEW i \in Instances, start_subagent_task(i, s)
      PROVE  DriveTypes
  BY <1>1, <1>0 DEF start_subagent_task, Goto, drives, births
<1>2. ASSUME NEW s \in Ntf, create_subagent_task(s)
      PROVE  DriveTypes
  BY <1>2, <1>0 DEF create_subagent_task, Goto, drives, births
<1>3. ASSUME NEW s \in Ntf, register_driver(s)
      PROVE  DriveTypes
  BY <1>3, <1>0 DEF register_driver, Goto, drives, births
<1>4. ASSUME NEW s \in Ntf, initial_turn_ends(s)
      PROVE  DriveTypes
  BY <1>4, <1>0 DEF initial_turn_ends, Goto, drives, births
<1>5. ASSUME NEW s \in Ntf, claim_next_pending_notification(s)
      PROVE  DriveTypes
  BY <1>5, <1>0 DEF claim_next_pending_notification, Goto, drives, births, PendingFor
<1>6. ASSUME NEW s \in Ntf, notification_turn_ends(s)
      PROVE  DriveTypes
  BY <1>6, <1>0 DEF notification_turn_ends, Goto, drives, births
<1>7. ASSUME NEW s \in Ntf, release_notification(s)
      PROVE  DriveTypes
  BY <1>7, <1>0 DEF release_notification, Goto, drives, births
<1>8. ASSUME NEW s \in Ntf, settle_pending(s)
      PROVE  DriveTypes
  BY <1>8, <1>0 DEF settle_pending, Goto, drives, births
<1>9. ASSUME NEW s \in Ntf, settle_outstanding(s)
      PROVE  DriveTypes
  BY <1>9, <1>0 DEF settle_outstanding, Goto, drives, births
<1>10. ASSUME NEW s \in Ntf, complete_subagent(s)
      PROVE  DriveTypes
  BY <1>10, <1>0 DEF complete_subagent, Goto, drives, births
<1>11. ASSUME NEW s \in Ntf, resume_parent(s)
      PROVE  DriveTypes
  BY <1>11, <1>0, <1>w DEF resume_parent, births
<1>12. ASSUME NEW s \in Ntf, cleanup_subagent(s)
      PROVE  DriveTypes
  BY <1>12, <1>0 DEF cleanup_subagent, Goto, drives, births
<1>13. ASSUME NEW s \in Ntf, take_cancel(s)
      PROVE  DriveTypes
  BY <1>13, <1>0 DEF take_cancel, Goto, drives, births
<1>14. ASSUME NEW s \in Ntf, drive_aborts(s)
      PROVE  DriveTypes
  BY <1>14, <1>0 DEF drive_aborts, Goto, drives, births
<1>15. ASSUME NEW p \in Procs, teardown_resumes_parent(p)
      PROVE  DriveTypes
  BY <1>15, <1>0, <1>w DEF teardown_resumes_parent, births
<1>16. ASSUME NEW p \in Procs, teardown_cleans(p)
      PROVE  DriveTypes
  BY <1>16, <1>0 DEF teardown_cleans, Goto, drives, births
<1>17. CASE cancel_session_starters
  BY <1>17, <1>0 DEF cancel_session_starters, Goto, drives, births
<1>18. CASE backend_crash
  BY <1>18, <1>0 DEF backend_crash, Goto, drives, births
<1>19. ASSUME NEW s \in Ntf,
             root_takes(s) \/ cancel_subagent_task(s)
      PROVE  DriveTypes
  BY <1>19, <1>0 DEF root_takes, cancel_subagent_task, rows, drives, cancels, births, lifes
<1>20. ASSUME NEW p \in Procs,
             sweep_select(p) \/ sweep_flush(p) \/ cancel_notifications(p) \/
             match_children(p) \/ cancel_dormant(p) \/ finish_record(p)
      PROVE  DriveTypes
  BY <1>20, <1>0 DEF sweep_select, sweep_flush, cancel_notifications, match_children, cancel_dormant,
         finish_record, rows, drives, cancels, births, lifes
<1>21. ASSUME NEW p \in Procs, NEW c \in Ntf,
             stop_driver(p, c)
      PROVE  DriveTypes
  BY <1>21, <1>0 DEF stop_driver, rows, drives, cancels, births, lifes
<1>22. CASE tool_returns \/ tool_canceled \/ cancel_session_drivers \/ cancel_session_select
          \/ cancel_session_flush \/ reset_processing_notifications_all \/
          mark_stale_running_subagent_tasks_failed \/ cancel_stale_notifications \/
          UNCHANGED treeVars
  BY <1>22, <1>0 DEF tool_returns, tool_canceled, cancel_session_drivers, cancel_session_select,
         cancel_session_flush, reset_processing_notifications_all,
         mark_stale_running_subagent_tasks_failed, cancel_stale_notifications, treeVars,
         rows, drives, cancels, births, lifes
<1> QED BY <1>1, <1>2, <1>3, <1>4, <1>5, <1>6, <1>7, <1>8, <1>9, <1>10, <1>11, <1>12, <1>13, <1>14,
           <1>15, <1>16, <1>17, <1>18, <1>19, <1>20, <1>21, <1>22
        DEF TreeNext, Drive, TeardownStep, CancelAll, Startup

(* The stacks keep their types.                                             *)
LEMMA StackTypesStep ==
    TreeTypeOK /\ StacksAgree /\ FramesFit /\ [TreeNext]_treeVars => stack' \in [Procs -> Seq(Frames)]
<1> SUFFICES ASSUME TreeTypeOK, StacksAgree, FramesFit, [TreeNext]_treeVars PROVE stack' \in [Procs -> Seq(Frames)]
  OBVIOUS
<1>0. stack \in [Procs -> Seq(Frames)] /\ Ntf \subseteq Procs /\ "tool" \in Procs /\ "all" \in Procs
  BY DEF TreeTypeOK, Procs, Cancelers
<1>t. ASSUME NEW p, NEW l, NEW T, NEW D, Turns(p, l, T, D) PROVE stack' \in [Procs -> Seq(Frames)]
  BY <1>t DEF Turns, TopBecomes

<1>1. ASSUME NEW s \in Ntf, initial_turn_ends(s)
      PROVE  stack' \in [Procs -> Seq(Frames)]
  BY <1>1, StacksStart, <1>0 DEF Starts
<1>2. ASSUME NEW s \in Ntf, release_notification(s)
      PROVE  stack' \in [Procs -> Seq(Frames)]
  BY <1>2, StacksStart, <1>0 DEF Starts
<1>3. ASSUME NEW s \in Ntf, settle_pending(s)
      PROVE  stack' \in [Procs -> Seq(Frames)]
  BY <1>3, StacksStart, <1>0 DEF Starts
<1>4. ASSUME NEW s \in Ntf, take_cancel(s)
      PROVE  stack' \in [Procs -> Seq(Frames)]
  BY <1>4, StacksStart, <1>0 DEF Starts, Empties
<1>5. ASSUME NEW s \in Ntf, cancel_subagent_task(s)
      PROVE  stack' \in [Procs -> Seq(Frames)]
  BY <1>5, <1>0, StacksStart DEF Starts, StacksAgree, cancel_subagent_task
<1>6. ASSUME NEW p \in Procs, sweep_select(p), p = "all" => Len(stack[p]) > 1
      PROVE  stack' \in [Procs -> Seq(Frames)]
  BY <1>6, <1>t, TeardownTurns
<1>7. ASSUME NEW p \in Procs, sweep_flush(p), p = "all" => Len(stack[p]) > 1
      PROVE  stack' \in [Procs -> Seq(Frames)]
  BY <1>7, <1>t, TeardownTurns
<1>8. ASSUME NEW p \in Procs, cancel_notifications(p)
      PROVE  stack' \in [Procs -> Seq(Frames)]
  BY <1>8, <1>t, TeardownTurns
<1>9. ASSUME NEW p \in Procs, match_children(p)
      PROVE  stack' \in [Procs -> Seq(Frames)]
  BY <1>9, <1>t, TeardownTurns
<1>10. ASSUME NEW p \in Procs, NEW c \in Ntf, stop_driver(p, c)
      PROVE  stack' \in [Procs -> Seq(Frames)]
  <2>1. PICK D : Turns(p, "stop", Top(p).todo \ {c}, D)
    BY <1>10, TeardownTurns
  <2> QED BY <1>t, <2>1
<1>11. ASSUME NEW p \in Procs, cancel_dormant(p)
      PROVE  stack' \in [Procs -> Seq(Frames)]
  BY <1>11, <1>t, TeardownTurns, DormantPushed DEF Pushes
<1>12. ASSUME NEW p \in Procs, finish_record(p)
      PROVE  stack' \in [Procs -> Seq(Frames)]
  BY <1>12, <1>t, TeardownTurns
<1>13. ASSUME NEW p \in Procs, teardown_resumes_parent(p)
      PROVE  stack' \in [Procs -> Seq(Frames)]
  BY <1>13, <1>t, TeardownTurns
<1>14. ASSUME NEW p \in Procs, teardown_cleans(p)
      PROVE  stack' \in [Procs -> Seq(Frames)]
  BY <1>14, TopPopped DEF teardown_cleans, Steps
<1>15. CASE tool_canceled
  BY <1>15, StacksStart DEF Empties
<1>16. CASE cancel_session_drivers
  BY <1>16, StacksStart DEF Starts
<1>17. CASE cancel_session_select
  BY <1>17, <1>t, SelectTurns
<1>18. CASE cancel_session_flush
  BY <1>18, StacksStart DEF Empties
<1>19. CASE backend_crash
  BY <1>19, <1>0 DEF backend_crash
<1>20. ASSUME NEW s \in Ntf, NEW i \in Instances,
             start_subagent_task(i, s)
      PROVE  stack' \in [Procs -> Seq(Frames)]
  BY <1>20, <1>0 DEF start_subagent_task, rows, drives, cancels, births, lifes
<1>21. ASSUME NEW s \in Ntf,
             create_subagent_task(s) \/ register_driver(s) \/
             claim_next_pending_notification(s) \/ notification_turn_ends(s) \/
             settle_outstanding(s) \/ complete_subagent(s) \/ resume_parent(s) \/
             cleanup_subagent(s) \/ drive_aborts(s) \/ root_takes(s)
      PROVE  stack' \in [Procs -> Seq(Frames)]
  BY <1>21, <1>0 DEF create_subagent_task, register_driver, claim_next_pending_notification,
         notification_turn_ends, settle_outstanding, complete_subagent, resume_parent,
         cleanup_subagent, drive_aborts, root_takes, rows, drives, cancels, births, lifes
<1>22. CASE tool_returns \/ cancel_session_starters \/ reset_processing_notifications_all \/
          mark_stale_running_subagent_tasks_failed \/ cancel_stale_notifications \/
          UNCHANGED treeVars
  BY <1>22, <1>0 DEF tool_returns, cancel_session_starters, reset_processing_notifications_all,
         mark_stale_running_subagent_tasks_failed, cancel_stale_notifications, treeVars,
         rows, drives, cancels, births, lifes
<1> QED BY <1>1, <1>2, <1>3, <1>4, <1>5, <1>6, <1>7, <1>8, <1>9, <1>10, <1>11, <1>12, <1>13, <1>14,
           <1>15, <1>16, <1>17, <1>18, <1>19, <1>20, <1>21, <1>22
        DEF TreeNext, Drive, TeardownStep, CancelAll, Startup

(* The types of all the rest after the step.                                *)
CancelTypes ==
    /\ {reg', hit', stale', aborted'} \subseteq SUBSET Ntf
    /\ waits' \in [Procs -> SUBSET Ntf]
    /\ cpc' \in [Cancelers -> {"idle", "wait", "inner"}]
    /\ boot' \in {"up", "reset", "stale", "cancel"}
    /\ used' \in [cancels : 0..MaxCancels, alls : 0..MaxAlls, crashes : 0..MaxCrashes]

(* So does all the rest.                                                    *)
LEMMA CancelTypesStep ==
    TreeTypeOK /\ StacksAgree /\ FramesFit /\ [TreeNext]_treeVars => CancelTypes
<1> SUFFICES ASSUME TreeTypeOK, StacksAgree, FramesFit, [TreeNext]_treeVars PROVE CancelTypes
  OBVIOUS
<1> USE DEF CancelTypes
<1>0. /\ reg \in SUBSET Ntf /\ hit \in SUBSET Ntf /\ stale \in SUBSET Ntf /\ aborted \in SUBSET Ntf
      /\ waits \in [Procs -> SUBSET Ntf]
      /\ cpc \in [Cancelers -> {"idle", "wait", "inner"}]
      /\ boot \in {"up", "reset", "stale", "cancel"}
      /\ used \in [cancels : 0..MaxCancels, alls : 0..MaxAlls, crashes : 0..MaxCrashes]
      /\ MaxCancels \in Nat /\ MaxAlls \in Nat /\ MaxCrashes \in Nat
      /\ Ntf \subseteq Procs \ {"all"} /\ "tool" \in Procs \ {"all"} /\ "all" \in Procs
      /\ "tool" \in Cancelers /\ "all" \in Cancelers
  BY NamesAssumption, BoundsAssumption DEF TreeTypeOK, Procs, Cancelers
<1>r. ASSUME NEW p \in Procs \ {"all"} PROVE \A n \in DOMAIN stack[p] : stack[p][n].run \in Ntf
  BY <1>r, StackShape, TreeAssumption DEF FramesFit, FrameFits, Frames

<1>1. ASSUME NEW s \in Ntf, register_driver(s)
      PROVE  CancelTypes
  BY <1>1, <1>0 DEF register_driver, Goto, lifes, cancels
<1>2. ASSUME NEW s \in Ntf, settle_outstanding(s)
      PROVE  CancelTypes
  BY <1>2, <1>0 DEF settle_outstanding, Goto, lifes, cancels
<1>3. ASSUME NEW s \in Ntf, cleanup_subagent(s)
      PROVE  CancelTypes
  BY <1>3, <1>0 DEF cleanup_subagent, Goto, lifes, cancels
<1>4. ASSUME NEW s \in Ntf, take_cancel(s)
      PROVE  CancelTypes
  <2>2. {stack[s][n].run : n \in DOMAIN stack[s]} \subseteq Ntf
    BY <1>r, <1>0
  <2> QED BY <1>4, <2>2, <1>0 DEF take_cancel, lifes, cancels
<1>5. ASSUME NEW s \in Ntf, drive_aborts(s)
      PROVE  CancelTypes
  BY <1>5, <1>0 DEF drive_aborts, Goto, lifes, cancels
<1>6. ASSUME NEW s \in Ntf, cancel_subagent_task(s)
      PROVE  CancelTypes
  BY <1>6, <1>0 DEF cancel_subagent_task, Goto, lifes, cancels
<1>7. ASSUME NEW p \in Procs, NEW c \in Ntf, stop_driver(p, c)
      PROVE  CancelTypes
  BY <1>7, <1>0 DEF stop_driver, Goto, lifes, cancels
<1>8. ASSUME NEW p \in Procs, teardown_cleans(p)
      PROVE  CancelTypes
  BY <1>8, <1>0 DEF teardown_cleans, Goto, lifes
<1>9. CASE tool_returns
  BY <1>9, <1>0 DEF tool_returns, Goto, lifes, cancels
<1>10. CASE tool_canceled
  <2>2. {stack["tool"][n].run : n \in DOMAIN stack["tool"]} \subseteq Ntf
    BY <1>r, <1>0
  <2> QED BY <1>10, <2>2, <1>0 DEF tool_canceled
<1>11. CASE cancel_session_starters
  BY <1>11, <1>0 DEF cancel_session_starters, Goto, lifes, cancels
<1>12. CASE cancel_session_drivers
  BY <1>12, <1>0 DEF cancel_session_drivers, Goto, lifes, cancels
<1>13. CASE cancel_session_flush
  BY <1>13, <1>0 DEF cancel_session_flush, Goto, lifes, cancels
<1>14. CASE backend_crash
  BY <1>14, <1>0 DEF backend_crash, Goto, lifes, cancels
<1>15. CASE reset_processing_notifications_all
  BY <1>15, <1>0 DEF reset_processing_notifications_all, cancels
<1>16. CASE mark_stale_running_subagent_tasks_failed
  BY <1>16, <1>0 DEF mark_stale_running_subagent_tasks_failed, cancels
<1>17. CASE cancel_stale_notifications
  BY <1>17, <1>0 DEF cancel_stale_notifications, cancels
<1>18. ASSUME NEW s \in Ntf, NEW i \in Instances,
             start_subagent_task(i, s)
      PROVE  CancelTypes
  BY <1>18, <1>0 DEF start_subagent_task, rows, drives, cancels, births, lifes
<1>19. ASSUME NEW s \in Ntf,
             create_subagent_task(s) \/ initial_turn_ends(s) \/
             claim_next_pending_notification(s) \/ notification_turn_ends(s) \/
             release_notification(s) \/ settle_pending(s) \/ complete_subagent(s) \/
             resume_parent(s) \/ root_takes(s)
      PROVE  CancelTypes
  BY <1>19, <1>0 DEF create_subagent_task, initial_turn_ends, claim_next_pending_notification,
         notification_turn_ends, release_notification, settle_pending, complete_subagent,
         resume_parent, root_takes, rows, drives, cancels, births, lifes
<1>20. ASSUME NEW p \in Procs,
             sweep_select(p) \/ sweep_flush(p) \/ cancel_notifications(p) \/
             match_children(p) \/ cancel_dormant(p) \/ finish_record(p) \/
             teardown_resumes_parent(p)
      PROVE  CancelTypes
  BY <1>20, <1>0 DEF sweep_select, sweep_flush, cancel_notifications, match_children, cancel_dormant,
         finish_record, teardown_resumes_parent, rows, drives, cancels, births, lifes
<1>21. CASE cancel_session_select \/ UNCHANGED treeVars
  BY <1>21, <1>0 DEF cancel_session_select, treeVars, rows, drives, cancels, births, lifes
<1> QED BY <1>1, <1>2, <1>3, <1>4, <1>5, <1>6, <1>7, <1>8, <1>9, <1>10, <1>11, <1>12, <1>13, <1>14,
           <1>15, <1>16, <1>17, <1>18, <1>19, <1>20, <1>21
        DEF TreeNext, Drive, TeardownStep, CancelAll, Startup

(* Types, together.                                                         *)
LEMMA TreeTypesStep ==
    TreeTypeOK /\ StacksAgree /\ FramesFit /\ [TreeNext]_treeVars => TreeTypeOK'
BY RowTypesStep, DriveTypesStep, StackTypesStep, CancelTypesStep
DEF TreeTypeOK, DriveTypes, CancelTypes

(* The obligation of a run follows its task row, whoever writes them.       *)
LEMMA ObligationStep ==
    TreeTypeOK /\ ObligationFollowsTask /\ [TreeNext]_treeVars => ObligationFollowsTask'
<1> SUFFICES ASSUME TreeTypeOK, ObligationFollowsTask, [TreeNext]_treeVars PROVE ObligationFollowsTask'
  OBVIOUS
<1>0. row \in [Ntf -> Rows] /\ task \in [Ntf -> TaskStatus] /\ item \in [Ntf -> Ntf]
  BY DEF TreeTypeOK
<1>f. ASSUME NEW s, NEW h \in {"completed", "failed", "canceled"}, FinishTask(s, h) PROVE ObligationFollowsTask'
  BY <1>f, <1>0 DEF FinishTask, rows, ObligationFollowsTask, Resolved, Rows
<1>w. ASSUME NEW S, SweepRows(S) PROVE ObligationFollowsTask'
  BY <1>w, <1>0 DEF SweepRows, ObligationFollowsTask, Resolved, Rows

<1>1. ASSUME NEW s \in Ntf, create_subagent_task(s)
      PROVE  ObligationFollowsTask'
  BY <1>1, <1>0 DEF create_subagent_task, ObligationFollowsTask, Rows, Claimed, Finished, Released, Resolved,
         Cancelled, Reset, NewObligation, PendingFor
<1>2. ASSUME NEW s \in Ntf, claim_next_pending_notification(s)
      PROVE  ObligationFollowsTask'
  <2>1. \/ UNCHANGED rows
        \/ task' = task /\ \E n \in Ntf : row[n].status = "pending" /\ row' = [row EXCEPT ![n] = Claimed(row[n])]
    BY <1>2, <1>0 DEF claim_next_pending_notification, PendingFor, rows
  <2>2. ASSUME NEW n \in Ntf, row[n].status = "pending", task' = task, row' = [row EXCEPT ![n] = Claimed(row[n])]
        PROVE  ObligationFollowsTask'
    <3>1. Claimed(row[n]).status = "processing" /\ task[n] # "running"
      BY <1>0, <2>2 DEF Claimed, Rows, ObligationFollowsTask
    <3> QED BY <1>0, <2>2, <3>1 DEF ObligationFollowsTask
  <2> QED BY <2>1, <2>2 DEF rows, ObligationFollowsTask
<1>3. ASSUME NEW s \in Ntf, notification_turn_ends(s)
      PROVE  ObligationFollowsTask'
  BY <1>3, <1>0 DEF notification_turn_ends, ObligationFollowsTask, Rows, Claimed, Finished, Released, Resolved,
         Cancelled, Reset, NewObligation, PendingFor
<1>4. ASSUME NEW s \in Ntf, release_notification(s)
      PROVE  ObligationFollowsTask'
  BY <1>4, <1>0 DEF release_notification, ObligationFollowsTask, Rows, Claimed, Finished, Released, Resolved,
         Cancelled, Reset, NewObligation, PendingFor
<1>5. ASSUME NEW s \in Ntf, complete_subagent(s)
      PROVE  ObligationFollowsTask'
  BY <1>5, <1>f DEF complete_subagent
<1>6. ASSUME NEW s \in Ntf, root_takes(s)
      PROVE  ObligationFollowsTask'
  BY <1>6, <1>0 DEF root_takes, ObligationFollowsTask, Rows, Claimed, Finished, Released, Resolved,
         Cancelled, Reset, NewObligation, PendingFor
<1>7. ASSUME NEW s \in Ntf, cancel_subagent_task(s)
      PROVE  ObligationFollowsTask'
  BY <1>7, <1>0, <1>f DEF cancel_subagent_task, rows, ObligationFollowsTask
<1>8. ASSUME NEW p \in Procs, sweep_flush(p), p = "all" => Len(stack[p]) > 1
      PROVE  ObligationFollowsTask'
  BY <1>8, <1>w DEF sweep_flush
<1>9. ASSUME NEW p \in Procs, cancel_notifications(p)
      PROVE  ObligationFollowsTask'
  BY <1>9, <1>0 DEF cancel_notifications, ObligationFollowsTask, Rows, Claimed, Finished, Released, Resolved,
         Cancelled, Reset, NewObligation, PendingFor
<1>10. ASSUME NEW p \in Procs, finish_record(p)
      PROVE  ObligationFollowsTask'
  <2>1. Top(p) \in Frames /\ Top(p).how \in {"canceled", "failed"}
    BY <1>10, StackShape DEF finish_record, Steps, Frames
  <2> QED BY <1>10, <1>f, <2>1 DEF finish_record
<1>11. CASE cancel_session_flush
  BY <1>11, <1>w DEF cancel_session_flush
<1>12. CASE reset_processing_notifications_all
  BY <1>12, <1>0 DEF reset_processing_notifications_all, ObligationFollowsTask, Rows, Claimed, Finished, Released, Resolved,
         Cancelled, Reset, NewObligation, PendingFor
<1>13. CASE mark_stale_running_subagent_tasks_failed
  BY <1>13, <1>0 DEF mark_stale_running_subagent_tasks_failed, ObligationFollowsTask, Rows, Claimed, Finished, Released, Resolved,
         Cancelled, Reset, NewObligation, PendingFor
<1>14. CASE cancel_stale_notifications
  BY <1>14, <1>0 DEF cancel_stale_notifications, ObligationFollowsTask, Rows, Claimed, Finished, Released, Resolved,
         Cancelled, Reset, NewObligation, PendingFor
<1>15. ASSUME NEW s \in Ntf, NEW i \in Instances,
             start_subagent_task(i, s)
      PROVE  ObligationFollowsTask'
  BY <1>15, <1>0 DEF start_subagent_task, rows, drives, cancels, births, lifes, ObligationFollowsTask
<1>16. ASSUME NEW s \in Ntf,
             register_driver(s) \/ initial_turn_ends(s) \/ settle_pending(s) \/
             settle_outstanding(s) \/ resume_parent(s) \/ cleanup_subagent(s) \/
             take_cancel(s) \/ drive_aborts(s)
      PROVE  ObligationFollowsTask'
  BY <1>16, <1>0 DEF register_driver, initial_turn_ends, settle_pending, settle_outstanding,
         resume_parent, cleanup_subagent, take_cancel, drive_aborts, rows, drives,
         cancels, births, lifes, ObligationFollowsTask
<1>17. ASSUME NEW p \in Procs,
             sweep_select(p) \/ match_children(p) \/ cancel_dormant(p) \/
             teardown_resumes_parent(p) \/ teardown_cleans(p)
      PROVE  ObligationFollowsTask'
  BY <1>17, <1>0 DEF sweep_select, match_children, cancel_dormant, teardown_resumes_parent,
         teardown_cleans, rows, drives, cancels, births, lifes, ObligationFollowsTask
<1>18. ASSUME NEW p \in Procs, NEW c \in Ntf,
             stop_driver(p, c)
      PROVE  ObligationFollowsTask'
  BY <1>18, <1>0 DEF stop_driver, rows, drives, cancels, births, lifes, ObligationFollowsTask
<1>19. CASE tool_returns \/ tool_canceled \/ cancel_session_starters \/
          cancel_session_drivers \/ cancel_session_select \/ backend_crash \/ UNCHANGED
          treeVars
  BY <1>19, <1>0 DEF tool_returns, tool_canceled, cancel_session_starters, cancel_session_drivers,
         cancel_session_select, backend_crash, treeVars, rows, drives, cancels, births,
         lifes, ObligationFollowsTask
<1> QED BY <1>1, <1>2, <1>3, <1>4, <1>5, <1>6, <1>7, <1>8, <1>9, <1>10, <1>11, <1>12, <1>13, <1>14,
           <1>15, <1>16, <1>17, <1>18, <1>19
        DEF TreeNext, Drive, TeardownStep, CancelAll, Startup

(* The startup is alone until it is over.                                   *)
LEMMA StartupStep ==
    TreeTypeOK /\ StartupAlone /\ [TreeNext]_treeVars => StartupAlone'
<1> SUFFICES ASSUME TreeTypeOK, StartupAlone, [TreeNext]_treeVars PROVE StartupAlone'
  OBVIOUS
<1>e. ASSUME Up, boot' = boot PROVE StartupAlone'
  BY <1>e DEF StartupAlone, Up
<1> USE DEF Steps, Runs, Turning

<1>1. CASE backend_crash
  BY <1>1 DEF backend_crash, StartupAlone, Up, Procs, Cancelers
<1>2. CASE reset_processing_notifications_all
  BY <1>2 DEF reset_processing_notifications_all, StartupAlone, Up, TreeTypeOK, TaskStatus, drives, cancels, births
<1>3. CASE mark_stale_running_subagent_tasks_failed
  BY <1>3 DEF mark_stale_running_subagent_tasks_failed, StartupAlone, Up, TreeTypeOK, TaskStatus, drives, cancels, births
<1>4. CASE cancel_stale_notifications
  BY <1>4 DEF cancel_stale_notifications, StartupAlone, Up, TreeTypeOK, TaskStatus, drives, cancels, births
<1>5. CASE UNCHANGED treeVars
  BY <1>5 DEF treeVars, rows, drives, cancels, births, lifes, StartupAlone, Up
<1>6. ASSUME NEW s \in Ntf, NEW i \in Instances,
             start_subagent_task(i, s)
      PROVE  StartupAlone'
  BY <1>6, <1>e DEF start_subagent_task, rows, drives, cancels, births, lifes
<1>7. ASSUME NEW s \in Ntf,
             create_subagent_task(s) \/ register_driver(s) \/ initial_turn_ends(s) \/
             claim_next_pending_notification(s) \/ notification_turn_ends(s) \/
             release_notification(s) \/ settle_pending(s) \/ settle_outstanding(s) \/
             complete_subagent(s) \/ resume_parent(s) \/ cleanup_subagent(s) \/
             take_cancel(s) \/ drive_aborts(s) \/ root_takes(s) \/ cancel_subagent_task(s)
      PROVE  StartupAlone'
  BY <1>7, <1>e DEF create_subagent_task, register_driver, initial_turn_ends,
         claim_next_pending_notification, notification_turn_ends, release_notification,
         settle_pending, settle_outstanding, complete_subagent, resume_parent,
         cleanup_subagent, take_cancel, drive_aborts, root_takes, cancel_subagent_task,
         rows, drives, cancels, births, lifes
<1>8. ASSUME NEW p \in Procs,
             sweep_select(p) \/ sweep_flush(p) \/ cancel_notifications(p) \/
             match_children(p) \/ cancel_dormant(p) \/ finish_record(p) \/
             teardown_resumes_parent(p) \/ teardown_cleans(p)
      PROVE  StartupAlone'
  BY <1>8, <1>e DEF sweep_select, sweep_flush, cancel_notifications, match_children, cancel_dormant,
         finish_record, teardown_resumes_parent, teardown_cleans, rows, drives, cancels,
         births, lifes
<1>9. ASSUME NEW p \in Procs, NEW c \in Ntf,
             stop_driver(p, c)
      PROVE  StartupAlone'
  BY <1>9, <1>e DEF stop_driver, rows, drives, cancels, births, lifes
<1>10. CASE tool_returns \/ tool_canceled \/ cancel_session_starters \/
          cancel_session_drivers \/ cancel_session_select \/ cancel_session_flush
  BY <1>10, <1>e DEF tool_returns, tool_canceled, cancel_session_starters, cancel_session_drivers,
         cancel_session_select, cancel_session_flush, rows, drives, cancels, births,
         lifes
<1> QED BY <1>1, <1>2, <1>3, <1>4, <1>5, <1>6, <1>7, <1>8, <1>9, <1>10
        DEF TreeNext, Drive, TeardownStep, CancelAll, Startup

(* What a step may do to a task row: create it, or end it.                  *)
TaskMoves(s) ==
    \/ task'[s] = task[s]
    \/ create_subagent_task(s) /\ task'[s] = "running"
    \/ task[s] = "running" /\ complete_subagent(s) /\ task'[s] = "completed"
    \/ Known(s) /\ task'[s] \in {"failed", "canceled"}

(* No step does anything else to a task row.                                *)
LEMMA TaskStep ==
    ASSUME TreeTypeOK, FramesFit, [TreeNext]_treeVars
    PROVE  \A s \in Ntf : TaskMoves(s)
<1> SUFFICES ASSUME NEW r \in Ntf PROVE TaskMoves(r)
  OBVIOUS
<1>0. task \in [Ntf -> TaskStatus]
  BY DEF TreeTypeOK
<1>e. task'[r] = task[r] => TaskMoves(r)
  BY DEF TaskMoves
<1>f. ASSUME NEW s, NEW h \in {"failed", "canceled"}, FinishTask(s, h) PROVE TaskMoves(r)
  BY <1>f, <1>0 DEF FinishTask, rows, TaskMoves, Known
<1>w. ASSUME NEW S, SweepRows(S), \A c \in S : Known(c) PROVE TaskMoves(r)
  BY <1>w, <1>0 DEF SweepRows, TaskMoves
<1>t. ASSUME NEW p \in Procs, stack[p] # <<>> PROVE Top(p).how \in {"failed", "canceled"} /\ \A c \in Top(p).todo : Known(c)
  BY <1>t, StackShape DEF Top, FramesFit, FrameFits, Frames

<1>1. ASSUME NEW s \in Ntf, create_subagent_task(s)
      PROVE  TaskMoves(r)
  BY <1>1, <1>0 DEF create_subagent_task, TaskMoves
<1>2. ASSUME NEW s \in Ntf, complete_subagent(s)
      PROVE  TaskMoves(r)
  BY <1>2, <1>0 DEF complete_subagent, FinishTask, rows, TaskMoves
<1>3. ASSUME NEW s \in Ntf, cancel_subagent_task(s)
      PROVE  TaskMoves(r)
  BY <1>3, <1>e, <1>f DEF cancel_subagent_task, rows
<1>4. ASSUME NEW p \in Procs, sweep_flush(p), p = "all" => Len(stack[p]) > 1
      PROVE  TaskMoves(r)
  BY <1>4, <1>t, <1>w DEF sweep_flush, Steps
<1>5. ASSUME NEW p \in Procs, finish_record(p)
      PROVE  TaskMoves(r)
  BY <1>5, <1>t, <1>f DEF finish_record, Steps
<1>6. CASE cancel_session_flush
  <2>1. "all" \in Procs /\ stack["all"] # <<>>
    BY <1>6, StackShape DEF cancel_session_flush, Procs, Cancelers
  <2> QED BY <1>6, <2>1, <1>t, <1>w DEF cancel_session_flush
<1>7. CASE mark_stale_running_subagent_tasks_failed
  BY <1>7, <1>0 DEF mark_stale_running_subagent_tasks_failed, TaskMoves, Known
<1>8. ASSUME NEW s \in Ntf, NEW i \in Instances,
             start_subagent_task(i, s)
      PROVE  TaskMoves(r)
  BY <1>8, <1>e DEF start_subagent_task, rows, drives, cancels, births, lifes
<1>9. ASSUME NEW s \in Ntf,
             register_driver(s) \/ initial_turn_ends(s) \/ claim_next_pending_notification(s)
             \/ notification_turn_ends(s) \/ release_notification(s) \/ settle_pending(s) \/
             settle_outstanding(s) \/ resume_parent(s) \/ cleanup_subagent(s) \/
             take_cancel(s) \/ drive_aborts(s) \/ root_takes(s)
      PROVE  TaskMoves(r)
  BY <1>9, <1>e DEF register_driver, initial_turn_ends, claim_next_pending_notification,
         notification_turn_ends, release_notification, settle_pending,
         settle_outstanding, resume_parent, cleanup_subagent, take_cancel, drive_aborts,
         root_takes, rows, drives, cancels, births, lifes
<1>10. ASSUME NEW p \in Procs,
             sweep_select(p) \/ cancel_notifications(p) \/ match_children(p) \/
             cancel_dormant(p) \/ teardown_resumes_parent(p) \/ teardown_cleans(p)
      PROVE  TaskMoves(r)
  BY <1>10, <1>e DEF sweep_select, cancel_notifications, match_children, cancel_dormant,
         teardown_resumes_parent, teardown_cleans, rows, drives, cancels, births, lifes
<1>11. ASSUME NEW p \in Procs, NEW c \in Ntf,
             stop_driver(p, c)
      PROVE  TaskMoves(r)
  BY <1>11, <1>e DEF stop_driver, rows, drives, cancels, births, lifes
<1>12. CASE tool_returns \/ tool_canceled \/ cancel_session_starters \/
          cancel_session_drivers \/ cancel_session_select \/ backend_crash \/
          reset_processing_notifications_all \/ cancel_stale_notifications \/ UNCHANGED
          treeVars
  BY <1>12, <1>e DEF tool_returns, tool_canceled, cancel_session_starters, cancel_session_drivers,
         cancel_session_select, backend_crash, reset_processing_notifications_all,
         cancel_stale_notifications, treeVars, rows, drives, cancels, births, lifes
<1> QED BY <1>1, <1>2, <1>3, <1>4, <1>5, <1>6, <1>7, <1>8, <1>9, <1>10, <1>11, <1>12
        DEF TreeNext, Drive, TeardownStep, CancelAll, Startup

(* What a step may do to an obligation: create it with its task row, or     *)
(* change its status for another that is not AWAITING.                      *)
RowMoves(n) ==
    \/ row'[n] = row[n]
    \/ create_subagent_task(n) /\ row'[n] = NewObligation("subagent_finished", owner[n], 0)
    \/ row[n].status # "absent" /\ row'[n].to = row[n].to /\ row'[n].status \notin {"absent", "awaiting"}

(* No step does anything else to an obligation.                             *)
LEMMA RowStep ==
    ASSUME TreeTypeOK, [TreeNext]_treeVars
    PROVE  \A n \in Ntf : RowMoves(n)
<1> SUFFICES ASSUME NEW r \in Ntf PROVE RowMoves(r)
  OBVIOUS
<1>0. row \in [Ntf -> Rows]
  BY DEF TreeTypeOK
<1>e. row'[r] = row[r] => RowMoves(r)
  BY DEF RowMoves
<1>o. \/ row'[r] = Resolved(row[r], TRUE) \/ row'[r] = Resolved(row[r], FALSE)
      \/ row'[r] = Claimed(row[r]) \/ row'[r] = Released(row[r]) \/ row'[r] = Reset(row[r])
      \/ \E h \in {"completed", "failed"} : row'[r] = Finished(row[r], h)
      \/ (row'[r] = Cancelled(row[r]) /\ row[r].status # "absent")
      \/ row'[r] = Finished(Claimed(row[r]), "completed")
      => RowMoves(r)
  BY <1>0 DEF RowMoves, Resolved, Claimed, Released, Reset, Finished, Cancelled, Rows
<1>f. ASSUME NEW s, NEW h, FinishTask(s, h) PROVE RowMoves(r)
  <2>1. \/ row'[r] = row[r] \/ row'[r] = Resolved(row[r], TRUE) \/ row'[r] = Resolved(row[r], FALSE)
    BY <1>f, <1>0 DEF FinishTask, rows
  <2> QED BY <2>1, <1>e, <1>o
<1>w. ASSUME NEW S, SweepRows(S) PROVE RowMoves(r)
  <2>1. row'[r] = row[r] \/ row'[r] = Resolved(row[r], FALSE)
    BY <1>w, <1>0 DEF SweepRows
  <2> QED BY <2>1, <1>e, <1>o

<1>1. ASSUME NEW s \in Ntf, create_subagent_task(s)
      PROVE  RowMoves(r)
  BY <1>1, <1>0 DEF create_subagent_task, RowMoves
<1>2. ASSUME NEW s \in Ntf, claim_next_pending_notification(s)
      PROVE  RowMoves(r)
  <2>1. row'[r] = row[r] \/ row'[r] = Claimed(row[r])
    BY <1>2, <1>0 DEF claim_next_pending_notification, OutstandingFor, Outstanding
  <2> QED BY <2>1, <1>e, <1>o
<1>3. ASSUME NEW s \in Ntf, notification_turn_ends(s)
      PROVE  RowMoves(r)
  <2>1. row'[r] = row[r] \/ (\E h \in {"completed", "failed"} : row'[r] = Finished(row[r], h))
    BY <1>3, <1>0 DEF notification_turn_ends, OutstandingFor, Outstanding
  <2> QED BY <2>1, <1>e, <1>o
<1>4. ASSUME NEW s \in Ntf, release_notification(s)
      PROVE  RowMoves(r)
  <2>1. row'[r] = row[r] \/ row'[r] = Released(row[r])
    BY <1>4, <1>0 DEF release_notification, OutstandingFor, Outstanding
  <2> QED BY <2>1, <1>e, <1>o
<1>5. ASSUME NEW s \in Ntf, complete_subagent(s)
      PROVE  RowMoves(r)
  BY <1>5, <1>f DEF complete_subagent
<1>6. ASSUME NEW s \in Ntf, root_takes(s)
      PROVE  RowMoves(r)
  <2>1. row'[r] = row[r] \/ row'[r] = Finished(Claimed(row[r]), "completed")
    BY <1>6, <1>0 DEF root_takes, OutstandingFor, Outstanding
  <2> QED BY <2>1, <1>e, <1>o
<1>7. ASSUME NEW s \in Ntf, cancel_subagent_task(s)
      PROVE  RowMoves(r)
  BY <1>7, <1>e, <1>f DEF cancel_subagent_task, rows
<1>8. ASSUME NEW p \in Procs, sweep_flush(p), p = "all" => Len(stack[p]) > 1
      PROVE  RowMoves(r)
  BY <1>8, <1>w DEF sweep_flush
<1>9. ASSUME NEW p \in Procs, cancel_notifications(p)
      PROVE  RowMoves(r)
  <2>1. row'[r] = row[r] \/ (row'[r] = Cancelled(row[r]) /\ row[r].status # "absent")
    BY <1>9, <1>0 DEF cancel_notifications, OutstandingFor, Outstanding
  <2> QED BY <2>1, <1>e, <1>o
<1>10. ASSUME NEW p \in Procs, finish_record(p)
      PROVE  RowMoves(r)
  BY <1>10, <1>f DEF finish_record
<1>11. CASE cancel_session_flush
  BY <1>11, <1>w DEF cancel_session_flush
<1>12. CASE reset_processing_notifications_all
  <2>1. row'[r] = row[r] \/ row'[r] = Reset(row[r])
    BY <1>12, <1>0 DEF reset_processing_notifications_all, OutstandingFor, Outstanding
  <2> QED BY <2>1, <1>e, <1>o
<1>13. CASE mark_stale_running_subagent_tasks_failed
  <2>1. row'[r] = row[r] \/ row'[r] = Resolved(row[r], TRUE)
    BY <1>13, <1>0 DEF mark_stale_running_subagent_tasks_failed, OutstandingFor, Outstanding
  <2> QED BY <2>1, <1>e, <1>o
<1>14. CASE cancel_stale_notifications
  <2>1. row'[r] = row[r] \/ (row'[r] = Cancelled(row[r]) /\ row[r].status # "absent")
    BY <1>14, <1>0 DEF cancel_stale_notifications, OutstandingFor, Outstanding
  <2> QED BY <2>1, <1>e, <1>o
<1>15. ASSUME NEW s \in Ntf, NEW i \in Instances,
             start_subagent_task(i, s)
      PROVE  RowMoves(r)
  BY <1>15, <1>e DEF start_subagent_task, rows, drives, cancels, births, lifes
<1>16. ASSUME NEW s \in Ntf,
             register_driver(s) \/ initial_turn_ends(s) \/ settle_pending(s) \/
             settle_outstanding(s) \/ resume_parent(s) \/ cleanup_subagent(s) \/
             take_cancel(s) \/ drive_aborts(s)
      PROVE  RowMoves(r)
  BY <1>16, <1>e DEF register_driver, initial_turn_ends, settle_pending, settle_outstanding,
         resume_parent, cleanup_subagent, take_cancel, drive_aborts, rows, drives,
         cancels, births, lifes
<1>17. ASSUME NEW p \in Procs,
             sweep_select(p) \/ match_children(p) \/ cancel_dormant(p) \/
             teardown_resumes_parent(p) \/ teardown_cleans(p)
      PROVE  RowMoves(r)
  BY <1>17, <1>e DEF sweep_select, match_children, cancel_dormant, teardown_resumes_parent,
         teardown_cleans, rows, drives, cancels, births, lifes
<1>18. ASSUME NEW p \in Procs, NEW c \in Ntf,
             stop_driver(p, c)
      PROVE  RowMoves(r)
  BY <1>18, <1>e DEF stop_driver, rows, drives, cancels, births, lifes
<1>19. CASE tool_returns \/ tool_canceled \/ cancel_session_starters \/
          cancel_session_drivers \/ cancel_session_select \/ backend_crash \/ UNCHANGED
          treeVars
  BY <1>19, <1>e DEF tool_returns, tool_canceled, cancel_session_starters, cancel_session_drivers,
         cancel_session_select, backend_crash, treeVars, rows, drives, cancels, births,
         lifes
<1> QED BY <1>1, <1>2, <1>3, <1>4, <1>5, <1>6, <1>7, <1>8, <1>9, <1>10, <1>11, <1>12, <1>13, <1>14,
           <1>15, <1>16, <1>17, <1>18, <1>19
        DEF TreeNext, Drive, TeardownStep, CancelAll, Startup

(* What is known stays known, and what has ended does not run again.        *)
LEMMA KnownStays ==
    ASSUME TreeTypeOK, FramesFit, StartersApart, [TreeNext]_treeVars, NEW s \in Ntf, Known(s)
    PROVE  Known(s)' /\ (task'[s] = "running" => task[s] = "running")
<1>1. TaskMoves(s)
  BY TaskStep
<1>2. ~create_subagent_task(s)
  BY DEF create_subagent_task, StartersApart
<1> QED BY <1>1, <1>2 DEF TaskMoves, Known

(* A step names only runs that are known.                                   *)
LEMMA KnownFirstStep ==
    ASSUME TreeTypeOK, StartupAlone, Lineage, AwaitedLive, StacksAgree, FramesFit,
           [TreeNext]_treeVars
    PROVE  KnownFirst'
<1>a. /\ reg \in SUBSET Ntf /\ aborted \in SUBSET Ntf /\ owner \in [Ntf -> Instances]
      /\ pc \in [Ntf -> DriveStep] /\ Ntf \subseteq Procs \ {"all"} /\ "tool" \in Procs \ {"all"}
  BY NamesAssumption DEF TreeTypeOK, Procs, Cancelers
<1>k. \A s \in Ntf : Known(s) => task'[s] # "absent"
  BY KnownStays DEF Lineage, Known
<1>e. ASSUME reg' \subseteq reg, aborted' \subseteq aborted,
             \A s \in Ntf : pc'[s] = pc[s] \/ pc[s] # "none" \/ s \in reg \/ pc'[s] = "none"
      PROVE  KnownFirst'
  BY <1>a, <1>k, <1>e DEF Lineage, KnownFirst, Known
<1>g. ASSUME reg' = reg, \A r \in aborted' : r \in Ntf /\ Known(r),
             \A s \in Ntf : pc'[s] = pc[s] \/ pc[s] # "none"
      PROVE  KnownFirst'
  <2>1. \A s \in reg' \cup aborted' : Known(s) /\ s \in Ntf
    BY <1>a, <1>g DEF Lineage, KnownFirst
  <2>2. \A s \in Ntf : pc'[s] # "none" => Known(s)
    BY <1>a, <1>g DEF Lineage, KnownFirst
  <2> QED BY <2>1, <2>2, <1>k DEF KnownFirst, Known
<1>r. ASSUME NEW p \in Procs \ {"all"}
      PROVE  \A n \in DOMAIN stack[p] : stack[p][n].run \in Ntf /\ Known(stack[p][n].run)
  BY <1>r, StackShape, TreeAssumption DEF FramesFit, FrameFits, Frames
<1>w. ASSUME NEW i, NEW l, Wakes(i, l), l \in [Ntf -> DriveStep], i \in Instances
      PROVE  \A s \in Ntf : pc'[s] = l[s] \/ s \in reg
  BY <1>w DEF Wakes

<1>1. ASSUME NEW s \in Ntf, register_driver(s)
      PROVE  KnownFirst'
  BY <1>1, <1>a, <1>k DEF register_driver, Goto, lifes, Lineage, KnownFirst, StartersApart, Known
<1>2. ASSUME NEW s \in Ntf, resume_parent(s)
      PROVE  KnownFirst'
  <2>1. \A q \in Ntf : pc'[q] = pc[q] \/ q = s \/ q \in reg
    BY <1>2, <1>a DEF resume_parent, Wakes
  <2> QED BY <1>2, <2>1, <1>e, <1>a DEF resume_parent, Runs, lifes
<1>3. ASSUME NEW s \in Ntf, cleanup_subagent(s)
      PROVE  KnownFirst'
  BY <1>3, <1>a, <1>e DEF cleanup_subagent, Goto, lifes
<1>4. ASSUME NEW s \in Ntf, take_cancel(s)
      PROVE  KnownFirst'
  <2>1. pc[s] # "none"
    BY <1>4 DEF take_cancel, AwaitedLive, Live
  <2>2. aborted' \subseteq aborted \cup {stack[s][n].run : n \in DOMAIN stack[s]}
    BY <1>4 DEF take_cancel
  <2>3. \A r \in aborted' : r \in Ntf /\ Known(r)
    BY <2>2, <1>a, <1>r DEF Lineage, KnownFirst
  <2> QED BY <1>4, <2>1, <2>3, <1>a, <1>g DEF take_cancel, Goto
<1>5. ASSUME NEW p \in Procs, teardown_resumes_parent(p)
      PROVE  KnownFirst'
  <2>1. \A q \in Ntf : pc'[q] = pc[q] \/ q \in reg
    BY <1>5, <1>a DEF teardown_resumes_parent, Wakes
  <2> QED BY <1>5, <2>1, <1>e DEF teardown_resumes_parent, lifes
<1>6. ASSUME NEW p \in Procs, teardown_cleans(p)
      PROVE  KnownFirst'
  BY <1>6, <1>a, <1>e DEF teardown_cleans, Goto, lifes
<1>7. CASE tool_canceled
  <2>1. \A r \in aborted' : r \in Ntf /\ Known(r)
    BY <1>7, <1>a, <1>r DEF tool_canceled, Lineage, KnownFirst
  <2> QED BY <1>7, <2>1, <1>a, <1>g DEF tool_canceled, drives
<1>8. CASE backend_crash
  BY <1>8, <1>a, <1>e DEF backend_crash
<1>9. ASSUME NEW s \in Ntf, NEW i \in Instances,
             start_subagent_task(i, s)
      PROVE  KnownFirst'
  BY <1>9, <1>a, <1>e DEF start_subagent_task, rows, drives, cancels, births, lifes, Goto, Runs
<1>10. ASSUME NEW s \in Ntf,
             create_subagent_task(s) \/ initial_turn_ends(s) \/
             claim_next_pending_notification(s) \/ notification_turn_ends(s) \/
             release_notification(s) \/ settle_pending(s) \/ settle_outstanding(s) \/
             complete_subagent(s) \/ drive_aborts(s) \/ root_takes(s) \/
             cancel_subagent_task(s)
      PROVE  KnownFirst'
  BY <1>10, <1>a, <1>e DEF create_subagent_task, initial_turn_ends, claim_next_pending_notification,
         notification_turn_ends, release_notification, settle_pending,
         settle_outstanding, complete_subagent, drive_aborts, root_takes,
         cancel_subagent_task, rows, drives, cancels, births, lifes, Goto, Runs
<1>11. ASSUME NEW p \in Procs,
             sweep_select(p) \/ sweep_flush(p) \/ cancel_notifications(p) \/
             match_children(p) \/ cancel_dormant(p) \/ finish_record(p)
      PROVE  KnownFirst'
  BY <1>11, <1>a, <1>e DEF sweep_select, sweep_flush, cancel_notifications, match_children, cancel_dormant,
         finish_record, rows, drives, cancels, births, lifes, Goto, Runs
<1>12. ASSUME NEW p \in Procs, NEW c \in Ntf,
             stop_driver(p, c)
      PROVE  KnownFirst'
  BY <1>12, <1>a, <1>e DEF stop_driver, rows, drives, cancels, births, lifes, Goto, Runs
<1>13. CASE tool_returns \/ cancel_session_starters \/ cancel_session_drivers \/
          cancel_session_select \/ cancel_session_flush \/
          reset_processing_notifications_all \/ mark_stale_running_subagent_tasks_failed
          \/ cancel_stale_notifications \/ UNCHANGED treeVars
  BY <1>13, <1>a, <1>e DEF tool_returns, cancel_session_starters, cancel_session_drivers,
         cancel_session_select, cancel_session_flush, reset_processing_notifications_all,
         mark_stale_running_subagent_tasks_failed, cancel_stale_notifications, treeVars,
         rows, drives, cancels, births, lifes, Goto, Runs
<1> QED BY <1>1, <1>2, <1>3, <1>4, <1>5, <1>6, <1>7, <1>8, <1>9, <1>10, <1>11, <1>12, <1>13
        DEF TreeNext, Drive, TeardownStep, CancelAll, Startup

(* A step leaves starters alone with their runs.                            *)
LEMMA StartersApartStep ==
    ASSUME TreeTypeOK, StartupAlone, Lineage, AwaitedLive, StacksAgree, FramesFit,
           [TreeNext]_treeVars
    PROVE  StartersApart'
<1>a. /\ reg \in SUBSET Ntf /\ task \in [Ntf -> TaskStatus] /\ starter \in [Ntf -> StarterStep]
      /\ pc \in [Ntf -> DriveStep]
  BY DEF TreeTypeOK
<1>t. \A s \in Ntf :
        /\ TaskMoves(s)
        /\ create_subagent_task(s) =>
              starter[s] = "create" /\ starter'[s] = "register" /\ reg' = reg /\ pc' = pc
  BY TaskStep, <1>a DEF create_subagent_task, drives
<1>c. \A s \in Ntf : complete_subagent(s) => pc[s] = "output"
  BY DEF complete_subagent, Runs
<1>e. ASSUME \A s \in Ntf : starter'[s] = starter[s] \/ starter'[s] = "none", reg' \subseteq reg,
             \A s \in Ntf : pc'[s] = pc[s] \/ pc[s] # "none" \/ s \in reg \/ pc'[s] = "none"
      PROVE  StartersApart'
  BY <1>a, <1>t, <1>c, <1>e DEF Lineage, StartersApart, TaskMoves, Known

<1>1. ASSUME NEW s \in Ntf, NEW i \in Instances, start_subagent_task(i, s)
      PROVE  StartersApart'
  BY <1>1, <1>a, <1>t, <1>c DEF start_subagent_task, Goto, drives, rows, Lineage, KnownFirst, StartersApart, TaskMoves, Known
<1>2. ASSUME NEW s \in Ntf, create_subagent_task(s)
      PROVE  StartersApart'
  BY <1>2, <1>a, <1>c DEF create_subagent_task, drives, Lineage, StartersApart, Known
<1>3. ASSUME NEW s \in Ntf, register_driver(s)
      PROVE  StartersApart'
  BY <1>3, <1>a, <1>t, <1>c DEF register_driver, Goto, rows, Lineage, StartersApart, TaskMoves, Known
<1>4. ASSUME NEW s \in Ntf, resume_parent(s)
      PROVE  StartersApart'
  <2>1. \A q \in Ntf : pc'[q] = pc[q] \/ q = s \/ q \in reg
    BY <1>4, <1>a DEF resume_parent, Wakes
  <2> QED BY <1>4, <2>1, <1>e, <1>a DEF resume_parent, Runs, births
<1>5. ASSUME NEW s \in Ntf, cleanup_subagent(s)
      PROVE  StartersApart'
  BY <1>5, <1>a, <1>e DEF cleanup_subagent, Goto, births, drives
<1>6. ASSUME NEW s \in Ntf, take_cancel(s)
      PROVE  StartersApart'
  <2>1. pc[s] # "none"
    BY <1>6 DEF take_cancel, AwaitedLive, Live
  <2> QED BY <1>6, <2>1, <1>a, <1>e DEF take_cancel, Goto, births
<1>7. ASSUME NEW p \in Procs, teardown_resumes_parent(p)
      PROVE  StartersApart'
  <2>1. \A q \in Ntf : pc'[q] = pc[q] \/ q \in reg
    BY <1>7, <1>a DEF teardown_resumes_parent, Wakes
  <2> QED BY <1>7, <2>1, <1>e DEF teardown_resumes_parent, births
<1>8. ASSUME NEW p \in Procs, teardown_cleans(p)
      PROVE  StartersApart'
  BY <1>8, <1>a, <1>e DEF teardown_cleans, Goto, births, drives
<1>9. CASE cancel_session_starters
  BY <1>9, <1>a, <1>e DEF cancel_session_starters, Goto, births, drives
<1>10. CASE backend_crash
  BY <1>10, <1>a, <1>e DEF backend_crash, Goto, births, drives
<1>11. ASSUME NEW s \in Ntf,
             initial_turn_ends(s) \/ claim_next_pending_notification(s) \/
             notification_turn_ends(s) \/ release_notification(s) \/ settle_pending(s) \/
             settle_outstanding(s) \/ complete_subagent(s) \/ drive_aborts(s) \/
             root_takes(s) \/ cancel_subagent_task(s)
      PROVE  StartersApart'
  BY <1>11, <1>a, <1>e DEF initial_turn_ends, claim_next_pending_notification, notification_turn_ends,
         release_notification, settle_pending, settle_outstanding, complete_subagent,
         drive_aborts, root_takes, cancel_subagent_task, rows, drives, cancels, births,
         lifes, Goto, Runs
<1>12. ASSUME NEW p \in Procs,
             sweep_select(p) \/ sweep_flush(p) \/ cancel_notifications(p) \/
             match_children(p) \/ cancel_dormant(p) \/ finish_record(p)
      PROVE  StartersApart'
  BY <1>12, <1>a, <1>e DEF sweep_select, sweep_flush, cancel_notifications, match_children, cancel_dormant,
         finish_record, rows, drives, cancels, births, lifes, Goto, Runs
<1>13. ASSUME NEW p \in Procs, NEW c \in Ntf,
             stop_driver(p, c)
      PROVE  StartersApart'
  BY <1>13, <1>a, <1>e DEF stop_driver, rows, drives, cancels, births, lifes, Goto, Runs
<1>14. CASE tool_returns \/ tool_canceled \/ cancel_session_drivers \/ cancel_session_select
          \/ cancel_session_flush \/ reset_processing_notifications_all \/
          mark_stale_running_subagent_tasks_failed \/ cancel_stale_notifications \/
          UNCHANGED treeVars
  BY <1>14, <1>a, <1>e DEF tool_returns, tool_canceled, cancel_session_drivers, cancel_session_select,
         cancel_session_flush, reset_processing_notifications_all,
         mark_stale_running_subagent_tasks_failed, cancel_stale_notifications, treeVars,
         rows, drives, cancels, births, lifes, Goto, Runs
<1> QED BY <1>1, <1>2, <1>3, <1>4, <1>5, <1>6, <1>7, <1>8, <1>9, <1>10, <1>11, <1>12, <1>13, <1>14
        DEF TreeNext, Drive, TeardownStep, CancelAll, Startup

(* A step gives a run a parent that is known.                               *)
LEMMA ParentsFirstStep ==
    ASSUME TreeTypeOK, StartupAlone, Lineage, AwaitedLive, StacksAgree, FramesFit,
           [TreeNext]_treeVars
    PROVE  ParentsFirst'
<1>a. /\ owner \in [Ntf -> Instances] /\ starter \in [Ntf -> StarterStep] /\ row \in [Ntf -> Rows]
  BY DEF TreeTypeOK
<1>k. \A s \in Ntf : Known(s) => Known(s)'
  BY KnownStays DEF Lineage
<1>m. \A s \in Ntf : TaskMoves(s) /\ RowMoves(s)
  BY TaskStep, RowStep
<1>c. ASSUME NEW s \in Ntf, create_subagent_task(s)
      PROVE  /\ starter[s] # "none" /\ task'[s] = "running"
             /\ row'[s] = NewObligation("subagent_finished", owner[s], 0)
  BY <1>c, <1>a DEF create_subagent_task, TreeTypeOK
<1>r. \A s \in Ntf : /\ task'[s] # "absent" <=> row'[s].status # "absent"
                    /\ \/ Known(s) /\ row'[s].to = row[s].to
                       \/ ~Known(s) /\ task'[s] = "absent"
                       \/ starter[s] # "none" /\ row'[s].to = owner[s]
  <2>1. \A s \in Ntf : Known(s) <=> row[s].status # "absent"
    BY DEF Lineage, ParentsFirst
  <2>2. ASSUME NEW s \in Ntf, create_subagent_task(s)
        PROVE  task'[s] # "absent" /\ row'[s].status # "absent" /\ row'[s].to = owner[s] /\ starter[s] # "none"
    <3>1. task'[s] = "running" /\ starter[s] # "none" /\ row'[s] = NewObligation("subagent_finished", owner[s], 0)
      BY <1>c, <2>2
    <3> QED BY <3>1 DEF NewObligation
  <2>3. ASSUME NEW s \in Ntf, ~create_subagent_task(s)
        PROVE  /\ task'[s] = "absent" <=> task[s] = "absent"
               /\ row'[s].status = "absent" <=> row[s].status = "absent"
               /\ row'[s].to = row[s].to
    <3>1. (task'[s] = "absent" <=> task[s] = "absent")
      BY <1>m, <2>3 DEF TaskMoves, Known
    <3>2. (row'[s].status = "absent" <=> row[s].status = "absent") /\ row'[s].to = row[s].to
      BY <1>m, <2>3 DEF RowMoves
    <3> QED BY <3>1, <3>2
  <2> QED BY <2>1, <2>2, <2>3 DEF Known
<1>e. ASSUME owner' = owner, \A s \in Ntf : starter'[s] # "none" => starter[s] # "none"
      PROVE  ParentsFirst'
  <2>1. ASSUME NEW s \in Ntf, task'[s] # "absent" \/ starter'[s] # "none"
        PROVE  owner[s] # s /\ (owner[s] \in Ntf => task'[owner[s]] # "absent")
    <3>1. Known(s) \/ starter[s] # "none"
      BY <1>e, <1>r, <2>1
    <3> QED BY <1>k, <3>1 DEF Lineage, ParentsFirst, Known
  <2>2. ASSUME NEW s \in Ntf, task'[s] # "absent" PROVE row'[s].to = owner[s]
    BY <1>r, <2>2 DEF Lineage, ParentsFirst
  <2> QED BY <1>e, <1>r, <2>1, <2>2 DEF ParentsFirst, Known

<1>1. ASSUME NEW s \in Ntf, NEW i \in Instances, start_subagent_task(i, s)
      PROVE  ParentsFirst'
  <2>1. /\ owner'[s] = i /\ i # s /\ starter[s] = "none" /\ ~Known(s)
        /\ \A q \in Ntf : q # s => owner'[q] = owner[q] /\ starter'[q] = starter[q]
    BY <1>1, <1>a DEF start_subagent_task, Known
  <2>2. i \in Ntf => Known(i)
    BY <1>1, TreeAssumption DEF start_subagent_task, Turning, Lineage, KnownFirst
  <2>3. \A q \in Ntf : row'[q] = row[q] /\ Known(q)' = Known(q)
    BY <1>1 DEF start_subagent_task, rows, Known
  <2> QED BY <1>k, <2>1, <2>2, <2>3 DEF Lineage, ParentsFirst
<1>2. ASSUME NEW s \in Ntf, create_subagent_task(s)
      PROVE  ParentsFirst'
  BY <1>2, <1>a, <1>e DEF create_subagent_task
<1>3. ASSUME NEW s \in Ntf, register_driver(s)
      PROVE  ParentsFirst'
  BY <1>3, <1>a, <1>e DEF register_driver
<1>4. CASE cancel_session_starters
  BY <1>4, <1>a, <1>e DEF cancel_session_starters
<1>5. CASE backend_crash
  BY <1>5, <1>a, <1>e DEF backend_crash
<1>6. ASSUME NEW s \in Ntf,
             initial_turn_ends(s) \/ claim_next_pending_notification(s) \/
             notification_turn_ends(s) \/ release_notification(s) \/ settle_pending(s) \/
             settle_outstanding(s) \/ complete_subagent(s) \/ resume_parent(s) \/
             cleanup_subagent(s) \/ take_cancel(s) \/ drive_aborts(s) \/ root_takes(s) \/
             cancel_subagent_task(s)
      PROVE  ParentsFirst'
  BY <1>6, <1>e DEF initial_turn_ends, claim_next_pending_notification, notification_turn_ends,
         release_notification, settle_pending, settle_outstanding, complete_subagent,
         resume_parent, cleanup_subagent, take_cancel, drive_aborts, root_takes,
         cancel_subagent_task, rows, drives, cancels, births, lifes
<1>7. ASSUME NEW p \in Procs,
             sweep_select(p) \/ sweep_flush(p) \/ cancel_notifications(p) \/
             match_children(p) \/ cancel_dormant(p) \/ finish_record(p) \/
             teardown_resumes_parent(p) \/ teardown_cleans(p)
      PROVE  ParentsFirst'
  BY <1>7, <1>e DEF sweep_select, sweep_flush, cancel_notifications, match_children, cancel_dormant,
         finish_record, teardown_resumes_parent, teardown_cleans, rows, drives, cancels,
         births, lifes
<1>8. ASSUME NEW p \in Procs, NEW c \in Ntf,
             stop_driver(p, c)
      PROVE  ParentsFirst'
  BY <1>8, <1>e DEF stop_driver, rows, drives, cancels, births, lifes
<1>9. CASE tool_returns \/ tool_canceled \/ cancel_session_drivers \/ cancel_session_select
          \/ cancel_session_flush \/ reset_processing_notifications_all \/
          mark_stale_running_subagent_tasks_failed \/ cancel_stale_notifications \/
          UNCHANGED treeVars
  BY <1>9, <1>e DEF tool_returns, tool_canceled, cancel_session_drivers, cancel_session_select,
         cancel_session_flush, reset_processing_notifications_all,
         mark_stale_running_subagent_tasks_failed, cancel_stale_notifications, treeVars,
         rows, drives, cancels, births, lifes
<1> QED BY <1>1, <1>2, <1>3, <1>4, <1>5, <1>6, <1>7, <1>8, <1>9
        DEF TreeNext, Drive, TeardownStep, CancelAll, Startup

(* A step keeps to a drive what it has claimed.                             *)
LEMMA ItemsFitStep ==
    ASSUME TreeTypeOK, StartupAlone, Lineage, AwaitedLive, StacksAgree, FramesFit,
           [TreeNext]_treeVars
    PROVE  ItemsFit'
<1>a. /\ pc \in [Ntf -> DriveStep] /\ item \in [Ntf -> Ntf] /\ row \in [Ntf -> Rows]
  BY DEF TreeTypeOK
<1>m. \A n \in Ntf : row[n].status # "absent" => row'[n].status # "absent" /\ row'[n].to = row[n].to
  <2>1. \A n \in Ntf : create_subagent_task(n) => row[n].status = "absent"
    BY DEF create_subagent_task, Lineage, StartersApart, ParentsFirst
  <2> QED BY <2>1, RowStep DEF RowMoves
<1>e. ASSUME \A s \in Ntf : pc'[s] \in {"turn", "release"} => pc[s] \in {"turn", "release"} /\ item'[s] = item[s]
      PROVE  ItemsFit'
  BY <1>a, <1>m, <1>e DEF Lineage, ItemsFit
<1>w. ASSUME NEW i, NEW l, Wakes(i, l), l \in [Ntf -> DriveStep]
      PROVE  \A s \in Ntf : pc'[s] = l[s] \/ pc'[s] = "claim"
  BY <1>w DEF Wakes

<1>1. ASSUME NEW s \in Ntf, register_driver(s)
      PROVE  ItemsFit'
  BY <1>1, <1>a, <1>e DEF register_driver, Goto
<1>2. ASSUME NEW s \in Ntf, initial_turn_ends(s)
      PROVE  ItemsFit'
  BY <1>2, <1>a, <1>e DEF initial_turn_ends, Goto
<1>3. ASSUME NEW s \in Ntf, claim_next_pending_notification(s)
      PROVE  ItemsFit'
  <2>1. CASE pc' = [pc EXCEPT ![s] = "pend"] /\ item' = item
    BY <1>a, <1>e, <2>1
  <2>2. ASSUME NEW n \in PendingFor(row, {s}), item' = [item EXCEPT ![s] = n], pc' = [pc EXCEPT ![s] = "turn"]
        PROVE  ItemsFit'
    <3>1. n \in Ntf /\ row[n].status = "pending" /\ row[n].to = s
      BY <2>2 DEF PendingFor
    <3>2. ASSUME NEW q \in Ntf, pc'[q] \in {"turn", "release"}
          PROVE  item'[q] \in Ntf /\ row[item'[q]].status # "absent" /\ row[item'[q]].to = q
      BY <1>a, <2>2, <3>1, <3>2 DEF Lineage, ItemsFit
    <3> QED BY <1>m, <3>2 DEF ItemsFit
  <2> QED BY <1>3, <2>1, <2>2 DEF claim_next_pending_notification, Goto
<1>4. ASSUME NEW s \in Ntf, notification_turn_ends(s)
      PROVE  ItemsFit'
  BY <1>4, <1>a, <1>e DEF notification_turn_ends, Goto
<1>5. ASSUME NEW s \in Ntf, release_notification(s)
      PROVE  ItemsFit'
  BY <1>5, <1>a, <1>e DEF release_notification, Goto
<1>6. ASSUME NEW s \in Ntf, settle_pending(s)
      PROVE  ItemsFit'
  BY <1>6, <1>a, <1>e DEF settle_pending, Goto
<1>7. ASSUME NEW s \in Ntf, settle_outstanding(s)
      PROVE  ItemsFit'
  BY <1>7, <1>a, <1>e DEF settle_outstanding, Goto
<1>8. ASSUME NEW s \in Ntf, complete_subagent(s)
      PROVE  ItemsFit'
  BY <1>8, <1>a, <1>e DEF complete_subagent, Goto
<1>9. ASSUME NEW s \in Ntf, resume_parent(s)
      PROVE  ItemsFit'
  <2>1. [pc EXCEPT ![s] = "clean"] \in [Ntf -> DriveStep]
    BY <1>a DEF DriveStep, InTry
  <2>2. \A q \in Ntf : pc'[q] = [pc EXCEPT ![s] = "clean"][q] \/ pc'[q] = "claim"
    BY <1>9, <1>w, <2>1 DEF resume_parent
  <2> QED BY <1>9, <2>2, <1>a, <1>e DEF resume_parent
<1>10. ASSUME NEW s \in Ntf, cleanup_subagent(s)
      PROVE  ItemsFit'
  BY <1>10, <1>a, <1>e DEF cleanup_subagent, Goto
<1>11. ASSUME NEW s \in Ntf, take_cancel(s)
      PROVE  ItemsFit'
  BY <1>11, <1>a, <1>e DEF take_cancel, Goto
<1>12. ASSUME NEW s \in Ntf, drive_aborts(s)
      PROVE  ItemsFit'
  BY <1>12, <1>a, <1>e DEF drive_aborts, Goto
<1>13. ASSUME NEW p \in Procs, teardown_resumes_parent(p)
      PROVE  ItemsFit'
  <2>1. \A q \in Ntf : pc'[q] = pc[q] \/ pc'[q] = "claim"
    BY <1>13, <1>a, <1>w DEF teardown_resumes_parent
  <2> QED BY <1>13, <2>1, <1>a, <1>e DEF teardown_resumes_parent
<1>14. ASSUME NEW p \in Procs, teardown_cleans(p)
      PROVE  ItemsFit'
  BY <1>14, <1>a, <1>e DEF teardown_cleans, Goto
<1>15. CASE backend_crash
  BY <1>15, <1>a, <1>e DEF backend_crash, Goto
<1>16. ASSUME NEW s \in Ntf, NEW i \in Instances,
             start_subagent_task(i, s)
      PROVE  ItemsFit'
  BY <1>16, <1>e DEF start_subagent_task, rows, drives, cancels, births, lifes
<1>17. ASSUME NEW s \in Ntf,
             create_subagent_task(s) \/ root_takes(s) \/ cancel_subagent_task(s)
      PROVE  ItemsFit'
  BY <1>17, <1>e DEF create_subagent_task, root_takes, cancel_subagent_task, rows, drives, cancels,
         births, lifes
<1>18. ASSUME NEW p \in Procs,
             sweep_select(p) \/ sweep_flush(p) \/ cancel_notifications(p) \/
             match_children(p) \/ cancel_dormant(p) \/ finish_record(p)
      PROVE  ItemsFit'
  BY <1>18, <1>e DEF sweep_select, sweep_flush, cancel_notifications, match_children, cancel_dormant,
         finish_record, rows, drives, cancels, births, lifes
<1>19. ASSUME NEW p \in Procs, NEW c \in Ntf,
             stop_driver(p, c)
      PROVE  ItemsFit'
  BY <1>19, <1>e DEF stop_driver, rows, drives, cancels, births, lifes
<1>20. CASE tool_returns \/ tool_canceled \/ cancel_session_starters \/
          cancel_session_drivers \/ cancel_session_select \/ cancel_session_flush \/
          reset_processing_notifications_all \/ mark_stale_running_subagent_tasks_failed
          \/ cancel_stale_notifications \/ UNCHANGED treeVars
  BY <1>20, <1>e DEF tool_returns, tool_canceled, cancel_session_starters, cancel_session_drivers,
         cancel_session_select, cancel_session_flush, reset_processing_notifications_all,
         mark_stale_running_subagent_tasks_failed, cancel_stale_notifications, treeVars,
         rows, drives, cancels, births, lifes
<1> QED BY <1>1, <1>2, <1>3, <1>4, <1>5, <1>6, <1>7, <1>8, <1>9, <1>10, <1>11, <1>12, <1>13, <1>14,
           <1>15, <1>16, <1>17, <1>18, <1>19, <1>20
        DEF TreeNext, Drive, TeardownStep, CancelAll, Startup

(* A step cancels and awaits only drives that are there.                    *)
LEMMA AwaitedLiveStep ==
    ASSUME TreeTypeOK, StartupAlone, Lineage, AwaitedLive, StacksAgree, FramesFit,
           [TreeNext]_treeVars
    PROVE  AwaitedLive'
<1>a. /\ pc \in [Ntf -> DriveStep] /\ hit \in SUBSET Ntf /\ waits \in [Procs -> SUBSET Ntf]
      /\ Ntf \subseteq Procs /\ "tool" \in Procs
  BY DEF TreeTypeOK, Procs, Cancelers
<1>l. /\ \A s \in hit : s \in Ntf /\ pc[s] # "none"
      /\ \A p \in Procs : \A s \in waits[p] : s \in Ntf /\ pc[s] # "none"
  BY <1>a DEF AwaitedLive, Live
<1>e. ASSUME \A s \in hit' : s \in Ntf /\ pc[s] # "none" /\ pc'[s] # "none",
             \A p \in Procs : \A s \in waits'[p] : s \in Ntf /\ pc[s] # "none" /\ pc'[s] # "none"
      PROVE  AwaitedLive'
  BY <1>e DEF AwaitedLive, Live
<1>w. ASSUME NEW i, NEW l, Wakes(i, l), l \in [Ntf -> DriveStep]
      PROVE  \A s \in Ntf : pc'[s] = l[s] \/ pc'[s] = "claim"
  BY <1>w DEF Wakes
<1>u. ASSUME \A s \in Ntf : pc[s] # "none" => pc'[s] # "none", hit' = hit, waits' = waits
      PROVE  AwaitedLive'
  BY <1>l, <1>e, <1>u
<1>n. ASSUME NEW s \in Ntf, s \notin hit, pc' = [pc EXCEPT ![s] = "none"], hit' = hit,
             waits' = [p \in Procs |-> waits[p] \ {s}]
      PROVE  AwaitedLive'
  BY <1>a, <1>l, <1>e, <1>n

<1>1. ASSUME NEW s \in Ntf, register_driver(s)
      PROVE  AwaitedLive'
  BY <1>1, <1>a, <1>u DEF register_driver, Goto, cancels
<1>2. ASSUME NEW s \in Ntf, initial_turn_ends(s)
      PROVE  AwaitedLive'
  BY <1>2, <1>a, <1>u DEF initial_turn_ends, Goto, cancels
<1>3. ASSUME NEW s \in Ntf, claim_next_pending_notification(s)
      PROVE  AwaitedLive'
  BY <1>3, <1>a, <1>u DEF claim_next_pending_notification, Goto, cancels
<1>4. ASSUME NEW s \in Ntf, notification_turn_ends(s)
      PROVE  AwaitedLive'
  BY <1>4, <1>a, <1>u DEF notification_turn_ends, Goto, cancels
<1>5. ASSUME NEW s \in Ntf, release_notification(s)
      PROVE  AwaitedLive'
  BY <1>5, <1>a, <1>u DEF release_notification, Goto, cancels
<1>6. ASSUME NEW s \in Ntf, settle_pending(s)
      PROVE  AwaitedLive'
  BY <1>6, <1>a, <1>u DEF settle_pending, Goto, cancels
<1>7. ASSUME NEW s \in Ntf, settle_outstanding(s)
      PROVE  AwaitedLive'
  BY <1>7, <1>a, <1>u, <1>n DEF settle_outstanding, Goto, Runs
<1>8. ASSUME NEW s \in Ntf, complete_subagent(s)
      PROVE  AwaitedLive'
  BY <1>8, <1>a, <1>u DEF complete_subagent, Goto, cancels
<1>9. ASSUME NEW s \in Ntf, resume_parent(s)
      PROVE  AwaitedLive'
  <2>1. [pc EXCEPT ![s] = "clean"] \in [Ntf -> DriveStep]
    BY <1>a DEF DriveStep, InTry
  <2>2. \A q \in Ntf : pc'[q] = [pc EXCEPT ![s] = "clean"][q] \/ pc'[q] = "claim"
    BY <1>9, <1>w, <2>1 DEF resume_parent
  <2> QED BY <1>9, <2>2, <1>a, <1>u DEF resume_parent, cancels
<1>10. ASSUME NEW s \in Ntf, cleanup_subagent(s)
      PROVE  AwaitedLive'
  BY <1>10, <1>n DEF cleanup_subagent, Goto, Runs
<1>11. ASSUME NEW s \in Ntf, take_cancel(s)
      PROVE  AwaitedLive'
  <2>1. \A q \in Ntf : pc[q] # "none" => pc'[q] # "none"
    BY <1>11, <1>a DEF take_cancel, Goto
  <2>2. hit' \subseteq hit \cup waits[s] /\ waits' = waits
    BY <1>11 DEF take_cancel
  <2> QED BY <1>a, <1>l, <1>e, <2>1, <2>2
<1>12. ASSUME NEW s \in Ntf, drive_aborts(s)
      PROVE  AwaitedLive'
  BY <1>12, <1>n DEF drive_aborts, Goto, Runs
<1>13. ASSUME NEW s \in Ntf, cancel_subagent_task(s)
      PROVE  AwaitedLive'
  <2>1. pc' = pc /\ hit' \subseteq hit \cup {s} /\ (hit' # hit \/ waits' # waits => pc[s] # "none")
        /\ \A q \in Procs : waits'[q] \subseteq waits[q] \cup {s}
    BY <1>13, <1>a DEF cancel_subagent_task, Live, drives, cancels
  <2> QED BY <1>l, <1>e, <1>u, <2>1
<1>14. ASSUME NEW p \in Procs, NEW c \in Ntf, stop_driver(p, c)
      PROVE  AwaitedLive'
  <2>1. pc' = pc /\ hit' \subseteq hit \cup {c} /\ (hit' # hit \/ waits' # waits => pc[c] # "none")
        /\ \A q \in Procs : waits'[q] \subseteq waits[q] \cup {c}
    BY <1>14, <1>a DEF stop_driver, Live, drives
  <2> QED BY <1>l, <1>e, <1>u, <2>1
<1>15. ASSUME NEW p \in Procs, teardown_resumes_parent(p)
      PROVE  AwaitedLive'
  <2>1. \A q \in Ntf : pc'[q] = pc[q] \/ pc'[q] = "claim"
    BY <1>15, <1>a, <1>w DEF teardown_resumes_parent
  <2> QED BY <1>15, <2>1, <1>a, <1>u DEF teardown_resumes_parent
<1>16. ASSUME NEW p \in Procs, teardown_cleans(p)
      PROVE  AwaitedLive'
  BY <1>16, <1>u, <1>n DEF teardown_cleans, Goto, Steps, drives
<1>17. CASE tool_canceled
  <2>1. pc' = pc /\ hit' \subseteq hit \cup waits["tool"] /\ \A q \in Procs : waits'[q] \subseteq waits[q]
    BY <1>17, <1>a DEF tool_canceled, drives
  <2> QED BY <1>a, <1>l, <1>e, <2>1
<1>18. CASE backend_crash
  BY <1>18, <1>e DEF backend_crash
<1>19. ASSUME NEW s \in Ntf, NEW i \in Instances,
             start_subagent_task(i, s)
      PROVE  AwaitedLive'
  BY <1>19, <1>u DEF start_subagent_task, rows, drives, cancels, births, lifes
<1>20. ASSUME NEW s \in Ntf,
             create_subagent_task(s) \/ root_takes(s)
      PROVE  AwaitedLive'
  BY <1>20, <1>u DEF create_subagent_task, root_takes, rows, drives, cancels, births, lifes
<1>21. ASSUME NEW p \in Procs,
             sweep_select(p) \/ sweep_flush(p) \/ cancel_notifications(p) \/
             match_children(p) \/ cancel_dormant(p) \/ finish_record(p)
      PROVE  AwaitedLive'
  BY <1>21, <1>u DEF sweep_select, sweep_flush, cancel_notifications, match_children, cancel_dormant,
         finish_record, rows, drives, cancels, births, lifes
<1>22. CASE tool_returns \/ cancel_session_starters \/ cancel_session_drivers \/
          cancel_session_select \/ cancel_session_flush \/
          reset_processing_notifications_all \/ mark_stale_running_subagent_tasks_failed
          \/ cancel_stale_notifications \/ UNCHANGED treeVars
  BY <1>22, <1>u DEF tool_returns, cancel_session_starters, cancel_session_drivers,
         cancel_session_select, cancel_session_flush, reset_processing_notifications_all,
         mark_stale_running_subagent_tasks_failed, cancel_stale_notifications, treeVars,
         rows, drives, cancels, births, lifes
<1> QED BY <1>1, <1>2, <1>3, <1>4, <1>5, <1>6, <1>7, <1>8, <1>9, <1>10, <1>11, <1>12, <1>13, <1>14,
           <1>15, <1>16, <1>17, <1>18, <1>19, <1>20, <1>21, <1>22
        DEF TreeNext, Drive, TeardownStep, CancelAll, Startup

(* The parent of a run that is known does not change.                       *)
LEMMA OwnerStays ==
    ASSUME TreeTypeOK,
           [TreeNext]_treeVars
    PROVE  \A o \in Ntf : Known(o) => owner'[o] = owner[o]
<1>e. owner' = owner => \A o \in Ntf : Known(o) => owner'[o] = owner[o]
  OBVIOUS

<1>1. ASSUME NEW s \in Ntf, NEW i \in Instances, start_subagent_task(i, s)
      PROVE  \A o \in Ntf : Known(o) => owner'[o] = owner[o]
  BY <1>1 DEF start_subagent_task, Known, TreeTypeOK
<1>2. ASSUME NEW s \in Ntf, create_subagent_task(s)
      PROVE  \A o \in Ntf : Known(o) => owner'[o] = owner[o]
  BY <1>2, <1>e DEF create_subagent_task
<1>3. ASSUME NEW s \in Ntf, register_driver(s)
      PROVE  \A o \in Ntf : Known(o) => owner'[o] = owner[o]
  BY <1>3, <1>e DEF register_driver
<1>4. CASE cancel_session_starters
  BY <1>4, <1>e DEF cancel_session_starters
<1>5. CASE backend_crash
  BY <1>5, <1>e DEF backend_crash
<1>6. ASSUME NEW s \in Ntf,
             initial_turn_ends(s) \/ claim_next_pending_notification(s) \/
             notification_turn_ends(s) \/ release_notification(s) \/ settle_pending(s) \/
             settle_outstanding(s) \/ complete_subagent(s) \/ resume_parent(s) \/
             cleanup_subagent(s) \/ take_cancel(s) \/ drive_aborts(s) \/ root_takes(s) \/
             cancel_subagent_task(s)
      PROVE  \A o \in Ntf : Known(o) => owner'[o] = owner[o]
  BY <1>6, <1>e DEF initial_turn_ends, claim_next_pending_notification, notification_turn_ends,
         release_notification, settle_pending, settle_outstanding, complete_subagent,
         resume_parent, cleanup_subagent, take_cancel, drive_aborts, root_takes,
         cancel_subagent_task, rows, drives, cancels, births, lifes
<1>7. ASSUME NEW p \in Procs,
             sweep_select(p) \/ sweep_flush(p) \/ cancel_notifications(p) \/
             match_children(p) \/ cancel_dormant(p) \/ finish_record(p) \/
             teardown_resumes_parent(p) \/ teardown_cleans(p)
      PROVE  \A o \in Ntf : Known(o) => owner'[o] = owner[o]
  BY <1>7, <1>e DEF sweep_select, sweep_flush, cancel_notifications, match_children, cancel_dormant,
         finish_record, teardown_resumes_parent, teardown_cleans, rows, drives, cancels,
         births, lifes
<1>8. ASSUME NEW p \in Procs, NEW c \in Ntf,
             stop_driver(p, c)
      PROVE  \A o \in Ntf : Known(o) => owner'[o] = owner[o]
  BY <1>8, <1>e DEF stop_driver, rows, drives, cancels, births, lifes
<1>9. CASE tool_returns \/ tool_canceled \/ cancel_session_drivers \/ cancel_session_select
          \/ cancel_session_flush \/ reset_processing_notifications_all \/
          mark_stale_running_subagent_tasks_failed \/ cancel_stale_notifications \/
          UNCHANGED treeVars
  BY <1>9, <1>e DEF tool_returns, tool_canceled, cancel_session_drivers, cancel_session_select,
         cancel_session_flush, reset_processing_notifications_all,
         mark_stale_running_subagent_tasks_failed, cancel_stale_notifications, treeVars,
         rows, drives, cancels, births, lifes
<1> QED BY <1>1, <1>2, <1>3, <1>4, <1>5, <1>6, <1>7, <1>8, <1>9
        DEF TreeNext, Drive, TeardownStep, CancelAll, Startup

(* Where the stacks are empty, and whose the first teardown is, is as       *)
(* before.                                                                  *)
SameBottoms ==
    \A q \in Procs : /\ stack'[q] = <<>> <=> stack[q] = <<>>
                     /\ stack[q] # <<>> => stack'[q][1].run = stack[q][1].run

(* A teardown that goes on, or makes room for another, stays where it is.   *)
LEMMA BottomsStay ==
    ASSUME TreeTypeOK, NEW p \in Procs
    PROVE  /\ \A l, T, D : Turns(p, l, T, D) => SameBottoms
           /\ \A f, g : Pushes(p, f, g) /\ f.run = Top(p).run => SameBottoms
<1>1. \A q \in Procs : stack[q] # <<>> => 1 \in DOMAIN stack[q] /\ Len(stack[q]) \in Nat \ {0}
                                          /\ 1 \in 1..(Len(stack[q]) + 1) /\ Len(stack[q]) + 1 # 1
  BY StackShape
<1>2. ASSUME NEW l, NEW T, NEW D, Turns(p, l, T, D) PROVE SameBottoms
  <2>1. stack[p] # <<>> /\ TopBecomes(p, Turned(Top(p), l, T, D)) /\ Turned(Top(p), l, T, D).run = Top(p).run
    BY <1>2 DEF Turns, Turned
  <2>2. stack'[p][1].run = stack[p][1].run
    BY <1>1, <2>1 DEF TopBecomes, Top
  <2> QED BY <2>1, <2>2 DEF TopBecomes, SameBottoms
<1>3. ASSUME NEW f, NEW g, Pushes(p, f, g), f.run = Top(p).run PROVE SameBottoms
  <2>1. stack'[p][1] = IF 1 = Len(stack[p]) THEN f ELSE stack[p][1]
    BY <1>1, <1>3 DEF Pushes
  <2> QED BY <1>3, <2>1 DEF Pushes, SameBottoms, Top
<1> QED BY <1>2, <1>3

(* A step keeps the stacks with their processes.                            *)
LEMMA StacksAgreeStep ==
    ASSUME TreeTypeOK, StartupAlone, Lineage, AwaitedLive, StacksAgree, FramesFit,
           [TreeNext]_treeVars
    PROVE  StacksAgree'
<1>a. /\ pc \in [Ntf -> DriveStep] /\ cpc \in [Cancelers -> {"idle", "wait", "inner"}]
      /\ aborted \in SUBSET Ntf /\ stack \in [Procs -> Seq(Frames)]
      /\ Ntf \subseteq Procs /\ "tool" \in Procs /\ "all" \in Procs
      /\ "tool" \notin Ntf /\ "all" \notin Ntf /\ "tool" \in Cancelers /\ "all" \in Cancelers
  BY NamesAssumption DEF TreeTypeOK, Procs, Cancelers
<1>b. stack' = stack => SameBottoms
  BY DEF SameBottoms
<1>e. ASSUME SameBottoms, aborted \subseteq aborted', cpc' = cpc,
             \A s \in Ntf : /\ pc'[s] = "teardown" <=> pc[s] = "teardown"
                            /\ pc'[s] = "dying" => pc[s] = "dying"
      PROVE  StacksAgree'
  BY <1>a, <1>e DEF StacksAgree, SameBottoms
<1>q. ASSUME UNCHANGED <<stack, cpc>>, aborted \subseteq aborted',
             \A s \in Ntf : /\ pc'[s] = "teardown" <=> pc[s] = "teardown"
                            /\ pc'[s] = "dying" => pc[s] = "dying"
      PROVE  StacksAgree'
  BY <1>a, <1>q DEF StacksAgree
<1>s. ASSUME NEW s \in Ntf, NEW h, Starts(s, Teardown(s, h)), pc' = [pc EXCEPT ![s] = "teardown"],
             cpc' = cpc, aborted' = aborted
      PROVE  StacksAgree'
  <2>1. Teardown(s, h).run = s
    BY DEF Teardown
  <2> QED BY <1>a, <1>s, <2>1 DEF StacksAgree, Starts
<1>w. ASSUME NEW i, NEW l, Wakes(i, l), l \in [Ntf -> DriveStep]
      PROVE  \A s \in Ntf : pc'[s] = l[s] \/ (pc[s] = "none" /\ pc'[s] = "claim")
  BY <1>w DEF Wakes

<1>1. ASSUME NEW s \in Ntf, register_driver(s)
      PROVE  StacksAgree'
  BY <1>1, <1>a, <1>q DEF register_driver, Goto, cancels, lifes, Lineage, StartersApart
<1>2. ASSUME NEW s \in Ntf, initial_turn_ends(s)
      PROVE  StacksAgree'
  <2>1. CASE stack' = stack /\ pc'[s] # "teardown"
    BY <1>2, <1>a, <1>q, <2>1 DEF initial_turn_ends, Goto, lifes, Runs
  <2>2. CASE Starts(s, Teardown(s, "failed")) /\ pc'[s] = "teardown"
    BY <1>2, <1>a, <1>s, <2>2 DEF initial_turn_ends, Goto, lifes
  <2> QED BY <1>2, <2>1, <2>2, StacksStart
<1>3. ASSUME NEW s \in Ntf, claim_next_pending_notification(s)
      PROVE  StacksAgree'
  BY <1>3, <1>a, <1>q DEF claim_next_pending_notification, Goto, cancels, lifes, Runs
<1>4. ASSUME NEW s \in Ntf, notification_turn_ends(s)
      PROVE  StacksAgree'
  BY <1>4, <1>a, <1>q DEF notification_turn_ends, Goto, cancels, lifes, Runs
<1>5. ASSUME NEW s \in Ntf, release_notification(s)
      PROVE  StacksAgree'
  BY <1>5, <1>s, StacksStart DEF release_notification, Goto, lifes
<1>6. ASSUME NEW s \in Ntf, settle_pending(s)
      PROVE  StacksAgree'
  <2>1. CASE stack' = stack /\ pc'[s] # "teardown"
    BY <1>6, <1>a, <1>q, <2>1 DEF settle_pending, Goto, lifes, Runs
  <2>2. CASE Starts(s, Teardown(s, "failed")) /\ pc'[s] = "teardown"
    BY <1>6, <1>a, <1>s, <2>2 DEF settle_pending, Goto, lifes
  <2> QED BY <1>6, <2>1, <2>2, StacksStart
<1>7. ASSUME NEW s \in Ntf, settle_outstanding(s)
      PROVE  StacksAgree'
  BY <1>7, <1>a, <1>q DEF settle_outstanding, Goto, cancels, lifes, Runs
<1>8. ASSUME NEW s \in Ntf, complete_subagent(s)
      PROVE  StacksAgree'
  BY <1>8, <1>a, <1>q DEF complete_subagent, Goto, cancels, lifes, Runs
<1>9. ASSUME NEW s \in Ntf, resume_parent(s)
      PROVE  StacksAgree'
  <2>1. [pc EXCEPT ![s] = "clean"] \in [Ntf -> DriveStep]
    BY <1>a DEF DriveStep, InTry
  <2>2. \A q \in Ntf : pc'[q] = [pc EXCEPT ![s] = "clean"][q] \/ (pc[q] = "none" /\ pc'[q] = "claim")
    BY <1>9, <1>w, <2>1 DEF resume_parent
  <2> QED BY <1>9, <2>2, <1>a, <1>q DEF resume_parent, Runs, cancels, lifes
<1>10. ASSUME NEW s \in Ntf, cleanup_subagent(s)
      PROVE  StacksAgree'
  BY <1>10, <1>a, <1>q DEF cleanup_subagent, Goto, cancels, lifes, Runs
<1>11. ASSUME NEW s \in Ntf, take_cancel(s)
      PROVE  StacksAgree'
  <2>1. CASE pc[s] \in InTry /\ stack' = stack /\ pc'[s] = "release"
    BY <1>11, <1>a, <1>q, <2>1 DEF take_cancel, Goto, InTry
  <2>2. CASE pc[s] \in InTry /\ Starts(s, Teardown(s, "canceled")) /\ pc'[s] = "teardown"
    BY <1>11, <1>a, <1>s, <2>2 DEF take_cancel, Goto
  <2>3. CASE pc[s] \notin InTry
    <3>1. pc[s] \in {"teardown", "dying"}
      BY <1>11, <1>a, <2>3 DEF take_cancel, AwaitedLive, Live, DriveStep
    <3>2. s \in aborted'
      <4>1. CASE pc[s] = "teardown"
        <5>1. 1 \in DOMAIN stack[s] /\ stack[s][1].run = s
          BY <1>a, <4>1, StackShape DEF StacksAgree
        <5> QED BY <1>11, <2>3, <5>1 DEF take_cancel
      <4>2. CASE pc[s] = "dying"
        BY <1>11, <2>3, <4>2 DEF take_cancel, StacksAgree
      <4> QED BY <3>1, <4>1, <4>2
    <3>3. Empties(s) /\ pc' = [pc EXCEPT ![s] = "dying"] /\ cpc' = cpc /\ aborted \subseteq aborted'
      BY <1>11, <2>3, StacksStart DEF take_cancel, Goto
    <3> QED BY <1>a, <3>2, <3>3 DEF Empties, StacksAgree
  <2> QED BY <1>11, <2>1, <2>2, <2>3, StacksStart
<1>12. ASSUME NEW s \in Ntf, drive_aborts(s)
      PROVE  StacksAgree'
  BY <1>12, <1>a, <1>q DEF drive_aborts, Goto, lifes, Runs
<1>13. ASSUME NEW s \in Ntf, cancel_subagent_task(s)
      PROVE  StacksAgree'
  <2>1. stack["tool"] = <<>> /\ cpc["tool"] = "idle" /\ pc' = pc /\ aborted' = aborted /\ cpc'["all"] = cpc["all"]
    BY <1>13, <1>a DEF cancel_subagent_task, StacksAgree, drives, lifes, cancels
  <2>2. \/ stack' = stack
        \/ Starts("tool", Teardown(s, "canceled")) /\ cpc'["tool"] # "idle"
    BY <1>13, <1>a, <2>1, StacksStart DEF cancel_subagent_task, cancels
  <2>3. CASE stack' = stack
    BY <1>a, <2>1, <2>3 DEF StacksAgree
  <2>4. CASE Starts("tool", Teardown(s, "canceled")) /\ cpc'["tool"] # "idle"
    BY <1>a, <2>1, <2>4 DEF StacksAgree, Starts
  <2> QED BY <2>2, <2>3, <2>4
<1>14. ASSUME NEW p \in Procs, sweep_select(p), p = "all" => Len(stack[p]) > 1
      PROVE  StacksAgree'
  <2>1. SameBottoms
    BY <1>14, TeardownTurns, BottomsStay
  <2> QED BY <1>14, <1>a, <1>e, <2>1 DEF sweep_select, drives, lifes
<1>15. ASSUME NEW p \in Procs, sweep_flush(p), p = "all" => Len(stack[p]) > 1
      PROVE  StacksAgree'
  <2>1. SameBottoms
    BY <1>15, TeardownTurns, BottomsStay
  <2> QED BY <1>15, <1>a, <1>e, <2>1 DEF sweep_flush, drives, lifes
<1>16. ASSUME NEW p \in Procs, cancel_notifications(p)
      PROVE  StacksAgree'
  <2>1. SameBottoms
    BY <1>16, TeardownTurns, BottomsStay
  <2> QED BY <1>16, <1>a, <1>e, <2>1 DEF cancel_notifications, drives, lifes
<1>17. ASSUME NEW p \in Procs, match_children(p)
      PROVE  StacksAgree'
  <2>1. SameBottoms
    BY <1>17, TeardownTurns, BottomsStay
  <2> QED BY <1>17, <1>a, <1>e, <2>1 DEF match_children, drives, lifes
<1>18. ASSUME NEW p \in Procs, NEW c \in Ntf, stop_driver(p, c)
      PROVE  StacksAgree'
  <2>1. PICK D : Turns(p, "stop", Top(p).todo \ {c}, D)
    BY <1>18, TeardownTurns
  <2> QED BY <1>18, <1>a, <1>e, <2>1, BottomsStay DEF stop_driver, drives, lifes
<1>19. ASSUME NEW p \in Procs, cancel_dormant(p)
      PROVE  StacksAgree'
  <2>1. CASE Top(p).dormant = {}
    BY <1>19, <2>1, <1>a, <1>e, TeardownTurns, BottomsStay DEF cancel_dormant, drives, lifes
  <2>2. CASE Top(p).dormant # {}
    <3>1. PICK c : Pushes(p, Turned(Top(p), "stop", {}, Top(p).dormant \ {c}), Teardown(c, "canceled"))
      BY <1>19, <2>2, DormantPushed
    <3>2. Turned(Top(p), "stop", {}, Top(p).dormant \ {c}).run = Top(p).run
      BY DEF Turned
    <3>3. SameBottoms
      BY <3>1, <3>2, BottomsStay
    <3> QED BY <1>19, <3>3, <1>a, <1>e DEF cancel_dormant, drives, lifes
  <2> QED BY <2>1, <2>2
<1>20. ASSUME NEW p \in Procs, finish_record(p)
      PROVE  StacksAgree'
  <2>1. SameBottoms
    BY <1>20, TeardownTurns, BottomsStay
  <2> QED BY <1>20, <1>a, <1>e, <2>1 DEF finish_record, drives, lifes
<1>21. ASSUME NEW p \in Procs, teardown_resumes_parent(p)
      PROVE  StacksAgree'
  <2>1. \A q \in Ntf : pc'[q] = pc[q] \/ (pc[q] = "none" /\ pc'[q] = "claim")
    BY <1>21, <1>a, <1>w DEF teardown_resumes_parent
  <2>2. SameBottoms
    BY <1>21, TeardownTurns, BottomsStay
  <2> QED BY <1>21, <2>1, <2>2, <1>a, <1>e DEF teardown_resumes_parent, lifes
<1>22. ASSUME NEW p \in Procs, teardown_cleans(p)
      PROVE  StacksAgree'
  <2>1. /\ stack[p] # <<>> /\ stack' = Pop(p) /\ Top(p).at = "clean" /\ Len(stack[p]) \in Nat
        /\ Len(stack[p]) \in DOMAIN stack[p] /\ DOMAIN stack[p] = 1..Len(stack[p])
    BY <1>22, StackShape DEF teardown_cleans, Steps
  <2>2. /\ \A q \in Procs : q # p => stack'[q] = stack[q]
        /\ stack'[p] = <<>> <=> Len(stack[p]) = 1
        /\ Len(stack[p]) # 1 => stack'[p][1] = stack[p][1]
    BY <2>1, TopPopped
  <2>3. p = "all" => Len(stack[p]) # 1
    BY <2>1, StackShape DEF FramesFit, FrameFits, Top
  <2>4. /\ pc' = IF p \in Ntf /\ Len(stack[p]) = 1 THEN [pc EXCEPT ![p] = "none"] ELSE pc
        /\ cpc' = cpc /\ aborted' = aborted
    BY <1>22 DEF teardown_cleans, Goto, lifes
  <2> QED BY <1>a, <2>1, <2>2, <2>3, <2>4 DEF StacksAgree
<1>23. CASE tool_returns
  BY <1>23, <1>a DEF tool_returns, StacksAgree, drives, lifes
<1>24. CASE tool_canceled
  <2>1. Empties("tool") /\ pc' = pc /\ aborted \subseteq aborted' /\ cpc'["all"] = cpc["all"]
    BY <1>24, <1>a, StacksStart DEF tool_canceled, drives
  <2> QED BY <1>a, <2>1 DEF StacksAgree, Empties
<1>25. CASE cancel_session_starters
  BY <1>25, <1>a DEF cancel_session_starters, StacksAgree, drives, lifes
<1>26. CASE cancel_session_drivers
  <2>1. /\ stack'["all"] # <<>> /\ \A q \in Procs : q # "all" => stack'[q] = stack[q]
        /\ pc' = pc /\ aborted' = aborted /\ cpc'["all"] = "inner" /\ cpc'["tool"] = cpc["tool"]
    BY <1>26, <1>a, StacksStart DEF cancel_session_drivers, drives, lifes, Starts
  <2> QED BY <1>a, <2>1 DEF StacksAgree
<1>27. CASE cancel_session_select
  BY <1>27, <1>a, <1>e, SelectTurns, BottomsStay DEF cancel_session_select, drives, lifes
<1>28. CASE cancel_session_flush
  <2>1. /\ stack'["all"] = <<>> /\ \A q \in Procs : q # "all" => stack'[q] = stack[q]
        /\ pc' = pc /\ aborted' = aborted /\ cpc'["all"] = "idle" /\ cpc'["tool"] = cpc["tool"]
    BY <1>28, <1>a, StacksStart DEF cancel_session_flush, drives, lifes, Empties
  <2> QED BY <1>a, <2>1 DEF StacksAgree
<1>29. CASE backend_crash
  BY <1>29, <1>a DEF backend_crash, StacksAgree
<1>30. CASE reset_processing_notifications_all
  BY <1>30, <1>a, <1>q DEF reset_processing_notifications_all, cancels, drives
<1>31. CASE mark_stale_running_subagent_tasks_failed
  BY <1>31, <1>a, <1>q DEF mark_stale_running_subagent_tasks_failed, cancels, drives
<1>32. CASE cancel_stale_notifications
  BY <1>32, <1>a, <1>q DEF cancel_stale_notifications, cancels, drives
<1>33. ASSUME NEW s \in Ntf, NEW i \in Instances,
             start_subagent_task(i, s)
      PROVE  StacksAgree'
  BY <1>33, <1>q DEF start_subagent_task, rows, drives, cancels, births, lifes
<1>34. ASSUME NEW s \in Ntf,
             create_subagent_task(s) \/ root_takes(s)
      PROVE  StacksAgree'
  BY <1>34, <1>q DEF create_subagent_task, root_takes, rows, drives, cancels, births, lifes
<1>35. CASE UNCHANGED treeVars
  BY <1>35, <1>q DEF treeVars, rows, drives, cancels, births, lifes
<1> QED BY <1>1, <1>2, <1>3, <1>4, <1>5, <1>6, <1>7, <1>8, <1>9, <1>10, <1>11, <1>12, <1>13, <1>14,
           <1>15, <1>16, <1>17, <1>18, <1>19, <1>20, <1>21, <1>22, <1>23, <1>24, <1>25, <1>26,
           <1>27, <1>28, <1>29, <1>30, <1>31, <1>32, <1>33, <1>34, <1>35
        DEF TreeNext, Drive, TeardownStep, CancelAll, Startup

(* FrameFits in the next state.                                             *)
FitsThen(p, n, f) ==
    /\ f.run = Root <=> p = "all" /\ n = 1
    /\ f.run = Root => f.at \in {"stop", "sweep", "flush"}
    /\ n < Len(stack'[p]) => f.at = "stop"
    /\ f.run # Root => task'[f.run] # "absent"
    /\ f.at \in {"kick", "clean"} => task'[f.run] # "running"
    /\ \A c \in f.todo \cup f.dormant : task'[c] # "absent"
    /\ f.at = "flush" /\ f.run # Root => \A c \in f.todo : owner'[c] = f.run

(* It is enough that every teardown fits there.                             *)
LEMMA FramesFitThen ==
    ASSUME \A p \in Procs : \A n \in DOMAIN stack'[p] : FitsThen(p, n, stack'[p][n])
    PROVE  FramesFit'
BY DEF FramesFit, FrameFits, FitsThen, Known

(* A teardown that fits goes on fitting where it is.                        *)
LEMMA FitStays ==
    ASSUME TreeTypeOK, Lineage, FramesFit, [TreeNext]_treeVars,
           NEW p \in Procs, NEW n, NEW f \in Frames, FrameFits(p, n, f),
           n < Len(stack'[p]) => f.at = "stop"
    PROVE  FitsThen(p, n, f)
<1>1. f.todo \in SUBSET Ntf /\ f.dormant \in SUBSET Ntf /\ (f.run # Root => f.run \in Ntf)
  BY TreeAssumption DEF Frames
<1>2. \A c \in Ntf : Known(c) => task'[c] # "absent" /\ (task'[c] = "running" => task[c] = "running")
                              /\ owner'[c] = owner[c]
  BY KnownStays, OwnerStays DEF Lineage, Known
<1>3. f.at \in {"kick", "clean"} => f.run # Root
  BY DEF FrameFits
<1> QED BY <1>1, <1>2, <1>3 DEF FrameFits, FitsThen

(* The top of a stack goes on to a step that fits.                          *)
LEMMA TurnFits ==
    ASSUME TreeTypeOK, Lineage, FramesFit, [TreeNext]_treeVars,
           NEW p \in Procs, NEW l, NEW T, NEW D, Turns(p, l, T, D),
           Top(p).run = Root => l \in {"stop", "sweep", "flush"},
           l \in {"kick", "clean"} => task'[Top(p).run] # "running",
           \A c \in T \cup D : c \in Ntf /\ Known(c),
           l = "flush" /\ Top(p).run # Root => \A c \in T : owner[c] = Top(p).run
    PROVE  FramesFit'
<1> DEFINE g == Turned(Top(p), l, T, D)
<1>1. /\ stack[p] # <<>> /\ Top(p) \in Frames /\ TopBecomes(p, g)
      /\ g.run = Top(p).run /\ g.at = l /\ g.todo = T /\ g.dormant = D
  BY DEF Turns, Turned
<1> HIDE DEF g
<1>2. \A q \in Procs : \A n \in DOMAIN stack[q] : FrameFits(q, n, stack[q][n]) /\ stack[q][n] \in Frames
                                                /\ (n < Len(stack[q]) => stack[q][n].at = "stop")
  BY StackShape DEF FramesFit, FrameFits
<1>3. /\ Len(stack[p]) \in DOMAIN stack[p] /\ Len(stack[p]) \in Nat /\ FrameFits(p, Len(stack[p]), Top(p))
      /\ DOMAIN stack[p] = 1..Len(stack[p])
  BY <1>1, StackShape DEF FramesFit, Top
<1>4. \A c \in Ntf : Known(c) => task'[c] # "absent" /\ owner'[c] = owner[c]
  BY KnownStays, OwnerStays DEF Lineage, Known
<1>5. FitsThen(p, Len(stack[p]), g)
  <2>1. Top(p).run # Root => Top(p).run \in Ntf /\ Known(Top(p).run)
    BY <1>1, <1>3, TreeAssumption DEF FrameFits, Frames
  <2>2. ~(Len(stack[p]) < Len(stack'[p]))
    BY <1>1, <1>3 DEF TopBecomes
  <2> QED BY <1>1, <1>3, <1>4, <2>1, <2>2 DEF FitsThen, FrameFits
<1>6. ASSUME NEW q \in Procs, NEW n \in DOMAIN stack'[q] PROVE FitsThen(q, n, stack'[q][n])
  <2>1. n \in DOMAIN stack[q] /\ Len(stack'[q]) = Len(stack[q])
    BY <1>1, <1>6 DEF TopBecomes
  <2>2. CASE q = p /\ n = Len(stack[p])
    BY <1>1, <1>3, <1>5, <2>2 DEF TopBecomes
  <2>3. CASE ~(q = p /\ n = Len(stack[p]))
    <3>1. stack'[q][n] = stack[q][n]
      BY <1>1, <2>1, <2>3 DEF TopBecomes
    <3>2. FitsThen(q, n, stack[q][n])
      BY <1>2, <2>1, FitStays
    <3> QED BY <3>1, <3>2
  <2> QED BY <2>2, <2>3
<1> QED BY <1>6, FramesFitThen

(* What a step leaves of a stack stays in place, and fits there.            *)
LEMMA RestFits ==
    ASSUME TreeTypeOK, Lineage, FramesFit, [TreeNext]_treeVars,
           NEW q \in Procs, NEW n \in DOMAIN stack[q], stack'[q][n] = stack[q][n],
           n < Len(stack'[q]) => n < Len(stack[q])
    PROVE  FitsThen(q, n, stack'[q][n])
<1>1. FrameFits(q, n, stack[q][n]) /\ stack[q][n] \in Frames /\ (n < Len(stack[q]) => stack[q][n].at = "stop")
  BY StackShape DEF FramesFit, FrameFits
<1> QED BY <1>1, FitStays

(* The teardowns fit when the stacks do not change.                         *)
LEMMA SameFits ==
    ASSUME TreeTypeOK, Lineage, FramesFit, [TreeNext]_treeVars, stack' = stack
    PROVE  FramesFit'
BY RestFits, FramesFitThen

(* They fit when a stack is emptied or begins with a run that is known.     *)
LEMMA StartFits ==
    ASSUME TreeTypeOK, Lineage, FramesFit, [TreeNext]_treeVars, NEW p \in Procs
    PROVE  /\ Empties(p) => FramesFit'
           /\ \A s \in Ntf, h \in {"canceled", "failed"} :
                 Starts(p, Teardown(s, h)) /\ Known(s) /\ p # "all" => FramesFit'
<1>1. ASSUME NEW q \in Procs, stack'[q] = stack[q], NEW n \in DOMAIN stack'[q]
      PROVE  FitsThen(q, n, stack'[q][n])
  BY <1>1, RestFits
<1>2. Empties(p) => FramesFit'
  BY <1>1, FramesFitThen DEF Empties
<1>3. ASSUME NEW s \in Ntf, NEW h \in {"canceled", "failed"}, Starts(p, Teardown(s, h)), Known(s), p # "all"
      PROVE  FramesFit'
  <2> DEFINE f == Teardown(s, h)
  <2>1. f.run = s /\ f.at = "notes" /\ f.todo = {} /\ f.dormant = {} /\ s # Root
    BY TreeAssumption DEF Teardown
  <2>2. task'[s] # "absent"
    BY <1>3, KnownStays DEF Lineage, Known
  <2> HIDE DEF f
  <2>3. FitsThen(p, 1, f)
    <3>1. ~(1 < Len(stack'[p]))
      BY <1>3 DEF Starts
    <3> QED BY <1>3, <2>1, <2>2, <3>1 DEF FitsThen
  <2>4. ASSUME NEW q \in Procs, NEW n \in DOMAIN stack'[q] PROVE FitsThen(q, n, stack'[q][n])
    BY <1>1, <1>3, <2>3, <2>4 DEF Starts, f
  <2> QED BY <2>4, FramesFitThen
<1> QED BY <1>2, <1>3

(* A step keeps every teardown where it fits, and adds only those that do.  *)
LEMMA FramesFitStep ==
    ASSUME TreeTypeOK, StartupAlone, Lineage, AwaitedLive, StacksAgree, FramesFit,
           [TreeNext]_treeVars
    PROVE  FramesFit'
<1>a. /\ Ntf \subseteq Procs \ {"all"} /\ "tool" \in Procs \ {"all"} /\ "all" \in Procs
      /\ reg \in SUBSET Ntf /\ task \in [Ntf -> TaskStatus]
      /\ pc \in [Ntf -> DriveStep] /\ stack \in [Procs -> Seq(Frames)]
  BY NamesAssumption DEF TreeTypeOK, Procs, Cancelers
<1>k. \A s \in reg : s \in Ntf /\ Known(s)
  BY <1>a DEF Lineage, KnownFirst
<1>l. \A s \in Ntf : pc[s] # "none" => Known(s)
  BY DEF Lineage, KnownFirst
<1>t. ASSUME NEW p \in Procs, stack[p] # <<>>
      PROVE  /\ Top(p) \in Frames /\ FrameFits(p, Len(stack[p]), Top(p))
             /\ \A c \in Top(p).todo \cup Top(p).dormant : c \in Ntf /\ Known(c)
             /\ Top(p).at \notin {"stop", "sweep", "flush"} => Top(p).run # Root
             /\ Top(p).run # Root => Top(p).run \in Ntf
  <2>1. Top(p) \in Frames /\ FrameFits(p, Len(stack[p]), Top(p))
    BY <1>t, StackShape DEF Top, FramesFit
  <2>2. Top(p).todo \in SUBSET Ntf /\ Top(p).dormant \in SUBSET Ntf /\ Top(p).run \in Ntf \cup {Root}
    BY <2>1, TreeAssumption DEF Frames
  <2> QED BY <2>1, <2>2 DEF FrameFits
<1>e. stack' = stack => FramesFit'
  BY SameFits
<1>s. ASSUME NEW s \in Ntf PROVE /\ Empties(s) => FramesFit'
                                 /\ Starts(s, Teardown(s, "canceled")) /\ Known(s) => FramesFit'
                                 /\ Starts(s, Teardown(s, "failed")) /\ Known(s) => FramesFit'
                                 /\ Starts("tool", Teardown(s, "canceled")) /\ Known(s) => FramesFit'
  BY <1>a, StartFits

<1>1. ASSUME NEW s \in Ntf, initial_turn_ends(s)
      PROVE  FramesFit'
  <2>1. Known(s)
    BY <1>1, <1>l DEF initial_turn_ends, Runs
  <2> QED BY <1>1, <2>1, <1>e, <1>s, StacksStart
<1>2. ASSUME NEW s \in Ntf, release_notification(s)
      PROVE  FramesFit'
  <2>1. Known(s)
    BY <1>2, <1>l DEF release_notification, Runs
  <2> QED BY <1>2, <2>1, <1>e, <1>s, StacksStart
<1>3. ASSUME NEW s \in Ntf, settle_pending(s)
      PROVE  FramesFit'
  <2>1. Known(s)
    BY <1>3, <1>l DEF settle_pending, Runs
  <2> QED BY <1>3, <2>1, <1>e, <1>s, StacksStart
<1>4. ASSUME NEW s \in Ntf, take_cancel(s)
      PROVE  FramesFit'
  <2>1. Known(s)
    BY <1>4, <1>l DEF take_cancel, AwaitedLive, Live
  <2> QED BY <1>4, <2>1, <1>e, <1>s, StacksStart
<1>5. ASSUME NEW s \in Ntf, cancel_subagent_task(s)
      PROVE  FramesFit'
  <2>1. Known(s) /\ stack["tool"] = <<>>
    BY <1>5 DEF cancel_subagent_task, Known, StacksAgree
  <2> QED BY <1>5, <2>1, <1>e, <1>s, StacksStart
<1>6. ASSUME NEW p \in Procs, sweep_select(p), p = "all" => Len(stack[p]) > 1
      PROVE  FramesFit'
  <2> DEFINE T == {c \in Ntf : task[c] = "running" /\ row[c].to = Top(p).run}
  <2>1. Turns(p, "flush", T, Top(p).dormant) /\ stack[p] # <<>>
    BY <1>6, TeardownTurns DEF sweep_select, Steps
  <2>2. \A c \in T : c \in Ntf /\ Known(c) /\ owner[c] = Top(p).run
    BY DEF Known, Lineage, ParentsFirst
  <2> HIDE DEF T
  <2> QED BY <1>t, <2>1, <2>2, TurnFits
<1>7. ASSUME NEW p \in Procs, sweep_flush(p), p = "all" => Len(stack[p]) > 1
      PROVE  FramesFit'
  <2>1. Turns(p, "record", {}, Top(p).dormant) /\ stack[p] # <<>> /\ Top(p).at = "flush" /\ Len(stack[p]) \in Nat
    BY <1>7, TeardownTurns, StackShape DEF sweep_flush, Steps
  <2>2. Top(p).run # Root
    <3>1. FrameFits(p, Len(stack[p]), Top(p))
      BY <1>t, <2>1
    <3>2. ~(p = "all" /\ Len(stack[p]) = 1)
      <4>1. p = "all" => Len(stack[p]) > 1
        BY <1>7
      <4>2. \A k : k = 1 => ~(k > 1)
        OBVIOUS
      <4> QED BY <4>1, <4>2
    <3> QED BY <3>1, <3>2 DEF FrameFits
  <2> QED BY <1>t, <2>1, <2>2, TurnFits
<1>8. ASSUME NEW p \in Procs, cancel_notifications(p)
      PROVE  FramesFit'
  <2>1. Turns(p, "match", Top(p).todo, Top(p).dormant) /\ stack[p] # <<>> /\ Top(p).at = "notes"
    BY <1>8, TeardownTurns DEF cancel_notifications, Steps
  <2> QED BY <1>t, <2>1, TurnFits
<1>9. ASSUME NEW p \in Procs, match_children(p)
      PROVE  FramesFit'
  <2> DEFINE T == {c \in reg : owner[c] = Top(p).run}
  <2>1. Turns(p, "stop", T, Top(p).dormant) /\ stack[p] # <<>>
    BY <1>9, TeardownTurns DEF match_children, Steps
  <2>2. \A c \in T : c \in Ntf /\ Known(c)
    BY <1>k
  <2> HIDE DEF T
  <2> QED BY <1>t, <2>1, <2>2, TurnFits
<1>10. ASSUME NEW p \in Procs, NEW c \in Ntf, stop_driver(p, c)
      PROVE  FramesFit'
  <2>1. PICK D \in SUBSET (Top(p).dormant \cup {c}) : Turns(p, "stop", Top(p).todo \ {c}, D)
    BY <1>10, TeardownTurns
  <2>2. stack[p] # <<>> /\ c \in Top(p).todo
    BY <1>10 DEF stop_driver, Steps
  <2>3. \A d \in (Top(p).todo \ {c}) \cup D : d \in Ntf /\ Known(d)
    BY <1>t, <2>2
  <2> QED BY <2>1, <2>3, TurnFits
<1>11. ASSUME NEW p \in Procs, cancel_dormant(p)
      PROVE  FramesFit'
  <2>1. stack[p] # <<>>
    BY <1>11 DEF cancel_dormant, Steps
  <2>2. CASE Top(p).dormant = {}
    <3>1. Turns(p, "sweep", {}, {})
      BY <1>11, <2>2, TeardownTurns
    <3> QED BY <3>1, TurnFits
  <2>3. CASE Top(p).dormant # {}
    <3>1. PICK c \in Top(p).dormant :
             c \in Ntf /\ Pushes(p, Turned(Top(p), "stop", {}, Top(p).dormant \ {c}), Teardown(c, "canceled"))
      BY <1>11, <2>3, DormantPushed
    <3> DEFINE f == Turned(Top(p), "stop", {}, Top(p).dormant \ {c})
               g == Teardown(c, "canceled")
    <3>2. /\ f.run = Top(p).run /\ f.at = "stop" /\ f.todo = {} /\ f.dormant = Top(p).dormant \ {c}
          /\ g.run = c /\ g.at = "notes" /\ g.todo = {} /\ g.dormant = {} /\ c # Root
      BY <3>1, TreeAssumption DEF Turned, Teardown
    <3> HIDE DEF f, g
    <3>3. Pushes(p, f, g)
      BY <3>1 DEF f, g
    <3>4. /\ Len(stack[p]) \in Nat /\ Len(stack[p]) \in 1..Len(stack[p]) /\ DOMAIN stack[p] = 1..Len(stack[p])
          /\ Len(stack[p]) + 1 # 1
      BY <2>1, StackShape
    <3>5. \A d \in Ntf : Known(d) => task'[d] # "absent"
      BY KnownStays DEF Lineage, Known
    <3>6. FitsThen(p, Len(stack[p]), f)
      <4>1. FrameFits(p, Len(stack[p]), Top(p)) /\ \A d \in f.todo \cup f.dormant : d \in Ntf /\ Known(d)
        BY <1>t, <2>1, <3>2
      <4>2. Top(p).run # Root => Top(p).run \in Ntf
        BY <1>t, <2>1
      <4> QED BY <3>2, <3>5, <4>1, <4>2 DEF FitsThen, FrameFits
    <3>7. FitsThen(p, Len(stack[p]) + 1, g)
      <4>1. Known(c) /\ ~(Len(stack[p]) + 1 < Len(stack'[p]))
        BY <1>t, <2>1, <3>1, <3>3, <3>4 DEF Pushes
      <4> QED BY <3>1, <3>2, <3>4, <3>5, <4>1 DEF FitsThen
    <3>8. ASSUME NEW q \in Procs, NEW n \in DOMAIN stack'[q] PROVE FitsThen(q, n, stack'[q][n])
      <4>1. CASE q # p
        <5>1. stack'[q] = stack[q]
          BY <3>3, <4>1 DEF Pushes
        <5> QED BY <3>8, <5>1, RestFits
      <4>2. CASE q = p
        <5>1. /\ n \in 1..(Len(stack[p]) + 1) /\ Len(stack'[p]) = Len(stack[p]) + 1
              /\ stack'[p][n] = IF n = Len(stack[p]) + 1 THEN g ELSE IF n = Len(stack[p]) THEN f ELSE stack[p][n]
          BY <3>3, <3>8, <4>2 DEF Pushes
        <5>2. CASE n \in {Len(stack[p]), Len(stack[p]) + 1}
          BY <3>4, <3>6, <3>7, <4>2, <5>1, <5>2
        <5>3. CASE n \notin {Len(stack[p]), Len(stack[p]) + 1}
          <6>1. n \in DOMAIN stack[p] /\ n < Len(stack[p]) /\ stack'[p][n] = stack[p][n]
            BY <3>4, <5>1, <5>3
          <6> QED BY <4>2, <6>1, RestFits
        <5> QED BY <5>2, <5>3
      <4> QED BY <4>1, <4>2
    <3> QED BY <3>8, FramesFitThen
  <2> QED BY <2>2, <2>3
<1>12. ASSUME NEW p \in Procs, finish_record(p)
      PROVE  FramesFit'
  <2>1. Turns(p, "kick", Top(p).todo, Top(p).dormant) /\ stack[p] # <<>> /\ Top(p).at = "record"
    BY <1>12, TeardownTurns DEF finish_record, Steps
  <2>2. task'[Top(p).run] # "running"
    <3>1. Top(p).run \in Ntf /\ Top(p).how \in {"canceled", "failed"}
      BY <1>t, <2>1 DEF Frames
    <3> QED BY <1>12, <1>a, <3>1 DEF finish_record, FinishTask, rows
  <2> QED BY <1>t, <2>1, <2>2, TurnFits
<1>13. ASSUME NEW p \in Procs, teardown_resumes_parent(p)
      PROVE  FramesFit'
  <2>1. /\ Turns(p, "clean", Top(p).todo, Top(p).dormant) /\ stack[p] # <<>> /\ Top(p).at = "kick"
        /\ task' = task
    BY <1>13, TeardownTurns DEF teardown_resumes_parent, Steps, rows
  <2>2. task'[Top(p).run] # "running"
    BY <1>t, <2>1 DEF FrameFits
  <2> QED BY <1>t, <2>1, <2>2, TurnFits
<1>14. ASSUME NEW p \in Procs, teardown_cleans(p)
      PROVE  FramesFit'
  <2>1. stack[p] # <<>> /\ stack' = Pop(p) /\ Len(stack[p]) \in Nat
    BY <1>14, StackShape DEF teardown_cleans, Steps
  <2>2. ASSUME NEW q \in Procs, NEW n \in DOMAIN stack'[q] PROVE FitsThen(q, n, stack'[q][n])
    <3>1. /\ n \in DOMAIN stack[q] /\ stack'[q][n] = stack[q][n]
          /\ q = p => Len(stack'[q]) = Len(stack[q]) - 1
          /\ q # p => Len(stack'[q]) = Len(stack[q])
      BY <2>1, <2>2, TopPopped
    <3>2. n < Len(stack'[q]) => n < Len(stack[q])
      <4>1. n \in Nat /\ Len(stack[q]) \in Nat
        BY <3>1, StackShape
      <4> QED BY <3>1, <4>1
    <3> QED BY <3>1, <3>2, RestFits
  <2> QED BY <2>2, FramesFitThen
<1>15. CASE tool_canceled
  <2>1. Empties("tool")
    BY <1>15, StacksStart
  <2> QED BY <1>a, <2>1, StartFits
<1>16. CASE cancel_session_drivers
  <2>1. PICK f : Starts("all", f) /\ f.run = Root /\ f.at = "stop" /\ f.todo = reg /\ f.dormant = {}
    BY <1>16, StacksStart
  <2>2. \A c \in reg : task'[c] # "absent"
    BY <1>16, <1>k DEF cancel_session_drivers, rows, Known
  <2>3. FitsThen("all", 1, f)
    BY <2>1, <2>2 DEF FitsThen, Starts
  <2>4. ASSUME NEW q \in Procs, NEW n \in DOMAIN stack'[q] PROVE FitsThen(q, n, stack'[q][n])
    <3>1. CASE q = "all"
      BY <2>1, <2>3, <2>4, <3>1 DEF Starts
    <3>2. CASE q # "all"
      <4>1. stack'[q] = stack[q]
        BY <2>1, <3>2 DEF Starts
      <4> QED BY <2>4, <4>1, RestFits
    <3> QED BY <3>1, <3>2
  <2> QED BY <2>4, FramesFitThen
<1>17. CASE cancel_session_select
  <2> DEFINE T == {c \in Ntf : task[c] = "running"}
  <2>1. Turns("all", "flush", T, Top("all").dormant) /\ stack["all"] # <<>>
    BY <1>17, SelectTurns DEF Turns
  <2>2. \A c \in T : c \in Ntf /\ Known(c)
    BY DEF Known
  <2>3. Top("all").run = Root
    BY <1>17, <1>a, <1>t, <2>1 DEF cancel_session_select, FrameFits
  <2> HIDE DEF T
  <2>4. \A p \in Procs : p = "all" => FramesFit'
    BY <1>t, <2>1, <2>2, <2>3, TurnFits
  <2> QED BY <1>a, <2>4
<1>18. CASE cancel_session_flush
  <2>1. Empties("all")
    BY <1>18, StacksStart
  <2> QED BY <1>a, <2>1, StartFits
<1>19. CASE backend_crash
  <2>1. \A q \in Procs : stack'[q] = <<>> /\ DOMAIN stack'[q] = {}
    BY <1>19 DEF backend_crash
  <2> QED BY <2>1, FramesFitThen
<1>20. ASSUME NEW s \in Ntf, NEW i \in Instances,
             start_subagent_task(i, s)
      PROVE  FramesFit'
  BY <1>20, <1>e DEF start_subagent_task, rows, drives, cancels, births, lifes
<1>21. ASSUME NEW s \in Ntf,
             create_subagent_task(s) \/ register_driver(s) \/
             claim_next_pending_notification(s) \/ notification_turn_ends(s) \/
             settle_outstanding(s) \/ complete_subagent(s) \/ resume_parent(s) \/
             cleanup_subagent(s) \/ drive_aborts(s) \/ root_takes(s)
      PROVE  FramesFit'
  BY <1>21, <1>e DEF create_subagent_task, register_driver, claim_next_pending_notification,
         notification_turn_ends, settle_outstanding, complete_subagent, resume_parent,
         cleanup_subagent, drive_aborts, root_takes, rows, drives, cancels, births, lifes
<1>22. CASE tool_returns \/ cancel_session_starters \/ reset_processing_notifications_all \/
          mark_stale_running_subagent_tasks_failed \/ cancel_stale_notifications \/
          UNCHANGED treeVars
  BY <1>22, <1>e DEF tool_returns, cancel_session_starters, reset_processing_notifications_all,
         mark_stale_running_subagent_tasks_failed, cancel_stale_notifications, treeVars,
         rows, drives, cancels, births, lifes
<1> QED BY <1>1, <1>2, <1>3, <1>4, <1>5, <1>6, <1>7, <1>8, <1>9, <1>10, <1>11, <1>12, <1>13, <1>14,
           <1>15, <1>16, <1>17, <1>18, <1>19, <1>20, <1>21, <1>22
        DEF TreeNext, Drive, TeardownStep, CancelAll, Startup

(* A drive comes to tell its parent when its task has ended.                *)
LEMMA KickStep ==
    ASSUME TreeTypeOK, StartupAlone, Lineage, AwaitedLive, StacksAgree, FramesFit,
           EndedBeforeKick, RunningIsMinded,
           [TreeNext]_treeVars
    PROVE  EndedBeforeKick'
<1>a. pc \in [Ntf -> DriveStep] /\ task \in [Ntf -> TaskStatus]
  BY DEF TreeTypeOK
<1>e. ASSUME \A s \in Ntf : pc'[s] \in {"kick", "clean"} => pc[s] \in {"kick", "clean"}
      PROVE  EndedBeforeKick'
  <2>1. ASSUME NEW s \in Ntf, pc'[s] \in {"kick", "clean"} PROVE task'[s] # "running"
    <3>1. pc[s] \in {"kick", "clean"}
      BY <1>e, <2>1
    <3>2. Known(s) /\ task[s] # "running"
      BY <3>1 DEF EndedBeforeKick, Lineage, KnownFirst
    <3> QED BY <3>2, KnownStays DEF Lineage
  <2> QED BY <2>1 DEF EndedBeforeKick
<1>w. ASSUME NEW i, NEW l, Wakes(i, l), l \in [Ntf -> DriveStep]
      PROVE  \A s \in Ntf : pc'[s] = l[s] \/ pc'[s] = "claim"
  BY <1>w DEF Wakes

<1>1. ASSUME NEW s \in Ntf, register_driver(s)
      PROVE  EndedBeforeKick'
  BY <1>1, <1>a, <1>e DEF register_driver, Goto
<1>2. ASSUME NEW s \in Ntf, initial_turn_ends(s)
      PROVE  EndedBeforeKick'
  BY <1>2, <1>a, <1>e DEF initial_turn_ends, Goto
<1>3. ASSUME NEW s \in Ntf, claim_next_pending_notification(s)
      PROVE  EndedBeforeKick'
  BY <1>3, <1>a, <1>e DEF claim_next_pending_notification, Goto
<1>4. ASSUME NEW s \in Ntf, notification_turn_ends(s)
      PROVE  EndedBeforeKick'
  BY <1>4, <1>a, <1>e DEF notification_turn_ends, Goto
<1>5. ASSUME NEW s \in Ntf, release_notification(s)
      PROVE  EndedBeforeKick'
  BY <1>5, <1>a, <1>e DEF release_notification, Goto
<1>6. ASSUME NEW s \in Ntf, settle_pending(s)
      PROVE  EndedBeforeKick'
  BY <1>6, <1>a, <1>e DEF settle_pending, Goto
<1>7. ASSUME NEW s \in Ntf, settle_outstanding(s)
      PROVE  EndedBeforeKick'
  BY <1>7, <1>a, <1>e DEF settle_outstanding, Goto
<1>8. ASSUME NEW s \in Ntf, complete_subagent(s)
      PROVE  EndedBeforeKick'
  <2>1. task'[s] # "running" /\ \A r \in Ntf : r # s => pc'[r] = pc[r]
    BY <1>8, <1>a DEF complete_subagent, FinishTask, rows, Goto
  <2>2. ASSUME NEW r \in Ntf, r # s, pc'[r] \in {"kick", "clean"} PROVE task'[r] # "running"
    <3>1. pc[r] \in {"kick", "clean"}
      BY <2>1, <2>2
    <3>2. Known(r) /\ task[r] # "running"
      BY <3>1 DEF EndedBeforeKick, Lineage, KnownFirst
    <3> QED BY <3>2, KnownStays DEF Lineage
  <2> QED BY <2>1, <2>2 DEF EndedBeforeKick
<1>9. ASSUME NEW s \in Ntf, resume_parent(s)
      PROVE  EndedBeforeKick'
  <2>1. [pc EXCEPT ![s] = "clean"] \in [Ntf -> DriveStep]
    BY <1>a DEF DriveStep, InTry
  <2>2. \A q \in Ntf : pc'[q] = [pc EXCEPT ![s] = "clean"][q] \/ pc'[q] = "claim"
    BY <1>9, <1>w, <2>1 DEF resume_parent
  <2> QED BY <1>9, <2>2, <1>a, <1>e DEF resume_parent, Runs
<1>10. ASSUME NEW s \in Ntf, cleanup_subagent(s)
      PROVE  EndedBeforeKick'
  BY <1>10, <1>a, <1>e DEF cleanup_subagent, Goto
<1>11. ASSUME NEW s \in Ntf, take_cancel(s)
      PROVE  EndedBeforeKick'
  BY <1>11, <1>a, <1>e DEF take_cancel, Goto
<1>12. ASSUME NEW s \in Ntf, drive_aborts(s)
      PROVE  EndedBeforeKick'
  BY <1>12, <1>a, <1>e DEF drive_aborts, Goto
<1>13. ASSUME NEW p \in Procs, teardown_resumes_parent(p)
      PROVE  EndedBeforeKick'
  <2>1. \A q \in Ntf : pc'[q] = pc[q] \/ pc'[q] = "claim"
    BY <1>13, <1>a, <1>w DEF teardown_resumes_parent
  <2> QED BY <2>1, <1>e
<1>14. ASSUME NEW p \in Procs, teardown_cleans(p)
      PROVE  EndedBeforeKick'
  BY <1>14, <1>a, <1>e DEF teardown_cleans, Goto
<1>15. CASE backend_crash
  BY <1>15, <1>a, <1>e DEF backend_crash, Goto
<1>16. ASSUME NEW s \in Ntf, NEW i \in Instances,
             start_subagent_task(i, s)
      PROVE  EndedBeforeKick'
  BY <1>16, <1>e DEF start_subagent_task, rows, drives, cancels, births, lifes
<1>17. ASSUME NEW s \in Ntf,
             create_subagent_task(s) \/ root_takes(s) \/ cancel_subagent_task(s)
      PROVE  EndedBeforeKick'
  BY <1>17, <1>e DEF create_subagent_task, root_takes, cancel_subagent_task, rows, drives, cancels,
         births, lifes
<1>18. ASSUME NEW p \in Procs,
             sweep_select(p) \/ sweep_flush(p) \/ cancel_notifications(p) \/
             match_children(p) \/ cancel_dormant(p) \/ finish_record(p)
      PROVE  EndedBeforeKick'
  BY <1>18, <1>e DEF sweep_select, sweep_flush, cancel_notifications, match_children, cancel_dormant,
         finish_record, rows, drives, cancels, births, lifes
<1>19. ASSUME NEW p \in Procs, NEW c \in Ntf,
             stop_driver(p, c)
      PROVE  EndedBeforeKick'
  BY <1>19, <1>e DEF stop_driver, rows, drives, cancels, births, lifes
<1>20. CASE tool_returns \/ tool_canceled \/ cancel_session_starters \/
          cancel_session_drivers \/ cancel_session_select \/ cancel_session_flush \/
          reset_processing_notifications_all \/ mark_stale_running_subagent_tasks_failed
          \/ cancel_stale_notifications \/ UNCHANGED treeVars
  BY <1>20, <1>e DEF tool_returns, tool_canceled, cancel_session_starters, cancel_session_drivers,
         cancel_session_select, cancel_session_flush, reset_processing_notifications_all,
         mark_stale_running_subagent_tasks_failed, cancel_stale_notifications, treeVars,
         rows, drives, cancels, births, lifes
<1> QED BY <1>1, <1>2, <1>3, <1>4, <1>5, <1>6, <1>7, <1>8, <1>9, <1>10, <1>11, <1>12, <1>13, <1>14,
           <1>15, <1>16, <1>17, <1>18, <1>19, <1>20
        DEF TreeNext, Drive, TeardownStep, CancelAll, Startup

(* What the cancel-all does in its first teardown, no other step does.      *)
LEMMA FlushStays ==
    ASSUME TreeTypeOK, StacksAgree, FramesFit, [TreeNext]_treeVars,
           NEW p \in Procs
    PROVE  /\ \A l, T, D : Turns(p, l, T, D) /\ (p = "all" => l # "flush" \/ Len(stack[p]) # 1)
                 => (Flushing' => Flushing /\ stack'["all"][1] = stack["all"][1])
           /\ \A f, g : Pushes(p, f, g) /\ f.at = "stop"
                 => (Flushing' => Flushing /\ stack'["all"][1] = stack["all"][1])
<1>a. "all" \in Procs
  BY DEF Procs, Cancelers
<1>1. stack["all"] # <<>> => 1 \in DOMAIN stack["all"] /\ Len(stack["all"]) \in Nat \ {0}
                             /\ 1 \in 1..(Len(stack["all"]) + 1) /\ Len(stack["all"]) + 1 # 1
  BY <1>a, StackShape
<1>2. ASSUME NEW l, NEW T, NEW D, Turns(p, l, T, D), p = "all" => l # "flush" \/ Len(stack[p]) # 1, Flushing'
      PROVE  Flushing /\ stack'["all"][1] = stack["all"][1]
  <2>1. stack[p] # <<>> /\ TopBecomes(p, Turned(Top(p), l, T, D)) /\ Turned(Top(p), l, T, D).at = l
    BY <1>2 DEF Turns, Turned
  <2>2. stack'["all"][1] = stack["all"][1] /\ stack["all"] # <<>>
    <3>1. CASE p # "all"
      BY <1>a, <1>2, <2>1, <3>1 DEF TopBecomes, Flushing
    <3>2. CASE p = "all" /\ Len(stack[p]) # 1
      BY <1>1, <2>1, <3>2 DEF TopBecomes
    <3>3. CASE p = "all" /\ Len(stack[p]) = 1 /\ l # "flush"
      BY <1>1, <1>2, <2>1, <3>3 DEF TopBecomes, Flushing
    <3> QED BY <1>2, <3>1, <3>2, <3>3
  <2> QED BY <1>2, <2>2 DEF Flushing
<1>3. ASSUME NEW f, NEW g, Pushes(p, f, g), f.at = "stop", Flushing'
      PROVE  Flushing /\ stack'["all"][1] = stack["all"][1]
  <2>1. stack'["all"][1] = stack["all"][1] /\ stack["all"] # <<>>
    <3>1. CASE p # "all"
      BY <1>a, <1>3, <3>1 DEF Pushes, Flushing
    <3>2. CASE p = "all"
      <4>1. stack'[p][1] = IF 1 = Len(stack[p]) THEN f ELSE stack[p][1]
        BY <1>1, <1>3, <3>2 DEF Pushes
      <4> QED BY <1>3, <3>2, <4>1 DEF Pushes, Flushing
    <3> QED BY <3>1, <3>2
  <2> QED BY <1>3, <2>1 DEF Flushing
<1> QED BY <1>2, <1>3

(* A step leaves nobody RUNNING alone.                                      *)
LEMMA MindedStep ==
    ASSUME TreeTypeOK, StartupAlone, Lineage, AwaitedLive, StacksAgree, FramesFit,
           EndedBeforeKick, RunningIsMinded,
           [TreeNext]_treeVars
    PROVE  RunningIsMinded'
<1>a. /\ reg \in SUBSET Ntf /\ starter \in [Ntf -> StarterStep] /\ task \in [Ntf -> TaskStatus]
      /\ owner \in [Ntf -> Instances] /\ cpc \in [Cancelers -> {"idle", "wait", "inner"}]
      /\ stack \in [Procs -> Seq(Frames)] /\ pc \in [Ntf -> DriveStep]
      /\ Ntf \subseteq Procs \ {"all"} /\ "tool" \in Procs \ {"all"} /\ "all" \in Procs
      /\ "tool" \in Cancelers /\ "all" \in Cancelers
  BY NamesAssumption DEF TreeTypeOK, Procs, Cancelers
<1>k. \A s \in Ntf : Known(s) => (task'[s] = "running" => task[s] = "running") /\ owner'[s] = owner[s]
  BY KnownStays, OwnerStays DEF Lineage
<1>n. \A s \in Ntf : task'[s] = "running" => task[s] = "running" \/ starter'[s] # "none"
  <2>1. \A s \in Ntf : create_subagent_task(s) => starter'[s] # "none"
    BY <1>a DEF create_subagent_task
  <2> QED BY <1>k, <2>1, TaskStep DEF TaskMoves, Known
<1>f. Flushing => \A c \in stack["all"][1].todo : c \in Ntf /\ Known(c) /\ (owner[c] \in Ntf => Known(owner[c]))
  <2>1. ASSUME Flushing PROVE /\ 1 \in DOMAIN stack["all"] /\ stack["all"][1] \in Frames
                              /\ FrameFits("all", 1, stack["all"][1])
    BY <1>a, <2>1, StackShape DEF Flushing, FramesFit
  <2>2. ASSUME Flushing, NEW c \in stack["all"][1].todo PROVE c \in Ntf /\ Known(c)
    BY <2>1, <2>2 DEF FrameFits, Frames
  <2> QED BY <2>2 DEF Lineage, ParentsFirst
<1>p. ASSUME Flushing' => Flushing /\ stack'["all"][1] = stack["all"][1], Flushing',
             NEW c \in stack'["all"][1].todo, owner'[c] \in Ntf
      PROVE  task'[owner'[c]] # "running" \/ owner'[c] \in stack'["all"][1].todo
  BY <1>p, <1>f, <1>k DEF RunningIsMinded, Swept
<1>e. ASSUME Flushing' => Flushing /\ stack'["all"][1] = stack["all"][1],
             boot' = "up" => boot = "up", cpc["all"] # "idle" => cpc'["all"] # "idle",
             \A s \in Ntf : task'[s] = "running" =>
                /\ s \in reg => s \in reg'
                /\ starter[s] # "none" => starter'[s] # "none" \/ s \in reg'
      PROVE  RunningIsMinded'
  <2>1. ASSUME NEW s \in Ntf, boot' = "up", task'[s] = "running"
        PROVE  s \in reg' \/ starter'[s] # "none" \/ (cpc'["all"] # "idle" /\ (Flushing' => Swept(s)'))
    BY <1>e, <1>n, <2>1 DEF RunningIsMinded, Up, Swept
  <2> QED BY <1>e, <1>p, <2>1 DEF RunningIsMinded, Up, Swept
<1>u. stack' = stack => (Flushing' => Flushing /\ stack'["all"][1] = stack["all"][1])
  BY DEF Flushing
<1>s. ASSUME NEW p \in Procs, p # "all", stack'["all"] = stack["all"]
      PROVE  Flushing' => Flushing /\ stack'["all"][1] = stack["all"][1]
  BY <1>s DEF Flushing

<1>1. ASSUME NEW s \in Ntf, NEW i \in Instances, start_subagent_task(i, s)
      PROVE  RunningIsMinded'
  <2>1. starter[s] = "none" /\ starter' = [starter EXCEPT ![s] = "create"]
    BY <1>1 DEF start_subagent_task
  <2> QED BY <1>1, <2>1, <1>a, <1>u, <1>e DEF start_subagent_task, cancels, lifes
<1>2. ASSUME NEW s \in Ntf, create_subagent_task(s)
      PROVE  RunningIsMinded'
  BY <1>2, <1>a, <1>u, <1>e DEF create_subagent_task, births, cancels, lifes
<1>3. ASSUME NEW s \in Ntf, register_driver(s)
      PROVE  RunningIsMinded'
  BY <1>3, <1>a, <1>u, <1>e DEF register_driver, births, cancels, lifes, rows
<1>4. ASSUME NEW s \in Ntf, initial_turn_ends(s)
      PROVE  RunningIsMinded'
  <2>1. stack'["all"] = stack["all"]
    BY <1>4, <1>a DEF initial_turn_ends
  <2> QED BY <1>4, <2>1, <1>a, <1>s, <1>e DEF initial_turn_ends, births, lifes
<1>5. ASSUME NEW s \in Ntf, release_notification(s)
      PROVE  RunningIsMinded'
  <2>1. stack'["all"] = stack["all"]
    BY <1>5, <1>a DEF release_notification
  <2> QED BY <1>5, <2>1, <1>a, <1>s, <1>e DEF release_notification, births, lifes
<1>6. ASSUME NEW s \in Ntf, settle_pending(s)
      PROVE  RunningIsMinded'
  <2>1. stack'["all"] = stack["all"]
    BY <1>6, <1>a DEF settle_pending
  <2> QED BY <1>6, <2>1, <1>a, <1>s, <1>e DEF settle_pending, births, lifes
<1>7. ASSUME NEW s \in Ntf, cleanup_subagent(s)
      PROVE  RunningIsMinded'
  <2>1. task[s] # "running" /\ task' = task
    BY <1>7 DEF cleanup_subagent, Runs, EndedBeforeKick, rows
  <2> QED BY <1>7, <2>1, <1>a, <1>u, <1>e DEF cleanup_subagent, births, lifes
<1>8. ASSUME NEW s \in Ntf, take_cancel(s)
      PROVE  RunningIsMinded'
  <2>1. stack'["all"] = stack["all"]
    BY <1>8, <1>a DEF take_cancel
  <2> QED BY <1>8, <2>1, <1>a, <1>s, <1>e DEF take_cancel, births, lifes
<1>9. ASSUME NEW s \in Ntf, cancel_subagent_task(s)
      PROVE  RunningIsMinded'
  <2>1. stack'["all"] = stack["all"] /\ cpc'["all"] = cpc["all"]
    BY <1>9, <1>a DEF cancel_subagent_task, Push, cancels
  <2> QED BY <1>9, <2>1, <1>a, <1>s, <1>e DEF cancel_subagent_task, births, lifes
<1>10. ASSUME NEW p \in Procs, sweep_select(p), p = "all" => Len(stack[p]) > 1
      PROVE  RunningIsMinded'
  <2>1. Flushing' => Flushing /\ stack'["all"][1] = stack["all"][1]
    <3>1. p = "all" => Len(stack[p]) # 1
      <4>1. \A k : k = 1 => ~(k > 1)
        OBVIOUS
      <4> QED BY <1>10, <4>1
    <3> QED BY <1>10, <3>1, TeardownTurns, FlushStays
  <2> QED BY <1>10, <2>1, <1>a, <1>e DEF sweep_select, births, lifes
<1>11. ASSUME NEW p \in Procs, sweep_flush(p), p = "all" => Len(stack[p]) > 1
      PROVE  RunningIsMinded'
  <2>1. Flushing' => Flushing /\ stack'["all"][1] = stack["all"][1]
    <3>1. PICK T, D : Turns(p, "record", T, D)
      BY <1>11, TeardownTurns
    <3> QED BY <3>1, FlushStays
  <2> QED BY <1>11, <2>1, <1>a, <1>e DEF sweep_flush, births, lifes
<1>12. ASSUME NEW p \in Procs, cancel_notifications(p)
      PROVE  RunningIsMinded'
  <2>1. Flushing' => Flushing /\ stack'["all"][1] = stack["all"][1]
    <3>1. PICK T, D : Turns(p, "match", T, D)
      BY <1>12, TeardownTurns
    <3> QED BY <3>1, FlushStays
  <2> QED BY <1>12, <2>1, <1>a, <1>e DEF cancel_notifications, births, lifes
<1>13. ASSUME NEW p \in Procs, match_children(p)
      PROVE  RunningIsMinded'
  <2>1. Flushing' => Flushing /\ stack'["all"][1] = stack["all"][1]
    BY <1>13, TeardownTurns, FlushStays
  <2> QED BY <1>13, <2>1, <1>a, <1>e DEF match_children, births, lifes
<1>14. ASSUME NEW p \in Procs, NEW c \in Ntf, stop_driver(p, c)
      PROVE  RunningIsMinded'
  <2>1. PICK D : Turns(p, "stop", Top(p).todo \ {c}, D)
    BY <1>14, TeardownTurns
  <2>2. Flushing' => Flushing /\ stack'["all"][1] = stack["all"][1]
    BY <2>1, FlushStays
  <2> QED BY <1>14, <2>2, <1>a, <1>e DEF stop_driver, births, lifes
<1>15. ASSUME NEW p \in Procs, cancel_dormant(p)
      PROVE  RunningIsMinded'
  <2>1. Flushing' => Flushing /\ stack'["all"][1] = stack["all"][1]
    <3>1. CASE Top(p).dormant = {}
      BY <1>15, <3>1, TeardownTurns, FlushStays
    <3>2. CASE Top(p).dormant # {}
      <4>1. PICK c : Pushes(p, Turned(Top(p), "stop", {}, Top(p).dormant \ {c}), Teardown(c, "canceled"))
        BY <1>15, <3>2, DormantPushed
      <4>2. Turned(Top(p), "stop", {}, Top(p).dormant \ {c}).at = "stop"
        BY DEF Turned
      <4> QED BY <4>1, <4>2, FlushStays
    <3> QED BY <3>1, <3>2
  <2> QED BY <1>15, <2>1, <1>a, <1>e DEF cancel_dormant, births, lifes
<1>16. ASSUME NEW p \in Procs, finish_record(p)
      PROVE  RunningIsMinded'
  <2>1. Flushing' => Flushing /\ stack'["all"][1] = stack["all"][1]
    <3>1. PICK T, D : Turns(p, "kick", T, D)
      BY <1>16, TeardownTurns
    <3> QED BY <3>1, FlushStays
  <2> QED BY <1>16, <2>1, <1>a, <1>e DEF finish_record, births, lifes
<1>17. ASSUME NEW p \in Procs, teardown_resumes_parent(p)
      PROVE  RunningIsMinded'
  <2>1. Flushing' => Flushing /\ stack'["all"][1] = stack["all"][1]
    <3>1. PICK T, D : Turns(p, "clean", T, D)
      BY <1>17, TeardownTurns
    <3> QED BY <3>1, FlushStays
  <2> QED BY <1>17, <2>1, <1>a, <1>e DEF teardown_resumes_parent, births, lifes
<1>18. ASSUME NEW p \in Procs, teardown_cleans(p)
      PROVE  RunningIsMinded'
  <2>1. /\ stack[p] # <<>> /\ stack' = Pop(p) /\ Top(p).at = "clean" /\ Len(stack[p]) \in Nat
        /\ Len(stack[p]) \in DOMAIN stack[p] /\ DOMAIN stack[p] = 1..Len(stack[p])
        /\ FrameFits(p, Len(stack[p]), Top(p))
    BY <1>18, StackShape DEF teardown_cleans, Steps, FramesFit, Top
  <2>2. task'[Top(p).run] # "running"
    BY <1>18, <2>1 DEF FrameFits, teardown_cleans, rows
  <2>3. Flushing' => Flushing /\ stack'["all"][1] = stack["all"][1]
    <3>1. CASE p # "all"
      BY <1>a, <2>1, <3>1, TopPopped DEF Flushing
    <3>2. CASE p = "all"
      <4>1. Len(stack[p]) # 1
        BY <2>1, <3>2 DEF FrameFits
      <4>2. stack'[p][1] = stack[p][1] /\ stack'[p] # <<>>
        BY <2>1, <4>1, TopPopped
      <4> QED BY <2>1, <3>2, <4>2 DEF Flushing
    <3> QED BY <3>1, <3>2
  <2> QED BY <1>18, <2>2, <2>3, <1>a, <1>e DEF teardown_cleans, births, lifes
<1>19. CASE tool_returns
  BY <1>19, <1>a, <1>u, <1>e DEF tool_returns, births, lifes
<1>20. CASE tool_canceled
  <2>1. stack'["all"] = stack["all"] /\ cpc'["all"] = cpc["all"]
    BY <1>20, <1>a DEF tool_canceled
  <2> QED BY <1>20, <2>1, <1>a, <1>s, <1>e DEF tool_canceled, births
<1>21. CASE cancel_session_starters
  <2>1. stack' = stack /\ stack["all"] = <<>> /\ cpc'["all"] = "wait" /\ boot' = boot
    BY <1>21, <1>a DEF cancel_session_starters, StacksAgree, lifes
  <2> QED BY <2>1 DEF RunningIsMinded, Flushing
<1>22. CASE cancel_session_drivers
  <2>1. cpc'["all"] = "inner" /\ stack'["all"] # <<>> /\ stack'["all"][1].at = "stop"
    BY <1>22, <1>a, StacksStart DEF cancel_session_drivers, Starts
  <2> QED BY <2>1 DEF RunningIsMinded, Flushing
<1>23. CASE cancel_session_select
  <2> DEFINE T == {c \in Ntf : task[c] = "running"}
  <2>1. Turns("all", "flush", T, Top("all").dormant) /\ stack["all"] # <<>> /\ Len(stack["all"]) = 1
    BY <1>23, SelectTurns DEF cancel_session_select, Turns
  <2>2. stack'["all"][1].todo = T
    <3>1. 1 \in DOMAIN stack["all"]
      BY <1>a, <2>1, StackShape
    <3>2. Turned(Top("all"), "flush", T, Top("all").dormant).todo = T
      BY DEF Turned
    <3> QED BY <2>1, <3>1, <3>2 DEF Turns, TopBecomes
  <2>3. task' = task /\ cpc'["all"] # "idle"
    BY <1>23 DEF cancel_session_select, rows
  <2> QED BY <2>2, <2>3 DEF RunningIsMinded, Swept
<1>24. CASE cancel_session_flush
  <2>1. /\ stack["all"] # <<>> /\ Flushing /\ Top("all") = stack["all"][1]
        /\ stack'["all"] = <<>> /\ UNCHANGED <<reg, starter>> /\ boot' = boot
    <3>1. stack["all"] # <<>> /\ Top("all") = stack["all"][1]
      BY <1>24, <1>a, StackShape DEF cancel_session_flush, Top
    <3> QED BY <1>24, <1>a, <3>1 DEF cancel_session_flush, Flushing, births, lifes
  <2>2. \A s \in Ntf : task'[s] = "running" => task[s] = "running" /\ ~Swept(s)
    BY <1>24, <1>a, <2>1 DEF cancel_session_flush, SweepRows, Swept
  <2>3. ~Flushing'
    BY <2>1 DEF Flushing
  <2> QED BY <2>1, <2>2, <2>3 DEF RunningIsMinded, Up
<1>25. CASE backend_crash
  BY <1>25, <1>a DEF backend_crash, RunningIsMinded, Up, Flushing
<1>26. CASE reset_processing_notifications_all
  <2>1. stack["all"] = <<>> /\ stack' = stack
    BY <1>26, <1>a DEF reset_processing_notifications_all, StartupAlone, Up, cancels
  <2> QED BY <1>26, <2>1 DEF reset_processing_notifications_all, RunningIsMinded, Up, Flushing
<1>27. CASE mark_stale_running_subagent_tasks_failed
  <2>1. stack["all"] = <<>> /\ stack' = stack
    BY <1>27, <1>a DEF mark_stale_running_subagent_tasks_failed, StartupAlone, Up, cancels
  <2> QED BY <1>27, <2>1 DEF mark_stale_running_subagent_tasks_failed, RunningIsMinded, Up, Flushing
<1>28. CASE cancel_stale_notifications
  <2>1. stack["all"] = <<>> /\ stack' = stack /\ \A s \in Ntf : task'[s] # "running"
    BY <1>28, <1>a DEF cancel_stale_notifications, StartupAlone, Up, cancels
  <2> QED BY <2>1 DEF RunningIsMinded, Flushing
<1>29. ASSUME NEW s \in Ntf,
             claim_next_pending_notification(s) \/ notification_turn_ends(s) \/
             settle_outstanding(s) \/ complete_subagent(s) \/ resume_parent(s) \/
             drive_aborts(s) \/ root_takes(s)
      PROVE  RunningIsMinded'
  BY <1>29, <1>a, <1>u, <1>e DEF claim_next_pending_notification, notification_turn_ends, settle_outstanding,
         complete_subagent, resume_parent, drive_aborts, root_takes, rows, drives,
         cancels, births, lifes
<1>30. CASE UNCHANGED treeVars
  BY <1>30, <1>a, <1>u, <1>e DEF treeVars, rows, drives, cancels, births, lifes
<1> QED BY <1>1, <1>2, <1>3, <1>4, <1>5, <1>6, <1>7, <1>8, <1>9, <1>10, <1>11, <1>12, <1>13, <1>14,
           <1>15, <1>16, <1>17, <1>18, <1>19, <1>20, <1>21, <1>22, <1>23, <1>24, <1>25, <1>26,
           <1>27, <1>28, <1>29, <1>30
        DEF TreeNext, Drive, TeardownStep, CancelAll, Startup

-----------------------------------------------------------------------------
(* Nothing has been started in the initial state.                           *)
LEMMA SettledInit == TreeInit => SettledInv
<1> SUFFICES ASSUME TreeInit PROVE SettledInv
  OBVIOUS
<1>0. /\ task = [s \in Ntf |-> "absent"] /\ pc = [s \in Ntf |-> "none"] /\ item = [s \in Ntf |-> s]
      /\ owner = [s \in Ntf |-> Root] /\ starter = [s \in Ntf |-> "none"]
      /\ attempt = [s \in Ntf |-> 0] /\ cpc = [c \in Cancelers |-> "idle"]
      /\ reg = {} /\ hit = {} /\ stale = {} /\ aborted = {} /\ boot = "up"
      /\ stack = [p \in Procs |-> <<>>] /\ waits = [p \in Procs |-> {}]
      /\ used = [cancels |-> 0, alls |-> 0, crashes |-> 0]
      /\ Ntf \subseteq Procs /\ "tool" \in Procs /\ "all" \in Procs
      /\ "tool" \in Cancelers /\ "all" \in Cancelers
  BY DEF TreeInit, Procs, Cancelers
<1>1. \A s \in Ntf : row[s] \in Rows /\ row[s].status = "absent"
  <2> DEFINE r == [NoRow EXCEPT !.kind = "subagent_finished", !.to = Root]
  <2>1. NoRow.status = "absent" /\ NoRow.born = 0 /\ NoRow.started = FALSE
    BY DEF NoRow
  <2>2. r \in Rows /\ r.status = "absent"
    BY TreeAssumption DEF NoRow, Rows, Kinds, Statuses
  <2>3. row = [s \in Ntf |-> r]
    BY DEF TreeInit
  <2> HIDE DEF r
  <2> QED BY <2>2, <2>3
<1>2. TreeTypeOK
  <2>1. row \in [Ntf -> Rows]
    BY <1>1 DEF TreeInit
  <2>2. task \in [Ntf -> TaskStatus] /\ pc \in [Ntf -> DriveStep] /\ starter \in [Ntf -> StarterStep]
    BY <1>0 DEF TaskStatus, DriveStep, StarterStep
  <2>3. owner \in [Ntf -> Instances] /\ item \in [Ntf -> Ntf] /\ cpc \in [Cancelers -> {"idle", "wait", "inner"}]
    BY <1>0, TreeAssumption
  <2>4. /\ attempt \in [Ntf -> 0..MaxRelaunch]
        /\ used \in [cancels : 0..MaxCancels, alls : 0..MaxAlls, crashes : 0..MaxCrashes]
    BY <1>0, BoundsAssumption
  <2>5. stack \in [Procs -> Seq(Frames)] /\ waits \in [Procs -> SUBSET Ntf]
    BY <1>0
  <2> QED BY <1>0, <2>1, <2>2, <2>3, <2>4, <2>5 DEF TreeTypeOK
<1>3. ObligationFollowsTask /\ Lineage
  BY <1>0, <1>1 DEF ObligationFollowsTask, Lineage, KnownFirst, StartersApart, ParentsFirst, ItemsFit, Known
<1>4. StartupAlone /\ AwaitedLive /\ StacksAgree /\ EndedBeforeKick /\ RunningIsMinded
  BY <1>0 DEF StartupAlone, Up, AwaitedLive, StacksAgree, EndedBeforeKick, RunningIsMinded, Flushing
<1>5. FramesFit
  BY <1>0 DEF FramesFit
<1> QED BY <1>2, <1>3, <1>4, <1>5 DEF SettledInv

(* Every step leaves it settled.                                            *)
LEMMA SettledStep == SettledInv /\ [TreeNext]_treeVars => SettledInv'
<1> SUFFICES ASSUME SettledInv, [TreeNext]_treeVars PROVE SettledInv'
  OBVIOUS
<1>1. /\ TreeTypeOK /\ ObligationFollowsTask /\ StartupAlone /\ Lineage /\ AwaitedLive
      /\ StacksAgree /\ FramesFit /\ EndedBeforeKick /\ RunningIsMinded
  BY DEF SettledInv
<1>2. TreeTypeOK' /\ ObligationFollowsTask' /\ StartupAlone'
  BY <1>1, TreeTypesStep, ObligationStep, StartupStep
<1>3. Lineage'
  BY <1>1, KnownFirstStep, StartersApartStep, ParentsFirstStep, ItemsFitStep DEF Lineage
<1>4. AwaitedLive' /\ StacksAgree' /\ FramesFit'
  BY <1>1, AwaitedLiveStep, StacksAgreeStep, FramesFitStep
<1>5. EndedBeforeKick' /\ RunningIsMinded'
  BY <1>1, KickStep, MindedStep
<1> QED BY <1>2, <1>3, <1>4, <1>5 DEF SettledInv

(* A run's task row, its obligation towards its parent and its driver tell *)
(* the same story, whatever is canceled, broken off or restarted           *)
(* (_complete_subagent, _teardown_subtree, cancel_session_subagent_runs,   *)
(* start_subagent_runtime).                                                *)
THEOREM RunsStaySettled == TreeSpec => []RunsAreSettled
<1>1. SettledInv => RunsAreSettled
  BY DEF SettledInv, RunsAreSettled, RunningIsMinded, RunningHasDriver
<1> QED BY <1>1, SettledInit, SettledStep, PTL DEF TreeSpec

-----------------------------------------------------------------------------
(* Who is owed what.                                                        *)

(* While a tool call starts a child its run is on its turn.                 *)
LEMMA OpenToolStep ==
    ASSUME SettledInv, OpenToolHolds, CompletedIsOver,
           [TreeNext]_treeVars
    PROVE  OpenToolHolds'
<1>h. /\ TreeTypeOK /\ ObligationFollowsTask /\ StartupAlone /\ Lineage /\ AwaitedLive
      /\ StacksAgree /\ FramesFit /\ EndedBeforeKick /\ RunningIsMinded
      /\ KnownFirst /\ StartersApart /\ ParentsFirst /\ ItemsFit
  BY DEF SettledInv, Lineage
<1>a. /\ pc \in [Ntf -> DriveStep] /\ starter \in [Ntf -> StarterStep] /\ reg \in SUBSET Ntf
      /\ aborted \in SUBSET Ntf /\ owner \in [Ntf -> Instances] /\ task \in [Ntf -> TaskStatus]
      /\ Ntf \subseteq Procs
  BY <1>h DEF TreeTypeOK, Procs
<1>c. \A s \in Ntf : task'[s] = "completed" =>
         task[s] = "completed" \/ (complete_subagent(s) /\ pc[s] = "output")
  BY <1>h, TaskStep DEF TaskMoves, complete_subagent, Runs
<1>e. ASSUME \A s \in Ntf : starter'[s] # "none" => starter[s] # "none" /\ owner'[s] = owner[s],
             aborted \subseteq aborted',
             \A s \in Ntf : \/ pc'[s] = pc[s] /\ (s \in reg' => s \in reg)
                            \/ s \in aborted'
                            \/ pc[s] \notin {"turn0", "turn", "release", "teardown", "none"}
                            \/ pc[s] = "none" /\ s \in reg
                            \/ \A c \in Ntf : starter[c] # "none" => owner[c] # s
                            \/ pc'[s] \in {"turn0", "turn", "release", "teardown"}
                            \/ pc'[s] = "none" /\ s \notin reg'
      PROVE  OpenToolHolds'
  <2> SUFFICES ASSUME NEW c \in Ntf, starter'[c] # "none", owner'[c] \in Ntf, owner'[c] \notin aborted'
               PROVE  /\ task'[owner'[c]] # "completed"
                      /\ pc'[owner'[c]] \in {"turn0", "turn", "release", "teardown"}
                         \/ (pc'[owner'[c]] = "none" /\ owner'[c] \notin reg')
    BY DEF OpenToolHolds
  <2>1. /\ starter[c] # "none" /\ owner'[c] = owner[c] /\ owner[c] \in Ntf /\ owner[c] \notin aborted
    BY <1>e
  <2>2. /\ task[owner[c]] # "completed"
        /\ pc[owner[c]] \in {"turn0", "turn", "release", "teardown"} \/ (pc[owner[c]] = "none" /\ owner[c] \notin reg)
    BY <2>1 DEF OpenToolHolds
  <2>3. task'[owner[c]] # "completed"
    BY <1>c, <2>1, <2>2
  <2> QED BY <1>e, <2>1, <2>2, <2>3
<1>w. ASSUME NEW i, NEW l, Wakes(i, l), l \in [Ntf -> DriveStep]
      PROVE  \A s \in Ntf : pc'[s] = l[s] \/ (pc[s] = "none" /\ s \in reg /\ pc'[s] = "claim")
  BY <1>w DEF Wakes

<1>1. ASSUME NEW s \in Ntf, NEW i \in Instances, start_subagent_task(i, s)
      PROVE  OpenToolHolds'
  <2>1. /\ owner' = [owner EXCEPT ![s] = i] /\ starter' = [starter EXCEPT ![s] = "create"]
        /\ i # Root => pc[i] \in {"turn0", "turn"}
        /\ UNCHANGED <<pc, task, reg, aborted>>
    BY <1>1 DEF start_subagent_task, Turning, drives, rows, lifes
  <2>2. ASSUME i \in Ntf \ aborted PROVE task[i] # "completed" /\ pc[i] \in {"turn0", "turn"}
    BY <2>1, <2>2, TreeAssumption DEF CompletedIsOver
  <2> QED BY <1>a, <2>1, <2>2 DEF OpenToolHolds
<1>2. ASSUME NEW s \in Ntf, create_subagent_task(s)
      PROVE  OpenToolHolds'
  BY <1>2, <1>a, <1>e DEF drives, create_subagent_task, Goto, Runs, births, lifes
<1>3. ASSUME NEW s \in Ntf, register_driver(s)
      PROVE  OpenToolHolds'
  BY <1>3, <1>a, <1>e DEF register_driver, Goto, Runs, births, lifes
<1>4. ASSUME NEW s \in Ntf, initial_turn_ends(s)
      PROVE  OpenToolHolds'
  BY <1>4, <1>a, <1>e DEF initial_turn_ends, Goto, Runs, births, lifes, NoOpenTool
<1>5. ASSUME NEW s \in Ntf, claim_next_pending_notification(s)
      PROVE  OpenToolHolds'
  BY <1>5, <1>a, <1>e DEF claim_next_pending_notification, Goto, Runs, births, lifes
<1>6. ASSUME NEW s \in Ntf, notification_turn_ends(s)
      PROVE  OpenToolHolds'
  BY <1>6, <1>a, <1>e DEF notification_turn_ends, Goto, Runs, births, lifes, NoOpenTool
<1>7. ASSUME NEW s \in Ntf, release_notification(s)
      PROVE  OpenToolHolds'
  BY <1>7, <1>a, <1>e DEF release_notification, Goto, Runs, births, lifes
<1>8. ASSUME NEW s \in Ntf, settle_pending(s)
      PROVE  OpenToolHolds'
  BY <1>8, <1>a, <1>e DEF settle_pending, Goto, Runs, births, lifes
<1>9. ASSUME NEW s \in Ntf, settle_outstanding(s)
      PROVE  OpenToolHolds'
  BY <1>9, <1>a, <1>e DEF settle_outstanding, Goto, Runs, births, lifes
<1>10. ASSUME NEW s \in Ntf, complete_subagent(s)
      PROVE  OpenToolHolds'
  BY <1>10, <1>a, <1>e DEF complete_subagent, Goto, Runs, births, lifes
<1>11. ASSUME NEW s \in Ntf, resume_parent(s)
      PROVE  OpenToolHolds'
  <2>1. [pc EXCEPT ![s] = "clean"] \in [Ntf -> DriveStep]
    BY <1>a DEF DriveStep, InTry
  <2>2. \A q \in Ntf : pc'[q] = [pc EXCEPT ![s] = "clean"][q] \/ (pc[q] = "none" /\ q \in reg /\ pc'[q] = "claim")
    BY <1>11, <1>w, <2>1 DEF resume_parent
  <2> QED BY <1>11, <2>2, <1>a, <1>e DEF resume_parent, Runs, births, lifes
<1>12. ASSUME NEW s \in Ntf, cleanup_subagent(s)
      PROVE  OpenToolHolds'
  BY <1>12, <1>a, <1>e DEF cleanup_subagent, Goto, Runs, births, lifes
<1>13. ASSUME NEW s \in Ntf, take_cancel(s)
      PROVE  OpenToolHolds'
  <2>0. pc'[s] = "dying" => s \in aborted'
    BY <1>13, <1>h, StacksAgreeStep DEF StacksAgree
  <2>1. aborted \subseteq aborted' /\ reg' = reg /\ starter' = starter /\ owner' = owner
    BY <1>13 DEF take_cancel, births
  <2>2. pc[s] = "release" => pc'[s] = "teardown"
    BY <1>13, <1>a DEF take_cancel, InTry, Goto
  <2>3. pc'[s] \in {"release", "teardown", "dying"} /\ \A q \in Ntf : q # s => pc'[q] = pc[q]
    BY <1>13, <1>a DEF take_cancel, Goto
  <2> QED BY <1>e, <2>0, <2>1, <2>3
<1>14. ASSUME NEW s \in Ntf, drive_aborts(s)
      PROVE  OpenToolHolds'
  BY <1>14, <1>a, <1>h, <1>e DEF drive_aborts, Goto, Runs, births, lifes, StacksAgree
<1>15. ASSUME NEW p \in Procs, teardown_resumes_parent(p)
      PROVE  OpenToolHolds'
  <2>1. \A q \in Ntf : pc'[q] = pc[q] \/ (pc[q] = "none" /\ q \in reg /\ pc'[q] = "claim")
    BY <1>15, <1>a, <1>w DEF teardown_resumes_parent
  <2> QED BY <1>15, <2>1, <1>a, <1>e DEF teardown_resumes_parent, births, lifes
<1>16. ASSUME NEW p \in Procs, teardown_cleans(p)
      PROVE  OpenToolHolds'
  <2>1. p \in Ntf /\ Len(stack[p]) = 1 => Top(p).run = p
    BY <1>16, <1>a, <1>h DEF teardown_cleans, Steps, StacksAgree, Top
  <2> QED BY <1>16, <2>1, <1>a, <1>e DEF teardown_cleans, Goto, births, lifes
<1>17. CASE tool_canceled
  BY <1>17, <1>a, <1>e DEF tool_canceled, drives, births
<1>18. CASE cancel_session_starters
  BY <1>18, <1>a DEF cancel_session_starters, OpenToolHolds
<1>19. CASE backend_crash
  BY <1>19, <1>a DEF backend_crash, OpenToolHolds
<1>20. ASSUME NEW s \in Ntf,
             root_takes(s) \/ cancel_subagent_task(s)
      PROVE  OpenToolHolds'
  BY <1>20, <1>a, <1>e DEF root_takes, cancel_subagent_task, rows, drives, cancels, births, lifes
<1>21. ASSUME NEW p \in Procs,
             sweep_select(p) \/ sweep_flush(p) \/ cancel_notifications(p) \/
             match_children(p) \/ cancel_dormant(p) \/ finish_record(p)
      PROVE  OpenToolHolds'
  BY <1>21, <1>a, <1>e DEF sweep_select, sweep_flush, cancel_notifications, match_children, cancel_dormant,
         finish_record, rows, drives, cancels, births, lifes
<1>22. ASSUME NEW p \in Procs, NEW c \in Ntf,
             stop_driver(p, c)
      PROVE  OpenToolHolds'
  BY <1>22, <1>a, <1>e DEF stop_driver, rows, drives, cancels, births, lifes
<1>23. CASE tool_returns \/ cancel_session_drivers \/ cancel_session_select \/
          cancel_session_flush \/ reset_processing_notifications_all \/
          mark_stale_running_subagent_tasks_failed \/ cancel_stale_notifications \/
          UNCHANGED treeVars
  BY <1>23, <1>a, <1>e DEF tool_returns, cancel_session_drivers, cancel_session_select,
         cancel_session_flush, reset_processing_notifications_all,
         mark_stale_running_subagent_tasks_failed, cancel_stale_notifications, treeVars,
         rows, drives, cancels, births, lifes
<1> QED BY <1>1, <1>2, <1>3, <1>4, <1>5, <1>6, <1>7, <1>8, <1>9, <1>10, <1>11, <1>12, <1>13, <1>14,
           <1>15, <1>16, <1>17, <1>18, <1>19, <1>20, <1>21, <1>22, <1>23
        DEF TreeNext, Drive, TeardownStep, CancelAll, Startup

(* A run that has completed goes on to its end.                             *)
LEMMA CompletedStep ==
    ASSUME SettledInv, CompletedIsOver,
           [TreeNext]_treeVars
    PROVE  CompletedIsOver'
<1>h. /\ TreeTypeOK /\ ObligationFollowsTask /\ StartupAlone /\ Lineage /\ AwaitedLive
      /\ StacksAgree /\ FramesFit /\ EndedBeforeKick /\ RunningIsMinded
      /\ KnownFirst /\ StartersApart /\ ParentsFirst /\ ItemsFit
  BY DEF SettledInv, Lineage
<1>a. /\ pc \in [Ntf -> DriveStep] /\ reg \in SUBSET Ntf /\ aborted \in SUBSET Ntf
      /\ task \in [Ntf -> TaskStatus] /\ Ntf \subseteq Procs
  BY <1>h DEF TreeTypeOK, Procs
<1>c. \A s \in Ntf : task'[s] = "completed" =>
         task[s] = "completed" \/ (complete_subagent(s) /\ pc[s] = "output")
  BY <1>h, TaskStep DEF TaskMoves, complete_subagent, Runs
<1>d. \A s \in Ntf : complete_subagent(s) => pc'[s] = "kick"
  BY <1>a DEF complete_subagent, Goto
<1>e. ASSUME aborted \subseteq aborted',
             \A s \in Ntf : \/ pc'[s] = pc[s] /\ (s \in reg' => s \in reg)
                            \/ s \in aborted'
                            \/ pc[s] \notin {"kick", "clean", "teardown", "none"}
                            \/ pc[s] = "none" /\ s \in reg
                            \/ task[s] # "completed"
                            \/ pc'[s] \in {"kick", "clean", "teardown"}
                            \/ pc'[s] = "none" /\ s \notin reg'
      PROVE  CompletedIsOver'
  <2> SUFFICES ASSUME NEW s \in Ntf, task'[s] = "completed", s \notin aborted'
               PROVE  pc'[s] \in {"kick", "clean", "teardown"} \/ (pc'[s] = "none" /\ s \notin reg')
    BY DEF CompletedIsOver
  <2>1. CASE task[s] = "completed"
    BY <1>e, <2>1 DEF CompletedIsOver
  <2>2. CASE complete_subagent(s)
    BY <1>d, <2>2
  <2> QED BY <1>c, <2>1, <2>2
<1>w. ASSUME NEW i, NEW l, Wakes(i, l), l \in [Ntf -> DriveStep]
      PROVE  \A s \in Ntf : pc'[s] = l[s] \/ (pc[s] = "none" /\ s \in reg /\ pc'[s] = "claim")
  BY <1>w DEF Wakes

<1>1. ASSUME NEW s \in Ntf, register_driver(s)
      PROVE  CompletedIsOver'
  BY <1>1, <1>a, <1>h, <1>e DEF register_driver, Goto, lifes, StartersApart
<1>2. ASSUME NEW s \in Ntf, initial_turn_ends(s)
      PROVE  CompletedIsOver'
  BY <1>2, <1>a, <1>e DEF initial_turn_ends, Goto, Runs, births, lifes
<1>3. ASSUME NEW s \in Ntf, claim_next_pending_notification(s)
      PROVE  CompletedIsOver'
  BY <1>3, <1>a, <1>e DEF claim_next_pending_notification, Goto, Runs, births, lifes
<1>4. ASSUME NEW s \in Ntf, notification_turn_ends(s)
      PROVE  CompletedIsOver'
  BY <1>4, <1>a, <1>e DEF notification_turn_ends, Goto, Runs, births, lifes
<1>5. ASSUME NEW s \in Ntf, release_notification(s)
      PROVE  CompletedIsOver'
  BY <1>5, <1>a, <1>e DEF release_notification, Goto, Runs, births, lifes
<1>6. ASSUME NEW s \in Ntf, settle_pending(s)
      PROVE  CompletedIsOver'
  BY <1>6, <1>a, <1>e DEF settle_pending, Goto, Runs, births, lifes
<1>7. ASSUME NEW s \in Ntf, settle_outstanding(s)
      PROVE  CompletedIsOver'
  BY <1>7, <1>a, <1>e DEF settle_outstanding, Goto, Runs, births, lifes
<1>8. ASSUME NEW s \in Ntf, complete_subagent(s)
      PROVE  CompletedIsOver'
  BY <1>8, <1>a, <1>e DEF complete_subagent, Goto, Runs, births, lifes
<1>9. ASSUME NEW s \in Ntf, resume_parent(s)
      PROVE  CompletedIsOver'
  <2>1. [pc EXCEPT ![s] = "clean"] \in [Ntf -> DriveStep]
    BY <1>a DEF DriveStep, InTry
  <2>2. \A q \in Ntf : pc'[q] = [pc EXCEPT ![s] = "clean"][q] \/ (pc[q] = "none" /\ q \in reg /\ pc'[q] = "claim")
    BY <1>9, <1>w, <2>1 DEF resume_parent
  <2> QED BY <1>9, <2>2, <1>a, <1>e DEF resume_parent, Runs, births, lifes
<1>10. ASSUME NEW s \in Ntf, cleanup_subagent(s)
      PROVE  CompletedIsOver'
  BY <1>10, <1>a, <1>e DEF cleanup_subagent, Goto, Runs, births, lifes
<1>11. ASSUME NEW s \in Ntf, take_cancel(s)
      PROVE  CompletedIsOver'
  <2>0. pc'[s] = "dying" => s \in aborted'
    BY <1>11, <1>h, StacksAgreeStep DEF StacksAgree
  <2>1. aborted \subseteq aborted' /\ reg' = reg
    BY <1>11 DEF take_cancel
  <2>2. pc[s] \in {"kick", "clean", "teardown", "none"} => pc'[s] \in {"teardown", "dying"}
    BY <1>11, <1>a DEF take_cancel, Goto
  <2>3. \A q \in Ntf : q # s => pc'[q] = pc[q]
    BY <1>11, <1>a DEF take_cancel, Goto
  <2> QED BY <1>e, <2>0, <2>1, <2>2, <2>3
<1>12. ASSUME NEW s \in Ntf, drive_aborts(s)
      PROVE  CompletedIsOver'
  BY <1>12, <1>a, <1>h, <1>e DEF drive_aborts, Goto, Runs, births, lifes, StacksAgree
<1>13. ASSUME NEW p \in Procs, teardown_resumes_parent(p)
      PROVE  CompletedIsOver'
  <2>1. \A q \in Ntf : pc'[q] = pc[q] \/ (pc[q] = "none" /\ q \in reg /\ pc'[q] = "claim")
    BY <1>13, <1>a, <1>w DEF teardown_resumes_parent
  <2> QED BY <1>13, <2>1, <1>a, <1>e DEF teardown_resumes_parent, births, lifes
<1>14. ASSUME NEW p \in Procs, teardown_cleans(p)
      PROVE  CompletedIsOver'
  <2>1. p \in Ntf /\ Len(stack[p]) = 1 => Top(p).run = p
    BY <1>14, <1>a, <1>h DEF teardown_cleans, Steps, StacksAgree, Top
  <2> QED BY <1>14, <2>1, <1>a, <1>e DEF teardown_cleans, Goto, births, lifes
<1>15. CASE tool_canceled
  BY <1>15, <1>a, <1>e DEF tool_canceled, drives, births
<1>16. CASE backend_crash
  BY <1>16, <1>a DEF backend_crash, CompletedIsOver
<1>17. ASSUME NEW s \in Ntf, NEW i \in Instances,
             start_subagent_task(i, s)
      PROVE  CompletedIsOver'
  BY <1>17, <1>a, <1>e DEF start_subagent_task, rows, drives, cancels, births, lifes
<1>18. ASSUME NEW s \in Ntf,
             create_subagent_task(s) \/ root_takes(s) \/ cancel_subagent_task(s)
      PROVE  CompletedIsOver'
  BY <1>18, <1>a, <1>e DEF create_subagent_task, root_takes, cancel_subagent_task, rows, drives, cancels,
         births, lifes
<1>19. ASSUME NEW p \in Procs,
             sweep_select(p) \/ sweep_flush(p) \/ cancel_notifications(p) \/
             match_children(p) \/ cancel_dormant(p) \/ finish_record(p)
      PROVE  CompletedIsOver'
  BY <1>19, <1>a, <1>e DEF sweep_select, sweep_flush, cancel_notifications, match_children, cancel_dormant,
         finish_record, rows, drives, cancels, births, lifes
<1>20. ASSUME NEW p \in Procs, NEW c \in Ntf,
             stop_driver(p, c)
      PROVE  CompletedIsOver'
  BY <1>20, <1>a, <1>e DEF stop_driver, rows, drives, cancels, births, lifes
<1>21. CASE tool_returns \/ cancel_session_starters \/ cancel_session_drivers \/
          cancel_session_select \/ cancel_session_flush \/
          reset_processing_notifications_all \/ mark_stale_running_subagent_tasks_failed
          \/ cancel_stale_notifications \/ UNCHANGED treeVars
  BY <1>21, <1>a, <1>e DEF tool_returns, cancel_session_starters, cancel_session_drivers,
         cancel_session_select, cancel_session_flush, reset_processing_notifications_all,
         mark_stale_running_subagent_tasks_failed, cancel_stale_notifications, treeVars,
         rows, drives, cancels, births, lifes
<1> QED BY <1>1, <1>2, <1>3, <1>4, <1>5, <1>6, <1>7, <1>8, <1>9, <1>10, <1>11, <1>12, <1>13, <1>14,
           <1>15, <1>16, <1>17, <1>18, <1>19, <1>20, <1>21
        DEF TreeNext, Drive, TeardownStep, CancelAll, Startup

(* What takes an obligation from its recipient.                             *)
Drops(n) ==
    \/ \E x \in Ntf : notification_turn_ends(x) /\ item[x] = n
    \/ root_takes(n)
    \/ cancel_subagent_task(n) /\ n \notin reg /\ task[n] = "running"
    \/ \E p \in Procs : cancel_notifications(p) /\ row[n].to = Top(p).run
    \/ \E p \in Procs : sweep_flush(p) /\ n \in Top(p).todo /\ (p = "all" => Len(stack[p]) > 1)
    \/ \E p \in Procs : finish_record(p) /\ Top(p).run = n
    \/ cancel_session_flush /\ n \in Top("all").todo
    \/ ~Up

(* What makes a result ready.                                               *)
Brings(n) ==
    \/ complete_subagent(n)
    \/ \E p \in Procs : finish_record(p) /\ Top(p).run = n
    \/ \E x \in Ntf : release_notification(x) /\ item[x] = n
    \/ ~Up

(* Nothing else does.                                                       *)
RowTurns(n) ==
    /\ row[n].status \in Outstanding => row'[n].status \in Outstanding \/ Drops(n)
    /\ row'[n].status = "pending" => row[n].status = "pending" \/ Brings(n)
    /\ row'[n].status \in Outstanding => row[n].status \in Outstanding \/ create_subagent_task(n)

(* A step drops, brings or creates an obligation, or leaves it what it is.  *)
LEMMA RowTurnsStep ==
    ASSUME TreeTypeOK,
           [TreeNext]_treeVars
    PROVE  \A n \in Ntf : RowTurns(n)
<1> SUFFICES ASSUME NEW r \in Ntf PROVE RowTurns(r)
  OBVIOUS
<1>a. row \in [Ntf -> Rows] /\ task \in [Ntf -> TaskStatus] /\ item \in [Ntf -> Ntf]
  BY DEF TreeTypeOK
<1>e. row'[r] = row[r] => RowTurns(r)
  BY DEF RowTurns
<1>o. ASSUME row'[r].status \in Outstanding => row[r].status \in Outstanding
      PROVE  (row[r].status \in Outstanding => Drops(r)) /\ (row'[r].status = "pending" => Brings(r)) => RowTurns(r)
  BY <1>o DEF RowTurns
<1>v. /\ Resolved(row[r], FALSE).status \in Outstanding => row[r].status \in Outstanding
      /\ Resolved(row[r], FALSE).status = "pending" => row[r].status = "pending"
      /\ Resolved(row[r], TRUE).status \in Outstanding <=> row[r].status \in Outstanding
      /\ Claimed(row[r]).status \in Outstanding <=> row[r].status \in Outstanding
      /\ Claimed(row[r]).status # "pending"
      /\ Released(row[r]).status \in Outstanding <=> row[r].status \in Outstanding
      /\ Cancelled(row[r]).status \notin Outstanding
      /\ Reset(row[r]).status \in Outstanding => row[r].status \in Outstanding
      /\ \A h \in {"completed", "failed"} :
            /\ Finished(row[r], h).status \in Outstanding => row[r].status \in Outstanding
            /\ Finished(row[r], h).status = "pending" => row[r].status = "pending"
      /\ Finished(Claimed(row[r]), "completed").status \in Outstanding => row[r].status \in Outstanding
      /\ Finished(Claimed(row[r]), "completed").status # "pending"
      /\ "pending" \in Outstanding
  BY <1>a DEF Resolved, Claimed, Released, Cancelled, Reset, Finished, Outstanding, Rows
<1>f. ASSUME NEW s, NEW h, FinishTask(s, h), s # r PROVE row'[r] = row[r]
  BY <1>f, <1>a DEF FinishTask, rows
<1>g. ASSUME NEW h, FinishTask(r, h), h = "canceled"
      PROVE  row'[r] = row[r] \/ (row'[r] = Resolved(row[r], FALSE) /\ task[r] = "running")
  BY <1>g, <1>a DEF FinishTask, rows
<1>i. ASSUME NEW h, FinishTask(r, h), h # "canceled"
      PROVE  row'[r] = row[r] \/ row'[r] = Resolved(row[r], TRUE)
  BY <1>i, <1>a DEF FinishTask, rows

<1>1. ASSUME NEW s \in Ntf, create_subagent_task(s)
      PROVE  RowTurns(r)
  <2>1. CASE s = r
    <3>1. row'[r] = NewObligation("subagent_finished", owner[r], 0)
      BY <1>1, <1>a, <2>1 DEF create_subagent_task
    <3>2. row'[r].status = "awaiting"
      BY <3>1 DEF NewObligation
    <3> QED BY <1>1, <2>1, <3>2 DEF RowTurns, Outstanding
  <2>2. CASE s # r
    BY <1>1, <1>a, <1>e, <2>2 DEF create_subagent_task
  <2> QED BY <2>1, <2>2
<1>2. ASSUME NEW s \in Ntf, claim_next_pending_notification(s)
      PROVE  RowTurns(r)
  <2>1. row'[r] = row[r] \/ row'[r] = Claimed(row[r])
    BY <1>2, <1>a DEF claim_next_pending_notification
  <2> QED BY <2>1, <1>e, <1>v DEF RowTurns
<1>3. ASSUME NEW s \in Ntf, notification_turn_ends(s)
      PROVE  RowTurns(r)
  <2>1. CASE item[s] = r
    <3>1. \E h \in {"completed", "failed"} : row'[r] = Finished(row[r], h)
      BY <1>3, <1>a, <2>1 DEF notification_turn_ends
    <3>2. Drops(r)
      BY <1>3, <2>1 DEF Drops
    <3> QED BY <3>1, <3>2, <1>v DEF RowTurns
  <2>2. CASE item[s] # r
    BY <1>3, <1>a, <1>e, <2>2 DEF notification_turn_ends
  <2> QED BY <2>1, <2>2
<1>4. ASSUME NEW s \in Ntf, release_notification(s)
      PROVE  RowTurns(r)
  <2>1. CASE item[s] = r
    <3>1. row'[r] = Released(row[r])
      BY <1>4, <1>a, <2>1 DEF release_notification
    <3>2. Brings(r)
      BY <1>4, <2>1 DEF Brings
    <3> QED BY <3>1, <3>2, <1>v DEF RowTurns
  <2>2. CASE item[s] # r
    BY <1>4, <1>a, <1>e, <2>2 DEF release_notification
  <2> QED BY <2>1, <2>2
<1>5. ASSUME NEW s \in Ntf, complete_subagent(s)
      PROVE  RowTurns(r)
  <2>1. CASE s = r
    <3>1. Brings(r)
      BY <1>5, <2>1 DEF Brings
    <3>2. row'[r] = row[r] \/ row'[r] = Resolved(row[r], TRUE)
      BY <1>5, <1>i, <2>1 DEF complete_subagent
    <3> QED BY <3>1, <3>2, <1>e, <1>v DEF RowTurns
  <2>2. CASE s # r
    BY <1>5, <1>e, <1>f, <2>2 DEF complete_subagent
  <2> QED BY <2>1, <2>2
<1>6. ASSUME NEW s \in Ntf, root_takes(s)
      PROVE  RowTurns(r)
  <2>1. CASE s = r
    <3>1. row'[r] = Finished(Claimed(row[r]), "completed")
      BY <1>6, <1>a, <2>1 DEF root_takes
    <3>2. Drops(r)
      BY <1>6, <2>1 DEF Drops
    <3> QED BY <3>1, <3>2, <1>v DEF RowTurns
  <2>2. CASE s # r
    BY <1>6, <1>a, <1>e, <2>2 DEF root_takes
  <2> QED BY <2>1, <2>2
<1>7. ASSUME NEW s \in Ntf, cancel_subagent_task(s)
      PROVE  RowTurns(r)
  <2>1. CASE row'[r] = row[r]
    BY <1>e, <2>1
  <2>2. CASE row'[r] # row[r]
    <3>1. s \notin reg /\ FinishTask(s, "canceled")
      BY <1>7, <2>2 DEF cancel_subagent_task, rows
    <3>2. s = r
      BY <1>f, <2>2, <3>1
    <3>3. row'[r] = Resolved(row[r], FALSE) /\ task[r] = "running"
      BY <1>g, <2>2, <3>1, <3>2
    <3>4. Drops(r)
      BY <1>7, <3>1, <3>2, <3>3 DEF Drops
    <3> QED BY <1>v, <3>3, <3>4 DEF RowTurns
  <2> QED BY <2>1, <2>2
<1>8. ASSUME NEW p \in Procs, sweep_flush(p), p = "all" => Len(stack[p]) > 1
      PROVE  RowTurns(r)
  <2>1. CASE r \in Top(p).todo
    <3>1. row'[r] = Resolved(row[r], FALSE)
      BY <1>8, <1>a, <2>1 DEF sweep_flush, SweepRows
    <3>2. Drops(r)
      BY <1>8, <2>1 DEF Drops
    <3> QED BY <1>v, <3>1, <3>2 DEF RowTurns
  <2>2. CASE r \notin Top(p).todo
    BY <1>8, <1>a, <1>e, <2>2 DEF sweep_flush, SweepRows
  <2> QED BY <2>1, <2>2
<1>9. ASSUME NEW p \in Procs, cancel_notifications(p)
      PROVE  RowTurns(r)
  <2>1. CASE r \in OutstandingFor(row, {Top(p).run})
    <3>1. row'[r] = Cancelled(row[r])
      BY <1>9, <1>a, <2>1 DEF cancel_notifications
    <3>2. Drops(r)
      BY <1>9, <2>1 DEF Drops, OutstandingFor
    <3> QED BY <1>v, <3>1, <3>2 DEF RowTurns
  <2>2. CASE r \notin OutstandingFor(row, {Top(p).run})
    BY <1>9, <1>a, <1>e, <2>2 DEF cancel_notifications
  <2> QED BY <2>1, <2>2
<1>10. ASSUME NEW p \in Procs, finish_record(p)
      PROVE  RowTurns(r)
  <2>1. CASE Top(p).run = r
    <3>1. Drops(r) /\ Brings(r)
      BY <1>10, <2>1 DEF Drops, Brings
    <3>2. \/ row'[r] = row[r] \/ row'[r] = Resolved(row[r], TRUE) \/ row'[r] = Resolved(row[r], FALSE)
      BY <1>10, <1>g, <1>i, <2>1 DEF finish_record
    <3> QED BY <1>e, <1>v, <3>1, <3>2 DEF RowTurns
  <2>2. CASE Top(p).run # r
    BY <1>10, <1>e, <1>f, <2>2 DEF finish_record
  <2> QED BY <2>1, <2>2
<1>11. CASE cancel_session_flush
  <2>1. CASE r \in Top("all").todo
    <3>1. row'[r] = Resolved(row[r], FALSE)
      BY <1>11, <1>a, <2>1 DEF cancel_session_flush, SweepRows
    <3>2. Drops(r)
      BY <1>11, <2>1 DEF Drops
    <3> QED BY <1>v, <3>1, <3>2 DEF RowTurns
  <2>2. CASE r \notin Top("all").todo
    BY <1>11, <1>a, <1>e, <2>2 DEF cancel_session_flush, SweepRows
  <2> QED BY <2>1, <2>2
<1>12. CASE reset_processing_notifications_all
  <2>1. Drops(r) /\ Brings(r)
    BY <1>12 DEF reset_processing_notifications_all, Drops, Brings, Up
  <2>2. row'[r] = row[r] \/ row'[r] = Reset(row[r])
    BY <1>12, <1>a DEF reset_processing_notifications_all
  <2> QED BY <1>e, <1>v, <2>1, <2>2 DEF RowTurns
<1>13. CASE mark_stale_running_subagent_tasks_failed
  <2>1. Drops(r) /\ Brings(r)
    BY <1>13 DEF mark_stale_running_subagent_tasks_failed, Drops, Brings, Up
  <2>2. row'[r] = row[r] \/ row'[r] = Resolved(row[r], TRUE)
    BY <1>13, <1>a DEF mark_stale_running_subagent_tasks_failed
  <2> QED BY <1>e, <1>v, <2>1, <2>2 DEF RowTurns
<1>14. CASE cancel_stale_notifications
  <2>1. Drops(r) /\ Brings(r)
    BY <1>14 DEF cancel_stale_notifications, Drops, Brings, Up
  <2>2. row'[r] = row[r] \/ row'[r] = Cancelled(row[r])
    BY <1>14, <1>a DEF cancel_stale_notifications
  <2> QED BY <1>e, <1>v, <2>1, <2>2 DEF RowTurns
<1>15. ASSUME NEW s \in Ntf, NEW i \in Instances,
             start_subagent_task(i, s)
      PROVE  RowTurns(r)
  BY <1>15, <1>e DEF start_subagent_task, rows, drives, cancels, births, lifes
<1>16. ASSUME NEW s \in Ntf,
             register_driver(s) \/ initial_turn_ends(s) \/ settle_pending(s) \/
             settle_outstanding(s) \/ resume_parent(s) \/ cleanup_subagent(s) \/
             take_cancel(s) \/ drive_aborts(s)
      PROVE  RowTurns(r)
  BY <1>16, <1>e DEF register_driver, initial_turn_ends, settle_pending, settle_outstanding,
         resume_parent, cleanup_subagent, take_cancel, drive_aborts, rows, drives,
         cancels, births, lifes
<1>17. ASSUME NEW p \in Procs,
             sweep_select(p) \/ match_children(p) \/ cancel_dormant(p) \/
             teardown_resumes_parent(p) \/ teardown_cleans(p)
      PROVE  RowTurns(r)
  BY <1>17, <1>e DEF sweep_select, match_children, cancel_dormant, teardown_resumes_parent,
         teardown_cleans, rows, drives, cancels, births, lifes
<1>18. ASSUME NEW p \in Procs, NEW c \in Ntf,
             stop_driver(p, c)
      PROVE  RowTurns(r)
  BY <1>18, <1>e DEF stop_driver, rows, drives, cancels, births, lifes
<1>19. CASE tool_returns \/ tool_canceled \/ cancel_session_starters \/
          cancel_session_drivers \/ cancel_session_select \/ backend_crash \/ UNCHANGED
          treeVars
  BY <1>19, <1>e DEF tool_returns, tool_canceled, cancel_session_starters, cancel_session_drivers,
         cancel_session_select, backend_crash, treeVars, rows, drives, cancels, births,
         lifes
<1> QED BY <1>1, <1>2, <1>3, <1>4, <1>5, <1>6, <1>7, <1>8, <1>9, <1>10, <1>11, <1>12, <1>13, <1>14,
           <1>15, <1>16, <1>17, <1>18, <1>19
        DEF TreeNext, Drive, TeardownStep, CancelAll, Startup

(* The backend comes up with nothing under way, and remembers, while it is  *)
(* up, what it has broken off.                                              *)
UpMoves ==
    boot' = "up" =>
       /\ Up \/ (reg' = {} /\ \A s \in Ntf : pc'[s] = "none" /\ row'[s].status # "awaiting")
       /\ aborted \subseteq aborted'

(* A step brings the backend up, or down, in no other way.                  *)
LEMMA UpStep ==
    ASSUME SettledInv,
           [TreeNext]_treeVars
    PROVE  UpMoves
<1>h. /\ TreeTypeOK /\ ObligationFollowsTask /\ StartupAlone /\ Lineage /\ AwaitedLive
      /\ StacksAgree /\ FramesFit /\ EndedBeforeKick /\ RunningIsMinded
      /\ KnownFirst /\ StartersApart /\ ParentsFirst /\ ItemsFit
  BY DEF SettledInv, Lineage
<1>u. boot' = boot /\ aborted \subseteq aborted' => UpMoves
  BY DEF Up, UpMoves

<1>1. ASSUME NEW s \in Ntf, take_cancel(s)
      PROVE  UpMoves
  BY <1>1, <1>u DEF take_cancel
<1>2. CASE tool_returns
  BY <1>2, <1>u DEF tool_returns, lifes
<1>3. CASE tool_canceled
  BY <1>3, <1>u DEF tool_canceled
<1>4. CASE cancel_session_starters
  BY <1>4, <1>u DEF cancel_session_starters, lifes
<1>5. CASE cancel_session_drivers
  BY <1>5, <1>u DEF cancel_session_drivers, lifes
<1>6. CASE cancel_session_select
  BY <1>6, <1>u DEF cancel_session_select, lifes
<1>7. CASE cancel_session_flush
  BY <1>7, <1>u DEF cancel_session_flush, lifes
<1>8. CASE backend_crash
  BY <1>8 DEF backend_crash, UpMoves
<1>9. CASE reset_processing_notifications_all
  BY <1>9 DEF UpMoves, reset_processing_notifications_all
<1>10. CASE mark_stale_running_subagent_tasks_failed
  BY <1>10 DEF UpMoves, mark_stale_running_subagent_tasks_failed
<1>11. CASE cancel_stale_notifications
  <2>1. reg = {} /\ \A s \in Ntf : pc[s] = "none" /\ task[s] # "running"
    BY <1>11, <1>h DEF cancel_stale_notifications, StartupAlone, Up
  <2>2. \A s \in Ntf : row'[s].status # "awaiting"
    <3>1. \A s \in Ntf : row[s].status # "awaiting" /\ ~create_subagent_task(s)
      BY <1>11, <1>h, <2>1 DEF ObligationFollowsTask, create_subagent_task, cancel_stale_notifications, Up
    <3> QED BY <1>h, <3>1, RowStep DEF RowMoves
  <2> QED BY <1>11, <2>1, <2>2 DEF UpMoves, cancel_stale_notifications, drives, cancels
<1>12. CASE UNCHANGED treeVars
  BY <1>12, <1>u DEF treeVars, lifes
<1>13. ASSUME NEW s \in Ntf, NEW i \in Instances,
             start_subagent_task(i, s)
      PROVE  UpMoves
  BY <1>13, <1>u DEF start_subagent_task, rows, drives, cancels, births, lifes
<1>14. ASSUME NEW s \in Ntf,
             create_subagent_task(s) \/ register_driver(s) \/ initial_turn_ends(s) \/
             claim_next_pending_notification(s) \/ notification_turn_ends(s) \/
             release_notification(s) \/ settle_pending(s) \/ settle_outstanding(s) \/
             complete_subagent(s) \/ resume_parent(s) \/ cleanup_subagent(s) \/
             drive_aborts(s) \/ root_takes(s) \/ cancel_subagent_task(s)
      PROVE  UpMoves
  BY <1>14, <1>u DEF create_subagent_task, register_driver, initial_turn_ends,
         claim_next_pending_notification, notification_turn_ends, release_notification,
         settle_pending, settle_outstanding, complete_subagent, resume_parent,
         cleanup_subagent, drive_aborts, root_takes, cancel_subagent_task, rows, drives,
         cancels, births, lifes
<1>15. ASSUME NEW p \in Procs,
             sweep_select(p) \/ sweep_flush(p) \/ cancel_notifications(p) \/
             match_children(p) \/ cancel_dormant(p) \/ finish_record(p) \/
             teardown_resumes_parent(p) \/ teardown_cleans(p)
      PROVE  UpMoves
  BY <1>15, <1>u DEF sweep_select, sweep_flush, cancel_notifications, match_children, cancel_dormant,
         finish_record, teardown_resumes_parent, teardown_cleans, rows, drives, cancels,
         births, lifes
<1>16. ASSUME NEW p \in Procs, NEW c \in Ntf,
             stop_driver(p, c)
      PROVE  UpMoves
  BY <1>16, <1>u DEF stop_driver, rows, drives, cancels, births, lifes
<1> QED BY <1>1, <1>2, <1>3, <1>4, <1>5, <1>6, <1>7, <1>8, <1>9, <1>10, <1>11, <1>12, <1>13, <1>14,
           <1>15, <1>16
        DEF TreeNext, Drive, TeardownStep, CancelAll, Startup

(* A run falls asleep when nothing is ready for it.                         *)
LEMMA AsleepStep ==
    ASSUME SettledInv,
           [TreeNext]_treeVars
    PROVE  \A s \in Ntf : Asleep(s)' =>
              \/ Asleep(s) /\ (pc'[s] = "none" => pc[s] = "none" /\ s \in reg)
              \/ settle_pending(s) /\ PendingFor(row, {s}) = {} /\ pc'[s] = "outst"
              \/ settle_outstanding(s) /\ OutstandingFor(row, {s}) # {} /\ Asleep(s)
              \/ s \in aborted'
<1>h. /\ TreeTypeOK /\ ObligationFollowsTask /\ StartupAlone /\ Lineage /\ AwaitedLive
      /\ StacksAgree /\ FramesFit /\ EndedBeforeKick /\ RunningIsMinded
      /\ KnownFirst /\ StartersApart /\ ParentsFirst /\ ItemsFit
  BY DEF SettledInv, Lineage
<1> SUFFICES ASSUME NEW r \in Ntf, Asleep(r)'
    PROVE \/ Asleep(r) /\ (pc'[r] = "none" => pc[r] = "none" /\ r \in reg)
          \/ settle_pending(r) /\ PendingFor(row, {r}) = {} /\ pc'[r] = "outst"
          \/ settle_outstanding(r) /\ OutstandingFor(row, {r}) # {} /\ Asleep(r)
          \/ r \in aborted'
  OBVIOUS
<1> DEFINE Goal ==
          \/ Asleep(r) /\ (pc'[r] = "none" => pc[r] = "none" /\ r \in reg)
          \/ settle_pending(r) /\ PendingFor(row, {r}) = {} /\ pc'[r] = "outst"
          \/ settle_outstanding(r) /\ OutstandingFor(row, {r}) # {} /\ Asleep(r)
          \/ r \in aborted'
<1>a. /\ pc \in [Ntf -> DriveStep] /\ reg \in SUBSET Ntf /\ Ntf \subseteq Procs
  BY <1>h DEF TreeTypeOK, Procs
<1>e. pc'[r] = pc[r] /\ (pc[r] = "none" /\ r \in reg' => r \in reg) => Goal
  BY DEF Asleep
<1>n. pc'[r] \notin {"outst", "none"} => Goal
  BY DEF Asleep
<1>x. pc'[r] = "none" /\ r \notin reg' => Goal
  BY DEF Asleep
<1>w. ASSUME NEW i, NEW l, Wakes(i, l), l \in [Ntf -> DriveStep]
      PROVE  \A s \in Ntf : pc'[s] = l[s] \/ (pc[s] = "none" /\ s \in reg /\ pc'[s] = "claim")
  BY <1>w DEF Wakes

<1>1. ASSUME NEW s \in Ntf, register_driver(s)
      PROVE  Goal
  BY <1>1, <1>a, <1>e, <1>n, <1>x DEF register_driver, Goto
<1>2. ASSUME NEW s \in Ntf, initial_turn_ends(s)
      PROVE  Goal
  BY <1>2, <1>a, <1>e, <1>n, <1>x DEF initial_turn_ends, Goto
<1>3. ASSUME NEW s \in Ntf, claim_next_pending_notification(s)
      PROVE  Goal
  BY <1>3, <1>a, <1>e, <1>n, <1>x DEF claim_next_pending_notification, Goto
<1>4. ASSUME NEW s \in Ntf, notification_turn_ends(s)
      PROVE  Goal
  BY <1>4, <1>a, <1>e, <1>n, <1>x DEF notification_turn_ends, Goto
<1>5. ASSUME NEW s \in Ntf, release_notification(s)
      PROVE  Goal
  BY <1>5, <1>a, <1>e, <1>n, <1>x DEF release_notification, Goto
<1>6. ASSUME NEW s \in Ntf, settle_pending(s)
      PROVE  Goal
  <2>1. CASE s = r
    BY <1>6, <1>a, <1>n, <2>1 DEF settle_pending, Goto
  <2>2. CASE s # r
    BY <1>6, <1>a, <1>e, <2>2 DEF settle_pending, Goto
  <2> QED BY <2>1, <2>2
<1>7. ASSUME NEW s \in Ntf, settle_outstanding(s)
      PROVE  Goal
  <2>1. CASE s = r
    BY <1>7, <1>a, <1>n, <2>1 DEF settle_outstanding, Goto, Runs, Asleep
  <2>2. CASE s # r
    BY <1>7, <1>a, <1>e, <2>2 DEF settle_outstanding, Goto
  <2> QED BY <2>1, <2>2
<1>8. ASSUME NEW s \in Ntf, complete_subagent(s)
      PROVE  Goal
  BY <1>8, <1>a, <1>e, <1>n, <1>x DEF complete_subagent, Goto
<1>9. ASSUME NEW s \in Ntf, resume_parent(s)
      PROVE  Goal
  <2>1. [pc EXCEPT ![s] = "clean"] \in [Ntf -> DriveStep]
    BY <1>a DEF DriveStep, InTry
  <2>2. \A q \in Ntf : pc'[q] = [pc EXCEPT ![s] = "clean"][q] \/ (pc[q] = "none" /\ q \in reg /\ pc'[q] = "claim")
    BY <1>9, <1>w, <2>1 DEF resume_parent
  <2> QED BY <1>9, <2>2, <1>a, <1>e, <1>n DEF resume_parent
<1>10. ASSUME NEW s \in Ntf, cleanup_subagent(s)
      PROVE  Goal
  BY <1>10, <1>a, <1>e, <1>n, <1>x DEF cleanup_subagent, Goto
<1>11. ASSUME NEW s \in Ntf, take_cancel(s)
      PROVE  Goal
  BY <1>11, <1>a, <1>e, <1>n DEF take_cancel, Goto
<1>12. ASSUME NEW s \in Ntf, drive_aborts(s)
      PROVE  Goal
  <2>1. CASE s = r
    <3>1. r \in aborted /\ aborted' = aborted
      BY <1>12, <1>h, <2>1 DEF drive_aborts, Runs, StacksAgree, lifes
    <3> QED BY <3>1
  <2>2. CASE s # r
    BY <1>12, <1>a, <1>e, <2>2 DEF drive_aborts, Goto
  <2> QED BY <2>1, <2>2
<1>13. ASSUME NEW p \in Procs, teardown_resumes_parent(p)
      PROVE  Goal
  <2>1. \A q \in Ntf : pc'[q] = pc[q] \/ (pc[q] = "none" /\ q \in reg /\ pc'[q] = "claim")
    BY <1>13, <1>a, <1>w DEF teardown_resumes_parent
  <2> QED BY <1>13, <2>1, <1>a, <1>e, <1>n DEF teardown_resumes_parent
<1>14. ASSUME NEW p \in Procs, teardown_cleans(p)
      PROVE  Goal
  <2>1. p \in Ntf /\ Len(stack[p]) = 1 => Top(p).run = p
    BY <1>14, <1>a, <1>h DEF teardown_cleans, Steps, StacksAgree, Top
  <2> QED BY <1>14, <2>1, <1>a, <1>e, <1>x DEF teardown_cleans, Goto
<1>15. CASE backend_crash
  BY <1>15, <1>a, <1>x DEF backend_crash
<1>16. ASSUME NEW s \in Ntf, NEW i \in Instances,
             start_subagent_task(i, s)
      PROVE  Goal
  BY <1>16, <1>a, <1>e DEF start_subagent_task, rows, drives, cancels, births, lifes
<1>17. ASSUME NEW s \in Ntf,
             create_subagent_task(s) \/ root_takes(s) \/ cancel_subagent_task(s)
      PROVE  Goal
  BY <1>17, <1>a, <1>e DEF create_subagent_task, root_takes, cancel_subagent_task, rows, drives, cancels,
         births, lifes
<1>18. ASSUME NEW p \in Procs,
             sweep_select(p) \/ sweep_flush(p) \/ cancel_notifications(p) \/
             match_children(p) \/ cancel_dormant(p) \/ finish_record(p)
      PROVE  Goal
  BY <1>18, <1>a, <1>e DEF sweep_select, sweep_flush, cancel_notifications, match_children, cancel_dormant,
         finish_record, rows, drives, cancels, births, lifes
<1>19. ASSUME NEW p \in Procs, NEW c \in Ntf,
             stop_driver(p, c)
      PROVE  Goal
  BY <1>19, <1>a, <1>e DEF stop_driver, rows, drives, cancels, births, lifes
<1>20. CASE tool_returns \/ tool_canceled \/ cancel_session_starters \/
          cancel_session_drivers \/ cancel_session_select \/ cancel_session_flush \/
          reset_processing_notifications_all \/ mark_stale_running_subagent_tasks_failed
          \/ cancel_stale_notifications \/ UNCHANGED treeVars
  BY <1>20, <1>a, <1>e DEF tool_returns, tool_canceled, cancel_session_starters, cancel_session_drivers,
         cancel_session_select, cancel_session_flush, reset_processing_notifications_all,
         mark_stale_running_subagent_tasks_failed, cancel_stale_notifications, treeVars,
         rows, drives, cancels, births, lifes
<1> QED BY <1>1, <1>2, <1>3, <1>4, <1>5, <1>6, <1>7, <1>8, <1>9, <1>10, <1>11, <1>12, <1>13, <1>14,
           <1>15, <1>16, <1>17, <1>18, <1>19, <1>20
        DEF TreeNext, Drive, TeardownStep, CancelAll, Startup

(* The cancel-all is about to write when it has just read, or was already;  *)
(* it is over when it has written.                                          *)
FlushMoves ==
    /\ Flushing' => (Flushing /\ stack'["all"][1] = stack["all"][1]) \/ cancel_session_select
    /\ cpc["all"] # "idle" => cpc'["all"] # "idle" \/ cancel_session_flush \/ boot' # "up"

(* A step goes into the flush, or out of the cancel-all, in no other way.   *)
LEMMA FlushStep ==
    ASSUME TreeTypeOK, StartupAlone, Lineage, AwaitedLive, StacksAgree, FramesFit,
           [TreeNext]_treeVars
    PROVE  FlushMoves
<1>a. /\ cpc \in [Cancelers -> {"idle", "wait", "inner"}] /\ stack \in [Procs -> Seq(Frames)]
      /\ Ntf \subseteq Procs \ {"all"} /\ "tool" \in Procs \ {"all"} /\ "all" \in Procs
      /\ "tool" \in Cancelers /\ "all" \in Cancelers
  BY NamesAssumption DEF TreeTypeOK, Procs, Cancelers
<1>f. (Flushing' => Flushing /\ stack'["all"][1] = stack["all"][1]) /\ cpc' = cpc => FlushMoves
  BY DEF FlushMoves
<1>e. stack'["all"] = stack["all"] /\ (cpc["all"] # "idle" => cpc'["all"] # "idle") => FlushMoves
  BY DEF FlushMoves, Flushing

<1>1. ASSUME NEW s \in Ntf, initial_turn_ends(s)
      PROVE  FlushMoves
  <2>1. stack'["all"] = stack["all"]
    BY <1>1, <1>a DEF initial_turn_ends
  <2> QED BY <1>1, <2>1, <1>e DEF initial_turn_ends
<1>2. ASSUME NEW s \in Ntf, release_notification(s)
      PROVE  FlushMoves
  <2>1. stack'["all"] = stack["all"]
    BY <1>2, <1>a DEF release_notification
  <2> QED BY <1>2, <2>1, <1>e DEF release_notification
<1>3. ASSUME NEW s \in Ntf, settle_pending(s)
      PROVE  FlushMoves
  <2>1. stack'["all"] = stack["all"]
    BY <1>3, <1>a DEF settle_pending
  <2> QED BY <1>3, <2>1, <1>e DEF settle_pending
<1>4. ASSUME NEW s \in Ntf, take_cancel(s)
      PROVE  FlushMoves
  <2>1. stack'["all"] = stack["all"]
    BY <1>4, <1>a DEF take_cancel
  <2> QED BY <1>4, <2>1, <1>e DEF take_cancel
<1>5. ASSUME NEW s \in Ntf, cancel_subagent_task(s)
      PROVE  FlushMoves
  <2>1. stack'["all"] = stack["all"] /\ cpc'["all"] = cpc["all"]
    BY <1>5, <1>a DEF cancel_subagent_task, Push, cancels
  <2> QED BY <2>1, <1>e
<1>6. ASSUME NEW p \in Procs, sweep_select(p), p = "all" => Len(stack[p]) > 1
      PROVE  FlushMoves
  <2>1. p = "all" => Len(stack[p]) # 1
    <3>1. \A k : k = 1 => ~(k > 1)
      OBVIOUS
    <3> QED BY <1>6, <3>1
  <2>2. PICK T, D : Turns(p, "flush", T, D)
    BY <1>6, TeardownTurns
  <2> QED BY <1>6, <2>1, <2>2, <1>f, FlushStays DEF sweep_select
<1>7. ASSUME NEW p \in Procs, sweep_flush(p), p = "all" => Len(stack[p]) > 1
      PROVE  FlushMoves
  <2>1. PICK T, D : Turns(p, "record", T, D)
    BY <1>7, TeardownTurns
  <2> QED BY <1>7, <2>1, <1>f, FlushStays DEF sweep_flush
<1>8. ASSUME NEW p \in Procs, cancel_notifications(p)
      PROVE  FlushMoves
  <2>1. PICK T, D : Turns(p, "match", T, D)
    BY <1>8, TeardownTurns
  <2> QED BY <1>8, <2>1, <1>f, FlushStays DEF cancel_notifications
<1>9. ASSUME NEW p \in Procs, match_children(p)
      PROVE  FlushMoves
  <2>1. PICK T, D : Turns(p, "stop", T, D)
    BY <1>9, TeardownTurns
  <2> QED BY <1>9, <2>1, <1>f, FlushStays DEF match_children
<1>10. ASSUME NEW p \in Procs, NEW c \in Ntf, stop_driver(p, c)
      PROVE  FlushMoves
  <2>1. PICK D : Turns(p, "stop", Top(p).todo \ {c}, D)
    BY <1>10, TeardownTurns
  <2> QED BY <1>10, <2>1, <1>f, FlushStays DEF stop_driver
<1>11. ASSUME NEW p \in Procs, cancel_dormant(p)
      PROVE  FlushMoves
  <2>1. Flushing' => Flushing /\ stack'["all"][1] = stack["all"][1]
    <3>1. CASE Top(p).dormant = {}
      BY <1>11, <3>1, TeardownTurns, FlushStays
    <3>2. CASE Top(p).dormant # {}
      <4>1. PICK c : Pushes(p, Turned(Top(p), "stop", {}, Top(p).dormant \ {c}), Teardown(c, "canceled"))
        BY <1>11, <3>2, DormantPushed
      <4>2. Turned(Top(p), "stop", {}, Top(p).dormant \ {c}).at = "stop"
        BY DEF Turned
      <4> QED BY <4>1, <4>2, FlushStays
    <3> QED BY <3>1, <3>2
  <2> QED BY <1>11, <2>1, <1>f DEF cancel_dormant
<1>12. ASSUME NEW p \in Procs, finish_record(p)
      PROVE  FlushMoves
  <2>1. PICK T, D : Turns(p, "kick", T, D)
    BY <1>12, TeardownTurns
  <2> QED BY <1>12, <2>1, <1>f, FlushStays DEF finish_record
<1>13. ASSUME NEW p \in Procs, teardown_resumes_parent(p)
      PROVE  FlushMoves
  <2>1. PICK T, D : Turns(p, "clean", T, D)
    BY <1>13, TeardownTurns
  <2> QED BY <1>13, <2>1, <1>f, FlushStays DEF teardown_resumes_parent
<1>14. ASSUME NEW p \in Procs, teardown_cleans(p)
      PROVE  FlushMoves
  <2>1. /\ stack[p] # <<>> /\ stack' = Pop(p) /\ Top(p).at = "clean"
        /\ FrameFits(p, Len(stack[p]), Top(p))
    BY <1>14, StackShape DEF teardown_cleans, Steps, FramesFit, Top
  <2>2. Flushing' => Flushing /\ stack'["all"][1] = stack["all"][1]
    <3>1. CASE p # "all"
      BY <1>a, <2>1, <3>1, TopPopped DEF Flushing
    <3>2. CASE p = "all"
      <4>1. Len(stack[p]) # 1
        BY <2>1, <3>2 DEF FrameFits
      <4>2. stack'[p][1] = stack[p][1] /\ stack'[p] # <<>>
        <5>1. /\ Len(stack[p]) \in Nat \ {0} /\ DOMAIN stack'[p] = 1..(Len(stack[p]) - 1)
              /\ stack'[p] = <<>> <=> Len(stack[p]) = 1
              /\ \A n \in DOMAIN stack'[p] : stack'[p][n] = stack[p][n]
          BY <2>1, TopPopped, StackShape
        <5>2. 1 \in DOMAIN stack'[p]
          BY <4>1, <5>1
        <5> QED BY <4>1, <5>1, <5>2
      <4> QED BY <2>1, <3>2, <4>2 DEF Flushing
    <3> QED BY <3>1, <3>2
  <2> QED BY <1>14, <2>2, <1>f DEF teardown_cleans
<1>15. CASE tool_returns
  BY <1>15, <1>a, <1>e DEF tool_returns
<1>16. CASE tool_canceled
  <2>1. stack'["all"] = stack["all"] /\ cpc'["all"] = cpc["all"]
    BY <1>16, <1>a DEF tool_canceled
  <2> QED BY <2>1, <1>e
<1>17. CASE cancel_session_starters
  BY <1>17, <1>a, <1>e DEF cancel_session_starters
<1>18. CASE cancel_session_drivers
  <2>1. cpc'["all"] = "inner" /\ stack'["all"] # <<>> /\ stack'["all"][1].at = "stop"
    BY <1>18, <1>a, StacksStart DEF cancel_session_drivers, Starts
  <2> QED BY <2>1 DEF FlushMoves, Flushing
<1>19. CASE cancel_session_select
  BY <1>19 DEF FlushMoves, cancel_session_select
<1>20. CASE cancel_session_flush
  BY <1>20, <1>a DEF FlushMoves, cancel_session_flush, Flushing
<1>21. CASE backend_crash
  BY <1>21, <1>a DEF backend_crash, FlushMoves, Flushing
<1>22. ASSUME NEW s \in Ntf, NEW i \in Instances,
             start_subagent_task(i, s)
      PROVE  FlushMoves
  BY <1>22, <1>e DEF start_subagent_task, rows, drives, cancels, births, lifes
<1>23. ASSUME NEW s \in Ntf,
             create_subagent_task(s) \/ register_driver(s) \/
             claim_next_pending_notification(s) \/ notification_turn_ends(s) \/
             settle_outstanding(s) \/ complete_subagent(s) \/ resume_parent(s) \/
             cleanup_subagent(s) \/ drive_aborts(s) \/ root_takes(s)
      PROVE  FlushMoves
  BY <1>23, <1>e DEF create_subagent_task, register_driver, claim_next_pending_notification,
         notification_turn_ends, settle_outstanding, complete_subagent, resume_parent,
         cleanup_subagent, drive_aborts, root_takes, rows, drives, cancels, births, lifes
<1>24. CASE reset_processing_notifications_all \/ mark_stale_running_subagent_tasks_failed
          \/ cancel_stale_notifications \/ UNCHANGED treeVars
  BY <1>24, <1>e DEF reset_processing_notifications_all, mark_stale_running_subagent_tasks_failed,
         cancel_stale_notifications, treeVars, rows, drives, cancels, births, lifes
<1> QED BY <1>1, <1>2, <1>3, <1>4, <1>5, <1>6, <1>7, <1>8, <1>9, <1>10, <1>11, <1>12, <1>13, <1>14,
           <1>15, <1>16, <1>17, <1>18, <1>19, <1>20, <1>21, <1>22, <1>23, <1>24
        DEF TreeNext, Drive, TeardownStep, CancelAll, Startup

(* What becomes of a run's teardown: it is broken off, is over, or stays in *)
(* its place, and the last it does is to resume the parent.                 *)
FrameMoves(p, n) ==
    \/ boot' # "up"
    \/ stack[p][n].run \in aborted'
    \/ stack[p][n].at = "clean" /\ stack[p][n].run \notin reg'
    \/ /\ n \in DOMAIN stack'[p] /\ stack'[p][n].run = stack[p][n].run
       /\ stack'[p][n].at = "clean" =>
             stack[p][n].at = "clean" \/ (teardown_resumes_parent(p) /\ Top(p) = stack[p][n])

(* No step does anything else to a teardown under way.                      *)
LEMMA FrameMovesStep ==
    ASSUME SettledInv,
           [TreeNext]_treeVars
    PROVE  \A p \in Procs : \A n \in DOMAIN stack[p] : stack[p][n].run # Root => FrameMoves(p, n)
<1>h. /\ TreeTypeOK /\ ObligationFollowsTask /\ StartupAlone /\ Lineage /\ AwaitedLive
      /\ StacksAgree /\ FramesFit /\ EndedBeforeKick /\ RunningIsMinded
      /\ KnownFirst /\ StartersApart /\ ParentsFirst /\ ItemsFit
  BY DEF SettledInv, Lineage
<1> SUFFICES ASSUME NEW o \in Procs, NEW n \in DOMAIN stack[o], stack[o][n].run # Root
             PROVE  FrameMoves(o, n)
  OBVIOUS
<1>a. /\ pc \in [Ntf -> DriveStep] /\ stack \in [Procs -> Seq(Frames)]
      /\ cpc \in [Cancelers -> {"idle", "wait", "inner"}]
      /\ Ntf \subseteq Procs /\ "tool" \in Procs /\ "all" \in Procs
      /\ "tool" \in Cancelers /\ "all" \in Cancelers
  BY <1>h DEF TreeTypeOK, Procs, Cancelers
<1>b. stack[o] # <<>> /\ Len(stack[o]) \in Nat /\ DOMAIN stack[o] = 1..Len(stack[o]) /\ n \in 1..Len(stack[o])
  BY <1>h, StackShape
<1>e. stack'[o] = stack[o] => FrameMoves(o, n)
  BY DEF FrameMoves
<1>t. ASSUME NEW p \in Procs, NEW l, NEW T, NEW D, Turns(p, l, T, D),
             l # "clean" \/ teardown_resumes_parent(p)
      PROVE  FrameMoves(o, n)
  <2>1. CASE p # o
    BY <1>e, <1>t, <2>1 DEF Turns, TopBecomes
  <2>2. CASE p = o
    <3>1. /\ DOMAIN stack'[o] = DOMAIN stack[o]
          /\ stack'[o][n] = IF n = Len(stack[o]) THEN Turned(Top(o), l, T, D) ELSE stack[o][n]
      BY <1>t, <2>2 DEF Turns, TopBecomes
    <3>2. Turned(Top(o), l, T, D).at = l /\ Turned(Top(o), l, T, D).run = Top(o).run
      BY DEF Turned
    <3>3. n = Len(stack[o]) => stack[o][n] = Top(o)
      BY DEF Top
    <3> QED BY <1>t, <2>2, <3>1, <3>2, <3>3 DEF FrameMoves
  <2> QED BY <2>1, <2>2
<1>s. ASSUME NEW p \in Procs, NEW f, Starts(p, f), stack[p] = <<>> PROVE FrameMoves(o, n)
  BY <1>b, <1>e, <1>s DEF Starts
<1>d. ASSUME NEW s \in Ntf, pc[s] # "teardown" PROVE stack[s] = <<>>
  BY <1>d, <1>h DEF StacksAgree

<1>1. ASSUME NEW s \in Ntf, initial_turn_ends(s)
      PROVE  FrameMoves(o, n)
  <2>1. stack[s] = <<>>
    BY <1>1, <1>d DEF initial_turn_ends, Runs
  <2>2. stack' = stack \/ Starts(s, Teardown(s, "failed"))
    BY <1>1, <1>h, StacksStart
  <2> QED BY <1>a, <1>e, <1>s, <2>1, <2>2
<1>2. ASSUME NEW s \in Ntf, release_notification(s)
      PROVE  FrameMoves(o, n)
  <2>1. stack[s] = <<>>
    BY <1>2, <1>d DEF release_notification, Runs
  <2>2. Starts(s, Teardown(s, "canceled"))
    BY <1>2, <1>h, StacksStart
  <2> QED BY <1>a, <1>s, <2>1, <2>2
<1>3. ASSUME NEW s \in Ntf, settle_pending(s)
      PROVE  FrameMoves(o, n)
  <2>1. stack[s] = <<>>
    BY <1>3, <1>d DEF settle_pending, Runs
  <2>2. stack' = stack \/ Starts(s, Teardown(s, "failed"))
    BY <1>3, <1>h, StacksStart
  <2> QED BY <1>a, <1>e, <1>s, <2>1, <2>2
<1>4. ASSUME NEW s \in Ntf, take_cancel(s)
      PROVE  FrameMoves(o, n)
  <2>1. CASE pc[s] \in InTry
    <3>1. stack[s] = <<>>
      BY <1>d, <2>1 DEF InTry
    <3>2. stack' = stack \/ Starts(s, Teardown(s, "canceled"))
      BY <1>4, <1>h, <2>1, StacksStart
    <3> QED BY <1>a, <1>e, <1>s, <3>1, <3>2
  <2>2. CASE pc[s] \notin InTry
    <3>1. \A q \in Procs : q # s => stack'[q] = stack[q]
      BY <1>4, <1>a DEF take_cancel
    <3>2. \A k \in DOMAIN stack[s] : stack[s][k].run \in aborted'
      BY <1>4, <2>2 DEF take_cancel
    <3> QED BY <1>e, <3>1, <3>2 DEF FrameMoves
  <2> QED BY <2>1, <2>2
<1>5. ASSUME NEW s \in Ntf, cancel_subagent_task(s)
      PROVE  FrameMoves(o, n)
  <2>1. stack["tool"] = <<>>
    BY <1>5, <1>h DEF cancel_subagent_task, StacksAgree
  <2>2. stack' = stack \/ Starts("tool", Teardown(s, "canceled"))
    BY <1>5, <1>h, <2>1, StacksStart
  <2> QED BY <1>a, <1>e, <1>s, <2>1, <2>2
<1>6. ASSUME NEW p \in Procs, sweep_select(p), p = "all" => Len(stack[p]) > 1
      PROVE  FrameMoves(o, n)
  <2>1. PICK T, D : Turns(p, "flush", T, D)
    BY <1>6, <1>h, TeardownTurns
  <2> QED BY <1>6, <2>1, <1>t
<1>7. ASSUME NEW p \in Procs, sweep_flush(p), p = "all" => Len(stack[p]) > 1
      PROVE  FrameMoves(o, n)
  <2>1. PICK T, D : Turns(p, "record", T, D)
    BY <1>7, <1>h, TeardownTurns
  <2> QED BY <1>7, <2>1, <1>t
<1>8. ASSUME NEW p \in Procs, cancel_notifications(p)
      PROVE  FrameMoves(o, n)
  <2>1. PICK T, D : Turns(p, "match", T, D)
    BY <1>8, <1>h, TeardownTurns
  <2> QED BY <1>8, <2>1, <1>t
<1>9. ASSUME NEW p \in Procs, match_children(p)
      PROVE  FrameMoves(o, n)
  <2>1. PICK T, D : Turns(p, "stop", T, D)
    BY <1>9, <1>h, TeardownTurns
  <2> QED BY <1>9, <2>1, <1>t
<1>10. ASSUME NEW p \in Procs, NEW c \in Ntf, stop_driver(p, c)
      PROVE  FrameMoves(o, n)
  <2>1. PICK D : Turns(p, "stop", Top(p).todo \ {c}, D)
    BY <1>10, <1>h, TeardownTurns
  <2> QED BY <2>1, <1>t
<1>11. ASSUME NEW p \in Procs, cancel_dormant(p)
      PROVE  FrameMoves(o, n)
  <2>1. CASE Top(p).dormant = {}
    <3>1. Turns(p, "sweep", {}, {})
      BY <1>11, <1>h, <2>1, TeardownTurns
    <3> QED BY <3>1, <1>t
  <2>2. CASE Top(p).dormant # {}
    <3>1. PICK c : Pushes(p, Turned(Top(p), "stop", {}, Top(p).dormant \ {c}), Teardown(c, "canceled"))
      BY <1>11, <1>h, <2>2, DormantPushed
    <3> DEFINE f == Turned(Top(p), "stop", {}, Top(p).dormant \ {c})
               g == Teardown(c, "canceled")
    <3>2. f.at = "stop" /\ f.run = Top(p).run
      BY DEF Turned
    <3>3. Pushes(p, f, g)
      BY <3>1
    <3> HIDE DEF f, g
    <3>4. CASE p # o
      BY <1>e, <3>3, <3>4 DEF Pushes
    <3>5. CASE p = o
      <4>1. n \in 1..(Len(stack[o]) + 1) /\ n # Len(stack[o]) + 1
        BY <1>b
      <4>2. n \in DOMAIN stack'[o] /\ stack'[o][n] = IF n = Len(stack[o]) THEN f ELSE stack[o][n]
        BY <3>3, <3>5, <4>1 DEF Pushes
      <4>3. n = Len(stack[o]) => stack[o][n] = Top(o)
        BY DEF Top
      <4> QED BY <3>2, <3>5, <4>2, <4>3 DEF FrameMoves
    <3> QED BY <3>4, <3>5
  <2> QED BY <2>1, <2>2
<1>12. ASSUME NEW p \in Procs, finish_record(p)
      PROVE  FrameMoves(o, n)
  <2>1. PICK T, D : Turns(p, "kick", T, D)
    BY <1>12, <1>h, TeardownTurns
  <2> QED BY <1>12, <2>1, <1>t
<1>13. ASSUME NEW p \in Procs, teardown_resumes_parent(p)
      PROVE  FrameMoves(o, n)
  <2>1. PICK T, D : Turns(p, "clean", T, D)
    BY <1>13, <1>h, TeardownTurns
  <2> QED BY <1>13, <2>1, <1>t
<1>14. ASSUME NEW p \in Procs, teardown_cleans(p)
      PROVE  FrameMoves(o, n)
  <2>1. /\ stack[p] # <<>> /\ stack' = Pop(p) /\ Top(p).at = "clean" /\ reg' = reg \ {Top(p).run}
    BY <1>14 DEF teardown_cleans, Steps
  <2>2. CASE p # o
    BY <1>e, <1>h, <2>1, <2>2, TopPopped
  <2>3. CASE p = o /\ n = Len(stack[o])
    BY <2>1, <2>3 DEF FrameMoves, Top
  <2>4. CASE p = o /\ n # Len(stack[o])
    <3>1. n \in 1..(Len(stack[o]) - 1)
      BY <1>b, <2>4
    <3>2. n \in DOMAIN stack'[o] /\ stack'[o][n] = stack[o][n]
      BY <1>h, <2>1, <2>4, <3>1, TopPopped
    <3> QED BY <3>2 DEF FrameMoves
  <2> QED BY <2>2, <2>3, <2>4
<1>15. CASE tool_canceled
  <2>1. \A q \in Procs : q # "tool" => stack'[q] = stack[q]
    BY <1>15, <1>a DEF tool_canceled
  <2>2. \A k \in DOMAIN stack["tool"] : stack["tool"][k].run \in aborted'
    BY <1>15 DEF tool_canceled
  <2> QED BY <1>e, <2>1, <2>2 DEF FrameMoves
<1>16. CASE cancel_session_drivers
  <2>1. stack["all"] = <<>>
    BY <1>16, <1>h DEF cancel_session_drivers, StacksAgree
  <2>2. PICK f : Starts("all", f)
    BY <1>16, <1>h, StacksStart
  <2> QED BY <1>a, <1>s, <2>1, <2>2
<1>17. CASE cancel_session_select
  <2>1. PICK T, D : Turns("all", "flush", T, D)
    BY <1>17, <1>h, SelectTurns
  <2> QED BY <2>1, <1>a, <1>t
<1>18. CASE cancel_session_flush
  <2>1. \A q \in Procs : q # "all" => stack'[q] = stack[q]
    BY <1>18, <1>a DEF cancel_session_flush
  <2>2. o # "all"
    <3> SUFFICES ASSUME o = "all" PROVE FALSE
      OBVIOUS
    <3>1. n = 1
      BY <1>18, <1>b DEF cancel_session_flush
    <3>2. FrameFits("all", 1, stack["all"][1])
      BY <1>a, <1>h, <3>1 DEF FramesFit
    <3> QED BY <3>1, <3>2 DEF FrameFits
  <2> QED BY <1>e, <2>1, <2>2
<1>19. CASE backend_crash
  BY <1>19 DEF backend_crash, FrameMoves
<1>20. ASSUME NEW s \in Ntf, NEW i \in Instances,
             start_subagent_task(i, s)
      PROVE  FrameMoves(o, n)
  BY <1>20, <1>e DEF start_subagent_task, rows, drives, cancels, births, lifes
<1>21. ASSUME NEW s \in Ntf,
             create_subagent_task(s) \/ register_driver(s) \/
             claim_next_pending_notification(s) \/ notification_turn_ends(s) \/
             settle_outstanding(s) \/ complete_subagent(s) \/ resume_parent(s) \/
             cleanup_subagent(s) \/ drive_aborts(s) \/ root_takes(s)
      PROVE  FrameMoves(o, n)
  BY <1>21, <1>e DEF create_subagent_task, register_driver, claim_next_pending_notification,
         notification_turn_ends, settle_outstanding, complete_subagent, resume_parent,
         cleanup_subagent, drive_aborts, root_takes, rows, drives, cancels, births, lifes
<1>22. CASE tool_returns \/ cancel_session_starters \/ reset_processing_notifications_all \/
          mark_stale_running_subagent_tasks_failed \/ cancel_stale_notifications \/
          UNCHANGED treeVars
  BY <1>22, <1>e DEF tool_returns, cancel_session_starters, reset_processing_notifications_all,
         mark_stale_running_subagent_tasks_failed, cancel_stale_notifications, treeVars,
         rows, drives, cancels, births, lifes
<1> QED BY <1>1, <1>2, <1>3, <1>4, <1>5, <1>6, <1>7, <1>8, <1>9, <1>10, <1>11, <1>12, <1>13, <1>14,
           <1>15, <1>16, <1>17, <1>18, <1>19, <1>20, <1>21, <1>22
        DEF TreeNext, Drive, TeardownStep, CancelAll, Startup

(* A drive that is to tell its parent does, or is canceled and tears down.  *)
KickMoves(s) ==
    pc[s] = "kick" => pc'[s] = "kick" \/ resume_parent(s) \/ Starts(s, Teardown(s, "canceled")) \/ boot' # "up"

(* No step takes a drive away from telling its parent.                      *)
LEMMA KickMovesStep ==
    ASSUME SettledInv,
           [TreeNext]_treeVars
    PROVE  \A s \in Ntf : KickMoves(s)
<1>h. /\ TreeTypeOK /\ ObligationFollowsTask /\ StartupAlone /\ Lineage /\ AwaitedLive
      /\ StacksAgree /\ FramesFit /\ EndedBeforeKick /\ RunningIsMinded
      /\ KnownFirst /\ StartersApart /\ ParentsFirst /\ ItemsFit
  BY DEF SettledInv, Lineage
<1> SUFFICES ASSUME NEW r \in Ntf PROVE KickMoves(r)
  OBVIOUS
<1>a. pc \in [Ntf -> DriveStep] /\ reg \in SUBSET Ntf /\ Ntf \subseteq Procs
  BY <1>h DEF TreeTypeOK, Procs
<1>e. pc'[r] = pc[r] \/ pc[r] # "kick" => KickMoves(r)
  BY DEF KickMoves
<1>w. ASSUME NEW i, NEW l, Wakes(i, l), l \in [Ntf -> DriveStep]
      PROVE  \A s \in Ntf : pc'[s] = l[s] \/ (pc[s] = "none" /\ s \in reg /\ pc'[s] = "claim")
  BY <1>w DEF Wakes

<1>1. ASSUME NEW s \in Ntf, register_driver(s)
      PROVE  KickMoves(r)
  BY <1>1, <1>a, <1>e, <1>h DEF register_driver, Goto, StartersApart
<1>2. ASSUME NEW s \in Ntf, initial_turn_ends(s)
      PROVE  KickMoves(r)
  BY <1>2, <1>a, <1>e DEF initial_turn_ends, Goto, Runs
<1>3. ASSUME NEW s \in Ntf, claim_next_pending_notification(s)
      PROVE  KickMoves(r)
  BY <1>3, <1>a, <1>e DEF claim_next_pending_notification, Goto, Runs
<1>4. ASSUME NEW s \in Ntf, notification_turn_ends(s)
      PROVE  KickMoves(r)
  BY <1>4, <1>a, <1>e DEF notification_turn_ends, Goto, Runs
<1>5. ASSUME NEW s \in Ntf, release_notification(s)
      PROVE  KickMoves(r)
  BY <1>5, <1>a, <1>e DEF release_notification, Goto, Runs
<1>6. ASSUME NEW s \in Ntf, settle_pending(s)
      PROVE  KickMoves(r)
  BY <1>6, <1>a, <1>e DEF settle_pending, Goto, Runs
<1>7. ASSUME NEW s \in Ntf, settle_outstanding(s)
      PROVE  KickMoves(r)
  BY <1>7, <1>a, <1>e DEF settle_outstanding, Goto, Runs
<1>8. ASSUME NEW s \in Ntf, complete_subagent(s)
      PROVE  KickMoves(r)
  BY <1>8, <1>a, <1>e DEF complete_subagent, Goto, Runs
<1>9. ASSUME NEW s \in Ntf, resume_parent(s)
      PROVE  KickMoves(r)
  <2>1. CASE s = r
    BY <1>9, <2>1 DEF KickMoves
  <2>2. CASE s # r
    <3>1. [pc EXCEPT ![s] = "clean"] \in [Ntf -> DriveStep]
      BY <1>a DEF DriveStep, InTry
    <3>2. pc'[r] = [pc EXCEPT ![s] = "clean"][r] \/ (pc[r] = "none" /\ r \in reg /\ pc'[r] = "claim")
      BY <1>9, <1>w, <3>1 DEF resume_parent
    <3> QED BY <1>a, <1>e, <2>2, <3>2
  <2> QED BY <2>1, <2>2
<1>10. ASSUME NEW s \in Ntf, cleanup_subagent(s)
      PROVE  KickMoves(r)
  BY <1>10, <1>a, <1>e DEF cleanup_subagent, Goto, Runs
<1>11. ASSUME NEW s \in Ntf, take_cancel(s)
      PROVE  KickMoves(r)
  <2>1. CASE s = r /\ pc[r] = "kick"
    <3>1. pc[s] \in InTry /\ stack' = [stack EXCEPT ![s] = <<Teardown(s, "canceled")>>]
      BY <1>11, <2>1 DEF take_cancel, InTry
    <3>2. Starts(s, Teardown(s, "canceled"))
      BY <1>a, <1>h, <3>1, TeardownTyped, StackStarts
    <3> QED BY <2>1, <3>2 DEF KickMoves
  <2>2. CASE s # r \/ pc[r] # "kick"
    BY <1>11, <1>a, <1>e, <2>2 DEF take_cancel, Goto
  <2> QED BY <2>1, <2>2
<1>12. ASSUME NEW s \in Ntf, drive_aborts(s)
      PROVE  KickMoves(r)
  BY <1>12, <1>a, <1>e DEF drive_aborts, Goto, Runs
<1>13. ASSUME NEW p \in Procs, teardown_resumes_parent(p)
      PROVE  KickMoves(r)
  <2>1. \A q \in Ntf : pc'[q] = pc[q] \/ (pc[q] = "none" /\ q \in reg /\ pc'[q] = "claim")
    BY <1>13, <1>a, <1>w DEF teardown_resumes_parent
  <2> QED BY <2>1, <1>e
<1>14. ASSUME NEW p \in Procs, teardown_cleans(p)
      PROVE  KickMoves(r)
  <2>1. p \in Ntf => pc[p] = "teardown"
    BY <1>14, <1>h DEF teardown_cleans, Steps, StacksAgree
  <2> QED BY <1>14, <2>1, <1>a, <1>e DEF teardown_cleans, Goto
<1>15. CASE backend_crash
  BY <1>15 DEF backend_crash, KickMoves
<1>16. ASSUME NEW s \in Ntf, NEW i \in Instances,
             start_subagent_task(i, s)
      PROVE  KickMoves(r)
  BY <1>16, <1>a, <1>e DEF start_subagent_task, rows, drives, cancels, births, lifes
<1>17. ASSUME NEW s \in Ntf,
             create_subagent_task(s) \/ root_takes(s) \/ cancel_subagent_task(s)
      PROVE  KickMoves(r)
  BY <1>17, <1>a, <1>e DEF create_subagent_task, root_takes, cancel_subagent_task, rows, drives, cancels,
         births, lifes
<1>18. ASSUME NEW p \in Procs,
             sweep_select(p) \/ sweep_flush(p) \/ cancel_notifications(p) \/
             match_children(p) \/ cancel_dormant(p) \/ finish_record(p)
      PROVE  KickMoves(r)
  BY <1>18, <1>a, <1>e DEF sweep_select, sweep_flush, cancel_notifications, match_children, cancel_dormant,
         finish_record, rows, drives, cancels, births, lifes
<1>19. ASSUME NEW p \in Procs, NEW c \in Ntf,
             stop_driver(p, c)
      PROVE  KickMoves(r)
  BY <1>19, <1>a, <1>e DEF stop_driver, rows, drives, cancels, births, lifes
<1>20. CASE tool_returns \/ tool_canceled \/ cancel_session_starters \/
          cancel_session_drivers \/ cancel_session_select \/ cancel_session_flush \/
          reset_processing_notifications_all \/ mark_stale_running_subagent_tasks_failed
          \/ cancel_stale_notifications \/ UNCHANGED treeVars
  BY <1>20, <1>a, <1>e DEF tool_returns, tool_canceled, cancel_session_starters, cancel_session_drivers,
         cancel_session_select, cancel_session_flush, reset_processing_notifications_all,
         mark_stale_running_subagent_tasks_failed, cancel_stale_notifications, treeVars,
         rows, drives, cancels, births, lifes
<1> QED BY <1>1, <1>2, <1>3, <1>4, <1>5, <1>6, <1>7, <1>8, <1>9, <1>10, <1>11, <1>12, <1>13, <1>14,
           <1>15, <1>16, <1>17, <1>18, <1>19, <1>20
        DEF TreeNext, Drive, TeardownStep, CancelAll, Startup

(* A run none of whose teardowns is broken off had none before.             *)
LEMMA IntactStep ==
    ASSUME SettledInv, [TreeNext]_treeVars, NEW s \in Ntf, boot' = "up", Up, Intact(s)'
    PROVE  Intact(s)
<1>1. aborted \subseteq aborted' /\ aborted \in SUBSET Ntf
  BY UpStep DEF UpMoves, SettledInv, TreeTypeOK
<1>2. \A c \in aborted : owner'[c] = owner[c]
  BY <1>1, OwnerStays DEF SettledInv, Lineage, KnownFirst
<1> QED BY <1>1, <1>2 DEF Intact

(* Whoever is about to wake a run does, or is still about to.               *)
LEMMA WakeStays ==
    ASSUME SettledInv, [TreeNext]_treeVars, NEW p \in Procs, NEW s \in Ntf,
           WillWake(p, s), boot' = "up", Intact(s)', Asleep(s)'
    PROVE  \E q \in Procs : WillWake(q, s)'
<1>a. /\ pc \in [Ntf -> DriveStep] /\ reg \in SUBSET Ntf /\ "outst" \in Locked
      /\ \A c \in Ntf : Known(c) => owner'[c] = owner[c] /\ owner[c] # c
  BY OwnerStays DEF SettledInv, TreeTypeOK, Locked, Lineage, ParentsFirst
<1>w. ASSUME NEW l \in [Ntf -> DriveStep], Wakes(s, l), l[s] = pc[s], reg' = reg PROVE FALSE
  <2>1. pc[s] # "outst"
    BY <1>a, <1>w DEF Wakes
  <2>2. CASE s \in reg /\ pc[s] = "none"
    <3>1. pc'[s] = "claim"
      BY <1>w, <2>2 DEF Wakes
    <3> QED BY <3>1 DEF Asleep
  <2>3. CASE ~(s \in reg /\ pc[s] = "none")
    <3>1. pc'[s] = pc[s]
      BY <1>w, <2>3 DEF Wakes
    <3> QED BY <1>w, <2>1, <2>3, <3>1 DEF Asleep
  <2> QED BY <2>2, <2>3
<1>1. CASE p \in Ntf /\ pc[p] = "kick" /\ owner[p] = s
  <2>1. Known(p) /\ owner'[p] = s /\ p # s
    BY <1>1, <1>a DEF SettledInv, Lineage, KnownFirst
  <2>2. CASE pc'[p] = "kick"
    BY <1>1, <2>1, <2>2 DEF WillWake
  <2>3. CASE resume_parent(p)
    <3>1. [pc EXCEPT ![p] = "clean"] \in [Ntf -> DriveStep] /\ [pc EXCEPT ![p] = "clean"][s] = pc[s]
      BY <1>1, <1>a, <2>1 DEF DriveStep, InTry
    <3> QED BY <1>1, <1>w, <2>3, <3>1 DEF resume_parent
  <2>4. CASE Starts(p, Teardown(p, "canceled"))
    <3>1. Teardown(p, "canceled").at = "notes" /\ Teardown(p, "canceled").run = p
      BY DEF Teardown
    <3> QED BY <1>1, <2>1, <2>4, <3>1 DEF WillWake, Starts
  <2> QED BY <1>1, <2>2, <2>3, <2>4, KickMovesStep DEF KickMoves
<1>2. ASSUME NEW n \in DOMAIN stack[p], stack[p][n].at # "clean", stack[p][n].run \in Ntf,
             owner[stack[p][n].run] = s
      PROVE  \E q \in Procs : WillWake(q, s)'
  <2>1. Known(stack[p][n].run) /\ stack[p][n].run # Root
    BY <1>2, TreeAssumption DEF SettledInv, FramesFit, FrameFits
  <2>2. owner'[stack[p][n].run] = s
    BY <1>2, <1>a, <2>1
  <2>3. stack[p][n].run \notin aborted'
    BY <2>2 DEF Intact
  <2>4. /\ n \in DOMAIN stack'[p] /\ stack'[p][n].run = stack[p][n].run
        /\ stack'[p][n].at = "clean" => teardown_resumes_parent(p) /\ Top(p) = stack[p][n]
    BY <1>2, <2>1, <2>3, FrameMovesStep DEF FrameMoves
  <2>5. CASE stack'[p][n].at # "clean"
    BY <1>2, <2>2, <2>4, <2>5 DEF WillWake
  <2>6. CASE teardown_resumes_parent(p) /\ Top(p) = stack[p][n]
    BY <1>2, <1>a, <1>w, <2>6 DEF teardown_resumes_parent
  <2> QED BY <2>4, <2>5, <2>6
<1> QED BY <1>1, <1>2 DEF WillWake

(* The teardown of a run lasts until the run is no longer registered.       *)
LEMMA TornStays ==
    ASSUME SettledInv, [TreeNext]_treeVars, NEW s \in Ntf,
           TornDown(s), boot' = "up", Intact(s)', s \in reg'
    PROVE  TornDown(s)'
<1>1. PICK p \in Procs : \E n \in DOMAIN stack[p] : stack[p][n].run = s
  BY DEF TornDown
<1>2. PICK n \in DOMAIN stack[p] : stack[p][n].run = s
  BY <1>1
<1>3. n \in DOMAIN stack'[p] /\ stack'[p][n].run = s
  BY <1>2, TreeAssumption, FrameMovesStep DEF FrameMoves, Intact
<1> QED BY <1>3 DEF TornDown

(* A run comes to its output when nothing is owed to it.                    *)
OutputMoves(s) ==
    pc'[s] = "output" /\ s \notin aborted' =>
       \/ pc[s] = "output" /\ s \notin aborted
       \/ pc[s] = "outst" /\ s \notin aborted /\ OutstandingFor(row, {s}) = {}

(* No step brings a drive to its output otherwise.                          *)
LEMMA OutputMovesStep ==
    ASSUME SettledInv,
           [TreeNext]_treeVars
    PROVE  \A s \in Ntf : OutputMoves(s)
<1>h. /\ TreeTypeOK /\ ObligationFollowsTask /\ StartupAlone /\ Lineage /\ AwaitedLive
      /\ StacksAgree /\ FramesFit /\ EndedBeforeKick /\ RunningIsMinded
      /\ KnownFirst /\ StartersApart /\ ParentsFirst /\ ItemsFit
  BY DEF SettledInv, Lineage
<1> SUFFICES ASSUME NEW r \in Ntf PROVE OutputMoves(r)
  OBVIOUS
<1>a. pc \in [Ntf -> DriveStep]
  BY <1>h DEF TreeTypeOK
<1>e. pc'[r] = pc[r] /\ aborted \subseteq aborted' => OutputMoves(r)
  BY DEF OutputMoves
<1>n. pc'[r] # "output" => OutputMoves(r)
  BY DEF OutputMoves
<1>w. ASSUME NEW i, NEW l, Wakes(i, l), l \in [Ntf -> DriveStep]
      PROVE  \A s \in Ntf : pc'[s] = l[s] \/ (pc[s] = "none" /\ s \in reg /\ pc'[s] = "claim")
  BY <1>w DEF Wakes

<1>1. ASSUME NEW s \in Ntf, register_driver(s)
      PROVE  OutputMoves(r)
  BY <1>1, <1>a, <1>e, <1>n DEF register_driver, Goto, lifes
<1>2. ASSUME NEW s \in Ntf, initial_turn_ends(s)
      PROVE  OutputMoves(r)
  BY <1>2, <1>a, <1>e, <1>n DEF initial_turn_ends, Goto, lifes
<1>3. ASSUME NEW s \in Ntf, claim_next_pending_notification(s)
      PROVE  OutputMoves(r)
  BY <1>3, <1>a, <1>e, <1>n DEF claim_next_pending_notification, Goto, lifes
<1>4. ASSUME NEW s \in Ntf, notification_turn_ends(s)
      PROVE  OutputMoves(r)
  BY <1>4, <1>a, <1>e, <1>n DEF notification_turn_ends, Goto, lifes
<1>5. ASSUME NEW s \in Ntf, release_notification(s)
      PROVE  OutputMoves(r)
  BY <1>5, <1>a, <1>e, <1>n DEF release_notification, Goto, lifes
<1>6. ASSUME NEW s \in Ntf, settle_pending(s)
      PROVE  OutputMoves(r)
  BY <1>6, <1>a, <1>e, <1>n DEF settle_pending, Goto, lifes
<1>7. ASSUME NEW s \in Ntf, settle_outstanding(s)
      PROVE  OutputMoves(r)
  <2>1. CASE s = r
    BY <1>7, <1>a, <2>1 DEF settle_outstanding, Goto, Runs, OutputMoves, lifes
  <2>2. CASE s # r
    BY <1>7, <1>a, <1>e, <2>2 DEF settle_outstanding, Goto, lifes
  <2> QED BY <2>1, <2>2
<1>8. ASSUME NEW s \in Ntf, complete_subagent(s)
      PROVE  OutputMoves(r)
  BY <1>8, <1>a, <1>e, <1>n DEF complete_subagent, Goto, lifes
<1>9. ASSUME NEW s \in Ntf, resume_parent(s)
      PROVE  OutputMoves(r)
  <2>1. [pc EXCEPT ![s] = "clean"] \in [Ntf -> DriveStep]
    BY <1>a DEF DriveStep, InTry
  <2>2. pc'[r] = [pc EXCEPT ![s] = "clean"][r] \/ pc'[r] = "claim"
    BY <1>9, <1>w, <2>1 DEF resume_parent
  <2> QED BY <1>9, <2>2, <1>a, <1>e, <1>n DEF resume_parent, lifes
<1>10. ASSUME NEW s \in Ntf, cleanup_subagent(s)
      PROVE  OutputMoves(r)
  BY <1>10, <1>a, <1>e, <1>n DEF cleanup_subagent, Goto, lifes
<1>11. ASSUME NEW s \in Ntf, take_cancel(s)
      PROVE  OutputMoves(r)
  BY <1>11, <1>a, <1>e, <1>n DEF take_cancel, Goto
<1>12. ASSUME NEW s \in Ntf, drive_aborts(s)
      PROVE  OutputMoves(r)
  BY <1>12, <1>a, <1>e, <1>n DEF drive_aborts, Goto, lifes
<1>13. ASSUME NEW p \in Procs, teardown_resumes_parent(p)
      PROVE  OutputMoves(r)
  <2>1. pc'[r] = pc[r] \/ pc'[r] = "claim"
    BY <1>13, <1>a, <1>w DEF teardown_resumes_parent
  <2> QED BY <1>13, <2>1, <1>e, <1>n DEF teardown_resumes_parent, lifes
<1>14. ASSUME NEW p \in Procs, teardown_cleans(p)
      PROVE  OutputMoves(r)
  BY <1>14, <1>a, <1>e, <1>n DEF teardown_cleans, Goto, lifes
<1>15. CASE tool_canceled
  BY <1>15, <1>e DEF tool_canceled, drives
<1>16. CASE backend_crash
  BY <1>16, <1>n DEF backend_crash
<1>17. ASSUME NEW s \in Ntf, NEW i \in Instances,
             start_subagent_task(i, s)
      PROVE  OutputMoves(r)
  BY <1>17, <1>a, <1>e DEF start_subagent_task, rows, drives, cancels, births, lifes
<1>18. ASSUME NEW s \in Ntf,
             create_subagent_task(s) \/ root_takes(s) \/ cancel_subagent_task(s)
      PROVE  OutputMoves(r)
  BY <1>18, <1>a, <1>e DEF create_subagent_task, root_takes, cancel_subagent_task, rows, drives, cancels,
         births, lifes
<1>19. ASSUME NEW p \in Procs,
             sweep_select(p) \/ sweep_flush(p) \/ cancel_notifications(p) \/
             match_children(p) \/ cancel_dormant(p) \/ finish_record(p)
      PROVE  OutputMoves(r)
  BY <1>19, <1>a, <1>e DEF sweep_select, sweep_flush, cancel_notifications, match_children, cancel_dormant,
         finish_record, rows, drives, cancels, births, lifes
<1>20. ASSUME NEW p \in Procs, NEW c \in Ntf,
             stop_driver(p, c)
      PROVE  OutputMoves(r)
  BY <1>20, <1>a, <1>e DEF stop_driver, rows, drives, cancels, births, lifes
<1>21. CASE tool_returns \/ cancel_session_starters \/ cancel_session_drivers \/
          cancel_session_select \/ cancel_session_flush \/
          reset_processing_notifications_all \/ mark_stale_running_subagent_tasks_failed
          \/ cancel_stale_notifications \/ UNCHANGED treeVars
  BY <1>21, <1>a, <1>e DEF tool_returns, cancel_session_starters, cancel_session_drivers,
         cancel_session_select, cancel_session_flush, reset_processing_notifications_all,
         mark_stale_running_subagent_tasks_failed, cancel_stale_notifications, treeVars,
         rows, drives, cancels, births, lifes
<1> QED BY <1>1, <1>2, <1>3, <1>4, <1>5, <1>6, <1>7, <1>8, <1>9, <1>10, <1>11, <1>12, <1>13, <1>14,
           <1>15, <1>16, <1>17, <1>18, <1>19, <1>20, <1>21
        DEF TreeNext, Drive, TeardownStep, CancelAll, Startup

(* A result that is owed was owed before to the same run, unless the step   *)
(* creates it.                                                              *)
LEMMA OwedBefore ==
    ASSUME SettledInv, [TreeNext]_treeVars, NEW n \in Ntf, NEW s \in Ntf, n \in OutstandingFor(row', {s})
    PROVE  n \in OutstandingFor(row, {s}) \/ (create_subagent_task(n) /\ starter[n] # "none" /\ owner[n] = s)
<1>1. row[n].status \in Outstanding \/ create_subagent_task(n)
  BY RowTurnsStep DEF RowTurns, OutstandingFor, SettledInv
<1>2. CASE create_subagent_task(n)
  <2>1. row'[n] = NewObligation("subagent_finished", owner[n], 0)
    BY <1>2 DEF create_subagent_task, SettledInv, TreeTypeOK
  <2>2. row'[n].to = owner[n]
    BY <2>1 DEF NewObligation
  <2> QED BY <1>2, <2>2 DEF create_subagent_task, OutstandingFor
<1>3. CASE ~create_subagent_task(n)
  <2>1. row'[n].to = row[n].to
    BY <1>3, RowStep DEF RowMoves, SettledInv
  <2> QED BY <1>1, <1>3, <2>1 DEF OutstandingFor
<1> QED BY <1>2, <1>3

(* A run that completes, or has completed, is owed nothing.                 *)
LEMMA NothingOwedStep ==
    ASSUME SettledInv, OpenToolHolds, NothingOwed,
           [TreeNext]_treeVars
    PROVE  NothingOwed'
<1>1. ASSUME NEW s \in Ntf, pc'[s] = "output", s \notin aborted'
      PROVE  OutstandingFor(row', {s}) = {}
  <2>1. pc[s] \in {"output", "outst"} /\ s \notin aborted /\ OutstandingFor(row, {s}) = {}
    BY <1>1, OutputMovesStep DEF OutputMoves, NothingOwed
  <2>2. ASSUME NEW n \in OutstandingFor(row', {s}) PROVE FALSE
    <3>1. n \in Ntf
      BY DEF OutstandingFor
    <3>2. starter[n] # "none" /\ owner[n] = s
      BY <2>1, <3>1, OwedBefore
    <3> QED BY <2>1, <3>1, <3>2 DEF OpenToolHolds
  <2> QED BY <2>2
<1>2. ASSUME NEW c \in Ntf, Up', row'[c].status = "awaiting", owner'[c] \in Ntf, owner'[c] \notin aborted'
      PROVE  task'[owner'[c]] # "completed"
  <2>1. Up /\ aborted \subseteq aborted'
    BY <1>2, UpStep DEF UpMoves, Up
  <2>2. /\ owner'[c] = owner[c]
        /\ task[owner[c]] # "completed"
        /\ pc[owner[c]] # "output"
    <3>1. CASE create_subagent_task(c)
      <4>1. owner'[c] = owner[c] /\ starter[c] # "none"
        BY <3>1 DEF create_subagent_task
      <4> QED BY <1>2, <2>1, <4>1 DEF OpenToolHolds
    <3>2. CASE ~create_subagent_task(c)
      <4>1. row'[c] = row[c]
        BY <1>2, <3>2, RowStep DEF RowMoves, SettledInv
      <4>2. Known(c) /\ row[c].to = owner[c] /\ owner'[c] = owner[c]
        BY <1>2, <4>1, OwnerStays DEF SettledInv, Lineage, ParentsFirst
      <4>3. task[owner[c]] # "completed"
        BY <1>2, <2>1, <4>1, <4>2 DEF NothingOwed, CompletedHasHeard
      <4>4. c \in OutstandingFor(row, {owner[c]})
        BY <1>2, <4>1, <4>2 DEF OutstandingFor, Outstanding
      <4>5. pc[owner[c]] # "output"
        BY <1>2, <2>1, <4>2, <4>4 DEF NothingOwed
      <4> QED BY <4>2, <4>3, <4>5
    <3> QED BY <3>1, <3>2
  <2>3. task'[owner[c]] = "completed" => complete_subagent(owner[c])
    BY <1>2, <2>2, TaskStep DEF TaskMoves, SettledInv
  <2> QED BY <2>2, <2>3 DEF complete_subagent, Runs
<1> QED BY <1>1, <1>2 DEF NothingOwed, CompletedHasHeard

(* A teardown that has recorded the end of its run goes on to the parent.   *)
LEMMA RecordWakes ==
    ASSUME SettledInv, [TreeNext]_treeVars, NEW p \in Procs, NEW n \in Ntf,
           NEW s \in Ntf,
           finish_record(p), Top(p).run = n, owner[n] = s
    PROVE  WillWake(p, s)'
<1>1. Turns(p, "kick", Top(p).todo, Top(p).dormant)
  BY TeardownTurns DEF SettledInv
<1>2. Len(stack[p]) \in DOMAIN stack[p]
  BY <1>1, StackShape DEF SettledInv, Turns
<1>3. Turned(Top(p), "kick", Top(p).todo, Top(p).dormant).at = "kick"
      /\ Turned(Top(p), "kick", Top(p).todo, Top(p).dormant).run = n
  BY DEF Turned
<1>4. /\ Len(stack[p]) \in DOMAIN stack'[p]
      /\ stack'[p][Len(stack[p])].at = "kick" /\ stack'[p][Len(stack[p])].run = n
  BY <1>1, <1>2, <1>3 DEF Turns, TopBecomes
<1>5. owner' = owner
  BY DEF finish_record, births
<1> QED BY <1>4, <1>5 DEF WillWake

(* A result that comes after its recipient looked has somebody who brings   *)
(* it.                                                                      *)
LEMMA BroughtStep ==
    ASSUME SettledInv, ResultIsBrought, [TreeNext]_treeVars
    PROVE  ResultIsBrought'
<1> SUFFICES ASSUME NEW s \in Ntf, Up', Intact(s)', PendingFor(row', {s}) # {}, Asleep(s)'
             PROVE  \E p \in Procs : WillWake(p, s)'
  BY DEF ResultIsBrought
<1>a. /\ TreeTypeOK /\ Ntf \subseteq Procs /\ pc \in [Ntf -> DriveStep] /\ boot' = "up" /\ s \notin aborted'
      /\ KnownFirst /\ ParentsFirst /\ ItemsFit
  BY DEF SettledInv, TreeTypeOK, Procs, Up, Intact, Lineage
<1>u. Up
  BY <1>a, UpStep DEF UpMoves, Asleep
<1>i. Intact(s)
  BY <1>a, <1>u, IntactStep
<1>1. PICK n \in Ntf : row'[n].status = "pending" /\ row'[n].to = s
  BY DEF PendingFor
<1>2. ~create_subagent_task(n)
  <2>1. create_subagent_task(n) => row'[n] = NewObligation("subagent_finished", owner[n], 0)
    BY <1>a DEF create_subagent_task, TreeTypeOK
  <2> QED BY <1>1, <2>1 DEF NewObligation
<1>3. /\ row[n].status # "absent" /\ row[n].to = s
      /\ Known(n) /\ owner[n] = s
  <2>1. n \in OutstandingFor(row', {s})
    BY <1>1 DEF OutstandingFor, Outstanding
  <2>2. n \in OutstandingFor(row, {s})
    BY <1>2, <2>1, OwedBefore
  <2> QED BY <1>a, <2>2 DEF OutstandingFor, Outstanding, ParentsFirst
<1>4. row[n].status = "pending" \/ Brings(n)
  BY <1>1, <1>a, RowTurnsStep DEF RowTurns
<1>5. CASE row[n].status = "pending"
  <2>1. n \in PendingFor(row, {s})
    BY <1>3, <1>5 DEF PendingFor
  <2>2. Asleep(s)
    BY <1>a, <2>1, AsleepStep
  <2>3. PICK p \in Procs : WillWake(p, s)
    BY <1>i, <1>u, <2>1, <2>2 DEF ResultIsBrought
  <2> QED BY <1>a, <2>3, WakeStays
<1>6. CASE complete_subagent(n)
  <2>1. pc'[n] = "kick" /\ owner'[n] = owner[n]
    BY <1>6, <1>a DEF complete_subagent, Goto, births
  <2> QED BY <1>3, <1>a, <2>1 DEF WillWake
<1>7. ASSUME NEW p \in Procs, finish_record(p), Top(p).run = n
      PROVE  \E q \in Procs : WillWake(q, s)'
  BY <1>3, <1>7, RecordWakes
<1>8. ASSUME NEW x \in Ntf, release_notification(x), item[x] = n PROVE FALSE
  <2>1. x = s
    BY <1>3, <1>8, <1>a DEF ItemsFit, release_notification, Runs
  <2>2. pc'[s] = "teardown"
    BY <1>8, <1>a, <2>1 DEF release_notification, Goto
  <2> QED BY <2>2 DEF Asleep
<1> QED BY <1>4, <1>5, <1>6, <1>7, <1>8, <1>u DEF Brings

(* A dormant run goes on being owed something, or is woken, or torn down.   *)
LEMMA SleeperStep ==
    ASSUME SettledInv, OpenToolHolds, SleeperIsOwed, [TreeNext]_treeVars
    PROVE  SleeperIsOwed'
<1> SUFFICES ASSUME NEW s \in Ntf, s \in reg', Up', pc'[s] = "none", task'[s] = "running", Intact(s)',
                    cpc'["all"] = "idle" \/ (Flushing' /\ ~Swept(s)')
             PROVE  \/ OutstandingFor(row', {s}) # {}
                    \/ \E p \in Procs : WillWake(p, s)'
                    \/ TornDown(s)'
  <2>1. reg' \subseteq Ntf
    BY TreeTypesStep DEF SettledInv, TreeTypeOK
  <2> QED BY <2>1 DEF SleeperIsOwed
<1>h. /\ TreeTypeOK /\ Lineage /\ StacksAgree /\ FramesFit /\ RunningIsMinded
      /\ KnownFirst /\ StartersApart /\ ParentsFirst /\ ItemsFit /\ StartupAlone /\ AwaitedLive
  BY DEF SettledInv, Lineage
<1>a. /\ Ntf \subseteq Procs /\ pc \in [Ntf -> DriveStep] /\ boot' = "up" /\ s \notin aborted'
      /\ task \in [Ntf -> TaskStatus] /\ "all" \in Procs
  BY <1>h DEF TreeTypeOK, Procs, Cancelers, Up, Intact
<1>u. Up /\ aborted \subseteq aborted'
  BY <1>a, UpStep DEF UpMoves
<1>i. Intact(s)
  BY <1>a, <1>u, IntactStep
<1>1. CASE settle_outstanding(s) /\ OutstandingFor(row, {s}) # {}
  BY <1>1 DEF settle_outstanding, rows
<1>2. CASE Asleep(s) /\ pc[s] = "none" /\ s \in reg
  <2>t. task[s] = "running"
    BY <1>2, <1>h, KnownStays DEF KnownFirst
  <2>g. cancel_session_flush => Flushing /\ Top("all") = stack["all"][1] /\ ~Swept(s)
    <3>1. ASSUME cancel_session_flush PROVE stack["all"] # <<>> /\ Top("all") = stack["all"][1]
      BY <1>a, <1>h, <3>1, StackShape DEF cancel_session_flush, Top
    <3>2. ASSUME cancel_session_flush PROVE s \notin Top("all").todo
      BY <1>a, <3>2 DEF cancel_session_flush, SweepRows
    <3> QED BY <3>1, <3>2 DEF Flushing, Swept, cancel_session_flush
  <2>c. cpc["all"] = "idle" \/ (Flushing /\ ~Swept(s))
    <3>1. CASE cpc'["all"] = "idle"
      BY <1>a, <1>h, <2>g, <3>1, FlushStep DEF FlushMoves
    <3>2. CASE Flushing' /\ ~Swept(s)'
      <4>1. cancel_session_select => Swept(s)'
        <5> SUFFICES ASSUME cancel_session_select PROVE Swept(s)'
          OBVIOUS
        <5> DEFINE T == {c \in Ntf : task[c] = "running"}
        <5>1. Turns("all", "flush", T, Top("all").dormant) /\ Len(stack["all"]) = 1
          BY <1>h, SelectTurns DEF cancel_session_select
        <5>2. 1 \in DOMAIN stack["all"]
          BY <1>a, <1>h, <5>1, StackShape DEF Turns
        <5>3. Turned(Top("all"), "flush", T, Top("all").dormant).todo = T
          BY DEF Turned
        <5>4. stack'["all"][1].todo = T
          BY <5>1, <5>2, <5>3 DEF Turns, TopBecomes
        <5> QED BY <2>t, <5>4 DEF Swept
      <4> QED BY <1>h, <3>2, <4>1, FlushStep DEF FlushMoves, Swept
    <3> QED BY <3>1, <3>2
  <2>1. CASE \E p \in Procs : WillWake(p, s)
    <3>1. Asleep(s)'
      BY DEF Asleep
    <3> QED BY <1>a, <2>1, <3>1, WakeStays
  <2>2. CASE TornDown(s)
    BY <1>a, <2>2, TornStays
  <2>3. ASSUME NEW n \in Ntf, row[n].status \in Outstanding, row[n].to = s
        PROVE  \/ OutstandingFor(row', {s}) # {}
               \/ \E p \in Procs : WillWake(p, s)'
               \/ TornDown(s)'
    <3>1. Known(n) /\ owner[n] = s /\ ~create_subagent_task(n)
      BY <1>h, <2>3 DEF ParentsFirst, StartersApart, Outstanding, create_subagent_task
    <3>2. CASE row'[n].status \in Outstanding
      <4>1. row'[n].to = s
        BY <1>h, <2>3, <3>1, RowStep DEF RowMoves
      <4> QED BY <3>2, <4>1 DEF OutstandingFor
    <3>m. ~(Flushing /\ Swept(n) /\ ~Swept(s))
      BY <1>h, <2>t, <3>1 DEF RunningIsMinded, Swept
    <3>d. ASSUME NEW p \in Procs, stack[p] # <<>>, Top(p).run = s PROVE TornDown(s)'
      <4>1. Len(stack[p]) \in DOMAIN stack[p] /\ stack[p][Len(stack[p])].run = s
        BY <1>h, <3>d, StackShape DEF Top
      <4>2. TornDown(s)
        BY <4>1 DEF TornDown
      <4> QED BY <1>a, <4>2, TornStays
    <3>3. ASSUME NEW x \in Ntf, notification_turn_ends(x), item[x] = n PROVE FALSE
      <4>1. x = s /\ pc[x] = "turn"
        BY <1>h, <2>3, <3>3 DEF ItemsFit, notification_turn_ends, Runs
      <4> QED BY <1>2, <4>1
    <3>4. CASE root_takes(n)
      BY <2>3, <3>4, TreeAssumption DEF root_takes, PendingFor
    <3>5. CASE cancel_subagent_task(n) /\ n \notin reg /\ task[n] = "running"
      <4>1. starter[n] = "none"
        BY <1>2, <1>a, <1>u, <3>1 DEF OpenToolHolds
      <4>2. cpc["all"] # "idle" /\ (Flushing => Swept(n))
        BY <1>h, <1>u, <3>5, <4>1 DEF RunningIsMinded
      <4> QED BY <2>c, <3>m, <4>2
    <3>6. ASSUME NEW p \in Procs, cancel_notifications(p), row[n].to = Top(p).run PROVE TornDown(s)'
      BY <2>3, <3>6, <3>d DEF cancel_notifications, Steps
    <3>7. ASSUME NEW p \in Procs, sweep_flush(p), n \in Top(p).todo, p = "all" => Len(stack[p]) > 1
          PROVE  TornDown(s)'
      <4>1. stack[p] # <<>> /\ Top(p).at = "flush" /\ FrameFits(p, Len(stack[p]), Top(p))
        BY <1>h, <3>7, StackShape DEF sweep_flush, Steps, FramesFit, Top
      <4>2. \A k : k = 1 => ~(k > 1)
        OBVIOUS
      <4>3. Top(p).run # Root
        BY <3>7, <4>1, <4>2 DEF FrameFits
      <4>4. Top(p).run = s
        BY <3>1, <3>7, <4>1, <4>3 DEF FrameFits
      <4> QED BY <3>d, <4>1, <4>4
    <3>8. ASSUME NEW p \in Procs, finish_record(p), Top(p).run = n PROVE \E q \in Procs : WillWake(q, s)'
      BY <3>1, <3>8, RecordWakes
    <3>9. CASE cancel_session_flush /\ n \in Top("all").todo
      BY <2>g, <3>9, <3>m DEF Swept
    <3>10. CASE Drops(n)
      BY <1>u, <3>3, <3>4, <3>5, <3>6, <3>7, <3>8, <3>9, <3>10 DEF Drops
    <3> QED BY <1>h, <2>3, <3>2, <3>10, RowTurnsStep DEF RowTurns
  <2> QED BY <1>2, <1>i, <1>u, <2>c, <2>t, <2>1, <2>2, <2>3 DEF SleeperIsOwed, OutstandingFor
<1>3. Asleep(s)'
  BY DEF Asleep
<1> QED BY <1>1, <1>2, <1>3, <1>a, AsleepStep

(* In the initial state nobody is owed anything.                            *)
LEMMA OwedInit == TreeInit => OwedInv
<1> SUFFICES ASSUME TreeInit PROVE OwedInv
  OBVIOUS
<1>1. /\ starter = [s \in Ntf |-> "none"] /\ task = [s \in Ntf |-> "absent"] /\ reg = {}
      /\ pc = [s \in Ntf |-> "none"]
      /\ row = [s \in Ntf |-> [NoRow EXCEPT !.kind = "subagent_finished", !.to = Root]]
  BY DEF TreeInit
<1>2. \A s \in Ntf : row[s].status = "absent"
  BY <1>1 DEF NoRow
<1>3. OpenToolHolds /\ CompletedIsOver /\ SleeperIsOwed
  BY <1>1 DEF OpenToolHolds, CompletedIsOver, SleeperIsOwed
<1>4. NothingOwed /\ ResultIsBrought
  BY <1>1, <1>2 DEF NothingOwed, CompletedHasHeard, ResultIsBrought, Asleep
<1> QED BY <1>3, <1>4 DEF OwedInv

(* A step keeps what is said of those who are owed something.               *)
LEMMA OwedStep == SettledInv /\ OwedInv /\ [TreeNext]_treeVars => OwedInv'
<1> SUFFICES ASSUME SettledInv, OwedInv, [TreeNext]_treeVars PROVE OwedInv'
  OBVIOUS
<1>1. OpenToolHolds'
  BY OpenToolStep DEF OwedInv
<1>2. CompletedIsOver'
  BY CompletedStep DEF OwedInv
<1>3. NothingOwed'
  BY NothingOwedStep DEF OwedInv
<1>4. ResultIsBrought'
  BY BroughtStep DEF OwedInv
<1>5. SleeperIsOwed'
  BY SleeperStep DEF OwedInv
<1> QED BY <1>1, <1>2, <1>3, <1>4, <1>5 DEF OwedInv

(* A subagent that owes its parent an answer is never left alone: a ready  *)
(* result has a drive or somebody who starts one, a dormant run is owed    *)
(* something, and a run that completed has heard of its children           *)
(* (_settle_subagent, resume_subagent_instance, _complete_subagent).       *)
THEOREM OwedIsAlwaysHeard == TreeSpec => []OwedIsHeard
<1>1. SettledInv /\ OwedInv => OwedIsHeard
  <2> SUFFICES ASSUME SettledInv, OwedInv PROVE OwedIsHeard
    OBVIOUS
  <2>1. ReadyIsAttended
    <3>1. ASSUME NEW s \in reg, Up, pc[s] = "none", PendingFor(row, {s}) # {}, Intact(s), s \in Ntf
          PROVE  \E p \in Procs : WillWake(p, s)
      BY <3>1 DEF OwedInv, ResultIsBrought, Asleep
    <3>2. reg \subseteq Ntf
      BY DEF SettledInv, TreeTypeOK
    <3> QED BY <3>1, <3>2 DEF ReadyIsAttended
  <2>2. DormantIsOwed
    BY DEF OwedInv, SleeperIsOwed, TornDown, DormantIsOwed
  <2> QED BY <2>1, <2>2 DEF OwedInv, NothingOwed, OwedIsHeard
<1> QED BY <1>1, SettledInit, SettledStep, OwedInit, OwedStep, PTL DEF TreeSpec
=============================================================================
