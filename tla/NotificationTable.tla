------------------------- MODULE NotificationTable -------------------------
(***************************************************************************)
(* What the notification store promises to the agent runtime, whatever the *)
(* order in which drivers, background tasks, user requests and restarts    *)
(* call it.  Every action is one committed statement (or one SELECT) of    *)
(* service/agent/notifications.py.  SQLite runs the SELECT of a bulk       *)
(* cancellation outside any transaction, so the rows it returns may change *)
(* before the flush that cancels them: selected and flushed are two steps, *)
(* and other callers interleave between them.                              *)
(***************************************************************************)
EXTENDS NotificationRows

CONSTANTS
    Main,       \* the instances whose id starts with "main:"
    Cancels     \* bulk cancellations that can be in flight at once

ASSUME MainAssumption == Main \subseteq Instances

VARIABLES
    row,        \* [Ntf -> Rows]
    clock,      \* created_at of the next row
    sel         \* [Cancels -> what the SELECT of that cancellation returned]

vars == <<row, clock, sel>>

Idle == [mode |-> "none", rows |-> {}]

TypeOK ==
    /\ row \in [Ntf -> Rows]
    /\ clock \in Nat
    /\ sel \in [Cancels -> [mode : {"none", "all", "interrupt"}, rows : SUBSET Ntf]]

Init ==
    /\ row = [n \in Ntf |-> NoRow]
    /\ clock = 0
    /\ sel = [c \in Cancels |-> Idle]

-----------------------------------------------------------------------------

(* A new AWAITING obligation, in the transaction that creates its task.     *)
add_obligation_in_session(n, k, i) ==
    /\ row[n].status = "absent"
    /\ k # "user_message"
    /\ row' = [row EXCEPT ![n] = NewObligation(k, i, clock)]
    /\ clock' = clock + 1
    /\ UNCHANGED sel

enqueue_user_message_notification(n, i) ==
    /\ row[n].status = "absent"
    /\ i \in Main
    /\ row' = [row EXCEPT ![n] = NewUserMessage(i, clock)]
    /\ clock' = clock + 1
    /\ UNCHANGED sel

(* One transaction resolves the obligations of one or of several tasks.     *)
resolve_obligation_in_session(S, ready) ==
    /\ row' = [n \in Ntf |-> IF n \in S THEN Resolved(row[n], ready) ELSE row[n]]
    /\ UNCHANGED <<clock, sel>>

claim_next_pending_notification(n) ==
    /\ row' = [row EXCEPT ![n] = Claimed(@)]
    /\ UNCHANGED <<clock, sel>>

finish_notification(n, s) ==
    /\ row' = [row EXCEPT ![n] = Finished(@, s)]
    /\ UNCHANGED <<clock, sel>>

release_notification(n) ==
    /\ row' = [row EXCEPT ![n] = Released(@)]
    /\ UNCHANGED <<clock, sel>>

cancel_session_notifications(c, insts) ==
    /\ sel[c] = Idle
    /\ sel' = [sel EXCEPT ![c] = [mode |-> "all", rows |-> OutstandingFor(row, insts)]]
    /\ UNCHANGED <<row, clock>>

cancel_main_agent_interrupted_notifications(c) ==
    /\ sel[c] = Idle
    /\ sel' = [sel EXCEPT ![c] = [mode |-> "interrupt", rows |-> InterruptedFor(row, Main)]]
    /\ UNCHANGED <<row, clock>>

(* The write half of _cancel_notifications.                                 *)
flush_cancel(c) ==
    /\ sel[c] # Idle
    /\ row' = [n \in Ntf |-> IF n \in sel[c].rows THEN Cancelled(row[n]) ELSE row[n]]
    /\ sel' = [sel EXCEPT ![c] = Idle]
    /\ UNCHANGED clock

(* A cancellation that never reaches its flush: the task running it was    *)
(* itself canceled, or the process died.                                   *)
lose_cancels(C) ==
    /\ sel' = [c \in Cancels |-> IF c \in C THEN Idle ELSE sel[c]]
    /\ UNCHANGED <<row, clock>>

(* Boot, before any driver or request exists.                               *)
reset_processing_notifications_all ==
    /\ \A c \in Cancels : sel[c] = Idle
    /\ row' = [n \in Ntf |-> Reset(row[n])]
    /\ UNCHANGED <<clock, sel>>

Next ==
    \/ \E n \in Ntf, k \in Kinds, i \in Instances : add_obligation_in_session(n, k, i)
    \/ \E n \in Ntf, i \in Instances : enqueue_user_message_notification(n, i)
    \/ \E S \in SUBSET Ntf, ready \in BOOLEAN : resolve_obligation_in_session(S, ready)
    \/ \E n \in Ntf : claim_next_pending_notification(n)
    \/ \E n \in Ntf, s \in {"completed", "failed"} : finish_notification(n, s)
    \/ \E n \in Ntf : release_notification(n)
    \/ \E c \in Cancels, insts \in SUBSET Instances : cancel_session_notifications(c, insts)
    \/ \E c \in Cancels : cancel_main_agent_interrupted_notifications(c)
    \/ \E c \in Cancels : flush_cancel(c)
    \/ \E C \in SUBSET Cancels : lose_cancels(C)
    \/ reset_processing_notifications_all

Spec == Init /\ [][Next]_vars

-----------------------------------------------------------------------------

(* Once a notification is completed, failed or canceled it is never        *)
(* outstanding again, so no driver is woken a second time for it: late     *)
(* releases, finishes and resolutions of a row another caller settled, and *)
(* cancellations flushed over rows that have moved on, cannot reopen it    *)
(* (_finish_notification, release_notification, resolve_obligation_in_     *)
(* session and the flush of _cancel_notifications).                        *)
NeverReopened ==
    [][\A n \in Ntf : row[n].status \in Terminal => row'[n].status \in Terminal]_vars

(* started_at tells claimed work from fresh work, which is what            *)
(* cancel_main_agent_interrupted_notifications relies on: a row being      *)
(* processed always has it, and a result still awaited never has.          *)
StartedMeansClaimed ==
    \A n \in Ntf : /\ row[n].status = "processing" => row[n].started
                   /\ row[n].status = "awaiting" => ~row[n].started

(* A user interrupt never discards a message no driver has claimed, even   *)
(* though its SELECT and its flush are apart: what an interrupt has        *)
(* selected and will cancel holds no fresh user message                    *)
(* (spare_unclaimed_user_messages in _cancel_notifications).               *)
InterruptSparesFresh ==
    \A c \in Cancels : sel[c].mode = "interrupt" =>
        \A n \in sel[c].rows : row[n].kind = "user_message" => row[n].started

(* A flush only writes rows that exist.                                     *)
SelectedRowsExist ==
    \A c \in Cancels : \A n \in sel[c].rows : row[n].status # "absent"
=============================================================================
