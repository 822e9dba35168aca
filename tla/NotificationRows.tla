-------------------------- MODULE NotificationRows --------------------------
(***************************************************************************)
(* The rows of the agent_notifications table and what each statement of    *)
(* service/agent/notifications.py does to one row.  A row is an            *)
(* "obligation" of some agent instance: the result of a background task it *)
(* started (subagent or sandbox command), or a user message queued while   *)
(* it was running.                                                         *)
(*                                                                         *)
(*   kind     which of the three kinds of notification it is               *)
(*   to       the agent instance it is addressed to                        *)
(*   status   absent (no row yet) or the value of the status column        *)
(*   started  whether started_at is set                                    *)
(*   born     created_at, as a tick of the caller's clock                  *)
(*                                                                         *)
(* Payloads, scopes, error texts and the other timestamps decide nothing   *)
(* and are left out.                                                       *)
(***************************************************************************)
EXTENDS Naturals

CONSTANTS
    Ntf,        \* notification ids (uuid4 values)
    Instances   \* agent instance ids

ASSUME InstancesAssumption == Instances # {}

Kinds == {"subagent_finished", "async_job_finished", "user_message"}

Outstanding == {"awaiting", "pending", "processing"}
Terminal    == {"completed", "failed", "canceled"}
Statuses    == {"absent"} \cup Outstanding \cup Terminal

Rows == [kind : Kinds, to : Instances, status : Statuses,
         started : BOOLEAN, born : Nat]

Priority(r) == IF r.kind = "user_message" THEN 10 ELSE 0

-----------------------------------------------------------------------------
(* Queries: the WHERE clauses of the SELECT statements.                    *)

PendingFor(row, insts) ==
    {n \in Ntf : row[n].status = "pending" /\ row[n].to \in insts}

OutstandingFor(row, insts) ==
    {n \in Ntf : row[n].status \in Outstanding /\ row[n].to \in insts}

(* ORDER BY priority DESC, created_at ASC LIMIT 1                           *)
IsNextPending(row, i, n) ==
    /\ n \in PendingFor(row, {i})
    /\ \A m \in PendingFor(row, {i}) :
          \/ Priority(row[m]) < Priority(row[n])
          \/ Priority(row[m]) = Priority(row[n]) /\ row[n].born <= row[m].born

(* Mutants of InterruptedFor: user messages are not spared; rows that a    *)
(* canceled driver left PROCESSING are not looked for.                     *)
InterruptedFor_all(row, insts) ==
    {n \in Ntf : row[n].status \in {"pending", "processing"} /\ row[n].to \in insts}

InterruptedFor_pending(row, insts) ==
    {n \in Ntf : /\ row[n].status = "pending"
                 /\ row[n].to \in insts
                 /\ row[n].kind # "user_message" \/ row[n].started}

(* What a user interrupt discards: claimed work and every queued result,   *)
(* but not a user message that no driver has claimed yet.                  *)
InterruptedFor(row, insts) ==
    {n \in Ntf : /\ row[n].status \in {"pending", "processing"}
                 /\ row[n].to \in insts
                 /\ row[n].kind # "user_message" \/ row[n].started}

-----------------------------------------------------------------------------
(* Updates of one row.                                                      *)

NoRow ==
    [kind |-> "user_message", to |-> CHOOSE i \in Instances : TRUE,
     status |-> "absent", started |-> FALSE, born |-> 0]

NewObligation(k, i, b) ==
    [kind |-> k, to |-> i, status |-> "awaiting", started |-> FALSE, born |-> b]

NewUserMessage(i, b) ==
    [kind |-> "user_message", to |-> i, status |-> "pending",
     started |-> FALSE, born |-> b]

(* resolve_obligation_in_session: idempotent, only AWAITING is resolved.    *)
Resolved(r, ready) ==
    IF r.status = "awaiting"
    THEN [r EXCEPT !.status = IF ready THEN "pending" ELSE "canceled"]
    ELSE r

(* Mutant: the claim does not stamp started_at.                             *)
Claimed_unstamped(r) ==
    IF r.status = "pending" THEN [r EXCEPT !.status = "processing"] ELSE r

(* the compare-and-set UPDATE of _claim_next_pending_notification_locked    *)
Claimed(r) ==
    IF r.status = "pending"
    THEN [r EXCEPT !.status = "processing", !.started = TRUE]
    ELSE r

(* _finish_notification: UPDATE ... WHERE status = PROCESSING               *)
Finished(r, s) ==
    IF r.status = "processing" THEN [r EXCEPT !.status = s] ELSE r

(* Mutant: the release does not check that the row is still PROCESSING.     *)
Released_unchecked(r) == [r EXCEPT !.status = "pending"]

(* release_notification keeps started_at                                    *)
Released(r) ==
    IF r.status = "processing" THEN [r EXCEPT !.status = "pending"] ELSE r

(* Mutant: a status that is not one of AgentNotificationStatus.             *)
Cancelled_misspelt(r) == [r EXCEPT !.status = "cancelled"]

(* The flush of _cancel_notifications writes the rows that its SELECT      *)
(* returned by primary key, whatever has become of them since.             *)
Cancelled(r) == [r EXCEPT !.status = "canceled"]

(* reset_processing_notifications_all, at boot only                         *)
Reset(r) ==
    IF r.status = "processing"
    THEN [r EXCEPT !.status = "pending", !.started = FALSE]
    ELSE r
=============================================================================
