---------------------------- MODULE TablesProofs ----------------------------
(***************************************************************************)
(* The two parts of the database that are modelled by their rows, one      *)
(* section for each.                                                       *)
(*                                                                         *)
(* The notification store, for any number of rows, instances and           *)
(* concurrent bulk cancellations: a started run is claimed, an interrupt   *)
(* spares fresh messages, a settled row stays settled.                     *)
(*                                                                         *)
(* The records of a project, for any number of identities, assets, edges,  *)
(* steps and findings: whatever calls overtake each other, nothing refers  *)
(* to a record that is gone, the scope is the metadata's, and a verdict is *)
(* what somebody decided.                                                  *)
(***************************************************************************)
EXTENDS NotificationTable, ProjectRecords, FiniteSetTheorems, WellFoundedInduction, TLAPS

-----------------------------------------------------------------------------
(* The notification store.                                                 *)

(* The inductive invariant.  SelectedRowsExist is what InterruptSparesFresh *)
(* needs: a row that is about to be inserted is not one that an interrupt  *)
(* has already selected.                                                   *)
Inv ==
    /\ TypeOK
    /\ StartedMeansClaimed
    /\ SelectedRowsExist
    /\ InterruptSparesFresh

-----------------------------------------------------------------------------

(* The updates of one row keep it a row: what each statement of             *)
(* service/agent/notifications.py writes is a legal status.                *)
LEMMA RowUpdates ==
    ASSUME NEW r \in Rows
    PROVE  /\ \A ready \in BOOLEAN : Resolved(r, ready) \in Rows
           /\ Claimed(r) \in Rows
           /\ \A s \in {"completed", "failed"} : Finished(r, s) \in Rows
           /\ Released(r) \in Rows
           /\ Cancelled(r) \in Rows
           /\ Reset(r) \in Rows
  BY DEF Rows, Statuses, Outstanding, Terminal, Kinds, Resolved, Claimed,
         Finished, Released, Cancelled, Reset

(* A new row of either kind is a row.                                       *)
LEMMA NewRows ==
    ASSUME NEW i \in Instances, NEW k \in Kinds, NEW b \in Nat
    PROVE  /\ NewObligation(k, i, b) \in Rows
           /\ NewUserMessage(i, b) \in Rows
  BY DEF Rows, Statuses, Outstanding, Terminal, Kinds, NewObligation, NewUserMessage

(* No update makes a settled row outstanding, none changes what a row is   *)
(* about, and only the boot reset takes started_at away: the WHERE status  *)
(* clauses of _finish_notification, release_notification and the claim.    *)
LEMMA RowUpdatesKeep ==
    ASSUME NEW r \in Rows, NEW q,
           \/ \E ready \in BOOLEAN : q = Resolved(r, ready)
           \/ q = Claimed(r)
           \/ \E s \in {"completed", "failed"} : q = Finished(r, s)
           \/ q = Released(r)
           \/ q = Cancelled(r)
    PROVE  /\ r.status \in Terminal => q.status \in Terminal
           /\ r.status # "absent" => q.status # "absent"
           /\ q.kind = r.kind
           /\ r.started => q.started
           /\ (r.status = "processing" => r.started) /\ (r.status = "awaiting" => ~r.started)
              => (q.status = "processing" => q.started) /\ (q.status = "awaiting" => ~q.started)
  BY DEF Rows, Statuses, Outstanding, Terminal, Kinds, Resolved, Claimed,
         Finished, Released, Cancelled

(* What an update of existing rows does to the whole table: the five        *)
(* statements above, whichever rows they touch.                            *)
Touches(n) ==
    \/ row'[n] = row[n]
    \/ \E ready \in BOOLEAN : row'[n] = Resolved(row[n], ready)
    \/ row'[n] = Claimed(row[n])
    \/ \E s \in {"completed", "failed"} : row'[n] = Finished(row[n], s)
    \/ row'[n] = Released(row[n])
    \/ row'[n] = Cancelled(row[n])

(* Updates of existing rows, with no new selection, keep the invariant.     *)
LEMMA UpdatesKeepInv ==
    ASSUME Inv,
           row' = [n \in Ntf |-> row'[n]],
           \A n \in Ntf : Touches(n),
           clock' = clock,
           \A c \in Cancels : sel'[c] = sel[c] \/ sel'[c] = Idle,
           sel' = [c \in Cancels |-> sel'[c]]
    PROVE  Inv'
<1>1. \A n \in Ntf : row'[n] \in Rows
  BY RowUpdates DEF Inv, TypeOK, Touches
<1>2. TypeOK'
  BY <1>1 DEF Inv, TypeOK, Idle
<1>3. \A n \in Ntf :
         /\ row[n].status # "absent" => row'[n].status # "absent"
         /\ row'[n].kind = row[n].kind
         /\ row[n].started => row'[n].started
         /\ (row[n].status = "processing" => row[n].started) /\ (row[n].status = "awaiting" => ~row[n].started)
            => (row'[n].status = "processing" => row'[n].started) /\ (row'[n].status = "awaiting" => ~row'[n].started)
  <2> TAKE n \in Ntf
  <2>1. row[n] \in Rows
    BY DEF Inv, TypeOK
  <2>2. CASE row'[n] = row[n]
    BY <2>2
  <2>3. CASE row'[n] # row[n]
    BY <2>1, <2>3, RowUpdatesKeep, Zenon DEF Touches
  <2> QED BY <2>2, <2>3
<1>4. StartedMeansClaimed'
  BY <1>3 DEF Inv, StartedMeansClaimed
<1>5. SelectedRowsExist'
  BY <1>3 DEF Inv, TypeOK, SelectedRowsExist, Idle
<1>6. InterruptSparesFresh'
  BY <1>3 DEF Inv, TypeOK, InterruptSparesFresh, Idle
<1> QED BY <1>2, <1>4, <1>5, <1>6 DEF Inv

(* Inserting a row keeps the invariant.                                     *)
LEMMA InsertKeepsInv ==
    ASSUME Inv, NEW n \in Ntf, NEW i \in Instances, NEW k \in Kinds,
           row[n].status = "absent",
           \/ row' = [row EXCEPT ![n] = NewObligation(k, i, clock)]
           \/ row' = [row EXCEPT ![n] = NewUserMessage(i, clock)],
           clock' = clock + 1, sel' = sel
    PROVE  Inv'
<1>0. row'[n] = NewObligation(k, i, clock) \/ row'[n] = NewUserMessage(i, clock)
  BY DEF Inv, TypeOK
<1>1. row'[n] \in Rows /\ ~row'[n].started /\ row'[n].status \in {"awaiting", "pending"}
  <2>1. row'[n] \in Rows
    BY <1>0, NewRows DEF Inv, TypeOK
  <2> QED BY <1>0, <2>1 DEF NewObligation, NewUserMessage
<1>2. \A m \in Ntf : m # n => row'[m] = row[m]
  BY DEF Inv, TypeOK
<1>3. TypeOK'
  BY <1>1 DEF Inv, TypeOK
<1>4. StartedMeansClaimed'
  BY <1>1, <1>2 DEF Inv, StartedMeansClaimed
<1>5. \A c \in Cancels : n \notin sel[c].rows
  BY DEF Inv, SelectedRowsExist
<1>6. SelectedRowsExist'
  BY <1>2, <1>5 DEF Inv, TypeOK, SelectedRowsExist
<1>7. InterruptSparesFresh'
  BY <1>2, <1>5 DEF Inv, TypeOK, InterruptSparesFresh
<1> QED BY <1>3, <1>4, <1>6, <1>7 DEF Inv

(* The invariant holds of an empty table.                                   *)
LEMMA InitInv == Init => Inv
<1> SUFFICES ASSUME Init PROVE Inv
  OBVIOUS
<1>1. (CHOOSE i \in Instances : TRUE) \in Instances
  BY InstancesAssumption, Zenon
<1>2. NoRow \in Rows /\ NoRow.status = "absent"
  BY <1>1 DEF NoRow, Rows, Statuses, Kinds
<1>3. TypeOK
  BY <1>2 DEF Init, TypeOK, Idle
<1> QED BY <1>2, <1>3
        DEF Init, Inv, StartedMeansClaimed, SelectedRowsExist, InterruptSparesFresh, Idle

(* Every statement keeps the invariant.                                     *)
LEMMA NextInv == Inv /\ [Next]_vars => Inv'
<1> SUFFICES ASSUME Inv, [Next]_vars PROVE Inv'
  OBVIOUS
<1>1. ASSUME NEW n \in Ntf, NEW k \in Kinds, NEW i \in Instances,
             add_obligation_in_session(n, k, i)
      PROVE  Inv'
  BY <1>1, InsertKeepsInv DEF add_obligation_in_session
<1>2. ASSUME NEW n \in Ntf, NEW i \in Instances, enqueue_user_message_notification(n, i)
      PROVE  Inv'
  BY <1>2, InsertKeepsInv DEF enqueue_user_message_notification, Kinds
<1>3. ASSUME NEW S \in SUBSET Ntf, NEW ready \in BOOLEAN, resolve_obligation_in_session(S, ready)
      PROVE  Inv'
  <2>1. \A n \in Ntf : Touches(n)
    BY <1>3 DEF resolve_obligation_in_session, Touches
  <2> QED BY <1>3, <2>1, UpdatesKeepInv DEF resolve_obligation_in_session, Inv, TypeOK
<1>4. ASSUME NEW n \in Ntf, claim_next_pending_notification(n)
      PROVE  Inv'
  <2>1. \A m \in Ntf : Touches(m)
    BY <1>4 DEF claim_next_pending_notification, Touches, Inv, TypeOK
  <2> QED BY <1>4, <2>1, UpdatesKeepInv DEF claim_next_pending_notification, Inv, TypeOK
<1>5. ASSUME NEW n \in Ntf, NEW s \in {"completed", "failed"}, finish_notification(n, s)
      PROVE  Inv'
  <2>1. \A m \in Ntf : Touches(m)
    BY <1>5 DEF finish_notification, Touches, Inv, TypeOK
  <2> QED BY <1>5, <2>1, UpdatesKeepInv DEF finish_notification, Inv, TypeOK
<1>6. ASSUME NEW n \in Ntf, release_notification(n)
      PROVE  Inv'
  <2>1. \A m \in Ntf : Touches(m)
    BY <1>6 DEF release_notification, Touches, Inv, TypeOK
  <2> QED BY <1>6, <2>1, UpdatesKeepInv DEF release_notification, Inv, TypeOK
<1>7. ASSUME NEW c \in Cancels, NEW insts \in SUBSET Instances, cancel_session_notifications(c, insts)
      PROVE  Inv'
  BY <1>7 DEF cancel_session_notifications, Inv, TypeOK, StartedMeansClaimed,
              SelectedRowsExist, InterruptSparesFresh, OutstandingFor, Outstanding
<1>8. ASSUME NEW c \in Cancels, cancel_main_agent_interrupted_notifications(c)
      PROVE  Inv'
  BY <1>8 DEF cancel_main_agent_interrupted_notifications, Inv, TypeOK, StartedMeansClaimed,
              SelectedRowsExist, InterruptSparesFresh, InterruptedFor
<1>9. ASSUME NEW c \in Cancels, flush_cancel(c)
      PROVE  Inv'
  <2>1. \A m \in Ntf : Touches(m)
    BY <1>9 DEF flush_cancel, Touches
  <2> QED BY <1>9, <2>1, UpdatesKeepInv DEF flush_cancel, Inv, TypeOK
<1>10. ASSUME NEW C \in SUBSET Cancels, lose_cancels(C)
       PROVE  Inv'
  <2>1. \A m \in Ntf : Touches(m)
    BY <1>10 DEF lose_cancels, Touches
  <2> QED BY <1>10, <2>1, UpdatesKeepInv DEF lose_cancels, Inv, TypeOK
<1>11. CASE reset_processing_notifications_all
  <2>1. TypeOK'
    BY <1>11, RowUpdates DEF reset_processing_notifications_all, Inv, TypeOK
  <2>2. StartedMeansClaimed'
    BY <1>11 DEF reset_processing_notifications_all, Inv, TypeOK, Rows, StartedMeansClaimed, Reset
  <2>3. \A c \in Cancels : sel'[c].rows = {}
    BY <1>11 DEF reset_processing_notifications_all, Idle
  <2> QED BY <2>1, <2>2, <2>3 DEF Inv, SelectedRowsExist, InterruptSparesFresh
<1>12. CASE UNCHANGED vars
  BY <1>12 DEF vars, Inv, TypeOK, StartedMeansClaimed, SelectedRowsExist, InterruptSparesFresh
<1> QED BY <1>1, <1>2, <1>3, <1>4, <1>5, <1>6, <1>7, <1>8, <1>9, <1>10, <1>11, <1>12 DEF Next

(* Spec implies the invariant at every step, hence its named parts.         *)
THEOREM Invariance == Spec => []Inv
  BY InitInv, NextInv, PTL DEF Spec

(* The table always holds legal rows (the status column is one of the       *)
(* values of AgentNotificationStatus).                                     *)
THEOREM TypeCorrect == Spec => []TypeOK
  BY Invariance, PTL DEF Inv

(* started_at separates claimed from unclaimed rows, at any time.           *)
THEOREM StartedIsClaimed == Spec => []StartedMeansClaimed
  BY Invariance, PTL DEF Inv

(* A user interrupt never discards a user message that no driver claimed,  *)
(* whatever runs between its SELECT and its flush.                         *)
THEOREM FreshMessagesSurviveInterrupt == Spec => []InterruptSparesFresh
  BY Invariance, PTL DEF Inv

-----------------------------------------------------------------------------

(* One step: a settled row stays settled.                                   *)
LEMMA StepNeverReopens ==
    ASSUME Inv, [Next]_vars, NEW n \in Ntf, row[n].status \in Terminal
    PROVE  row'[n].status \in Terminal
<1>0. row[n] \in Rows /\ row \in [Ntf -> Rows]
  BY DEF Inv, TypeOK
<1>1. ASSUME NEW m \in Ntf, NEW k \in Kinds, NEW i \in Instances,
             add_obligation_in_session(m, k, i) \/ enqueue_user_message_notification(m, i)
      PROVE  row'[n] = row[n]
  BY <1>0, <1>1 DEF add_obligation_in_session, enqueue_user_message_notification, Terminal
<1>2. ASSUME NEW S \in SUBSET Ntf, NEW ready \in BOOLEAN, resolve_obligation_in_session(S, ready)
      PROVE  row'[n] = row[n]
  BY <1>0, <1>2 DEF resolve_obligation_in_session, Resolved, Terminal
<1>3. ASSUME NEW m \in Ntf, NEW s \in {"completed", "failed"},
             \/ claim_next_pending_notification(m)
             \/ finish_notification(m, s)
             \/ release_notification(m)
      PROVE  row'[n] = row[n]
  BY <1>0, <1>3 DEF claim_next_pending_notification, finish_notification, release_notification,
                    Claimed, Finished, Released, Terminal
<1>4. ASSUME NEW c \in Cancels, flush_cancel(c)
      PROVE  row'[n].status \in Terminal
  BY <1>0, <1>4 DEF flush_cancel, Cancelled, Terminal, Rows
<1>5. ASSUME reset_processing_notifications_all
      PROVE  row'[n] = row[n]
  BY <1>0, <1>5 DEF reset_processing_notifications_all, Reset, Terminal
<1>6. ASSUME \/ \E c \in Cancels, insts \in SUBSET Instances : cancel_session_notifications(c, insts)
             \/ \E c \in Cancels : cancel_main_agent_interrupted_notifications(c)
             \/ \E C \in SUBSET Cancels : lose_cancels(C)
             \/ UNCHANGED vars
      PROVE  row'[n] = row[n]
  BY <1>6 DEF cancel_session_notifications, cancel_main_agent_interrupted_notifications,
              lose_cancels, vars
<1>7. \A i \in Instances : "user_message" \in Kinds
  BY DEF Kinds
<1> QED BY <1>1, <1>2, <1>3, <1>4, <1>5, <1>6, <1>7 DEF Next

(* A notification that has been completed, failed or canceled never comes  *)
(* back, so the work it stands for is not driven twice after it settled.   *)
THEOREM SettledStaysSettled == Spec => NeverReopened
<1>1. Inv /\ [Next]_vars =>
        [\A n \in Ntf : row[n].status \in Terminal => row'[n].status \in Terminal]_vars
  BY StepNeverReopens
<1> QED BY <1>1, Invariance, PTL DEF Spec, NeverReopened

-----------------------------------------------------------------------------
(* The records of a project: the inductive invariant.                       *)

AssetRecords   == [ident : Idents, scope : BOOLEAN]
EdgeRecords    == [source : AssetIds, target : AssetIds]
FindingRecords == [asset : 0..MaxAssets, edge : 0..MaxEdges, cve : BOOLEAN,
                   status : Verdicts, stamped : BOOLEAN]

(* Tables with rows of the schema, under whatever ids.                      *)
Shaped(d) ==
  /\ d = [assets |-> d.assets, edges |-> d.edges, steps |-> d.steps,
          findings |-> d.findings, paths |-> d.paths]
  /\ d.assets \in [DOMAIN d.assets -> AssetRecords]
  /\ d.edges \in [DOMAIN d.edges -> EdgeRecords]
  /\ d.steps \in [DOMAIN d.steps -> StepRows]
  /\ d.findings \in [DOMAIN d.findings -> FindingRecords]

Database(d) == Shaped(d) /\ Constraints(d) /\ Fits(d)

(* What a call remembers of its reads is a row of the table it is about.    *)
RowsOf(op) ==
  CASE op \in {"upsert_asset", "update_asset", "delete_asset"} -> AssetRecords
    [] op \in {"upsert_edge", "update_edge", "delete_edge"} -> EdgeRecords
    [] op \in {"create_step", "update_step", "delete_step"} -> StepRows
    [] op \in {"create_finding", "update_finding", "delete_finding", "import"} -> FindingRecords
    [] OTHER -> {}

SeenFits(c, seen) == seen.row = None \/ seen.row \in RowsOf(c.op)

RecordsInv ==
  /\ Database(db)
  /\ call # None => call.c \in RecordCalls /\ SeenFits(call.c, call.seen)

-----------------------------------------------------------------------------
(* Ids and tables. *)

(* A set of numbers has a least one.                                        *)
LEMMA FirstExists ==
  ASSUME NEW S \in SUBSET Nat, S # {}
  PROVE  \E i \in S : \A j \in S : i <= j
<1> DEFINE R == OpToRel(<, Nat)
<1>1. IsWellFoundedOn(R, Nat)
  BY NatLessThanWellFounded
<1>2. \A m, k \in Nat : m < k => <<m, k>> \in R
  BY DEF OpToRel
<1> HIDE DEF R
<1>3. PICK i \in S : \A j \in S : ~(<<j, i>> \in R)
  BY <1>1, WFMin, Zenon
<1>4. \A j \in S : ~(j < i)
  BY <1>2, <1>3
<1> QED BY <1>4

(* A set of ids has a highest one.                                          *)
LEMMA LastExists ==
  ASSUME NEW n \in Nat, NEW S \in SUBSET (1..n), S # {}
  PROVE  Max(S) \in S /\ \A j \in S : j <= Max(S)
<1>1. PICK i \in {n - j : j \in S} : \A k \in {n - j : j \in S} : i <= k
  <2>0. \A j \in S : j \in Nat /\ j <= n /\ n - j \in Nat
    OBVIOUS
  <2>1. {n - j : j \in S} \in SUBSET Nat /\ {n - j : j \in S} # {}
    BY <2>0
  <2> QED BY <2>1, FirstExists
<1>2. PICK m \in S : i = n - m
  BY <1>1
<1>3. \A j \in S : m >= j
  <2>1. \A j \in S : n - m <= n - j
    BY <1>1, <1>2
  <2>2. m \in 1..n /\ \A j \in S : j \in 1..n
    OBVIOUS
  <2> QED BY <2>1, <2>2
<1> QED BY <1>3 DEF Max

(* The next id is above every id of the table.                              *)
LEMMA NextIdIsNew ==
  ASSUME NEW n \in Nat, NEW t, DOMAIN t \in SUBSET (1..n), t = [i \in DOMAIN t |-> t[i]]
  PROVE  NextId(t) \in Nat \ {0} /\ \A i \in DOMAIN t : i < NextId(t)
<1>1. CASE t = << >>
  BY <1>1 DEF NextId
<1>2. CASE t # << >>
  <2>1. DOMAIN t # {}
    BY <1>2
  <2>2. Max(DOMAIN t) \in DOMAIN t /\ \A j \in DOMAIN t : j <= Max(DOMAIN t)
    BY <2>1, LastExists
  <2> QED BY <1>2, <2>2 DEF NextId
<1> QED BY <1>1, <1>2

(* New rows come after the old ones, which stay as they are.                *)
LEMMA InsertRows ==
  ASSUME NEW n \in Nat, NEW R, NEW t, DOMAIN t \in SUBSET (1..n), t \in [DOMAIN t -> R],
         NEW rows \in Seq(R)
  PROVE  LET new == InsertAll(t, rows) IN
         /\ new \in [DOMAIN new -> R] /\ DOMAIN t \subseteq DOMAIN new
         /\ \A i \in DOMAIN t : new[i] = t[i]
         /\ \A i \in DOMAIN new \ DOMAIN t :
              i - NextId(t) + 1 \in DOMAIN rows /\ new[i] = rows[i - NextId(t) + 1]
<1> DEFINE last == NextId(t) - 1
           new == [id \in DOMAIN t \cup (last + 1 .. last + Len(rows)) |->
                     IF id \in DOMAIN t THEN t[id] ELSE rows[id - last]]
<1>1. NextId(t) \in Nat \ {0} /\ \A i \in DOMAIN t : i < NextId(t)
  BY NextIdIsNew
<1>2. last \in Nat /\ Len(rows) \in Nat /\ DOMAIN rows = 1..Len(rows)
  BY <1>1
<1>3. \A id \in last + 1 .. last + Len(rows) : id - last \in DOMAIN rows /\ id - last
          = id - NextId(t) + 1
  BY <1>1, <1>2
<1>4. InsertAll(t, rows) = new
  BY DEF InsertAll
<1>5. \A i \in DOMAIN rows : rows[i] \in R
  OBVIOUS
<1> QED BY <1>3, <1>4, <1>5

(* What one new row makes of a table.                                       *)
TableRows(t, R, n) == n \in Nat /\ DOMAIN t \in SUBSET (1..n) /\ t \in [DOMAIN t -> R]
Added(t, R, entry, new) ==
  /\ new \in [DOMAIN new -> R] /\ DOMAIN t \subseteq DOMAIN new
  /\ \A i \in DOMAIN t : new[i] = t[i]
  /\ \A i \in DOMAIN new \ DOMAIN t : new[i] = entry

(* One new row.                                                             *)
LEMMA InsertRow ==
  ASSUME NEW n, NEW R, NEW t, TableRows(t, R, n), NEW entry, entry \in R
  PROVE  Added(t, R, entry, Insert(t, entry))
<1>1. <<entry>> \in Seq(R) /\ DOMAIN <<entry>> = {1} /\ <<entry>>[1] = entry
  OBVIOUS
<1> DEFINE new == InsertAll(t, <<entry>>)
<1>2. /\ new \in [DOMAIN new -> R] /\ DOMAIN t \subseteq DOMAIN new
      /\ \A i \in DOMAIN t : new[i] = t[i]
      /\ \A i \in DOMAIN new \ DOMAIN t :
           i - NextId(t) + 1 \in DOMAIN <<entry>> /\ new[i] = <<entry>>[i - NextId(t) + 1]
  BY <1>1, InsertRows, Zenon DEF TableRows
<1>3. Insert(t, entry) = new
  BY DEF Insert
<1> HIDE DEF new
<1>4. ASSUME NEW i \in DOMAIN new \ DOMAIN t PROVE new[i] = entry
  <2>1. i - NextId(t) + 1 = 1 /\ new[i] = <<entry>>[i - NextId(t) + 1]
    BY <1>1, <1>2
  <2> QED BY <1>1, <2>1, Zenon
<1> QED BY <1>2, <1>3, <1>4 DEF Added

-----------------------------------------------------------------------------
(* A flush of a changed row leaves a row of the same table.                 *)

(* An asset's identity is written when it differs from what was read.       *)
Renamed(t, id, seen, entry, new) ==
  /\ new \in [DOMAIN t -> AssetRecords]
  /\ \A i \in DOMAIN t \ {id} : new[i] = t[i]
  /\ new[id].ident = IF entry.ident # seen.ident THEN entry.ident ELSE t[id].ident

(* A flush writes the identity so.                                          *)
LEMMA FlushAsset ==
  ASSUME NEW t, t \in [DOMAIN t -> AssetRecords], NEW id, id \in DOMAIN t,
         NEW seen, seen \in AssetRecords, NEW entry, entry \in AssetRecords
  PROVE  Renamed(t, id, seen, entry, Flush(t, id, seen, entry, {}))
<1> DEFINE new == [f \in DOMAIN t[id] |-> IF entry[f] # seen[f] \/ f \in {} THEN entry[f] ELSE t[id][f]]
<1>1. Flush(t, id, seen, entry, {}) = [t EXCEPT ![id] = new]
  BY DEF Flush
<1>2. t[id] \in AssetRecords
  OBVIOUS
<1>3. new \in AssetRecords /\ new.ident = IF entry.ident # seen.ident THEN entry.ident ELSE t[id].ident
  BY <1>2 DEF AssetRecords
<1> HIDE DEF new
<1> QED BY <1>1, <1>3 DEF Renamed

(* An edge's row stays an edge's.                                           *)
LEMMA FlushEdge ==
  ASSUME NEW t, t \in [DOMAIN t -> EdgeRecords], NEW id \in DOMAIN t,
         NEW seen \in EdgeRecords, NEW entry \in EdgeRecords
  PROVE  Flush(t, id, seen, entry, {}) \in [DOMAIN t -> EdgeRecords]
<1> DEFINE new == [f \in DOMAIN t[id] |-> IF entry[f] # seen[f] \/ f \in {} THEN entry[f] ELSE t[id][f]]
<1>1. Flush(t, id, seen, entry, {}) = [t EXCEPT ![id] = new]
  BY DEF Flush
<1>2. t[id] \in EdgeRecords
  OBVIOUS
<1>3. new \in EdgeRecords
  BY <1>2 DEF EdgeRecords
<1> HIDE DEF new
<1> QED BY <1>1, <1>3

(* A step's row stays a step's.                                             *)
LEMMA FlushStep ==
  ASSUME NEW t, t \in [DOMAIN t -> StepRows], NEW id \in DOMAIN t,
         NEW seen \in StepRows, NEW entry \in StepRows
  PROVE  Flush(t, id, seen, entry, {}) \in [DOMAIN t -> StepRows]
<1> DEFINE new == [f \in DOMAIN t[id] |-> IF entry[f] # seen[f] \/ f \in {} THEN entry[f] ELSE t[id][f]]
<1>1. Flush(t, id, seen, entry, {}) = [t EXCEPT ![id] = new]
  BY DEF Flush
<1>2. t[id] \in StepRows
  OBVIOUS
<1>3. new \in StepRows
  BY <1>2 DEF StepRows
<1> HIDE DEF new
<1> QED BY <1>1, <1>3

(* A finding's verdict and stamp are written when they differ from what was *)
(* read, the stamp also when the call sets it.                              *)
Changed(t, id, seen, entry, now, new) ==
  /\ new \in [DOMAIN t -> FindingRecords]
  /\ \A i \in DOMAIN t \ {id} : new[i] = t[i]
  /\ new[id].status = IF entry.status # seen.status \/ "status" \in now THEN entry.status
         ELSE t[id].status
  /\ "stamped" \in now => new[id].stamped = entry.stamped

(* A flush writes the verdict and the stamp so.                             *)
LEMMA FlushFinding ==
  ASSUME NEW t, t \in [DOMAIN t -> FindingRecords], NEW id, id \in DOMAIN t, NEW now,
         NEW seen, seen \in FindingRecords, NEW entry, entry \in FindingRecords
  PROVE  Changed(t, id, seen, entry, now, Flush(t, id, seen, entry, now))
<1> DEFINE new == [f \in DOMAIN t[id] |-> IF entry[f] # seen[f] \/ f \in now THEN entry[f]
        ELSE t[id][f]]
<1>1. Flush(t, id, seen, entry, now) = [t EXCEPT ![id] = new]
  BY DEF Flush
<1>2. t[id] \in FindingRecords
  OBVIOUS
<1>3. /\ new \in FindingRecords
      /\ new.status = IF entry.status # seen.status \/ "status" \in now THEN entry.status
             ELSE t[id].status
      /\ "stamped" \in now => new.stamped = entry.stamped
  BY <1>2 DEF FindingRecords
<1> HIDE DEF new
<1> QED BY <1>1, <1>3 DEF Changed

-----------------------------------------------------------------------------
(* Deleting edges and assets. *)

Kept(d, e) == /\ DOMAIN e.findings = DOMAIN d.findings
              /\ \A f \in DOMAIN d.findings : /\ e.findings[f].status = d.findings[f].status
                                            /\ e.findings[f].stamped = d.findings[f].stamped

(* A table from which rows are removed keeps the others.                    *)
LEMMA WithoutRows ==
  ASSUME NEW t, NEW R, t \in [DOMAIN t -> R], NEW ids
  PROVE  /\ Without(t, ids) \in [DOMAIN t \ ids -> R]
         /\ \A i \in DOMAIN t \ ids : Without(t, ids)[i] = t[i]
<1>1. Without(t, ids) = [i \in DOMAIN t \ ids |-> t[i]]
  BY DEF Without, Restrict
<1> QED BY <1>1

(* The constraint on steps, spelled out.                                    *)
LEMMA StepsInjective ==
  ASSUME NEW t
  PROVE  IsInjective([s \in DOMAIN t |-> <<t[s].path, t[s].seq>>])
           <=> \A a, b \in DOMAIN t : t[a].path = t[b].path /\ t[a].seq = t[b].seq => a = b
<1> DEFINE g == [s \in DOMAIN t |-> <<t[s].path, t[s].seq>>]
<1>1. \A a, b \in DOMAIN t : g[a] = g[b] <=> t[a].path = t[b].path /\ t[a].seq = t[b].seq
  OBVIOUS
<1>2. DOMAIN g = DOMAIN t
  OBVIOUS
<1> HIDE DEF g
<1>3. IsInjective(g) <=> \A a, b \in DOMAIN t : g[a] = g[b] => a = b
  BY <1>2 DEF IsInjective
<1> QED BY <1>1, <1>3 DEF g

(* Deleting edges leaves the assets and the verdicts alone, and nothing     *)
(* that refers to an edge that went.                                        *)
LEMMA PurgeEdges ==
  ASSUME NEW d, Shaped(d), Constraints(d), NEW ids
  PROVE  LET e == purge_edges(ids, d) IN
         /\ Shaped(e) /\ Constraints(e)
         /\ e.assets = d.assets /\ e.paths = d.paths /\ Kept(d, e)
         /\ DOMAIN e.edges = DOMAIN d.edges \ ids
         /\ \A i \in DOMAIN e.edges : e.edges[i] = d.edges[i]
         /\ DOMAIN e.steps \subseteq DOMAIN d.steps
         /\ \A f \in DOMAIN d.findings : e.findings[f].asset = d.findings[f].asset
<1> DEFINE gone == {s \in DOMAIN d.steps : d.steps[s].edge \in ids}
           steps == Without(d.steps, gone)
           edges == Without(d.edges, ids)
           findings == [f \in DOMAIN d.findings |-> IF d.findings[f].edge \in ids
                                                   THEN Detach(d.findings[f], "edge")
                                                       ELSE d.findings[f]]
           e == purge_edges(ids, d)
<1>1. /\ steps \in [DOMAIN d.steps \ gone -> StepRows]
      /\ \A s \in DOMAIN d.steps \ gone : steps[s] = d.steps[s]
  BY WithoutRows DEF Shaped
<1>2. /\ edges \in [DOMAIN d.edges \ ids -> EdgeRecords]
      /\ \A i \in DOMAIN d.edges \ ids : edges[i] = d.edges[i]
  BY WithoutRows DEF Shaped
<1>3. ASSUME NEW f \in DOMAIN d.findings
      PROVE  /\ findings[f] \in FindingRecords
             /\ findings[f].status = d.findings[f].status /\ findings[f].stamped
                    = d.findings[f].stamped
             /\ findings[f].asset = d.findings[f].asset
             /\ findings[f].edge = IF d.findings[f].edge \in ids THEN 0 ELSE d.findings[f].edge
  <2>1. d.findings[f] \in FindingRecords
    BY DEF Shaped
  <2>2. MaxEdges \in Nat
    BY RecordsAssumption
  <2> QED BY <2>1, <2>2 DEF FindingRecords, Detach
<1>4. e = [assets |-> d.assets, edges |-> edges, steps |-> steps, findings |-> findings,
          paths |-> d.paths]
  <2>1. e = [d EXCEPT !.steps = steps, !.findings = findings, !.edges = edges]
    BY DEF purge_edges
  <2>2. d = [assets |-> d.assets, edges |-> d.edges, steps |-> d.steps, findings |-> d.findings,
            paths |-> d.paths]
    BY DEF Shaped
  <2> HIDE DEF e, steps, findings, edges
  <2> QED BY <2>1, <2>2
<1> HIDE DEF findings, steps, edges, e
<1>5. DOMAIN findings = DOMAIN d.findings /\ findings \in [DOMAIN findings -> FindingRecords]
  BY <1>3 DEF findings
<1>6. Shaped(e)
  BY <1>1, <1>2, <1>4, <1>5 DEF Shaped
<1>7. Constraints(e)
  <2>1. IsInjective([a \in DOMAIN e.assets |-> e.assets[a].ident])
    BY <1>4 DEF Constraints
  <2>2. IsInjective(e.edges)
    BY <1>2, <1>4 DEF Constraints, IsInjective
  <2>3. IsInjective([s \in DOMAIN e.steps |-> <<e.steps[s].path, e.steps[s].seq>>])
    <3>1. \A a, b \in DOMAIN d.steps :
            d.steps[a].path = d.steps[b].path /\ d.steps[a].seq = d.steps[b].seq => a = b
      BY StepsInjective, Zenon DEF Constraints
    <3>2. \A a, b \in DOMAIN e.steps :
            e.steps[a].path = e.steps[b].path /\ e.steps[a].seq = e.steps[b].seq => a = b
      BY <1>1, <1>4, <3>1
    <3> QED BY <3>2, StepsInjective, Zenon
  <2>4. \A i \in DOMAIN e.edges : {e.edges[i].source, e.edges[i].target} \subseteq DOMAIN e.assets
    BY <1>2, <1>4 DEF Constraints
  <2>5. \A s \in DOMAIN e.steps : e.steps[s].path \in e.paths /\ e.steps[s].edge \in DOMAIN e.edges
    BY <1>1, <1>2, <1>4 DEF Constraints
  <2>6. \A f \in DOMAIN e.findings : /\ e.findings[f].asset \in DOMAIN e.assets \cup {0}
                                    /\ e.findings[f].edge \in DOMAIN e.edges \cup {0}
    BY <1>2, <1>3, <1>4, <1>5 DEF Constraints
  <2> QED BY <2>1, <2>2, <2>3, <2>4, <2>5, <2>6 DEF Constraints
<1>8. e.assets = d.assets /\ e.paths = d.paths /\ Kept(d, e)
  BY <1>3, <1>4, <1>5 DEF Kept
<1> QED BY <1>1, <1>2, <1>3, <1>4, <1>5, <1>6, <1>7, <1>8 DEF e

(* The constraint on identities, spelled out.                               *)
LEMMA IdentsInjective ==
  ASSUME NEW t
  PROVE  IsInjective([a \in DOMAIN t |-> t[a].ident])
           <=> \A a, b \in DOMAIN t : t[a].ident = t[b].ident => a = b
<1> DEFINE g == [a \in DOMAIN t |-> t[a].ident]
<1>1. DOMAIN g = DOMAIN t /\ \A a \in DOMAIN t : g[a] = t[a].ident
  OBVIOUS
<1> HIDE DEF g
<1>2. IsInjective(g) <=> \A a, b \in DOMAIN t : g[a] = g[b] => a = b
  BY <1>1 DEF IsInjective
<1> QED BY <1>1, <1>2 DEF g

(* Deleting assets takes their edges along and detaches the findings on     *)
(* them.                                                                    *)
LEMMA DropsAssets ==
  ASSUME NEW d, Shaped(d), Constraints(d), NEW ids
  PROVE  LET e == DropAssets(ids, d) IN
         /\ Shaped(e) /\ Constraints(e) /\ Kept(d, e)
         /\ DOMAIN e.assets = DOMAIN d.assets \ ids
         /\ \A a \in DOMAIN e.assets : e.assets[a] = d.assets[a]
         /\ DOMAIN e.edges \subseteq DOMAIN d.edges /\ DOMAIN e.steps \subseteq DOMAIN d.steps
         /\ e.paths = d.paths
<1> DEFINE found == [f \in DOMAIN d.findings |-> IF d.findings[f].asset \in ids
                                                THEN Detach(d.findings[f], "asset")
                                                    ELSE d.findings[f]]
           detached == [d EXCEPT !.findings = found]
           T == {i \in DOMAIN detached.edges :
                   {detached.edges[i].source, detached.edges[i].target} \cap ids # {}}
           p == purge_edges(T, detached)
           assets == Without(p.assets, ids)
           e == DropAssets(ids, d)
<1>1. ASSUME NEW f \in DOMAIN d.findings
      PROVE  /\ found[f] \in FindingRecords
             /\ found[f].status = d.findings[f].status /\ found[f].stamped = d.findings[f].stamped
             /\ found[f].edge = d.findings[f].edge
             /\ found[f].asset = IF d.findings[f].asset \in ids THEN 0 ELSE d.findings[f].asset
  <2>1. d.findings[f] \in FindingRecords
    BY DEF Shaped
  <2>2. MaxAssets \in Nat
    BY RecordsAssumption
  <2> QED BY <2>1, <2>2 DEF FindingRecords, Detach
<1>2. DOMAIN found = DOMAIN d.findings /\ found \in [DOMAIN found -> FindingRecords]
  BY <1>1
<1> HIDE DEF found
<1>3. detached = [assets |-> d.assets, edges |-> d.edges, steps |-> d.steps, findings |-> found,
          paths |-> d.paths]
  BY DEF Shaped
<1>4. e = [p EXCEPT !.assets = assets]
  BY DEF DropAssets, purge_edges_touching_asset, found
<1> HIDE DEF detached
<1>5. Shaped(detached)
  BY <1>2, <1>3 DEF Shaped
<1>6. Constraints(detached)
  <2>1. \A f \in DOMAIN found : /\ found[f].asset \in DOMAIN d.assets \cup {0}
                               /\ found[f].edge \in DOMAIN d.edges \cup {0}
    BY <1>1, <1>2 DEF Constraints
  <2> QED BY <1>3, <2>1 DEF Constraints
<1> HIDE DEF T
<1>7. /\ Shaped(p) /\ Constraints(p)
      /\ p.assets = d.assets /\ p.paths = d.paths /\ Kept(detached, p)
      /\ DOMAIN p.edges = DOMAIN d.edges \ T
      /\ \A i \in DOMAIN p.edges : p.edges[i] = d.edges[i]
      /\ DOMAIN p.steps \subseteq DOMAIN d.steps
      /\ \A f \in DOMAIN found : p.findings[f].asset = found[f].asset
  BY <1>3, <1>5, <1>6, PurgeEdges
<1> HIDE DEF p
<1>8. /\ assets \in [DOMAIN d.assets \ ids -> AssetRecords]
      /\ \A a \in DOMAIN d.assets \ ids : assets[a] = d.assets[a]
  <2>1. d.assets \in [DOMAIN d.assets -> AssetRecords]
    BY DEF Shaped
  <2>2. assets = Without(d.assets, ids)
    BY <1>7
  <2> HIDE DEF assets
  <2> QED BY <2>1, <2>2, WithoutRows
<1> HIDE DEF assets, e
<1>9. e = [assets |-> assets, edges |-> p.edges, steps |-> p.steps, findings |-> p.findings,
          paths |-> p.paths]
  BY <1>4, <1>7 DEF Shaped
<1>10. Shaped(e)
  BY <1>7, <1>8, <1>9 DEF Shaped
<1>11. Constraints(e)
  <2>1. IsInjective([a \in DOMAIN e.assets |-> e.assets[a].ident])
    <3>1. \A a, b \in DOMAIN d.assets : d.assets[a].ident = d.assets[b].ident => a = b
      BY IdentsInjective, Zenon DEF Constraints
    <3>2. \A a, b \in DOMAIN e.assets : e.assets[a].ident = e.assets[b].ident => a = b
      BY <1>8, <1>9, <3>1
    <3> QED BY <3>2, IdentsInjective, Zenon
  <2>2. \A i \in DOMAIN e.edges : {e.edges[i].source, e.edges[i].target} \subseteq DOMAIN e.assets
    <3> SUFFICES ASSUME NEW i \in DOMAIN p.edges
                 PROVE  /\ d.edges[i].source \in DOMAIN d.assets \ ids
                        /\ d.edges[i].target \in DOMAIN d.assets \ ids
      BY <1>7, <1>8, <1>9
    <3>1. i \in DOMAIN d.edges /\ i \notin T
      BY <1>7
    <3>2. {d.edges[i].source, d.edges[i].target} \cap ids = {}
      BY <1>3, <3>1 DEF T
    <3> QED BY <3>1, <3>2 DEF Constraints
  <2>3. \A f \in DOMAIN e.findings : e.findings[f].asset \in DOMAIN e.assets \cup {0}
    <3>1. DOMAIN p.findings = DOMAIN found
      BY <1>3, <1>7 DEF Kept
    <3>2. \A f \in DOMAIN found : p.findings[f].asset = found[f].asset
      BY <1>7
    <3>3. \A f \in DOMAIN found : found[f].asset \in (DOMAIN d.assets \ ids) \cup {0}
      BY <1>1, <1>2 DEF Constraints
    <3>4. e.findings = p.findings /\ DOMAIN e.assets = DOMAIN d.assets \ ids
      BY <1>8, <1>9
    <3> QED BY <3>1, <3>2, <3>3, <3>4
  <2> QED BY <1>7, <1>9, <2>1, <2>2, <2>3 DEF Constraints
<1>12. Kept(d, e)
  BY <1>1, <1>2, <1>3, <1>7, <1>9 DEF Kept
<1> QED BY <1>7, <1>8, <1>9, <1>10, <1>11, <1>12 DEF e

-----------------------------------------------------------------------------
(* The metadata's assets. *)

(* The elements of a finite set, each once, in some order.                  *)
LEMMA InSomeOrder ==
  ASSUME NEW S, IsFiniteSet(S)
  PROVE  /\ SetToSeq(S) \in Seq(S) /\ IsInjective(SetToSeq(S))
         /\ DOMAIN SetToSeq(S) = 1..Cardinality(S)
<1>1. Cardinality(S) \in Nat /\ ExistsBijection(1..Cardinality(S), S)
  BY FS_CardinalityType
<1>2. PICK f \in Bijection(1..Cardinality(S), S) : TRUE
  BY <1>1 DEF ExistsBijection
<1>3. f \in [1..Cardinality(S) -> S] /\ IsInjective(f)
  BY DEF Bijection, Injection, IsInjective
<1>4. SetToSeq(S) \in [1..Cardinality(S) -> S] /\ IsInjective(SetToSeq(S))
  BY <1>3 DEF SetToSeq
<1> QED BY <1>1, <1>4

(* After the metadata is written the tables still hold together; the first  *)
(* asset of an empty project gets the id 1.                                 *)
LEMMA MetadataKeeps ==
  ASSUME NEW d, Database(d), NEW idents \in SUBSET Idents
  PROVE  LET e == upsert_project_assets(idents, d) IN
         /\ Shaped(e) /\ Constraints(e) /\ Kept(d, e)
         /\ DOMAIN e.edges \subseteq DOMAIN d.edges /\ DOMAIN e.steps \subseteq DOMAIN d.steps
         /\ e.paths = d.paths
         /\ DOMAIN d.assets = {} => \A i : idents = {i} => DOMAIN e.assets \subseteq {1}
<1> DEFINE marked == [a \in DOMAIN d.assets |->
                        IF d.assets[a].ident \in idents THEN [d.assets[a] EXCEPT !.scope = TRUE]
                            ELSE d.assets[a]]
           kept == [d EXCEPT !.assets = marked]
           news == idents \ {d.assets[a].ident : a \in DOMAIN d.assets}
           new == SetToSeq(news)
           rows == [n \in DOMAIN new |-> [ident |-> new[n], scope |-> TRUE]]
           all == InsertAll(marked, rows)
           added == [kept EXCEPT !.assets = all]
           gone == {a \in DOMAIN d.assets : d.assets[a].scope /\ d.assets[a].ident \notin idents}
<1>1. upsert_project_assets(idents, d) = DropAssets(gone, added)
  BY DEF upsert_project_assets
<1>2. new \in Seq(news) /\ IsInjective(new) /\ DOMAIN new = 1..Cardinality(news)
  <2>1. IsFiniteSet(news)
    BY RecordsAssumption, FS_Subset
  <2> HIDE DEF news
  <2> QED BY <2>1, InSomeOrder
<1>3. /\ marked \in [DOMAIN d.assets -> AssetRecords]
      /\ \A a \in DOMAIN d.assets : marked[a].ident = d.assets[a].ident
  <2>1. \A a \in DOMAIN d.assets : d.assets[a] \in AssetRecords
    BY DEF Database, Shaped
  <2> QED BY <2>1 DEF AssetRecords
<1>4. \A x \in news : x \in Idents /\ \A a \in DOMAIN d.assets : d.assets[a].ident # x
  OBVIOUS
<1>5. DOMAIN d.assets = {} => news = idents
  OBVIOUS
<1> HIDE DEF news, new, marked
<1>6. /\ rows \in Seq(AssetRecords) /\ DOMAIN rows = DOMAIN new
      /\ \A n \in DOMAIN new : rows[n].ident = new[n] /\ new[n] \in news
  <2>1. Len(new) \in Nat /\ DOMAIN new = 1..Len(new) /\ \A n \in DOMAIN new : new[n] \in news
    <3>1. new \in Seq(news)
      BY <1>2
    <3> QED BY <3>1
  <2>2. DOMAIN rows = DOMAIN new /\ \A n \in DOMAIN new : rows[n].ident = new[n]
    OBVIOUS
  <2>3. \A n \in DOMAIN new : [ident |-> new[n], scope |-> TRUE] \in AssetRecords
    BY <1>4, <2>1 DEF AssetRecords
  <2>4. rows \in [1..Len(new) -> AssetRecords]
    BY <2>1, <2>3
  <2> HIDE DEF rows
  <2>5. rows \in Seq(AssetRecords)
    BY <2>1, <2>4
  <2> QED BY <2>1, <2>2, <2>5
<1>7. /\ all \in [DOMAIN all -> AssetRecords] /\ DOMAIN d.assets \subseteq DOMAIN all
      /\ \A i \in DOMAIN d.assets : all[i] = marked[i]
      /\ \A i \in DOMAIN all \ DOMAIN d.assets :
           i - NextId(marked) + 1 \in DOMAIN rows /\ all[i] = rows[i - NextId(marked) + 1]
  <2>1. /\ MaxAssets \in Nat /\ DOMAIN marked \in SUBSET (1..MaxAssets)
        /\ marked \in [DOMAIN marked -> AssetRecords]
    BY <1>3, RecordsAssumption DEF Database, Fits
  <2>2. DOMAIN marked = DOMAIN d.assets
    BY <1>3
  <2> HIDE DEF rows
  <2>3. /\ all \in [DOMAIN all -> AssetRecords] /\ DOMAIN marked \subseteq DOMAIN all
        /\ \A i \in DOMAIN marked : all[i] = marked[i]
        /\ \A i \in DOMAIN all \ DOMAIN marked :
             i - NextId(marked) + 1 \in DOMAIN rows /\ all[i] = rows[i - NextId(marked) + 1]
    BY <1>6, <2>1, InsertRows, Zenon
  <2> QED BY <2>2, <2>3
<1>8. DOMAIN all \in SUBSET Int
  <2>1. NextId(marked) \in Nat
    BY <1>3, RecordsAssumption, NextIdIsNew DEF Database, Fits
  <2>2. DOMAIN all = DOMAIN marked \cup (NextId(marked) - 1 + 1 .. NextId(marked) - 1 + Len(rows))
    BY DEF InsertAll
  <2>3. DOMAIN marked \in SUBSET (1..MaxAssets) /\ MaxAssets \in Nat /\ Len(rows) \in Nat
    BY <1>3, <1>6, RecordsAssumption DEF Database, Fits
  <2> HIDE DEF all, rows
  <2> QED BY <2>1, <2>2, <2>3
<1>9. DOMAIN d.assets = {} => \A i : idents = {i} => DOMAIN all \subseteq {1}
  <2> SUFFICES ASSUME DOMAIN d.assets = {}, NEW i, idents = {i} PROVE DOMAIN all \subseteq {1}
    OBVIOUS
  <2>1. Cardinality(news) = 1
    BY <1>5, FS_Singleton
  <2>2. marked = << >>
    BY <1>3
  <2>3. NextId(marked) = 1
    BY <2>2 DEF NextId
  <2>4. DOMAIN rows = 1..1
    BY <1>2, <1>6, <2>1
  <2>5. Len(rows) = 1
    BY <1>6, <2>4
  <2>6. DOMAIN all = DOMAIN marked \cup (NextId(marked) - 1 + 1 .. NextId(marked) - 1 + Len(rows))
    BY DEF InsertAll
  <2> HIDE DEF all, rows
  <2> QED BY <1>3, <2>3, <2>5, <2>6
<1> HIDE DEF rows, all
<1>10. added = [assets |-> all, edges |-> d.edges, steps |-> d.steps, findings |-> d.findings,
           paths |-> d.paths]
  <2>1. d = [assets |-> d.assets, edges |-> d.edges, steps |-> d.steps, findings |-> d.findings,
            paths |-> d.paths]
    BY DEF Database, Shaped
  <2>2. added = [[d EXCEPT !.assets = marked] EXCEPT !.assets = all]
    BY DEF marked
  <2> HIDE DEF added
  <2> QED BY <2>1, <2>2
<1> HIDE DEF added
<1>11. Shaped(added)
  BY <1>7, <1>10 DEF Shaped, Database
<1>12. Constraints(added)
  <2>1. \A a, b \in DOMAIN all : all[a].ident = all[b].ident => a = b
    <3> SUFFICES ASSUME NEW a \in DOMAIN all, NEW b \in DOMAIN all, all[a].ident = all[b].ident
            PROVE a = b
      OBVIOUS
    <3>1. CASE a \in DOMAIN d.assets /\ b \in DOMAIN d.assets
      <4>1. d.assets[a].ident = d.assets[b].ident
        BY <1>3, <1>7, <3>1
      <4>2. IsInjective([i \in DOMAIN d.assets |-> d.assets[i].ident])
        BY DEF Database, Constraints
      <4> QED BY <3>1, <4>1, <4>2, IdentsInjective, Zenon
    <3>2. \A i \in DOMAIN all \ DOMAIN d.assets : all[i].ident \in news /\ all[i].ident
              = new[i - NextId(marked) + 1]
      BY <1>6, <1>7
    <3>3. CASE a \in DOMAIN d.assets /\ b \notin DOMAIN d.assets
      BY <1>3, <1>4, <1>7, <3>2, <3>3
    <3>4. CASE a \notin DOMAIN d.assets /\ b \in DOMAIN d.assets
      BY <1>3, <1>4, <1>7, <3>2, <3>4
    <3>5. CASE a \notin DOMAIN d.assets /\ b \notin DOMAIN d.assets
      <4>1. a - NextId(marked) + 1 \in DOMAIN new /\ b - NextId(marked) + 1 \in DOMAIN new
        BY <1>6, <1>7, <3>5
      <4>2. new[a - NextId(marked) + 1] = new[b - NextId(marked) + 1]
        BY <3>2, <3>5
      <4>3. a - NextId(marked) + 1 = b - NextId(marked) + 1
        BY <1>2, <4>1, <4>2, Zenon DEF IsInjective
      <4>4. a \in Int /\ b \in Int /\ NextId(marked) \in Int
        BY <1>3, <1>8, RecordsAssumption, NextIdIsNew DEF Database, Fits
      <4> QED BY <4>3, <4>4
    <3> QED BY <3>1, <3>3, <3>4, <3>5
  <2>2. IsInjective([a \in DOMAIN all |-> all[a].ident])
    BY <2>1, IdentsInjective, Zenon
  <2> QED BY <1>7, <1>10, <2>2 DEF Database, Constraints
<1> DEFINE e == DropAssets(gone, added)
<1>13. /\ Shaped(e) /\ Constraints(e) /\ Kept(added, e)
       /\ DOMAIN e.assets = DOMAIN all \ gone
       /\ DOMAIN e.edges \subseteq DOMAIN d.edges /\ DOMAIN e.steps \subseteq DOMAIN d.steps
       /\ e.paths = d.paths
  BY <1>10, <1>11, <1>12, DropsAssets
<1>14. added.findings = d.findings
  BY <1>10
<1> HIDE DEF e, gone
<1>15. Kept(d, e)
  BY <1>13, <1>14 DEF Kept
<1> QED BY <1>1, <1>9, <1>13, <1>15 DEF e

-----------------------------------------------------------------------------
(* The service functions. *)

Ops == {"upsert_asset", "update_asset", "delete_asset", "upsert_edge", "update_edge", "delete_edge",
        "create_path", "delete_path", "create_step", "update_step", "delete_step",
        "create_finding", "update_finding", "delete_finding", "import"}

(* What the requests of the calls are.                                      *)
LEMMA CallsFit ==
  ASSUME NEW c \in RecordCalls
  PROVE  /\ c.op \in Ops
         /\ c.op \in {"upsert_asset", "update_asset"} => c.ident \in Idents
         /\ c.op \in {"upsert_edge", "update_edge"} => c.row \in EdgeRecords
         /\ c.op \in {"create_step", "update_step"} => c.row \in StepRows
         /\ c.op \in {"create_finding", "update_finding", "import"} => c.row \in FindingRows
         /\ c \in AssetCalls <=> c.op \in {"upsert_asset", "update_asset", "delete_asset"}
         /\ c \in FindingCalls <=> c.op \in {"create_finding", "update_finding", "delete_finding"}
         /\ c \in Imports <=> c.op = "import"
<1>1. CASE c \in AssetCalls
  BY <1>1 DEF AssetCalls, FindingCalls, Imports, Ops
<1>2. CASE c \in GraphCalls
  BY <1>2 DEF GraphCalls, AssetCalls, FindingCalls, Imports, Ops, EdgeRows, EdgeRecords
<1>3. CASE c \in FindingCalls
  BY <1>3 DEF AssetCalls, FindingCalls, Imports, Ops
<1>4. CASE c \in Imports
  BY <1>4 DEF AssetCalls, FindingCalls, Imports, Ops
<1> QED BY <1>1, <1>2, <1>3, <1>4 DEF RecordCalls

(* The row a request for a finding makes.                                   *)
LEMMA FindingFits ==
  ASSUME NEW entry \in FindingRows, NEW stamped \in BOOLEAN
  PROVE  /\ Finding(entry, stamped) \in FindingRecords
         /\ entry.status \in Verdicts
         /\ Finding(entry, stamped).status = entry.status /\ Finding(entry, stamped).stamped = stamped
<1>1. 1 \in 0..MaxAssets /\ 0 \in 0..MaxEdges /\ \A i \in 1..MaxEdges : i \in 0..MaxEdges
  BY RecordsAssumption
<1>2. entry.asset = 1 /\ entry.edge \in 0..MaxEdges /\ entry.cve \in BOOLEAN /\ entry.status \in Verdicts
  BY <1>1 DEF FindingRows, Verdicts
<1> QED BY <1>1, <1>2 DEF Finding, FindingRecords

(* A commit leaves tables that hold together, or nothing changed.           *)
LEMMA CommitKeeps ==
  ASSUME NEW d, Shaped(d), Constraints(d), NEW e, Shaped(e)
  PROVE  Shaped(Commit(d, e)) /\ Constraints(Commit(d, e))
BY DEF Commit

(* The update of an asset's row is refused or leaves the tables whole.      *)
LEMMA UpdateAssetKeeps ==
  ASSUME NEW d, Shaped(d), Constraints(d), NEW id,
         NEW seen \in AssetRecords, NEW entry \in AssetRecords
  PROVE  LET e == Update(d, "assets", id, seen, entry, {}) IN Shaped(e) /\ Constraints(e)
<1>1. CASE id \notin DOMAIN d.assets
  BY <1>1 DEF Update
<1>2. CASE id \in DOMAIN d.assets
  <2> DEFINE t == Flush(d.assets, id, seen, entry, {})
             e == [d EXCEPT !.assets = t]
  <2>1. t \in [DOMAIN d.assets -> AssetRecords]
    BY <1>2, FlushAsset DEF Shaped, Renamed
  <2>2. Update(d, "assets", id, seen, entry, {}) = Commit(d, e)
    BY <1>2 DEF Update
  <2> HIDE DEF t
  <2>3. Shaped(e)
    BY <2>1 DEF Shaped
  <2> QED BY <2>2, <2>3, CommitKeeps
<1> QED BY <1>1, <1>2

(* So is that of an edge's row.                                             *)
LEMMA UpdateEdgeKeeps ==
  ASSUME NEW d, Shaped(d), Constraints(d), NEW id,
         NEW seen \in EdgeRecords, NEW entry \in EdgeRecords
  PROVE  LET e == Update(d, "edges", id, seen, entry, {}) IN Shaped(e) /\ Constraints(e)
<1>1. CASE id \notin DOMAIN d.edges
  BY <1>1 DEF Update
<1>2. CASE id \in DOMAIN d.edges
  <2> DEFINE t == Flush(d.edges, id, seen, entry, {})
             e == [d EXCEPT !.edges = t]
  <2>1. t \in [DOMAIN d.edges -> EdgeRecords]
    BY <1>2, FlushEdge DEF Shaped
  <2>2. Update(d, "edges", id, seen, entry, {}) = Commit(d, e)
    BY <1>2 DEF Update
  <2> HIDE DEF t
  <2>3. Shaped(e)
    BY <2>1 DEF Shaped
  <2> QED BY <2>2, <2>3, CommitKeeps
<1> QED BY <1>1, <1>2

(* And that of a step's row.                                                *)
LEMMA UpdateStepKeeps ==
  ASSUME NEW d, Shaped(d), Constraints(d), NEW id,
         NEW seen \in StepRows, NEW entry \in StepRows
  PROVE  LET e == Update(d, "steps", id, seen, entry, {}) IN Shaped(e) /\ Constraints(e)
<1>1. CASE id \notin DOMAIN d.steps
  BY <1>1 DEF Update
<1>2. CASE id \in DOMAIN d.steps
  <2> DEFINE t == Flush(d.steps, id, seen, entry, {})
             e == [d EXCEPT !.steps = t]
  <2>1. t \in [DOMAIN d.steps -> StepRows]
    BY <1>2, FlushStep DEF Shaped
  <2>2. Update(d, "steps", id, seen, entry, {}) = Commit(d, e)
    BY <1>2 DEF Update
  <2> HIDE DEF t
  <2>3. Shaped(e)
    BY <2>1 DEF Shaped
  <2> QED BY <2>2, <2>3, CommitKeeps
<1> QED BY <1>1, <1>2

(* And that of a finding's row, which writes no other verdict.              *)
LEMMA UpdateFindingKeeps ==
  ASSUME NEW d, Shaped(d), Constraints(d), NEW id, NEW now, "status" \notin now,
         NEW seen \in FindingRecords, NEW entry \in FindingRecords
  PROVE  LET e == Update(d, "findings", id, seen, entry, now) IN
         /\ Shaped(e) /\ Constraints(e)
         /\ DOMAIN e.findings = DOMAIN d.findings
         /\ \A f \in DOMAIN d.findings :
              \/ e.findings[f] = d.findings[f]
              \/ /\ f = id
                 /\ e.findings[f].status = IF entry.status # seen.status THEN entry.status
                        ELSE d.findings[f].status
                 /\ "stamped" \in now => e.findings[f].stamped = entry.stamped
<1>1. CASE id \notin DOMAIN d.findings
  BY <1>1 DEF Update
<1>2. CASE id \in DOMAIN d.findings
  <2> DEFINE t == Flush(d.findings, id, seen, entry, now)
             e == [d EXCEPT !.findings = t]
  <2>1. d.findings \in [DOMAIN d.findings -> FindingRecords]
    BY DEF Shaped
  <2>2. Changed(d.findings, id, seen, entry, now, t)
    BY <1>2, <2>1, FlushFinding
  <2>3. Update(d, "findings", id, seen, entry, now) = Commit(d, e)
    BY <1>2 DEF Update
  <2> HIDE DEF t
  <2>4. t \in [DOMAIN d.findings -> FindingRecords]
    BY <2>2 DEF Changed
  <2>5. Shaped(e) /\ e.findings = t
    BY <2>4 DEF Shaped
  <2>6. Shaped(Commit(d, e)) /\ Constraints(Commit(d, e))
    BY <2>5, CommitKeeps
  <2>7. \A f \in DOMAIN d.findings :
          \/ t[f] = d.findings[f]
          \/ /\ f = id
             /\ t[f].status = IF entry.status # seen.status THEN entry.status ELSE d.findings[f].status
             /\ "stamped" \in now => t[f].stamped = entry.stamped
    BY <1>2, <2>2 DEF Changed
  <2>8. Commit(d, e).findings \in {t, d.findings} /\ DOMAIN t = DOMAIN d.findings
    BY <2>4, <2>5 DEF Commit
  <2> HIDE DEF e
  <2> QED BY <2>3, <2>6, <2>7, <2>8
<1> QED BY <1>1, <1>2

(* An asset's update, whatever row it read.                                 *)
LEMMA AssetUpdateKeeps ==
  ASSUME NEW d, Shaped(d), Constraints(d), NEW c, c.ident \in Idents, NEW seen,
         seen.row = None \/ seen.row \in AssetRecords
  PROVE  LET e == update_work_project_asset(c, d, seen) IN Shaped(e) /\ Constraints(e)
<1>1. CASE seen.row = None \/ ~seen.ok \/ (seen.row.scope /\ seen.row.ident # c.ident)
  BY <1>1 DEF update_work_project_asset
<1>2. CASE ~(seen.row = None \/ ~seen.ok \/ (seen.row.scope /\ seen.row.ident # c.ident))
  <2>1. seen.row \in AssetRecords /\ [seen.row EXCEPT !.ident = c.ident] \in AssetRecords
    BY <1>2 DEF AssetRecords
  <2>2. update_work_project_asset(c, d, seen)
          = Update(d, "assets", seen.id, seen.row, [seen.row EXCEPT !.ident = c.ident], {})
    BY <1>2 DEF update_work_project_asset
  <2> QED BY <2>1, <2>2, UpdateAssetKeeps
<1> QED BY <1>1, <1>2

(* A new asset leaves the others alone.                                     *)
LEMMA AssetCreateKeeps ==
  ASSUME NEW d, Database(d), NEW ident \in Idents
  PROVE  LET e == create_work_project_asset(ident, d) IN
         /\ Shaped(e) /\ Constraints(e)
         /\ \A a \in DOMAIN d.assets : a \in DOMAIN e.assets /\ e.assets[a] = d.assets[a]
<1> DEFINE entry == [ident |-> ident, scope |-> FALSE]
           t == Insert(d.assets, entry)
           e == [d EXCEPT !.assets = t]
<1>1. entry \in AssetRecords
  BY DEF AssetRecords
<1>2. /\ MaxAssets \in Nat /\ DOMAIN d.assets \in SUBSET (1..MaxAssets)
      /\ d.assets \in [DOMAIN d.assets -> AssetRecords]
  BY RecordsAssumption DEF Database, Fits, Shaped
<1> HIDE DEF entry
<1>3. Added(d.assets, AssetRecords, entry, t)
  BY <1>1, <1>2, InsertRow DEF TableRows
<1> HIDE DEF t
<1>4. Shaped(e)
  BY <1>3 DEF Database, Shaped, Added
<1>5. create_work_project_asset(ident, d) = Commit(d, e)
  BY DEF create_work_project_asset, t, entry
<1>6. Shaped(Commit(d, e)) /\ Constraints(Commit(d, e))
  BY <1>4, CommitKeeps DEF Database
<1>7. e.assets = t
  BY DEF Database, Shaped
<1>8. \A a \in DOMAIN d.assets : a \in DOMAIN Commit(d, e).assets /\ Commit(d, e).assets[a]
          = d.assets[a]
  BY <1>3, <1>7 DEF Commit, Added
<1> QED BY <1>5, <1>6, <1>8

(* An upsert updates what it found, or the winner, or creates.              *)
LEMMA AssetUpsertKeeps ==
  ASSUME NEW d, Database(d), NEW c, c.ident \in Idents, NEW seen,
         seen.row = None \/ seen.row \in AssetRecords
  PROVE  LET e == upsert_work_project_asset(c, d, seen) IN Shaped(e) /\ Constraints(e)
<1> DEFINE winner == asset_by_identity(d, c.ident)
           again == Seen(winner, Get(d.assets, winner), TRUE)
<1>1. again.row = None \/ again.row \in AssetRecords
  BY DEF Seen, Get, Database, Shaped
<1>2. upsert_work_project_asset(c, d, seen)
        = IF seen.id # 0 \/ winner # 0
          THEN update_work_project_asset(c, d, IF seen.id # 0 THEN seen ELSE again)
          ELSE create_work_project_asset(c.ident, d)
  BY DEF upsert_work_project_asset
<1> HIDE DEF winner, again
<1>3. CASE seen.id # 0
  BY <1>2, <1>3, AssetUpdateKeeps DEF Database
<1>4. CASE seen.id = 0 /\ winner # 0
  BY <1>1, <1>2, <1>4, AssetUpdateKeeps DEF Database
<1>5. CASE seen.id = 0 /\ winner = 0
  BY <1>2, <1>5, AssetCreateKeeps
<1> QED BY <1>3, <1>4, <1>5

(* A deletion takes along what refers to the asset.                         *)
LEMMA AssetDeleteKeeps ==
  ASSUME NEW d, Shaped(d), Constraints(d), NEW c, NEW seen
  PROVE  LET e == delete_work_project_asset(c, d, seen) IN Shaped(e) /\ Constraints(e)
BY DropsAssets DEF delete_work_project_asset

(* A new edge has both its assets.                                          *)
LEMMA EdgeUpsertKeeps ==
  ASSUME NEW d, Database(d), NEW c, c.row \in EdgeRecords, NEW seen
  PROVE  LET e == upsert_work_project_graph_edge(c, d, seen) IN Shaped(e) /\ Constraints(e)
<1> DEFINE old == d.edges
           t == Insert(old, c.row)
           e == [d EXCEPT !.edges = t]
<1>1. MaxEdges \in Nat /\ DOMAIN old \in SUBSET (1..MaxEdges) /\ old \in [DOMAIN old -> EdgeRecords]
  BY RecordsAssumption DEF Database, Fits, Shaped
<1> HIDE DEF old
<1>2. t \in [DOMAIN t -> EdgeRecords]
  BY <1>1, InsertRow DEF TableRows, Added
<1> HIDE DEF t
<1>3. Shaped(e)
  BY <1>2 DEF Database, Shaped
<1>4. upsert_work_project_graph_edge(c, d, seen) = IF ~seen.ok \/ seen.id # 0 THEN d
          ELSE Commit(d, e)
  BY DEF upsert_work_project_graph_edge, t, old
<1>5. Shaped(Commit(d, e)) /\ Constraints(Commit(d, e))
  BY <1>3, CommitKeeps DEF Database
<1> QED BY <1>4, <1>5 DEF Database

(* An edge's ends are assets after an update too.                           *)
LEMMA EdgeUpdateKeeps ==
  ASSUME NEW d, Shaped(d), Constraints(d), NEW c, c.row \in EdgeRecords, NEW seen,
         seen.row = None \/ seen.row \in EdgeRecords
  PROVE  LET e == update_work_project_graph_edge(c, d, seen) IN Shaped(e) /\ Constraints(e)
BY UpdateEdgeKeeps DEF update_work_project_graph_edge

(* A deletion takes along what refers to the edge.                          *)
LEMMA EdgeDeleteKeeps ==
  ASSUME NEW d, Shaped(d), Constraints(d), NEW c, NEW seen
  PROVE  LET e == delete_work_project_graph_edge(c, d, seen) IN Shaped(e) /\ Constraints(e)
BY PurgeEdges DEF delete_work_project_graph_edge

(* A new attack path is one more.                                           *)
LEMMA PathCreateKeeps ==
  ASSUME NEW d, Shaped(d), Constraints(d)
  PROVE  LET e == create_work_project_attack_path(d) IN Shaped(e) /\ Constraints(e)
<1> DEFINE paths == d.paths \cup {IF d.paths = {} THEN 1 ELSE Max(d.paths) + 1}
           e == create_work_project_attack_path(d)
<1>1. d = [assets |-> d.assets, edges |-> d.edges, steps |-> d.steps, findings |-> d.findings,
          paths |-> d.paths]
  BY DEF Shaped
<1>2. e = [d EXCEPT !.paths = paths]
  BY DEF create_work_project_attack_path
<1>3. d.paths \subseteq paths
  OBVIOUS
<1> HIDE DEF paths, e
<1>4. e = [assets |-> d.assets, edges |-> d.edges, steps |-> d.steps, findings |-> d.findings,
          paths |-> paths]
  BY <1>1, <1>2
<1>5. Shaped(e)
  BY <1>4 DEF Shaped
<1>6. Constraints(e)
  BY <1>3, <1>4 DEF Constraints
<1> QED BY <1>5, <1>6 DEF e

(* Steps may go, and the path they belonged to.                             *)
LEMMA StepsGo ==
  ASSUME NEW d, Shaped(d), Constraints(d), NEW ids, NEW paths,
         \A s \in DOMAIN d.steps \ ids : d.steps[s].path \in paths
  PROVE  LET e == [d EXCEPT !.steps = Without(@, ids), !.paths = paths]
         IN Shaped(e) /\ Constraints(e)
<1> DEFINE t == Without(d.steps, ids)
           e == [d EXCEPT !.steps = Without(@, ids), !.paths = paths]
<1>1. t \in [DOMAIN d.steps \ ids -> StepRows] /\ \A s \in DOMAIN d.steps \ ids : t[s] = d.steps[s]
  <2>1. d.steps \in [DOMAIN d.steps -> StepRows]
    BY DEF Shaped
  <2> QED BY <2>1, WithoutRows
<1>2. e = [assets |-> d.assets, edges |-> d.edges, steps |-> t, findings |-> d.findings,
          paths |-> paths]
  <2>1. d = [assets |-> d.assets, edges |-> d.edges, steps |-> d.steps, findings |-> d.findings,
            paths |-> d.paths]
    BY DEF Shaped
  <2>2. e = [d EXCEPT !.steps = t, !.paths = paths]
    OBVIOUS
  <2> HIDE DEF t, e
  <2> QED BY <2>1, <2>2
<1> HIDE DEF t, e
<1>3. Shaped(e)
  BY <1>1, <1>2 DEF Shaped
<1>4. IsInjective([s \in DOMAIN t |-> <<t[s].path, t[s].seq>>])
  <2>1. \A a, b \in DOMAIN d.steps :
          d.steps[a].path = d.steps[b].path /\ d.steps[a].seq = d.steps[b].seq => a = b
    BY StepsInjective, Zenon DEF Constraints
  <2>2. \A a, b \in DOMAIN t : t[a].path = t[b].path /\ t[a].seq = t[b].seq => a = b
    BY <1>1, <2>1
  <2> QED BY <2>2, StepsInjective, Zenon
<1>5. \A s \in DOMAIN t : t[s].path \in paths /\ t[s].edge \in DOMAIN d.edges
  BY <1>1 DEF Constraints
<1>6. Constraints(e)
  BY <1>2, <1>4, <1>5 DEF Constraints
<1> QED BY <1>3, <1>6 DEF e

(* A path takes its steps along.                                            *)
LEMMA PathDeleteKeeps ==
  ASSUME NEW d, Shaped(d), Constraints(d), NEW c, NEW seen
  PROVE  LET e == delete_work_project_attack_path(c, d, seen) IN Shaped(e) /\ Constraints(e)
<1> DEFINE ids == {s \in DOMAIN d.steps : d.steps[s].path = c.id}
           paths == d.paths \ {c.id}
<1>1. \A s \in DOMAIN d.steps \ ids : d.steps[s].path \in paths
  BY DEF Constraints
<1>2. delete_work_project_attack_path(c, d, seen)
        = IF ~seen.ok THEN d ELSE [d EXCEPT !.steps = Without(@, ids), !.paths = paths]
  BY DEF delete_work_project_attack_path
<1> HIDE DEF ids, paths
<1>3. LET e == [d EXCEPT !.steps = Without(@, ids), !.paths = paths] IN Shaped(e) /\ Constraints(e)
  BY <1>1, StepsGo, Zenon
<1> QED BY <1>2, <1>3

(* A step goes alone.                                                       *)
LEMMA StepDeleteKeeps ==
  ASSUME NEW d, Shaped(d), Constraints(d), NEW c, NEW seen
  PROVE  LET e == delete_work_project_attack_path_step(c, d, seen) IN Shaped(e) /\ Constraints(e)
<1>1. \A s \in DOMAIN d.steps \ {c.id} : d.steps[s].path \in d.paths
  BY DEF Constraints
<1>2. [d EXCEPT !.steps = Without(@, {c.id})] = [d EXCEPT !.steps = Without(@, {c.id}), !.paths
          = d.paths]
  BY DEF Shaped
<1> QED BY <1>1, <1>2, StepsGo DEF delete_work_project_attack_path_step

(* A new step has its path, its edge and a place of its own.                *)
LEMMA StepCreateKeeps ==
  ASSUME NEW d, Database(d), NEW c, c.row \in StepRows, NEW seen
  PROVE  LET e == create_work_project_attack_path_step(c, d, seen) IN Shaped(e) /\ Constraints(e)
<1> DEFINE old == d.steps
           t == Insert(old, c.row)
           e == [d EXCEPT !.steps = t]
<1>1. MaxSteps \in Nat /\ DOMAIN old \in SUBSET (1..MaxSteps) /\ old \in [DOMAIN old -> StepRows]
  BY RecordsAssumption DEF Database, Fits, Shaped
<1> HIDE DEF old
<1>2. t \in [DOMAIN t -> StepRows]
  BY <1>1, InsertRow DEF TableRows, Added
<1> HIDE DEF t
<1>3. Shaped(e)
  BY <1>2 DEF Database, Shaped
<1>4. create_work_project_attack_path_step(c, d, seen) = IF ~seen.ok THEN d ELSE Commit(d, e)
  BY DEF create_work_project_attack_path_step, t, old
<1>5. Shaped(Commit(d, e)) /\ Constraints(Commit(d, e))
  BY <1>3, CommitKeeps DEF Database
<1> QED BY <1>4, <1>5 DEF Database

(* It has them after an update too.                                         *)
LEMMA StepUpdateKeeps ==
  ASSUME NEW d, Shaped(d), Constraints(d), NEW c, c.row \in StepRows, NEW seen,
         seen.row = None \/ seen.row \in StepRows
  PROVE  LET e == update_work_project_attack_path_step(c, d, seen) IN Shaped(e) /\ Constraints(e)
BY UpdateStepKeeps DEF update_work_project_attack_path_step

(* A new row in the table of findings.                                      *)
LEMMA InsertFinding ==
  ASSUME NEW d, Database(d), NEW entry \in FindingRecords
  PROVE  LET e == [d EXCEPT !.findings = Insert(@, entry)] IN
         /\ Shaped(e)
         /\ \A f \in DOMAIN d.findings : f \in DOMAIN e.findings /\ e.findings[f] = d.findings[f]
         /\ \A f \in DOMAIN e.findings \ DOMAIN d.findings : e.findings[f] = entry
<1> DEFINE old == d.findings
           t == Insert(old, entry)
           e == [d EXCEPT !.findings = t]
<1>1. /\ MaxFindings \in Nat /\ DOMAIN old \in SUBSET (1..MaxFindings)
      /\ old \in [DOMAIN old -> FindingRecords]
  BY RecordsAssumption DEF Database, Fits, Shaped
<1> HIDE DEF old
<1>2. Added(old, FindingRecords, entry, t)
  BY <1>1, InsertRow DEF TableRows
<1> HIDE DEF t
<1>3. Shaped(e) /\ e.findings = t
  BY <1>2 DEF Database, Shaped, Added
<1> QED BY <1>2, <1>3 DEF old, t, Added

(* Findings: the new one carries the stamp its verdict asks for.            *)
LEMMA FindingCreateKeeps ==
  ASSUME NEW d, Database(d), NEW c, c.row \in FindingRows, NEW seen
  PROVE  LET e == create_work_project_finding(c, d, seen) IN
         /\ Shaped(e) /\ Constraints(e)
         /\ \A f \in DOMAIN d.findings : f \in DOMAIN e.findings /\ e.findings[f] = d.findings[f]
         /\ \A f \in DOMAIN e.findings \ DOMAIN d.findings :
              e.findings[f].status = "validated" => e.findings[f].stamped
<1> DEFINE entry == Finding(c.row, c.row.status = "validated")
           e == [d EXCEPT !.findings = Insert(@, entry)]
<1>0. entry \in FindingRecords /\ (entry.status = "validated" => entry.stamped)
  BY FindingFits
<1>1. create_work_project_finding(c, d, seen) = IF ~seen.ok THEN d ELSE Commit(d, e)
  BY DEF create_work_project_finding
<1> HIDE DEF entry
<1>2. /\ Shaped(e)
      /\ \A f \in DOMAIN d.findings : f \in DOMAIN e.findings /\ e.findings[f] = d.findings[f]
      /\ \A f \in DOMAIN e.findings \ DOMAIN d.findings : e.findings[f] = entry
  BY <1>0, InsertFinding
<1> HIDE DEF e
<1>3. Shaped(Commit(d, e)) /\ Constraints(Commit(d, e))
  BY <1>2, CommitKeeps DEF Database
<1> QED BY <1>0, <1>1, <1>2, <1>3 DEF Commit, Database

(* An update writes the verdict it asks for when that differs from the one  *)
(* it read, and a stamp when it validates.                                  *)
LEMMA FindingUpdateKeeps ==
  ASSUME NEW d, Shaped(d), Constraints(d), NEW c, c.row \in FindingRows, NEW seen,
         seen.row = None \/ seen.row \in FindingRecords
  PROVE  LET e == update_work_project_finding(c, d, seen) IN
         /\ Shaped(e) /\ Constraints(e)
         /\ DOMAIN e.findings = DOMAIN d.findings
         /\ \A f \in DOMAIN d.findings :
              /\ e.findings[f].status = "validated" /\ d.findings[f].status # "validated"
                     => e.findings[f].stamped
              /\ \/ e.findings[f].status = d.findings[f].status
                 \/ /\ f = seen.id /\ seen.row # None
                    /\ e.findings[f].status = c.row.status /\ c.row.status # seen.row.status
<1>1. CASE seen.row = None \/ ~seen.ok \/ seen.id \notin DOMAIN d.findings
  BY <1>1 DEF update_work_project_finding, Update
<1>2. CASE ~(seen.row = None \/ ~seen.ok \/ seen.id \notin DOMAIN d.findings)
  <2> DEFINE entry == Stamped(c.row, seen.row)
             now == IF Validates(c.row, seen.row) THEN {"stamped"} ELSE {}
             e == Update(d, "findings", seen.id, seen.row, entry, now)
  <2>1. /\ entry \in FindingRecords /\ entry.status = c.row.status
        /\ Validates(c.row, seen.row) => entry.stamped
    <3>1. seen.row.stamped \in BOOLEAN
      BY <1>2 DEF FindingRecords
    <3>2. (Validates(c.row, seen.row) \/ (c.row.status
              = "validated" /\ seen.row.stamped)) \in BOOLEAN
      OBVIOUS
    <3> QED BY <3>2, FindingFits DEF Stamped
  <2>2. "status" \notin now /\ (Validates(c.row, seen.row) => "stamped" \in now)
    OBVIOUS
  <2>3. seen.row \in FindingRecords
    BY <1>2
  <2>4. update_work_project_finding(c, d, seen) = e
    BY <1>2 DEF update_work_project_finding
  <2> HIDE DEF entry, now
  <2>5. /\ Shaped(e) /\ Constraints(e)
        /\ DOMAIN e.findings = DOMAIN d.findings
        /\ \A f \in DOMAIN d.findings :
             \/ e.findings[f] = d.findings[f]
             \/ /\ f = seen.id
                /\ e.findings[f].status = IF entry.status # seen.row.status THEN entry.status
                       ELSE d.findings[f].status
                /\ "stamped" \in now => e.findings[f].stamped = entry.stamped
    BY <2>1, <2>2, <2>3, UpdateFindingKeeps
  <2> HIDE DEF e
  <2>6. ASSUME NEW f \in DOMAIN d.findings
        PROVE  /\ e.findings[f].status = "validated" /\ d.findings[f].status # "validated"
                      => e.findings[f].stamped
               /\ \/ e.findings[f].status = d.findings[f].status
                  \/ /\ f = seen.id
                     /\ e.findings[f].status = c.row.status /\ c.row.status # seen.row.status
    BY <2>1, <2>2, <2>5 DEF Validates
  <2> QED BY <1>2, <2>4, <2>5, <2>6
<1> QED BY <1>1, <1>2

(* An import that found a finding keeps its verdict, unless the finding is  *)
(* one whose verdict it had not seen.                                       *)
LEMMA ImportKeeps ==
  ASSUME NEW d, Database(d), NEW c \in Imports, NEW seen,
         seen.row = None \/ seen.row \in FindingRecords
  PROVE  LET e == upsert_cve_work_project_finding(c, d, seen) IN
         /\ Shaped(e) /\ Constraints(e)
         /\ \A f \in DOMAIN e.findings :
              /\ e.findings[f].status = "validated"
              /\ f \in DOMAIN d.findings => d.findings[f].status # "validated"
              => e.findings[f].stamped
         /\ \A f \in DOMAIN d.findings :
              \/ d.findings[f].status \in {"suspected", e.findings[f].status}
              \/ seen.row = None \/ seen.row.status # d.findings[f].status
<1>0. c.row \in FindingRows /\ c.row.status = "suspected" /\ c.row.cve
  BY DEF Imports
<1>1. CASE seen.row = None
  <2>1. upsert_cve_work_project_finding(c, d, seen)
          = create_work_project_finding(c, d, Seen(0, None, validate_refs(d, c.row)))
    BY <1>1 DEF upsert_cve_work_project_finding
  <2> QED BY <1>0, <1>1, <2>1, FindingCreateKeeps
<1>2. CASE seen.row # None
  <2> DEFINE r == ImportRequest(c.row, seen.row)
             k == [c EXCEPT !.row = r]
             again == Seen(seen.id, Get(d.findings, seen.id), validate_refs(d, c.row))
  <2>1. seen.row \in FindingRecords /\ seen.row.status \in Verdicts
    BY <1>2 DEF FindingRecords
  <2>2. r \in FindingRows /\ r.status = seen.row.status
    BY <1>0, <2>1 DEF ImportRequest, FindingRows
  <2>3. k.row = r
    BY DEF Imports
  <2>4. /\ again.id = seen.id
        /\ again.row = None \/ (seen.id \in DOMAIN d.findings /\ again.row = d.findings[seen.id])
    <3>1. again.id = seen.id /\ again.row = Get(d.findings, seen.id)
      BY DEF Seen
    <3> HIDE DEF again
    <3> QED BY <3>1 DEF Get
  <2>5. again.row = None \/ again.row \in FindingRecords
    BY <2>4 DEF Database, Shaped
  <2>6. upsert_cve_work_project_finding(c, d, seen) = update_work_project_finding(k, d, again)
    BY <1>2 DEF upsert_cve_work_project_finding
  <2> HIDE DEF k, r, again
  <2> DEFINE e == update_work_project_finding(k, d, again)
  <2>7. /\ Shaped(e) /\ Constraints(e)
        /\ DOMAIN e.findings = DOMAIN d.findings
        /\ \A f \in DOMAIN d.findings :
             /\ e.findings[f].status = "validated" /\ d.findings[f].status # "validated"
                    => e.findings[f].stamped
             /\ \/ e.findings[f].status = d.findings[f].status
                \/ /\ f = again.id /\ again.row # None
                   /\ e.findings[f].status = k.row.status /\ k.row.status # again.row.status
    BY <2>2, <2>3, <2>5, FindingUpdateKeeps DEF Database
  <2> HIDE DEF e
  <2>8. ASSUME NEW f \in DOMAIN d.findings
        PROVE  \/ d.findings[f].status \in {"suspected", e.findings[f].status}
               \/ seen.row.status # d.findings[f].status
    BY <2>2, <2>3, <2>4, <2>7
  <2> QED BY <2>6, <2>7, <2>8 DEF e
<1> QED BY <1>1, <1>2

(* A finding goes alone.                                                    *)
LEMMA FindingDeleteKeeps ==
  ASSUME NEW d, Shaped(d), Constraints(d), NEW c, NEW seen
  PROVE  LET e == delete_work_project_finding(c, d, seen) IN
         /\ Shaped(e) /\ Constraints(e)
         /\ \A f \in DOMAIN e.findings : f \in DOMAIN d.findings /\ e.findings[f] = d.findings[f]
<1> DEFINE t == Without(d.findings, {c.id})
           e == [d EXCEPT !.findings = t]
<1>1. /\ t \in [DOMAIN d.findings \ {c.id} -> FindingRecords]
      /\ \A f \in DOMAIN d.findings \ {c.id} : t[f] = d.findings[f]
  <2>1. d.findings \in [DOMAIN d.findings -> FindingRecords]
    BY DEF Shaped
  <2> QED BY <2>1, WithoutRows
<1>2. delete_work_project_finding(c, d, seen) = IF seen.row = None THEN d ELSE e
  BY DEF delete_work_project_finding
<1> HIDE DEF t
<1>3. e = [assets |-> d.assets, edges |-> d.edges, steps |-> d.steps, findings |-> t,
          paths |-> d.paths]
  BY DEF Shaped
<1> HIDE DEF e
<1>4. Shaped(e) /\ Constraints(e)
  BY <1>1, <1>3 DEF Shaped, Constraints
<1> QED BY <1>1, <1>2, <1>3, <1>4

-----------------------------------------------------------------------------
(* Any call. *)

(* Reads answer rows of the tables.                                         *)
LEMMA ReadFits ==
  ASSUME NEW d, Shaped(d), NEW c \in RecordCalls
  PROVE  SeenFits(c, Read(c, d))
<1>1. /\ \A id : Get(d.assets, id) = None \/ Get(d.assets, id) \in AssetRecords
      /\ \A id : Get(d.edges, id) = None \/ Get(d.edges, id) \in EdgeRecords
      /\ \A id : Get(d.steps, id) = None \/ Get(d.steps, id) \in StepRows
      /\ \A id : Get(d.findings, id) = None \/ Get(d.findings, id) \in FindingRecords
  BY DEF Get, Shaped
<1>2. ASSUME NEW id, NEW entry, NEW ok PROVE Seen(id, entry, ok).row = entry
  BY DEF Seen
<1>3. c.op \in Ops
  BY CallsFit
<1>4. c.op = "upsert_asset" => Read(c, d).row = Get(d.assets, asset_by_identity(d, c.ident))
  BY DEF Read, Seen
<1>5. c.op \in {"update_asset", "delete_asset"} => Read(c, d).row = Get(d.assets, c.id)
  BY DEF Read, Seen
<1>6. c.op = "upsert_edge" => Read(c, d).row = Get(d.edges, get_edge_by_relation(d, c.row))
  BY DEF Read, Seen
<1>7. c.op \in {"update_edge", "delete_edge"} => Read(c, d).row = Get(d.edges, c.id)
  BY DEF Read, Seen
<1>8. c.op \in {"create_step", "update_step", "delete_step"} => Read(c, d).row = Get(d.steps, c.id)
  BY DEF Read, Seen
<1>9. c.op \in {"create_path", "delete_path"} => Read(c, d).row = None
  BY DEF Read, Seen
<1>10. c.op \in {"create_finding", "update_finding", "delete_finding"} => Read(c, d).row
           = Get(d.findings, c.id)
  BY DEF Read, Seen
<1>11. c.op = "import" =>
         Read(c, d).row = Get(d.findings, First(d.findings, LAMBDA f : f.cve /\ f.asset
             = c.row.asset))
  BY DEF Read, Seen
<1>12. c.op \in {"upsert_asset", "update_asset", "delete_asset"} => SeenFits(c, Read(c, d))
  <2>1. c.op \in {"upsert_asset", "update_asset", "delete_asset"} => RowsOf(c.op) = AssetRecords
    BY DEF RowsOf
  <2> QED BY <1>1, <1>4, <1>5, <2>1 DEF SeenFits
<1>13. c.op \in {"upsert_edge", "update_edge", "delete_edge"} => SeenFits(c, Read(c, d))
  <2>1. c.op \in {"upsert_edge", "update_edge", "delete_edge"} => RowsOf(c.op) = EdgeRecords
    BY DEF RowsOf
  <2> QED BY <1>1, <1>6, <1>7, <2>1 DEF SeenFits
<1>14. c.op \in {"create_step", "update_step", "delete_step"} => SeenFits(c, Read(c, d))
  <2>1. c.op \in {"create_step", "update_step", "delete_step"} => RowsOf(c.op) = StepRows
    BY DEF RowsOf
  <2> QED BY <1>1, <1>8, <2>1 DEF SeenFits
<1>15. c.op \in {"create_finding", "update_finding", "delete_finding", "import"}
           => SeenFits(c, Read(c, d))
  <2>1. c.op \in {"create_finding", "update_finding", "delete_finding", "import"} => RowsOf(c.op)
            = FindingRecords
    BY DEF RowsOf
  <2> QED BY <1>1, <1>10, <1>11, <2>1 DEF SeenFits
<1> QED BY <1>3, <1>9, <1>12, <1>13, <1>14, <1>15 DEF Ops, SeenFits

(* Whatever a call had read, its commit leaves tables that hold together.   *)
LEMMA WriteKeeps ==
  ASSUME NEW d, Database(d), NEW c \in RecordCalls, NEW seen, SeenFits(c, seen)
  PROVE  Shaped(Write(c, d, seen)) /\ Constraints(Write(c, d, seen))
<1> USE DEF Database
<1>0. c.op \in Ops
  BY CallsFit
<1>1. CASE c.op = "upsert_asset"
  BY <1>1, CallsFit, AssetUpsertKeeps DEF Write, SeenFits, RowsOf
<1>2. CASE c.op = "update_asset"
  BY <1>2, CallsFit, AssetUpdateKeeps DEF Write, SeenFits, RowsOf
<1>3. CASE c.op = "delete_asset"
  BY <1>3, AssetDeleteKeeps DEF Write
<1>4. CASE c.op = "upsert_edge"
  BY <1>4, CallsFit, EdgeUpsertKeeps DEF Write
<1>5. CASE c.op = "update_edge"
  BY <1>5, CallsFit, EdgeUpdateKeeps DEF Write, SeenFits, RowsOf
<1>6. CASE c.op = "delete_edge"
  BY <1>6, EdgeDeleteKeeps DEF Write
<1>7. CASE c.op = "create_path"
  BY <1>7, PathCreateKeeps DEF Write
<1>8. CASE c.op = "delete_path"
  BY <1>8, PathDeleteKeeps DEF Write
<1>9. CASE c.op = "create_step"
  BY <1>9, CallsFit, StepCreateKeeps DEF Write
<1>10. CASE c.op = "update_step"
  BY <1>10, CallsFit, StepUpdateKeeps DEF Write, SeenFits, RowsOf
<1>11. CASE c.op = "delete_step"
  BY <1>11, StepDeleteKeeps DEF Write
<1>12. CASE c.op = "create_finding"
  BY <1>12, CallsFit, FindingCreateKeeps DEF Write
<1>13. CASE c.op = "update_finding"
  BY <1>13, CallsFit, FindingUpdateKeeps DEF Write, SeenFits, RowsOf
<1>14. CASE c.op = "delete_finding"
  BY <1>14, FindingDeleteKeeps DEF Write
<1>15. CASE c.op = "import"
  BY <1>15, CallsFit, ImportKeeps DEF Write, SeenFits, RowsOf
<1> QED BY <1>0, <1>1, <1>2, <1>3, <1>4, <1>5, <1>6, <1>7, <1>8, <1>9, <1>10, <1>11, <1>12, <1>13,
           <1>14, <1>15 DEF Ops

-----------------------------------------------------------------------------
(* Every reachable state. *)

(* A project starts with its scope asset and nothing else.                  *)
LEMMA RecordsStart == RecordsInit => RecordsInv
<1> SUFFICES ASSUME RecordsInit PROVE RecordsInv
  OBVIOUS
<1> DEFINE empty == [assets |-> << >>, edges |-> << >>, steps |-> << >>,
                     findings |-> << >>, paths |-> {}]
<1>1. PICK i \in Idents : db = upsert_project_assets({i}, empty)
  BY DEF RecordsInit
<1>2. Shaped(empty)
  BY DEF Shaped
<1>3. Constraints(empty)
  <2>1. /\ DOMAIN empty.assets = {} /\ DOMAIN empty.edges = {} /\ DOMAIN empty.steps = {}
        /\ DOMAIN empty.findings = {}
    OBVIOUS
  <2>2. IsInjective([a \in DOMAIN empty.assets |-> empty.assets[a].ident])
    BY <2>1 DEF IsInjective
  <2>3. IsInjective(empty.edges)
    BY <2>1 DEF IsInjective
  <2>4. IsInjective([s \in DOMAIN empty.steps |-> <<empty.steps[s].path, empty.steps[s].seq>>])
    BY <2>1 DEF IsInjective
  <2> QED BY <2>1, <2>2, <2>3, <2>4 DEF Constraints
<1>4. Fits(empty) /\ DOMAIN empty.assets = {} /\ DOMAIN empty.edges = {} /\ DOMAIN empty.steps = {}
        /\ DOMAIN empty.findings = {} /\ empty.paths = {}
  BY DEF Fits
<1> HIDE DEF empty
<1>5. Database(empty) /\ {i} \in SUBSET Idents
  BY <1>2, <1>3, <1>4 DEF Database
<1>6. /\ Shaped(db) /\ Constraints(db) /\ Kept(empty, db)
      /\ DOMAIN db.edges \subseteq {} /\ DOMAIN db.steps \subseteq {} /\ db.paths = {}
      /\ DOMAIN db.assets \subseteq {1}
  BY <1>1, <1>4, <1>5, MetadataKeeps
<1>7. Fits(db)
  BY <1>4, <1>6, RecordsAssumption DEF Fits, Kept
<1>8. call = None
  BY DEF RecordsInit
<1> QED BY <1>6, <1>7, <1>8 DEF RecordsInv, Database

(* Whatever a call rests on, its commit leaves the invariant.               *)
LEMMA CommitInv ==
  ASSUME RecordsInv, NEW c \in RecordCalls, NEW seen, SeenFits(c, seen),
         db' = Write(c, db, seen), Fits(db)'
  PROVE  Database(db)'
<1>1. Shaped(Write(c, db, seen)) /\ Constraints(Write(c, db, seen))
  BY WriteKeeps DEF RecordsInv
<1>2. Shaped(db') /\ Constraints(db') /\ Fits(db')
  BY <1>1
<1> QED BY <1>2 DEF Database, Shaped, Constraints, Fits

(* Every step keeps the tables whole, and a call remembers rows it read.    *)
LEMMA RecordsStep == RecordsInv /\ [RecordsNext]_recordVars => RecordsInv'
<1> SUFFICES ASSUME RecordsInv, [RecordsNext]_recordVars PROVE RecordsInv'
  OBVIOUS
<1>1. ASSUME NEW c \in RecordCalls, Run(c) PROVE RecordsInv'
  <2>1. SeenFits(c, Read(c, db))
    BY ReadFits DEF RecordsInv, Database
  <2>2. Database(db)'
    BY <1>1, <2>1, CommitInv DEF Run
  <2> QED BY <1>1, <2>2 DEF Run, RecordsInv
<1>2. ASSUME NEW c \in RecordCalls, Begin(c) PROVE RecordsInv'
  <2>1. SeenFits(c, Read(c, db))
    BY ReadFits DEF RecordsInv, Database
  <2>2. call'.c = c /\ call'.seen = Read(c, db) /\ db' = db
    BY <1>2 DEF Begin
  <2> QED BY <2>1, <2>2 DEF RecordsInv
<1>3. ASSUME Finish PROVE RecordsInv'
  <2>1. call.c \in RecordCalls /\ SeenFits(call.c, call.seen)
    BY <1>3 DEF Finish, RecordsInv
  <2>2. Database(db)'
    BY <1>3, <2>1, CommitInv DEF Finish
  <2> QED BY <1>3, <2>2 DEF Finish, RecordsInv
<1>4. ASSUME update_work_project_metadata PROVE RecordsInv'
  <2>1. PICK idents \in SUBSET Idents : db' = upsert_project_assets(idents, db) /\ Fits(db')
    BY <1>4 DEF update_work_project_metadata
  <2>2. Shaped(db') /\ Constraints(db')
    BY <2>1, MetadataKeeps DEF RecordsInv
  <2> QED BY <1>4, <2>1, <2>2 DEF update_work_project_metadata, RecordsInv, Database
<1>5. CASE UNCHANGED recordVars
  BY <1>5 DEF recordVars, RecordsInv
<1> QED BY <1>1, <1>2, <1>3, <1>4, <1>5 DEF RecordsNext

(* The rows fit the schema, and so do the ids.                              *)
LEMMA RecordsTyped == RecordsInv => RecordsTypeOK
<1> SUFFICES ASSUME RecordsInv PROVE RecordsTypeOK
  OBVIOUS
<1>1. Table(db.assets, AssetIds, [ident : Idents, scope : BOOLEAN])
  BY DEF RecordsInv, Database, Shaped, Fits, Table, AssetRecords, AssetIds
<1>2. Table(db.edges, 1..MaxEdges, [source : AssetIds, target : AssetIds])
  BY DEF RecordsInv, Database, Shaped, Fits, Table, EdgeRecords
<1>3. Table(db.steps, 1..MaxSteps, StepRows)
  BY DEF RecordsInv, Database, Shaped, Fits, Table
<1>4. Table(db.findings, 1..MaxFindings, FindingRecords)
  BY DEF RecordsInv, Database, Shaped, Fits, Table
<1>5. db.paths \subseteq {1} /\ (call = None \/ call.c \in RecordCalls)
  BY DEF RecordsInv, Database, Fits
<1> QED BY <1>1, <1>2, <1>3, <1>4, <1>5 DEF RecordsTypeOK, FindingRecords

(* What a call rests on is a row of its table.                              *)
LEMMA ReadingsFit ==
  ASSUME RecordsInv, NEW c \in RecordCalls, NEW seen \in Readings(c)
  PROVE  SeenFits(c, seen) /\ Database(db)
<1>1. SeenFits(c, Read(c, db))
  BY ReadFits DEF RecordsInv, Database
<1> QED BY <1>1 DEF Readings, RecordsInv

-----------------------------------------------------------------------------
(* The scope. *)

ScopeKept(d, e) ==
  \A a \in DOMAIN d.assets : a \in DOMAIN e.assets /\ e.assets[a].ident = d.assets[a].ident

(* An update that leaves the identity it read leaves the one in the table.  *)
LEMMA SameIdent ==
  ASSUME NEW d, Shaped(d), NEW c, c.ident \in Idents, NEW seen, seen.row \in AssetRecords,
         seen.row.scope \/ seen.row.ident = c.ident
  PROVE  ScopeKept(d, update_work_project_asset(c, d, seen))
<1> DEFINE entry == [seen.row EXCEPT !.ident = c.ident]
           t == Flush(d.assets, seen.id, seen.row, entry, {})
           e == [d EXCEPT !.assets = t]
<1>1. CASE seen.row = None \/ ~seen.ok \/ (seen.row.scope /\ seen.row.ident # c.ident)
           \/ seen.id \notin DOMAIN d.assets
  BY <1>1 DEF update_work_project_asset, Update, ScopeKept
<1>2. CASE ~(seen.row = None \/ ~seen.ok \/ (seen.row.scope /\ seen.row.ident # c.ident))
           /\ seen.id \in DOMAIN d.assets
  <2>1. update_work_project_asset(c, d, seen) = Commit(d, e)
    BY <1>2 DEF update_work_project_asset, Update
  <2>2. entry \in AssetRecords /\ entry.ident = seen.row.ident
    BY <1>2 DEF AssetRecords
  <2>3. d.assets \in [DOMAIN d.assets -> AssetRecords]
    BY DEF Shaped
  <2> HIDE DEF entry
  <2>4. /\ DOMAIN t = DOMAIN d.assets
        /\ \A i \in DOMAIN d.assets \ {seen.id} : t[i] = d.assets[i]
        /\ t[seen.id].ident = d.assets[seen.id].ident
    <3>1. Renamed(d.assets, seen.id, seen.row, entry, t)
      BY <1>2, <2>2, <2>3, FlushAsset
    <3> QED BY <2>2, <3>1 DEF Renamed
  <2> HIDE DEF t
  <2>5. e.assets = t
    BY DEF Shaped
  <2>6. ScopeKept(d, e)
    BY <2>4, <2>5 DEF ScopeKept
  <2> HIDE DEF e
  <2> QED BY <2>1, <2>6 DEF Commit, ScopeKept
<1> QED BY <1>1, <1>2

(* The asset found by its identity has that identity.                       *)
LEMMA FoundByIdentity ==
  ASSUME NEW d, Database(d), NEW ident, asset_by_identity(d, ident) # 0
  PROVE  /\ asset_by_identity(d, ident) \in DOMAIN d.assets
         /\ d.assets[asset_by_identity(d, ident)].ident = ident
<1> DEFINE hits == {id \in DOMAIN d.assets : d.assets[id].ident = ident}
<1>1. asset_by_identity(d, ident) = IF hits = {} THEN 0 ELSE Min(hits)
  BY DEF asset_by_identity, First
<1>2. hits # {}
  BY <1>1
<1>3. hits \in SUBSET Nat
  BY RecordsAssumption DEF Database, Fits
<1>4. \E i \in hits : \A j \in hits : i <= j
  BY <1>2, <1>3, FirstExists
<1>5. Min(hits) \in hits
  BY <1>4 DEF Min
<1> QED BY <1>1, <1>2, <1>5

(* A call that did not read an asset outside the scope leaves the scope's   *)
(* identities alone.                                                        *)
LEMMA ScopeStays ==
  ASSUME RecordsInv, NEW c \in AssetCalls, NEW seen \in Readings(c),
         seen.row = None \/ seen.row.scope
  PROVE  \A a \in DOMAIN db.assets : db.assets[a].scope =>
           /\ a \in DOMAIN Write(c, db, seen).assets
           /\ Write(c, db, seen).assets[a].ident = db.assets[a].ident
<1>1. c \in RecordCalls /\ c.op \in {"upsert_asset", "update_asset", "delete_asset"}
  BY CallsFit DEF RecordCalls
<1>2. SeenFits(c, seen) /\ Database(db)
  BY <1>1, ReadingsFit
<1>3. seen.row = None \/ (seen.row \in AssetRecords /\ seen.row.scope)
  BY <1>1, <1>2 DEF SeenFits, RowsOf
<1>4. c.op \in {"upsert_asset", "update_asset"} => c.ident \in Idents
  BY <1>1, CallsFit
<1>5. c.op \in {"upsert_asset", "update_asset"} =>
        ScopeKept(db, update_work_project_asset(c, db, seen))
  <2>1. CASE seen.row = None
    BY <2>1 DEF update_work_project_asset, ScopeKept
  <2>2. CASE seen.row # None
    BY <1>2, <1>3, <1>4, <2>2, SameIdent DEF Database
  <2> QED BY <2>1, <2>2
<1>6. CASE c.op = "update_asset"
  <2>1. Write(c, db, seen) = update_work_project_asset(c, db, seen)
    BY <1>6 DEF Write
  <2> QED BY <1>5, <1>6, <2>1 DEF ScopeKept
<1>7. CASE c.op = "delete_asset"
  <2>1. Write(c, db, seen) = db
    BY <1>3, <1>7 DEF Write, delete_work_project_asset
  <2> QED BY <2>1
<1>8. CASE c.op = "upsert_asset"
  <2> DEFINE winner == asset_by_identity(db, c.ident)
             again == Seen(winner, Get(db.assets, winner), TRUE)
  <2>1. Write(c, db, seen) = upsert_work_project_asset(c, db, seen)
    BY <1>8 DEF Write
  <2>2. upsert_work_project_asset(c, db, seen)
          = IF seen.id # 0 \/ winner # 0
            THEN update_work_project_asset(c, db, IF seen.id # 0 THEN seen ELSE again)
            ELSE create_work_project_asset(c.ident, db)
    BY DEF upsert_work_project_asset
  <2>3. winner # 0 => again.row \in AssetRecords /\ again.row.ident = c.ident
    <3> SUFFICES ASSUME winner # 0 PROVE again.row \in AssetRecords /\ again.row.ident = c.ident
      OBVIOUS
    <3>1. winner \in DOMAIN db.assets /\ db.assets[winner].ident = c.ident
      BY <1>2, FoundByIdentity
    <3> HIDE DEF winner
    <3>2. again.row = db.assets[winner]
      BY <3>1 DEF Seen, Get
    <3> QED BY <1>2, <3>1, <3>2 DEF Database, Shaped
  <2> HIDE DEF winner, again
  <2>4. CASE seen.id # 0
    BY <1>5, <1>8, <2>1, <2>2, <2>4 DEF ScopeKept
  <2>5. CASE seen.id = 0 /\ winner # 0
    <3>1. ScopeKept(db, update_work_project_asset(c, db, again))
      BY <1>2, <1>4, <1>8, <2>3, <2>5, SameIdent DEF Database
    <3> QED BY <2>1, <2>2, <2>5, <3>1 DEF ScopeKept
  <2>6. CASE seen.id = 0 /\ winner = 0
    <3>1. \A a \in DOMAIN db.assets : /\ a \in DOMAIN create_work_project_asset(c.ident, db).assets
                                     /\ create_work_project_asset(c.ident, db).assets[a]
                                            = db.assets[a]
      BY <1>2, <1>4, <1>8, AssetCreateKeeps
    <3> QED BY <2>1, <2>2, <2>6, <3>1
  <2> QED BY <2>4, <2>5, <2>6
<1> QED BY <1>1, <1>6, <1>7, <1>8

(* The scope is the metadata's in every state the invariant holds of.       *)
LEMMA ScopeHolds == RecordsInv => ScopeIsManaged
<1> SUFFICES ASSUME RecordsInv, NEW a \in {i \in DOMAIN db.assets : db.assets[i].scope},
                    NEW c \in AssetCalls, NEW seen \in Readings(c)
             PROVE  LET after == Write(c, db, seen).assets
                    IN \/ a \in DOMAIN after /\ after[a].ident = db.assets[a].ident
                       \/ seen.row # None /\ ~seen.row.scope
  BY DEF ScopeIsManaged
<1>1. CASE seen.row = None \/ seen.row.scope
  BY <1>1, ScopeStays
<1>2. CASE ~(seen.row = None \/ seen.row.scope)
  BY <1>2
<1> QED BY <1>1, <1>2

-----------------------------------------------------------------------------
(* The verdicts. *)

StampsWhatItValidates(d, e) ==
  \A f \in DOMAIN e.findings :
    /\ e.findings[f].status = "validated"
    /\ f \in DOMAIN d.findings => d.findings[f].status # "validated"
    => e.findings[f].stamped

(* Whoever validates a finding stamps it.                                   *)
LEMMA StampsHold == RecordsInv => ValidatedIsStamped
<1> SUFFICES ASSUME RecordsInv, NEW c \in FindingCalls \cup Imports, NEW seen \in Readings(c)
             PROVE  StampsWhatItValidates(db, Write(c, db, seen))
  BY DEF ValidatedIsStamped, StampsWhatItValidates
<1>1. c \in RecordCalls
  BY DEF RecordCalls
<1>2. SeenFits(c, seen) /\ Database(db)
  BY <1>1, ReadingsFit
<1>3. c.op \in {"create_finding", "update_finding", "delete_finding", "import"}
  BY <1>1, CallsFit
<1>4. seen.row = None \/ seen.row \in FindingRecords
  BY <1>2, <1>3 DEF SeenFits, RowsOf
<1>5. c.op \in {"create_finding", "update_finding", "import"} => c.row \in FindingRows
  BY <1>1, CallsFit
<1>6. CASE c.op = "create_finding"
  <2>1. Write(c, db, seen) = create_work_project_finding(c, db, seen)
    BY <1>6 DEF Write
  <2> DEFINE e == create_work_project_finding(c, db, seen)
  <2>2. /\ \A f \in DOMAIN db.findings : f \in DOMAIN e.findings /\ e.findings[f] = db.findings[f]
        /\ \A f \in DOMAIN e.findings \ DOMAIN db.findings :
             e.findings[f].status = "validated" => e.findings[f].stamped
    BY <1>2, <1>5, <1>6, FindingCreateKeeps
  <2> HIDE DEF e
  <2> QED BY <2>1, <2>2 DEF StampsWhatItValidates, e
<1>7. CASE c.op = "update_finding"
  <2>1. Write(c, db, seen) = update_work_project_finding(c, db, seen)
    BY <1>7 DEF Write
  <2> DEFINE e == update_work_project_finding(c, db, seen)
  <2>2. /\ DOMAIN e.findings = DOMAIN db.findings
        /\ \A f \in DOMAIN db.findings :
             e.findings[f].status = "validated" /\ db.findings[f].status # "validated"
                 => e.findings[f].stamped
    BY <1>2, <1>4, <1>5, <1>7, FindingUpdateKeeps DEF Database
  <2> HIDE DEF e
  <2> QED BY <2>1, <2>2 DEF StampsWhatItValidates, e
<1>8. CASE c.op = "delete_finding"
  <2>1. Write(c, db, seen) = delete_work_project_finding(c, db, seen)
    BY <1>8 DEF Write
  <2> DEFINE e == delete_work_project_finding(c, db, seen)
  <2>2. \A f \in DOMAIN e.findings : f \in DOMAIN db.findings /\ e.findings[f] = db.findings[f]
    BY <1>2, FindingDeleteKeeps DEF Database
  <2> HIDE DEF e
  <2> QED BY <2>1, <2>2 DEF StampsWhatItValidates, e
<1>9. CASE c.op = "import"
  <2>1. Write(c, db, seen) = upsert_cve_work_project_finding(c, db, seen) /\ c \in Imports
    BY <1>1, <1>9, CallsFit DEF Write
  <2> QED BY <1>2, <1>4, <2>1, ImportKeeps DEF StampsWhatItValidates
<1> QED BY <1>3, <1>6, <1>7, <1>8, <1>9

(* An import leaves a verdict it had read.                                  *)
LEMMA VerdictsHold == RecordsInv => VerdictKept
<1> SUFFICES ASSUME RecordsInv, NEW f \in DOMAIN db.findings, NEW c \in Imports,
        NEW seen \in Readings(c)
             PROVE  LET after == Write(c, db, seen).findings
                    IN \/ db.findings[f].status \in {"suspected", after[f].status}
                       \/ seen.row = None \/ seen.row.status # db.findings[f].status
  BY DEF VerdictKept
<1>1. c \in RecordCalls /\ c.op = "import"
  BY CallsFit DEF RecordCalls
<1>2. SeenFits(c, seen) /\ Database(db)
  BY <1>1, ReadingsFit
<1>3. seen.row = None \/ seen.row \in FindingRecords
  BY <1>1, <1>2 DEF SeenFits, RowsOf
<1>4. Write(c, db, seen) = upsert_cve_work_project_finding(c, db, seen)
  BY <1>1 DEF Write
<1> QED BY <1>2, <1>3, <1>4, ImportKeeps

-----------------------------------------------------------------------------
(* Whatever calls overtake each other, for any number of identities and     *)
(* records: edges have both their assets, steps their path and edge,        *)
(* findings the asset and edge they name (the purges of graph.py and        *)
(* assets.py), identities, edges and places in a path are unique, and no    *)
(* record tool renames or deletes an asset it read as scope.                *)
THEOREM RecordsSound == RecordsSpec => []RecordsAreSound
<1>1. RecordsInv => RecordsAreSound
  BY RecordsTyped, ScopeHolds DEF RecordsAreSound, RefsResolve, RecordsInv, Database
<1> QED BY <1>1, RecordsStart, RecordsStep, PTL DEF RecordsSpec

(* Whatever calls overtake each other: a finding that becomes validated is  *)
(* stamped (update_work_project_finding), and a CVE import leaves every     *)
(* verdict alone that was reached before it looked (upsert_cve_work_project *)
(* _finding).                                                               *)
THEOREM VerdictSound == RecordsSpec => []VerdictIsSound
<1>1. RecordsInv => VerdictIsSound
  BY StampsHold, VerdictsHold DEF VerdictIsSound
<1> QED BY <1>1, RecordsStart, RecordsStep, PTL DEF RecordsSpec
=============================================================================
