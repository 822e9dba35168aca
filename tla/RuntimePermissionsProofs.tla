---------------------- MODULE RuntimePermissionsProofs ----------------------
(***************************************************************************)
(* Whatever the number of calls, keys, mode switches and configuration     *)
(* saves, the permission gate lets nothing through that nobody allowed,    *)
(* and lists exactly the calls that wait.                                  *)
(*                                                                         *)
(* GrantIsGrounded speaks of calls that have ended; it is inductive only   *)
(* together with what is known of calls that still wait, of the rules file *)
(* and of a rule being added, each of which may become a grant later.      *)
(***************************************************************************)
EXTENDS RuntimePermissions, TLAPS

(* What is needed of the types: a decision and a place for every request.   *)
Shape ==
    /\ pc \in [Requests -> {"idle"} \cup Waiting \cup Ended]
    /\ decision \in [Requests -> Decisions \cup {"none"}]
    /\ adding \in [request : Requests \cup {NoOne}, rules : SUBSET Keys]
    /\ rules \subseteq Keys /\ pending \subseteq Requests

(* An allowing decision comes from the user or from a switch to full access. *)
DecisionGrounded ==
    \A r \in Alive : decision[r] \in {"allow_once", "always_allow"} =>
        r \in allowed \cup everFull

(* Only a request that waits has a decision.                                *)
UndecidedElsewhere == \A r \in Requests \ pending : decision[r] = "none"

(* While full access is on, every waiting call has seen it.                 *)
FullAccessSeen == mode = "full_access" => Alive \subseteq everFull

(* Every rule on file, read or about to be written was given by the user.   *)
RulesGiven ==
    /\ rules \subseteq everAlways
    /\ adding.rules \subseteq everAlways
    /\ adding.request # NoOne =>
          adding.request \in allowed \cap pending /\ KeyOf[adding.request] \in everAlways

Inv ==
    /\ Shape
    /\ GrantIsGrounded
    /\ PendingIsWaiting
    /\ DecisionGrounded
    /\ UndecidedElsewhere
    /\ FullAccessSeen
    /\ RulesGiven

(* The invariant holds before the first call.                               *)
LEMMA InitInv == Init => Inv
BY KeyOfAssumption, NoOneAssumption
   DEF Init, Inv, Shape, GrantIsGrounded, PendingIsWaiting, DecisionGrounded, UndecidedElsewhere,
       FullAccessSeen, RulesGiven, Alive, NotAdding, Waiting, Ended, Decisions, Modes

(* The steps of a waiting call, of the user and of a configuration save    *)
(* keep it.                                                                *)
LEMMA NextInv == Inv /\ [Next]_vars => Inv'
<1> SUFFICES ASSUME Inv, [Next]_vars PROVE Inv'
  OBVIOUS
<1> USE KeyOfAssumption, NoOneAssumption
    DEF Inv, Shape, GrantIsGrounded, PendingIsWaiting, DecisionGrounded, UndecidedElsewhere,
        FullAccessSeen, RulesGiven, Alive, NotAdding, Waiting, Ended, Decisions, Modes, Goto, LoopFree,
        config, request, history, Witness
<1>1. ASSUME NEW r \in Requests, require_permission(r) PROVE Inv'
  <2>1. CASE mode = "full_access" \/ KeyOf[r] \in rules
    <3>1. pc' = [pc EXCEPT ![r] = "granted"] /\ pending' = pending
      BY <1>1, <2>1 DEF require_permission
    <3>2. r \in everFull' \/ KeyOf[r] \in everAlways'
      BY <1>1, <2>1 DEF require_permission
    <3>3. Alive' = Alive
      BY <1>1, <3>1 DEF require_permission
    <3> QED
      BY <1>1, <3>1, <3>2, <3>3 DEF require_permission
  <2>2. CASE mode # "full_access" /\ KeyOf[r] \notin rules
    <3>1. pc' = [pc EXCEPT ![r] = "waiting"] /\ pending' = pending \cup {r}
      BY <1>1, <2>2 DEF require_permission
    <3>2. Alive' = Alive \cup {r}
      BY <1>1, <3>1 DEF require_permission
    <3> QED
      BY <1>1, <2>2, <3>1, <3>2 DEF require_permission
  <2> QED
    BY <2>1, <2>2
<1>2. ASSUME NEW r \in Requests, timer_fires(r) \/ turn_canceled(r) PROVE Inv'
  BY <1>2 DEF timer_fires, turn_canceled
<1>3. ASSUME NEW r \in Requests, wait_returns(r) PROVE Inv'
  BY <1>3 DEF wait_returns, Forget
<1>4. ASSUME NEW r \in Requests, wait_expires(r) \/ wait_canceled(r) PROVE Inv'
  BY <1>4 DEF wait_expires, wait_canceled, Forget
<1>5. ASSUME NEW r \in Requests, NEW d \in Decisions, decide(r, d) PROVE Inv'
  BY <1>5 DEF decide
<1>6. CASE add_rule
  BY <1>6 DEF add_rule
<1>7. CASE clear_rules
  BY <1>7 DEF clear_rules
<1>8. ASSUME NEW m \in Modes, update_mode(m) PROVE Inv'
  BY <1>8 DEF update_mode
<1>9. ASSUME NEW m \in Modes, update_instance_config(m) PROVE Inv'
  BY <1>9 DEF update_instance_config
<1>10. CASE get_instance_config \/ instance_config_done
  BY <1>10 DEF get_instance_config, instance_config_done
<1>11. CASE apply_instance_config
  BY <1>11 DEF apply_instance_config
<1>12. CASE restore_instance_config
  BY <1>12 DEF restore_instance_config
<1>13. CASE UNCHANGED vars
  BY <1>13 DEF vars
<1> QED
  BY <1>1, <1>2, <1>3, <1>4, <1>5, <1>6, <1>7, <1>8, <1>9, <1>10, <1>11, <1>12, <1>13
     DEF Next, Waiter, Saver, User

(* The invariant of the permission gate (require_permission against decide, *)
(* update_mode, clear_rules and the configuration saves).                   *)
THEOREM Invariance == Spec => []Inv
BY InitInv, NextInv, PTL DEF Spec

(* Nothing is let through that nobody allowed (require_permission).         *)
THEOREM GrantsAreGrounded == Spec => []GrantIsGrounded
BY Invariance, PTL DEF Inv

(* The calls in _pending are exactly those that wait (require_permission).  *)
THEOREM PendingCallsWait == Spec => []PendingIsWaiting
BY Invariance, PTL DEF Inv

-----------------------------------------------------------------------------
(* Types, and what only mode switches and saves concern.                    *)

(* Only a save that has begun is under way.                                 *)
SavesCounted == used.saves = 0 => save.stage = "none"

ModeInv ==
    /\ Inv
    /\ TypeOK
    /\ SavesCounted
    /\ SwitchedNeverWaits

(* A step keeps the types: every mode it writes is one PermissionMode       *)
(* knows, every decision one of the three.                                 *)
LEMMA TypeStep == TypeOK /\ PendingIsWaiting /\ [Next]_vars => TypeOK'
<1> SUFFICES ASSUME TypeOK, PendingIsWaiting, [Next]_vars PROVE TypeOK'
  OBVIOUS
<1> USE KeyOfAssumption, BoundsAssumption
    DEF TypeOK, NotAdding, NotSaving, Waiting, Ended, Decisions, Modes, Goto, LoopFree,
        config, request, history, Witness
<1>1. ASSUME NEW r \in Requests, require_permission(r) PROVE TypeOK'
  BY <1>1 DEF require_permission
<1>2. ASSUME NEW r \in Requests, timer_fires(r) \/ turn_canceled(r) PROVE TypeOK'
  BY <1>2 DEF timer_fires, turn_canceled
<1>3. ASSUME NEW r \in Requests, Waiter(r) PROVE TypeOK'
  BY <1>3 DEF Waiter, wait_returns, wait_expires, wait_canceled, Forget
<1>4. ASSUME NEW r \in Requests, NEW d \in Decisions, decide(r, d) PROVE TypeOK'
  BY <1>4 DEF decide
<1>5. CASE add_rule \/ clear_rules
  BY <1>5 DEF add_rule, clear_rules
<1>6. ASSUME NEW m \in Modes, update_mode(m) PROVE TypeOK'
  BY <1>6 DEF update_mode, Alive
<1>7. ASSUME NEW m \in Modes, update_instance_config(m) PROVE TypeOK'
  BY <1>7 DEF update_instance_config
<1>8. CASE get_instance_config
  BY <1>8 DEF get_instance_config
<1>9. CASE instance_config_done
  BY <1>9 DEF instance_config_done
<1>10. CASE apply_instance_config
  BY <1>10 DEF apply_instance_config, Alive
<1>11. CASE restore_instance_config
  BY <1>11 DEF restore_instance_config, Alive
<1>12. CASE UNCHANGED vars
  BY <1>12 DEF vars
<1> QED BY <1>1, <1>2, <1>3, <1>4, <1>5, <1>6, <1>7, <1>8, <1>9, <1>10, <1>11, <1>12 DEF Next, Saver, User

(* A switch of the mode releases everyone in _pending, which is everyone    *)
(* who waits; and nobody who asks while full access is on has to wait.     *)
LEMMA ModeStep == ModeInv /\ [Next]_vars => SavesCounted' /\ SwitchedNeverWaits'
<1> SUFFICES ASSUME ModeInv, [Next]_vars PROVE SavesCounted' /\ SwitchedNeverWaits'
  OBVIOUS
<1> USE KeyOfAssumption
    DEF ModeInv, Inv, TypeOK, SavesCounted, SwitchedNeverWaits, FullAccessNeverWaits, PendingIsWaiting,
        Alive, NotAdding, NotSaving, Waiting, Ended, Decisions, Modes, Goto, LoopFree, config, request, history
<1>1. ASSUME NEW r \in Requests, require_permission(r) PROVE SavesCounted' /\ SwitchedNeverWaits'
  BY <1>1 DEF require_permission
<1>2. ASSUME NEW r \in Requests, timer_fires(r) \/ turn_canceled(r) PROVE SavesCounted' /\ SwitchedNeverWaits'
  BY <1>2 DEF timer_fires, turn_canceled
<1>3. ASSUME NEW r \in Requests, Waiter(r) PROVE SavesCounted' /\ SwitchedNeverWaits'
  BY <1>3 DEF Waiter, wait_returns, wait_expires, wait_canceled, Forget
<1>4. ASSUME NEW r \in Requests, NEW d \in Decisions, decide(r, d) PROVE SavesCounted' /\ SwitchedNeverWaits'
  BY <1>4 DEF decide
<1>5. CASE add_rule \/ clear_rules
  BY <1>5 DEF add_rule, clear_rules
<1>6. ASSUME NEW m \in Modes, update_mode(m) PROVE SavesCounted' /\ SwitchedNeverWaits'
  BY <1>6 DEF update_mode
<1>7. ASSUME NEW m \in Modes, update_instance_config(m) PROVE SavesCounted' /\ SwitchedNeverWaits'
  BY <1>7 DEF update_instance_config
<1>8. CASE get_instance_config \/ instance_config_done
  BY <1>8 DEF get_instance_config, instance_config_done
<1>9. CASE apply_instance_config \/ restore_instance_config
  BY <1>9 DEF apply_instance_config, restore_instance_config
<1>10. CASE UNCHANGED vars
  BY <1>10 DEF vars
<1> QED BY <1>1, <1>2, <1>3, <1>4, <1>5, <1>6, <1>7, <1>8, <1>9, <1>10 DEF Next, Saver, User

(* Both hold together with the grants in every reachable state.             *)
LEMMA ModeInvHolds == Spec => []ModeInv
<1>1. Init => ModeInv
  BY InitInv, KeyOfAssumption, BoundsAssumption
     DEF Init, ModeInv, TypeOK, SavesCounted, SwitchedNeverWaits, FullAccessNeverWaits, NotAdding, NotSaving,
         Modes, Decisions, Waiting, Ended
<1>2. ModeInv /\ [Next]_vars => ModeInv'
  BY NextInv, TypeStep, ModeStep DEF ModeInv, Inv
<1> QED BY <1>1, <1>2, PTL DEF Spec

(* Every reachable state is well typed: requests, decisions, the rules on   *)
(* file and the save under way (runtime_permissions.py).                    *)
THEOREM CallsAreTyped == Spec => []TypeOK
BY ModeInvHolds, PTL DEF ModeInv

(* Full access that a switch of the mode turned on keeps nobody waiting, as *)
(* long as no save of the instance configuration has touched the mode       *)
(* (update_mode against require_permission, decide and the timers).         *)
THEOREM SwitchesRelease == Spec => []SwitchedNeverWaits
BY ModeInvHolds, PTL DEF ModeInv
=============================================================================
