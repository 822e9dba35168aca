------------------------- MODULE RuntimePermissions -------------------------
(***************************************************************************)
(* The runtime permission gate (service/runtime_permissions.py): a tool    *)
(* call that needs the user's decision waits for it; the user decides,     *)
(* switches the permission mode, or saves the instance configuration,      *)
(* which carries a permission mode too (service/system_config/config.py).  *)
(*                                                                         *)
(* The sections under _lock never await, so each is one step of the event  *)
(* loop.  A waiter wakes in a later step than the one that signals it: in  *)
(* between, its timer may fire, its turn may be canceled, and it may be    *)
(* decided again.  Rules are cleared by a thread of the pool (the handler  *)
(* is not async), so between reading and writing the rules file in         *)
(* _add_rule; the event loop itself stands still there.                    *)
(***************************************************************************)
EXTENDS Naturals

CONSTANTS
    Requests,       \* calls of require_permission
    Keys,           \* pairs of an action type and a target
    KeyOf,          \* [Requests -> Keys]
    NoOne,
    MaxSwitches,    \* bound on mode switches and saves together
    MaxSaves        \* bound on the saves and reloads of the config among them

ASSUME KeyOfAssumption == KeyOf \in [Requests -> Keys]
ASSUME BoundsAssumption == {MaxSwitches, MaxSaves} \subseteq Nat
ASSUME NoOneAssumption == NoOne \notin Requests

VARIABLES
    mode,           \* get_config().permissions.mode
    fileMode,       \* the mode in config.json
    rules,          \* the keys in always-allow.json
    adding,         \* the _add_rule in progress: whose, and the rules it read
    pc,             \* [Requests -> where the call stands]
    pending,        \* the ids in _pending
    decision,       \* [Requests -> the decision of its _PendingPermission]
    signaled,       \* the requests whose event is set
    save,           \* the instance configuration being saved or reloaded
    used,           \* how much of each bound is used up
    allowed,        \* history: the requests the user ever answered with an allow
    everFull,       \* history: requests during whose life full access was on
    everAlways      \* history: keys the user ever allowed for good

vars == <<mode, fileMode, rules, adding, pc, pending, decision, signaled,
          save, used, allowed, everFull, everAlways>>

config  == <<mode, fileMode, save>>
request == <<pc, pending, decision, signaled>>
history == <<allowed, everFull, everAlways>>

Modes     == {"normal", "full_access"}
Decisions == {"reject", "allow_once", "always_allow"}
Waiting   == {"waiting", "timed_out", "canceled"}
Ended     == {"granted", "denied", "gone"}

NotAdding == [request |-> NoOne, rules |-> {}]
NotSaving == [stage |-> "none", next |-> "normal", current |-> "normal",
              previous |-> "normal", rollback |-> FALSE]

TypeOK ==
    /\ mode \in Modes /\ fileMode \in Modes
    /\ rules \subseteq Keys
    /\ adding \in [request : Requests \cup {NoOne}, rules : SUBSET Keys]
    /\ pc \in [Requests -> {"idle"} \cup Waiting \cup Ended]
    /\ pending \subseteq Requests
    /\ decision \in [Requests -> Decisions \cup {"none"}]
    /\ signaled \subseteq Requests
    /\ save \in [stage : {"none", "written", "applied"}, next : Modes,
                 current : Modes, previous : Modes, rollback : BOOLEAN]
    /\ used \in [switches : 0..MaxSwitches, saves : 0..MaxSaves]
    /\ allowed \subseteq Requests /\ everFull \subseteq Requests /\ everAlways \subseteq Keys

Init ==
    /\ mode \in Modes /\ fileMode = mode
    /\ rules = {} /\ adding = NotAdding
    /\ pc = [r \in Requests |-> "idle"]
    /\ pending = {} /\ signaled = {}
    /\ decision = [r \in Requests |-> "none"]
    /\ save = NotSaving
    /\ used = [switches |-> 0, saves |-> 0]
    /\ allowed = {} /\ everFull = {} /\ everAlways = {}

(* The event loop is not inside _add_rule.                                  *)
LoopFree == adding = NotAdding

Goto(r, l) == pc' = [pc EXCEPT ![r] = l]

(* The finally clause takes the entry out of _pending; nobody sees it again. *)
Forget(r) ==
    /\ pending' = pending \ {r}
    /\ decision' = [decision EXCEPT ![r] = "none"]
    /\ signaled' = signaled \ {r}

(* Full access takes effect for every call that has begun and not ended.    *)
Witness(m, S) == everFull' = IF m = "full_access" THEN everFull \cup S ELSE everFull

Alive == {r \in Requests : pc[r] \in Waiting}

-----------------------------------------------------------------------------

(* The checks and the registration happen in one step, then the call waits. *)
require_permission(r) ==
    /\ LoopFree /\ pc[r] = "idle"
    /\ \/ /\ mode = "full_access" \/ KeyOf[r] \in rules
          /\ Goto(r, "granted")
          /\ UNCHANGED pending
       \/ /\ mode # "full_access" /\ KeyOf[r] \notin rules
          /\ Goto(r, "waiting")
          /\ pending' = pending \cup {r}
    /\ Witness(mode, {r})
    /\ UNCHANGED <<config, rules, adding, decision, signaled, used, allowed, everAlways>>

(* Mutant: no timeout is given to wait_for.                                 *)
timer_fires_never(r) ==
    /\ FALSE
    /\ UNCHANGED vars

(* The timer of wait_for cancels the wait, also one that has been signaled  *)
(* but has not run yet.                                                     *)
timer_fires(r) ==
    /\ LoopFree /\ pc[r] = "waiting"
    /\ Goto(r, "timed_out")
    /\ UNCHANGED <<config, rules, adding, pending, decision, signaled, used, history>>

(* The turn the call belongs to is canceled.                                *)
turn_canceled(r) ==
    /\ LoopFree /\ pc[r] \in {"waiting", "timed_out"}
    /\ Goto(r, "canceled")
    /\ UNCHANGED <<config, rules, adding, pending, decision, signaled, used, history>>

(* Mutant: the entry of a canceled call stays in _pending.                  *)
wait_canceled_leaks(r) ==
    /\ LoopFree /\ pc[r] = "canceled"
    /\ Goto(r, "gone")
    /\ UNCHANGED <<config, rules, adding, pending, decision, signaled, used, history>>

wait_canceled(r) ==
    /\ LoopFree /\ pc[r] = "canceled"
    /\ Forget(r)
    /\ Goto(r, "gone")
    /\ UNCHANGED <<config, rules, adding, used, history>>

wait_expires(r) ==
    /\ LoopFree /\ pc[r] = "timed_out"
    /\ Forget(r)
    /\ Goto(r, "denied")
    /\ UNCHANGED <<config, rules, adding, used, history>>

(* The signaled waiter runs: full access again comes before the decision.   *)
wait_returns(r) ==
    /\ LoopFree /\ pc[r] = "waiting" /\ r \in signaled
    /\ Forget(r)
    /\ Goto(r, IF mode = "full_access" \/ decision[r] \in {"allow_once", "always_allow"}
               THEN "granted" ELSE "denied")
    /\ UNCHANGED <<config, rules, adding, used, history>>

-----------------------------------------------------------------------------

(* decide looks the request up, and signals it at once unless it has a     *)
(* rule to add first; whether the request was decided before, or its wait  *)
(* has been cut, is not looked at.                                         *)
decide(r, d) ==
    /\ LoopFree /\ r \in pending
    /\ allowed' = IF d = "reject" THEN allowed ELSE allowed \cup {r}
    /\ \/ /\ d = "always_allow"
          /\ adding' = [request |-> r, rules |-> rules]
          /\ everAlways' = everAlways \cup {KeyOf[r]}
          /\ UNCHANGED <<decision, signaled>>
       \/ /\ d # "always_allow"
          /\ decision' = [decision EXCEPT ![r] = d]
          /\ signaled' = signaled \cup {r}
          /\ UNCHANGED <<adding, everAlways>>
    /\ UNCHANGED <<config, rules, pc, pending, used, everFull>>

(* The rest of _add_rule and of decide.                                     *)
add_rule ==
    LET r == adding.request IN
    /\ r # NoOne
    /\ rules' = IF KeyOf[r] \in adding.rules THEN rules ELSE adding.rules \cup {KeyOf[r]}
    /\ decision' = [decision EXCEPT ![r] = "always_allow"]
    /\ signaled' = signaled \cup {r}
    /\ adding' = NotAdding
    /\ UNCHANGED <<config, pc, pending, used, history>>

(* Runs in a thread, at any moment.                                         *)
clear_rules ==
    /\ rules # {}
    /\ rules' = {}
    /\ UNCHANGED <<config, adding, request, used, history>>

(* Mutants: a mode that PermissionMode does not know; the waiters are not  *)
(* released; every switch releases them.                                   *)
update_mode_unvalidated(m) ==
    /\ LoopFree /\ used.switches + used.saves < MaxSwitches
    /\ used' = [used EXCEPT !.switches = @ + 1]
    /\ fileMode' = "full" /\ mode' = "full"
    /\ UNCHANGED <<save, rules, adding, request, history>>

update_mode_silent(m) ==
    /\ LoopFree /\ used.switches + used.saves < MaxSwitches
    /\ used' = [used EXCEPT !.switches = @ + 1]
    /\ fileMode' = m /\ mode' = m
    /\ Witness(m, Alive)
    /\ UNCHANGED <<save, rules, adding, request, allowed, everAlways>>

update_mode_releases(m) ==
    /\ LoopFree /\ used.switches + used.saves < MaxSwitches
    /\ used' = [used EXCEPT !.switches = @ + 1]
    /\ fileMode' = m /\ mode' = m
    /\ decision' = [r \in Requests |-> IF r \in pending THEN "allow_once" ELSE decision[r]]
    /\ signaled' = signaled \cup pending
    /\ Witness(m, Alive)
    /\ UNCHANGED <<save, rules, adding, pc, pending, allowed, everAlways>>

(* Switching to full access releases everyone who waits.                    *)
update_mode(m) ==
    /\ LoopFree /\ used.switches + used.saves < MaxSwitches
    /\ used' = [used EXCEPT !.switches = @ + 1]
    /\ fileMode' = m /\ mode' = m
    /\ LET freed == IF m = "full_access" THEN pending ELSE {}
       IN  /\ decision' = [r \in Requests |-> IF r \in freed THEN "allow_once" ELSE decision[r]]
           /\ signaled' = signaled \cup freed
    /\ Witness(m, Alive)
    /\ UNCHANGED <<save, rules, adding, pc, pending, allowed, everAlways>>

-----------------------------------------------------------------------------
(* The instance configuration, of which only the mode is followed.  Saving *)
(* writes the file, then applies it to memory; between the two, and until  *)
(* LightRAG and the agents are rebuilt, other requests run.  Reading it    *)
(* re-applies the file.                                                    *)

update_instance_config(m) ==
    /\ LoopFree /\ save.stage = "none" /\ used.saves < MaxSaves /\ used.switches + used.saves < MaxSwitches
    /\ used' = [used EXCEPT !.saves = @ + 1]
    /\ fileMode' = m
    /\ save' = [stage |-> "written", next |-> m, current |-> fileMode,
                previous |-> mode, rollback |-> TRUE]
    /\ UNCHANGED <<mode, rules, adding, request, history>>

get_instance_config ==
    /\ LoopFree /\ save.stage = "none" /\ used.saves < MaxSaves /\ used.switches + used.saves < MaxSwitches
    /\ used' = [used EXCEPT !.saves = @ + 1]
    /\ save' = [stage |-> "written", next |-> fileMode, current |-> fileMode,
                previous |-> mode, rollback |-> FALSE]
    /\ UNCHANGED <<mode, fileMode, rules, adding, request, history>>

apply_instance_config ==
    /\ LoopFree /\ save.stage = "written"
    /\ mode' = save.next
    /\ save' = [save EXCEPT !.stage = "applied"]
    /\ Witness(save.next, Alive)
    /\ UNCHANGED <<fileMode, rules, adding, request, used, allowed, everAlways>>

instance_config_done ==
    /\ LoopFree /\ save.stage = "applied"
    /\ save' = NotSaving
    /\ UNCHANGED <<mode, fileMode, rules, adding, request, used, history>>

(* The new configuration is refused, or a rebuild fails: memory and file   *)
(* go back to what they were when the save began.                          *)
restore_instance_config ==
    /\ LoopFree /\ save.stage \in {"written", "applied"}
    /\ mode' = IF save.stage = "applied" THEN save.previous ELSE mode
    /\ fileMode' = IF save.rollback THEN save.current ELSE fileMode
    /\ save' = NotSaving
    /\ Witness(mode', Alive)
    /\ UNCHANGED <<rules, adding, request, used, allowed, everAlways>>

-----------------------------------------------------------------------------

Waiter(r) == wait_returns(r) \/ wait_expires(r) \/ wait_canceled(r)

Saver == apply_instance_config \/ instance_config_done \/ restore_instance_config

User ==
    \/ \E r \in Requests, d \in Decisions : decide(r, d)
    \/ clear_rules
    \/ \E m \in Modes : update_mode(m) \/ update_instance_config(m)
    \/ get_instance_config

Next ==
    \/ \E r \in Requests : require_permission(r) \/ timer_fires(r) \/ turn_canceled(r)
    \/ \E r \in Requests : Waiter(r)
    \/ add_rule
    \/ Saver
    \/ User

(* Timers fire, and what the event loop has scheduled runs.                 *)
Fairness ==
    /\ \A r \in Requests : SF_vars(timer_fires(r)) /\ SF_vars(Waiter(r))
    /\ WF_vars(add_rule)
    /\ WF_vars(Saver)

Spec == Init /\ [][Next]_vars

FairSpec == Spec /\ Fairness

-----------------------------------------------------------------------------

(* Nothing runs that nobody allowed: a call that was let through was       *)
(* allowed by the user's own answer to it, by an always-allow the user     *)
(* gave to the same action and target, or by full access having been on    *)
(* while the call was being decided; a rejection, an expiry or a switch    *)
(* back to normal never lets it through (require_permission against        *)
(* decide, update_mode and _restore_instance_config).                      *)
GrantIsGrounded ==
    \A r \in Requests : pc[r] = "granted" =>
        \/ r \in allowed
        \/ KeyOf[r] \in everAlways
        \/ r \in everFull

(* A request is listed and can be decided exactly as long as its call      *)
(* waits, whichever of the decision, the timer and the cancellation of the *)
(* turn ends it (the finally clause of require_permission).                *)
PendingIsWaiting == pending = Alive

(* Full access prompts nobody: while it is on, every call that still waits *)
(* has been released (README: full access "不弹窗"; update_mode).          *)
FullAccessNeverWaits ==
    mode = "full_access" => \A r \in Requests : pc[r] = "waiting" => r \in signaled

(* Full access that a switch of the mode turned on waits for nobody: every *)
(* call that still waits has been released (update_mode).  Saving the      *)
(* instance configuration turns it on too and releases nobody, so a run    *)
(* with a save behind it is excepted.                                      *)
SwitchedNeverWaits == used.saves = 0 => FullAccessNeverWaits

(* No call waits for the user for ever: it ends, answered or not.           *)
EveryRequestEnds == \A r \in Requests : []<>(pc[r] \notin Waiting)
=============================================================================
