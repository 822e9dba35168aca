-------------------------- MODULE ServicesProofs --------------------------
(***************************************************************************)
(* What is promised by the services a request or a tool call uses, for any *)
(* number of calls, workspaces, files, runs, hosts and versions: a section *)
(* for each part, with its inductive invariant, and one for the parts side *)
(* by side.                                                                *)
(***************************************************************************)
EXTENDS MCServices, WellFoundedInduction, TLAPS

-----------------------------------------------------------------------------
(* Approvals.  With any number of overlapping calls on any number of       *)
(* actions, nothing is carried out that was not approved since its record  *)
(* was created: a file says "granted" of a record only after a token was   *)
(* handed out for that very record, a call that will consume has read such *)
(* a file, and tokens are never taken back.                                *)

(* A record on file that is granted has been approved.                      *)
GrantedOnFile ==
    \A a \in Actions : file[a].status = "granted" => Id(a, file[a].gen) \in tokens

(* A call that is about to mark a record consumed found it granted.         *)
ConsumerSawGrant ==
    \A c \in Calls : job[c].status = "consumed" => Id(job[c].action, job[c].gen) \in tokens

(* Files and jobs are functions; a job names an action.                     *)
ApprovalShape ==
    /\ file \in [Actions -> [status : Statuses \cup {"absent", "torn"}, gen : Nat]]
    /\ gens \in [Actions -> Nat]
    /\ pc \in [Calls -> {"idle", "truncate", "fill"}]
    /\ job \in [Calls -> [action : Actions, status : Statuses, gen : Nat]]

ApprovalInv ==
    /\ ApprovalShape
    /\ GrantedOnFile
    /\ ConsumerSawGrant
    /\ CarriedWasApproved

(* No record, no token and no call in progress at the start.                *)
LEMMA ApprovalInit == Init => ApprovalInv
<1> SUFFICES ASSUME Init PROVE ApprovalInv
  OBVIOUS
<1>1. NoJob \in [action : Actions, status : Statuses, gen : Nat] /\ NoJob.status = "pending"
  BY ActionsAssumption DEF NoJob, Statuses
<1> QED
  BY <1>1 DEF Init, ApprovalInv, ApprovalShape, GrantedOnFile, ConsumerSawGrant, CarriedWasApproved,
              Absent, Statuses

(* Starting a call that found what it needs keeps the invariant.            *)
LEMMA CallKeeps ==
    ASSUME ApprovalInv, NEW c \in Calls, NEW a \in Actions, NEW s \in Statuses, NEW g \in Nat,
           Call(c, a, s, g), gens' \in [Actions -> Nat],
           s = "consumed" => Id(a, g) \in tokens
    PROVE  ApprovalInv'
BY DEF ApprovalInv, ApprovalShape, GrantedOnFile, ConsumerSawGrant, CarriedWasApproved, Call, Id

(* Every call keeps the invariant, whichever calls it overlaps with.        *)
LEMMA ApprovalStep == ApprovalInv /\ [Next]_vars => ApprovalInv'
<1> SUFFICES ASSUME ApprovalInv, [Next]_vars PROVE ApprovalInv'
  OBVIOUS
<1>r. ASSUME NEW a \in Actions PROVE file[a].gen \in Nat
  BY DEF ApprovalInv, ApprovalShape
<1>1. ASSUME NEW c \in Calls, NEW a \in Actions, create(c, a) PROVE ApprovalInv'
  <2>1. gens' \in [Actions -> Nat] /\ gens[a] + 1 \in Nat
    BY <1>1 DEF create, ApprovalInv, ApprovalShape
  <2> QED
    BY <1>1, <2>1, CallKeeps DEF create, Statuses
<1>2. ASSUME NEW c \in Calls, NEW a \in Actions, NEW approved \in BOOLEAN, decide(c, a, approved)
      PROVE  ApprovalInv'
  <2>1. gens' \in [Actions -> Nat]
    BY <1>2 DEF decide, ApprovalInv, ApprovalShape
  <2>2. CASE Call(c, a, "expired", file[a].gen)
    BY <2>1, <2>2, <1>r, CallKeeps DEF Statuses
  <2>3. CASE Call(c, a, IF approved THEN "granted" ELSE "rejected", file[a].gen)
    BY <2>1, <2>3, <1>r, CallKeeps DEF Statuses
  <2> QED
    BY <1>2, <2>2, <2>3 DEF decide
<1>3. ASSUME NEW c \in Calls, NEW t \in Ids, consume(c, t) PROVE ApprovalInv'
  <2>1. gens' \in [Actions -> Nat] /\ t.action \in Actions
    BY <1>3 DEF consume, ApprovalInv, ApprovalShape, Ids
  <2>2. Id(t.action, file[t.action].gen) \in tokens
    BY <1>3, <2>1 DEF consume, ApprovalInv, GrantedOnFile
  <2> QED
    BY <1>3, <2>1, <2>2, <1>r, CallKeeps DEF consume, Statuses
<1>4. ASSUME NEW c \in Calls, truncate(c) PROVE ApprovalInv'
  BY <1>4 DEF truncate, Torn, ApprovalInv, ApprovalShape, GrantedOnFile, ConsumerSawGrant, CarriedWasApproved,
              Statuses, Id
<1>5. ASSUME NEW c \in Calls, fill(c) PROVE ApprovalInv'
  <2> DEFINE a == job[c].action
             s == job[c].status
             g == job[c].gen
  <2>1. a \in Actions /\ s \in Statuses /\ g \in Nat
    BY DEF ApprovalInv, ApprovalShape
  <2>2. tokens \subseteq tokens' /\ (s = "granted" => Id(a, g) \in tokens')
    BY <1>5 DEF fill
  <2>3. \/ file' = [file EXCEPT ![a] = [status |-> s, gen |-> g]]
        \/ file' = [file EXCEPT ![a] = Torn]
    BY <1>5 DEF fill, Id
  <2>4. NoJob \in [action : Actions, status : Statuses, gen : Nat] /\ NoJob.status = "pending"
    BY ActionsAssumption DEF NoJob, Statuses
  <2>5. ApprovalShape'
    <3>1. file' \in [Actions -> [status : Statuses \cup {"absent", "torn"}, gen : Nat]]
      <4> HIDE DEF a, s, g
      <4> DEFINE R == [status : Statuses \cup {"absent", "torn"}, gen : Nat]
      <4>1. [status |-> s, gen |-> g] \in R /\ Torn \in R
        BY <2>1 DEF Torn
      <4>2. file \in [Actions -> R]
        BY DEF ApprovalInv, ApprovalShape
      <4> HIDE DEF R
      <4>3. file' \in [Actions -> R]
        BY <4>1, <4>2, <2>1, <2>3
      <4> QED
        BY <4>3 DEF R
    <3>2. job' \in [Calls -> [action : Actions, status : Statuses, gen : Nat]]
      BY <1>5, <2>4 DEF fill, ApprovalInv, ApprovalShape
    <3> QED
      BY <1>5, <3>1, <3>2 DEF fill, ApprovalInv, ApprovalShape
  <2>6. GrantedOnFile'
    <3> HIDE DEF a, s, g
    <3> SUFFICES ASSUME NEW b \in Actions, file'[b].status = "granted"
                 PROVE  Id(b, file'[b].gen) \in tokens'
      BY DEF GrantedOnFile
    <3>1. CASE b # a
      <4>1. file'[b] = file[b]
        BY <2>1, <2>3, <3>1 DEF ApprovalInv, ApprovalShape
      <4> QED
        BY <4>1, <2>2 DEF ApprovalInv, GrantedOnFile
    <3>2. CASE b = a
      <4>1. file'[a] = [status |-> s, gen |-> g] \/ file'[a] = Torn
        BY <2>1, <2>3 DEF ApprovalInv, ApprovalShape
      <4>2. s = "granted" /\ file'[a].gen = g
        BY <4>1, <3>2 DEF Torn
      <4> QED
        BY <4>2, <3>2, <2>2
    <3> QED
      BY <3>1, <3>2
  <2>7. ConsumerSawGrant'
    BY <1>5, <2>2, <2>4 DEF fill, ApprovalInv, ApprovalShape, ConsumerSawGrant, Id
  <2>8. CarriedWasApproved'
    BY <1>5, <2>2 DEF fill, ApprovalInv, ConsumerSawGrant, CarriedWasApproved
  <2> QED
    BY <2>5, <2>6, <2>7, <2>8 DEF ApprovalInv
<1>6. ASSUME NEW i \in Ids, lapse(i) PROVE ApprovalInv'
  BY <1>6 DEF lapse, ApprovalInv, ApprovalShape, GrantedOnFile, ConsumerSawGrant, CarriedWasApproved, Id
<1>7. CASE UNCHANGED vars
  BY <1>7 DEF vars, ApprovalInv, ApprovalShape, GrantedOnFile, ConsumerSawGrant, CarriedWasApproved, Id
<1> QED
  BY <1>1, <1>2, <1>3, <1>4, <1>5, <1>6, <1>7 DEF Next

(* What is carried out was approved since its record was created (consume  *)
(* against create, decide and _write in other threads).                    *)
THEOREM CarriedIsApproved == Spec => []CarriedWasApproved
<1>1. ApprovalInv => CarriedWasApproved
  BY DEF ApprovalInv
<1> QED
  BY <1>1, ApprovalInit, ApprovalStep, PTL DEF Spec

-----------------------------------------------------------------------------
FilesOf == Records \cup {Absent, Torn}
JobsOf  == [action : Actions, status : Statuses, gen : Gens]

(* A call that starts keeps the types.                                      *)
LEMMA CallIsTyped ==
    ASSUME TypeOK, NEW c \in Calls, NEW a \in Actions, NEW s \in Statuses, NEW g \in Gens,
           Call(c, a, s, g), gens' \in [Actions -> Gens]
    PROVE  TypeOK'
<1>1. [action |-> a, status |-> s, gen |-> g] \in JobsOf
  BY DEF JobsOf
<1>2. job' \in [Calls -> JobsOf]
  BY <1>1 DEF Call, TypeOK, JobsOf
<1>3. used' \in 0..MaxCalls
  BY BoundsAssumption DEF Call, TypeOK
<1>4. pc' \in [Calls -> {"idle", "truncate", "fill"}]
  BY DEF Call, TypeOK
<1> QED
  BY <1>2, <1>3, <1>4 DEF Call, TypeOK, JobsOf

(* Every call keeps the types.                                              *)
LEMMA ApprovalTypesStep == TypeOK /\ [Next]_vars => TypeOK'
<1> SUFFICES ASSUME TypeOK, [Next]_vars PROVE TypeOK'
  OBVIOUS
<1>r. ASSUME NEW a \in Actions, Readable(a) PROVE file[a].gen \in Gens
  BY <1>r DEF Readable, Records
<1>1. ASSUME NEW c \in Calls, NEW a \in Actions, create(c, a) PROVE TypeOK'
  <2>1. gens[a] + 1 \in Gens /\ gens' \in [Actions -> Gens]
    BY <1>1, BoundsAssumption DEF create, TypeOK, Gens
  <2> QED
    BY <1>1, <2>1, CallIsTyped DEF create, Statuses
<1>2. ASSUME NEW c \in Calls, NEW a \in Actions, NEW approved \in BOOLEAN, decide(c, a, approved)
      PROVE  TypeOK'
  <2>1. gens' \in [Actions -> Gens] /\ file[a].gen \in Gens
    BY <1>2, <1>r DEF decide, TypeOK
  <2>2. \E s \in Statuses : Call(c, a, s, file[a].gen)
    BY <1>2 DEF decide, Statuses
  <2> QED
    BY <2>1, <2>2, CallIsTyped
<1>3. ASSUME NEW c \in Calls, NEW t \in Ids, consume(c, t) PROVE TypeOK'
  <2>1. gens' \in [Actions -> Gens] /\ t.action \in Actions
    BY <1>3 DEF consume, TypeOK, Ids
  <2> QED
    BY <1>3, <2>1, <1>r, CallIsTyped DEF consume, Statuses
<1>4. ASSUME NEW c \in Calls, truncate(c) PROVE TypeOK'
  BY <1>4 DEF truncate, TypeOK
<1>5. ASSUME NEW c \in Calls, fill(c) PROVE TypeOK'
  <2> DEFINE a == job[c].action
             s == job[c].status
             g == job[c].gen
             i == Id(a, g)
  <2>1. a \in Actions /\ s \in Statuses /\ g \in Gens
    BY DEF TypeOK
  <2>2. i \in Ids
    BY <2>1 DEF Id, Ids
  <2>3. \/ file' = [file EXCEPT ![a] = [status |-> s, gen |-> g]]
        \/ file' = [file EXCEPT ![a] = Torn]
    BY <1>5 DEF fill, Id
  <2>4. tokens' \in {tokens, tokens \cup {i}} /\ carried' \in {carried, carried \cup {i}}
    BY <1>5 DEF fill
  <2>5. /\ approvals' = approvals \/ approvals' = [approvals EXCEPT ![a] = @ + 1]
        /\ runs' = runs \/ runs' = [runs EXCEPT ![a] = @ + 1]
    BY <1>5 DEF fill
  <2>6. pc' \in [Calls -> {"idle", "truncate", "fill"}]
    BY <1>5 DEF fill, TypeOK
  <2>7. NoJob \in JobsOf
    BY ActionsAssumption, BoundsAssumption DEF NoJob, JobsOf, Statuses, Gens
  <2>8. job' \in [Calls -> JobsOf]
    BY <1>5, <2>7 DEF fill, TypeOK, JobsOf
  <2>9. UNCHANGED <<gens, lapsed, used>>
    BY <1>5 DEF fill
  <2> HIDE DEF a, s, g, i
  <2>10. [status |-> s, gen |-> g] \in FilesOf /\ Torn \in FilesOf
    BY <2>1 DEF FilesOf, Records
  <2>11. file' \in [Actions -> FilesOf]
    BY <2>3, <2>10 DEF TypeOK, FilesOf
  <2>12. approvals' \in [Actions -> Nat] /\ runs' \in [Actions -> Nat]
    BY <2>1, <2>5 DEF TypeOK
  <2>13. tokens' \subseteq Ids /\ carried' \subseteq Ids
    BY <2>2, <2>4 DEF TypeOK
  <2> QED
    BY <2>6, <2>8, <2>9, <2>11, <2>12, <2>13 DEF TypeOK, FilesOf, JobsOf
<1>6. ASSUME NEW i \in Ids, lapse(i) PROVE TypeOK'
  BY <1>6 DEF lapse, TypeOK
<1>7. CASE UNCHANGED vars
  BY <1>7 DEF vars, TypeOK
<1> QED
  BY <1>1, <1>2, <1>3, <1>4, <1>5, <1>6, <1>7 DEF Next

(* The log of approvals starts empty.                                       *)
LEMMA ApprovalTypesInit == Init => TypeOK
<1> SUFFICES ASSUME Init PROVE TypeOK
  OBVIOUS
<1>1. NoJob \in JobsOf
  BY ActionsAssumption, BoundsAssumption DEF NoJob, JobsOf, Statuses, Gens
<1>2. job \in [Calls -> JobsOf]
  BY <1>1 DEF Init
<1> QED
  BY <1>2, BoundsAssumption DEF Init, TypeOK, JobsOf, Gens

-----------------------------------------------------------------------------
(* The guarded tools.  A call acts on the ground the guard let it through  *)
(* for, and on the goal it was let through to: what the user said, a rule  *)
(* or the scope of the policy.  Rules are only added and given never       *)
(* shrinks, so a ground that held when the call was let through still does *)
(* when it acts, whatever the mode and the host have become.               *)
Goals == Sites \cup {Nowhere, Workspace} \cup {h.addr : h \in Hosts}

ToolNames == {"http", "scan", "ssh", "command", "async"}

CallRecords ==
    [pc : {"idle", "resolve", "asking", "answered", "act", "counted", "acted"},
     tool : ToolNames \cup {Nowhere}, goal : Goals, secret : Goals \cup {"ref"},
     login : {"given", "missing"}, grounds : {Nowhere, "full", "scope", "rule", "user"},
     answer : {Nowhere, "allow", "reject"}, wasFull : BOOLEAN, said : BOOLEAN,
     reached : SUBSET Goals]

(* The credential of a managed host goes with that host.                    *)
SecretFits(r) == r.secret \in {Nowhere, "ref", r.goal}

(* What a call rests on since the guard let it through.                     *)
IsGrounded(r) ==
    /\ r.grounds = "full"  => r.wasFull
    /\ r.grounds = "user"  => r.said \/ r.wasFull
    /\ r.grounds = "rule"  => Key(r) \in given
    /\ r.grounds = "scope" => authorize_network_action(r.tool, r.goal)

ToolCallInv(r) ==
    /\ r \in CallRecords
    /\ SecretFits(r) /\ IsGrounded(r)
    /\ r.pc \notin {"act", "counted", "acted"} => r.grounds = Nowhere
    /\ r.pc # "idle" => r.tool \in ToolNames /\ (mode = "full" => r.wasFull)
    /\ r.pc = "answered" /\ r.answer = "allow" => r.said \/ r.wasFull
    /\ r.reached \in {{}, {r.goal}} /\ (r.pc # "acted" => r.reached = {})

ToolsInv ==
    /\ call = [c \in ToolCalls |-> call[c]]
    /\ \A c \in ToolCalls : ToolCallInv(call[c])
    /\ rules \subseteq given
    /\ hostRow \in Hosts \cup {NoHost}

-----------------------------------------------------------------------------

(* A call that needs no decision is one the policy allows without asking.   *)
LEMMA UnaskedIsAllowed ==
    ASSUME NEW r, r.tool \in ToolNames, ~needs_user_decision(r)
    PROVE  authorize_network_action(r.tool, r.goal)
<1>1. Risk[r.tool] = 1 /\ r.goal \in scope.targets /\ (scope.actions = {} \/ r.tool \in scope.actions)
  BY DEF needs_user_decision, ToolNames, Risk
<1> DEFINE action == [target |-> r.goal, tool |-> r.tool, risk |-> Risk[r.tool],
                      write |-> FALSE, rollback |-> FALSE, load |-> "none"]
           bounds == [targets |-> scope.targets, risk |-> 1, valid |-> TRUE,
                      actions |-> IF scope.actions = {} THEN {r.tool} ELSE scope.actions]
<1>2. /\ action.target = r.goal /\ action.tool = r.tool /\ action.risk = 1 /\ ~action.write /\ action.load = "none"
      /\ bounds.targets = scope.targets /\ bounds.risk = 1 /\ bounds.valid
      /\ r.tool \in bounds.actions
  BY <1>1
<1>3. Denials(action, bounds) = {}
  <2> HIDE DEF action, bounds
  <2> QED BY <1>1, <1>2 DEF Denials
<1>4. evaluate_action(action, bounds, FALSE) = "allow"
  <2> HIDE DEF action, bounds
  <2> QED BY <1>2, <1>3 DEF evaluate_action
<1> QED BY <1>1, <1>4 DEF authorize_network_action

(* The guard takes a call that has no ground yet further, or asks.          *)
LEMMA GuardedKeeps ==
    ASSUME NEW r, ToolCallInv(r), r.pc \notin {"act", "counted", "acted"}, r.tool \in ToolNames,
           mode = "full" => r.wasFull, rules \subseteq given, r.reached = {}
    PROVE  ToolCallInv(Guarded(r))
<1>1. ~needs_user_decision(r) => authorize_network_action(r.tool, r.goal)
  BY UnaskedIsAllowed
<1>2. r \in CallRecords /\ SecretFits(r) /\ r.grounds = Nowhere
  BY DEF ToolCallInv
<1>3. ASSUME NEW g \in {"full", "scope", "rule"} 
      PROVE  /\ Acting(r, g) \in CallRecords
             /\ \A f \in {"tool", "goal", "secret", "wasFull", "said", "reached"} : Acting(r, g)[f] = r[f]
             /\ Acting(r, g).pc = "act" /\ Acting(r, g).grounds = g
  BY <1>2 DEF Acting, CallRecords
<1>4. ASSUME NEW g \in {"full", "scope", "rule"}, 
             g = "full" => r.wasFull, g = "rule" => Key(r) \in given,
             g = "scope" => authorize_network_action(r.tool, r.goal)
      PROVE  ToolCallInv(Acting(r, g))
  <2> DEFINE a == Acting(r, g)
  <2>1. a \in CallRecords /\ a.tool = r.tool /\ a.goal = r.goal /\ a.secret = r.secret /\ a.wasFull = r.wasFull
        /\ a.said = r.said /\ a.reached = r.reached /\ a.pc = "act" /\ a.grounds = g
    BY <1>3
  <2> HIDE DEF a
  <2>2. SecretFits(a) BY <2>1, <1>2 DEF SecretFits
  <2>3. IsGrounded(a) BY <2>1, <1>4 DEF IsGrounded, Key
  <2> QED BY <2>1, <2>2, <2>3 DEF ToolCallInv, a
<1>5. ToolCallInv([r EXCEPT !.pc = "asking"])
  <2> DEFINE a == [r EXCEPT !.pc = "asking"]
  <2>1. a \in CallRecords /\ a.tool = r.tool /\ a.goal = r.goal /\ a.secret = r.secret /\ a.wasFull = r.wasFull
        /\ a.said = r.said /\ a.reached = r.reached /\ a.pc = "asking" /\ a.grounds = r.grounds
    BY <1>2 DEF CallRecords
  <2> HIDE DEF a
  <2>2. SecretFits(a) BY <2>1, <1>2 DEF SecretFits
  <2>3. IsGrounded(a) BY <2>1, <1>2 DEF IsGrounded, Nowhere
  <2>4. ToolCallInv(a) BY <2>1, <2>2, <2>3, <1>2 DEF ToolCallInv
  <2> QED BY <2>4 DEF a
<1>6. mode = "full" => r.wasFull
  OBVIOUS
<1>7. \/ Guarded(r) = Acting(r, "full") /\ mode = "full"
      \/ Guarded(r) = Acting(r, "scope") /\ ~needs_user_decision(r)
      \/ Guarded(r) = Acting(r, "rule") /\ Key(r) \in given
      \/ Guarded(r) = [r EXCEPT !.pc = "asking"]
  <2>1. CASE mode = "full"
    BY <2>1, Zenon DEF Guarded
  <2>2. CASE mode # "full" /\ ~needs_user_decision(r)
    BY <2>2, Zenon DEF Guarded
  <2>3. CASE mode # "full" /\ needs_user_decision(r) /\ Key(r) \in rules
    BY <2>3, Zenon DEF Guarded
  <2>4. CASE mode # "full" /\ needs_user_decision(r) /\ Key(r) \notin rules
    BY <2>4, Zenon DEF Guarded
  <2> QED BY <2>1, <2>2, <2>3, <2>4
<1> QED BY <1>1, <1>4, <1>5, <1>6, <1>7

(* No call at the start.                                                   *)
LEMMA ToolsInitInv == ToolsInit => ToolsInv
<1> SUFFICES ASSUME ToolsInit PROVE ToolsInv
  OBVIOUS
<1>1. IdleCall \in CallRecords
  BY DEF IdleCall, CallRecords, Goals, Nowhere
<1>2. ToolCallInv(IdleCall)
  BY <1>1 DEF ToolCallInv, SecretFits, IsGrounded, IdleCall, Nowhere
<1> QED BY <1>2 DEF ToolsInit, ToolsInv

(* Only the calls, and nothing their invariant speaks of, changes.          *)
LEMMA OneCallChanges ==
    ASSUME ToolsInv, NEW c \in ToolCalls, NEW r, CallBecomes(c, r), ToolCallInv(r),
           UNCHANGED <<mode, rules, scope, hostRow, given>>
    PROVE  ToolsInv'
<1>1. \A x \in ToolCalls : ToolCallInv(call'[x])
  BY DEF ToolsInv, CallBecomes
<1>2. \A x \in ToolCalls : ToolCallInv(call[x])'
  BY <1>1 DEF ToolCallInv, SecretFits, IsGrounded, authorize_network_action
<1>3. call' = [x \in ToolCalls |-> call'[x]]
  BY DEF ToolsInv, CallBecomes
<1> QED BY <1>2, <1>3 DEF ToolsInv

(* Every step of a tool, the user, the mode and the host keeps the calls    *)
(* grounded.                                                                *)
LEMMA ToolsStepInv == ToolsInv /\ [ToolsNext]_guardVars => ToolsInv'
<1> SUFFICES ASSUME ToolsInv, [ToolsNext]_guardVars PROVE ToolsInv'
  OBVIOUS
<1> USE DEF CallAt
<1>0. /\ \A c \in ToolCalls : ToolCallInv(call[c]) /\ call[c] \in CallRecords
      /\ rules \subseteq given /\ hostRow \in Hosts \cup {NoHost}
  BY DEF ToolsInv, ToolCallInv
<1>1. ToolCallInv(IdleCall) /\ IdleCall \in CallRecords
  <2>1. IdleCall \in CallRecords
    BY DEF IdleCall, CallRecords, Goals, Nowhere
  <2> QED BY <2>1 DEF ToolCallInv, SecretFits, IsGrounded, IdleCall, Nowhere
<1>2. ASSUME NEW tool \in ToolNames, NEW goal \in Goals
      PROVE  /\ ToolCallInv(Called(tool, goal)) /\ Called(tool, goal).pc = "idle"
             /\ Called(tool, goal).tool = tool /\ Called(tool, goal).reached = {}
             /\ mode = "full" => Called(tool, goal).wasFull
             /\ Called(tool, goal).secret = Nowhere /\ Called(tool, goal).grounds = Nowhere
             /\ Called(tool, goal).goal = goal
  BY <1>1 DEF Called, ToolCallInv, SecretFits, IsGrounded, IdleCall, CallRecords, Nowhere
<1>3. ASSUME NEW tool \in ToolNames, NEW goal \in Goals PROVE ToolCallInv(Guarded(Called(tool, goal)))
  BY <1>0, <1>2, GuardedKeeps
<1>4. Sites \subseteq Goals /\ {Nowhere, Workspace} \subseteq Goals
  BY DEF Goals
<1>5. ASSUME NEW c \in ToolCalls, Fails(c), UNCHANGED <<mode, rules, scope, hostRow, given>> PROVE ToolsInv'
  BY <1>5, <1>1, OneCallChanges DEF Fails
<1>6. ASSUME NEW c \in ToolCalls, NEW tool \in {"http", "scan"}, NEW url \in Sites, network_tool(c, tool, url)
      PROVE  ToolsInv'
  BY <1>6, <1>3, <1>4, OneCallChanges DEF network_tool, ToolNames
<1>7. ASSUME NEW c \in ToolCalls, NEW tool \in Local, command_tool(c, tool) PROVE ToolsInv'
  BY <1>7, <1>3, <1>4, OneCallChanges DEF command_tool, ToolNames, Local
<1>8. ASSUME NEW c \in ToolCalls, NEW goal \in Sites \cup {Nowhere}, NEW ref \in BOOLEAN,
             NEW username \in BOOLEAN, ssh_command(c, goal, ref, username)
      PROVE  ToolsInv'
  <2> DEFINE new == Called("ssh", goal)
             r == [new EXCEPT !.pc = "resolve", !.secret = IF ref THEN "ref" ELSE Nowhere,
                              !.login = IF username THEN "given" ELSE "missing"]
  <2>1. /\ ToolCallInv(new) /\ new.tool = "ssh" /\ new.reached = {} /\ (mode = "full" => new.wasFull)
        /\ new.grounds = Nowhere /\ new \in CallRecords
    BY <1>2, <1>4 DEF ToolNames, ToolCallInv
  <2>2. r \in CallRecords
    BY <2>1, <1>4 DEF CallRecords
  <2>3. /\ r.tool = "ssh" /\ r.reached = {} /\ (mode = "full" => r.wasFull) /\ r.grounds = Nowhere
        /\ r.pc = "resolve" /\ r.secret \in {"ref", Nowhere}
    BY <2>1 DEF CallRecords
  <2>4. CallBecomes(c, r)
    BY <1>8, Zenon DEF ssh_command
  <2> HIDE DEF r
  <2>5. ToolCallInv(r)
    BY <2>2, <2>3 DEF ToolCallInv, SecretFits, IsGrounded, ToolNames, Nowhere
  <2> QED BY <2>4, <2>5, <1>8, OneCallChanges DEF ssh_command
<1>9. ASSUME NEW c \in ToolCalls, resolve_managed(c) PROVE ToolsInv'
  <2> DEFINE r == call[c]
             a == [r EXCEPT !.goal = hostRow.addr, !.secret = hostRow.addr, !.login = "given"]
  <2>1. r.pc = "resolve" /\ OfManagedHost(r) /\ UNCHANGED <<mode, rules, scope, hostRow, given>>
    BY <1>9 DEF resolve_managed
  <2>2. CASE Fails(c)
    BY <2>1, <2>2, <1>5
  <2>3. CASE CallBecomes(c, Guarded(a))
    <3>1. hostRow.addr \in Goals
      BY <2>1, <1>0 DEF OfManagedHost, Goals
    <3>2. a \in CallRecords
      BY <3>1, <1>0 DEF CallRecords
    <3>3. /\ a.pc = "resolve" /\ a.tool = r.tool /\ a.secret = a.goal /\ a.grounds = r.grounds
          /\ a.wasFull = r.wasFull /\ a.reached = r.reached
      BY <2>1, <1>0 DEF CallRecords
    <3> HIDE DEF a
    <3>4. r.grounds = Nowhere /\ r.reached = {} /\ r.tool \in ToolNames /\ (mode = "full" => r.wasFull)
      BY <2>1, <1>0 DEF ToolCallInv
    <3>5. ToolCallInv(a)
      BY <3>2, <3>3, <3>4 DEF ToolCallInv, SecretFits, IsGrounded, Nowhere
    <3> QED BY <3>3, <3>4, <3>5, <2>1, <2>3, <1>0, GuardedKeeps, OneCallChanges
  <2> QED BY <2>2, <2>3, <1>9, Zenon DEF resolve_managed
<1>10. ASSUME NEW c \in ToolCalls, resolve_given(c) PROVE ToolsInv'
  <2> DEFINE r == call[c]
             a == [r EXCEPT !.login = "given"]
  <2>1. r.pc = "resolve" /\ UNCHANGED <<mode, rules, scope, hostRow, given>>
    BY <1>10 DEF resolve_given
  <2>2. CASE Fails(c)
    BY <2>1, <2>2, <1>5
  <2>3. CASE CallBecomes(c, Guarded(a))
    <3>2. a \in CallRecords
      BY <1>0 DEF CallRecords
    <3>3. /\ a.pc = "resolve" /\ a.tool = r.tool /\ a.secret = r.secret /\ a.goal = r.goal
          /\ a.grounds = r.grounds /\ a.wasFull = r.wasFull /\ a.reached = r.reached
      BY <2>1, <1>0 DEF CallRecords
    <3> HIDE DEF a
    <3>4. /\ r.grounds = Nowhere /\ r.reached = {} /\ r.tool \in ToolNames /\ (mode = "full" => r.wasFull)
          /\ SecretFits(r)
      BY <2>1, <1>0 DEF ToolCallInv
    <3>5. ToolCallInv(a)
      BY <3>2, <3>3, <3>4 DEF ToolCallInv, SecretFits, IsGrounded, Nowhere
    <3> QED BY <3>3, <3>4, <3>5, <2>1, <2>3, <1>0, GuardedKeeps, OneCallChanges
  <2> QED BY <2>2, <2>3, <1>10, Zenon DEF resolve_given
<1>11. ASSUME NEW c \in ToolCalls, NEW d \in {"once", "always", "reject"}, user_decides(c, d) PROVE ToolsInv'
  <2> DEFINE r == call[c]
             a == [r EXCEPT !.pc = "answered", !.answer = IF d = "reject" THEN "reject" ELSE "allow",
                            !.said = @ \/ d # "reject"]
  <2>1. /\ r.pc \in {"asking", "answered"} /\ UNCHANGED <<mode, scope, hostRow>>
        /\ rules' \subseteq given' /\ given \subseteq given'
        /\ CallBecomes(c, a)
    BY <1>11, <1>0 DEF user_decides
  <2>2. a \in CallRecords
    BY <1>0 DEF CallRecords
  <2>3. /\ a.pc = "answered" /\ a.tool = r.tool /\ a.secret = r.secret /\ a.goal = r.goal
        /\ a.grounds = r.grounds /\ a.wasFull = r.wasFull /\ a.reached = r.reached
        /\ a.answer = "allow" => a.said
    BY <2>1, <1>0 DEF CallRecords
  <2> HIDE DEF a
  <2>4. /\ r.grounds = Nowhere /\ r.reached = {} /\ r.tool \in ToolNames /\ (mode = "full" => r.wasFull)
        /\ SecretFits(r)
    BY <2>1, <1>0 DEF ToolCallInv
  <2>5. ToolCallInv(call[c])'
    <3>1. mode' = mode /\ call'[c] = a
      BY <2>1 DEF CallBecomes, ToolsInv
    <3> QED BY <2>2, <2>3, <2>4, <3>1 DEF ToolCallInv, SecretFits, IsGrounded, Nowhere
  <2>6. \A x \in ToolCalls : ToolCallInv(call[x])'
    <3> SUFFICES ASSUME NEW x \in ToolCalls PROVE ToolCallInv(call[x])'
      OBVIOUS
    <3>1. CASE x = c
      BY <3>1, <2>5
    <3>2. CASE x # c
      <4>1. call'[x] = call[x]
        BY <3>2, <2>1 DEF CallBecomes, ToolsInv
      <4>2. ToolCallInv(call[x]) /\ scope' = scope /\ mode' = mode /\ given \subseteq given'
        BY <1>0, <2>1
      <4> QED BY <4>1, <4>2 DEF ToolCallInv, SecretFits, IsGrounded, authorize_network_action
    <3> QED BY <3>1, <3>2
  <2> QED BY <2>6, <2>1 DEF CallBecomes, ToolsInv
<1>12. ASSUME NEW c \in ToolCalls, expires(c) PROVE ToolsInv'
  BY <1>12, <1>5 DEF expires
<1>13. ASSUME NEW c \in ToolCalls, NEW l \in {"act", "counted", "acted"}, NEW g \in {"full", "user"}, 
              call[c].pc = "answered", CallBecomes(c, Acting(call[c], g)),
              g = "full" => mode = "full", g = "user" => call[c].answer = "allow",
              UNCHANGED <<mode, rules, scope, hostRow, given>>
      PROVE  ToolsInv'
  <2> DEFINE r == call[c]
             a == Acting(r, g)
  <2>2. a \in CallRecords
    BY <1>0 DEF CallRecords, Acting
  <2>3. /\ a.pc = "act" /\ a.tool = r.tool /\ a.secret = r.secret /\ a.goal = r.goal
        /\ a.grounds = g /\ a.wasFull = r.wasFull /\ a.said = r.said /\ a.reached = r.reached
    BY <1>0 DEF CallRecords, Acting
  <2> HIDE DEF a
  <2>4. /\ r.reached = {} /\ r.tool \in ToolNames /\ (mode = "full" => r.wasFull)
        /\ SecretFits(r) /\ (g = "user" => r.said \/ r.wasFull)
    BY <1>13, <1>0 DEF ToolCallInv
  <2>5. ToolCallInv(a)
    BY <2>2, <2>3, <2>4, <1>13 DEF ToolCallInv, SecretFits, IsGrounded, Nowhere
  <2> QED BY <2>5, <1>13, OneCallChanges DEF a
<1>14. ASSUME NEW c \in ToolCalls, goes_on(c) PROVE ToolsInv'
  BY <1>14, <1>13, <1>5 DEF goes_on
<1>15. ASSUME NEW m \in {"normal", "full"}, update_mode(m) PROVE ToolsInv'
  <2>1. /\ mode' = m /\ UNCHANGED <<rules, scope, hostRow, given>>
        /\ call' = [c \in ToolCalls |-> call'[c]]
        /\ m = "normal" \/ m = "full"
    BY <1>15 DEF update_mode
  <2>2. ASSUME NEW x \in ToolCalls PROVE ToolCallInv(call[x])'
    <3> DEFINE r == call[x]
               a == call'[x]
    <3>1. CASE a = r /\ (m = "full" => r.pc = "idle")
      BY <3>1, <2>1, <1>0 DEF ToolCallInv, SecretFits, IsGrounded, authorize_network_action
    <3>2. CASE a = [r EXCEPT !.wasFull = TRUE,
                             !.answer = IF r.pc \in {"asking", "answered"} THEN "allow" ELSE @,
                             !.pc = IF @ = "asking" THEN "answered" ELSE @] /\ r.pc # "idle"
      <4>1. a \in CallRecords
        BY <3>2, <1>0 DEF CallRecords
      <4>2. /\ a.wasFull /\ a.tool = r.tool /\ a.secret = r.secret /\ a.goal = r.goal
            /\ a.grounds = r.grounds /\ a.said = r.said /\ a.reached = r.reached
            /\ \/ a.pc = r.pc
               \/ r.pc = "asking" /\ a.pc = "answered"
        BY <3>2, <1>0 DEF CallRecords
      <4>3. ToolCallInv(r) /\ scope' = scope /\ given' = given /\ r.pc # "idle"
        BY <1>0, <2>1, <3>2
      <4> HIDE DEF a, r
      <4>4. call'[x] = a
        BY DEF a
      <4>5. IsGrounded(call[x])'
        BY <4>2, <4>3, <4>4 DEF ToolCallInv, IsGrounded, authorize_network_action, Key
      <4>6. SecretFits(a)
        BY <4>2, <4>3 DEF ToolCallInv, SecretFits
      <4> QED BY <4>1, <4>2, <4>3, <4>4, <4>5, <4>6 DEF ToolCallInv, SecretFits
    <3> QED BY <3>1, <3>2, <1>15 DEF update_mode
  <2> QED BY <2>1, <2>2, <1>0 DEF ToolsInv
<1>16. CASE clear_rules
  BY <1>16, <1>0 DEF clear_rules, ToolsInv, ToolCallInv, SecretFits, IsGrounded, authorize_network_action
<1>17. CASE job_ends
  BY <1>17, <1>0 DEF job_ends, ToolsInv, ToolCallInv, SecretFits, IsGrounded, authorize_network_action
<1>18. ASSUME NEW h \in Hosts, host_edited(h) PROVE ToolsInv'
  BY <1>18, <1>0 DEF host_edited, ToolsInv, ToolCallInv, SecretFits, IsGrounded, authorize_network_action
<1>19. ASSUME NEW c \in ToolCalls, NEW l \in {"counted", "acted"}, NEW s \in {{}, {call[c].goal}},
              call[c].pc \in {"act", "counted"}, l = "counted" => s = {},
              CallBecomes(c, [call[c] EXCEPT !.pc = l, !.reached = s]),
              UNCHANGED <<mode, rules, scope, hostRow, given>>
      PROVE  ToolsInv'
  <2> DEFINE r == call[c]
             a == [r EXCEPT !.pc = l, !.reached = s]
  <2>1. a \in CallRecords
    BY <1>0 DEF CallRecords
  <2>2. /\ a.pc = l /\ a.tool = r.tool /\ a.secret = r.secret /\ a.goal = r.goal
        /\ a.grounds = r.grounds /\ a.wasFull = r.wasFull /\ a.said = r.said /\ a.reached = s
    BY <1>0 DEF CallRecords
  <2>3. ToolCallInv(r)
    BY <1>0
  <2> HIDE DEF a
  <2>4. ToolCallInv(a)
    BY <2>1, <2>2, <2>3, <1>19 DEF ToolCallInv, SecretFits, IsGrounded, Key
  <2> QED BY <2>4, <1>19, OneCallChanges DEF a
<1>20. ASSUME NEW c \in ToolCalls, act(c) PROVE ToolsInv'
  BY <1>20, <1>19 DEF act
<1>21. ASSUME NEW c \in ToolCalls, count_running(c) PROVE ToolsInv'
  <2>1. CASE Fails(c)
    BY <2>1, <1>21, <1>5 DEF count_running
  <2>2. CASE CallBecomes(c, [call[c] EXCEPT !.pc = "counted"])
    <3>1. call[c].pc = "act" /\ call[c].reached = {} /\ UNCHANGED <<mode, rules, scope, hostRow, given>>
      BY <1>21, <1>0 DEF count_running, ToolCallInv
    <3>2. [call[c] EXCEPT !.pc = "counted"] = [call[c] EXCEPT !.pc = "counted", !.reached = {}]
      BY <3>1, <1>0 DEF CallRecords
    <3> QED BY <2>2, <3>1, <3>2, <1>19
  <2> QED BY <2>1, <2>2, <1>21 DEF count_running
<1>22. ASSUME NEW c \in ToolCalls, start_async(c) PROVE ToolsInv'
  BY <1>22, <1>19 DEF start_async
<1>23. ASSUME NEW c \in ToolCalls, returns(c) PROVE ToolsInv'
  BY <1>23, <1>1, OneCallChanges DEF returns
<1>24. CASE UNCHANGED guardVars
  BY <1>24, <1>0 DEF guardVars, ToolsInv, ToolCallInv, SecretFits, IsGrounded, authorize_network_action
<1> QED BY <1>6, <1>7, <1>8, <1>9, <1>10, <1>11, <1>12, <1>14, <1>15, <1>16, <1>17, <1>18, <1>20,
           <1>21, <1>22, <1>23, <1>24 DEF ToolsNext

(* What a tool reached was authorized when it asked, by the user, a rule,  *)
(* the scope or full access, however long the answer took and whatever     *)
(* mode, rules and host have become; a password goes to its own host only  *)
(* (authorize_network_action_runtime, ssh_command).                        *)
THEOREM ToolsActAsAuthorized == ToolsSpec => []ActedIsAuthorized
<1>1. ToolsInv => ActedIsAuthorized
  BY SitesAssumption DEF ToolsInv, ToolCallInv, SecretFits, IsGrounded, ActedIsAuthorized, Nowhere
<1> QED BY <1>1, ToolsInitInv, ToolsStepInv, PTL DEF ToolsSpec

-----------------------------------------------------------------------------
(* Workspaces: the types, and what the rows of workspaces, the project and *)
(* the sessions agree on.                                                  *)
BoxIds == Boxes \cup {None}

BoxRequests ==
    [pc : PCs, s : Sessions, want : BoxIds, box : BoxIds, sel : BoxIds, new : BOOLEAN, checked : Nat,
     back : {"done", "access", "switch", "binding", "allowed", "unproject"}]

BoxTypes ==
    /\ box \in [Boxes -> [status : BoxStatuses, owner : Owners]]
    /\ project \in [status : {"absent", "working", "completed", "canceled"}, bound : BoxIds]
    /\ meta \in [Sessions -> [there : BOOLEAN, sel : BoxIds, running : BOOLEAN, rt : BoxIds]]
    /\ turn \in [Sessions -> [on : BOOLEAN, box : BoxIds, checked : Nat, started : Nat]]
    /\ req \in [Requests -> BoxRequests]
    /\ epoch \in Nat /\ ops \in 0..MaxBoxOps

(* What the schema and the deletions keep consistent.                       *)
RowsAgree ==
    /\ project.bound # None => Exists(project.bound) /\ project.status # "absent"
    /\ meta["proj"].there => project.status # "absent"

-----------------------------------------------------------------------------

(* At the start there is no workspace, no project, no session and no       *)
(* request.                                                                *)
LEMMA BoxTypesInit == BoxInit => BoxTypes /\ RowsAgree
<1> SUFFICES ASSUME BoxInit PROVE BoxTypes /\ RowsAgree
  OBVIOUS
<1>1. Idle \in BoxRequests
  BY DEF Idle, BoxRequests, PCs, Sessions, BoxIds, None
<1>2. NoMeta \in [there : BOOLEAN, sel : BoxIds, running : BOOLEAN, rt : BoxIds]
  BY DEF NoMeta, BoxIds, None
<1>3. NoTurn \in [on : BOOLEAN, box : BoxIds, checked : Nat, started : Nat]
  BY DEF NoTurn, BoxIds, None
<1>4. NoBox \in [status : BoxStatuses, owner : Owners]
  BY DEF NoBox, BoxStatuses, Owners
<1>5. project \in [status : {"absent", "working", "completed", "canceled"}, bound : BoxIds]
  BY DEF BoxInit, BoxIds, None
<1> QED BY <1>1, <1>2, <1>3, <1>4, <1>5, BoundsOfBoxes DEF BoxInit, BoxTypes, RowsAgree, NoMeta, Sessions

(* Every step of a message, an administrator and a turn keeps the types; a *)
(* bound on steps is a bound on the administrator alone.                   *)
LEMMA BoxTypesStep == BoxTypes /\ [BoxNext]_boxVars => BoxTypes'
<1> SUFFICES ASSUME BoxTypes, [BoxNext]_boxVars PROVE BoxTypes'
  OBVIOUS
<1> USE DEF At, Begins
<1> DEFINE MetaType == [there : BOOLEAN, sel : BoxIds, running : BOOLEAN, rt : BoxIds]
           TurnType == [on : BOOLEAN, box : BoxIds, checked : Nat, started : Nat]
           ProjType == [status : {"absent", "working", "completed", "canceled"}, bound : BoxIds]
           BoxType  == [status : BoxStatuses, owner : Owners]
<1>0. /\ Idle \in BoxRequests /\ NoMeta \in MetaType /\ NoTurn \in TurnType /\ NoBox \in BoxType
      /\ None \in BoxIds /\ Boxes \subseteq BoxIds
      /\ \A t \in Submits : t \in Requests
      /\ "lifecycle" \in Requests /\ "project" \in Requests
      /\ "chat" \in Sessions /\ "proj" \in Sessions
      /\ \A x \in {"running", "stopped", "paused", "error"} : x \in BoxStatuses
      /\ Me \in Owners
  BY DEF Idle, BoxRequests, PCs, Sessions, BoxIds, None, NoMeta, NoTurn, NoBox, BoxStatuses, Owners, Requests
<1>r. ASSUME NEW t \in Requests, NEW r \in BoxRequests, req' = [req EXCEPT ![t] = r]
      PROVE  req' \in [Requests -> BoxRequests]
  BY <1>r DEF BoxTypes
<1>1. ASSUME NEW t \in Requests, NEW l \in PCs, Goto(t, l) PROVE req' \in [Requests -> BoxRequests]
  BY <1>1 DEF Goto, BoxTypes, BoxRequests
<1>2. ASSUME NEW t \in Requests, Done(t) PROVE req' \in [Requests -> BoxRequests]
  BY <1>2, <1>0 DEF Done, BoxTypes
<1>3. ASSUME NEW t \in Requests, refuse(t) PROVE req' \in [Requests -> BoxRequests]
  BY <1>1, <1>2, <1>3 DEF refuse, PCs
<1>4. ASSUME NEW t \in Requests, NEW l \in PCs, NEW v \in BoxIds,
             Keep(t, l, "box", v) \/ Keep(t, l, "sel", v)
      PROVE  req' \in [Requests -> BoxRequests]
  <2>1. [req[t] EXCEPT !.pc = l, !.box = v] \in BoxRequests /\ [req[t] EXCEPT !.pc = l, !.sel = v] \in BoxRequests
    BY DEF BoxTypes, BoxRequests
  <2>2. \/ req' = [req EXCEPT ![t] = [req[t] EXCEPT !.pc = l, !.box = v]]
        \/ req' = [req EXCEPT ![t] = [req[t] EXCEPT !.pc = l, !.sel = v]]
    BY <1>4 DEF Keep
  <2> QED BY <2>1, <2>2, <1>r
<1>5. ASSUME NEW ss, Stopped(ss) PROVE turn' \in [Sessions -> TurnType] /\ meta' \in [Sessions -> MetaType]
  BY <1>5, <1>0 DEF Stopped, BoxTypes
<1>6. ASSUME NEW b, NEW st \in BoxStatuses, SetStatus(b, st) PROVE box' \in [Boxes -> BoxType]
  BY <1>6 DEF SetStatus, BoxTypes
<1>7. ASSUME Counted PROVE ops' \in 0..MaxBoxOps
  BY <1>7, BoundsOfBoxes DEF Counted, BoxTypes
<1>8. \A t \in Requests : req[t] \in BoxRequests /\ req[t].box \in BoxIds /\ req[t].want \in BoxIds /\ req[t].back \in PCs
                          /\ req[t].s \in Sessions
  BY DEF BoxTypes, BoxRequests, PCs
<1>9. \A s \in Sessions : meta[s] \in MetaType /\ meta[s].sel \in BoxIds /\ meta[s].rt \in BoxIds
  BY DEF BoxTypes
<1>10. project.bound \in BoxIds /\ project \in ProjType
  BY DEF BoxTypes
<1>a. ASSUME NEW t \in Submits, Submission(t) PROVE BoxTypes'
  <2>0. t \in Requests
    BY <1>0
  <2>1. ASSUME NEW s \in Sessions, NEW b \in BoxIds, submit_user_turn(t, s, b) PROVE BoxTypes'
    <3>1. [Idle EXCEPT !.pc = "select", !.s = s, !.want = b, !.back = "access"] \in BoxRequests
      BY <1>0 DEF BoxRequests, PCs
    <3> QED BY <3>1, <2>1, <2>0, <1>0, <1>r DEF submit_user_turn, BoxTypes
  <2>2. ASSUME NEW b \in BoxIds, submit_new_chat_turn(t, b) PROVE BoxTypes'
    BY <2>2, <2>0, <1>0 DEF submit_new_chat_turn, BoxTypes, BoxRequests, PCs, Idle, NoMeta
  <2>3. ASSUME NEW b \in BoxIds, select_workspace(t, b) PROVE BoxTypes'
    <3>1. req' \in [Requests -> BoxRequests]
      BY <2>3, <2>0, <1>0 DEF select_workspace, BoxTypes, BoxRequests, PCs, Idle
    <3> QED BY <3>1, <2>3, <1>7 DEF select_workspace, BoxTypes
  <2>4. CASE apply_turn_sandbox_selection(t)
    <3>1. req' \in [Requests -> BoxRequests]
      <4> DEFINE q == req[t]  m == meta[q.s]
      <4>1. m \in MetaType /\ q.s \in {"chat", "proj"}
        BY <2>0, <1>8, <1>9 DEF Sessions
      <4>2. CASE refuse(t)
        BY <4>2, <2>0, <1>3
      <4>3. CASE Keep(t, "bound", "sel", m.sel)
        BY <4>1, <4>3, <2>0, <1>4 DEF PCs
      <4>4. CASE req' = [req EXCEPT ![t].pc = "default", ![t].back = "switch"]
        <5>1. [req[t] EXCEPT !.pc = "default", !.back = "switch"] \in BoxRequests
          BY <2>0, <1>8 DEF BoxRequests, PCs
        <5>2. req' = [req EXCEPT ![t] = [req[t] EXCEPT !.pc = "default", !.back = "switch"]]
          BY <4>4
        <5> QED BY <5>1, <5>2, <2>0, <1>r
      <4>5. CASE Goto(t, "access")
        BY <4>5, <2>0, <1>1 DEF PCs
      <4>6. CASE Keep(t, "switch", "box", q.want)
        BY <4>6, <2>0, <1>4, <1>8 DEF PCs
      <4> QED BY <2>4, <4>2, <4>3, <4>4, <4>5, <4>6 DEF apply_turn_sandbox_selection
    <3> QED BY <3>1, <2>4 DEF apply_turn_sandbox_selection, BoxTypes
  <2>5. CASE read_project_workspace(t)
    <3>1. req' \in [Requests -> BoxRequests]
      BY <2>5, <2>0, <1>3, <1>4, <1>10 DEF read_project_workspace, PCs
    <3> QED BY <3>1, <2>5 DEF read_project_workspace, BoxTypes
  <2>6. CASE sync_project_session(t)
    <3>1. req' \in [Requests -> BoxRequests]
      BY <2>6, <2>0, <1>1 DEF sync_project_session, PCs
    <3>2. meta' \in [Sessions -> MetaType]
      BY <2>6, <2>0, <1>8, <1>9 DEF sync_project_session, BoxTypes
    <3> QED BY <3>1, <3>2, <2>6 DEF sync_project_session, BoxTypes
  <2>7. CASE update_selected_sandbox_container(t)
    <3>1. req' \in [Requests -> BoxRequests]
      BY <2>7, <2>0, <1>1, <1>3 DEF update_selected_sandbox_container, PCs
    <3> QED BY <3>1, <2>7 DEF update_selected_sandbox_container, BoxTypes
  <2>8. CASE resolve_new_selection(t)
    <3>1. req' \in [Requests -> BoxRequests]
      BY <2>8, <2>0, <1>1, <1>3 DEF resolve_new_selection, PCs
    <3> QED BY <3>1, <2>8 DEF resolve_new_selection, BoxTypes
  <2>9. CASE update_session_sandbox_container(t)
    <3>1. req' \in [Requests -> BoxRequests]
      BY <2>9, <2>0, <1>1, <1>3 DEF update_session_sandbox_container, PCs
    <3>2. meta' \in [Sessions -> MetaType]
      <4>1. \/ meta' = meta
            \/ meta' = [meta EXCEPT ![req[t].s].sel = req[t].box]
        BY <2>9 DEF update_session_sandbox_container
      <4> QED BY <4>1, <2>0, <1>8 DEF BoxTypes
    <3> QED BY <3>1, <3>2, <2>9 DEF update_session_sandbox_container, BoxTypes
  <2>10. CASE invalidate_session_tool_binding(t)
    <3>1. req' \in [Requests -> BoxRequests]
      BY <2>10, <2>0, <1>1, <1>2 DEF invalidate_session_tool_binding, PCs
    <3> QED BY <3>1, <1>5, <2>10 DEF invalidate_session_tool_binding, BoxTypes
  <2>11. CASE ensure_default_portable_workspace(t)
    <3>1. \E l \in {"ensure", req[t].back, "restart"}, b \in Boxes : 
             /\ Keep(t, l, "box", b)
             /\ \/ box' = [box EXCEPT ![b] = [status |-> "running", owner |-> Me]]
                \/ box' = box
      BY <2>11 DEF ensure_default_portable_workspace
    <3>2. PICK l \in {"ensure", req[t].back, "restart"}, b \in Boxes : 
             /\ Keep(t, l, "box", b)
             /\ \/ box' = [box EXCEPT ![b] = [status |-> "running", owner |-> Me]]
                \/ box' = box
      BY <3>1
    <3>3. req' \in [Requests -> BoxRequests]
      BY <3>2, <2>0, <1>0, <1>4, <1>8 DEF PCs
    <3>4. box' \in [Boxes -> BoxType]
      BY <3>2, <1>0 DEF BoxTypes
    <3> QED BY <3>3, <3>4, <2>11 DEF ensure_default_portable_workspace, BoxTypes
  <2>12. CASE start_default(t)
    <3>1. req' \in [Requests -> BoxRequests]
      BY <2>12, <2>0, <1>1, <1>8 DEF start_default, PCs
    <3>2. box' \in [Boxes -> BoxType]
      BY <2>12, <1>0, <1>6 DEF start_default
    <3> QED BY <3>1, <3>2, <2>12 DEF start_default, BoxTypes
  <2>13. CASE submit_turn(t)
    <3>1. req' \in [Requests -> BoxRequests]
      <4>1. CASE refuse(t)
        BY <4>1, <2>0, <1>3
      <4>2. CASE Keep(t, "context", "checked", epoch)
        <5>1. [req[t] EXCEPT !.pc = "context", !.checked = epoch] \in BoxRequests
          BY <2>0, <1>8 DEF BoxTypes, BoxRequests, PCs
        <5>2. req' = [req EXCEPT ![t] = [req[t] EXCEPT !.pc = "context", !.checked = epoch]]
          BY <4>2 DEF Keep
        <5> QED BY <5>1, <5>2, <2>0, <1>r
      <4> QED BY <4>1, <4>2, <2>13 DEF submit_turn
    <3> QED BY <3>1, <2>13 DEF submit_turn, BoxTypes
  <2>14. CASE build_runtime_context(t)
    <3>1. \E b \in BoxIds, l \in {"allowed", "binding"}, k \in {"default", "allowed", "binding"} :
            req' = [req EXCEPT ![t].pc = k, ![t].box = b, ![t].back = l]
      <4>1. req[t].s \in {"chat", "proj"} /\ meta[req[t].s] \in MetaType /\ req[t].want \in BoxIds
        BY <2>0, <1>8, <1>9 DEF Sessions
      <4> QED BY <4>1, <1>10, <2>14 DEF build_runtime_context
    <3>2. PICK b \in BoxIds, l \in {"allowed", "binding"}, k \in {"default", "allowed", "binding"} :
            req' = [req EXCEPT ![t].pc = k, ![t].box = b, ![t].back = l]
      BY <3>1
    <3>3. [req[t] EXCEPT !.pc = k, !.box = b, !.back = l] \in BoxRequests
      BY <2>0, <1>8 DEF BoxRequests, PCs
    <3>4. req' = [req EXCEPT ![t] = [req[t] EXCEPT !.pc = k, !.box = b, !.back = l]]
      BY <3>2
    <3>5. req' \in [Requests -> BoxRequests]
      BY <3>3, <3>4, <2>0, <1>r
    <3> QED BY <3>5, <2>14 DEF build_runtime_context, BoxTypes
  <2>15. CASE resolve_owner(t) \/ resolve_status(t) \/ resolve_project_binding(t) \/ resolve_project_selection(t)
    <3>1. req' \in [Requests -> BoxRequests]
      BY <2>15, <2>0, <1>0, <1>1, <1>4 DEF resolve_owner, resolve_status, resolve_project_binding,
         resolve_project_selection, PCs
    <3> QED BY <3>1, <2>15 DEF resolve_owner, resolve_status, resolve_project_binding,
         resolve_project_selection, BoxTypes
  <2>16. CASE start_turn(t)
    <3>1. req' \in [Requests -> BoxRequests]
      BY <2>16, <2>0, <1>2 DEF start_turn
    <3>2. turn' \in [Sessions -> TurnType]
      <4> DEFINE r == [on |-> TRUE, box |-> req[t].box, checked |-> req[t].checked, started |-> epoch]
      <4>1. r \in TurnType
        BY <2>0, <1>8 DEF BoxTypes, BoxRequests
      <4>2. turn' = turn \/ turn' = [turn EXCEPT ![req[t].s] = r]
        BY <2>16 DEF start_turn
      <4> HIDE DEF r
      <4> QED BY <4>1, <4>2 DEF BoxTypes
    <3>3. meta' \in [Sessions -> MetaType]
      <4> DEFINE m == meta[req[t].s]
                 r == IF m.there THEN [m EXCEPT !.running = TRUE, !.rt = req[t].box] ELSE m
      <4>1. r \in MetaType
        BY <2>0, <1>8, <1>9
      <4>2. meta' = meta \/ meta' = [meta EXCEPT ![req[t].s] = r]
        BY <2>16 DEF start_turn
      <4> HIDE DEF r
      <4> QED BY <4>1, <4>2 DEF BoxTypes
    <3> QED BY <3>1, <3>2, <3>3, <2>16 DEF start_turn, BoxTypes
  <2>17. CASE delete_new_chat(t)
    <3>1. req' \in [Requests -> BoxRequests]
      BY <2>17, <2>0, <1>2 DEF delete_new_chat
    <3> QED BY <3>1, <2>17, <1>0 DEF delete_new_chat, BoxTypes
  <2> QED BY <1>a, <2>1, <2>2, <2>3, <2>4, <2>5, <2>6, <2>7, <2>8, <2>9, <2>10, <2>11, <2>12, <2>13,
             <2>14, <2>15, <2>16, <2>17 DEF Submission, BoxIds
<1>b. ASSUME NEW t \in Submits \cup {"lifecycle"}, ensure_workspace(t) \/ initialization_failed(t) PROVE BoxTypes'
  <2>0. t \in Requests
    BY <1>0
  <2>1. req' \in [Requests -> BoxRequests]
    BY <1>b, <2>0, <1>1, <1>8 DEF ensure_workspace, initialization_failed, PCs
  <2>2. box' \in [Boxes -> BoxType]
    BY <1>b, <1>0, <1>6 DEF ensure_workspace, initialization_failed, BoxTypes
  <2> QED BY <2>1, <2>2, <1>b DEF ensure_workspace, initialization_failed, BoxTypes
<1>c. ASSUME NEW s \in Sessions, turn_ends(s) PROVE BoxTypes'
  BY <1>c, <1>5 DEF turn_ends, BoxTypes
<1>d. CASE Administration
  <2>1. ASSUME NEW o \in Owners, create_sandbox_container(o) PROVE BoxTypes'
    <3>1. req' \in [Requests -> BoxRequests] /\ box' \in [Boxes -> BoxType]
      BY <2>1, <1>0 DEF create_sandbox_container, BoxTypes, BoxRequests, PCs, Idle
    <3> QED BY <3>1, <2>1, <1>7 DEF create_sandbox_container, BoxTypes
  <2>2. ASSUME NEW b \in Boxes, delete_sandbox_container(b) PROVE BoxTypes'
    BY <2>2, <1>0, <1>7 DEF delete_sandbox_container, BoxTypes
  <2>3. ASSUME NEW b \in Boxes, NEW st \in {"running", "stopped", "paused"}, set_status(b, st) PROVE BoxTypes'
    <3>1. req' \in [Requests -> BoxRequests]
      BY <2>3, <1>0 DEF set_status, BoxTypes, BoxRequests, PCs, Idle
    <3>2. box' \in [Boxes -> BoxType]
      BY <2>3, <1>0, <1>6 DEF set_status
    <3> QED BY <3>1, <3>2, <2>3, <1>7 DEF set_status, BoxTypes
  <2>r. ASSUME NEW l \in PCs, NEW b \in BoxIds, ProjectRequest(l, b) 
        PROVE  /\ req' \in [Requests -> BoxRequests] /\ ops' \in 0..MaxBoxOps 
               /\ UNCHANGED <<box, meta, turn>>
    BY <2>r, <1>0, <1>7 DEF ProjectRequest, BoxTypes, BoxRequests, Idle
  <2>4. ASSUME NEW b \in BoxIds, update_work_project_metadata(b) PROVE BoxTypes'
    <3>1. ProjectRequest("metadata", b) /\ UNCHANGED <<project, epoch>> /\ "metadata" \in PCs
      BY <2>4 DEF update_work_project_metadata, PCs
    <3> QED BY <3>1, <2>r DEF BoxTypes
  <2>5. ASSUME NEW st \in {"working", "completed"}, retry_work_project(st) PROVE BoxTypes'
    <3>1. ProjectRequest("done", None) /\ "done" \in PCs /\ epoch' = epoch /\ project' \in ProjType
      BY <2>5, <1>10 DEF retry_work_project, PCs
    <3> QED BY <3>1, <2>r, <1>0 DEF BoxTypes
  <2>6. ASSUME NEW s \in Sessions, delete_session(s) PROVE BoxTypes'
    <3>1. req' \in [Requests -> BoxRequests]
      <4>1. [Idle EXCEPT !.pc = "unsession", !.s = s] \in BoxRequests
        BY <1>0 DEF BoxRequests, PCs
      <4> QED BY <4>1, <2>6, <1>0, <1>r DEF delete_session
    <3>2. turn' \in [Sessions -> TurnType] /\ meta' \in [Sessions -> MetaType]
      BY <2>6, <1>0 DEF delete_session, BoxTypes
    <3> QED BY <3>1, <3>2, <2>6, <1>7 DEF delete_session, BoxTypes
  <2>7. CASE write_metadata
    <3>1. req' \in [Requests -> BoxRequests]
      BY <2>7, <1>0, <1>2 DEF write_metadata
    <3>2. req["project"].box \in BoxIds
      BY <1>8, <1>0
    <3>3. project' \in ProjType
      BY <2>7, <3>2, <1>10 DEF write_metadata
    <3>4. meta' \in [Sessions -> MetaType]
      <4>1. meta["proj"].sel \in BoxIds
        BY <1>0, <1>9
      <4>2. \/ meta' = meta
            \/ \E v \in BoxIds : meta' = [meta EXCEPT !["proj"].sel = v]
        BY <2>7, <3>2, <4>1 DEF write_metadata
      <4> QED BY <4>2, <1>0 DEF BoxTypes
    <3> QED BY <3>1, <3>3, <3>4, <2>7 DEF write_metadata, BoxTypes
  <2>8. CASE cancel_work_project
    <3>1. project' \in ProjType /\ epoch' \in Nat
      BY <2>8, <1>10 DEF cancel_work_project, BoxTypes
    <3>2. \E l \in PCs : ProjectRequest(l, None)
      BY <2>8 DEF cancel_work_project, PCs
    <3> QED BY <3>1, <3>2, <2>r, <1>0 DEF BoxTypes
  <2>9. CASE cancel_sessions
    <3>1. req' \in [Requests -> BoxRequests]
      BY <2>9, <1>0, <1>2 DEF cancel_sessions
    <3> QED BY <3>1, <2>9, <1>5 DEF cancel_sessions, BoxTypes
  <2>10. CASE create_work_project_session
    <3>1. ProjectRequest("session", project.bound) /\ UNCHANGED <<project, epoch>> /\ "session" \in PCs
      BY <2>10 DEF create_work_project_session, PCs
    <3> QED BY <3>1, <2>r, <1>10 DEF BoxTypes
  <2>11. CASE insert_project_session
    <3>1. req' \in [Requests -> BoxRequests]
      BY <2>11, <1>0, <1>2 DEF insert_project_session
    <3>2. [NoMeta EXCEPT !.there = TRUE, !.sel = req["project"].box] \in MetaType
      BY <1>0, <1>8
    <3>3. meta' \in [Sessions -> MetaType]
      BY <2>11, <3>2, <1>9 DEF insert_project_session, BoxTypes
    <3> QED BY <3>1, <3>3, <2>11 DEF insert_project_session, BoxTypes
  <2>12. CASE delete_session_records
    <3>1. req' \in [Requests -> BoxRequests]
      BY <2>12, <1>0, <1>1, <1>2 DEF delete_session_records, PCs
    <3>2. meta' \in [Sessions -> MetaType]
      BY <2>12, <1>0 DEF delete_session_records, BoxTypes
    <3> QED BY <3>1, <3>2, <2>12 DEF delete_session_records, BoxTypes
  <2>13. CASE delete_work_project
    <3>1. req' \in [Requests -> BoxRequests]
      <4>1. \A l \in {"unproject", "unsession"} : 
              [Idle EXCEPT !.s = "proj", !.back = "unproject", !.pc = l] \in BoxRequests
        BY <1>0 DEF BoxRequests, PCs
      <4> QED BY <4>1, <2>13, <1>0, <1>r DEF delete_work_project
    <3>2. turn' \in [Sessions -> TurnType] /\ meta' \in [Sessions -> MetaType]
      BY <2>13, <1>0 DEF delete_work_project, BoxTypes
    <3> QED BY <3>1, <3>2, <2>13, <1>7 DEF delete_work_project, BoxTypes
  <2>14. CASE delete_project_row
    <3>1. req' \in [Requests -> BoxRequests]
      BY <2>14, <1>0, <1>2 DEF delete_project_row
    <3>2. project' \in ProjType
      BY <2>14, <1>0, <1>10 DEF delete_project_row
    <3> QED BY <3>1, <3>2, <2>14 DEF delete_project_row, BoxTypes
  <2> QED BY <1>d, <2>1, <2>2, <2>3, <2>4, <2>5, <2>6, <2>7, <2>8, <2>9, <2>10, <2>11, <2>12, <2>13, <2>14
          DEF Administration, BoxIds
<1>e. CASE UNCHANGED boxVars
  BY <1>e DEF boxVars, BoxTypes
<1> QED BY <1>a, <1>b, <1>c, <1>d, <1>e DEF BoxNext

(* Serving a message leaves the project alone, and makes no session of it.  *)
LEMMA SubmissionKeeps ==
    ASSUME BoxTypes, NEW t \in Submits, Submission(t)
    PROVE  /\ project' = project /\ epoch' = epoch
           /\ meta'["proj"].there => meta["proj"].there
<1>0. /\ "chat" \in Sessions /\ "proj" \in Sessions /\ t \in Requests /\ req[t].s \in Sessions
  BY DEF Sessions, BoxTypes, BoxRequests, Requests
<1>s. ASSUME NEW ss, Stopped(ss) PROVE meta'["proj"].there => meta["proj"].there
  BY <1>s, <1>0 DEF Stopped, BoxTypes
<1>1. project' = project /\ epoch' = epoch
  BY DEF Submission, submit_user_turn, submit_new_chat_turn, select_workspace,
     apply_turn_sandbox_selection, read_project_workspace, sync_project_session,
     update_selected_sandbox_container, resolve_new_selection, update_session_sandbox_container,
     invalidate_session_tool_binding, ensure_default_portable_workspace, start_default, submit_turn,
     build_runtime_context, resolve_owner, resolve_status, resolve_project_binding,
     resolve_project_selection, start_turn, delete_new_chat
<1>2. meta'["proj"].there => meta["proj"].there
  <2>1. \/ meta' = meta
        \/ \E r : meta' = [meta EXCEPT !["chat"] = r]
        \/ \E s \in Sessions : \E v : meta' = [meta EXCEPT ![s].sel = v]
        \/ \E s \in Sessions : \E v : meta' = [meta EXCEPT ![s] = IF @.there THEN [@ EXCEPT !.running = TRUE, !.rt = v] ELSE @]
        \/ \E ss : Stopped(ss)
    <3>1. sync_project_session(t) => \/ meta' = meta
                                     \/ \E s \in Sessions : \E v : meta' = [meta EXCEPT ![s].sel = v]
      <4> SUFFICES ASSUME sync_project_session(t), meta' # meta
                   PROVE \E s \in Sessions : \E v : meta' = [meta EXCEPT ![s].sel = v]
        OBVIOUS
      <4>1. meta' = [meta EXCEPT ![req[t].s].sel = IF meta[req[t].s].there THEN req[t].box ELSE @]
        BY DEF sync_project_session
      <4>2. meta' = [meta EXCEPT ![req[t].s].sel = IF meta[req[t].s].there THEN req[t].box ELSE meta[req[t].s].sel]
        BY <4>1
      <4> QED BY <4>2, <1>0
    <3>2. update_session_sandbox_container(t) => \/ meta' = meta
                                     \/ \E s \in Sessions : \E v : meta' = [meta EXCEPT ![s].sel = v]
      BY <1>0 DEF update_session_sandbox_container
    <3>3. start_turn(t) => 
            \/ meta' = meta
            \/ \E s \in Sessions : \E v : meta' = [meta EXCEPT ![s] = IF @.there THEN [@ EXCEPT !.running = TRUE, !.rt = v] ELSE @]
      BY <1>0 DEF start_turn
    <3> QED BY <3>1, <3>2, <3>3 DEF Submission, submit_user_turn, submit_new_chat_turn, select_workspace,
       apply_turn_sandbox_selection, read_project_workspace, update_selected_sandbox_container,
       resolve_new_selection, invalidate_session_tool_binding, ensure_default_portable_workspace,
       start_default, submit_turn, build_runtime_context, resolve_owner, resolve_status,
       resolve_project_binding, resolve_project_selection, delete_new_chat
  <2>2. ASSUME NEW r, meta' = [meta EXCEPT !["chat"] = r] PROVE meta'["proj"] = meta["proj"]
    BY <2>2, <1>0 DEF BoxTypes
  <2>3. ASSUME NEW s \in Sessions, NEW v, meta' = [meta EXCEPT ![s].sel = v]
        PROVE  meta'["proj"].there = meta["proj"].there
    BY <2>3, <1>0 DEF BoxTypes
  <2>4. ASSUME NEW s \in Sessions, NEW v,
               meta' = [meta EXCEPT ![s] = IF @.there THEN [@ EXCEPT !.running = TRUE, !.rt = v] ELSE @]
        PROVE  meta'["proj"].there = meta["proj"].there
    BY <2>4, <1>0 DEF BoxTypes
  <2> QED BY <2>1, <2>2, <2>3, <2>4, <1>s
<1> QED BY <1>1, <1>2

(* The project is bound to a workspace that exists and has a session only  *)
(* while it exists (the checks of write_metadata and of the deletions).    *)
LEMMA RowsAgreeStep == BoxTypes /\ RowsAgree /\ [BoxNext]_boxVars => RowsAgree'
<1> SUFFICES ASSUME BoxTypes, RowsAgree, [BoxNext]_boxVars PROVE RowsAgree'
  OBVIOUS
<1> USE DEF At, Begins
<1>0. /\ "chat" \in Sessions /\ "proj" \in Sessions /\ None \notin Boxes
      /\ \A t \in Submits : t \in Requests /\ req[t].s \in Sessions
      /\ project.bound \in Boxes \cup {None}
  BY DEF Sessions, BoxTypes, BoxRequests, Requests, Boxes, None, BoxIds
<1>1. ASSUME project' = project, meta'["proj"].there => meta["proj"].there,
             \A b \in Boxes : box[b].status # "absent" => box'[b].status # "absent"
      PROVE  RowsAgree'
  BY <1>1, <1>0 DEF RowsAgree, Exists
<1>2. ASSUME NEW b, NEW st \in BoxStatuses \ {"absent"}, SetStatus(b, st)
      PROVE  \A x \in Boxes : box[x].status # "absent" => box'[x].status # "absent"
  <2> SUFFICES ASSUME NEW x \in Boxes, box[x].status # "absent" PROVE box'[x].status # "absent"
    OBVIOUS
  <2>1. CASE x = b /\ b \in Boxes
    BY <1>2, <2>1, <1>0 DEF SetStatus, BoxTypes, Exists
  <2>2. CASE x # b
    BY <1>2, <2>2 DEF SetStatus, BoxTypes
  <2> QED BY <2>1, <2>2
<1>3. ASSUME NEW ss, Stopped(ss) PROVE meta'["proj"].there => meta["proj"].there
  BY <1>3, <1>0 DEF Stopped, BoxTypes
<1>a. ASSUME NEW t \in Submits, Submission(t) PROVE RowsAgree'
  <2>1. project' = project /\ (meta'["proj"].there => meta["proj"].there)
    BY <1>a, SubmissionKeeps
  <2>3. \A b \in Boxes : box[b].status # "absent" => box'[b].status # "absent"
    <3>1. CASE box' = box
      BY <3>1
    <3>2. CASE ensure_default_portable_workspace(t)
      <4>1. \/ box' = box
            \/ \E b \in Boxes : box' = [box EXCEPT ![b] = [status |-> "running", owner |-> Me]]
        BY <3>2 DEF ensure_default_portable_workspace
      <4> QED BY <4>1 DEF BoxTypes
    <3>3. CASE start_default(t)
      BY <3>3, <1>2 DEF start_default, BoxStatuses
    <3> QED BY <1>a, <3>1, <3>2, <3>3 DEF Submission, submit_user_turn, submit_new_chat_turn, select_workspace,
       apply_turn_sandbox_selection, read_project_workspace, sync_project_session,
       update_selected_sandbox_container, resolve_new_selection, update_session_sandbox_container,
       invalidate_session_tool_binding, submit_turn, build_runtime_context, resolve_owner,
       resolve_status, resolve_project_binding, resolve_project_selection, start_turn, delete_new_chat
  <2> QED BY <2>1, <2>3, <1>1
<1>b. ASSUME NEW t \in Submits \cup {"lifecycle"}, ensure_workspace(t) \/ initialization_failed(t) PROVE RowsAgree'
  <2>1. \A b \in Boxes : box[b].status # "absent" => box'[b].status # "absent"
    BY <1>b, <1>2 DEF ensure_workspace, initialization_failed, BoxStatuses
  <2> QED BY <1>b, <2>1, <1>1 DEF ensure_workspace, initialization_failed
<1>c. ASSUME NEW s \in Sessions, turn_ends(s) PROVE RowsAgree'
  BY <1>c, <1>1, <1>3 DEF turn_ends
<1>d. CASE Administration
  <2>1. ASSUME NEW o \in Owners, create_sandbox_container(o) PROVE RowsAgree'
    <3>1. \A b \in Boxes : box[b].status # "absent" => box'[b].status # "absent"
      BY <2>1 DEF create_sandbox_container, BoxTypes
    <3> QED BY <3>1, <2>1, <1>1 DEF create_sandbox_container
  <2>2. ASSUME NEW b \in Boxes, delete_sandbox_container(b) PROVE RowsAgree'
    BY <2>2, <1>0 DEF delete_sandbox_container, RowsAgree, Exists, BoxTypes
  <2>3. ASSUME NEW b \in Boxes, NEW st \in {"running", "stopped", "paused"}, set_status(b, st) PROVE RowsAgree'
    <3>1. \A x \in Boxes : box[x].status # "absent" => box'[x].status # "absent"
      BY <2>3, <1>2 DEF set_status, BoxStatuses
    <3> QED BY <3>1, <2>3, <1>1 DEF set_status
  <2>4. ASSUME NEW b \in Boxes \cup {None}, update_work_project_metadata(b) PROVE RowsAgree'
    BY <2>4, <1>1 DEF update_work_project_metadata, ProjectRequest
  <2>5. ASSUME NEW st \in {"working", "completed"}, retry_work_project(st) PROVE RowsAgree'
    BY <2>5 DEF retry_work_project, ProjectRequest, RowsAgree, Exists, BoxTypes
  <2>6. ASSUME NEW s \in Sessions, delete_session(s) PROVE RowsAgree'
    BY <2>6, <1>0, <1>1 DEF delete_session, BoxTypes
  <2>7. CASE write_metadata
    <3> DEFINE b == req["project"].box
    <3>1. CASE b = None \/ Exists(b)
      <4>1. meta'["proj"].there = meta["proj"].there /\ box' = box
        BY <2>7, <3>1, <1>0 DEF write_metadata, BoxTypes
      <4>2. project' = [status |-> IF project.status = "absent" THEN "working" ELSE project.status, bound |-> b]
        BY <2>7, <3>1 DEF write_metadata
      <4>3. project'.bound = b /\ project'.status # "absent"
        BY <4>2
      <4> HIDE DEF b
      <4> QED BY <4>1, <4>3, <3>1 DEF RowsAgree, Exists
    <3>2. CASE ~(b = None \/ Exists(b))
      BY <2>7, <3>2 DEF write_metadata, RowsAgree, Exists
    <3> QED BY <3>1, <3>2
  <2>8. CASE cancel_work_project
    BY <2>8 DEF cancel_work_project, ProjectRequest, RowsAgree, Exists, BoxTypes
  <2>9. CASE cancel_sessions
    BY <2>9, <1>1, <1>3 DEF cancel_sessions
  <2>10. CASE create_work_project_session
    BY <2>10, <1>1 DEF create_work_project_session, ProjectRequest
  <2>11. CASE insert_project_session
    BY <2>11, <1>0 DEF insert_project_session, RowsAgree, Exists, BoxTypes, NoMeta
  <2>12. CASE delete_session_records
    <3>1. meta'["proj"].there => meta["proj"].there
      BY <2>12, <1>0 DEF delete_session_records, BoxTypes, NoMeta
    <3> QED BY <2>12, <3>1, <1>1 DEF delete_session_records
  <2>13. CASE delete_work_project
    BY <2>13, <1>0, <1>1 DEF delete_work_project, BoxTypes
  <2>14. CASE delete_project_row
    BY <2>14, <1>0 DEF delete_project_row, RowsAgree, Exists, ProjectSessions, None
  <2> QED BY <1>d, <2>1, <2>2, <2>3, <2>4, <2>5, <2>6, <2>7, <2>8, <2>9, <2>10, <2>11, <2>12, <2>13, <2>14
          DEF Administration
<1>e. CASE UNCHANGED boxVars
  BY <1>e DEF boxVars, RowsAgree, Exists
<1> QED BY <1>a, <1>b, <1>c, <1>d, <1>e DEF BoxNext

-----------------------------------------------------------------------------
(* Which way a message goes: a session of the project is never given        *)
(* another workspace, and a chat never that of the project.                 *)
ChatOnly == {"switch", "resolve", "write", "invalidate", "binding"}
ProjOnly == {"bound", "sync", "allowed", "exists"}
Making   == {"default", "restart", "ensure", "failed"}
Passed   == {"context", "binding", "status", "allowed", "exists", "start"} \cup Making

Route(q) ==
    /\ q.pc \in ChatOnly => q.s = "chat"
    /\ q.pc \in ProjOnly => q.s = "proj"
    /\ q.pc \in Making => q.back \in (IF q.s = "proj" THEN {"allowed"} ELSE {"switch", "binding", "done"})

(* What was seen of the workspace a message is about to be given.           *)
Needs(q) ==
    CASE q.pc = "exists" \/ (q.pc = "status" /\ q.s = "proj") -> {<<"bound", q.box>>}
      [] q.pc = "status" /\ q.s = "chat"                     -> {<<"mine", q.box>>}
      [] q.pc = "start" /\ q.box # None                      ->
           IF q.s = "proj" THEN {<<"bound", q.box>>} ELSE {<<"mine", q.box>>, <<"up", q.box>>}
      [] OTHER                                               -> {}

Grounded == \A t \in Submits : Route(req[t]) /\ Needs(req[t]) \subseteq seen[t]

(* A message or a turn that was let through since the project was last      *)
(* canceled found it not canceled.                                          *)
UpToDate(n) == n <= epoch /\ (n = epoch => project.status # "canceled")

Checked ==
    /\ \A t \in Submits : req[t].s = "proj" /\ req[t].pc \in Passed => UpToDate(req[t].checked)
    /\ turn["proj"].on => UpToDate(turn["proj"].checked)
    /\ At("project", "session") => project.status # "canceled"
    /\ project.status = "canceled" /\ ~At("project", "cancel") /\ meta["proj"].there /\ turn["proj"].on
       => turn["proj"].started = epoch

BoxInv == BoxTypes /\ RowsAgree /\ Grounded /\ Checked

-----------------------------------------------------------------------------

(* What a check of the code finds of a workspace is among the facts noted  *)
(* of the state it looked at.                                              *)
LEMMA FactsHold ==
    ASSUME NEW b \in Boxes
    PROVE  /\ resolve_selection(b) => <<"mine", b>> \in Facts
           /\ Running(b) => <<"up", b>> \in Facts
           /\ Running(b) /\ project.bound = b => <<"bound", b>> \in Facts
<1>1. resolve_selection(b) => <<"mine", b>> \in {"mine"} \X {x \in Boxes : Exists(x) /\ box[x].owner = Me}
  BY DEF resolve_selection
<1>2. Running(b) => <<"up", b>> \in {"up"} \X {x \in Boxes : box[x].status = "running"}
  BY DEF Running
<1>3. Running(b) /\ project.bound = b
      => <<"bound", b>> \in {"bound"} \X ({x \in Boxes : box[x].status = "running"} \cap {project.bound})
  BY DEF Running
<1> QED BY <1>1, <1>2, <1>3 DEF Facts

(* The steps that serve a message.                                          *)
Serves(t) == Submission(t) \/ ensure_workspace(t) \/ initialization_failed(t)

(* Only its own steps move a request.                                      *)
LEMMA OwnSteps ==
    ASSUME BoxTypes, [BoxNext]_boxVars, NEW t \in Submits
    PROVE  req'[t] = req[t] \/ Serves(t)
<1> USE DEF Goto, Keep, Done, refuse, ProjectRequest
<1>0. /\ req = [x \in Requests |-> req[x]]
      /\ \A x \in Submits : x \in Requests /\ x # "lifecycle" /\ x # "project"
  BY SubmitsAssumption DEF BoxTypes, Requests
<1>1. ASSUME NEW x \in Submits, x # t, Submission(x) PROVE req'[t] = req[t]
  BY <1>0, <1>1 DEF Submission, submit_user_turn, submit_new_chat_turn, select_workspace,
         apply_turn_sandbox_selection, read_project_workspace, sync_project_session,
         update_selected_sandbox_container, resolve_new_selection, update_session_sandbox_container,
         invalidate_session_tool_binding, ensure_default_portable_workspace, start_default, submit_turn,
         build_runtime_context, resolve_owner, resolve_status, resolve_project_binding,
         resolve_project_selection, start_turn, delete_new_chat
<1>2. ASSUME NEW x \in Submits \cup {"lifecycle"}, x # t, ensure_workspace(x) \/ initialization_failed(x)
      PROVE  req'[t] = req[t]
  BY <1>0, <1>2 DEF ensure_workspace, initialization_failed
<1>3. CASE Administration
  BY <1>0, <1>3 DEF Administration, create_sandbox_container, delete_sandbox_container, set_status,
     update_work_project_metadata, retry_work_project, delete_session, write_metadata,
     cancel_work_project, cancel_sessions, create_work_project_session, insert_project_session,
     delete_session_records, delete_work_project, delete_project_row
<1>4. (\E s \in Sessions : turn_ends(s)) \/ UNCHANGED boxVars => req'[t] = req[t]
  BY DEF turn_ends, boxVars
<1> QED BY <1>1, <1>2, <1>3, <1>4 DEF BoxNext, Serves

(* A step that serves a message takes it along its own way, and what it    *)
(* needs of its workspace has been seen by then (resolve_status and the    *)
(* other checks, in their order).                                          *)
LEMMA ServedIsGrounded ==
    ASSUME BoxTypes, NEW t \in Submits, Serves(t), Route(req[t]), Needs(req[t]) \subseteq seen[t]
    PROVE  Route(req'[t]) /\ Needs(req'[t]) \subseteq seen[t] \cup Facts'
<1> USE DEF ChatOnly, ProjOnly, Making
<1> DEFINE q == req[t]
           n == req'[t]
<1>0. /\ req = [x \in Requests |-> req[x]] /\ t \in Requests
      /\ q \in BoxRequests /\ q.s \in {"chat", "proj"}
  BY DEF BoxTypes, Requests, BoxRequests, Sessions
(* Most steps go to a counter that needs nothing.                           *)
<1>1. ASSUME Route(n), n.pc \notin {"exists", "status", "start"}
      PROVE  Route(n) /\ Needs(n) \subseteq seen[t] \cup Facts'
  BY <1>1 DEF Needs
<1>2. ASSUME NEW l \in PCs, Goto(t, l) PROVE n.pc = l /\ n.s = q.s /\ n.back = q.back /\ n.box = q.box
  BY <1>0, <1>2 DEF Goto, BoxRequests
<1>3. ASSUME Done(t) PROVE Route(n) /\ n.pc = "done"
  BY <1>0, <1>3 DEF Done, Idle, Route
<1>4. ASSUME refuse(t) PROVE Route(n) /\ n.pc \in {"done", "discard"}
  BY <1>0, <1>2, <1>3, <1>4 DEF refuse, Route, PCs
<1>5. ASSUME NEW l \in PCs, NEW v \in BoxIds, Keep(t, l, "box", v)
      PROVE  n.pc = l /\ n.s = q.s /\ n.back = q.back /\ n.box = v
  BY <1>0, <1>5 DEF Keep, BoxRequests
<1>6. ASSUME NEW l \in PCs, NEW v \in BoxIds, Keep(t, l, "sel", v)
      PROVE  n.pc = l /\ n.s = q.s /\ n.back = q.back /\ n.box = q.box
  BY <1>0, <1>6 DEF Keep, BoxRequests
<1>7. q.back \in PCs /\ q.box \in BoxIds /\ q.want \in BoxIds /\ project.bound \in BoxIds /\ None \in BoxIds
  BY <1>0 DEF BoxRequests, PCs, BoxTypes, BoxIds
<1> USE DEF At, Begins
<1> SUFFICES Route(n) /\ Needs(n) \subseteq seen[t] \cup Facts'
  OBVIOUS
<1> HIDE DEF n
<1>a. CASE \/ \E s \in Sessions, b \in BoxIds : submit_user_turn(t, s, b)
           \/ \E b \in BoxIds : submit_new_chat_turn(t, b) \/ select_workspace(t, b)
  <2>1. n.pc = "select" \/ (n.pc = "switch" /\ n.s = "chat")
    BY <1>a, <1>0 DEF submit_user_turn, submit_new_chat_turn, select_workspace, Idle, n
  <2> QED BY <2>1, <1>1 DEF Route
<1>b. CASE apply_turn_sandbox_selection(t)
  <2> DEFINE m == meta[q.s]
  <2>1. m.sel \in BoxIds
    BY <1>0 DEF BoxTypes, Sessions
  <2>2. CASE refuse(t)
    BY <2>2, <1>4, <1>1
  <2>3. CASE Keep(t, "bound", "sel", m.sel) /\ q.s = "proj"
    BY <2>3, <2>1, <1>6, <1>1 DEF Route, PCs
  <2>4. CASE req' = [req EXCEPT ![t].pc = "default", ![t].back = "switch"] /\ q.s = "chat"
    <3>1. n.pc = "default" /\ n.back = "switch" /\ n.s = "chat"
      BY <2>4, <1>0 DEF n, BoxRequests
    <3> QED BY <3>1, <1>1 DEF Route
  <2>5. CASE Goto(t, "access")
    BY <2>5, <1>2, <1>1 DEF Route, PCs
  <2>6. CASE Keep(t, "switch", "box", q.want) /\ q.s = "chat"
    BY <2>6, <1>5, <1>7, <1>1 DEF Route, PCs
  <2>7. \/ refuse(t)
        \/ Keep(t, "bound", "sel", m.sel) /\ q.s = "proj"
        \/ req' = [req EXCEPT ![t].pc = "default", ![t].back = "switch"] /\ q.s = "chat"
        \/ Goto(t, "access")
        \/ Keep(t, "switch", "box", q.want) /\ q.s = "chat"
    BY <1>b, <1>0 DEF apply_turn_sandbox_selection
  <2> QED BY <2>2, <2>3, <2>4, <2>5, <2>6, <2>7
<1>c. CASE \/ read_project_workspace(t) \/ sync_project_session(t) \/ update_selected_sandbox_container(t)
           \/ resolve_new_selection(t) \/ update_session_sandbox_container(t)
           \/ invalidate_session_tool_binding(t) \/ delete_new_chat(t) \/ start_turn(t)
  <2>1. \/ refuse(t) \/ Done(t)
        \/ Goto(t, "access")
        \/ Goto(t, "resolve") /\ q.s = "chat"
        \/ Goto(t, "write") /\ q.s = "chat"
        \/ Goto(t, "invalidate") /\ q.s = "chat"
        \/ Keep(t, "sync", "box", project.bound) /\ q.s = "proj"
    BY <1>c DEF read_project_workspace, sync_project_session, update_selected_sandbox_container,
       resolve_new_selection, update_session_sandbox_container, invalidate_session_tool_binding,
       delete_new_chat, start_turn, Route
  <2> QED BY <2>1, <1>1, <1>2, <1>3, <1>4, <1>5, <1>7 DEF Route, PCs
<1>d. CASE ensure_default_portable_workspace(t)
  <2>1. q.pc = "default" /\ \E l \in {"ensure", "restart", q.back}, b \in Boxes : Keep(t, l, "box", b)
    BY <1>d DEF ensure_default_portable_workspace
  <2>2. PICK l \in {"ensure", "restart", q.back}, b \in Boxes : Keep(t, l, "box", b)
    BY <2>1
  <2>3. n.pc = l /\ n.s = q.s /\ n.back = q.back
    BY <2>2, <1>5, <1>7 DEF PCs, BoxIds
  <2> QED BY <2>1, <2>3, <1>0, <1>1 DEF Route
<1>e. CASE start_default(t) \/ ensure_workspace(t) \/ initialization_failed(t)
  <2>1. /\ q.pc \in Making
        /\ Goto(t, "ensure") \/ Goto(t, "failed") \/ Goto(t, q.back)
    BY <1>e DEF start_default, ensure_workspace, initialization_failed
  <2>2. n.pc \in {"ensure", "failed", q.back} /\ n.s = q.s /\ n.back = q.back
    BY <2>1, <1>2, <1>7 DEF PCs
  <2> QED BY <2>1, <2>2, <1>0, <1>1 DEF Route
<1>f. CASE submit_turn(t)
  <2>1. CASE Keep(t, "context", "checked", epoch)
    <3>1. n.pc = "context"
      BY <2>1, <1>0 DEF Keep, n, BoxRequests
    <3> QED BY <3>1, <1>1 DEF Route
  <2> QED BY <2>1, <1>f, <1>1, <1>4 DEF submit_turn
<1>g. CASE build_runtime_context(t)
  <2>1. /\ n.s = q.s /\ n.back = IF q.s = "proj" THEN "allowed" ELSE "binding"
        /\ n.pc \in {"default", n.back}
    BY <1>g, <1>0 DEF build_runtime_context, n, BoxRequests
  <2> QED BY <2>1, <1>0, <1>1 DEF Route
<1>h. ASSUME NEW l \in PCs, Keep(t, "start", "box", None) PROVE Route(n) /\ Needs(n) \subseteq seen[t] \cup Facts'
  <2>1. n.pc = "start" /\ n.box = None
    BY <1>h, <1>5, <1>7 DEF PCs
  <2> QED BY <2>1 DEF Route, Needs
<1>i. CASE resolve_owner(t) \/ resolve_status(t) \/ resolve_project_binding(t) \/ resolve_project_selection(t)
  <2>0. UNCHANGED <<box, project>>
    BY <1>i DEF resolve_owner, resolve_status, resolve_project_binding, resolve_project_selection
  <2>1. ASSUME NEW b \in Boxes
        PROVE  /\ resolve_selection(b) => <<"mine", b>> \in Facts'
               /\ Running(b) => <<"up", b>> \in Facts'
               /\ Running(b) /\ project.bound = b => <<"bound", b>> \in Facts'
    <3>1. Facts' = Facts
      BY <2>0 DEF Facts, Exists
    <3> QED BY <3>1, FactsHold
  <2>2. ASSUME Exists(q.box) \/ Running(q.box) PROVE q.box \in Boxes
    BY <2>2, <1>7 DEF Exists, Running, BoxIds
  <2>3. CASE resolve_owner(t)
    <3>1. q.s = "chat"
      BY <2>3 DEF resolve_owner, Route
    <3>2. CASE resolve_selection(q.box)
      <4>1. Goto(t, "status") /\ q.box \in Boxes
        BY <2>3, <3>2, <2>2 DEF resolve_owner, resolve_selection
      <4>2. n.pc = "status" /\ n.s = q.s /\ n.box = q.box
        BY <4>1, <1>2 DEF PCs
      <4>3. Needs(n) = {<<"mine", q.box>>}
        BY <3>1, <4>2 DEF Needs
      <4>4. Route(n)
        BY <4>2 DEF Route
      <4>5. <<"mine", q.box>> \in Facts'
        BY <2>1, <3>2, <4>1
      <4> QED BY <4>3, <4>4, <4>5
    <3> QED BY <3>2, <2>3, <1>h, <1>7 DEF resolve_owner
  <2>4. CASE resolve_status(t)
    <3>1. q.pc = "status"
      BY <2>4 DEF resolve_status
    <3>2. CASE Running(q.box)
      <4>1. Goto(t, "start") /\ q.box \in Boxes
        BY <2>4, <3>2, <2>2 DEF resolve_status
      <4>2. n.pc = "start" /\ n.s = q.s /\ n.box = q.box
        BY <4>1, <1>2 DEF PCs
      <4>3. <<"up", q.box>> \in Facts'
        BY <2>1, <3>2, <4>1
      <4>4. /\ q.s = "proj" => <<"bound", q.box>> \in seen[t]
            /\ q.s = "chat" => <<"mine", q.box>> \in seen[t]
        BY <3>1 DEF Needs
      <4>5. Needs(n) \subseteq IF n.s = "proj" THEN {<<"bound", n.box>>} ELSE {<<"mine", n.box>>, <<"up", n.box>>}
        BY <4>2 DEF Needs
      <4>6. Route(n)
        BY <4>2 DEF Route
      <4> QED BY <4>2, <4>3, <4>4, <4>5, <4>6, <1>0
    <3> QED BY <3>2, <2>4, <1>h, <1>7 DEF resolve_status
  <2>5. CASE resolve_project_binding(t)
    <3>2. CASE work_project_allows(q.box)
      <4>1. Goto(t, "exists") /\ q.box \in Boxes /\ q.s = "proj"
        BY <2>5, <3>2, <2>2 DEF resolve_project_binding, work_project_allows, Route
      <4>2. n.pc = "exists" /\ n.s = q.s /\ n.box = q.box
        BY <4>1, <1>2 DEF PCs
      <4>3. <<"bound", q.box>> \in Facts'
        BY <2>1, <3>2, <4>1 DEF work_project_allows
      <4>4. Needs(n) = {<<"bound", q.box>>}
        BY <4>2 DEF Needs
      <4>5. Route(n)
        BY <4>1, <4>2 DEF Route
      <4> QED BY <4>3, <4>4, <4>5
    <3> QED BY <3>2, <2>5, <1>h, <1>7 DEF resolve_project_binding
  <2>6. CASE resolve_project_selection(t)
    <3>2. CASE Exists(q.box)
      <4>1. Goto(t, "status") /\ q.s = "proj" /\ <<"bound", q.box>> \in seen[t]
        BY <2>6, <3>2 DEF resolve_project_selection, Route, Needs
      <4>2. n.pc = "status" /\ n.s = q.s /\ n.box = q.box
        BY <4>1, <1>2 DEF PCs
      <4>3. Needs(n) = {<<"bound", q.box>>}
        BY <4>1, <4>2 DEF Needs
      <4>4. Route(n)
        BY <4>2 DEF Route
      <4> QED BY <4>1, <4>3, <4>4
    <3> QED BY <3>2, <2>6, <1>h, <1>7 DEF resolve_project_selection
  <2> QED BY <1>i, <2>3, <2>4, <2>5, <2>6
<1> QED BY <1>a, <1>b, <1>c, <1>d, <1>e, <1>f, <1>g, <1>i DEF Serves, Submission, n, BoxIds

(* So every message rests on what was seen while it was served.            *)
LEMMA GroundedStep == BoxTypes /\ Grounded /\ [BoxNext]_boxVars => Grounded'
<1> SUFFICES ASSUME BoxTypes, Grounded, [BoxNext]_boxVars, NEW t \in Submits
             PROVE  Route(req'[t]) /\ Needs(req'[t]) \subseteq seen'[t]
  BY DEF Grounded
<1>1. CASE UNCHANGED boxVars
  BY <1>1 DEF boxVars, Grounded
<1>2. CASE BoxNext
  <2>1. seen'[t] = IF req'[t].pc = "done" THEN {} ELSE seen[t] \cup Facts'
    BY <1>2 DEF BoxNext
  <2>2. Route(req'[t]) /\ Needs(req'[t]) \subseteq seen[t] \cup Facts'
    <3>1. CASE req'[t] = req[t]
      BY <3>1 DEF Grounded
    <3> QED BY <3>1, OwnSteps, ServedIsGrounded DEF Grounded
  <2>3. req'[t].pc = "done" => Needs(req'[t]) = {}
    BY DEF Needs
  <2> QED BY <2>1, <2>2, <2>3
<1> QED BY <1>1, <1>2

(* A message is let through to a project session only while the project is  *)
(* not canceled, and carries what it found.                                 *)
LEMMA ServedIsChecked ==
    ASSUME BoxTypes, NEW t \in Submits, Serves(t), Route(req[t]),
           req[t].s = "proj" /\ req[t].pc \in Passed => UpToDate(req[t].checked),
           req'[t].s = "proj", req'[t].pc \in Passed
    PROVE  UpToDate(req'[t].checked)
<1> USE DEF ChatOnly, ProjOnly, Making, Passed
<1> DEFINE q == req[t]
           n == req'[t]
<1>0. /\ req = [x \in Requests |-> req[x]] /\ t \in Requests
      /\ q \in BoxRequests /\ q.s \in {"chat", "proj"}
  BY DEF BoxTypes, Requests, BoxRequests, Sessions
<1>1. ASSUME n.checked = q.checked, q.s = "proj", q.pc \in Passed PROVE UpToDate(n.checked)
  BY <1>1
<1>2. ASSUME NEW l, Goto(t, l) PROVE n.pc = l /\ n.s = q.s /\ n.checked = q.checked
  BY <1>0, <1>2 DEF Goto, BoxRequests
<1>3. ASSUME Done(t) \/ refuse(t) PROVE FALSE
  BY <1>0, <1>2, <1>3 DEF Done, refuse, Idle
<1>5. ASSUME NEW l, NEW v, Keep(t, l, "box", v) \/ Keep(t, l, "sel", v)
      PROVE  n.pc = l /\ n.s = q.s /\ n.checked = q.checked
  BY <1>0, <1>5 DEF Keep, BoxRequests
<1> USE DEF At, Begins
<1> SUFFICES UpToDate(n.checked)
  OBVIOUS
<1> HIDE DEF n
<1>6. n.s = "proj" /\ n.pc \in Passed
  BY DEF n
<1>a. CASE \/ \E s \in Sessions, b \in BoxIds : submit_user_turn(t, s, b)
           \/ \E b \in BoxIds : submit_new_chat_turn(t, b) \/ select_workspace(t, b)
  <2>1. n.pc = "select" \/ n.pc = "switch"
    BY <1>a, <1>0 DEF submit_user_turn, submit_new_chat_turn, select_workspace, Idle, n
  <2> QED BY <2>1, <1>6
<1>b. CASE apply_turn_sandbox_selection(t)
  <2>1. \/ refuse(t)
        \/ Keep(t, "bound", "sel", meta[q.s].sel)
        \/ req' = [req EXCEPT ![t].pc = "default", ![t].back = "switch"] /\ q.s = "chat"
        \/ Goto(t, "access")
        \/ Keep(t, "switch", "box", q.want)
    BY <1>b, <1>0 DEF apply_turn_sandbox_selection
  <2>2. ASSUME req' = [req EXCEPT ![t].pc = "default", ![t].back = "switch"] /\ q.s = "chat" PROVE n.s = "chat"
    BY <2>2, <1>0 DEF n, BoxRequests
  <2> QED BY <2>1, <2>2, <1>2, <1>3, <1>5, <1>6
<1>c. CASE \/ read_project_workspace(t) \/ sync_project_session(t) \/ update_selected_sandbox_container(t)
           \/ resolve_new_selection(t) \/ update_session_sandbox_container(t)
           \/ invalidate_session_tool_binding(t) \/ delete_new_chat(t) \/ start_turn(t)
  <2>1. \/ refuse(t) \/ Done(t)
        \/ \E l \in {"access", "resolve", "write", "invalidate"} : Goto(t, l)
        \/ Keep(t, "sync", "box", project.bound)
    BY <1>c DEF read_project_workspace, sync_project_session, update_selected_sandbox_container,
       resolve_new_selection, update_session_sandbox_container, invalidate_session_tool_binding,
       delete_new_chat, start_turn
  <2> QED BY <2>1, <1>2, <1>3, <1>5, <1>6
<1>d. CASE \/ ensure_default_portable_workspace(t) \/ start_default(t) \/ ensure_workspace(t)
           \/ initialization_failed(t) \/ resolve_owner(t) \/ resolve_status(t)
           \/ resolve_project_binding(t) \/ resolve_project_selection(t)
  <2>1. /\ q.pc \in Passed
        /\ (\E l : Goto(t, l)) \/ (\E l, b : Keep(t, l, "box", b))
    BY <1>d DEF ensure_default_portable_workspace, start_default, ensure_workspace, initialization_failed,
       resolve_owner, resolve_status, resolve_project_binding, resolve_project_selection
  <2>2. n.s = q.s /\ n.checked = q.checked
    BY <2>1, <1>2, <1>5
  <2> QED BY <2>1, <2>2, <1>1, <1>6
<1>e. CASE submit_turn(t)
  <2>1. Keep(t, "context", "checked", epoch) /\ can_run_work_project_session(q.s)
    BY <1>e, <1>3 DEF submit_turn
  <2>2. n.checked = epoch /\ n.s = q.s
    BY <2>1, <1>0 DEF Keep, n, BoxRequests
  <2>3. project.status # "canceled" /\ epoch \in Nat
    BY <2>1, <2>2, <1>6 DEF can_run_work_project_session, can_create_work_project_session, BoxTypes
  <2> QED BY <2>2, <2>3 DEF UpToDate
<1>f. CASE build_runtime_context(t)
  <2>1. n.s = q.s /\ n.checked = q.checked /\ q.pc = "context"
    <3>1. q.pc = "context" /\ \E k, b, l : req' = [req EXCEPT ![t].pc = k, ![t].box = b, ![t].back = l]
      BY <1>f, Zenon DEF build_runtime_context
    <3>2. PICK k, b, l : req' = [req EXCEPT ![t].pc = k, ![t].box = b, ![t].back = l]
      BY <3>1
    <3> QED BY <3>1, <3>2, <1>0 DEF n, BoxRequests
  <2> QED BY <2>1, <1>1, <1>6
<1> QED BY <1>a, <1>b, <1>c, <1>d, <1>e, <1>f DEF Serves, Submission, BoxIds

(* What a step does to the project's status, its session and its turn.      *)
LEMMA ProjectMoves ==
    ASSUME BoxTypes, [BoxNext]_boxVars
    PROVE  /\ \/ epoch' = epoch /\ (project'.status = "canceled" => project.status = "canceled")
              \/ cancel_work_project /\ epoch' = epoch + 1
           /\ meta'["proj"].there => meta["proj"].there \/ insert_project_session
           /\ At("project", "cancel") => cancel_sessions \/ At("project", "cancel")'
           /\ At("project", "session")' => \/ At("project", "session") /\ project'.status = project.status
                                           \/ create_work_project_session
           /\ \/ turn'["proj"] = turn["proj"]
              \/ ~turn'["proj"].on
              \/ \E t \in Submits : /\ start_turn(t) /\ req[t].s = "proj"
                                    /\ turn'["proj"].checked = req[t].checked /\ turn'["proj"].started = epoch
<1> DEFINE Claim ==
           /\ \/ epoch' = epoch /\ (project'.status = "canceled" => project.status = "canceled")
              \/ cancel_work_project /\ epoch' = epoch + 1
           /\ meta'["proj"].there => meta["proj"].there \/ insert_project_session
           /\ At("project", "cancel") => cancel_sessions \/ At("project", "cancel")'
           /\ At("project", "session")' => \/ At("project", "session") /\ project'.status = project.status
                                           \/ create_work_project_session
           /\ \/ turn'["proj"] = turn["proj"]
              \/ ~turn'["proj"].on
              \/ \E t \in Submits : /\ start_turn(t) /\ req[t].s = "proj"
                                    /\ turn'["proj"].checked = req[t].checked /\ turn'["proj"].started = epoch
<1> SUFFICES Claim
  OBVIOUS
<1> USE DEF At, Begins
<1>0. /\ "chat" \in Sessions /\ "proj" \in Sessions /\ "chat" # "proj" /\ ~NoTurn.on
      /\ req = [x \in Requests |-> req[x]] /\ "project" \in Requests
      /\ \A t \in Submits \cup {"lifecycle"} : t \in Requests /\ t # "project"
  BY SubmitsAssumption DEF Sessions, BoxTypes, Requests, NoTurn
<1>1. ASSUME NEW ss, Stopped(ss)
      PROVE  /\ meta'["proj"].there => meta["proj"].there
             /\ turn'["proj"] = turn["proj"] \/ ~turn'["proj"].on
  BY <1>1, <1>0 DEF Stopped, BoxTypes
<1>2. ASSUME NEW t \in Submits \cup {"lifecycle"}, 
             (t \in Submits /\ Submission(t)) \/ ensure_workspace(t) \/ initialization_failed(t)
      PROVE  req'["project"] = req["project"]
  BY <1>2, <1>0 DEF Goto, Keep, Done, refuse, ensure_workspace, initialization_failed,
         Submission, submit_user_turn, submit_new_chat_turn, select_workspace,
         apply_turn_sandbox_selection, read_project_workspace, sync_project_session,
         update_selected_sandbox_container, resolve_new_selection, update_session_sandbox_container,
         invalidate_session_tool_binding, ensure_default_portable_workspace, start_default, submit_turn,
         build_runtime_context, resolve_owner, resolve_status, resolve_project_binding,
         resolve_project_selection, start_turn, delete_new_chat
<1>3. ASSUME NEW t \in Submits, Submission(t) PROVE Claim
  <2>1. \/ turn'["proj"] = turn["proj"]
        \/ ~turn'["proj"].on
        \/ \E x \in Submits : /\ start_turn(x) /\ req[x].s = "proj"
                              /\ turn'["proj"].checked = req[x].checked /\ turn'["proj"].started = epoch
    <3>1. CASE start_turn(t)
      <4>1. \/ turn' = turn
            \/ turn' = [turn EXCEPT ![req[t].s] = [on |-> TRUE, box |-> req[t].box,
                                                   checked |-> req[t].checked, started |-> epoch]]
        BY <3>1 DEF start_turn
      <4>2. CASE req[t].s = "proj"
        <5>1. CASE turn' = turn
          BY <5>1
        <5>2. CASE turn' # turn
          <6>1. turn'["proj"] = [on |-> TRUE, box |-> req[t].box, checked |-> req[t].checked, started |-> epoch]
            BY <4>1, <4>2, <5>2, <1>0 DEF BoxTypes
          <6>2. turn'["proj"].checked = req[t].checked /\ turn'["proj"].started = epoch
            BY <6>1
          <6> QED BY <6>2, <4>2, <3>1
        <5> QED BY <5>1, <5>2
      <4>3. CASE req[t].s # "proj"
        BY <4>1, <4>3, <1>0 DEF BoxTypes
      <4> QED BY <4>2, <4>3
    <3>2. CASE invalidate_session_tool_binding(t)
      BY <3>2, <1>1 DEF invalidate_session_tool_binding
    <3>3. CASE delete_new_chat(t)
      BY <3>3, <1>0 DEF delete_new_chat, BoxTypes
    <3>4. CASE turn' = turn
      BY <3>4
    <3> QED BY <3>1, <3>2, <3>3, <3>4, <1>3 DEF Submission, submit_user_turn, submit_new_chat_turn,
         select_workspace, apply_turn_sandbox_selection, read_project_workspace, sync_project_session,
         update_selected_sandbox_container, resolve_new_selection, update_session_sandbox_container,
         ensure_default_portable_workspace, start_default, submit_turn, build_runtime_context,
         resolve_owner, resolve_status, resolve_project_binding, resolve_project_selection
  <2> QED BY <2>1, <1>2, <1>3, SubmissionKeeps
<1>4. ASSUME NEW t \in Submits \cup {"lifecycle"}, ensure_workspace(t) \/ initialization_failed(t) PROVE Claim
  BY <1>4, <1>2 DEF ensure_workspace, initialization_failed
<1>5. ASSUME NEW s \in Sessions, turn_ends(s) PROVE Claim
  BY <1>5, <1>1 DEF turn_ends
<1>6. CASE Administration
  <2>1. ASSUME \/ \E o \in Owners : create_sandbox_container(o)
               \/ \E b \in Boxes : \/ delete_sandbox_container(b)
                                   \/ \E st \in {"running", "stopped", "paused"} : set_status(b, st)
        PROVE  Claim
    <3>1. UNCHANGED <<meta, turn, epoch>> /\ project'.status = project.status
      BY <2>1 DEF create_sandbox_container, delete_sandbox_container, set_status, BoxTypes
    <3>2. req'["project"] = req["project"]
      BY <2>1, <1>0 DEF create_sandbox_container, delete_sandbox_container, set_status
    <3> QED BY <3>1, <3>2
  <2>2. ASSUME \/ \E b \in Boxes \cup {None} : update_work_project_metadata(b)
               \/ \E st \in {"working", "completed"} : retry_work_project(st)
        PROVE  Claim
    <3>1. /\ UNCHANGED <<meta, turn, epoch>> /\ (project'.status = "canceled" => project.status = "canceled")
          /\ req["project"].pc = "done" /\ \E l \in {"metadata", "done"} : \E b : ProjectRequest(l, b)
      BY <2>2 DEF update_work_project_metadata, retry_work_project, ProjectRequest, BoxTypes
    <3>2. req'["project"].pc \in {"metadata", "done"}
      BY <3>1, <1>0 DEF ProjectRequest, Idle
    <3> QED BY <3>1, <3>2
  <2>3. CASE cancel_work_project
    <3>1. epoch' = epoch + 1 /\ meta' = meta /\ turn' = turn /\ req["project"].pc = "done"
          /\ req'["project"].pc \in {"done", "cancel"}
      BY <2>3, <1>0 DEF cancel_work_project, ProjectRequest, Idle
    <3> QED BY <3>1, <2>3
  <2>4. CASE cancel_sessions
    BY <2>4, <1>0, <1>1 DEF cancel_sessions, Done, Idle
  <2>5. CASE create_work_project_session
    BY <2>5, <1>0 DEF create_work_project_session, ProjectRequest
  <2>6. CASE insert_project_session \/ delete_project_row
    BY <2>6, <1>0 DEF insert_project_session, delete_project_row, Done, Idle
  <2>7. CASE write_metadata
    <3>1. meta'["proj"].there = meta["proj"].there
      BY <2>7, <1>0 DEF write_metadata, BoxTypes
    <3> QED BY <3>1, <2>7, <1>0 DEF write_metadata, Done, Idle
  <2>8. ASSUME NEW s \in Sessions, delete_session(s) PROVE Claim
    <3>1. meta'["proj"].there => meta["proj"].there
      BY <2>8, <1>0 DEF delete_session, BoxTypes
    <3>2. turn'["proj"] = turn["proj"] \/ ~turn'["proj"].on
      BY <2>8, <1>0 DEF delete_session, BoxTypes
    <3>3. req'["project"].pc = "unsession" /\ req["project"].pc = "done"
      BY <2>8, <1>0 DEF delete_session, Idle
    <3> QED BY <3>1, <3>2, <3>3, <2>8 DEF delete_session
  <2>9. CASE delete_session_records
    <3>1. meta'["proj"].there => meta["proj"].there
      BY <2>9, <1>0 DEF delete_session_records, BoxTypes, NoMeta
    <3>2. req'["project"].pc \in {"unproject", "done"} /\ req["project"].pc = "unsession"
      BY <2>9, <1>0 DEF delete_session_records, Goto, Done, Idle, BoxTypes, BoxRequests
    <3> QED BY <3>1, <3>2, <2>9 DEF delete_session_records
  <2>10. CASE delete_work_project
    <3>1. meta'["proj"].there => meta["proj"].there
      BY <2>10, <1>0 DEF delete_work_project, BoxTypes
    <3>2. turn'["proj"] = turn["proj"] \/ ~turn'["proj"].on
      BY <2>10, <1>0 DEF delete_work_project, BoxTypes
    <3>3. req'["project"].pc \in {"unproject", "unsession"} /\ req["project"].pc = "done"
      BY <2>10, <1>0 DEF delete_work_project, Idle
    <3> QED BY <3>1, <3>2, <3>3, <2>10 DEF delete_work_project
  <2> QED BY <1>6, <2>1, <2>2, <2>3, <2>4, <2>5, <2>6, <2>7, <2>8, <2>9, <2>10 DEF Administration
<1>7. CASE UNCHANGED boxVars
  BY <1>7 DEF boxVars
<1> QED BY <1>3, <1>4, <1>5, <1>6, <1>7 DEF BoxNext

(* No message and no turn outlives a cancellation unseen: the epoch counts *)
(* the cancellations, and each carries the epoch of its last check.        *)
LEMMA CheckedStep == BoxTypes /\ Grounded /\ Checked /\ [BoxNext]_boxVars => Checked'
<1> SUFFICES ASSUME BoxTypes, Grounded, Checked, [BoxNext]_boxVars PROVE Checked'
  OBVIOUS
<1>1. ASSUME NEW n \in Nat, UpToDate(n) PROVE UpToDate(n)'
  BY <1>1, ProjectMoves DEF UpToDate, BoxTypes
<1>2. ASSUME NEW t \in Submits, req'[t].s = "proj", req'[t].pc \in Passed PROVE UpToDate(req[t].checked)'
  <2>1. req'[t].checked \in Nat
    BY BoxTypesStep DEF BoxTypes, BoxRequests, Requests
  <2>2. UpToDate(req'[t].checked)
    BY <1>2, OwnSteps, ServedIsChecked DEF Checked, Grounded
  <2>3. (epoch' = epoch /\ (project'.status = "canceled" => project.status = "canceled")) \/ epoch' = epoch + 1
    BY ProjectMoves
  <2> QED BY <2>1, <2>2, <2>3 DEF UpToDate, BoxTypes
<1>3. turn'["proj"].on => UpToDate(turn["proj"].checked)'
  <2> SUFFICES ASSUME turn'["proj"].on PROVE UpToDate(turn["proj"].checked)'
    OBVIOUS
  <2>1. turn'["proj"].checked \in Nat
    BY BoxTypesStep DEF BoxTypes, Sessions
  <2>2. UpToDate(turn'["proj"].checked)
    BY ProjectMoves DEF Checked, start_turn, At, Passed
  <2>3. (epoch' = epoch /\ (project'.status = "canceled" => project.status = "canceled")) \/ epoch' = epoch + 1
    BY ProjectMoves
  <2> QED BY <2>1, <2>2, <2>3 DEF UpToDate, BoxTypes
<1>4. At("project", "session")' => project'.status # "canceled"
  BY ProjectMoves DEF Checked, create_work_project_session, can_create_work_project_session
<1>5. ASSUME project'.status = "canceled", ~At("project", "cancel")', meta'["proj"].there, turn'["proj"].on
      PROVE  turn'["proj"].started = epoch'
  <2>1. CASE cancel_work_project
    <3>1. /\ req'["project"].pc = (IF ProjectSessions = {} THEN "done" ELSE "cancel")
          /\ meta' = meta
      BY <2>1 DEF cancel_work_project, ProjectRequest, BoxTypes, Requests
    <3> QED BY <3>1, <1>5 DEF At, ProjectSessions
  <2>2. CASE cancel_sessions
    BY <2>2, <1>5 DEF cancel_sessions, Stopped, Sessions, NoTurn
  <2>3. CASE ~cancel_work_project /\ ~cancel_sessions
    <3>1. epoch' = epoch /\ project.status = "canceled" /\ ~At("project", "cancel")
      BY <2>3, <1>5, ProjectMoves
    <3>2. meta["proj"].there
      BY <3>1, <1>5, ProjectMoves DEF Checked, insert_project_session
    <3> QED BY <3>1, <3>2, <1>5, ProjectMoves DEF Checked
  <2> QED BY <2>1, <2>2, <2>3
<1> QED BY <1>2, <1>3, <1>4, <1>5 DEF Checked

(* A turn is only started in a workspace that the sender owned, or that    *)
(* the project was bound to, and that was running, when a step of this     *)
(* message looked; and the rows agree (service/agent/sessions.py,          *)
(* containers.py).                                                         *)
THEOREM WorkspacesAreGrounded == BoxSpec => [](BoxTypeOK /\ BindingIsGrounded)
<1>1. BoxInit => Grounded /\ Checked
  BY DEF BoxInit, Grounded, Checked, Route, Needs, Idle, NoTurn, NoMeta, ChatOnly, ProjOnly, Making, Passed, At,
     Sessions, Requests
<1>2. BoxInv => BoxTypeOK
  BY DEF BoxInv, BoxTypes, BoxTypeOK, RowsAgree, BoxRequests, BoxIds
<1>3. BoxInv => BindingIsGrounded
  BY DEF BoxInv, Grounded, Needs, BindingIsGrounded, At
<1>4. BoxInv /\ [BoxNext]_boxVars => BoxInv'
  BY BoxTypesStep, RowsAgreeStep, GroundedStep, CheckedStep DEF BoxInv
<1> QED BY <1>1, <1>2, <1>3, <1>4, BoxTypesInit, PTL DEF BoxSpec, BoxInv

(* A canceled project has no turn but one that was let through before the  *)
(* cancellation and started after its sessions were stopped                *)
(* (cancel_work_project, start_turn).                                      *)
THEOREM CanceledProjectIsQuiet == BoxSpec => []CanceledIsQuiet
<1>1. BoxInit => Grounded /\ Checked
  BY DEF BoxInit, Grounded, Checked, Route, Needs, Idle, NoTurn, NoMeta, ChatOnly, ProjOnly, Making, Passed, At,
     Sessions, Requests
<1>2. BoxInv => CanceledIsQuiet
  BY DEF BoxInv, BoxTypes, Checked, CanceledIsQuiet, UpToDate, At, Sessions
<1>4. BoxInv /\ [BoxNext]_boxVars => BoxInv'
  BY BoxTypesStep, RowsAgreeStep, GroundedStep, CheckedStep DEF BoxInv
<1> QED BY <1>1, <1>2, <1>4, BoxTypesInit, PTL DEF BoxSpec, BoxInv

-----------------------------------------------------------------------------
(* Tool runs.                                                              *)

(* What the parts of a run know of each other: a process is registered as   *)
(* long as its task awaits it, and a cancellation reaches a task only when  *)
(* its process has been killed.                                             *)
RunInv ==
    /\ RTypeOK
    /\ \A r \in Runs :
         /\ rpc[r] \in {"none", "validate", "spawn"} => proc[r] = "none"
         /\ rpc[r] \in {"kill", "done"} => proc[r] # "alive"
         /\ rpc[r] \in {"wait", "kill"} <=> r \in registered
         /\ rpc[r] = "wait" /\ r \in hit => proc[r] = "dead"
         /\ rpc[r] = "wait" => proc[r] # "none"
         /\ status[r] = "running" <=> rpc[r] \in {"validate", "spawn", "wait", "kill"}
    /\ \A c \in Cancels : cpc[c] = "killed" => proc[of[c]] = "dead"

(* No run and no process at the start.                                     *)
LEMMA RunInit == RInit => RunInv
<1> SUFFICES ASSUME RInit PROVE RunInv
  OBVIOUS
<1>1. (CHOOSE r \in Runs : TRUE) \in Runs
  BY RunsAssumption
<1> QED BY <1>1 DEF RInit, RunInv, RTypeOK, RunPC, Finals

(* Starting, canceling, ending and restarting keep a run and its process   *)
(* together.                                                               *)
LEMMA RunStep == RunInv /\ [RNext]_toolVars => RunInv'
<1> SUFFICES ASSUME RunInv, [RNext]_toolVars PROVE RunInv'
  OBVIOUS
<1> USE DEF RunInv, RTypeOK, RunPC, Finals, Outcome, Resumes, Ends
<1>1. ASSUME NEW r \in Runs, start_tool_run(r) PROVE RunInv'
  BY <1>1 DEF start_tool_run
<1>2. ASSUME NEW r \in Runs, process_exits(r) PROVE RunInv'
  BY <1>2 DEF process_exits
<1>3. ASSUME NEW r \in Runs, validate(r) PROVE RunInv'
  BY <1>3 DEF validate
<1>4. ASSUME NEW r \in Runs, spawn(r) PROVE RunInv'
  BY <1>4 DEF spawn
<1>5. ASSUME NEW r \in Runs, timeout(r) PROVE RunInv'
  BY <1>5 DEF timeout
<1>6. ASSUME NEW r \in Runs, timed_out(r) PROVE RunInv'
  BY <1>6 DEF timed_out
<1>7. ASSUME NEW r \in Runs, task_canceled(r) PROVE RunInv'
  BY <1>7 DEF task_canceled
<1>8. ASSUME NEW r \in Runs, NEW st \in Outcome, communicate_returns(r, st) PROVE RunInv'
  BY <1>8 DEF communicate_returns
<1>9. ASSUME NEW c \in Cancels, NEW r \in Runs, cancel_tool_run(c, r) PROVE RunInv'
  BY <1>9 DEF cancel_tool_run, Cancels_task
<1>10. ASSUME NEW c \in Cancels, process_waited_for(c) PROVE RunInv'
  BY <1>10 DEF process_waited_for, Cancels_task
<1>11. ASSUME NEW c \in Cancels, cancel_answers(c) PROVE RunInv'
  BY <1>11 DEF cancel_answers
<1>12. CASE workspace_stops
  BY <1>12 DEF workspace_stops
<1>13. CASE UNCHANGED toolVars
  BY <1>13 DEF toolVars
<1> QED BY <1>1, <1>2, <1>3, <1>4, <1>5, <1>6, <1>7, <1>8, <1>9, <1>10, <1>11, <1>12, <1>13
        DEF RNext, Task

(* However a run ends - by itself, canceled, timed out or with the service *)
(* - it leaves no process, and one that is running has its task            *)
(* (service/toolpack.py).                                                  *)
THEOREM RunsOwnTheirProcess == RSpec => [](RTypeOK /\ RunsHaveTheirProcess)
<1>1. RunInv => RTypeOK /\ RunsHaveTheirProcess
  BY DEF RunInv, RunsHaveTheirProcess, EndedHasNoProcess, RunningHasTask
<1> QED BY <1>1, RunInit, RunStep, PTL DEF RSpec

-----------------------------------------------------------------------------
(* Files: where the versions of a file are, and which writer holds the     *)
(* version it has taken away.                                              *)

Stored == ({target} \cup backups \cup dropped) \ {Empty}

Holds(w) == wpc[w] \in {"write", "publish", "broken", "restore"} /\ kept[w] # Empty

(* Nothing has kept a writer from putting back what it took away.          *)
Undisturbed(w) == upset[w] \cap {"link", "cancel", "back"} = {}

(* Where a writer is says what became of its content, of its temporary     *)
(* file, and of what it took away.                                         *)
WriterFits(w) ==
    /\ wpc[w] \in {"clean", "ok"} => w \in Stored
    /\ wpc[w] = "new" => upset[w] = {}
    /\ wpc[w] = "leaving" => "cancel" \in upset[w]
    /\ upset[w] \cap {"link", "remove"} = {} /\ temp[w] # Empty => wpc[w] \in {"publish", "broken", "leaving"}
    /\ wpc[w] \in {"new", "backup", "move"} => kept[w] = Empty

(* What has been the file is stored, and while nobody deletes and no writer *)
(* is kept from putting it back, some version is the file or held by a     *)
(* writer that will put it back.                                           *)
FileInv ==
    /\ FTypeOK
    /\ stored \subseteq Stored
    /\ \A w \in Writers : WriterFits(w)
    /\ dropped = {} /\ Stored # {} /\ (\A w \in Writers : Undisturbed(w)) /\ target = Empty
       => \E w \in Writers : Holds(w)

(* There is no file and no request at the start.                           *)
LEMMA FileInit == FInit => FileInv
BY EmptyAssumption, DeletesAssumption
   DEF FInit, FileInv, FTypeOK, WriterPC, Upsets, Stored, Holds, Undisturbed, WriterFits

(* Writes, uploads, refusals, cancellations and deletions keep every       *)
(* version, and a failing write keeps what it took away.                   *)
LEMMA FileStep == FileInv /\ [FNext]_fileVars => FileInv'
<1> SUFFICES ASSUME FileInv, [FNext]_fileVars PROVE FileInv'
  OBVIOUS
<1> USE EmptyAssumption, DeletesAssumption
    DEF FileInv, FTypeOK, WriterPC, Upsets, Stored, Holds, Undisturbed, WriterFits, Step, Ended
<1>1. ASSUME NEW w \in Writers, write_container_file(w) PROVE FileInv'
  BY <1>1 DEF write_container_file
<1>2. ASSUME NEW w \in Writers, upload_refused(w) PROVE FileInv'
  BY <1>2 DEF upload_refused
<1>3. ASSUME NEW w \in Writers, replace_file_atomic(w) PROVE FileInv'
  BY <1>3 DEF replace_file_atomic
<1>4. ASSUME NEW w \in Writers, nothing_to_back_up(w) PROVE FileInv'
  BY <1>4 DEF nothing_to_back_up
<1>5. ASSUME NEW w \in Writers, backup_existing_file(w) PROVE FileInv'
  BY <1>5 DEF backup_existing_file
<1>6. ASSUME NEW w \in Writers, backup_refused(w) PROVE FileInv'
  BY <1>6 DEF backup_refused
<1>7. ASSUME NEW w \in Writers, write_bytes_atomic(w) PROVE FileInv'
  BY <1>7 DEF write_bytes_atomic, Linked
<1>8. ASSUME NEW w \in Writers, publish(w) PROVE FileInv'
  BY <1>8 DEF publish, rename_refused, Linked
<1>9. ASSUME NEW w \in Writers, remove_temp(w) PROVE FileInv'
  BY <1>9 DEF remove_temp, Linked
<1>10. ASSUME NEW w \in Writers, remove_refused(w) PROVE FileInv'
  BY <1>10 DEF remove_refused, Upset
<1>11. ASSUME NEW w \in Writers, put_back(w) PROVE FileInv'
  BY <1>11 DEF put_back, Upset, Linked
<1>12. ASSUME NEW w \in Writers, connection_lost(w) PROVE FileInv'
  BY <1>12 DEF connection_lost, Upset
<1>13. ASSUME NEW w \in Writers, canceled(w) PROVE FileInv'
  BY <1>13 DEF canceled, Upset
<1>14. CASE delete_files
  BY <1>14 DEF delete_files
<1>15. CASE UNCHANGED fileVars
  BY <1>15 DEF fileVars
<1> QED BY <1>1, <1>2, <1>3, <1>4, <1>5, <1>6, <1>7, <1>8, <1>9, <1>10, <1>11, <1>12, <1>13,
           <1>14, <1>15 DEF FNext

(* Nothing that has been the file is lost, a failed write puts back what   *)
(* was there, and no temporary file remains, whichever requests overlap,   *)
(* are refused or canceled, unless the clean-up itself fails               *)
(* (sandbox/files.py, remote_files.py).                                    *)
THEOREM FilesSurvive == FSpec => [](FTypeOK /\ FilesAreSafe)
<1>1. FileInv => FTypeOK /\ StoredIsKept /\ NoTempLeft
  BY DEF FileInv, WriterFits, Stored, StoredIsKept, NoTempLeft, Ended
<1>2. FileInv => FileSurvives
  BY EmptyAssumption DEF FileInv, FTypeOK, Stored, Holds, Undisturbed, FileSurvives, Ended
<1> QED BY <1>1, <1>2, FileInit, FileStep, PTL DEF FSpec, FilesAreSafe

-----------------------------------------------------------------------------
(* Inventory: the rows workspaces refer to, the egress of each, and what a *)
(* deletion has looked at.                                                 *)

Whole(e) == e.mode = "proxy" <=> e.proxy # 0

(* The record of a workspace, and of a deletion in progress.               *)
IsWorkspace(w) ==
    w \in [id : {w.id}, crossed : BOOLEAN, host : {w.host}, image : {w.image},
           user : {w.user}, mode : {w.mode}, proxy : {w.proxy}]

IsDeletion(o) == o \in [do : {"delete"}, row : {o.row}, late : BOOLEAN]

WorkspaceFits(w) == IsWorkspace(w) /\ (w.crossed \/ Whole(w))

OperationFits(o, taken) ==
    /\ o.do = "create" => Whole(o.ws)
    /\ o.do = "egress" => Whole(o.to)
    /\ o.do = "delete" => IsDeletion(o) /\ (o.row \in taken => o.late)

(* Workspaces refer to rows that are there and have a whole egress or are  *)
(* crossed; what is about to be written is whole, and a row about to be    *)
(* deleted is in use only if it came into use since it was looked at.      *)
InventoryInv ==
    /\ foreign_keys(rows, ws)
    /\ \A w \in ws : WorkspaceFits(w)
    /\ \A o \in op : OperationFits(o, InUse(ws))

(* A commit keeps the operations that were overtaken by it.                *)
LEMMA CommitKeeps ==
  ASSUME InventoryInv, NEW o, NEW newRows, NEW newWs, Commit(o, newRows, newWs),
         \A w \in newWs : WorkspaceFits(w)
  PROVE  InventoryInv'
<1>1. CASE ~foreign_keys(newRows, newWs)
  BY <1>1 DEF Commit, InventoryInv
<1>2. CASE foreign_keys(newRows, newWs)
  <2>1. /\ rows' = newRows /\ ws' = newWs
        /\ op' = Overtaken(op \ {o}, InUse(newWs) \ InUse(ws))
    BY <1>2 DEF Commit
  <2>2. foreign_keys(rows, ws)'
    BY <2>1, <1>2 DEF foreign_keys
  <2>3. (\A w \in ws : WorkspaceFits(w))'
    BY <2>1
  <2>4. ASSUME NEW p \in op' PROVE OperationFits(p, InUse(newWs))
    <3>1. PICK q \in op : p = IF q.do = "delete" /\ q.row \in InUse(newWs) \ InUse(ws)
                              THEN [q EXCEPT !.late = TRUE] ELSE q
      BY <2>1, <2>4 DEF Overtaken
    <3>2. OperationFits(q, InUse(ws))
      BY DEF InventoryInv
    <3>3. CASE q.do = "delete" /\ q.row \in InUse(newWs) \ InUse(ws)
      <4>1. p = [q EXCEPT !.late = TRUE] /\ IsDeletion(q)
        BY <3>1, <3>2, <3>3 DEF OperationFits
      <4>2. p \in [do : {"delete"}, row : {q.row}, late : {TRUE}]
        BY <4>1 DEF IsDeletion
      <4> QED BY <4>2 DEF OperationFits, IsDeletion
    <3>4. CASE ~(q.do = "delete" /\ q.row \in InUse(newWs) \ InUse(ws))
      BY <3>1, <3>2, <3>4 DEF OperationFits
    <3> QED BY <3>3, <3>4
  <2>5. (\A p \in op : OperationFits(p, InUse(ws)))'
    BY <2>1, <2>4
  <2> QED BY <2>2, <2>3, <2>5 DEF InventoryInv
<1> QED BY <1>1, <1>2

(* An operation that begins with what it looked at in order is kept.       *)
LEMMA BeginKeeps ==
  ASSUME InventoryInv, NEW o, Begin(o), OperationFits(o, InUse(ws)), UNCHANGED <<rows, ws>>
  PROVE  InventoryInv'
BY DEF InventoryInv, Begin

(* What an update writes is whole if it wrote over what it had read.       *)
LEMMA FlushFits ==
  ASSUME NEW o, NEW w, WorkspaceFits(w), Whole(o.to)
  PROVE  WorkspaceFits(Flushed(o, w))
<1> DEFINE f == Flushed(o, w)
<1>1. /\ IsWorkspace(f)
      /\ f.mode = (IF o.to.mode # o.was.mode THEN o.to.mode ELSE w.mode)
      /\ f.proxy = (IF o.to.proxy # o.was.proxy THEN o.to.proxy ELSE w.proxy)
      /\ f.crossed = (EgressOf(w) # o.was)
  BY DEF WorkspaceFits, IsWorkspace, Flushed
<1>2. CASE EgressOf(w) = o.was
  <2>1. o.was.mode = w.mode /\ o.was.proxy = w.proxy
    BY <1>2 DEF EgressOf
  <2>2. f.mode = o.to.mode /\ f.proxy = o.to.proxy
    BY <1>1, <2>1
  <2> QED BY <1>1, <2>2 DEF WorkspaceFits, Whole
<1>3. CASE EgressOf(w) # o.was
  BY <1>1, <1>3 DEF WorkspaceFits
<1> QED BY <1>2, <1>3

(* A host, image or proxy is looked at before it is deleted.               *)
LEMMA DeletionLooks ==
  ASSUME InventoryInv, NEW r, r \notin InUse(ws), delete_begins(r)
  PROVE  InventoryInv'
<1> DEFINE o == [do |-> "delete", row |-> r, late |-> FALSE]
<1>1. OperationFits(o, InUse(ws))
  BY DEF OperationFits, IsDeletion
<1>2. Begin(o) /\ UNCHANGED <<rows, ws>>
  BY DEF delete_begins
<1> HIDE DEF o
<1> QED BY <1>1, <1>2, BeginKeeps

LEMMA InventoryStep == InventoryInv /\ [InventoryNext]_inventoryVars => InventoryInv'
<1> SUFFICES ASSUME InventoryInv, [InventoryNext]_inventoryVars PROVE InventoryInv'
  OBVIOUS
<1>1. ASSUME NEW t, create_row(t) PROVE InventoryInv'
  BY <1>1 DEF create_row, InventoryInv, foreign_keys
<1>2. ASSUME NEW i, delete_managed_host(i) \/ delete_sandbox_image(i) \/ delete_egress_proxy(i)
      PROVE  InventoryInv'
  BY <1>2, DeletionLooks DEF delete_managed_host, delete_sandbox_image, delete_egress_proxy
<1>3. ASSUME NEW i, delete_system_user(i) PROVE InventoryInv'
  <2>0. \A r \in InUse(ws) : r[1] \in {"host", "image", "proxy"}
    BY DEF InUse, LookedAt
  <2>1. <<"user", i>> \notin InUse(ws)
    BY <2>0
  <2> QED BY <1>3, <2>1, DeletionLooks DEF delete_system_user
<1>4. ASSUME NEW w, create_checks(w) PROVE InventoryInv'
  <2> DEFINE o == [do |-> "create", ws |-> w]
  <2>1. Begin(o) /\ UNCHANGED <<rows, ws>> /\ Whole(w)
    BY <1>4 DEF create_checks, egress_allowed, Whole
  <2>2. OperationFits(o, InUse(ws))
    BY <2>1 DEF OperationFits
  <2> HIDE DEF o
  <2> QED BY <2>1, <2>2, BeginKeeps
<1>5. ASSUME NEW w, NEW e, egress_checks(w, e) PROVE InventoryInv'
  <2> DEFINE o == [do |-> "egress", id |-> w.id, was |-> EgressOf(w), to |-> e]
  <2>1. Begin(o) /\ UNCHANGED <<rows, ws>> /\ Whole(e)
    BY <1>5 DEF egress_checks, egress_allowed, Whole
  <2>2. OperationFits(o, InUse(ws))
    BY <2>1 DEF OperationFits
  <2> HIDE DEF o
  <2> QED BY <2>1, <2>2, BeginKeeps
<1>6. ASSUME NEW w, delete_container_row(w) PROVE InventoryInv'
  <2>1. ws' \subseteq ws /\ rows' = rows /\ op' = op
    BY <1>6 DEF delete_container_row
  <2>2. InUse(ws') \subseteq InUse(ws)
    BY <2>1 DEF InUse
  <2>3. \A o \in op : OperationFits(o, InUse(ws'))
    BY <2>2 DEF InventoryInv, OperationFits
  <2> QED BY <2>1, <2>3 DEF InventoryInv, foreign_keys
<1>7. ASSUME NEW o \in op, delete_commits(o) PROVE InventoryInv'
  <2>1. \A w \in ws : WorkspaceFits(w)
    BY DEF InventoryInv
  <2> QED BY <1>7, <2>1, CommitKeeps DEF delete_commits
<1>8. ASSUME NEW o \in op, create_commits(o) PROVE InventoryInv'
  <2>1. Whole(o.ws)
    BY <1>8 DEF create_commits, InventoryInv, OperationFits
  <2>2. WorkspaceFits(Created(o.ws))
    BY <2>1 DEF WorkspaceFits, IsWorkspace, Created, Whole
  <2>3. \A w \in ws \cup {Created(o.ws)} : WorkspaceFits(w)
    BY <2>2 DEF InventoryInv
  <2> QED BY <1>8, <2>3, CommitKeeps DEF create_commits
<1>9. ASSUME NEW o \in op, egress_commits(o) PROVE InventoryInv'
  <2>1. Whole(o.to)
    BY <1>9 DEF egress_commits, InventoryInv, OperationFits
  <2> DEFINE W == {IF w.id = o.id THEN Flushed(o, w) ELSE w : w \in ws}
  <2>2. \A w \in W : WorkspaceFits(w)
    BY <2>1, FlushFits DEF InventoryInv
  <2>3. Commit(o, rows, W)
    BY <1>9 DEF egress_commits
  <2> HIDE DEF W
  <2> QED BY <2>2, <2>3, CommitKeeps
<1>10. CASE UNCHANGED inventoryVars
  BY <1>10 DEF inventoryVars, InventoryInv, foreign_keys
<1> QED BY <1>1, <1>2, <1>3, <1>4, <1>5, <1>6, <1>7, <1>8, <1>9, <1>10 DEF InventoryNext,
           create_managed_host, create_sandbox_image, create_egress_proxy, create_system_user

(* Whatever is deleted, created or updated between a look and its commit,  *)
(* a workspace has a proxy exactly in the proxy mode, and it is there, and *)
(* the look of a deletion sees every use the foreign keys hold - but for   *)
(* updates that cross (egress_allowed, Flushed, delete_egress_proxy).      *)
THEOREM InventoryStaysSound == InventorySpec => []InventoryIsSound
<1>1. InventoryInit => InventoryInv
  BY DEF InventoryInit, InventoryInv, foreign_keys
<1>2. InventoryInv => EgressIsWhole
  BY DEF InventoryInv, foreign_keys, RefsOf, WorkspaceFits, Whole, EgressIsWhole
<1>3. InventoryInv => LookSeesUses
  <2> SUFFICES ASSUME InventoryInv, NEW o \in op, NEW w \in ws,
                      o.do = "delete", o.row[1] # "user", o.row \in RefsOf(w), ~w.crossed
               PROVE  o.late
    BY DEF LookSeesUses
  <2>1. o.row \in LookedAt(w)
    BY DEF InventoryInv, WorkspaceFits, Whole, RefsOf, LookedAt
  <2>2. o.row \in InUse(ws)
    BY <2>1 DEF InUse
  <2> QED BY <2>2 DEF InventoryInv, OperationFits
<1> QED BY <1>1, <1>2, <1>3, InventoryStep, PTL DEF InventorySpec, InventoryIsSound

-----------------------------------------------------------------------------
(* Host keys: only what was shown is sent for trusting and gets known.     *)

(* A key that is known, or about to be trusted, has been shown.             *)
KeyInv ==
    /\ known \in [Endpoints -> shown \cup {NoKey}]
    /\ keyCall.do = "trust" => keyCall.fp \in shown
    /\ host \in Endpoints
    /\ LinkedKeyWasShown

(* A connection is only made to a server whose key the user has been       *)
(* shown, although the host may move and its key change meanwhile          *)
(* (preview_managed_host_key, trust_managed_host_key).                     *)
THEOREM TrustedKeysWereShown == HostKeysSpec => []LinkedKeyWasShown
<1>1. HostKeysInit => KeyInv
  BY DEF HostKeysInit, KeyInv, LinkedKeyWasShown, NoCallYet
<1>2. KeyInv /\ [HostKeysNext]_keyVars => KeyInv'
  <2> SUFFICES ASSUME KeyInv, [HostKeysNext]_keyVars PROVE KeyInv'
    OBVIOUS
  <2> USE DEF KeyInv, LinkedKeyWasShown
  <2>1. ASSUME NEW e \in Endpoints, host_moves(e) \/ \E k \in HostKeySet : server_changes(e, k) PROVE KeyInv'
    BY <2>1 DEF host_moves, server_changes
  <2>2. ASSUME key_requested("preview", NoKey) \/ \E fp \in shown : key_requested("trust", fp) PROVE KeyInv'
    BY <2>2 DEF key_requested
  <2>3. CASE preview_managed_host_key
    BY <2>3 DEF preview_managed_host_key, NoCallYet
  <2>4. CASE trust_managed_host_key
    BY <2>4 DEF trust_managed_host_key, NoCallYet, Confirmed, write_known_host_key
  <2>5. CASE connect_managed_host
    BY <2>5 DEF connect_managed_host
  <2>6. CASE UNCHANGED keyVars
    BY <2>6 DEF keyVars
  <2> QED BY <2>1, <2>2, <2>3, <2>4, <2>5, <2>6 DEF HostKeysNext
<1> QED BY <1>1, <1>2, PTL DEF HostKeysSpec, KeyInv

-----------------------------------------------------------------------------
(* The proxy check: what each step of the dialogue has been granted.       *)

ChkRecords ==
  [proxy : Proxies,
   pc : {"connect", "wrap", "request", "methods", "password", "socks", "tls", "get", "done"},
   open : BOOLEAN, auth : {"none", "asked", "granted"}, tunnel : BOOLEAN,
   result : {"none", "failed", "refused", "success"}]

(* A test past the dialogue has its tunnel, and one that waits for the      *)
(* answer to the password cannot succeed.                                   *)
ChkInv ==
    /\ chk \in ChkRecords
    /\ chk.auth = "asked" => chk.pc \in {"password", "done"} /\ chk.result \in {"none", "failed"}
    /\ chk.pc \in {"tls", "get"} => chk.tunnel
    /\ chk.pc = "done" => ~chk.open
    /\ chk.result # "none" => chk.pc = "done"
    /\ chk.result = "success" => chk.tunnel

(* A proxy test that is over holds no socket, and one that succeeded went  *)
(* through a tunnel the proxy granted (egress_proxy/proxies.py).           *)
THEOREM GoodProxiesCarry == ProxyCheckSpec => []CheckedIsTunneled
<1>1. ProxyCheckInit => ChkInv
  BY DEF ProxyCheckInit, ChkInv, ChkRecords
<1>2. ChkInv /\ [ProxyCheckNext]_chk => ChkInv'
  <2> SUFFICES ASSUME ChkInv, [ProxyCheckNext]_chk PROVE ChkInv'
    OBVIOUS
  <2> USE DEF ChkInv, ChkRecords, On, ProxyStep, fails
  <2>1. CASE proxy_connects
    BY <2>1 DEF proxy_connects
  <2>2. CASE proxy_wraps \/ target_wraps \/ peer_fails
    BY <2>2 DEF proxy_wraps, target_wraps, peer_fails
  <2>8. ASSUME NEW result \in {"failed", "refused", "success"}, fails(result),
               chk.auth = "asked" => result = "failed", result = "success" => chk.tunnel
        PROVE  ChkInv'
    BY <2>8
  <2>3. ASSUME NEW s \in Nat, connect_answers(s) \/ target_answers(s) PROVE ChkInv'
    <3>1. CASE connect_answers(s) /\ s \in 200..299
      <4>1. chk' = [chk EXCEPT !.pc = "tls", !.tunnel = TRUE]
        BY <3>1 DEF connect_answers
      <4>2. chk.pc = "request"
        BY <3>1 DEF connect_answers
      <4>3. chk.auth # "asked" /\ chk.result = "none"
        BY <4>2
      <4>4. /\ chk'.pc = "tls" /\ chk'.tunnel
            /\ chk'.auth = chk.auth /\ chk'.result = chk.result
            /\ chk' \in ChkRecords
        BY <4>1
      <4> QED BY <4>3, <4>4
    <3>2. CASE connect_answers(s) /\ s \notin 200..299
      BY <3>2, <2>8 DEF connect_answers
    <3>3. CASE target_answers(s)
      BY <3>3, <2>8 DEF target_answers
    <3> QED BY <2>3, <3>1, <3>2, <3>3
  <2>4. ASSUME NEW m \in Nat, socks_method(m) PROVE ChkInv'
    <3>1. CASE m = 0
      BY <2>4, <3>1 DEF socks_method
    <3>2. CASE m = 2 /\ chk.proxy.account # "long"
      <4>1. chk' = [chk EXCEPT !.pc = "password", !.auth = "asked"]
        BY <2>4, <3>2 DEF socks_method
      <4>2. chk.result = "none"
        BY <2>4 DEF socks_method
      <4>3. /\ chk'.pc = "password" /\ chk'.auth = "asked" /\ chk'.result = "none"
            /\ chk' \in ChkRecords
        BY <4>1, <4>2
      <4> QED BY <4>3
    <3>3. CASE m # 0 /\ ~(m = 2 /\ chk.proxy.account # "long")
      <4>1. fails("failed")
        BY <2>4, <3>3 DEF socks_method
      <4> QED BY <4>1, <2>8
    <3> QED BY <3>1, <3>2, <3>3
  <2>5. ASSUME NEW c \in Nat, socks_password(c) PROVE ChkInv'
    <3>1. CASE c = 0
      <4>1. chk' = [chk EXCEPT !.pc = "socks", !.auth = "granted"]
        BY <2>5, <3>1 DEF socks_password, Accepts
      <4>2. chk.pc = "password"
        BY <2>5 DEF socks_password
      <4> QED BY <4>1, <4>2
    <3>2. CASE c # 0
      BY <2>5, <3>2, <2>8 DEF socks_password, Accepts
    <3> QED BY <3>1, <3>2
  <2>6. ASSUME NEW c \in Nat, NEW a \in Nat, socks_connect(c, a) PROVE ChkInv'
    BY <2>6 DEF socks_connect
  <2>7. CASE UNCHANGED chk
    BY <2>7
  <2> QED BY <2>1, <2>2, <2>3, <2>4, <2>5, <2>6, <2>7 DEF ProxyCheckNext
<1>3. ChkInv => CheckedIsTunneled
  BY DEF ChkInv, ChkRecords, CheckedIsTunneled
<1> QED BY <1>1, <1>2, <1>3, PTL DEF ProxyCheckSpec

-----------------------------------------------------------------------------
(* Sockets: what the handler is sure of at each of its steps, and what the *)
(* tasks it started know of the send lock and of the output.               *)
Ending == {"end_in", "end_keep", "end_out", "close"}

SockSteps == {"auth", "open", "loop", "write", "shutdown", "returned"} \cup Ending

CloseCodes == {0, 1000, 1008, 1011}
ClientStates == {"on", "gone"}
CancelCounts == {0, 1}

SockRecords ==
  [kind : SockKinds, ssh : BOOLEAN, pc : SockSteps, code : CloseCodes, client : ClientStates,
   cancels : CancelCounts, early : BOOLEAN, torn : BOOLEAN, stubborn : BOOLEAN]

SockTypes ==
    /\ sock \in SockRecords
    /\ task \in [Tasks -> {"none", "run", "lock", "send", "done", "fail", "msg"}]
    /\ res \in {"none", "open", "ending", "gone"}
    /\ conn \in {"none", "open", "closed"}
    /\ flow \in [made : Nat, sent : Nat, in : Nat]
    /\ lock \in {"free", "out", "keep"}

(* Who holds the send lock sends, and only a workspace shell has a lock. *)
LockAgrees ==
    /\ lock # "free" => task[lock] = "send"
    /\ task["keep"] = "send" => lock = "keep"
    /\ sock.kind = "workspace" /\ task["out"] = "send" => lock = "out"
    /\ task["out"] = "lock" \/ task["keep"] # "none" => sock.kind = "workspace"

(* What a step of the handler knows to be over. *)
StepsAgree ==
    /\ SockAt("auth") => conn = "none"
    /\ SockAt("auth") \/ SockAt("open") => res = "none" /\ task = [t \in Tasks |-> "none"]
    /\ res = "open" => sock.pc \in {"loop", "write", "shutdown"} \/ (~IsShell /\ sock.pc \in Ending)
    /\ res = "ending" => IsShell
    /\ sock.pc \in {"end_keep", "end_out", "close", "returned"} => ~Alive("in")
    /\ sock.pc \in {"end_out", "close", "returned"} => ~Alive("keep")
    /\ sock.pc \in {"close", "returned"} /\ sock.cancels = 0 => ~Alive("out")
    /\ SockAt("returned") /\ sock.cancels = 0 => res # "ending"
    /\ SockAt("returned") /\ ~sock.early => conn # "open"
    /\ sock.code # 0 /\ IsShell => sock.pc \in {"shutdown", "returned"} \cup Ending

(* What the forwarder has read is sent or on its way, and one that is done *)
(* on its own has seen the end.                                            *)
OutputAgrees ==
    /\ flow.sent <= flow.made
    /\ task["out"] \in {"lock", "send"} => flow.sent < flow.made
    /\ IsShell /\ sock.client = "on" /\ sock.cancels = 0 /\ ~sock.torn
         /\ (sock.code = 1000 \/ (sock.pc \in {"loop", "write"} /\ task["out"] = "done"))
       => flow.sent = flow.made /\ res = "gone" /\ task["out"] = "done"

SockInv == SockTypes /\ LockAgrees /\ StepsAgree /\ OutputAgrees

(* Closing with one of the codes, at one of the steps.                     *)
LEMMA ClosedIsTyped ==
  ASSUME NEW s \in SockRecords, NEW c \in CloseCodes, NEW l \in SockSteps
  PROVE  [s EXCEPT !.code = c, !.pc = l] \in SockRecords
BY DEF SockRecords

(* CloseGoto keeps the first code, and touches nothing else of the         *)
(* handler.                                                                *)
LEMMA ClosingMoves ==
  ASSUME sock \in SockRecords, NEW code \in CloseCodes, NEW l \in SockSteps, CloseGoto(code, l)
  PROVE  /\ sock' \in SockRecords
         /\ sock'.pc = l /\ sock'.code = IF sock.code = 0 THEN code ELSE sock.code
         /\ sock'.kind = sock.kind /\ sock'.client = sock.client
         /\ sock'.cancels = sock.cancels /\ sock'.early = sock.early /\ sock'.torn = sock.torn
<1>1. PICK first \in CloseCodes : first = IF sock.code = 0 THEN code ELSE sock.code
  BY DEF SockRecords, CloseCodes
<1>2. sock' = [sock EXCEPT !.code = first, !.pc = l]
  BY <1>1 DEF CloseGoto
<1>5. [sock EXCEPT !.code = first, !.pc = l] \in SockRecords
  BY <1>1, ClosedIsTyped
<1>4. /\ sock' \in SockRecords
      /\ sock'.pc = l /\ sock'.code = first
      /\ sock'.kind = sock.kind /\ sock'.client = sock.client
      /\ sock'.cancels = sock.cancels /\ sock'.early = sock.early /\ sock'.torn = sock.torn
  BY <1>2, <1>5 DEF SockRecords
<1> QED BY <1>1, <1>4

(* Where a canceled handler goes on, by where it was canceled.             *)
LEMMA CancelingMoves ==
  ASSUME sock \in SockRecords, handler_canceled
  PROVE  /\ sock' \in SockRecords
         /\ sock'.kind = sock.kind /\ sock'.client = sock.client /\ sock'.code = sock.code
         /\ sock'.torn = sock.torn /\ sock'.cancels = 1 /\ sock'.early = SockAt("open")
         /\ \/ SockAt("open") /\ sock'.pc = "returned"
            \/ (SockAt("loop") \/ SockAt("write")) /\ sock'.pc = "shutdown"
            \/ SockAt("end_out") /\ IsShell /\ sock'.pc = "close"
            \/ SockAt("close") /\ sock'.pc = "returned"
            \/ (SockAt("end_in") \/ SockAt("end_keep") \/ (SockAt("end_out") /\ ~IsShell)) /\ sock'.pc = sock.pc
<1> USE DEF SockAt
<1> DEFINE next == CASE SockAt("open")                   -> "returned"
                     [] SockAt("loop") \/ SockAt("write")    -> "shutdown"
                     [] SockAt("end_out") /\ IsShell     -> "close"
                     [] SockAt("close")                  -> "returned"
                     [] OTHER                        -> sock.pc
           early == SockAt("open")
<1>2. sock' = [sock EXCEPT !.cancels = 1, !.early = early, !.pc = next]
  BY DEF handler_canceled
<1>5. \/ SockAt("open") /\ next = "returned"
      \/ (SockAt("loop") \/ SockAt("write")) /\ next = "shutdown"
      \/ SockAt("end_out") /\ IsShell /\ next = "close"
      \/ SockAt("close") /\ next = "returned"
      \/ (SockAt("end_in") \/ SockAt("end_keep") \/ (SockAt("end_out") /\ ~IsShell)) /\ next = sock.pc
  BY DEF handler_canceled
<1> HIDE DEF next
<1>1. sock.pc \in SockSteps
  BY DEF SockRecords
<1>6. next \in SockSteps
  BY <1>1, <1>5 DEF SockSteps, Ending
<1>8. early \in BOOLEAN /\ 1 \in CancelCounts
  BY DEF CancelCounts
<1> HIDE DEF early
<1>7. [sock EXCEPT !.cancels = 1, !.early = early, !.pc = next] \in SockRecords
  BY <1>6, <1>8 DEF SockRecords
<1>4. /\ sock' \in SockRecords
      /\ sock'.kind = sock.kind /\ sock'.client = sock.client /\ sock'.code = sock.code
      /\ sock'.torn = sock.torn /\ sock'.cancels = 1 /\ sock'.early = early /\ sock'.pc = next
  BY <1>2, <1>7 DEF SockRecords
<1> QED BY <1>4, <1>5 DEF early

(* What a cancellation does to the shell and its connection.               *)
LEMMA CancelingKeeps ==
  ASSUME handler_canceled
  PROVE  /\ sock.cancels = 0
         /\ conn' = IF SockAt("close") /\ conn = "open" THEN "closed" ELSE conn
         /\ res' = IF SockAt("close") /\ ~IsShell THEN "gone" ELSE res
         /\ UNCHANGED <<task, flow, lock>>
BY DEF handler_canceled

(* A read that fails is all that is noted of it.                           *)
LEMMA TornMoves ==
  ASSUME sock \in SockRecords, out_breaks
  PROVE  /\ sock' \in SockRecords
         /\ sock'.kind = sock.kind /\ sock'.client = sock.client /\ sock'.code = sock.code
         /\ sock'.pc = sock.pc /\ sock'.cancels = sock.cancels /\ sock'.early = sock.early
         /\ sock'.torn = sock.torn \/ sock'.torn = TRUE
         /\ task["out"] = "run" /\ UNCHANGED <<res, conn, flow, lock>>
         /\ \/ task' = [task EXCEPT !["out"] = "done"] /\ sock'.torn = TRUE
            \/ task' = [task EXCEPT !["out"] = "fail"]
<1>1. CASE SetTask("out", "fail") /\ UNCHANGED sock
  BY <1>1 DEF out_breaks, SetTask
<1>2. CASE SetTask("out", "done") /\ sock' = [sock EXCEPT !.torn = TRUE]
  <2>1. [sock EXCEPT !.torn = TRUE] \in SockRecords
    BY DEF SockRecords
  <2>2. /\ sock' \in SockRecords /\ sock'.torn = TRUE
        /\ sock'.kind = sock.kind /\ sock'.client = sock.client /\ sock'.code = sock.code
        /\ sock'.pc = sock.pc /\ sock'.cancels = sock.cancels /\ sock'.early = sock.early
    BY <1>2, <2>1 DEF SockRecords
  <2> QED BY <1>2, <2>2 DEF out_breaks, SetTask
<1> QED BY <1>1, <1>2 DEF out_breaks

(* The handler, its tasks and the client keep the types.                   *)
LEMMA SockTypesStep ==
  ASSUME SockTypes, [SocketsNext]_sockVars
  PROVE  SockTypes'
<1>0. CASE out_breaks
  BY <1>0, TornMoves DEF SockTypes, Tasks
<1> USE DEF SockTypes, SockRecords, SockAt, SockGoto, SetTask, Canceled, Unlocked, Alive, Finished, Connected, IsShell, Shells, Tasks, SockSteps, Ending, CloseCodes, ClientStates, CancelCounts
<1>1. CASE socket_refused
  BY <1>1, ClosingMoves DEF socket_refused
<1>2. CASE socket_accepted
  BY <1>2 DEF CloseGoto, socket_accepted
<1>3. CASE open_fails
  BY <1>3, ClosingMoves DEF open_fails
<1>4. CASE open_succeeds
  BY <1>4 DEF CloseGoto, open_succeeds
<1>5. CASE client_leaves
  BY <1>5 DEF CloseGoto, client_leaves
<1>6. CASE resource_produces
  BY <1>6 DEF CloseGoto, resource_produces
<1>7. CASE resource_ends
  BY <1>7 DEF CloseGoto, resource_ends
<1>8. CASE out_reads
  BY <1>8 DEF CloseGoto, out_reads
<1>9. CASE out_ends
  BY <1>9 DEF CloseGoto, out_ends
<1>10. CASE out_sends
  BY <1>10 DEF CloseGoto, out_sends
<1>11. CASE keep_wakes
  BY <1>11 DEF CloseGoto, keep_wakes
<1>12. CASE keep_sends
  BY <1>12 DEF CloseGoto, keep_sends
<1>13. CASE in_receives
  BY <1>13 DEF CloseGoto, in_receives
<1>14. CASE in_ends
  BY <1>14 DEF CloseGoto, in_ends
<1>15. CASE loop_wakes
  BY <1>15, ClosingMoves DEF loop_wakes
<1>16. CASE shell_written
  BY <1>16, ClosingMoves DEF shell_written
<1>17. CASE handler_shuts_down
  BY <1>17 DEF CloseGoto, handler_shuts_down
<1>18. CASE handler_ends_in
  BY <1>18 DEF CloseGoto, handler_ends_in
<1>19. CASE handler_ends_keep
  BY <1>19 DEF CloseGoto, handler_ends_keep
<1>20. CASE handler_ends_out
  BY <1>20 DEF CloseGoto, handler_ends_out
<1>21. CASE handler_closes
  BY <1>21, ClosingMoves DEF handler_closes
<1>22. CASE handler_canceled
  BY <1>22, CancelingMoves, CancelingKeeps DEF Alive, SockAt
<1>23. ASSUME NEW t \in {"out", "keep"}, takes_lock(t) PROVE SockTypes'
  BY <1>23 DEF takes_lock, MaySend
<1>24. CASE UNCHANGED sockVars
  BY <1>24 DEF sockVars
<1>25. CASE out_loses_access
  BY <1>25, ClosingMoves DEF out_loses_access
<1> QED BY <1>1, <1>2, <1>3, <1>4, <1>5, <1>6, <1>7, <1>8, <1>9, <1>10, <1>11, <1>12, <1>13, <1>14, <1>15,
           <1>16, <1>17, <1>18, <1>19, <1>20, <1>21, <1>22, <1>23, <1>24,
           <1>25, <1>0 DEF SocketsNext

(* The send lock is held by the task that sends: takes_lock waits for it,  *)
(* and ending a task gives it up.                                          *)
LEMMA LockAgreesStep ==
  ASSUME SockInv, [SocketsNext]_sockVars
  PROVE  LockAgrees'
<1> USE DEF SockInv, SockTypes, SockRecords, LockAgrees, StepsAgree, SockAt, SockGoto, SetTask, Canceled, Unlocked, Alive, Finished, Connected, IsShell, Shells, Tasks, SockSteps, Ending, CloseCodes, ClientStates, CancelCounts
<1>1. CASE socket_refused
  BY <1>1, ClosingMoves DEF socket_refused
<1>2. CASE socket_accepted
  BY <1>2 DEF CloseGoto, socket_accepted
<1>3. CASE open_fails
  BY <1>3, ClosingMoves DEF open_fails
<1>4. CASE open_succeeds
  BY <1>4 DEF CloseGoto, open_succeeds
<1>5. CASE client_leaves
  BY <1>5 DEF CloseGoto, client_leaves
<1>6. CASE resource_produces
  BY <1>6 DEF CloseGoto, resource_produces
<1>7. CASE resource_ends
  BY <1>7 DEF CloseGoto, resource_ends
<1>8. CASE out_reads
  BY <1>8 DEF CloseGoto, out_reads
<1>9. CASE out_ends
  BY <1>9 DEF CloseGoto, out_ends
<1>10. CASE out_sends
  BY <1>10 DEF CloseGoto, out_sends
<1>11. CASE keep_wakes
  BY <1>11 DEF CloseGoto, keep_wakes
<1>12. CASE keep_sends
  BY <1>12 DEF CloseGoto, keep_sends
<1>13. CASE in_receives
  BY <1>13 DEF CloseGoto, in_receives
<1>14. CASE in_ends
  BY <1>14 DEF CloseGoto, in_ends
<1>15. CASE loop_wakes
  BY <1>15, ClosingMoves DEF loop_wakes
<1>16. CASE shell_written
  BY <1>16, ClosingMoves DEF shell_written
<1>17. CASE handler_shuts_down
  BY <1>17 DEF CloseGoto, handler_shuts_down
<1>18. CASE handler_ends_in
  BY <1>18 DEF CloseGoto, handler_ends_in
<1>19. CASE handler_ends_keep
  BY <1>19 DEF CloseGoto, handler_ends_keep
<1>20. CASE handler_ends_out
  BY <1>20 DEF CloseGoto, handler_ends_out
<1>21. CASE handler_closes
  BY <1>21, ClosingMoves DEF handler_closes
<1>22. CASE handler_canceled
  BY <1>22, CancelingMoves, CancelingKeeps DEF Alive, SockAt
<1>23. ASSUME NEW t \in {"out", "keep"}, takes_lock(t) PROVE LockAgrees'
  BY <1>23 DEF takes_lock, MaySend
<1>24. CASE UNCHANGED sockVars
  BY <1>24 DEF sockVars
<1>25. CASE out_loses_access
  BY <1>25, ClosingMoves DEF out_loses_access
<1>26. CASE out_breaks
  BY <1>26, TornMoves DEF out_breaks
<1> QED BY <1>1, <1>2, <1>3, <1>4, <1>5, <1>6, <1>7, <1>8, <1>9, <1>10, <1>11, <1>12, <1>13, <1>14, <1>15,
           <1>16, <1>17, <1>18, <1>19, <1>20, <1>21, <1>22, <1>23, <1>24,
           <1>25, <1>26 DEF SocketsNext

(* The handler ends the receiver, the keepalive and the forwarder in this  *)
(* order, and every way into "returned" goes through them or opened        *)
(* nothing.                                                                *)
LEMMA StepsAgreeStep ==
  ASSUME SockInv, [SocketsNext]_sockVars
  PROVE  StepsAgree'
<1> USE DEF SockInv, SockTypes, SockRecords, StepsAgree, LockAgrees, SockAt, SockGoto, SetTask, Canceled, Unlocked, Alive, Finished, Connected, IsShell, Shells, Tasks, SockSteps, Ending, CloseCodes, ClientStates, CancelCounts
<1>1. CASE socket_refused
  BY <1>1, ClosingMoves DEF socket_refused
<1>2. CASE socket_accepted
  BY <1>2 DEF CloseGoto, socket_accepted
<1>3. CASE open_fails
  BY <1>3, ClosingMoves DEF open_fails
<1>4. CASE open_succeeds
  BY <1>4 DEF CloseGoto, open_succeeds
<1>5. CASE client_leaves
  BY <1>5 DEF CloseGoto, client_leaves
<1>6. CASE resource_produces
  BY <1>6 DEF CloseGoto, resource_produces
<1>7. CASE resource_ends
  BY <1>7 DEF CloseGoto, resource_ends
<1>8. CASE out_reads
  BY <1>8 DEF CloseGoto, out_reads
<1>9. CASE out_ends
  BY <1>9 DEF CloseGoto, out_ends
<1>10. CASE out_sends
  BY <1>10 DEF CloseGoto, out_sends
<1>11. CASE keep_wakes
  BY <1>11 DEF CloseGoto, keep_wakes
<1>12. CASE keep_sends
  BY <1>12 DEF CloseGoto, keep_sends
<1>13. CASE in_receives
  BY <1>13 DEF CloseGoto, in_receives
<1>14. CASE in_ends
  BY <1>14 DEF CloseGoto, in_ends
<1>15. CASE loop_wakes
  BY <1>15, ClosingMoves DEF loop_wakes
<1>16. CASE shell_written
  BY <1>16, ClosingMoves DEF shell_written
<1>17. CASE handler_shuts_down
  BY <1>17 DEF CloseGoto, handler_shuts_down
<1>18. CASE handler_ends_in
  BY <1>18 DEF CloseGoto, handler_ends_in
<1>19. CASE handler_ends_keep
  BY <1>19 DEF CloseGoto, handler_ends_keep
<1>20. CASE handler_ends_out
  BY <1>20 DEF CloseGoto, handler_ends_out
<1>21. CASE handler_closes
  BY <1>21, ClosingMoves DEF handler_closes
<1>22. CASE handler_canceled
  BY <1>22, CancelingMoves, CancelingKeeps DEF Alive, SockAt
<1>23. ASSUME NEW t \in {"out", "keep"}, takes_lock(t) PROVE StepsAgree'
  BY <1>23 DEF takes_lock, MaySend
<1>24. CASE UNCHANGED sockVars
  BY <1>24 DEF sockVars
<1>25. CASE out_loses_access
  BY <1>25, ClosingMoves DEF out_loses_access
<1>26. CASE out_breaks
  BY <1>26, TornMoves DEF out_breaks
<1> QED BY <1>1, <1>2, <1>3, <1>4, <1>5, <1>6, <1>7, <1>8, <1>9, <1>10, <1>11, <1>12, <1>13, <1>14, <1>15,
           <1>16, <1>17, <1>18, <1>19, <1>20, <1>21, <1>22, <1>23, <1>24,
           <1>25, <1>26 DEF SocketsNext

(* The forwarder is done only with the client gone, a failed read or all   *)
(* output sent.                                                            *)
LEMMA OutputAgreesStep ==
  ASSUME SockInv, [SocketsNext]_sockVars
  PROVE  OutputAgrees'
<1> USE DEF SockInv, SockTypes, SockRecords, OutputAgrees, StepsAgree, EndOfOutput, Unread, SockAt, SockGoto, SetTask, Canceled, Unlocked, Alive, Finished, Connected, IsShell, Shells, Tasks, SockSteps, Ending, CloseCodes, ClientStates, CancelCounts
<1>1. CASE socket_refused
  BY <1>1, ClosingMoves DEF socket_refused
<1>2. CASE socket_accepted
  BY <1>2 DEF CloseGoto, socket_accepted
<1>3. CASE open_fails
  BY <1>3, ClosingMoves DEF open_fails
<1>4. CASE open_succeeds
  BY <1>4 DEF CloseGoto, open_succeeds
<1>5. CASE client_leaves
  BY <1>5 DEF CloseGoto, client_leaves
<1>6. CASE resource_produces
  BY <1>6 DEF CloseGoto, resource_produces
<1>7. CASE resource_ends
  BY <1>7 DEF CloseGoto, resource_ends
<1>8. CASE out_reads
  BY <1>8 DEF CloseGoto, out_reads
<1>9. CASE out_ends
  BY <1>9 DEF CloseGoto, out_ends
<1>10. CASE out_sends
  BY <1>10 DEF CloseGoto, out_sends
<1>11. CASE keep_wakes
  BY <1>11 DEF CloseGoto, keep_wakes
<1>12. CASE keep_sends
  BY <1>12 DEF CloseGoto, keep_sends
<1>13. CASE in_receives
  BY <1>13 DEF CloseGoto, in_receives
<1>14. CASE in_ends
  BY <1>14 DEF CloseGoto, in_ends
<1>15. CASE loop_wakes
  BY <1>15, ClosingMoves DEF loop_wakes
<1>16. CASE shell_written
  BY <1>16, ClosingMoves DEF shell_written
<1>17. CASE handler_shuts_down
  BY <1>17 DEF CloseGoto, handler_shuts_down
<1>18. CASE handler_ends_in
  BY <1>18 DEF CloseGoto, handler_ends_in
<1>19. CASE handler_ends_keep
  BY <1>19 DEF CloseGoto, handler_ends_keep
<1>20. CASE handler_ends_out
  BY <1>20 DEF CloseGoto, handler_ends_out
<1>21. CASE handler_closes
  BY <1>21, ClosingMoves DEF handler_closes
<1>22. CASE handler_canceled
  BY <1>22, CancelingMoves, CancelingKeeps DEF Alive, SockAt
<1>23. ASSUME NEW t \in {"out", "keep"}, takes_lock(t) PROVE OutputAgrees'
  BY <1>23 DEF takes_lock, MaySend
<1>24. CASE UNCHANGED sockVars
  BY <1>24 DEF sockVars
<1>25. CASE out_loses_access
  BY <1>25, ClosingMoves DEF out_loses_access
<1>26. CASE out_breaks
  BY <1>26, TornMoves DEF out_breaks
<1> QED BY <1>1, <1>2, <1>3, <1>4, <1>5, <1>6, <1>7, <1>8, <1>9, <1>10, <1>11, <1>12, <1>13, <1>14, <1>15,
           <1>16, <1>17, <1>18, <1>19, <1>20, <1>21, <1>22, <1>23, <1>24,
           <1>25, <1>26 DEF SocketsNext

(* A handler that has returned leaves no task, shell or connection, two    *)
(* tasks never send at once, and a shell that is closed as ended had all   *)
(* of its output forwarded, whoever leaves first (handler/host/hosts.py,   *)
(* handler/sandbox/containers.py, service/sandbox/novnc.py).               *)
THEOREM HandlersCleanUp == SocketsSpec => []HandlerCleansUp
<1>1. SocketsInit => SockInv
  <2> SUFFICES ASSUME SocketsInit PROVE SockInv
    OBVIOUS
  <2>1. sock \in [kind : SockKinds, ssh : BOOLEAN, pc : {"auth"}, code : {0}, client : {"on"}, cancels : {0},
                   early : {FALSE}, torn : {FALSE}, stubborn : BOOLEAN]
    BY DEF SocketsInit
  <2>2. /\ {"auth"} \subseteq SockSteps /\ {0} \subseteq CloseCodes /\ {"on"} \subseteq ClientStates
        /\ {0} \subseteq CancelCounts /\ {FALSE} \subseteq BOOLEAN
    BY DEF SockSteps, CloseCodes, ClientStates, CancelCounts
  <2>3. sock \in SockRecords
    BY <2>1, <2>2 DEF SockRecords
  <2>4. SockTypes
    BY <2>3 DEF SocketsInit, SockTypes
  <2>5. LockAgrees /\ StepsAgree /\ OutputAgrees
    BY DEF SocketsInit, LockAgrees, StepsAgree, OutputAgrees, SockAt, SockGoto, SetTask, Canceled, Unlocked, Alive, Finished, Connected, IsShell, Shells, Tasks, SockSteps, Ending, CloseCodes, ClientStates, CancelCounts
  <2> QED BY <2>4, <2>5 DEF SockInv
<1>2. SockInv /\ [SocketsNext]_sockVars => SockInv'
  BY SockTypesStep, LockAgreesStep, StepsAgreeStep, OutputAgreesStep DEF SockInv
<1>3. SockInv => HandlerCleansUp
  BY DEF HandlerCleansUp, SockInv, SockTypes, SockRecords, LockAgrees, StepsAgree, OutputAgrees, ReturnedLeavesNothing,
         OneSender, EndedIsForwarded, SockAt, SockGoto, SetTask, Canceled, Unlocked, Alive, Finished, Connected, IsShell, Shells, Tasks, SockSteps, Ending, CloseCodes, ClientStates, CancelCounts
<1> QED BY <1>1, <1>2, <1>3, PTL DEF SocketsSpec

-----------------------------------------------------------------------------
(* A set of positions has a first one. *)
LEMMA FirstExists ==
  ASSUME NEW S \in SUBSET Nat, S # {}
  PROVE  \E i \in S : \A j \in S : i <= j
<1> DEFINE R == OpToRel(<, Nat)
<1>1. IsWellFoundedOn(R, Nat)
  BY NatLessThanWellFounded
<1>2. \A x, y \in Nat : x < y => <<x, y>> \in R
  BY DEF OpToRel
<1> HIDE DEF R
<1>3. PICK i \in S : \A j \in S : ~(<<j, i>> \in R)
  BY <1>1, WFMin, Zenon
<1>4. \A j \in S : ~(j < i)
  BY <1>2, <1>3
<1> QED BY <1>4

(* What is said of a match is right of the version.                         *)
MatchFits(match) ==
  match.known => /\ match.conf \in {"exact", "high"} => match.covered
                 /\ match.covered => match.conf # "low"

(* What one entry says of a version agrees with the versions it covers. *)
LEMMA VerdictFits ==
  ASSUME NEW v \in 1..MaxVersion, NEW m \in Matches
  PROVE  /\ Verdict(v, m) \in {"exact", "high", "medium", "none"}
         /\ Verdict(v, m) \in {"exact", "high"} => v \in Affected(m)
         /\ m.product /\ v \in Affected(m) => Verdict(v, m) # "none"
<1>1. /\ m.version \in Nat /\ m.lo.v \in Nat /\ m.hi.v \in Nat /\ v \in Nat /\ v > 0
      /\ m.lo.incl \in BOOLEAN /\ m.hi.incl \in BOOLEAN
  <2>1. \A b \in Bounds : b.v \in Nat /\ b.incl \in BOOLEAN
    <3> SUFFICES ASSUME NEW b \in Bounds PROVE b.v \in Nat /\ b.incl \in BOOLEAN
      OBVIOUS
    <3>1. CASE b = [v |-> 0, incl |-> TRUE]
      BY <3>1
    <3>2. CASE b \in [v : 1..MaxVersion, incl : BOOLEAN]
      BY <3>2, BoundsOfLookups
    <3> QED BY <3>1, <3>2 DEF Bounds
  <2>2. v \in Nat /\ v > 0
    BY BoundsOfLookups
  <2>3. CASE m \in [product : {TRUE}, version : 0..MaxVersion, lo : Bounds, hi : Bounds]
    BY <2>1, <2>2, <2>3, BoundsOfLookups
  <2>4. CASE m = [product |-> FALSE, version |-> 0, lo |-> [v |-> 0, incl |-> TRUE], hi |-> [v |-> 0, incl |-> TRUE]]
    BY <2>2, <2>4
  <2> QED BY <2>3, <2>4 DEF Matches
<1>2. \/ Verdict(v, m) = "exact" /\ m.version = v
      \/ Verdict(v, m) = "high" /\ m.version # v /\ version_in_match(v, m)
      \/ Verdict(v, m) = "medium" /\ m.version # v /\ ~version_in_match(v, m)
      \/ Verdict(v, m) = "none" /\ m.version # v /\ ~version_in_match(v, m)
         /\ ~(m.version = 0 /\ ~has_version_bounds(m))
  BY <1>1 DEF Verdict
<1>3. version_in_match(v, m) => v \in Affected(m)
  BY <1>1 DEF version_in_match, has_version_bounds, Affected
<1>4. m.version = v => v \in Affected(m)
  BY DEF Affected
<1>5. v \in Affected(m) => \/ m.version = v
                           \/ m.version = 0 /\ ~has_version_bounds(m)
                           \/ version_in_match(v, m)
  BY <1>1 DEF version_in_match, has_version_bounds, Affected
<1> QED BY <1>2, <1>3, <1>4, <1>5

(* Whatever entries a CVE has, in whatever order: the first entry that     *)
(* decides is right, and if some entry covers the version, one decides     *)
(* (_nvd_match_confidence).                                                *)
LEMMA AnswersFit == \A answer \in Answers : MatchFits(answer)
<1> SUFFICES ASSUME NEW v \in 0..MaxVersion, NEW config \in Configs
             PROVE  MatchFits([conf    |-> nvd_match_confidence(v, config),
                               covered |-> \E i \in DOMAIN config : config[i].product /\ v \in Affected(config[i]),
                               known   |-> v # 0])
  BY DEF Answers
<1> DEFINE mine     == {i \in DOMAIN config : config[i].product}
           deciding == {i \in mine : Verdict(v, config[i]) # "none"}
           first    == CHOOSE i \in deciding : \A j \in deciding : i <= j
           conf     == nvd_match_confidence(v, config)
           covered  == \E i \in DOMAIN config : config[i].product /\ v \in Affected(config[i])
<1> SUFFICES ASSUME v # 0
             PROVE  (conf \in {"exact", "high"} => covered) /\ (covered => conf # "low")
  BY DEF MatchFits
<1>1. PICK n \in 0..MaxMatches : config \in [1..n -> Matches]
  BY DEF Configs
<1>2. v \in 1..MaxVersion
  OBVIOUS
<1>3. \A i \in mine : config[i] \in Matches /\ i \in Nat
  BY <1>1
<1>4. \/ mine = {} /\ conf = "low"
      \/ mine # {} /\ deciding = {} /\ conf = "low"
      \/ mine # {} /\ deciding # {} /\ conf = Verdict(v, config[first])
  <2>1. CASE mine = {}
    BY <2>1, Zenon DEF nvd_match_confidence
  <2>2. CASE mine # {} /\ deciding = {}
    BY <2>2, Zenon DEF nvd_match_confidence
  <2>3. CASE mine # {} /\ deciding # {}
    BY <2>3, Zenon DEF nvd_match_confidence
  <2> QED BY <2>1, <2>2, <2>3
<1> HIDE DEF conf
<1>5. CASE deciding = {}
  <2>1. conf = "low"
    BY <1>4, <1>5
  <2>2. ~covered
    BY <1>2, <1>3, <1>5, VerdictFits
  <2> QED BY <2>1, <2>2
<1>6. CASE deciding # {}
  <2>1. first \in deciding
    <3>1. deciding \in SUBSET Nat
      BY <1>3
    <3>2. \E i \in deciding : \A j \in deciding : i <= j
      BY <3>1, <1>6, FirstExists
    <3> HIDE DEF deciding
    <3> QED BY <3>2
  <2>2. conf = Verdict(v, config[first]) /\ first \in mine /\ conf # "none"
    BY <1>4, <1>6, <2>1
  <2> HIDE DEF first
  <2>3. conf \in {"exact", "high"} => v \in Affected(config[first])
    BY <2>2, <1>2, <1>3, VerdictFits
  <2>4. conf \in {"exact", "high", "medium", "none"}
    BY <2>2, <1>2, <1>3, VerdictFits
  <2> QED BY <2>2, <2>3, <2>4
<1> QED BY <1>5, <1>6

CvePCs  == {"idle", "epss", "kev", "asked", "answered", "done"}
Founds  == Answers \cup {Nothing}
LookRecords == [pc : CvePCs, found : BOOLEAN, match : Founds, began : Nat, asked : Nat,
                answer : BOOLEAN, warned : BOOLEAN, exploited : BOOLEAN]

(* What a look-up knows of the catalogue: a CVE listed before it asked is  *)
(* in the answer, and one listed for the life of the cache before it began *)
(* is reported.                                                            *)
LookFits(r) ==
  /\ r.began <= now /\ r.asked <= now
  /\ MatchFits(r.match)
  /\ r.pc \in {"asked", "answered"} => r.began = r.asked
  /\ r.pc = "answered" /\ r.asked > kev.since => r.answer
  /\ r.pc = "done" /\ r.found /\ ~r.warned /\ kev.since <= r.began - TTL => r.exploited

CveInv ==
  /\ now \in Nat /\ kev.since \in Nat
  /\ cache.at \in Int /\ cache.has \in BOOLEAN
  /\ cache.at <= now
  /\ cache.at > kev.since => cache.has
  /\ look \in [Modes -> LookRecords]
  /\ \A m \in Modes : LookFits(look[m])

(* A look-up that fits, and a cache that fits, are all that changes.       *)
LEMMA OneLookChanges ==
  ASSUME CveInv, NEW m \in Modes, NEW r \in LookRecords, LookFits(r), LookBecomes(m, r),
         UNCHANGED <<now, kev>>,
         cache'.at \in Int /\ cache'.has \in BOOLEAN /\ cache'.at <= now /\ (cache'.at > kev.since => cache'.has)
  PROVE  CveInv'
<1>1. look' \in [Modes -> LookRecords]
  BY DEF CveInv, LookBecomes
<1>2. \A x \in Modes : LookFits(look'[x])
  BY DEF CveInv, LookBecomes
<1>3. \A x \in Modes : LookFits(look[x])'
  BY <1>2 DEF LookFits
<1> QED BY <1>1, <1>3 DEF CveInv

(* A CVE is matched exactly or highly only when some entry covers the      *)
(* version, never lowly when one does, and a look-up without a warning     *)
(* reports what the catalogue has listed for the life of the cache,        *)
(* although two look-ups overwrite it (service/work_project/cve.py).       *)
THEOREM DiscoveryStaysSound == CveSpec => []DiscoveryIsSound
<1>0. /\ IdleLook \in LookRecords
      /\ \A answer \in Answers : [IdleLook EXCEPT !.pc = "epss", !.found = TRUE, !.match = answer] \in LookRecords
      /\ [IdleLook EXCEPT !.pc = "epss", !.found = TRUE] \in LookRecords
      /\ [IdleLook EXCEPT !.pc = "done"] \in LookRecords
  <2>1. {"idle", "epss", "done"} \subseteq CvePCs /\ Nothing \in Founds /\ Answers \subseteq Founds
    BY DEF CvePCs, Founds
  <2> QED BY <2>1 DEF IdleLook, LookRecords
<1>n. MatchFits(Nothing) /\ Nothing \in Founds
  BY DEF MatchFits, Nothing, Founds
<1>1. CveInit => CveInv
  <2> SUFFICES ASSUME CveInit PROVE CveInv
    OBVIOUS
  <2>1. look \in [Modes -> LookRecords]
    BY <1>0 DEF CveInit
  <2>2. now = 0 /\ kev.since \in Nat /\ cache.at = -1 /\ cache.has = FALSE
    BY BoundsOfLookups DEF CveInit, Never
  <2>3. LookFits(IdleLook)
    BY <1>n, <2>2 DEF LookFits, IdleLook
  <2> QED BY <2>1, <2>2, <2>3 DEF CveInit, CveInv
<1>2. CveInv /\ [CveNext]_cveVars => CveInv'
  <2> SUFFICES ASSUME CveInv, [CveNext]_cveVars PROVE CveInv'
    OBVIOUS
  <2>c. cache.at \in Int /\ cache.has \in BOOLEAN /\ cache.at <= now /\ (cache.at > kev.since => cache.has)
    BY DEF CveInv
  <2>l. ASSUME NEW m \in Modes PROVE look[m] \in LookRecords /\ LookFits(look[m])
    BY <2>l DEF CveInv
  <2>1. CASE catalogue_lists
    <3>1. now \in Nat /\ kev'.since = now /\ UNCHANGED <<now, look, cache>>
      BY <2>1 DEF catalogue_lists, CveInv
    <3>2. ASSUME NEW m \in Modes PROVE LookFits(look[m])'
      BY <3>1, <2>l, BoundsOfLookups DEF LookFits, LookRecords
    <3> QED BY <3>1, <3>2, <2>c DEF CveInv
  <2>2. CASE time_passes
    BY <2>2 DEF time_passes, CveInv, LookFits, LookRecords
  <2>3. ASSUME NEW answer \in Answers, discover_service_cves(answer) PROVE CveInv'
    <3> DEFINE r == [IdleLook EXCEPT !.pc = "epss", !.found = TRUE, !.match = answer]
    <3>1. LookFits(r)
      BY AnswersFit DEF LookFits, IdleLook, CveInv
    <3>2. /\ r \in LookRecords /\ LookBecomes("service", r) /\ "service" \in Modes
          /\ UNCHANGED <<now, kev, cache>>
      BY <1>0, <2>3 DEF discover_service_cves, Modes
    <3> HIDE DEF r
    <3> QED BY <3>1, <3>2, <2>c, OneLookChanges
  <2>4. ASSUME NEW m \in Modes, nothing_found(m) \/ look_again(m) \/ discover_package_cves PROVE CveInv'
    <3>1. PICK r \in {IdleLook, [IdleLook EXCEPT !.pc = "epss", !.found = TRUE], [IdleLook EXCEPT !.pc = "done"]},
               x \in Modes : LookBecomes(x, r) /\ UNCHANGED <<now, kev, cache>>
      BY <2>4 DEF nothing_found, look_again, discover_package_cves, Modes
    <3>2. LookFits(r)
      <4>0. now \in Nat
        BY DEF CveInv
      <4>1. CASE r = IdleLook
        BY <4>0, <4>1, <1>n DEF LookFits, IdleLook
      <4>2. CASE r = [IdleLook EXCEPT !.pc = "epss", !.found = TRUE]
        BY <4>0, <4>2, <1>n DEF LookFits, IdleLook
      <4>3. CASE r = [IdleLook EXCEPT !.pc = "done"]
        BY <4>0, <4>3, <1>n DEF LookFits, IdleLook
      <4> QED BY <3>1, <4>1, <4>2, <4>3
    <3>3. r \in LookRecords
      BY <1>0
    <3> QED BY <3>1, <3>2, <3>3, <2>c, OneLookChanges
  <2>5. ASSUME NEW m \in Modes, fetch_epss(m) PROVE CveInv'
    <3> DEFINE r == [look[m] EXCEPT !.pc = "kev", !.match = Nothing]
    <3>1. r \in LookRecords
      <4>1. "kev" \in CvePCs
        BY DEF CvePCs
      <4> QED BY <4>1, <1>n, <2>l DEF LookRecords
    <3>2. LookFits(r)
      BY <1>n, <2>l DEF LookFits, LookRecords
    <3>3. LookBecomes(m, r) /\ UNCHANGED <<now, kev, cache>>
      BY <2>5 DEF fetch_epss
    <3> HIDE DEF r
    <3> QED BY <3>1, <3>2, <3>3, <2>c, OneLookChanges
  <2>6. ASSUME NEW m \in Modes, kev_cached(m) PROVE CveInv'
    <3> DEFINE r == [look[m] EXCEPT !.pc = "done", !.exploited = cache.has, !.began = now]
    <3>0. now \in Nat /\ kev.since \in Nat
      BY DEF CveInv
    <3>1. r \in LookRecords
      <4>1. "done" \in CvePCs
        BY DEF CvePCs
      <4> QED BY <4>1, <3>0, <2>c, <2>l DEF LookRecords
    <3>2. LookFits(r)
      <4>1. cache.at > now - TTL
        BY <2>6, <2>c, <3>0, BoundsOfLookups DEF kev_cached, CacheIsGood
      <4>2. kev.since <= now - TTL => cache.has
        BY <4>1, <2>c, <3>0, BoundsOfLookups
      <4>3. /\ r.pc = "done" /\ r.exploited = cache.has /\ r.began = now /\ r.match = look[m].match
            /\ r.asked = look[m].asked
        BY <2>l DEF LookRecords
      <4> HIDE DEF r
      <4> QED BY <4>2, <4>3, <3>0, <2>l DEF LookFits
    <3>3. LookBecomes(m, r) /\ UNCHANGED <<now, kev, cache>>
      BY <2>6 DEF kev_cached
    <3> HIDE DEF r
    <3> QED BY <3>1, <3>2, <3>3, <2>c, OneLookChanges
  <2>7. ASSUME NEW m \in Modes, kev_requested(m) PROVE CveInv'
    <3> DEFINE r == [look[m] EXCEPT !.pc = "asked", !.asked = now, !.began = now]
    <3>0. now \in Nat
      BY DEF CveInv
    <3>1. r \in LookRecords
      <4>1. "asked" \in CvePCs
        BY DEF CvePCs
      <4> QED BY <4>1, <3>0, <2>l DEF LookRecords
    <3>2. LookFits(r)
      BY <3>0, <2>l DEF LookFits, LookRecords
    <3>3. LookBecomes(m, r) /\ UNCHANGED <<now, kev, cache>>
      BY <2>7 DEF kev_requested
    <3> HIDE DEF r
    <3> QED BY <3>1, <3>2, <3>3, <2>c, OneLookChanges
  <2>8. ASSUME NEW m \in Modes, kev_fails(m) PROVE CveInv'
    <3> DEFINE r == [look[m] EXCEPT !.pc = "done", !.warned = TRUE]
    <3>1. r \in LookRecords
      <4>1. "done" \in CvePCs
        BY DEF CvePCs
      <4> QED BY <4>1, <2>l DEF LookRecords
    <3>2. LookFits(r)
      BY <2>l DEF LookFits, LookRecords
    <3>3. LookBecomes(m, r) /\ UNCHANGED <<now, kev, cache>>
      BY <2>8 DEF kev_fails
    <3> HIDE DEF r
    <3> QED BY <3>1, <3>2, <3>3, <2>c, OneLookChanges
  <2>9. ASSUME NEW m \in Modes, kev_answers(m) PROVE CveInv'
    <3> DEFINE r == [look[m] EXCEPT !.pc = "answered", !.answer = Listed]
    <3>0. now \in Nat /\ kev.since \in Nat
      BY DEF CveInv
    <3>1. r \in LookRecords
      <4>1. "answered" \in CvePCs /\ Listed \in BOOLEAN
        BY DEF CvePCs, Listed
      <4> QED BY <4>1, <2>l DEF LookRecords
    <3>2. LookFits(r)
      <4>1. look[m].pc = "asked" /\ look[m].asked <= now /\ look[m].asked \in Nat
        BY <2>9, <2>l DEF kev_answers, LookAt, LookFits, LookRecords
      <4>2. look[m].asked > kev.since => Listed
        BY <3>0, <4>1 DEF Listed
      <4>3. /\ r.pc = "answered" /\ r.answer = Listed /\ r.began = look[m].began /\ r.match = look[m].match
            /\ r.asked = look[m].asked
        BY <2>l DEF LookRecords
      <4> HIDE DEF r
      <4> QED BY <4>1, <4>2, <4>3, <3>0, <2>l DEF LookFits
    <3>3. LookBecomes(m, r) /\ UNCHANGED <<now, kev, cache>>
      BY <2>9 DEF kev_answers
    <3> HIDE DEF r
    <3> QED BY <3>1, <3>2, <3>3, <2>c, OneLookChanges
  <2>10. ASSUME NEW m \in Modes, kev_stored(m) PROVE CveInv'
    <3> DEFINE q == look[m]
               r == [q EXCEPT !.pc = "done", !.exploited = q.answer]
    <3>0. now \in Nat /\ kev.since \in Nat
      BY DEF CveInv
    <3>1. r \in LookRecords
      <4>1. "done" \in CvePCs
        BY DEF CvePCs
      <4>2. q.answer \in BOOLEAN
        BY <2>l DEF LookRecords
      <4> QED BY <4>1, <4>2, <2>l DEF LookRecords
    <3>4. q.pc = "answered" /\ q.asked \in Nat /\ q.began = q.asked /\ (q.asked > kev.since => q.answer)
          /\ q.answer \in BOOLEAN
      BY <2>10, <2>l DEF kev_stored, LookAt, LookFits, LookRecords
    <3>2. LookFits(r)
      <4>1. kev.since <= q.began - TTL => q.answer
        BY <3>0, <3>4, BoundsOfLookups
      <4>2. /\ r.pc = "done" /\ r.exploited = q.answer /\ r.began = q.began /\ r.match = q.match
            /\ r.asked = q.asked
        BY <2>l DEF LookRecords
      <4> HIDE DEF r
      <4> QED BY <4>1, <4>2, <3>0, <2>l DEF LookFits
    <3>3. LookBecomes(m, r) /\ UNCHANGED <<now, kev>> /\ cache' = [at |-> q.asked, has |-> q.answer]
      BY <2>10 DEF kev_stored, StampedAt
    <3>5. cache'.at \in Int /\ cache'.has \in BOOLEAN /\ cache'.at <= now /\ (cache'.at > kev.since => cache'.has)
      BY <2>l, <3>3, <3>4 DEF LookFits
    <3> HIDE DEF r
    <3> QED BY <3>1, <3>2, <3>3, <3>5, OneLookChanges
  <2>11. CASE UNCHANGED cveVars
    BY <2>11 DEF cveVars, CveInv, LookFits
  <2> QED BY <2>1, <2>2, <2>3, <2>4, <2>5, <2>6, <2>7, <2>8, <2>9, <2>10, <2>11 DEF CveNext, Modes
<1>3. CveInv => DiscoveryIsSound
  BY DEF CveInv, LookFits, DiscoveryIsSound, MatchIsSound, KevIsCurrent, LookAt, MatchFits, Modes
<1> QED BY <1>1, <1>2, <1>3, PTL DEF CveSpec

-----------------------------------------------------------------------------
(* The parts side by side.                                                 *)

(* A step of the services is a step of one part, and none of the others.   *)
LEMMA OnePartMoves ==
  ASSUME [MCNext]_<<part, vars, guardVars, boxVars, ioVars, sockVars, inventoryVars, keyVars, chk, cveVars>>
  PROVE  /\ [Next]_vars /\ [ToolsNext]_guardVars /\ [BoxNext]_boxVars
         /\ [FNext]_fileVars /\ [RNext]_toolVars
         /\ [SocketsNext]_sockVars /\ [InventoryNext]_inventoryVars
         /\ [HostKeysNext]_keyVars /\ [ProxyCheckNext]_chk /\ [CveNext]_cveVars
<1>1. /\ Next \/ UNCHANGED vars
      /\ ToolsNext \/ UNCHANGED guardVars
      /\ BoxNext \/ UNCHANGED boxVars
      /\ IONext \/ UNCHANGED ioVars
      /\ SocketsNext \/ UNCHANGED sockVars
      /\ InventoryNext \/ UNCHANGED inventoryVars
      /\ HostKeysNext \/ UNCHANGED keyVars
      /\ ProxyCheckNext \/ UNCHANGED chk
      /\ CveNext \/ UNCHANGED cveVars
  BY DEF MCNext
<1>2. /\ FNext \/ UNCHANGED fileVars
      /\ RNext \/ UNCHANGED toolVars
  BY <1>1 DEF IONext, ioVars
<1> QED BY <1>1, <1>2

(* Every behaviour of the services side by side is a behaviour of each     *)
(* part, so what is proved of a part holds of the composition that is      *)
(* checked.                                                                *)
THEOREM ServicesAreTheirParts ==
  MCSpec => /\ Spec /\ ToolsSpec /\ BoxSpec /\ FSpec /\ RSpec
            /\ SocketsSpec /\ InventorySpec /\ HostKeysSpec /\ ProxyCheckSpec /\ CveSpec
<1>1. MCInit => /\ Init /\ ToolsInit /\ BoxInit /\ FInit /\ RInit
                /\ SocketsInit /\ InventoryInit /\ HostKeysInit /\ ProxyCheckInit /\ CveInit
  BY DEF MCInit, IOInit
<1> QED BY <1>1, OnePartMoves, PTL DEF MCSpec, Spec, ToolsSpec, BoxSpec, FSpec, RSpec,
           SocketsSpec, InventorySpec, HostKeysSpec, ProxyCheckSpec, CveSpec

(* Every part of the composition is well typed.                            *)
THEOREM ServicesAreTyped == MCSpec => []ServicesTypeOK
<1>1. Spec => []TypeOK
  BY ApprovalTypesInit, ApprovalTypesStep, PTL DEF Spec
<1>2. BoxSpec => []BoxTypeOK
  BY WorkspacesAreGrounded, PTL
<1>3. FSpec /\ RSpec => []IOTypeOK
  BY FilesSurvive, RunsOwnTheirProcess, PTL DEF IOTypeOK
<1> QED BY <1>1, <1>2, <1>3, ServicesAreTheirParts, PTL DEF ServicesTypeOK

(* Who answers is who was meant: a connection shows a key the user was     *)
(* shown, and a proxy that was found good carries the connection it was    *)
(* asked for (hosts.py, proxies.py).                                       *)
THEOREM PeersStayChecked == MCSpec => []PeersAreChecked
BY ServicesAreTheirParts, TrustedKeysWereShown, GoodProxiesCarry, PTL DEF PeersAreChecked

=============================================================================
