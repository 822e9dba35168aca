----------------------------- MODULE Approvals -----------------------------
(***************************************************************************)
(* The approval store (service/approval.py, core/approval_gate.py): an     *)
(* action that needs approval gets a record, a JSON file named by the id   *)
(* of the action; the approver grants it and receives a signed token; the  *)
(* token is consumed when the action is carried out.                       *)
(*                                                                         *)
(* The handlers are plain functions, so FastAPI runs each call in a thread *)
(* of its pool, and nothing locks the files.  A call reads the record in   *)
(* one step; to write it, it truncates the file in a second step and fills *)
(* it in a third.  A record being written cannot be read, and two writers  *)
(* at once can leave a file that never parses again (the tail of the       *)
(* longer text behind the shorter one).                                    *)
(*                                                                         *)
(* Creating a record for an action that has one replaces it; gen counts    *)
(* these generations, each with its own expiry and its own approval.       *)
(***************************************************************************)
EXTENDS Naturals

CONSTANTS
    Calls,      \* calls of the API that can be in progress at once
    Actions,    \* proposed actions, by id
    MaxGen,     \* bound on how often an action's record is created
    MaxCalls    \* bound on the number of calls

ASSUME ActionsAssumption == Actions # {}
ASSUME BoundsAssumption == {MaxGen, MaxCalls} \subseteq Nat

VARIABLES
    file,       \* [Actions -> what its file holds]
    gens,       \* [Actions -> how many records were created for it]
    lapsed,     \* the records whose expires_at has passed
    tokens,     \* the records for which a token was handed out
    pc,         \* [Calls -> where the call stands]
    job,        \* [Calls -> what the call is going to write, and as what]
    used,       \* number of calls so far
    approvals,  \* history: [Actions -> how many calls approved it]
    runs,       \* history: [Actions -> how many calls consumed an approval]
    carried     \* history: the records that were consumed

vars == <<file, gens, lapsed, tokens, pc, job, used, approvals, runs, carried>>

Statuses == {"pending", "granted", "rejected", "expired", "consumed"}
Gens     == 0..MaxGen
Ids      == [action : Actions, gen : Gens]
Records  == [status : Statuses, gen : Gens]
Absent   == [status |-> "absent", gen |-> 0]
Torn     == [status |-> "torn", gen |-> 0]

NoJob == [action |-> CHOOSE a \in Actions : TRUE, status |-> "pending", gen |-> 0]

TypeOK ==
    /\ file \in [Actions -> Records \cup {Absent, Torn}]
    /\ gens \in [Actions -> Gens]
    /\ lapsed \subseteq Ids /\ tokens \subseteq Ids /\ carried \subseteq Ids
    /\ pc \in [Calls -> {"idle", "truncate", "fill"}]
    /\ job \in [Calls -> [action : Actions, status : Statuses, gen : Gens]]
    /\ used \in 0..MaxCalls
    /\ approvals \in [Actions -> Nat] /\ runs \in [Actions -> Nat]

Init ==
    /\ file = [a \in Actions |-> Absent]
    /\ gens = [a \in Actions |-> 0]
    /\ lapsed = {} /\ tokens = {} /\ carried = {}
    /\ pc = [c \in Calls |-> "idle"]
    /\ job = [c \in Calls |-> NoJob]
    /\ used = 0
    /\ approvals = [a \in Actions |-> 0] /\ runs = [a \in Actions |-> 0]

Id(a, g) == [action |-> a, gen |-> g]

(* get: a missing or unreadable file is no record.                          *)
Readable(a) == file[a] \in Records

(* A call starts and settles on what it will write.                         *)
Call(c, a, s, g) ==
    /\ pc[c] = "idle" /\ used < MaxCalls
    /\ used' = used + 1
    /\ job' = [job EXCEPT ![c] = [action |-> a, status |-> s, gen |-> g]]
    /\ pc' = [pc EXCEPT ![c] = "truncate"]
    /\ UNCHANGED <<file, lapsed, tokens, approvals, runs, carried>>

-----------------------------------------------------------------------------

(* The policy did not deny the action; its record, if any, is replaced.     *)
create(c, a) ==
    /\ gens[a] < MaxGen
    /\ gens' = [gens EXCEPT ![a] = @ + 1]
    /\ Call(c, a, "pending", gens[a] + 1)

(* Expiry is looked at before the status.                                   *)
decide(c, a, approved) ==
    /\ Readable(a)
    /\ \/ /\ Id(a, file[a].gen) \in lapsed
          /\ Call(c, a, "expired", file[a].gen)
       \/ /\ Id(a, file[a].gen) \notin lapsed
          /\ file[a].status = "pending"
          /\ Call(c, a, IF approved THEN "granted" ELSE "rejected", file[a].gen)
    /\ UNCHANGED gens

(* Mutant: any record will do, whatever its status.                         *)
consume_unchecked(c, t) ==
    /\ t \in tokens \ lapsed
    /\ Readable(t.action)
    /\ Call(c, t.action, "consumed", file[t.action].gen)
    /\ UNCHANGED gens

(* verify_approval_token, then the record as it is now.                     *)
consume(c, t) ==
    /\ t \in tokens \ lapsed
    /\ Readable(t.action)
    /\ file[t.action].status = "granted"
    /\ Call(c, t.action, "consumed", file[t.action].gen)
    /\ UNCHANGED gens

(* write_text opens the file, which empties it, ...                         *)
truncate(c) ==
    /\ pc[c] = "truncate"
    /\ file' = [file EXCEPT ![job[c].action] = Torn]
    /\ pc' = [pc EXCEPT ![c] = "fill"]
    /\ UNCHANGED <<gens, lapsed, tokens, job, used, approvals, runs, carried>>

(* Mutant: a status that is not one of ApprovalStatus.                      *)
fill_misspelt(c) ==
    LET a == job[c].action IN
    /\ pc[c] = "fill"
    /\ file' = [file EXCEPT ![a] = [status |-> "approved", gen |-> job[c].gen]]
    /\ pc' = [pc EXCEPT ![c] = "idle"]
    /\ UNCHANGED <<gens, lapsed, tokens, job, used, approvals, runs, carried>>

(* ... and fills it; the call returns: a grant with a token, a consumption  *)
(* with the leave to carry the action out.                                  *)
fill(c) ==
    LET a == job[c].action
        s == job[c].status
        i == Id(a, job[c].gen)
    IN
    /\ pc[c] = "fill"
    /\ \/ file' = [file EXCEPT ![a] = [status |-> s, gen |-> i.gen]]
       \/ file[a] # Torn /\ file' = [file EXCEPT ![a] = Torn]
    /\ tokens'    = IF s = "granted" THEN tokens \cup {i} ELSE tokens
    /\ approvals' = IF s = "granted" THEN [approvals EXCEPT ![a] = @ + 1] ELSE approvals
    /\ runs'      = IF s = "consumed" THEN [runs EXCEPT ![a] = @ + 1] ELSE runs
    /\ carried'   = IF s = "consumed" THEN carried \cup {i} ELSE carried
    /\ pc' = [pc EXCEPT ![c] = "idle"]
    /\ job' = [job EXCEPT ![c] = NoJob]
    /\ UNCHANGED <<gens, lapsed, used>>

(* expires_at passes.                                                       *)
lapse(i) ==
    /\ i \notin lapsed /\ i.gen \in 1..gens[i.action]
    /\ lapsed' = lapsed \cup {i}
    /\ UNCHANGED <<file, gens, tokens, pc, job, used, approvals, runs, carried>>

Next ==
    \/ \E c \in Calls, a \in Actions : create(c, a)
    \/ \E c \in Calls, a \in Actions, approved \in BOOLEAN : decide(c, a, approved)
    \/ \E c \in Calls, t \in Ids : consume(c, t)
    \/ \E c \in Calls : truncate(c) \/ fill(c)
    \/ \E i \in Ids : lapse(i)

Spec == Init /\ [][Next]_vars

-----------------------------------------------------------------------------

(* Approval is for the record at hand: what is carried out was approved    *)
(* since its record was created, so a token that was issued before the     *)
(* record was replaced opens nothing the approver has not seen, however    *)
(* the calls that read and write the file overlap (consume, create).       *)
CarriedWasApproved == carried \subseteq tokens

(* An approval is consumed once: "一次性消费 API" (docs/no-docker-          *)
(* portable-architecture.md); an action is carried out no more often than  *)
(* it was approved (consume).                                              *)
OneTimeConsumption == \A a \in Actions : runs[a] <= approvals[a]
=============================================================================
