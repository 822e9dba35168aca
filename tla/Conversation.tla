---------------------------- MODULE Conversation ----------------------------
(***************************************************************************)
(* The stored conversation of a session, shared by its main agent, another *)
(* agent that was used before and a subagent (core/conversation/store.py), *)
(* the compaction that precedes a turn (compaction.py) and the items that  *)
(* a turn adds.                                                            *)
(*                                                                         *)
(* A turn reads the projection, has the older part summarized, stores the  *)
(* summary, then calls the model and its tools; the turns of two agents    *)
(* interleave.  The SDK stores the items of a turn as they are complete;   *)
(* a turn that is broken off may leave a call without its output.          *)
(***************************************************************************)
EXTENDS ModelInput

CONSTANTS Agents,       \* whose turns run: [code, scope, begins] records
          Cfg,          \* [trigger, hard, target, preserve, recent, min, summary]
          Budget,       \* input_budget_tokens
          Instructions, \* tokens of the instructions
          MaxLog        \* bound on stored items

(* build_turn_input_item: a turn begins with a message of the user, or an *)
(* internal one.                                                           *)
ASSUME AgentsBegin == \A v \in Agents : v.begins \subseteq {"user", "resume"}

VARIABLES log,          \* agent_messages with agent_message_meta
          row,          \* [Agents -> the stored compaction]
          turn          \* [Agents -> [pc, cand, total]]

vars == <<log, row, turn>>

NoRow   == [end |-> 0, covers |-> {}, w |-> 0]
NoTurn  == [pc |-> "idle", cand |-> <<>>, total |-> 0]
Incoming == 1           \* tokens of the message of the turn

Init == /\ log = <<>>
        /\ row = [v \in Agents |-> NoRow]
        /\ turn = [v \in Agents |-> NoTurn]

Projection(v) == project_context(log, v.code, v.scope, row[v])
At(v, l)      == turn[v].pc = l
Goto(v, l)    == turn' = [turn EXCEPT ![v].pc = l]
TurnEnds(v)   == turn' = [turn EXCEPT ![v] = NoTurn]

(* add_items: ids are given in order. *)
Item(v, n, kind, call, w) ==
  [id |-> Len(log) + n, owner |-> v.code, kind |-> kind, call |-> call, scope |-> v.scope, w |-> w]

add_items(items) == Len(log) + Len(items) <= MaxLog /\ log' = log \o items

(* compact_if_needed, up to the summary: too little, nothing that may be   *)
(* cut off, too few items, or a summary is asked for.                      *)
compact_if_needed(v) ==
  LET items == Projection(v)
      total == Weight(items) + Incoming
      cand  == select_compaction_candidates(items, total, Cfg) IN
  /\ Len(log) < MaxLog
  /\ \A u \in Agents : u.scope = v.scope => At(u, "idle")     \* one driver runs the turns of a scope
  /\ turn' = [turn EXCEPT ![v] =
       IF total < Cfg.trigger \/ Len(cand) < Cfg.min \/ cand = <<>>
       THEN [NoTurn EXCEPT !.pc = "begin"]
       ELSE [pc |-> "summarize", cand |-> cand, total |-> total]]
  /\ UNCHANGED <<log, row>>

(* The summary fails or is empty: near the limit the turn fails. *)
summarize_fails(v) ==
  /\ At(v, "summarize")
  /\ IF Cfg.hard > 0 /\ turn[v].total >= Cfg.hard THEN TurnEnds(v) ELSE Goto(v, "begin")
  /\ UNCHANGED <<log, row>>

(* _store_compaction: the one row of the scope. *)
StoredRow(cand, w) == [end |-> Max(IdsOf(cand)), covers |-> IdsOf(cand), w |-> w]

(* The summary is stored in place of the one before. *)
store_compaction(v) ==
  /\ At(v, "summarize")
  /\ \E w \in 1..Cfg.summary : row' = [row EXCEPT ![v] = StoredRow(turn[v].cand, w)]
  /\ turn' = [turn EXCEPT ![v] = [NoTurn EXCEPT !.pc = "begin"]]
  /\ UNCHANGED log

(* Storing fails, or the turn is canceled: it ends. *)
turn_breaks(v) ==
  /\ ~At(v, "idle")
  /\ TurnEnds(v)
  /\ UNCHANGED <<log, row>>

(* build_turn_input_item: a message of the user, or an internal one. *)
turn_begins(v, kind) ==
  /\ At(v, "begin")
  /\ add_items(<<Item(v, 1, kind, NoCall, Incoming)>>)
  /\ Goto(v, "model")
  /\ UNCHANGED row

(* ContextBudgetFilter before every model call, then ModelInputAdapter. *)
ModelCall(v) == constrain_model_input(Projection(v), Instructions, Budget)

model_call_raises(v) ==
  /\ At(v, "model") /\ ~ModelCall(v).ok
  /\ TurnEnds(v)
  /\ UNCHANGED <<log, row>>

answers(v) ==
  /\ At(v, "model") /\ ModelCall(v).ok
  /\ add_items(<<Item(v, 1, "assistant", NoCall, 1)>>)
  /\ TurnEnds(v)
  /\ UNCHANGED row

(* The model calls a tool; the output may be large, and with a second call *)
(* the outputs come in either order, reasoning may lie between.            *)
calls_tools(v) ==
  LET a == Len(log) + 1 IN
  /\ At(v, "model") /\ ModelCall(v).ok
  /\ \/ \E w \in {1, 3} : add_items(<<Item(v, 1, "call", a, 1), Item(v, 2, "output", a, w)>>)
     \/ add_items(<<Item(v, 1, "call", a, 1), Item(v, 2, "call", a + 1, 1), Item(v, 3, "reason", NoCall, 1),
                    Item(v, 4, "output", a + 1, 1), Item(v, 5, "output", a, 1)>>)
  /\ UNCHANGED <<row, turn>>

(* Broken off while the tool runs. *)
tool_is_interrupted(v) ==
  /\ At(v, "model") /\ ModelCall(v).ok
  /\ add_items(<<Item(v, 1, "call", Len(log) + 1, 1)>>)
  /\ TurnEnds(v)
  /\ UNCHANGED row

Next ==
  \E v \in Agents :
    \/ compact_if_needed(v) \/ summarize_fails(v) \/ store_compaction(v) \/ turn_breaks(v)
    \/ \E kind \in v.begins : turn_begins(v, kind)
    \/ model_call_raises(v) \/ answers(v) \/ calls_tools(v) \/ tool_is_interrupted(v)

Spec == Init /\ [][Next]_vars

-----------------------------------------------------------------------------
(* The types; a compaction covers stored items up to its end. *)
TypeOK ==
  /\ \A i \in DOMAIN log : log[i].id = i
  /\ \A v \in Agents : /\ row[v].end \in 0..Len(log) /\ row[v].covers \subseteq 1..row[v].end
                       /\ turn[v].pc \in {"idle", "summarize", "begin", "model"}
                       /\ IdsOf(turn[v].cand) \subseteq DOMAIN log

(* Every item an agent may see is in its context exactly once: itself, or  *)
(* within the summary that stands for it - whatever the other agents       *)
(* stored while it was being written (project_context, _filter_compacted). *)
NothingLost ==
  \A v \in Agents :
    LET seen == Projection(v)
        all  == IdsOf(project_visible(log, v.code, v.scope)) IN
    /\ IdsOf(seen) = all
    /\ \A i, j \in DOMAIN seen : i # j => seen[i].ids \cap seen[j].ids = {}

(* A compaction never parts a tool call from its output                    *)
(* (_select_compaction_candidates).                                        *)
NoSplitCall ==
  \A v \in Agents : \A i \in DOMAIN log :
    log[i].kind = "output" /\ log[i].call \in row[v].covers => i \in row[v].covers

(* What is left has each tool output after its call, and each call is      *)
(* answered.                                                               *)
Paired(s) ==
  \A i \in DOMAIN s :
    /\ s[i].kind = "output" => \E j \in 1..(i-1) : s[j].kind = "call" /\ s[j].call = s[i].call
    /\ s[i].kind = "call" => \E j \in (i+1)..Len(s) : s[j].kind = "output" /\ s[j].call = s[i].call

(* What a provider is given is paired, although turns were broken off and  *)
(* items left out (ToolTransactionNormalizer, _drop_orphan_tool_items);    *)
(* and when context must be left out, the newest item - the message of the *)
(* user or the tool result the model waits for - is still there, or the    *)
(* call is refused (_prune_items_to_budget).  An earlier call that was     *)
(* broken off is excepted: ToolTransactionNormalizer keeps its transaction *)
(* open, so that the calls after it are dropped with it.                   *)
SubmittedIsSound ==
  \A v \in Agents :
    LET seen == Projection(v)
        sent == constrain_model_input(seen, Instructions, Budget)
        s    == normalize(sent.items)
    IN  sent.ok => /\ Paired(s)
                   /\ At(v, "model") /\ CallsOf(seen, "call") \subseteq CallsOf(seen, "output")
                      => seen[Len(seen)].ids \subseteq IdsOf(s)
=============================================================================
