----------------------------- MODULE ModelInput -----------------------------
(***************************************************************************)
(* From the stored conversation to what a model is given                   *)
(* (core/conversation/projection.py, compaction.py, context_budget.py and  *)
(* core/agent/model_input.py), as functions on sequences of items.         *)
(*                                                                         *)
(* A stored item is [id, owner, kind, call, scope, w]: who wrote it, what  *)
(* it is, the tool call it belongs to, the nested call it was written in,  *)
(* its estimated tokens.  A projected item is [kind, call, ids, w], ids    *)
(* being the stored items it stands for; texts are left out.               *)
(***************************************************************************)
EXTENDS Integers, Sequences, FiniteSets, FiniteSetsExt, SequencesExt

NoCall    == 0
Private   == {"reason", "call", "output"}       \* _OWNER_PRIVATE_TYPES
Internal  == {"summary", "resume"}              \* _INTERNAL_CONTEXT_ITEM_IDS
UserKinds == {"user"} \cup Internal             \* role "user"

Weight(items) == FoldLeft(LAMBDA n, x : n + x.w, 0, items)
IdsOf(items)  == UNION {items[i].ids : i \in DOMAIN items}

(* The items of s at the places of t, in their order. *)
Keep(s, t) ==
  LET kept[i \in 0..Len(s)] == IF i = 0 THEN <<>> ELSE IF i \in t THEN Append(kept[i-1], s[i]) ELSE kept[i-1]
  IN kept[Len(s)]

CallsOf(items, kind) == {items[i].call : i \in {j \in DOMAIN items : items[j].kind = kind}}

-----------------------------------------------------------------------------
(* project_context *)

Projected(x) == [kind |-> x.kind, call |-> x.call, ids |-> {x.id}, w |-> x.w]

(* _build_foreign_block: consecutive messages of one other agent are one. *)
WithBlock(a) ==
  IF a.pend = <<>> THEN a.out
  ELSE Append(a.out, [kind |-> "foreign", call |-> NoCall, ids |-> {a.pend[i].id : i \in DOMAIN a.pend},
                      w |-> Weight(a.pend)])

(* One stored item, as the agent "viewer" sees it (_project_visible). *)
ProjectItem(viewer, a, x) ==
  LET shown == [out |-> Append(WithBlock(a), Projected(x)), pend |-> <<>>] IN
  CASE x.scope # NoCall                                            -> a
    [] x.scope = NoCall /\ x.kind \in UserKinds                    ->
         IF x.kind \in Internal /\ x.owner # viewer THEN a ELSE shown
    [] x.scope = NoCall /\ x.kind \notin UserKinds /\ x.owner = viewer -> shown
    [] OTHER -> IF x.kind \in Private THEN a
                ELSE IF a.pend # <<>> /\ a.pend[1].owner # x.owner
                THEN [out |-> WithBlock(a), pend |-> <<x>>]
                ELSE [a EXCEPT !.pend = Append(@, x)]

project_visible(stored, viewer, scope) ==
  IF scope # NoCall
  THEN LET mine == Keep(stored, {i \in DOMAIN stored : stored[i].owner = viewer /\ stored[i].scope = scope}) IN
       [i \in DOMAIN mine |-> Projected(mine[i])]
  ELSE LET after[i \in 0..Len(stored)] ==
             IF i = 0 THEN [out |-> <<>>, pend |-> <<>>] ELSE ProjectItem(viewer, after[i-1], stored[i])
       IN WithBlock(after[Len(stored)])

(* Mutant: the last compacted message is shown again. *)
filter_compacted_off_by_one(stored, end) == Keep(stored, {i \in DOMAIN stored : stored[i].id >= end})

filter_compacted(stored, end) == Keep(stored, {i \in DOMAIN stored : stored[i].id > end})

(* The summary replaces what it covers.  row is the stored compaction:     *)
(* [end, covers, w], or end = 0 without one.                               *)
project_context(stored, viewer, scope, row) ==
  LET rest == project_visible(filter_compacted(stored, row.end), viewer, scope) IN
  IF row.end = 0 THEN rest
  ELSE <<[kind |-> "summary", call |-> NoCall, ids |-> row.covers, w |-> row.w]>> \o rest

-----------------------------------------------------------------------------
(* _select_compaction_candidates; cfg is the agent_runtime configuration. *)

(* The recent items that stay, from the end. *)
PreservedCount(items, cfg) ==
  LET enough(k) == k >= cfg.recent /\ Weight(SubSeq(items, Len(items) - k + 1, Len(items))) >= cfg.preserve
      ks        == {k \in 0..Len(items) : enough(k)} IN
  IF ks = {} THEN Len(items) ELSE Min(ks)

(* An atomic group is opened by its first item and closed by its second. *)
Toggle(open, x) ==
  IF x.call = NoCall THEN open
  ELSE IF x.call \in open THEN open \ {x.call} ELSE open \cup {x.call}

OpenAfter(items, n) ==
  LET open[k \in 0..n] == IF k = 0 THEN {} ELSE Toggle(open[k-1], items[k]) IN open[n]

(* Mutant: a call may be cut from its output. *)
select_candidates_cutting(items, total, cfg) ==
  SubSeq(items, 1, Len(items) - PreservedCount(items, cfg))

select_compaction_candidates(items, total, cfg) ==
  LET prefix   == SubSeq(items, 1, Len(items) - PreservedCount(items, cfg))
      whole(n) == OpenAfter(items, n) = {} /\ n >= cfg.min
      reaches(n) == whole(n) /\ total - Weight(SubSeq(items, 1, n)) + cfg.summary <= cfg.target
      hits     == {n \in DOMAIN prefix : reaches(n)}
      wholes   == {n \in DOMAIN prefix : whole(n)} IN
  CASE hits # {}                                             -> SubSeq(prefix, 1, Min(hits))
    [] hits = {} /\ OpenAfter(items, Len(prefix)) = {}       -> prefix
    [] OTHER -> IF wholes = {} THEN <<>> ELSE SubSeq(prefix, 1, Max(wholes))

-----------------------------------------------------------------------------
(* constrain_model_input: the newest chunks that fit.                      *)

Notice == [kind |-> "user", call |-> NoCall, ids |-> {}, w |-> 1]    \* _budget_notice_item

(* Where a chunk of _build_chunks ends: where no tool call is open, each is *)
(* one chunk with what follows up to its output.                           *)
Opened(open, x) ==
  CASE x.kind = "call"                        -> open \cup {x.call}
    [] x.kind = "output"                      -> open \ {x.call}
    [] x.kind # "call" /\ x.kind # "output"   -> open

PendingAfter(items, n) ==
  LET open[k \in 0..n] == IF k = 0 THEN {} ELSE Opened(open[k-1], items[k]) IN open[n]

ChunkEnds(items) == {n \in 0..Len(items) : PendingAfter(items, n) = {}}

drop_orphan_tool_items(items) ==
  LET paired == CallsOf(items, "call") \cap CallsOf(items, "output") IN
  Keep(items, {i \in DOMAIN items : items[i].kind \notin {"call", "output"} \/ items[i].call \in paired})

Raises      == [ok |-> FALSE, items |-> <<>>]
Returns(s)  == [ok |-> TRUE, items |-> s]

(* _split_context_anchor, _select_recent_chunks: the newest chunks that fit *)
(* are those after "from".                                                 *)
prune_items_to_budget(items, budget) ==
  LET head     == IF items # <<>> /\ items[1].kind = "summary" THEN 1 ELSE 0
      anchor   == IF head = 1 /\ budget - items[1].w - Notice.w > 0 THEN <<items[1]>> ELSE <<>>
      room     == Max({0, budget - Weight(anchor) - Notice.w})
      after(n) == SubSeq(items, n + 1, Len(items))
      fitting  == {n \in ChunkEnds(items) : head <= n /\ n < Len(items) /\ Weight(after(n)) <= room}
      from     == IF fitting = {} THEN Len(items) ELSE Min(fitting)
      notice   == IF from > head THEN <<Notice>> ELSE <<>>
      first    == drop_orphan_tool_items(anchor \o notice \o after(from))
      second   == drop_orphan_tool_items(notice \o after(from)) IN
  CASE from = Len(items) /\ from > head                           -> Raises
    [] ~(from = Len(items) /\ from > head) /\ Weight(first) <= budget -> Returns(first)
    [] OTHER -> IF anchor # <<>> /\ Weight(second) <= budget THEN Returns(second) ELSE Raises

(* instr: the tokens of the instructions. *)
constrain_model_input(items, instr, budget) ==
  IF Weight(items) + instr <= budget THEN Returns(items)
  ELSE IF budget - instr <= 0 THEN Raises
  ELSE prune_items_to_budget(items, budget - instr)

-----------------------------------------------------------------------------
(* ToolTransactionNormalizer: a call and its outputs are put together, a   *)
(* transaction without all its outputs is dropped, what stood inside it    *)
(* stays.                                                                  *)

Start         == [norm |-> <<>>, t |-> [calls |-> <<>>, outs |-> <<>>, deferred |-> <<>>]]
Has(s, call)  == \E i \in DOMAIN s : s[i].call = call
Complete(t)   == t.calls # <<>> /\ \A i \in DOMAIN t.calls : t.calls[i].call \in DOMAIN t.outs
Ordered(t)    == t.calls \o [i \in DOMAIN t.calls |-> t.outs[t.calls[i].call]] \o t.deferred

Flush(a)   == IF Complete(a.t) THEN [Start EXCEPT !.norm = a.norm \o Ordered(a.t)] ELSE a
Discard(a) == IF a.t.calls = <<>> THEN a ELSE [Start EXCEPT !.norm = a.norm \o a.t.deferred]

HandleCall(a, x) ==
  LET f == Flush(a)
      b == IF Has(f.t.calls, x.call) THEN Discard(f) ELSE f IN
  [b EXCEPT !.t.calls = Append(@, x)]

(* outs: the output of each call that has one (outputs_by_call_id). *)
HandleOutput(a, x) ==
  IF ~Has(a.t.calls, x.call) \/ x.call \in DOMAIN a.t.outs THEN a
  ELSE Flush([a EXCEPT !.t.outs = [c \in DOMAIN @ \cup {x.call} |-> IF c = x.call THEN x ELSE @[c]]])

HandleRegular(a, x) ==
  IF a.t.calls # <<>> THEN [a EXCEPT !.t.deferred = Append(@, x)] ELSE [a EXCEPT !.norm = Append(@, x)]

Handle(a, x) == CASE x.kind = "call"   -> HandleCall(a, x)
                  [] x.kind = "output" -> HandleOutput(a, x)
                  [] OTHER             -> HandleRegular(a, x)

normalize(items) ==
  LET after[i \in 0..Len(items)] == IF i = 0 THEN Start ELSE Handle(after[i-1], items[i]) IN
  Discard(Flush(after[Len(items)])).norm
=============================================================================
