------------------------------- MODULE MCTurn -------------------------------
(***************************************************************************)
(* A turn from both ends: what the model is given of the stored            *)
(* conversation (Conversation), and what the client is shown of the        *)
(* stream that answers (LiveStream).  The two share nothing that is        *)
(* modelled, so a behaviour is one of one part; the other stands still.    *)
(***************************************************************************)
EXTENDS Conversation, LiveStream

CONSTANTS c1, c2

VARIABLE part

(* Nothing tells one tool call of the stream from the other. *)
CallSymmetry == Permutations(Calls)

(* A main agent, the agent that was main before it, and a subagent. *)
MCAgents == {[code |-> "main", scope |-> 0, begins |-> {"user", "resume"}],
             [code |-> "other", scope |-> 0, begins |-> {"resume"}],
             [code |-> "sub", scope |-> 1, begins |-> {"user"}]}
MCCfg    == [trigger |-> 5, hard |-> 8, target |-> 3, preserve |-> 1, recent |-> 2, min |-> 2, summary |-> 1]

MCInit == Init /\ LiveInit /\ part \in {"context", "stream"}

MCNext == \/ part = "context" /\ Next /\ UNCHANGED <<part, liveVars>>
          \/ part = "stream" /\ LiveNext /\ UNCHANGED <<part, vars>>

MCSpec == MCInit /\ [][MCNext]_<<part, vars, liveVars>>

(* What a provider is given is whole: both parts are well typed, a         *)
(* compaction never parts a tool call from its output, each output comes   *)
(* after its call and each call is answered, and when context must be left *)
(* out the newest item stays (core/conversation/compaction.py,             *)
(* core/conversation/context_budget.py, core/agent/model_input.py).        *)
SubmittedIsWhole == TypeOK /\ LiveTypeOK /\ NoSplitCall /\ SubmittedIsSound
=============================================================================
