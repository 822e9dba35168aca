------------------------- MODULE MCTreeAndTimeline -------------------------
(***************************************************************************)
(* A session's tree of subagents and its timeline of events, side by side: *)
(* they share nothing that is modelled, so a behaviour is one of one part; *)
(* the other stands still.  Once two objects of the session overlap, the   *)
(* timeline promises nothing (README, known races): a step into such a     *)
(* state is not followed.  Neither are two kinds of steps of the tree once *)
(* a cancel-all has begun, to bound the run (NoneAfterAll); the theorems   *)
(* of SubagentTree are about all of them.                                  *)
(***************************************************************************)
EXTENDS SubagentTree, Timeline, TLC

CONSTANTS s1, s2, root

VARIABLE part

MCRuns      == {s1, s2}
MCInstances == {s1, s2, root}
MCSymmetry  == Permutations(MCRuns)

MCInit == TreeInit /\ Init /\ part \in {"tree", "timeline"}

(* Bound: with a cancel-all, the main agent starts no more runs, and the   *)
(* turn that called the tool is not canceled.                              *)
NoneAfterAll ==
    used.alls > 0 =>
        /\ \A s \in Ntf : starter[s] = "none" /\ starter'[s] = "create" => owner'[s] # Root
        /\ cpc["tool"] = "wait" /\ cpc'["tool"] = "idle" =>
              ~Up' \/ (waits["tool"] = {} /\ stack["tool"] = <<>>)

MCNext == \/ part = "tree" /\ TreeNext /\ NoneAfterAll /\ UNCHANGED <<part, vars>>
          \/ part = "timeline" /\ Next /\ ~overlap' /\ UNCHANGED <<part, treeVars>>

MCSpec == MCInit /\ [][MCNext]_<<part, treeVars, vars>>

=============================================================================
