---------------------------- MODULE WorkspaceIO -----------------------------
(***************************************************************************)
(* What goes on inside one workspace: its file manager (WorkspaceFiles)    *)
(* and the runs of its tools (ToolRuns).  They share nothing but the event *)
(* loop, so a step is a step of one of them.                               *)
(***************************************************************************)
EXTENDS WorkspaceFiles, ToolRuns

ioVars == <<fileVars, toolVars>>

IOInit == FInit /\ RInit

IONext == \/ FNext /\ UNCHANGED toolVars
          \/ RNext /\ UNCHANGED fileVars

IOSpec == IOInit /\ [][IONext]_ioVars

IOTypeOK == FTypeOK /\ RTypeOK
=============================================================================
