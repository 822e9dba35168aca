---------------------------- MODULE LightRAGGate ----------------------------
(***************************************************************************)
(* The one LightRAG instance of the process (core/lightrag/runtime.py) and *)
(* the saving of the instance configuration that replaces it               *)
(* (service/system_config/config.py).                                      *)
(*                                                                         *)
(* Every operation on documents keeps the instance for as long as it runs  *)
(* (lightrag_client); a replacement keeps new operations out, waits for    *)
(* those that run, finalizes the old instance and initializes the new one. *)
(* The condition's lock is held across no other await, so what happens     *)
(* under it is one step.  Saving is serialized by _config_lock.            *)
(***************************************************************************)
EXTENDS Naturals, FiniteSets

CONSTANTS Clients,      \* the tasks that use the instance
          MaxSaves      \* bound on saves of the configuration

ASSUME SavesAssumption == MaxSaves \in Nat

VARIABLES rag,          \* _rag: [n, cfg], or NoRag
          conf,         \* get_config().lightrag, in memory
          moving,       \* _rag_transitioning
          held,         \* [Clients -> the instance it uses, or NoRag]
          open,         \* the instances whose storages are initialized
          saver,        \* the request that saves: [pc, old, new, agents, back]
          built,        \* how many instances were built
          saves,        \* how many saves there were
          aborted       \* a rollback was broken off

gate == <<rag, conf, moving, held, open, saver, built, saves, aborted>>

Configs == {"a", "b"}
NoRag   == [n |-> 0, cfg |-> "a"]
NoSave  == [pc |-> "idle", old |-> "a", new |-> "a", agents |-> FALSE, back |-> FALSE]

inside == {p \in Clients : held[p] # NoRag}    \* _rag_active_operations

GInit ==
  /\ conf = "a" /\ rag = [n |-> 1, cfg |-> "a"] /\ open = {rag} /\ built = 1
  /\ moving = FALSE /\ held = [p \in Clients |-> NoRag]
  /\ saver = NoSave /\ saves = 0 /\ aborted = FALSE

-----------------------------------------------------------------------------
(* lightrag_client: wait for the end of a transition, then take the        *)
(* instance; without one the operation raises.                             *)

Enter(p) == /\ ~moving /\ rag # NoRag
            /\ held' = [held EXCEPT ![p] = rag]
            /\ UNCHANGED <<rag, conf, moving, open, saver, built, saves, aborted>>

NoInstance == ~moving /\ rag = NoRag

Leave(p) == /\ held[p] # NoRag
            /\ held' = [held EXCEPT ![p] = NoRag]
            /\ UNCHANGED <<rag, conf, moving, open, saver, built, saves, aborted>>

-----------------------------------------------------------------------------
(* restart_lightrag, for a save and for rolling one back. *)

SaverAt(l)     == saver.pc = l
SaverGoes(l)   == saver' = [saver EXCEPT !.pc = l]
Wanted         == IF saver.back THEN saver.old ELSE saver.new

(* The save fails: the configuration in memory and on disk is put back     *)
(* (_restore_instance_config).                                             *)
SaveFails == saver' = NoSave /\ conf' = IF saver.back THEN conf ELSE saver.old

(* _ensure_embedding_storage_compatible may refuse; _apply_instance_config *)
(* tells what changed.                                                     *)
update_instance_config(c, agents) ==
  /\ SaverAt("idle") /\ saves < MaxSaves /\ saves' = saves + 1
  /\ c # conf \/ agents
  /\ conf' = c
  /\ saver' = [pc |-> IF c # conf THEN "claim" ELSE "agents",
               old |-> conf, new |-> c, agents |-> agents, back |-> FALSE]
  /\ UNCHANGED <<rag, moving, held, open, built, aborted>>

restart_claims ==
  /\ SaverAt("claim") /\ ~moving
  /\ moving' = TRUE
  /\ SaverGoes("drain")
  /\ UNCHANGED <<rag, conf, held, open, built, saves, aborted>>

(* Mutant: the running operations are not waited for. *)
restart_drained_at_once ==
  /\ SaverAt("drain")
  /\ rag' = NoRag
  /\ saver' = [saver EXCEPT !.pc = "finalize"]
  /\ UNCHANGED <<conf, moving, held, open, built, saves, aborted>>

restart_drained ==
  /\ SaverAt("drain") /\ inside = {}
  /\ rag' = NoRag
  /\ saver' = [saver EXCEPT !.pc = "finalize"]
  /\ UNCHANGED <<conf, moving, held, open, built, saves, aborted>>

(* Mutant: the flag stays up. *)
drain_canceled_flag_up ==
  /\ SaverAt("drain")
  /\ SaveFails
  /\ aborted' = (aborted \/ saver.back)
  /\ UNCHANGED <<rag, moving, held, open, built, saves>>

(* The request is canceled while it waits. *)
drain_canceled ==
  /\ SaverAt("drain")
  /\ moving' = FALSE
  /\ SaveFails
  /\ aborted' = (aborted \/ saver.back)
  /\ UNCHANGED <<rag, held, open, built, saves>>

(* finalize_storages of the previous instance; raising, it may or may not  *)
(* have closed them.                                                       *)
finalize_previous ==
  /\ SaverAt("finalize")
  /\ \/ open' = {} /\ SaverGoes("initialize")
     \/ open' \in {open, {}} /\ SaverGoes("restore")
  /\ UNCHANGED <<rag, conf, moving, held, built, saves, aborted>>

Instance(c) == [n |-> built + 1, cfg |-> c]

(* _build_lightrag and initialize_storages, or _finalize_after_failure. *)
initialize_replacement ==
  /\ SaverAt("initialize")
  /\ \/ /\ rag' = Instance(Wanted) /\ built' = built + 1
        /\ open' = open \cup {rag'}
        /\ moving' = FALSE
        /\ saver' = IF saver.back THEN NoSave ELSE [saver EXCEPT !.pc = "agents"]
     \/ UNCHANGED <<rag, open, moving, built>> /\ SaverGoes("restore")
  /\ UNCHANGED <<conf, held, saves, aborted>>

(* Mutant: the instance that failed is tried again. *)
restore_lightrag_new ==
  /\ SaverAt("restore")
  /\ \/ ~saver.back /\ rag' = Instance(saver.new) /\ open' = open \cup {rag'} /\ built' = built + 1
     \/ UNCHANGED <<rag, open, built>>
  /\ moving' = FALSE
  /\ SaveFails
  /\ UNCHANGED <<held, saves, aborted>>

(* _restore_lightrag: the fallback, which a rollback does not have. *)
restore_lightrag ==
  /\ SaverAt("restore")
  /\ \/ ~saver.back /\ rag' = Instance(saver.old) /\ open' = open \cup {rag'} /\ built' = built + 1
     \/ UNCHANGED <<rag, open, built>>
  /\ moving' = FALSE
  /\ SaveFails
  /\ UNCHANGED <<held, saves, aborted>>

(* rebuild_agent_instances, if the agents changed; when it fails LightRAG  *)
(* is rolled back too.                                                     *)
rebuild_agents ==
  /\ SaverAt("agents")
  /\ \/ saver' = NoSave /\ UNCHANGED conf
     \/ /\ saver.agents
        /\ conf' = saver.old
        /\ saver' = IF saver.old # saver.new THEN [saver EXCEPT !.pc = "claim", !.back = TRUE] ELSE NoSave
  /\ UNCHANGED <<rag, moving, held, open, built, saves, aborted>>

Saving ==
  \/ \E c \in Configs, agents \in BOOLEAN : update_instance_config(c, agents)
  \/ restart_claims \/ restart_drained \/ drain_canceled \/ finalize_previous
  \/ initialize_replacement \/ restore_lightrag \/ rebuild_agents

-----------------------------------------------------------------------------
GTypeOK ==
  /\ conf \in Configs /\ moving \in BOOLEAN /\ aborted \in BOOLEAN
  /\ \A r \in open \cup {rag} \cup {held[p] : p \in Clients} : r.n \in 0..built /\ r.cfg \in Configs
  /\ saver.pc \in {"idle", "claim", "drain", "finalize", "initialize", "restore", "agents"}
  /\ saves \in 0..MaxSaves

(* No operation uses an instance whose storages are finalized: replacing   *)
(* it waits for every operation that has it, and none gets it afterwards   *)
(* (lightrag_client, restart_lightrag).                                    *)
NoUseAfterFinalize == \A p \in inside : held[p] \in open

(* The transition flag is up only while a request is replacing the         *)
(* instance; otherwise every operation would wait for ever                 *)
(* (restart_lightrag, except BaseException and finally).                   *)
FlagHasOwner == moving => saver.pc \in {"drain", "finalize", "initialize", "restore"}

(* When no save is under way, the instance in use was built from the       *)
(* configuration in memory, whichever of the steps of a save failed and    *)
(* was rolled back - unless a rollback was itself canceled                 *)
(* (_apply_instance_config_from_file).                                     *)
InstanceMatchesConfig == SaverAt("idle") /\ rag # NoRag /\ ~aborted => rag.cfg = conf
=============================================================================
