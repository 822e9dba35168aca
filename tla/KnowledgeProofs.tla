-------------------------- MODULE KnowledgeProofs --------------------------
(***************************************************************************)
(* The gate to the LightRAG instance and the saving of the configuration   *)
(* that replaces it, and the documents that are uploaded, deleted and      *)
(* processed inside it, for any number of clients, uploads, names and      *)
(* saves.  SourcesInv says of every name that is not excused who owns its  *)
(* source copies and who will see to its document, at each stage of the    *)
(* loop; each action is shown to keep it, name by name.                    *)
(***************************************************************************)
EXTENDS Knowledge, TLAPS

-----------------------------------------------------------------------------
(* The inductive invariant of the gate.                                     *)

Insts == [n : Nat, cfg : Configs]

GateTypes ==
  /\ rag \in Insts /\ open \in SUBSET Insts /\ held \in [Clients -> Insts]
  /\ conf \in Configs /\ moving \in BOOLEAN /\ aborted \in BOOLEAN
  /\ built \in Nat /\ saves \in 0..MaxSaves
  /\ saver \in [pc : {"idle", "claim", "drain", "finalize", "initialize", "restore", "agents"},
                old : Configs, new : Configs, agents : BOOLEAN, back : BOOLEAN]

(* The instance on offer can be used; it is withdrawn, and nobody is left   *)
(* inside, while it is replaced.                                           *)
OfferIsOpen == rag # NoRag => rag \in open

Replacing == saver.pc \in {"finalize", "initialize", "restore"}

ReplacedAlone ==
  /\ Replacing => rag = NoRag /\ inside = {}
  /\ moving <=> Replacing \/ saver.pc = "drain"

(* What the instance on offer was built from, at each stage of a save.      *)
OfferMatches(c) == rag # NoRag /\ ~aborted => rag.cfg = c

SaveStages ==
  /\ SaverAt("idle") => OfferMatches(conf)
  /\ ~SaverAt("idle") => conf = Wanted
  /\ saver.pc \in {"claim", "drain"} => OfferMatches(IF saver.back THEN saver.new ELSE saver.old)
  /\ SaverAt("agents") => OfferMatches(conf) /\ ~saver.back

GateInv ==
  /\ GateTypes
  /\ OfferIsOpen
  /\ ReplacedAlone
  /\ NoUseAfterFinalize
  /\ SaveStages

-----------------------------------------------------------------------------

(* What the knowledge base does to the gate in one step.                    *)
Restart ==
  /\ SaverAt("idle")
  /\ rag' = [n |-> built + 1, cfg |-> conf] /\ open' = {rag'} /\ built' = built + 1
  /\ held' = [p \in Clients |-> NoRag]
  /\ UNCHANGED <<conf, moving, saver, saves, aborted>>

(* What one step of the runtime does to the gate: a client comes or goes, a *)
(* save moves on, the process restarts, or the gate is left alone.          *)
LEMMA GateMoves ==
  ASSUME [Next]_vars
  PROVE  \/ \E p \in Clients : Enter(p)
         \/ \E p : Leave(p)
         \/ Saving \/ Restart \/ UNCHANGED gate
<1>1. ASSUME NEW u \in Uploads,
             \/ upload_starts(u) \/ upload_writes(u) \/ enqueue_fails(u) \/ upload_answers(u)
             \/ upload_breaks(u) \/ upload_finds_no_instance(u)
             \/ \E n \in Names : upload_checks(u, n) \/ upload_enqueues(u, n)
      PROVE  Leave(u) \/ UNCHANGED gate
  BY <1>1 DEF upload_starts, upload_writes, enqueue_fails, upload_answers, upload_breaks,
     upload_finds_no_instance, upload_checks, upload_enqueues
<1>2. ASSUME \/ delete_document \/ delete_cleans \/ delete_finds_no_instance
             \/ \E n \in Names : delete_starts(n)
      PROVE  Leave("delete") \/ UNCHANGED gate
  BY <1>2 DEF delete_document, delete_cleans, delete_finds_no_instance, delete_starts
<1>3. ASSUME \/ loop_takes \/ loop_recovers \/ loop_processes \/ loop_polls \/ loop_cleans
             \/ loop_raises \/ loop_finds_no_instance \/ loop_retries
      PROVE  Leave("loop") \/ UNCHANGED gate
  BY <1>3 DEF loop_takes, loop_recovers, loop_processes, loop_polls, loop_cleans, loop_raises,
     loop_finds_no_instance, loop_retries
<1>4. crash => Restart
  BY DEF crash, Restart
<1>5. ASSUME NEW p \in Clients, enter_gate(p) \/ reads(p) PROVE Enter(p) \/ Leave(p)
  BY <1>5 DEF enter_gate, reads
<1>6. ConfigStep => Saving
  BY DEF ConfigStep
<1>7. UNCHANGED vars => UNCHANGED gate
  BY DEF vars, gate
<1> QED BY <1>1, <1>2, <1>3, <1>4, <1>5, <1>6, <1>7 DEF Next

(* No client is inside the gate when the service starts.                   *)
LEMMA GateInit == Init => GateInv
<1> SUFFICES ASSUME GInit PROVE GateInv
  BY DEF Init
<1>0. NoRag \in Insts /\ [n |-> 1, cfg |-> "a"] \in Insts
  BY DEF NoRag, Insts, Configs
<1>1. GateTypes
  <2>1. rag \in Insts /\ open \in SUBSET Insts /\ held \in [Clients -> Insts]
    BY <1>0 DEF GInit
  <2>2. saver \in [pc : {"idle", "claim", "drain", "finalize", "initialize", "restore", "agents"},
                   old : Configs, new : Configs, agents : BOOLEAN, back : BOOLEAN]
    BY DEF GInit, NoSave, Configs
  <2>3. conf \in Configs /\ built \in Nat /\ saves \in 0..MaxSaves
    BY SavesAssumption DEF GInit, Configs
  <2>4. moving \in BOOLEAN /\ aborted \in BOOLEAN
    BY Zenon DEF GInit
  <2> QED BY <2>1, <2>2, <2>3, <2>4 DEF GateTypes
<1>2. OfferIsOpen /\ ReplacedAlone /\ NoUseAfterFinalize
  BY DEF GInit, OfferIsOpen, ReplacedAlone, Replacing, inside, NoUseAfterFinalize, NoSave
<1>3. SaveStages
  BY DEF GInit, SaveStages, SaverAt, OfferMatches, NoSave
<1> QED BY <1>1, <1>2, <1>3 DEF GateInv

(* Every step keeps the count of clients and the owner of the replacement. *)
LEMMA GateStep == GateInv /\ [Next]_vars => GateInv'
<1> SUFFICES ASSUME GateInv, [Next]_vars PROVE GateInv'
  OBVIOUS
<1> USE SavesAssumption DEF GateInv, GateTypes, Insts, Configs, NoRag, NoSave, OfferIsOpen,
        ReplacedAlone, Replacing, inside, NoUseAfterFinalize, SaveStages, SaverAt, SaverGoes, OfferMatches, Wanted
<1>1. ASSUME NEW p \in Clients, Enter(p) PROVE GateInv'
  BY <1>1 DEF Enter
<1>2. ASSUME NEW p, Leave(p) PROVE GateInv'
  BY <1>2 DEF Leave
<1>3. CASE Restart
  BY <1>3 DEF Restart
<1>4. CASE UNCHANGED gate
  BY <1>4 DEF gate
<1>5. ASSUME NEW c \in Configs, NEW agents \in BOOLEAN, update_instance_config(c, agents) PROVE GateInv'
  BY <1>5 DEF update_instance_config
<1>6. CASE restart_claims
  BY <1>6 DEF restart_claims
<1>7. CASE restart_drained
  BY <1>7 DEF restart_drained
<1>8. CASE drain_canceled
  BY <1>8 DEF drain_canceled, SaveFails
<1>9. CASE finalize_previous
  BY <1>9 DEF finalize_previous
<1>10. CASE initialize_replacement
  <2>1. CASE /\ rag' = Instance(Wanted) /\ built' = built + 1 /\ open' = open \cup {rag'} /\ moving' = FALSE
             /\ saver' = IF saver.back THEN NoSave ELSE [saver EXCEPT !.pc = "agents"]
    <3>1. rag' = [n |-> built + 1, cfg |-> conf] /\ rag'.cfg = conf /\ rag' \in Insts
      BY <1>10, <2>1 DEF initialize_replacement, Instance
    <3>0. /\ UNCHANGED <<conf, held, saves, aborted>> /\ rag = NoRag /\ conf = Wanted
          /\ \A p \in Clients : held[p] = NoRag
      BY <1>10 DEF initialize_replacement
    <3>4. open' \in SUBSET Insts /\ rag' \in open' /\ built' \in Nat
      BY <2>1, <3>1
    <3>2. CASE saver.back
      <4>1. /\ saver'.pc = "idle" /\ ~saver'.back
            /\ saver' \in [pc : {"idle", "claim", "drain", "finalize", "initialize", "restore", "agents"},
                           old : Configs, new : Configs, agents : BOOLEAN, back : BOOLEAN]
        BY <2>1, <3>2
      <4> QED BY <2>1, <3>0, <3>1, <3>4, <4>1
    <3>3. CASE ~saver.back
      <4>1. /\ saver'.pc = "agents" /\ ~saver'.back /\ saver'.new = saver.new
            /\ saver' \in [pc : {"idle", "claim", "drain", "finalize", "initialize", "restore", "agents"},
                           old : Configs, new : Configs, agents : BOOLEAN, back : BOOLEAN]
        BY <2>1, <3>3
      <4> QED BY <2>1, <3>0, <3>1, <3>3, <3>4, <4>1
    <3> QED BY <3>2, <3>3
  <2>2. CASE UNCHANGED <<rag, open, moving, built>> /\ saver' = [saver EXCEPT !.pc = "restore"]
    BY <1>10, <2>2 DEF initialize_replacement
  <2> QED BY <1>10, <2>1, <2>2 DEF initialize_replacement
<1>11. CASE restore_lightrag
  <2>0. moving' = FALSE /\ saver' = NoSave /\ conf' = (IF saver.back THEN conf ELSE saver.old)
        /\ UNCHANGED <<held, saves, aborted>> /\ Replacing
    BY <1>11 DEF restore_lightrag, SaveFails
  <2>1. CASE ~saver.back /\ rag' = Instance(saver.old) /\ open' = open \cup {rag'} /\ built' = built + 1
    <3>1. rag' = [n |-> built + 1, cfg |-> saver.old] /\ rag'.cfg = saver.old /\ rag' \in Insts
      BY <2>1 DEF Instance
    <3>2. open' \in SUBSET Insts /\ rag' \in open' /\ built' \in Nat /\ \A p \in Clients : held[p] = NoRag
      BY <2>0, <2>1, <3>1
    <3>3. conf' = saver.old
      BY <2>0, <2>1
    <3> QED BY <2>0, <3>1, <3>2, <3>3
  <2>2. CASE UNCHANGED <<rag, open, built>>
    BY <2>0, <2>2
  <2> QED BY <1>11, <2>1, <2>2 DEF restore_lightrag
<1>12. CASE rebuild_agents
  <2>0. UNCHANGED <<rag, moving, held, open, built, saves, aborted>> /\ saver.pc = "agents" /\ ~saver.back
        /\ conf = saver.new
    BY <1>12 DEF rebuild_agents
  <2>1. CASE saver' = NoSave /\ UNCHANGED conf
    BY <2>0, <2>1
  <2>2. CASE conf' = saver.old /\ saver.old # saver.new /\ saver' = [saver EXCEPT !.pc = "claim", !.back = TRUE]
    <3>1. /\ saver'.pc = "claim" /\ saver'.back /\ saver'.old = saver.old /\ saver'.new = saver.new
          /\ saver' \in [pc : {"idle", "claim", "drain", "finalize", "initialize", "restore", "agents"},
                         old : Configs, new : Configs, agents : BOOLEAN, back : BOOLEAN]
      BY <2>2
    <3> QED BY <2>0, <2>2, <3>1
  <2>3. CASE conf' = saver.old /\ saver.old = saver.new /\ saver' = NoSave
    BY <2>0, <2>3
  <2> QED BY <1>12, <2>1, <2>2, <2>3 DEF rebuild_agents
<1> QED BY <1>1, <1>2, <1>3, <1>4, <1>5, <1>6, <1>7, <1>8, <1>9, <1>10, <1>11, <1>12, GateMoves DEF Saving

(* No operation on documents, query or read ever uses an instance whose     *)
(* storages are finalized, however the saves that replace it, the failures *)
(* of each of their steps and restarts interleave with it                  *)
(* (lightrag_client against restart_lightrag).                             *)
THEOREM InstancesInUseAreOpen == Spec => []NoUseAfterFinalize
BY GateInit, GateStep, PTL DEF Spec, GateInv

(* The transition flag never stays up without a request that will take it  *)
(* down, and what is on offer after a save, or after rolling one back, was *)
(* built from the configuration in memory (restart_lightrag,               *)
(* _apply_instance_config_from_file).                                      *)
THEOREM ConfigIsAlwaysServed == Spec => []ConfigIsServed
<1>1. GateInv => ConfigIsServed
  BY DEF GateInv, ConfigIsServed, FlagHasOwner, ReplacedAlone, Replacing, InstanceMatchesConfig, SaveStages,
     OfferMatches
<1> QED BY <1>1, GateInit, GateStep, PTL DEF Spec

-----------------------------------------------------------------------------
(* The documents and their sources.                                         *)

DocStates == {"none", "pending", "processed", "failed"}
Tracks    == Uploads \X Names

DocTypes ==
  /\ doc \in [Names -> [st : DocStates, up : Uploads \cup {NoName}]]
  /\ \A n \in Names : Known(n) => doc[n].up \in Uploads
  /\ src \subseteq Copies(Names) /\ excused \subseteq Names

LoopTypes ==
  /\ tracks \subseteq Tracks /\ requested \in BOOLEAN /\ recover \in BOOLEAN
  /\ loop \in [pc : {"wait", "recover", "run", "poll", "clean", "retry"}, work : SUBSET Tracks,
               left : SUBSET Tracks, dirty : SUBSET Names, sr : BOOLEAN]
  /\ loop.left \subseteq loop.work
  /\ \A n \in loop.dirty : \E u \in Uploads : <<u, n>> \in loop.work

UploadRows == [pc : {"idle", "in", "done"}, todo : SUBSET Names, cur : Names \cup {NoName},
               acc : SUBSET Names, queued : SUBSET Names]

RequestTypes ==
  /\ up \in [Uploads -> UploadRows]
  /\ del \in [pc : {"idle", "delete", "clean"}, n : Names \cup {NoName}]
  /\ del.pc # "idle" => del.n \in Names

(* An upload has done nothing before it is inside the gate.                 *)
Untouched(r)   == r.acc = {} /\ r.queued = {} /\ r.cur = NoName
OutsideIsFresh == \A u \in Uploads :
  up[u].pc = "idle" \/ (up[u].pc = "in" /\ held[u] = NoRag) => Untouched(up[u])

(* A recovery stays due until an iteration has read what is recoverable.    *)
RecoverStage ==
  /\ loop.pc \in {"run", "poll", "clean"} => ~recover
  /\ loop.pc = "recover" => recover /\ loop.sr

(* A source that was written and not yet queued is on disk and belongs to   *)
(* one upload; that of a pending document is on disk and belongs to none.   *)
Accepted(n, u)  == n \in up[u].acc
OneOwner(n)     == \A u, v \in Uploads : Accepted(n, u) /\ Accepted(n, v) => <<n, "input">> \in src /\ u = v
PendingOwned(n) == doc[n].st = "pending" => <<n, "input">> \in src /\ \A u \in Uploads : ~Accepted(n, u)

(* Who will see to a pending document, and to what a processed one leaves.  *)
Told(n)       == Track(n) \in tracks
Unanswered(n) == n \in up[doc[n].up].queued /\ up[doc[n].up].pc = "in"

Attended(n) ==
  doc[n].st = "pending" =>
    \/ (requested \/ loop.pc = "retry") /\ (Told(n) \/ recover)
    \/ loop.pc = "recover"
    \/ loop.pc = "run" /\ Track(n) \in loop.work
    \/ Unanswered(n)

Tracked(n) ==
  /\ doc[n].st = "processed"
  /\ \/ Told(n) \/ Unanswered(n)
     \/ loop.pc \in {"recover", "run"} /\ Track(n) \in loop.work
     \/ loop.pc \in {"poll", "clean"} /\ Track(n) \in loop.left
     \/ loop.pc = "clean" /\ n \in loop.dirty

Needed(n) ==
  \/ doc[n].st \in {"pending", "failed"}
  \/ del.pc = "clean" /\ del.n = n
  \/ Tracked(n)

CopiesOwned(n) ==
  /\ <<n, "parsed">> \in src => Needed(n)
  /\ <<n, "input">> \in src => Needed(n) \/ \E u \in Uploads : Accepted(n, u)

NameInv(n) == OneOwner(n) /\ PendingOwned(n) /\ Attended(n) /\ CopiesOwned(n)

(* Instances are numbered as they are built.                                *)
Numbered == \A r \in open \cup {rag} \cup {held[p] : p \in Clients} : r.n <= built

SourcesInv ==
  /\ DocTypes /\ LoopTypes /\ RequestTypes
  /\ OutsideIsFresh /\ RecoverStage
  /\ \A n \in Names \ excused : NameInv(n)

-----------------------------------------------------------------------------
(* What SourcesInv says gives the property.                                 *)
LEMMA SourcesGive == GateInv /\ Numbered /\ SourcesInv => SourcesAreAccounted
<1> SUFFICES ASSUME GateInv, Numbered, SourcesInv PROVE SourcesAreAccounted
  OBVIOUS
<1>1. GTypeOK
  BY DEF GateInv, GateTypes, Numbered, GTypeOK, Insts
<1>2. TypeOK
  BY <1>1 DEF SourcesInv, DocTypes, LoopTypes, RequestTypes, TypeOK, DocStates, Tracks
<1>3. ASSUME NEW n \in Names \ excused PROVE NameInv(n)
  BY DEF SourcesInv
<1>4. QueuedIsAttended
  BY <1>3 DEF QueuedIsAttended, NameInv, Attended, Told, Unanswered, SourcesInv, RequestTypes, UploadRows, RecoverStage
<1>5. QueuedHasSource
  BY <1>3 DEF QueuedHasSource, NameInv, PendingOwned
<1>6. NoOrphanSource
  <2> SUFFICES ASSUME NEW n \in Names \ excused, NEW d \in Dirs, <<n, d>> \in src
               PROVE \/ doc[n].st \in {"pending", "failed"}
                     \/ \E u \in Uploads : \/ n \in up[u].acc
                                           \/ n \in up[u].queued /\ up[u].pc = "in"
                                           \/ <<u, n>> \in loop.work \cup tracks
                     \/ del.pc = "clean" /\ del.n = n
    BY DEF NoOrphanSource
  <2>1. Needed(n) \/ \E u \in Uploads : Accepted(n, u)
    BY <1>3 DEF NameInv, CopiesOwned, Dirs
  <2>2. CASE \E u \in Uploads : Accepted(n, u)
    BY <2>2 DEF Accepted
  <2>3. CASE Tracked(n)
    <3>1. doc[n].up \in Uploads
      BY <2>3 DEF Tracked, Known, SourcesInv, DocTypes
    <3>2. CASE loop.pc = "clean" /\ n \in loop.dirty
      BY <3>2 DEF SourcesInv, LoopTypes
    <3> QED BY <2>3, <3>1, <3>2 DEF Tracked, Told, Unanswered, Track, SourcesInv, LoopTypes
  <2> QED BY <2>1, <2>2, <2>3 DEF Needed
<1> QED BY <1>2, <1>4, <1>5, <1>6 DEF SourcesAreAccounted

(* No document, no source and a recovery due when the service starts.       *)
LEMMA SourcesInit == Init => SourcesInv /\ Numbered
<1> SUFFICES ASSUME Init PROVE SourcesInv /\ Numbered
  OBVIOUS
<1> USE DEF Init
<1>1. DocTypes
  BY DEF DocTypes, DocStates, NoDoc, Known, Copies
<1>2. LoopTypes
  BY DEF LoopTypes, IdleLoop, Tracks
<1>3. RequestTypes
  BY NamesAssumption DEF RequestTypes, UploadRows
<1>4. OutsideIsFresh
  BY DEF OutsideIsFresh, Untouched
<1>5. RecoverStage
  BY DEF RecoverStage, IdleLoop
<1>6. ASSUME NEW n \in Names PROVE NameInv(n)
  BY DEF NameInv, OneOwner, PendingOwned, Attended, CopiesOwned, Accepted, NoDoc
<1>7. Numbered
  BY DEF Numbered, GInit, NoRag
<1> QED BY <1>1, <1>2, <1>3, <1>4, <1>5, <1>6, <1>7 DEF SourcesInv

(* Building an instance is what numbers it.                                 *)
LEMMA NumberedStep == GateInv /\ Numbered /\ [Next]_vars => Numbered'
<1> SUFFICES ASSUME GateInv, Numbered, [Next]_vars PROVE Numbered'
  OBVIOUS
<1>0. built \in Nat /\ held \in [Clients -> Insts] /\ rag \in Insts /\ open \in SUBSET Insts
  BY DEF GateInv, GateTypes
<1> USE DEF Numbered, NoRag, Insts
<1>1. ASSUME NEW p \in Clients, Enter(p) PROVE Numbered'
  BY <1>0, <1>1 DEF Enter
<1>2. ASSUME NEW p, Leave(p) PROVE Numbered'
  BY <1>0, <1>2 DEF Leave
<1>3. CASE Restart
  BY <1>0, <1>3 DEF Restart
<1>4. CASE UNCHANGED gate
  BY <1>4 DEF gate
<1>5. CASE Saving
  <2>1. /\ held' = held
        /\ \/ rag' \in {rag, NoRag} /\ open' \in {open, {}} /\ built' = built
           \/ \E c : rag' = Instance(c) /\ open' = open \cup {rag'} /\ built' = built + 1
    <3>1. ASSUME NEW c \in Configs, NEW agents \in BOOLEAN, update_instance_config(c, agents)
          PROVE  held' = held /\ rag' = rag /\ open' = open /\ built' = built
      BY <3>1 DEF update_instance_config
    <3>2. CASE initialize_replacement \/ restore_lightrag
      BY <3>2 DEF initialize_replacement, restore_lightrag
    <3>3. CASE restart_claims \/ restart_drained \/ drain_canceled \/ finalize_previous \/ rebuild_agents
      BY <3>3 DEF restart_claims, restart_drained, drain_canceled, finalize_previous, rebuild_agents
    <3> QED BY <1>5, <3>1, <3>2, <3>3 DEF Saving
  <2>2. CASE rag' \in {rag, NoRag} /\ open' \in {open, {}} /\ built' = built
    BY <1>0, <2>1, <2>2
  <2>3. CASE \E c : rag' = Instance(c) /\ open' = open \cup {rag'} /\ built' = built + 1
    <3>1. rag'.n = built'
      BY <2>3 DEF Instance
    <3> QED BY <1>0, <2>1, <2>3, <3>1
  <2> QED BY <2>1, <2>2, <2>3
<1> QED BY <1>1, <1>2, <1>3, <1>4, <1>5, GateMoves

-----------------------------------------------------------------------------
(* A step of the gate only.                                                 *)
LEMMA QuietKeeps ==
  ASSUME SourcesInv, UNCHANGED <<docs, mem, loop, up, del, excused>>,
         \A u \in Uploads : held'[u] = NoRag => held[u] = NoRag
  PROVE  SourcesInv'
<1> USE DEF docs, mem
<1>1. DocTypes' /\ LoopTypes' /\ RequestTypes'
  BY DEF SourcesInv, DocTypes, LoopTypes, RequestTypes, Known
<1>2. OutsideIsFresh' /\ RecoverStage'
  BY DEF SourcesInv, OutsideIsFresh, RecoverStage
<1>3. ASSUME NEW n \in Names \ excused' PROVE NameInv(n)'
  BY DEF SourcesInv, NameInv, OneOwner, PendingOwned, Attended, CopiesOwned, Accepted, Told, Unanswered, Tracked,
     Needed, Track
<1> QED BY <1>1, <1>2, <1>3 DEF SourcesInv

(* A client that enters or reads, and a save, leave the documents alone.    *)
LEMMA GateOnlyStep ==
  ASSUME GateInv, SourcesInv, (\E p \in Clients : enter_gate(p) \/ reads(p)) \/ ConfigStep \/ UNCHANGED vars
  PROVE  SourcesInv'
<1>0. held \in [Clients -> Insts] /\ Uploads \subseteq Clients /\ "reader" \notin Uploads
  BY ClientsAssumption DEF GateInv, GateTypes
<1>1. ASSUME NEW p \in Clients, enter_gate(p) \/ reads(p) PROVE SourcesInv'
  <2>1. UNCHANGED <<docs, mem, loop, up, del, excused>>
    BY <1>1 DEF enter_gate, reads
  <2>2. Enter(p) \/ (p = "reader" /\ Leave(p))
    BY <1>1 DEF enter_gate, reads
  <2>3. \A u \in Uploads : held'[u] = NoRag => held[u] = NoRag
    BY <1>0, <2>2 DEF Enter, Leave
  <2> QED BY <2>1, <2>3, QuietKeeps
<1>2. CASE ConfigStep
  <2>1. held' = held
    BY <1>2 DEF ConfigStep, Saving, update_instance_config, restart_claims, restart_drained, drain_canceled,
       finalize_previous, initialize_replacement, restore_lightrag, rebuild_agents
  <2> QED BY <1>2, <2>1, QuietKeeps DEF ConfigStep
<1>3. CASE UNCHANGED vars
  BY <1>3, QuietKeeps DEF vars, gate
<1> QED BY <1>1, <1>2, <1>3

-----------------------------------------------------------------------------
(* A step of one upload changes its row only.                               *)
RowOnly(u) ==
  /\ up' = [up EXCEPT ![u] = up'[u]] /\ up'[u] \in UploadRows
  /\ \A v \in Clients \ {u} : held'[v] = held[v]

(* The other uploads stay as they are and where they are.                   *)
LEMMA UploadFrame ==
  ASSUME SourcesInv, NEW u \in Uploads, RowOnly(u)
  PROVE  /\ up' \in [Uploads -> UploadRows]
         /\ \A v \in Uploads \ {u} : up'[v] = up[v] /\ held'[v] = held[v]
BY ClientsAssumption DEF SourcesInv, RequestTypes, RowOnly

(* A step of one upload: its row and the names are what is left to show.    *)
LEMMA UploadStep ==
  ASSUME SourcesInv, NEW u \in Uploads, RowOnly(u), UNCHANGED <<loop, del, recover>>,
         DocTypes', tracks' \subseteq Tracks, requested' \in BOOLEAN,
         up'[u].pc = "idle" \/ (up'[u].pc = "in" /\ held'[u] = NoRag) => Untouched(up'[u]),
         \A n \in Names \ excused' : NameInv(n)'
  PROVE  SourcesInv'
<1>1. LoopTypes' /\ RequestTypes'
  BY UploadFrame DEF SourcesInv, LoopTypes, RequestTypes
<1>2. OutsideIsFresh'
  BY UploadFrame DEF SourcesInv, OutsideIsFresh
<1>3. RecoverStage'
  BY DEF SourcesInv, RecoverStage
<1> QED BY <1>1, <1>2, <1>3 DEF SourcesInv

(* A step of an upload keeps what somebody will see to, when it leaves the  *)
(* document alone, and answers no document without telling the loop.        *)
Sees(n, u) ==
  /\ UNCHANGED <<loop, del, recover>> /\ doc'[n] = doc[n]
  /\ tracks \subseteq tracks' /\ (requested => requested')
  /\ Known(n) /\ Unanswered(n) => Unanswered(n)' \/ (Told(n)' /\ requested')

(* Then whoever attended to the document, or needed its source, still does. *)
LEMMA SeesKeeps ==
  ASSUME SourcesInv, NEW u, NEW n, Sees(n, u)
  PROVE  (Attended(n) => Attended(n)') /\ (Needed(n) => Needed(n)')
<1>0. /\ loop' = loop /\ del' = del /\ recover' = recover
      /\ doc'[n] = doc[n] /\ Track(n)' = Track(n)
      /\ requested => requested'
      /\ Told(n) => Told(n)'
      /\ Known(n) /\ Unanswered(n) => Unanswered(n)' \/ (Told(n)' /\ requested')
  <2>1. UNCHANGED <<loop, del, recover>> /\ doc'[n] = doc[n] /\ tracks \subseteq tracks'
    BY DEF Sees
  <2>2. (requested => requested') /\ (Known(n) /\ Unanswered(n) => Unanswered(n)' \/ (Told(n)' /\ requested'))
    BY Zenon DEF Sees
  <2>3. Track(n)' = Track(n) /\ (Told(n) => Told(n)')
    BY <2>1 DEF Track, Told
  <2> QED BY <2>1, <2>2, <2>3
<1>1. Attended(n) => Attended(n)'
  <2> SUFFICES ASSUME Attended(n), doc[n].st = "pending" PROVE Attended(n)'
    BY <1>0 DEF Attended
  <2>1. CASE Unanswered(n)
    BY <1>0, <2>1, Zenon DEF Attended, Known
  <2>2. CASE (requested \/ loop.pc = "retry") /\ (Told(n) \/ recover)
    BY <1>0, <2>2, Zenon DEF Attended
  <2>3. CASE loop.pc = "recover" \/ (loop.pc = "run" /\ Track(n) \in loop.work)
    BY <1>0, <2>3 DEF Attended
  <2> QED BY <2>1, <2>2, <2>3, Zenon DEF Attended
<1>2. Needed(n) => Needed(n)'
  <2>1. Tracked(n) => Tracked(n)'
    BY <1>0, Zenon DEF Tracked, Known
  <2> QED BY <1>0, <2>1, Zenon DEF Needed
<1> QED BY <1>1, <1>2

(* A name whose copies and whose acceptance the step leaves alone.          *)
LEMMA NameLeft ==
  ASSUME SourcesInv, NEW u \in Uploads, RowOnly(u), NEW n \in Names \ excused, Sees(n, u),
         \A d \in Dirs : <<n, d>> \in src' <=> <<n, d>> \in src,
         n \in up'[u].acc <=> n \in up[u].acc
  PROVE  NameInv(n)'
<1>1. NameInv(n) /\ \A v \in Uploads : Accepted(n, v)' <=> Accepted(n, v)
  BY UploadFrame DEF SourcesInv, Accepted
<1>2. OneOwner(n)' /\ PendingOwned(n)'
  BY <1>1 DEF NameInv, OneOwner, PendingOwned, Dirs, Sees
<1>3. Attended(n)' /\ CopiesOwned(n)'
  BY <1>1, SeesKeeps DEF NameInv, CopiesOwned, Dirs
<1> QED BY <1>2, <1>3 DEF NameInv

(* A source that its upload gives up.                                       *)
LEMMA NameDropped ==
  ASSUME SourcesInv, NEW u \in Uploads, RowOnly(u), NEW n \in Names \ excused, Sees(n, u),
         n \in up[u].acc, n \notin up'[u].acc,
         <<n, "input">> \notin src', <<n, "parsed">> \in src' => <<n, "parsed">> \in src
  PROVE  NameInv(n)'
<1>1. NameInv(n) /\ Accepted(n, u) /\ ~Accepted(n, u)'
  BY DEF SourcesInv, Accepted
<1>2. \A v \in Uploads : ~Accepted(n, v)'
  BY <1>1, UploadFrame DEF Accepted, NameInv, OneOwner
<1>3. doc'[n].st # "pending"
  BY <1>1 DEF NameInv, PendingOwned, Sees
<1>4. OneOwner(n)' /\ PendingOwned(n)' /\ Attended(n)'
  BY <1>2, <1>3 DEF OneOwner, PendingOwned, Attended
<1>5. CopiesOwned(n)'
  BY <1>1, SeesKeeps DEF NameInv, CopiesOwned
<1> QED BY <1>4, <1>5 DEF NameInv

(* An upload that goes on without accepting or queueing anything.           *)
GoesOn(u) ==
  /\ RowOnly(u)
  /\ up'[u].acc = up[u].acc /\ up'[u].queued = up[u].queued /\ up'[u].pc \in {"in", "done"}
  /\ up'[u].pc = "in" /\ held'[u] = NoRag => Untouched(up'[u])
  /\ up'[u].pc # up[u].pc => up[u].queued = {}

(* Such a step concerns no name.                                            *)
LEMMA GoesOnKeeps ==
  ASSUME SourcesInv, NEW u \in Uploads, GoesOn(u), UNCHANGED <<docs, mem, loop, del, excused>>
  PROVE  SourcesInv'
<1>1. DocTypes' /\ tracks' \subseteq Tracks /\ requested' \in BOOLEAN
  BY DEF SourcesInv, DocTypes, LoopTypes, docs, mem, Known
<1>2. ASSUME NEW n \in Names \ excused' PROVE NameInv(n)'
  <2>1. Known(n) => (Unanswered(n)' <=> Unanswered(n))
    <3>1. Known(n) => doc[n].up \in Uploads
      BY DEF SourcesInv, DocTypes
    <3> QED BY <3>1, UploadFrame DEF Unanswered, docs, GoesOn
  <2>2. Sees(n, u)
    BY <2>1 DEF Sees, docs, mem
  <2> QED BY <2>2, NameLeft DEF GoesOn, docs
<1> QED BY <1>1, <1>2, UploadStep DEF GoesOn, mem

(* Before a file is written nothing is accepted.                            *)
LEMMA CheckStep ==
  ASSUME GateInv, SourcesInv, NEW u \in Uploads,
         \/ upload_starts(u) \/ upload_finds_no_instance(u)
         \/ \E n \in Names : upload_checks(u, n)
  PROVE  SourcesInv'
<1>0. up \in [Uploads -> UploadRows] /\ OutsideIsFresh
  BY DEF SourcesInv, RequestTypes
<1>1. UNCHANGED <<gate, docs, mem, loop, del, excused>> /\ held' = held
  BY DEF upload_starts, upload_finds_no_instance, upload_checks, gate
<1>2. CASE upload_starts(u)
  <2>1. GoesOn(u)
    BY <1>0, <1>1, <1>2 DEF upload_starts, UploadRows, OutsideIsFresh, Untouched, GoesOn, RowOnly
  <2> QED BY <1>1, <2>1, GoesOnKeeps
<1>3. CASE upload_finds_no_instance(u)
  <2>1. u \notin {"delete", "loop"}
    BY ClientsAssumption
  <2>2. up[u].pc = "in" /\ held[u] = NoRag
    BY <1>3, <2>1 DEF upload_finds_no_instance, Wants
  <2>3. GoesOn(u)
    BY <1>0, <1>1, <1>3, <2>2 DEF upload_finds_no_instance, UploadRows, OutsideIsFresh, Untouched, GoesOn, RowOnly
  <2> QED BY <1>1, <2>3, GoesOnKeeps
<1>4. ASSUME NEW n \in Names, upload_checks(u, n) PROVE SourcesInv'
  <2>1. u \notin {"delete", "loop"}
    BY ClientsAssumption
  <2>2. up[u].pc = "in" /\ held[u] # NoRag
    BY <1>4, <2>1 DEF upload_checks, Inside, Wants
  <2>3. GoesOn(u)
    BY <1>0, <1>1, <1>4, <2>2 DEF upload_checks, UploadRows, GoesOn, RowOnly
  <2> QED BY <1>1, <2>3, GoesOnKeeps
<1> QED BY <1>2, <1>3, <1>4

(* What holds of an upload inside the gate.                                 *)
LEMMA UploadInside ==
  ASSUME NEW u \in Uploads, Inside(u)
  PROVE  up[u].pc = "in" /\ held[u] # NoRag
<1>1. u \notin {"delete", "loop"}
  BY ClientsAssumption
<1> QED BY <1>1 DEF Inside, Wants

(* A source that was not there belongs to the upload that opened the file.  *)
LEMMA WriteStep ==
  ASSUME SourcesInv, NEW u \in Uploads, upload_writes(u)
  PROVE  SourcesInv'
<1> DEFINE m == up[u].cur
<1>0. up \in [Uploads -> UploadRows] /\ up[u].pc = "in" /\ held[u] # NoRag /\ held' = held /\ m \in Names
  BY UploadInside DEF SourcesInv, RequestTypes, upload_writes, gate, UploadRows
<1>1. UNCHANGED <<doc, mem, loop, del, excused>>
  BY DEF upload_writes
<1>2. CASE <<m, "input">> \in src
  <2>1. UNCHANGED src /\ GoesOn(u)
    BY <1>0, <1>2 DEF upload_writes, GoesOn, RowOnly, UploadRows
  <2> QED BY <1>1, <2>1, GoesOnKeeps DEF docs
<1>3. CASE <<m, "input">> \notin src
  <2>1. /\ src' = src \cup {<<m, "input">>}
        /\ up' = [up EXCEPT ![u].cur = NoName, ![u].acc = @ \cup {m}]
    BY <1>3 DEF upload_writes
  <2>2. /\ RowOnly(u) /\ up'[u].acc = up[u].acc \cup {m} /\ up'[u].queued = up[u].queued
        /\ up'[u].pc = up[u].pc
    BY <1>0, <2>1 DEF RowOnly, UploadRows
  <2>3. DocTypes' /\ tracks' \subseteq Tracks /\ requested' \in BOOLEAN
    BY <1>0, <1>1, <2>1 DEF SourcesInv, DocTypes, LoopTypes, mem, Known, Copies, Dirs
  <2>4. ASSUME NEW n \in Names \ excused' PROVE NameInv(n)'
    <3>1. Known(n) => (Unanswered(n)' <=> Unanswered(n))
      <4>1. Known(n) => doc[n].up \in Uploads
        BY DEF SourcesInv, DocTypes
      <4> QED BY <1>1, <2>2, <4>1, UploadFrame DEF Unanswered
    <3>2. Sees(n, u)
      BY <1>1, <3>1 DEF Sees, mem
    <3>3. CASE n # m
      BY <1>1, <2>1, <2>2, <3>2, <3>3, NameLeft
    <3>4. CASE n = m
      <4>1. NameInv(n) /\ \A v \in Uploads : ~Accepted(n, v)
        BY <1>1, <1>3, <3>4 DEF SourcesInv, NameInv, OneOwner
      <4>2. <<n, "input">> \in src' /\ \A v \in Uploads : Accepted(n, v)' <=> v = u
        BY <2>1, <2>2, <3>4, <4>1, UploadFrame DEF Accepted
      <4>3. OneOwner(n)'
        BY <4>2 DEF OneOwner
      <4>4. doc'[n].st # "pending"
        BY <1>1, <1>3, <3>4, <4>1 DEF NameInv, PendingOwned
      <4>5. CopiesOwned(n)'
        BY <2>1, <3>2, <4>1, <4>2, SeesKeeps DEF NameInv, CopiesOwned
      <4> QED BY <4>3, <4>4, <4>5 DEF NameInv, PendingOwned, Attended
    <3> QED BY <3>3, <3>4
  <2> QED BY <1>0, <1>1, <2>2, <2>3, <2>4, UploadStep DEF mem
<1> QED BY <1>2, <1>3

(* A document is queued with the source its upload wrote.                   *)
LEMMA EnqueueStep ==
  ASSUME SourcesInv, NEW u \in Uploads, NEW m \in Names, upload_enqueues(u, m)
  PROVE  SourcesInv'
<1>0. up \in [Uploads -> UploadRows] /\ up[u].pc = "in" /\ held[u] # NoRag /\ held' = held
      /\ m \in up[u].acc /\ doc \in [Names -> [st : DocStates, up : Uploads \cup {NoName}]]
  BY UploadInside DEF SourcesInv, RequestTypes, DocTypes, upload_enqueues, gate, UploadRows, Enqueueing
<1>1. UNCHANGED <<mem, loop, del, excused>>
  BY DEF upload_enqueues
<1>2. /\ RowOnly(u) /\ up'[u].acc = up[u].acc \ {m} /\ up'[u].pc = up[u].pc
      /\ up[u].queued \subseteq up'[u].queued /\ (~Known(m) => m \in up'[u].queued)
  <2>1. CASE Known(m)
    <3>1. up' = [up EXCEPT ![u].acc = @ \ {m}]
      BY <1>0, <2>1 DEF upload_enqueues, UploadRows
    <3> QED BY <1>0, <2>1, <3>1 DEF RowOnly, UploadRows
  <2>2. CASE ~Known(m)
    <3>1. up' = [up EXCEPT ![u].acc = @ \ {m}, ![u].queued = @ \cup {m}]
      BY <2>2 DEF upload_enqueues
    <3>2. /\ up'[u] = [up[u] EXCEPT !.acc = @ \ {m}, !.queued = @ \cup {m}]
          /\ up' = [up EXCEPT ![u] = up'[u]]
      BY <1>0, <3>1
    <3>3. up[u] \in UploadRows
      BY <1>0
    <3>4. /\ up'[u] \in UploadRows /\ up'[u].acc = up[u].acc \ {m} /\ up'[u].pc = up[u].pc
          /\ up'[u].queued = up[u].queued \cup {m}
      <4> DEFINE a == up[u].acc \ {m}
                 q == up[u].queued \cup {m}
      <4>1. a \in SUBSET Names /\ q \in SUBSET Names
        BY <3>3 DEF UploadRows
      <4>2. up'[u] = [up[u] EXCEPT !.acc = a, !.queued = q]
        BY <3>2
      <4> HIDE DEF a, q
      <4>3. up'[u] \in UploadRows /\ up'[u].acc = a /\ up'[u].pc = up[u].pc /\ up'[u].queued = q
        BY <3>3, <4>1, <4>2 DEF UploadRows
      <4> QED BY <4>3 DEF a, q
    <3> QED BY <1>0, <3>2, <3>4 DEF RowOnly
  <2> QED BY <2>1, <2>2
<1>3. \/ Known(m) /\ src' = src \ {<<m, "input">>} /\ doc' = doc
      \/ ~Known(m) /\ src' = src /\ doc' = [doc EXCEPT ![m] = [st |-> "pending", up |-> u]]
  BY DEF upload_enqueues
<1>4. DocTypes' /\ tracks' \subseteq Tracks /\ requested' \in BOOLEAN
  BY <1>0, <1>1, <1>3 DEF SourcesInv, DocTypes, DocStates, LoopTypes, mem, Known
<1>5. ASSUME NEW n \in Names \ excused' PROVE NameInv(n)'
  <2>1. Known(n) /\ Unanswered(n) => (doc'[n] = doc[n] => Unanswered(n)')
    <3>1. Known(n) => doc[n].up \in Uploads
      BY DEF SourcesInv, DocTypes
    <3> QED BY <1>2, <3>1, UploadFrame DEF Unanswered
  <2>2. doc'[n] = doc[n] => Sees(n, u)
    BY <1>1, <2>1 DEF Sees, mem
  <2>3. CASE n # m
    <3>1. doc'[n] = doc[n] /\ \A d \in Dirs : <<n, d>> \in src' <=> <<n, d>> \in src
      BY <1>0, <1>3, <2>3
    <3> QED BY <1>1, <1>2, <2>2, <2>3, <3>1, NameLeft
  <2>4. CASE n = m /\ Known(m)
    BY <1>0, <1>1, <1>2, <1>3, <2>2, <2>4, NameDropped
  <2>5. CASE n = m /\ ~Known(m)
    <3>1. doc'[n] = [st |-> "pending", up |-> u] /\ src' = src
      BY <1>0, <1>3, <2>5
    <3>2. NameInv(n) /\ Accepted(n, u)
      BY <1>0, <1>1, <2>5 DEF SourcesInv, Accepted
    <3>3. <<n, "input">> \in src /\ \A v \in Uploads : ~Accepted(n, v)'
      BY <1>2, <2>5, <3>2, UploadFrame DEF NameInv, OneOwner, Accepted
    <3>4. OneOwner(n)' /\ PendingOwned(n)'
      BY <3>1, <3>3 DEF OneOwner, PendingOwned
    <3>5. Attended(n)'
      BY <1>0, <1>2, <2>5, <3>1 DEF Attended, Unanswered
    <3>6. CopiesOwned(n)'
      BY <3>1 DEF CopiesOwned, Needed
    <3> QED BY <3>4, <3>5, <3>6 DEF NameInv
  <2> QED BY <2>3, <2>4, <2>5
<1> QED BY <1>0, <1>1, <1>2, <1>4, <1>5, UploadStep DEF mem

(* The sources of what an upload accepted and did not queue go with it.     *)
LEMMA EnqueueFailsStep ==
  ASSUME SourcesInv, NEW u \in Uploads, enqueue_fails(u)
  PROVE  SourcesInv'
<1>0. up \in [Uploads -> UploadRows] /\ up[u].pc = "in" /\ held[u] # NoRag /\ held' = held
  BY UploadInside DEF SourcesInv, RequestTypes, enqueue_fails, gate, Enqueueing
<1>1. /\ UNCHANGED <<doc, mem, loop, del, excused>>
      /\ src' = src \ {<<n, "input">> : n \in up[u].acc}
  BY DEF enqueue_fails
<1>2. /\ RowOnly(u) /\ up'[u].acc = {} /\ up'[u].pc = up[u].pc /\ up'[u].queued = up[u].queued
  BY <1>0 DEF RowOnly, UploadRows, enqueue_fails
<1>3. DocTypes' /\ tracks' \subseteq Tracks /\ requested' \in BOOLEAN
  BY <1>1 DEF SourcesInv, DocTypes, LoopTypes, mem, Known
<1>4. ASSUME NEW n \in Names \ excused' PROVE NameInv(n)'
  <2>1. Known(n) /\ Unanswered(n) => Unanswered(n)'
    <3>1. Known(n) => doc[n].up \in Uploads
      BY DEF SourcesInv, DocTypes
    <3> QED BY <1>1, <1>2, <3>1, UploadFrame DEF Unanswered
  <2>2. Sees(n, u)
    BY <1>1, <2>1 DEF Sees, mem
  <2>3. CASE n \notin up[u].acc
    BY <1>1, <1>2, <2>2, <2>3, NameLeft
  <2>4. CASE n \in up[u].acc
    BY <1>1, <1>2, <2>2, <2>4, NameDropped
  <2> QED BY <2>3, <2>4
<1> QED BY <1>0, <1>1, <1>2, <1>3, <1>4, UploadStep DEF mem

(* What was queued is told to the loop in the step that answers.            *)
LEMMA AnswerStep ==
  ASSUME GateInv, SourcesInv, NEW u \in Uploads, upload_answers(u)
  PROVE  SourcesInv'
<1>0. /\ up \in [Uploads -> UploadRows] /\ up[u].pc = "in" /\ Leave(u) /\ up[u].acc = {}
      /\ held \in [Clients -> Insts]
  BY UploadInside DEF SourcesInv, RequestTypes, upload_answers, Enqueueing, GateInv, GateTypes
<1> DEFINE T == {u} \X up[u].queued
<1>1. /\ UNCHANGED <<docs, recover, loop, del, excused>>
      /\ tracks' = tracks \cup T
      /\ up' = [up EXCEPT ![u].pc = "done"]
  BY DEF upload_answers
<1>2. requested' = (requested \/ T # {})
  BY Zenon DEF upload_answers
<1>3. requested' \in BOOLEAN /\ (requested => requested') /\ (T # {} => requested')
  BY <1>2, Zenon
<1>4. /\ RowOnly(u) /\ up'[u].acc = {} /\ up'[u].pc = "done" /\ up'[u].queued = up[u].queued
  BY <1>0, <1>1 DEF RowOnly, UploadRows, Leave, SourcesInv
<1>5. DocTypes' /\ tracks' \subseteq Tracks
  BY <1>0, <1>1 DEF SourcesInv, DocTypes, LoopTypes, docs, Known, Tracks, UploadRows
<1>6. ASSUME NEW n \in Names \ excused' PROVE NameInv(n)'
  <2>0. doc'[n] = doc[n] /\ tracks \subseteq tracks' /\ UNCHANGED <<loop, del, recover>>
    BY <1>1 DEF docs
  <2>1. Known(n) /\ Unanswered(n) => Unanswered(n)' \/ (Told(n)' /\ requested')
    <3>1. Known(n) => doc[n].up \in Uploads
      BY DEF SourcesInv, DocTypes
    <3>2. CASE doc[n].up = u /\ Unanswered(n)
      <4>1. Track(n)' \in T
        BY <2>0, <3>2 DEF Track, Unanswered
      <4> QED BY <1>1, <1>3, <4>1, Zenon DEF Told
    <3>3. CASE doc[n].up # u /\ Known(n) /\ Unanswered(n)
      BY <1>4, <2>0, <3>1, <3>3, UploadFrame DEF Unanswered
    <3> QED BY <3>2, <3>3
  <2>2. Sees(n, u)
    BY <1>3, <2>0, <2>1, Zenon DEF Sees
  <2> QED BY <1>0, <1>1, <1>4, <2>2, NameLeft DEF docs
<1> HIDE DEF T
<1> QED BY <1>1, <1>3, <1>4, <1>5, <1>6, UploadStep

(* A request that breaks off leaves behind what it queued and the file it   *)
(* was writing, nothing else.                                               *)
LEMMA BreakStep ==
  ASSUME GateInv, SourcesInv, NEW u \in Uploads, upload_breaks(u)
  PROVE  SourcesInv'
<1> DEFINE m == up[u].cur
<1>0. up \in [Uploads -> UploadRows] /\ up[u].pc = "in" /\ Leave(u) /\ held \in [Clients -> Insts]
  BY UploadInside DEF SourcesInv, RequestTypes, upload_breaks, GateInv, GateTypes
<1>1. /\ UNCHANGED <<doc, mem, loop, del>>
      /\ excused' = excused \cup up[u].queued \cup ({m} \ {NoName})
      /\ up' = [up EXCEPT ![u].pc = "done", ![u].acc = {}, ![u].cur = NoName]
  BY DEF upload_breaks
<1>2. PICK late \in SUBSET ({<<m, "input">>} \cap Copies(Names)) :
        src' = (src \ {<<x, "input">> : x \in up[u].acc}) \cup late
  BY DEF upload_breaks
<1>3. /\ RowOnly(u) /\ up'[u].acc = {} /\ up'[u].pc = "done" /\ up'[u].queued = up[u].queued
  BY <1>0, <1>1 DEF RowOnly, UploadRows, Leave
<1>4. DocTypes' /\ tracks' \subseteq Tracks /\ requested' \in BOOLEAN
  <2>1. m \in Names \cup {NoName} /\ up[u].queued \subseteq Names
    BY <1>0 DEF UploadRows
  <2>2. excused' \subseteq Names /\ src' \subseteq Copies(Names)
    BY <1>1, <1>2, <2>1 DEF SourcesInv, DocTypes
  <2> QED BY <1>1, <2>2 DEF SourcesInv, DocTypes, LoopTypes, mem, Known
<1>5. ASSUME NEW n \in Names \ excused' PROVE NameInv(n)'
  <2>0. n \in Names \ excused /\ n \notin up[u].queued /\ n # m
    BY <1>1, NamesAssumption
  <2>1. Known(n) /\ Unanswered(n) => Unanswered(n)'
    <3>1. Known(n) => doc[n].up \in Uploads
      BY DEF SourcesInv, DocTypes
    <3> QED BY <1>1, <1>3, <2>0, <3>1, UploadFrame DEF Unanswered
  <2>2. Sees(n, u)
    BY <1>1, <2>1 DEF Sees, mem
  <2>3. <<n, "parsed">> \in src' <=> <<n, "parsed">> \in src
    BY <1>2 
  <2>4. CASE n \notin up[u].acc
    <3>1. <<n, "input">> \in src' <=> <<n, "input">> \in src
      BY <1>2, <2>0, <2>4
    <3> QED BY <1>3, <2>0, <2>2, <2>3, <2>4, <3>1, NameLeft DEF Dirs
  <2>5. CASE n \in up[u].acc
    <3>1. <<n, "input">> \notin src'
      BY <1>2, <2>0, <2>5
    <3> QED BY <1>3, <2>0, <2>2, <2>3, <2>5, <3>1, NameDropped
  <2> QED BY <2>4, <2>5
<1> HIDE DEF m
<1> QED BY <1>1, <1>3, <1>4, <1>5, UploadStep DEF mem

-----------------------------------------------------------------------------
(* A step of the deletion or of the loop leaves the uploads alone.          *)
Aside == up' = up /\ \A u \in Uploads : held'[u] = held[u]

(* What is left to show of a step of the deletion or of the loop.           *)
LEMMA AsideStep ==
  ASSUME SourcesInv, Aside, DocTypes', LoopTypes', RecoverStage',
         del' \in [pc : {"idle", "delete", "clean"}, n : Names \cup {NoName}],
         del'.pc # "idle" => del'.n \in Names,
         \A n \in Names \ excused' : NameInv(n)'
  PROVE  SourcesInv'
<1>1. RequestTypes' /\ OutsideIsFresh'
  BY DEF SourcesInv, RequestTypes, OutsideIsFresh, Aside
<1> QED BY <1>1 DEF SourcesInv

(* Leaving the gate, or not touching it, is aside.                          *)
LEMMA LeavesAside ==
  ASSUME GateInv, up' = up, Leave("delete") \/ Leave("loop") \/ UNCHANGED gate
  PROVE  Aside
BY ClientsAssumption DEF GateInv, GateTypes, Leave, gate, Aside

(* A name whose document the step leaves alone: its copies may go when      *)
(* nobody waits for them.                                                   *)
LEMMA NameStays ==
  ASSUME SourcesInv, up' = up, NEW n \in Names \ excused, doc'[n] = doc[n],
         \A d \in Dirs : <<n, d>> \in src' => <<n, d>> \in src,
         <<n, "input">> \in src' \/ <<n, "input">> \notin src
           \/ (doc[n].st # "pending" /\ \A u \in Uploads : ~Accepted(n, u)),
         Attended(n) => Attended(n)',
         \A d \in Dirs : <<n, d>> \in src' /\ Needed(n) => Needed(n)'
  PROVE  NameInv(n)'
<1>1. NameInv(n) /\ \A v \in Uploads : Accepted(n, v)' <=> Accepted(n, v)
  BY DEF SourcesInv, Accepted
<1>2. OneOwner(n)' /\ PendingOwned(n)'
  BY <1>1 DEF NameInv, OneOwner, PendingOwned
<1>3. Attended(n)'
  BY <1>1 DEF NameInv
<1>4. CopiesOwned(n)'
  BY <1>1 DEF NameInv, CopiesOwned, Dirs
<1> QED BY <1>2, <1>3, <1>4 DEF NameInv

(* A cleaning keeps what a pending document or an upload needs, or excuses  *)
(* the name.                                                                *)
LEMMA CleanKeeps ==
  ASSUME DocTypes, NEW N \in SUBSET Names, Clean(N)
  PROVE  /\ src' \subseteq src /\ excused \subseteq excused' /\ excused' \subseteq Names
         /\ \A n \in Names \ excused' :
              \/ /\ n \notin N
                 /\ \A d \in Dirs : <<n, d>> \in src' <=> <<n, d>> \in src
              \/ /\ doc[n].st # "pending" /\ \A u \in Uploads : ~Accepted(n, u)
                 /\ \A d \in Dirs : <<n, d>> \notin src'
<1> DEFINE newer == {n \in N : doc[n].st = "pending" \/ \E u \in Uploads : n \in up[u].acc}
<1>1. CASE src' = src \ Copies(N) /\ excused' = excused \cup newer
  BY <1>1 DEF DocTypes, Copies, Accepted
<1>2. CASE UNCHANGED src /\ excused' = excused \cup N
  BY <1>2 DEF DocTypes
<1> QED BY <1>1, <1>2 DEF Clean

(* A deleted document leaves its sources to the cleaning that follows.      *)
LEMMA DeleteStep ==
  ASSUME GateInv, SourcesInv,
         delete_document \/ delete_cleans \/ delete_finds_no_instance \/ \E n \in Names : delete_starts(n)
  PROVE  SourcesInv'
<1>0. /\ doc \in [Names -> [st : DocStates, up : Uploads \cup {NoName}]] /\ DocTypes
      /\ del \in [pc : {"idle", "delete", "clean"}, n : Names \cup {NoName}]
      /\ del.pc # "idle" => del.n \in Names
  BY DEF SourcesInv, DocTypes, RequestTypes
<1>1. UNCHANGED <<mem, loop>> /\ up' = up
  BY DEF delete_document, delete_cleans, delete_finds_no_instance, delete_starts
<1>2. LoopTypes' /\ RecoverStage'
  BY <1>1 DEF SourcesInv, LoopTypes, RecoverStage, mem
<1>3. Aside
  BY <1>1, LeavesAside DEF delete_document, delete_cleans, delete_finds_no_instance, delete_starts
<1>4. ASSUME NEW n \in Names, doc'[n] = doc[n]
      PROVE  (Attended(n) => Attended(n)') /\ (Tracked(n) => Tracked(n)')
  <2>1. (Told(n)' <=> Told(n)) /\ (Unanswered(n)' <=> Unanswered(n)) /\ Track(n)' = Track(n)
    BY <1>1, <1>4 DEF Told, Unanswered, Track, mem
  <2>2. loop' = loop /\ (requested' <=> requested) /\ (recover' <=> recover)
    BY <1>1 DEF mem
  <2> QED BY <1>4, <2>1, <2>2, Zenon DEF Attended, Tracked
<1>5. CASE delete_finds_no_instance \/ \E n \in Names : delete_starts(n)
  <2>1. UNCHANGED docs /\ UNCHANGED excused /\ del.pc # "clean"
    BY <1>5 DEF delete_finds_no_instance, delete_starts
  <2>2. del' \in [pc : {"idle", "delete", "clean"}, n : Names \cup {NoName}] /\ (del'.pc # "idle" => del'.n \in Names)
    BY <1>0, <1>5 DEF delete_finds_no_instance, delete_starts
  <2>3. DocTypes'
    BY <2>1 DEF SourcesInv, DocTypes, docs, Known
  <2>4. ASSUME NEW n \in Names \ excused' PROVE NameInv(n)'
    <3>1. doc'[n] = doc[n] /\ src' = src /\ n \in Names \ excused
      BY <2>1 DEF docs
    <3>2. Needed(n) => Needed(n)'
      BY <1>4, <2>1, <3>1 DEF Needed
    <3> QED BY <1>1, <1>4, <3>1, <3>2, NameStays
  <2> QED BY <1>2, <1>3, <2>2, <2>3, <2>4, AsideStep
<1>6. CASE delete_cleans
  <2>0. Clean({del.n}) /\ del.pc = "clean" /\ del.n \in Names /\ del' = [del EXCEPT !.pc = "idle"] /\ doc' = doc
    BY <1>0, <1>6 DEF delete_cleans
  <2>1. /\ src' \subseteq src /\ excused \subseteq excused' /\ excused' \subseteq Names
        /\ \A n \in Names \ excused' :
             \/ /\ n # del.n
                /\ \A d \in Dirs : <<n, d>> \in src' <=> <<n, d>> \in src
             \/ /\ doc[n].st # "pending" /\ \A u \in Uploads : ~Accepted(n, u)
                /\ \A d \in Dirs : <<n, d>> \notin src'
    BY <1>0, <2>0, CleanKeeps
  <2>2. del' \in [pc : {"idle", "delete", "clean"}, n : Names \cup {NoName}] /\ del'.pc = "idle"
    BY <1>0, <2>0
  <2>3. DocTypes'
    BY <2>0, <2>1 DEF SourcesInv, DocTypes, Known
  <2>4. ASSUME NEW n \in Names \ excused' PROVE NameInv(n)'
    <3>1. doc'[n] = doc[n] /\ n \in Names \ excused
      BY <2>0, <2>1
    <3>2. n # del.n /\ Needed(n) => Needed(n)'
      BY <1>4, <3>1 DEF Needed
    <3>3. "input" \in Dirs
      BY DEF Dirs
    <3>4. CASE n # del.n /\ \A d \in Dirs : <<n, d>> \in src' <=> <<n, d>> \in src
      BY <1>1, <1>4, <3>1, <3>2, <3>3, <3>4, NameStays
    <3>5. CASE /\ doc[n].st # "pending" /\ \A u \in Uploads : ~Accepted(n, u)
               /\ \A d \in Dirs : <<n, d>> \notin src'
      BY <1>1, <1>4, <3>1, <3>3, <3>5, NameStays
    <3> QED BY <2>1, <3>4, <3>5
  <2> QED BY <1>2, <1>3, <2>2, <2>3, <2>4, AsideStep
<1>7. CASE delete_document
  <2>0. del.pc = "delete" /\ del.n \in Names
    <3>1. "delete" \notin Uploads
      BY ClientsAssumption
    <3> QED BY <1>0, <1>7, <3>1 DEF delete_document, Inside, Wants
  <2>1. UNCHANGED <<src, excused>>
    BY <1>7 DEF delete_document
  <2>2. /\ \/ doc' = [doc EXCEPT ![del.n] = NoDoc] /\ del' = [del EXCEPT !.pc = IF Known(del.n) THEN "clean" ELSE "idle"]
           \/ doc' = doc /\ del' = [del EXCEPT !.pc = "idle"]
    BY <1>7 DEF delete_document
  <2>3. del' \in [pc : {"idle", "delete", "clean"}, n : Names \cup {NoName}] /\ del'.n = del.n
    BY <1>0, <2>2
  <2>4. DocTypes'
    BY <1>0, <2>0, <2>1, <2>2 DEF DocTypes, DocStates, NoDoc, Known
  <2>5. ASSUME NEW n \in Names \ excused' PROVE NameInv(n)'
    <3>0. NameInv(n) /\ n \in Names \ excused
      BY <2>1 DEF SourcesInv
    <3>1. CASE doc'[n] = doc[n]
      <4>1. Needed(n) => Needed(n)'
        BY <1>4, <2>0, <3>1 DEF Needed
      <4> QED BY <1>1, <1>4, <2>1, <3>0, <3>1, <4>1, NameStays
    <3>2. CASE doc'[n] # doc[n]
      <4>1. n = del.n /\ doc' = [doc EXCEPT ![del.n] = NoDoc]
        BY <1>0, <2>0, <2>2, <3>2
      <4>2. doc'[n].st = "none"
        BY <1>0, <4>1 DEF NoDoc
      <4>3. OneOwner(n)'
        BY <1>1, <2>1, <3>0 DEF NameInv, OneOwner, Accepted
      <4>4. CASE Known(n)
        <5>1. del'.pc = "clean" /\ del'.n = n
          BY <1>0, <2>2, <2>3, <3>2, <4>1, <4>4
        <5> QED BY <4>2, <4>3, <5>1 DEF NameInv, PendingOwned, Attended, CopiesOwned, Needed
      <4>5. CASE ~Known(n)
        <5>1. ~Needed(n)
          BY <2>0, <4>5 DEF Needed, Tracked, Known
        <5>2. \A v \in Uploads : Accepted(n, v)' <=> Accepted(n, v)
          BY <1>1 DEF Accepted
        <5> QED BY <2>1, <3>0, <4>2, <4>3, <5>1, <5>2 DEF NameInv, PendingOwned, Attended, CopiesOwned
      <4> QED BY <4>4, <4>5
    <3> QED BY <3>1, <3>2
  <2> QED BY <1>2, <1>3, <2>0, <2>3, <2>4, <2>5, AsideStep
<1> QED BY <1>5, <1>6, <1>7

-----------------------------------------------------------------------------
(* The processing loop. *)

(* Who sees to a name, when its document, the uploads and the deletion stay *)
(* as they are: the loop's own part is what may change.                     *)
LEMMA LoopSees ==
  ASSUME up' = up, NEW n \in Names, doc'[n] = doc[n]
  PROVE  /\ Track(n)' = Track(n) /\ (Unanswered(n) => Unanswered(n)')
         /\ (Told(n) /\ tracks \subseteq tracks' => Told(n)')
         /\ (del' = del /\ (Tracked(n) => Tracked(n)') => (Needed(n) => Needed(n)'))
<1>1. Track(n)' = Track(n) /\ (Unanswered(n) => Unanswered(n)')
  BY DEF Track, Unanswered
<1>2. Told(n) /\ tracks \subseteq tracks' => Told(n)'
  BY <1>1 DEF Told
<1>3. del' = del /\ (Tracked(n) => Tracked(n)') => (Needed(n) => Needed(n)')
  BY DEF Needed
<1> QED BY <1>1, <1>2, <1>3

(* A step of the loop that leaves table and files alone.                    *)
LEMMA LoopOnlyStep ==
  ASSUME GateInv, SourcesInv, UNCHANGED <<docs, up, del, excused>>, LoopTypes', RecoverStage',
         Leave("loop") \/ UNCHANGED gate,
         \A n \in Names \ excused : (Attended(n) => Attended(n)') /\ (Tracked(n) => Tracked(n)')
  PROVE  SourcesInv'
<1>1. DocTypes'
  BY DEF SourcesInv, DocTypes, docs, Known
<1>2. ASSUME NEW n \in Names \ excused' PROVE NameInv(n)'
  <2>1. doc'[n] = doc[n] /\ src' = src /\ n \in Names \ excused
    BY DEF docs
  <2>2. Needed(n) => Needed(n)'
    BY <2>1, LoopSees
  <2> QED BY <2>1, <2>2, NameStays
<1>3. /\ del' \in [pc : {"idle", "delete", "clean"}, n : Names \cup {NoName}]
      /\ del'.pc # "idle" => del'.n \in Names
  BY DEF SourcesInv, RequestTypes
<1>4. Aside
  BY LeavesAside
<1> QED BY <1>1, <1>2, <1>3, <1>4, AsideStep

(* What was told becomes the work of the iteration.                         *)
LEMMA LoopTakesStep ==
  ASSUME GateInv, SourcesInv, loop_takes
  PROVE  SourcesInv'
<1>0. /\ loop.pc = "wait" /\ requested /\ tracks' = {} /\ UNCHANGED <<gate, docs, up, del, excused>>
      /\ loop' = [pc |-> IF recover THEN "recover" ELSE IF tracks # {} THEN "run" ELSE "wait",
                  work |-> tracks, left |-> {}, dirty |-> {}, sr |-> recover]
  BY DEF loop_takes
<1>1. requested' = FALSE /\ (recover' <=> recover) /\ recover' = recover
  BY Zenon DEF loop_takes
<1>2. tracks \subseteq Tracks /\ recover \in BOOLEAN
  BY DEF SourcesInv, LoopTypes
<1>5. requested' \in BOOLEAN /\ recover' \in BOOLEAN
  BY <1>1, <1>2, Zenon
<1>6. ASSUME NEW c \in {"recover", "run", "wait"},
             loop' = [pc |-> c, work |-> tracks, left |-> {}, dirty |-> {}, sr |-> recover]
      PROVE  LoopTypes'
  <2> DEFINE r == recover
  <2>1. r \in BOOLEAN /\ loop' = [pc |-> c, work |-> tracks, left |-> {}, dirty |-> {}, sr |-> r]
    BY <1>2, <1>6
  <2> HIDE DEF r
  <2>2. /\ loop' \in [pc : {"wait", "recover", "run", "poll", "clean", "retry"}, work : SUBSET Tracks,
                      left : SUBSET Tracks, dirty : SUBSET Names, sr : BOOLEAN]
        /\ loop'.left = {} /\ loop'.dirty = {}
    BY <1>2, <2>1
  <2>3. tracks' \subseteq Tracks
    BY <1>0
  <2> QED BY <1>5, <2>2, <2>3 DEF LoopTypes
<1>3. CASE recover
  <2>1. loop' = [pc |-> "recover", work |-> tracks, left |-> {}, dirty |-> {}, sr |-> recover]
    BY <1>0, <1>3
  <2>2. LoopTypes'
    BY <1>6, <2>1
  <2>3. RecoverStage'
    BY <1>1, <1>3, <2>1 DEF RecoverStage
  <2>4. ASSUME NEW n \in Names \ excused PROVE (Attended(n) => Attended(n)') /\ (Tracked(n) => Tracked(n)')
    <3>0. doc'[n] = doc[n]
      BY <1>0 DEF docs
    <3>1. Attended(n)'
      BY <2>1 DEF Attended
    <3>2. Tracked(n) => Tracked(n)'
      BY <1>0, <2>1, <3>0, LoopSees DEF Tracked, Told
    <3> QED BY <3>1, <3>2
  <2> QED BY <1>0, <2>2, <2>3, <2>4, LoopOnlyStep
<1>4. CASE ~recover
  <2>1. loop' = [pc |-> IF tracks # {} THEN "run" ELSE "wait", work |-> tracks, left |-> {}, dirty |-> {}, sr |-> recover]
    BY <1>0, <1>4
  <2>2. LoopTypes'
    <3>1. CASE tracks # {}
      BY <1>6, <2>1, <3>1
    <3>2. CASE tracks = {}
      BY <1>6, <2>1, <3>2
    <3> QED BY <3>1, <3>2
  <2>3. RecoverStage'
    BY <1>1, <1>4, <2>1 DEF RecoverStage
  <2>4. ASSUME NEW n \in Names \ excused PROVE (Attended(n) => Attended(n)') /\ (Tracked(n) => Tracked(n)')
    <3>0. doc'[n] = doc[n]
      BY <1>0 DEF docs
    <3>1. Told(n) => loop'.pc = "run" /\ Track(n)' \in loop'.work
      BY <2>1, <3>0, <1>0, LoopSees DEF Told
    <3>2. Attended(n) => Attended(n)'
      BY <1>0, <1>4, <3>0, <3>1, LoopSees DEF Attended
    <3>3. Tracked(n) => Tracked(n)'
      BY <1>0, <3>0, <3>1, LoopSees DEF Tracked
    <3> QED BY <3>2, <3>3
  <2> QED BY <1>0, <2>2, <2>3, <2>4, LoopOnlyStep
<1> QED BY <1>3, <1>4

(* Every document that waits joins the work, and the recovery is done.      *)
LEMMA LoopRecoversStep ==
  ASSUME GateInv, SourcesInv, loop_recovers
  PROVE  SourcesInv'
<1> DEFINE found == recoverable_documents
           more == {Track(n) : n \in found}
<1>0. /\ loop.pc = "recover" /\ Leave("loop") /\ UNCHANGED <<docs, tracks, requested, up, del, excused>>
      /\ loop' = [loop EXCEPT !.work = @ \cup more,
                              !.pc = IF loop.work = {} /\ found = {} THEN "wait" ELSE "run"]
  BY DEF loop_recovers
<1>1. recover' = FALSE
  BY DEF loop_recovers
<1>2. more \subseteq Tracks /\ found \subseteq Names
  BY DEF SourcesInv, DocTypes, recoverable_documents, Track, Tracks, Known
<1>3. loop'.work = loop.work \cup more /\ loop'.pc \in {"wait", "run"} /\ (loop.work # {} \/ found # {} => loop'.pc = "run")
  BY <1>0 DEF SourcesInv, LoopTypes
<1>4. LoopTypes'
  <2>1. loop'.left = loop.left /\ loop'.dirty = loop.dirty /\ loop'.sr = loop.sr
    BY <1>0 DEF SourcesInv, LoopTypes
  <2>2. loop' \in [pc : {"wait", "recover", "run", "poll", "clean", "retry"}, work : SUBSET Tracks,
                   left : SUBSET Tracks, dirty : SUBSET Names, sr : BOOLEAN]
    BY <1>0, <1>2 DEF SourcesInv, LoopTypes
  <2> QED BY <1>0, <1>1, <1>3, <2>1, <2>2 DEF SourcesInv, LoopTypes
<1>5. RecoverStage'
  BY <1>1, <1>3 DEF RecoverStage
<1>6. ASSUME NEW n \in Names \ excused PROVE (Attended(n) => Attended(n)') /\ (Tracked(n) => Tracked(n)')
  <2>0. doc'[n] = doc[n]
    BY <1>0 DEF docs
  <2>1. doc[n].st = "pending" => loop'.pc = "run" /\ Track(n)' \in loop'.work
    BY <1>3, <2>0, <1>0, LoopSees DEF recoverable_documents
  <2>2. Attended(n)'
    BY <2>0, <2>1 DEF Attended
  <2>3. Tracked(n) => Tracked(n)'
    BY <1>0, <1>3, <2>0, LoopSees DEF Tracked
  <2> QED BY <2>2, <2>3
<1> HIDE DEF found, more
<1> QED BY <1>0, <1>4, <1>5, <1>6, LoopOnlyStep

(* What a round finds processed is about to be cleaned.                     *)
LEMMA LoopPollsStep ==
  ASSUME GateInv, SourcesInv, loop_polls
  PROVE  SourcesInv'
<1> DEFINE seen(st) == {n \in Names : doc[n].st = st /\ Track(n) \in loop.left}
<1>0. /\ loop.pc = "poll" /\ Leave("loop") /\ UNCHANGED <<docs, mem, up, del, excused>>
      /\ loop' = [loop EXCEPT !.pc = "clean", !.dirty = seen("processed"),
                              !.left = {Track(n) : n \in seen("pending")}]
  BY DEF loop_polls
<1>1. /\ loop'.pc = "clean" /\ loop'.dirty = seen("processed") /\ loop'.work = loop.work /\ loop'.sr = loop.sr
      /\ loop'.left = {Track(n) : n \in seen("pending")}
  BY <1>0 DEF SourcesInv, LoopTypes
<1>2. LoopTypes'
  <2>1. loop'.left \subseteq loop.left
    BY <1>1
  <2>2. ASSUME NEW n \in loop'.dirty PROVE \E u \in Uploads : <<u, n>> \in loop'.work
    BY <1>1 DEF Track, SourcesInv, LoopTypes, DocTypes, Known
  <2>3. loop' \in [pc : {"wait", "recover", "run", "poll", "clean", "retry"}, work : SUBSET Tracks,
                   left : SUBSET Tracks, dirty : SUBSET Names, sr : BOOLEAN]
    BY <1>0, <1>1, <2>1 DEF SourcesInv, LoopTypes
  <2> QED BY <1>0, <1>1, <2>1, <2>2, <2>3 DEF SourcesInv, LoopTypes, mem
<1>3. RecoverStage'
  BY <1>0, <1>1 DEF SourcesInv, RecoverStage, mem
<1>4. ASSUME NEW n \in Names \ excused PROVE (Attended(n) => Attended(n)') /\ (Tracked(n) => Tracked(n)')
  <2>0. doc'[n] = doc[n] /\ tracks' = tracks
    BY <1>0 DEF docs, mem
  <2>1. Attended(n) => Attended(n)'
    BY <1>0, <2>0, LoopSees DEF Attended, mem
  <2>2. Tracked(n) => Tracked(n)'
    BY <1>0, <1>1, <2>0, LoopSees DEF Tracked
  <2> QED BY <2>1, <2>2
<1> HIDE DEF seen
<1> QED BY <1>0, <1>2, <1>3, <1>4, LoopOnlyStep

(* The sources of the processed documents go; what is left is polled again. *)
LEMMA LoopCleansStep ==
  ASSUME GateInv, SourcesInv, loop_cleans
  PROVE  SourcesInv'
<1>0. /\ loop.pc = "clean" /\ Clean(loop.dirty) /\ UNCHANGED <<gate, doc, mem, up, del>>
      /\ loop' = IF loop.left = {} THEN IdleLoop ELSE [loop EXCEPT !.pc = "poll", !.dirty = {}]
  BY DEF loop_cleans
<1>1. loop.dirty \in SUBSET Names /\ DocTypes /\ LoopTypes
  BY DEF SourcesInv, LoopTypes
<1>2. /\ src' \subseteq src /\ excused \subseteq excused' /\ excused' \subseteq Names
      /\ \A n \in Names \ excused' :
           \/ /\ n \notin loop.dirty
              /\ \A d \in Dirs : <<n, d>> \in src' <=> <<n, d>> \in src
           \/ /\ doc[n].st # "pending" /\ \A u \in Uploads : ~Accepted(n, u)
              /\ \A d \in Dirs : <<n, d>> \notin src'
  BY <1>0, <1>1, CleanKeeps
<1>3. /\ loop' \in [pc : {"wait", "recover", "run", "poll", "clean", "retry"}, work : SUBSET Tracks,
                    left : SUBSET Tracks, dirty : SUBSET Names, sr : BOOLEAN]
      /\ loop'.left = loop.left /\ loop'.left \subseteq loop'.work /\ loop'.dirty = {}
      /\ loop'.pc \in {"wait", "poll"} /\ (loop.left # {} => loop'.pc = "poll")
      /\ loop'.left # {} => loop'.pc = "poll"
  <2>1. CASE loop.left = {}
    BY <1>0, <1>1, <2>1 DEF IdleLoop, LoopTypes
  <2>2. CASE loop.left # {}
    BY <1>0, <1>1, <2>2 DEF LoopTypes
  <2> QED BY <2>1, <2>2
<1>4. LoopTypes'
  BY <1>0, <1>1, <1>3 DEF LoopTypes, mem
<1>5. RecoverStage'
  BY <1>0, <1>3 DEF SourcesInv, RecoverStage, mem
<1>6. DocTypes'
  BY <1>0, <1>1, <1>2 DEF DocTypes, Known
<1>7. ASSUME NEW n \in Names \ excused' PROVE NameInv(n)'
  <2>0. doc'[n] = doc[n] /\ n \in Names \ excused /\ tracks' = tracks /\ "input" \in Dirs
    BY <1>0, <1>2 DEF mem, Dirs
  <2>1. Attended(n) => Attended(n)'
    BY <1>0, <2>0, LoopSees DEF Attended, mem
  <2>2. n \notin loop.dirty /\ Tracked(n) => Tracked(n)'
    BY <1>0, <1>3, <2>0, LoopSees DEF Tracked
  <2>3. CASE /\ n \notin loop.dirty
             /\ \A d \in Dirs : <<n, d>> \in src' <=> <<n, d>> \in src
    <3>1. Needed(n) => Needed(n)'
      BY <1>0, <2>0, <2>2, <2>3, LoopSees
    <3> QED BY <1>0, <2>0, <2>1, <2>3, <3>1, NameStays
  <2>4. CASE /\ doc[n].st # "pending" /\ \A u \in Uploads : ~Accepted(n, u)
             /\ \A d \in Dirs : <<n, d>> \notin src'
    BY <1>0, <2>0, <2>1, <2>4, NameStays
  <2> QED BY <1>2, <2>3, <2>4
<1>8. /\ del' \in [pc : {"idle", "delete", "clean"}, n : Names \cup {NoName}]
      /\ del'.pc # "idle" => del'.n \in Names
  BY <1>0 DEF SourcesInv, RequestTypes
<1>9. Aside
  BY <1>0, LeavesAside
<1> QED BY <1>4, <1>5, <1>6, <1>7, <1>8, <1>9, AsideStep

(* A run of the pipeline over N.                                            *)
LEMMA PipelineDoes ==
  ASSUME DocTypes, NEW N \in SUBSET recoverable_documents, Pipeline(N)
  PROVE  /\ doc' \in [Names -> [st : DocStates, up : Uploads \cup {NoName}]]
         /\ src' \subseteq Copies(Names)
         /\ \A n \in Names : doc'[n].up = doc[n].up /\ (Known(n)' <=> Known(n))
         /\ \A n \in N : doc'[n].st \in {"processed", "failed"}
         /\ \A n \in Names \ N : doc'[n] = doc[n] /\ \A d \in Dirs : <<n, d>> \in src' <=> <<n, d>> \in src
<1>1. PICK good \in SUBSET {n \in N : <<n, "input">> \in src \/ <<n, "parsed">> \in src} :
        /\ doc' = [n \in Names |-> IF n \in N THEN [doc[n] EXCEPT !.st = IF n \in good THEN "processed" ELSE "failed"]
                                   ELSE doc[n]]
        /\ src' = (src \ {<<n, "input">> : n \in good}) \cup {<<n, "parsed">> : n \in good}
  BY DEF Pipeline
<1>2. N \subseteq Names /\ good \subseteq N /\ \A n \in N : Known(n)
  BY DEF recoverable_documents, Known
<1>3. ASSUME NEW n \in N
      PROVE  doc'[n].st \in {"processed", "failed"} /\ doc'[n].up = doc[n].up
             /\ doc'[n] \in [st : DocStates, up : Uploads \cup {NoName}]
  <2>1. doc'[n] = [doc[n] EXCEPT !.st = IF n \in good THEN "processed" ELSE "failed"]
    BY <1>1, <1>2
  <2> QED BY <1>2, <2>1 DEF DocTypes, DocStates
<1>4. ASSUME NEW n \in Names \ N PROVE doc'[n] = doc[n] /\ \A d \in Dirs : <<n, d>> \in src' <=> <<n, d>> \in src
  BY <1>1, <1>2
<1>5. doc' \in [Names -> [st : DocStates, up : Uploads \cup {NoName}]]
  <2>1. \A n \in Names : doc'[n] \in [st : DocStates, up : Uploads \cup {NoName}]
    BY <1>2, <1>3, <1>4 DEF DocTypes
  <2> QED BY <1>1, <2>1
<1>6. src' \subseteq Copies(Names)
  BY <1>1, <1>2 DEF DocTypes, Copies, Dirs
<1>7. \A n \in Names : doc'[n].up = doc[n].up /\ (Known(n)' <=> Known(n))
  BY <1>2, <1>3, <1>4 DEF Known
<1> QED BY <1>3, <1>4, <1>5, <1>6, <1>7

(* After a run of the pipeline: its documents wait no longer, and whoever   *)
(* was to see to one of them cleans after it, unless the name is excused.   *)
LEMMA PipelineKeeps ==
  ASSUME GateInv, SourcesInv, loop.pc = "run", NEW N \in SUBSET recoverable_documents, Pipeline(N),
         UNCHANGED <<up, del>>, excused' = excused \cup Retried,
         LoopTypes', RecoverStage', Leave("loop"),
         \A n \in Names \ excused' :
           /\ doc'[n] = doc[n] => (Attended(n) => Attended(n)') /\ (Tracked(n) => Tracked(n)')
           /\ Told(n) \/ Track(n) \in loop.work \/ Unanswered(n) =>
                (doc'[n].up = doc[n].up /\ doc'[n].st = "processed" => Tracked(n)')
  PROVE  SourcesInv'
<1>0. DocTypes /\ LoopTypes /\ ~recover
  BY DEF SourcesInv, RecoverStage
<1>1. /\ doc' \in [Names -> [st : DocStates, up : Uploads \cup {NoName}]]
      /\ src' \subseteq Copies(Names)
      /\ \A n \in Names : doc'[n].up = doc[n].up /\ (Known(n)' <=> Known(n))
      /\ \A n \in N : doc'[n].st \in {"processed", "failed"}
      /\ \A n \in Names \ N : doc'[n] = doc[n] /\ \A d \in Dirs : <<n, d>> \in src' <=> <<n, d>> \in src
  BY <1>0, PipelineDoes
<1>2. excused' \subseteq Names
  BY <1>0 DEF DocTypes, Retried
<1>3. DocTypes'
  BY <1>0, <1>1, <1>2 DEF DocTypes
<1>4. ASSUME NEW n \in Names \ excused' PROVE NameInv(n)'
  <2>0. n \in Names \ excused /\ n \notin Retried /\ NameInv(n)
    BY DEF SourcesInv
  <2>1. CASE n \notin N
    <3>1. doc'[n] = doc[n] /\ \A d \in Dirs : <<n, d>> \in src' <=> <<n, d>> \in src
      BY <1>1, <2>0, <2>1
    <3>2. Needed(n) => Needed(n)'
      BY <2>0, <3>1, LoopSees
    <3>3. "input" \in Dirs
      BY DEF Dirs
    <3> QED BY <2>0, <3>1, <3>2, <3>3, NameStays
  <2>2. CASE n \in N
    <3>1. doc[n].st \in {"pending", "failed"} /\ doc'[n].st \in {"processed", "failed"} /\ doc'[n].up = doc[n].up
      BY <1>1, <2>0, <2>2 DEF recoverable_documents
    <3>2. (Told(n) \/ Track(n) \in loop.work \/ Unanswered(n)) /\ \A u \in Uploads : ~Accepted(n, u)
      <4>1. CASE doc[n].st = "pending"
        <5>1. Told(n) \/ Track(n) \in loop.work \/ Unanswered(n)
          BY <1>0, <2>0, <4>1 DEF NameInv, Attended
        <5> QED BY <2>0, <4>1, <5>1 DEF NameInv, PendingOwned
      <4>2. CASE doc[n].st = "failed"
        BY <2>0, <4>2 DEF Retried, Accepted
      <4> QED BY <3>1, <4>1, <4>2
    <3>3. \A u \in Uploads : ~Accepted(n, u)'
      BY <3>2 DEF Accepted
    <3>4. OneOwner(n)' /\ PendingOwned(n)' /\ Attended(n)'
      BY <3>1, <3>3 DEF OneOwner, PendingOwned, Attended
    <3>5. Needed(n)'
      BY <3>1, <3>2 DEF Needed
    <3> QED BY <3>4, <3>5 DEF NameInv, CopiesOwned
  <2> QED BY <2>1, <2>2
<1>5. /\ del' \in [pc : {"idle", "delete", "clean"}, n : Names \cup {NoName}]
      /\ del'.pc # "idle" => del'.n \in Names
  BY DEF SourcesInv, RequestTypes
<1>6. Aside
  BY LeavesAside
<1> QED BY <1>3, <1>4, <1>5, <1>6, AsideStep

(* After the pipeline the whole work is polled.                             *)
LEMMA LoopProcessesStep ==
  ASSUME GateInv, SourcesInv, loop_processes
  PROVE  SourcesInv'
<1>0. /\ loop.pc = "run" /\ Leave("loop") /\ UNCHANGED <<mem, up, del>>
      /\ Pipeline(recoverable_documents)
      /\ excused' = excused \cup Retried
      /\ loop' = [loop EXCEPT !.left = loop.work, !.pc = "poll"]
  BY DEF loop_processes
<1>1. LoopTypes /\ DocTypes
  BY DEF SourcesInv
<1>2. /\ loop' \in [pc : {"wait", "recover", "run", "poll", "clean", "retry"}, work : SUBSET Tracks,
                    left : SUBSET Tracks, dirty : SUBSET Names, sr : BOOLEAN]
      /\ loop'.work = loop.work /\ loop'.left = loop.work /\ loop'.dirty = loop.dirty /\ loop'.pc = "poll"
  BY <1>0, <1>1 DEF LoopTypes
<1>3. LoopTypes'
  BY <1>0, <1>1, <1>2 DEF LoopTypes, mem
<1>4. RecoverStage'
  BY <1>0, <1>2 DEF SourcesInv, RecoverStage, mem
<1>5. ASSUME NEW n \in Names
      PROVE  /\ doc'[n] = doc[n] => (Attended(n) => Attended(n)') /\ (Tracked(n) => Tracked(n)')
             /\ Told(n) \/ Track(n) \in loop.work \/ Unanswered(n) =>
                  (doc'[n].up = doc[n].up /\ doc'[n].st = "processed" => Tracked(n)')
  <2>0. tracks' = tracks
    BY <1>0 DEF mem
  <2>1. ASSUME doc'[n].up = doc[n].up
        PROVE  /\ Track(n)' = Track(n) /\ (Unanswered(n) => Unanswered(n)') /\ (Told(n) => Told(n)')
    BY <1>0, <2>0, <2>1 DEF Track, Unanswered, Told
  <2>2. Told(n) \/ Track(n) \in loop.work \/ Unanswered(n) =>
          (doc'[n].up = doc[n].up /\ doc'[n].st = "processed" => Tracked(n)')
    BY <1>2, <2>1 DEF Tracked
  <2>3. doc'[n] = doc[n] /\ Tracked(n) => Tracked(n)'
    BY <1>0, <2>2 DEF Tracked
  <2>4. doc'[n] = doc[n] /\ Attended(n) => Attended(n)'
    <3>1. CASE doc[n].st = "pending"
      <4>1. n \in recoverable_documents
        BY <3>1 DEF recoverable_documents
      <4>2. doc'[n].st # "pending"
        BY <1>0, <1>1, <4>1, PipelineDoes
      <4> QED BY <3>1, <4>2
    <3>2. CASE doc[n].st # "pending"
      BY <3>2 DEF Attended
    <3> QED BY <3>1, <3>2
  <2> QED BY <2>2, <2>3, <2>4
<1> QED BY <1>0, <1>3, <1>4, <1>5, PipelineKeeps

(* What a failed iteration had taken is put back.                           *)
LEMMA LoopFailsDoes ==
  ASSUME SourcesInv, LoopFails
  PROVE  /\ LoopTypes' /\ RecoverStage'
         /\ loop'.pc = "retry" /\ tracks' = tracks \cup loop.work
         /\ loop.pc = "recover" => recover'
         /\ recover => recover'
         /\ requested' = requested
<1>0. /\ tracks' = tracks \cup loop.work /\ loop' = [IdleLoop EXCEPT !.pc = "retry"]
      /\ requested' = requested
  BY DEF LoopFails
<1>1. recover' = (recover \/ loop.sr)
  BY Zenon DEF LoopFails
<1>2. recover' \in BOOLEAN /\ (recover => recover') /\ (loop.sr => recover')
  BY <1>1, Zenon
<1>3. loop.pc = "recover" => loop.sr
  BY DEF SourcesInv, RecoverStage
<1>4. /\ loop' \in [pc : {"wait", "recover", "run", "poll", "clean", "retry"}, work : SUBSET Tracks,
                    left : SUBSET Tracks, dirty : SUBSET Names, sr : BOOLEAN]
      /\ loop'.left = {} /\ loop'.dirty = {} /\ loop'.pc = "retry"
  BY <1>0 DEF IdleLoop
<1>5. tracks' \subseteq Tracks /\ requested' \in BOOLEAN
  BY <1>0 DEF SourcesInv, LoopTypes
<1>6. LoopTypes'
  BY <1>2, <1>4, <1>5 DEF LoopTypes
<1>7. RecoverStage'
  BY <1>4 DEF RecoverStage
<1> QED BY <1>0, <1>2, <1>3, <1>4, <1>6, <1>7

(* Who was to see to a name still will, when the iteration failed.          *)
LEMMA LoopFailsSees ==
  ASSUME SourcesInv, LoopFails, loop.pc \in {"recover", "run", "poll"}, up' = up, NEW n \in Names
  PROVE  /\ doc'[n] = doc[n] => (Attended(n) => Attended(n)') /\ (Tracked(n) => Tracked(n)')
         /\ Told(n) \/ Track(n) \in loop.work \/ Unanswered(n) =>
              (doc'[n].up = doc[n].up /\ doc'[n].st = "processed" => Tracked(n)')
<1>0. /\ loop'.pc = "retry" /\ tracks' = tracks \cup loop.work
      /\ loop.pc = "recover" => recover'
      /\ recover => recover'
  BY LoopFailsDoes
<1>1. ASSUME doc'[n].up = doc[n].up
      PROVE  Track(n)' = Track(n) /\ (Unanswered(n) => Unanswered(n)')
             /\ (Told(n) \/ Track(n) \in loop.work => Told(n)')
  BY <1>0, <1>1 DEF Track, Unanswered, Told
<1>2. Told(n) \/ Track(n) \in loop.work \/ Unanswered(n) =>
        (doc'[n].up = doc[n].up /\ doc'[n].st = "processed" => Tracked(n)')
  BY <1>1 DEF Tracked
<1>3. doc'[n] = doc[n] /\ Tracked(n) => Tracked(n)'
  <2>1. loop.left \subseteq loop.work
    BY DEF SourcesInv, LoopTypes
  <2> QED BY <1>2, <2>1 DEF Tracked
<1>4. ASSUME doc'[n] = doc[n], Attended(n), doc[n].st = "pending" PROVE Attended(n)'
  <2>1. CASE Unanswered(n)
    BY <1>1, <1>4, <2>1, Zenon DEF Attended
  <2>2. CASE (Told(n) \/ recover) \/ loop.pc = "recover" \/ Track(n) \in loop.work
    <3>1. Told(n)' \/ recover'
      BY <1>0, <1>1, <1>4, <2>2
    <3> QED BY <1>0, <3>1, Zenon DEF Attended
  <2> QED BY <1>4, <2>1, <2>2, Zenon DEF Attended
<1>5. doc'[n] = doc[n] /\ Attended(n) => Attended(n)'
  BY <1>4 DEF Attended
<1> QED BY <1>2, <1>3, <1>5

(* An iteration that fails, in the pipeline or elsewhere.                   *)
LEMMA LoopFailsStep ==
  ASSUME GateInv, SourcesInv, loop_raises \/ loop_finds_no_instance
  PROVE  SourcesInv'
<1>0. "loop" \notin Uploads
  BY ClientsAssumption
<1>1. loop.pc \in {"recover", "run", "poll"} /\ LoopFails /\ UNCHANGED <<up, del>>
  BY <1>0 DEF loop_raises, loop_finds_no_instance, Inside, Wants
<1>2. Leave("loop") \/ UNCHANGED gate
  BY DEF loop_raises, loop_finds_no_instance
<1>3. LoopTypes' /\ RecoverStage'
  BY <1>1, LoopFailsDoes
<1>4. CASE UNCHANGED <<docs, excused>>
  <2>1. ASSUME NEW n \in Names \ excused PROVE (Attended(n) => Attended(n)') /\ (Tracked(n) => Tracked(n)')
    <3>1. doc'[n] = doc[n]
      BY <1>4 DEF docs
    <3> QED BY <1>1, <3>1, LoopFailsSees
  <2> QED BY <1>1, <1>2, <1>3, <1>4, <2>1, LoopOnlyStep
<1>5. CASE /\ loop.pc = "run" /\ excused' = excused \cup Retried /\ Leave("loop")
           /\ \E N \in SUBSET recoverable_documents : Pipeline(N)
  <2>1. PICK N \in SUBSET recoverable_documents : Pipeline(N)
    BY <1>5
  <2>2. \A n \in Names \ excused' :
          /\ doc'[n] = doc[n] => (Attended(n) => Attended(n)') /\ (Tracked(n) => Tracked(n)')
          /\ Told(n) \/ Track(n) \in loop.work \/ Unanswered(n) =>
               (doc'[n].up = doc[n].up /\ doc'[n].st = "processed" => Tracked(n)')
    BY <1>1, LoopFailsSees
  <2> QED BY <1>1, <1>3, <1>5, <2>1, <2>2, PipelineKeeps
<1> QED BY <1>4, <1>5 DEF loop_raises, loop_finds_no_instance

(* The retry asks for processing again.                                     *)
LEMMA LoopRetriesStep ==
  ASSUME GateInv, SourcesInv, loop_retries
  PROVE  SourcesInv'
<1>0. /\ loop.pc = "retry" /\ loop' = IdleLoop /\ requested' = TRUE
      /\ UNCHANGED <<gate, docs, tracks, recover, up, del, excused>>
  BY DEF loop_retries
<1>1. LoopTypes'
  BY <1>0 DEF SourcesInv, LoopTypes, IdleLoop
<1>2. RecoverStage'
  BY <1>0 DEF RecoverStage, IdleLoop
<1>3. ASSUME NEW n \in Names \ excused PROVE (Attended(n) => Attended(n)') /\ (Tracked(n) => Tracked(n)')
  <2>1. doc'[n] = doc[n]
    BY <1>0 DEF docs
  <2>2. Attended(n) => Attended(n)'
    BY <1>0, <2>1, LoopSees DEF Attended
  <2>3. Tracked(n) => Tracked(n)'
    BY <1>0, <2>1, LoopSees DEF Tracked
  <2> QED BY <2>2, <2>3
<1> QED BY <1>0, <1>1, <1>2, <1>3, LoopOnlyStep

(* A restart makes a recovery due for whatever waits, and leaves behind the *)
(* sources that requests had in their hands.                                *)
LEMMA CrashStep ==
  ASSUME GateInv, SourcesInv, crash
  PROVE  SourcesInv'
<1> DEFINE ended(u) == [up[u] EXCEPT !.pc = "done", !.acc = {}, !.cur = NoName]
<1>0. /\ UNCHANGED docs /\ tracks' = {} /\ requested' = TRUE /\ recover' = TRUE /\ loop' = IdleLoop
      /\ excused' = excused \cup {n \in Names : doc[n].st = "processed" \/ n = del.n}
                            \cup UNION {up[u].acc : u \in Uploads}
      /\ up' = [u \in Uploads |-> IF up[u].pc = "idle" THEN up[u] ELSE ended(u)]
      /\ del' = [pc |-> "idle", n |-> NoName]
  BY DEF crash
<1>1. up \in [Uploads -> UploadRows] /\ OutsideIsFresh
  BY DEF SourcesInv, RequestTypes
<1>2. ASSUME NEW u \in Uploads
      PROVE  up'[u] \in UploadRows /\ up'[u].acc = {} /\ up'[u].pc \in {"idle", "done"}
             /\ (up'[u].pc = "idle" => Untouched(up'[u]))
  <2>1. CASE up[u].pc = "idle"
    BY <1>0, <1>1, <2>1 DEF OutsideIsFresh, Untouched
  <2>2. CASE up[u].pc # "idle"
    <3>1. up'[u] = ended(u)
      BY <1>0, <2>2
    <3> QED BY <1>1, <3>1 DEF UploadRows
  <2> QED BY <2>1, <2>2
<1>3. RequestTypes'
  BY <1>0, <1>2 DEF RequestTypes
<1>4. OutsideIsFresh'
  BY <1>2 DEF OutsideIsFresh
<1>5. DocTypes'
  <2>1. \A u \in Uploads : up[u].acc \subseteq Names
    BY <1>1 DEF UploadRows
  <2>2. UNION {up[u].acc : u \in Uploads} \subseteq Names
    BY <2>1
  <2>3. excused' \subseteq Names
    BY <1>0, <2>2 DEF SourcesInv, DocTypes
  <2> QED BY <1>0, <2>3 DEF SourcesInv, DocTypes, docs, Known
<1>6. LoopTypes' /\ RecoverStage'
  BY <1>0 DEF LoopTypes, RecoverStage, IdleLoop
<1>7. ASSUME NEW n \in Names \ excused' PROVE NameInv(n)'
  <2>0. /\ n \in Names \ excused /\ doc[n].st # "processed" /\ n # del.n /\ \A u \in Uploads : n \notin up[u].acc
    BY <1>0
  <2>1. NameInv(n) /\ doc'[n] = doc[n] /\ src' = src /\ \A u \in Uploads : ~Accepted(n, u) /\ ~Accepted(n, u)'
    BY <1>0, <1>2, <2>0 DEF SourcesInv, docs, Accepted
  <2>2. OneOwner(n)' /\ PendingOwned(n)'
    BY <2>1 DEF NameInv, OneOwner, PendingOwned
  <2>3. Attended(n)'
    BY <1>0 DEF Attended
  <2>4. CopiesOwned(n)'
    BY <2>0, <2>1 DEF NameInv, CopiesOwned, Needed, Tracked
  <2> QED BY <2>2, <2>3, <2>4 DEF NameInv
<1> QED BY <1>3, <1>4, <1>5, <1>6, <1>7 DEF SourcesInv

(* Every step keeps the invariant of the documents.                         *)
LEMMA SourcesStep == GateInv /\ SourcesInv /\ [Next]_vars => SourcesInv'
<1> SUFFICES ASSUME GateInv, SourcesInv, [Next]_vars PROVE SourcesInv'
  OBVIOUS
<1>1. CASE (\E p \in Clients : enter_gate(p) \/ reads(p)) \/ ConfigStep \/ UNCHANGED vars
  BY <1>1, GateOnlyStep
<1>2. ASSUME NEW u \in Uploads,
             \/ upload_starts(u) \/ upload_writes(u) \/ enqueue_fails(u) \/ upload_answers(u)
             \/ upload_breaks(u) \/ upload_finds_no_instance(u)
             \/ \E n \in Names : upload_checks(u, n) \/ upload_enqueues(u, n)
      PROVE  SourcesInv'
  BY <1>2, CheckStep, WriteStep, EnqueueStep, EnqueueFailsStep, AnswerStep, BreakStep
<1>3. CASE delete_document \/ delete_cleans \/ delete_finds_no_instance \/ \E n \in Names : delete_starts(n)
  BY <1>3, DeleteStep
<1>4. CASE \/ loop_takes \/ loop_recovers \/ loop_processes \/ loop_polls \/ loop_cleans
           \/ loop_raises \/ loop_finds_no_instance \/ loop_retries
  BY <1>4, LoopTakesStep, LoopRecoversStep, LoopProcessesStep, LoopPollsStep, LoopCleansStep, LoopFailsStep,
     LoopRetriesStep
<1>5. CASE crash
  BY <1>5, CrashStep
<1> QED BY <1>1, <1>2, <1>3, <1>4, <1>5 DEF Next

(* However many uploads, deletions, failures, saves and restarts            *)
(* interleave with the processing loop: a queued document has its source    *)
(* and somebody about to process it, and a source on disk belongs to a      *)
(* document or to somebody who will remove it - but for the names a         *)
(* broken-off request or a race by name is known to leave behind            *)
(* (upload_knowledge_documents, delete_knowledge_document,                  *)
(* _knowledge_document_processing_loop).                                    *)
THEOREM NoSourceIsLost == Spec => []SourcesAreAccounted
<1>1. Init => GateInv /\ Numbered /\ SourcesInv
  BY GateInit, SourcesInit
<1>2. GateInv /\ Numbered /\ SourcesInv /\ [Next]_vars => (GateInv /\ Numbered /\ SourcesInv)'
  BY GateStep, NumberedStep, SourcesStep
<1> QED BY <1>1, <1>2, SourcesGive, PTL DEF Spec
=============================================================================
