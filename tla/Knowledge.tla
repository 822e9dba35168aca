----------------------------- MODULE Knowledge -----------------------------
(***************************************************************************)
(* The documents of the knowledge base: uploads, deletions and the task    *)
(* that has queued documents indexed (service/knowledge/resources.py and   *)
(* runtime.py), each inside the gate to the LightRAG instance.             *)
(*                                                                         *)
(* LightRAG's document table, pipeline and file handling are external and  *)
(* modelled by the calls made to them.  A batch holds one document, so a   *)
(* track is an upload and a name.  Between two awaits a handler is one     *)
(* step.  "excused" collects the names that a broken-off request or a race *)
(* by name is known to leave behind (README, known races).                 *)
(***************************************************************************)
EXTENDS LightRAGGate

CONSTANTS Names, Uploads, FilesOf,  \* [Uploads -> SUBSET Names]
          MaxEvents     \* bound on deletions, reads, faults, crashes and saves

ASSUME ClientsAssumption ==
  /\ Uploads \cup {"delete", "loop"} \subseteq Clients
  /\ Uploads \cap {"delete", "loop", "reader"} = {}

VARIABLES doc,          \* LightRAG's table: [Names -> [st, up]]
          src,          \* the source copies on disk: SUBSET (Names \X Dirs)
          tracks,       \* _pending_track_ids
          requested,    \* _processing_requested
          recover,      \* _recover_on_next_run
          loop,         \* _knowledge_document_processing_loop: [pc, work, left, dirty, sr]
          up,           \* [Uploads -> [pc, todo, cur, acc, queued]]
          del,          \* delete_knowledge_document: [pc, n]
          excused,
          used          \* how many of these but saves there were

docs == <<doc, src>>
mem  == <<tracks, requested, recover>>
vars == <<gate, docs, mem, loop, up, del, excused, used>>

Dirs     == {"input", "parsed"}
NoName   == "-"

ASSUME NamesAssumption == NoName \notin Names /\ FilesOf \in [Uploads -> SUBSET Names]

NoDoc    == [st |-> "none", up |-> NoName]
Known(n) == doc[n].st # "none"
Track(n) == <<doc[n].up, n>>
Copies(N) == N \X Dirs
IdleLoop == [pc |-> "wait", work |-> {}, left |-> {}, dirty |-> {}, sr |-> FALSE]
Event    == used + saves < MaxEvents /\ used' = used + 1

Init ==
  /\ GInit
  /\ doc = [n \in Names |-> NoDoc] /\ src = {}
  /\ tracks = {} /\ requested = TRUE /\ recover = TRUE /\ loop = IdleLoop
  /\ up = [u \in Uploads |-> [pc |-> "idle", todo |-> FilesOf[u], cur |-> NoName, acc |-> {}, queued |-> {}]]
  /\ del = [pc |-> "idle", n |-> NoName]
  /\ excused = {} /\ used = 0

Wants(p) ==
  \/ p \in Uploads /\ up[p].pc = "in"
  \/ p = "delete" /\ del.pc = "delete"
  \/ p = "loop" /\ loop.pc \in {"recover", "run", "poll"}

Inside(p) == Wants(p) /\ held[p] # NoRag

enter_gate(p) ==
  /\ Wants(p) /\ held[p] = NoRag /\ Enter(p)
  /\ UNCHANGED <<docs, mem, loop, up, del, excused, used>>

(* A query, a vector or graph read, or the retrieval of a turn's context:  *)
(* it enters, reads and leaves.                                            *)
reads(p) ==
  /\ p = "reader"
  /\ \/ held[p] = NoRag /\ Event /\ Enter(p)
     \/ Leave(p) /\ UNCHANGED used
  /\ UNCHANGED <<docs, mem, loop, up, del, excused>>

-----------------------------------------------------------------------------
(* upload_knowledge_documents and its handler. *)

upload_starts(u) ==
  /\ up[u].pc = "idle"
  /\ up' = [up EXCEPT ![u].pc = "in"]
  /\ UNCHANGED <<gate, docs, mem, loop, del, excused, used>>

(* A name or a content that is not valid, or a document of that name. *)
upload_checks(u, n) ==
  /\ Inside(u) /\ up[u].cur = NoName /\ n \in up[u].todo
  /\ \/ up' = [up EXCEPT ![u].todo = @ \ {n}]
     \/ ~Known(n) /\ up' = [up EXCEPT ![u].todo = @ \ {n}, ![u].cur = n]
  /\ UNCHANGED <<gate, docs, mem, loop, del, excused, used>>

(* _write_new_document opens the file exclusively. *)
upload_writes(u) ==
  LET n == up[u].cur IN
  /\ Inside(u) /\ n # NoName
  /\ IF <<n, "input">> \in src
     THEN up' = [up EXCEPT ![u].cur = NoName] /\ UNCHANGED src
     ELSE /\ src' = src \cup {<<n, "input">>}
          /\ up' = [up EXCEPT ![u].cur = NoName, ![u].acc = @ \cup {n}]
  /\ UNCHANGED <<gate, doc, mem, loop, del, excused, used>>

Enqueueing(u) == Inside(u) /\ up[u].todo = {} /\ up[u].cur = NoName

(* Mutant: the source of a document that was not queued stays. *)
upload_enqueues_leaky(u, n) ==
  /\ Enqueueing(u) /\ n \in up[u].acc
  /\ doc' = IF Known(n) THEN doc ELSE [doc EXCEPT ![n] = [st |-> "pending", up |-> u]]
  /\ up' = [up EXCEPT ![u].acc = @ \ {n}, ![u].queued = IF Known(n) THEN @ ELSE @ \cup {n}]
  /\ UNCHANGED <<gate, src, mem, loop, del, excused, used>>

(* apipeline_enqueue_documents answers a track, or nothing for a document  *)
(* it already has, whose source is then removed.                           *)
upload_enqueues(u, n) ==
  /\ Enqueueing(u) /\ n \in up[u].acc
  /\ IF Known(n)
     THEN src' = src \ {<<n, "input">>} /\ UNCHANGED doc
     ELSE doc' = [doc EXCEPT ![n] = [st |-> "pending", up |-> u]] /\ UNCHANGED src
  /\ up' = [up EXCEPT ![u].acc = @ \ {n}, ![u].queued = IF Known(n) THEN @ ELSE @ \cup {n}]
  /\ UNCHANGED <<gate, mem, loop, del, excused, used>>

(* Mutant: the sources of every accepted file are removed, those of the    *)
(* documents queued before included.                                       *)
enqueue_fails_all(u) ==
  /\ Enqueueing(u) /\ up[u].acc # {} /\ Event
  /\ src' = src \ {<<n, "input">> : n \in up[u].acc \cup up[u].queued}
  /\ up' = [up EXCEPT ![u].acc = {}]
  /\ UNCHANGED <<gate, doc, mem, loop, del, excused>>

(* The call raises: the sources of this and the later batches are removed. *)
enqueue_fails(u) ==
  /\ Enqueueing(u) /\ up[u].acc # {} /\ Event
  /\ src' = src \ {<<n, "input">> : n \in up[u].acc}
  /\ up' = [up EXCEPT ![u].acc = {}]
  /\ UNCHANGED <<gate, doc, mem, loop, del, excused>>

(* Mutant: the file names are passed, not the tracks. *)
upload_answers_names(u) ==
  /\ Enqueueing(u) /\ up[u].acc = {} /\ Leave(u)
  /\ tracks' = tracks \cup up[u].queued
  /\ requested' = (requested \/ up[u].queued # {})
  /\ up' = [up EXCEPT ![u].pc = "done"]
  /\ UNCHANGED <<docs, recover, loop, del, excused, used>>

(* Mutant: the loop is told only when it has nothing to do. *)
upload_answers_quiet(u) ==
  LET T == {u} \X up[u].queued IN
  /\ Enqueueing(u) /\ up[u].acc = {} /\ Leave(u)
  /\ tracks' = tracks \cup T
  /\ requested' = (requested \/ (T # {} /\ loop.pc = "wait"))
  /\ up' = [up EXCEPT ![u].pc = "done"]
  /\ UNCHANGED <<docs, recover, loop, del, excused, used>>

(* The upload leaves the gate; the handler asks for processing             *)
(* (request_knowledge_document_processing).                                *)
upload_answers(u) ==
  LET T == {u} \X up[u].queued IN
  /\ Enqueueing(u) /\ up[u].acc = {} /\ Leave(u)
  /\ tracks' = tracks \cup T
  /\ requested' = (requested \/ T # {})
  /\ up' = [up EXCEPT ![u].pc = "done"]
  /\ UNCHANGED <<docs, recover, loop, del, excused, used>>

(* The request is canceled, or a write fails: the sources nothing refers   *)
(* to are removed.  The thread that writes is not stopped, and documents   *)
(* already queued are not told of.                                         *)
upload_breaks(u) ==
  LET n == up[u].cur IN
  /\ Inside(u) /\ Event /\ Leave(u)
  /\ \E late \in SUBSET ({<<n, "input">>} \cap Copies(Names)) :
       src' = (src \ {<<x, "input">> : x \in up[u].acc}) \cup late
  /\ excused' = excused \cup up[u].queued \cup ({n} \ {NoName})
  /\ up' = [up EXCEPT ![u].pc = "done", ![u].acc = {}, ![u].cur = NoName]
  /\ UNCHANGED <<doc, mem, loop, del>>

upload_finds_no_instance(u) ==
  /\ Wants(u) /\ held[u] = NoRag /\ NoInstance
  /\ up' = [up EXCEPT ![u].pc = "done"]
  /\ UNCHANGED <<gate, docs, mem, loop, del, excused, used>>

-----------------------------------------------------------------------------
(* delete_knowledge_document. *)

delete_starts(n) ==
  /\ del.pc = "idle" /\ Known(n) /\ Event
  /\ del' = [pc |-> "delete", n |-> n]
  /\ UNCHANGED <<gate, docs, mem, loop, up, excused>>

(* adelete_by_doc_id: not found, refused while the pipeline runs, failed,  *)
(* or done.                                                                *)
delete_document ==
  /\ Inside("delete") /\ Leave("delete")
  /\ \/ doc' = [doc EXCEPT ![del.n] = NoDoc] /\ del' = [del EXCEPT !.pc = IF Known(del.n) THEN "clean" ELSE "idle"]
     \/ doc' = doc /\ del' = [del EXCEPT !.pc = "idle"]
  /\ UNCHANGED <<src, mem, loop, up, excused, used>>

(* remove_knowledge_source_documents, by name, whoever's copies these are  *)
(* by now; after three attempts it gives up.                               *)
Clean(N) ==
  LET newer == {n \in N : doc[n].st = "pending" \/ \E u \in Uploads : n \in up[u].acc} IN
  \/ src' = src \ Copies(N) /\ excused' = excused \cup newer /\ UNCHANGED used
  \/ N # {} /\ Event /\ UNCHANGED src /\ excused' = excused \cup N

delete_cleans ==
  /\ del.pc = "clean"
  /\ Clean({del.n})
  /\ del' = [del EXCEPT !.pc = "idle"]
  /\ UNCHANGED <<gate, doc, mem, loop, up>>

delete_finds_no_instance ==
  /\ del.pc = "delete" /\ held["delete"] = NoRag /\ NoInstance
  /\ del' = [del EXCEPT !.pc = "idle"]
  /\ UNCHANGED <<gate, docs, mem, loop, up, excused, used>>

-----------------------------------------------------------------------------
(* _knowledge_document_processing_loop. *)

loop_takes ==
  /\ loop.pc = "wait" /\ requested
  /\ requested' = FALSE /\ tracks' = {}
  /\ loop' = [pc |-> IF recover THEN "recover" ELSE IF tracks # {} THEN "run" ELSE "wait",
              work |-> tracks, left |-> {}, dirty |-> {}, sr |-> recover]
  /\ UNCHANGED <<gate, docs, recover, up, del, excused, used>>

(* _recoverable_documents: every status but PROCESSED. *)
recoverable_documents == {n \in Names : doc[n].st \in {"pending", "failed"}}

loop_recovers ==
  LET found == recoverable_documents IN
  /\ loop.pc = "recover" /\ Inside("loop") /\ Leave("loop")
  /\ recover' = FALSE
  /\ loop' = [loop EXCEPT !.work = @ \cup {Track(n) : n \in found},
                          !.pc = IF loop.work = {} /\ found = {} THEN "wait" ELSE "run"]
  /\ UNCHANGED <<docs, tracks, requested, up, del, excused, used>>

(* apipeline_process_enqueue_documents: every document that is pending or  *)
(* failed ends processed or failed; raising, it may leave some as they     *)
(* are.  A document that was parsed has its source in PARSED_DIR; without  *)
(* a source it fails.                                                      *)
Pipeline(N) ==
  \E good \in SUBSET {n \in N : <<n, "input">> \in src \/ <<n, "parsed">> \in src} :
    /\ doc' = [n \in Names |-> IF n \in N THEN [doc[n] EXCEPT !.st = IF n \in good THEN "processed" ELSE "failed"]
                               ELSE doc[n]]
    /\ src' = (src \ {<<n, "input">> : n \in good}) \cup {<<n, "parsed">> : n \in good}

(* Failed documents of earlier iterations are tried again, but no track    *)
(* brings the loop to clean their sources; and what is parsed may be the   *)
(* source of an upload of the same name that has not queued it yet.        *)
Retried == {n \in Names : doc[n].st = "failed" /\ (Track(n) \notin loop.work \/ \E u \in Uploads : n \in up[u].acc)}

loop_processes ==
  /\ loop.pc = "run" /\ Inside("loop") /\ Leave("loop")
  /\ Pipeline(recoverable_documents)
  /\ excused' = excused \cup Retried
  /\ loop' = [loop EXCEPT !.left = loop.work, !.pc = "poll"]
  /\ UNCHANGED <<mem, up, del, used>>

(* One round of _wait_for_document_tracks: what is processed is cleaned,   *)
(* what is not terminal is looked at again.                                *)
loop_polls ==
  LET seen(st) == {n \in Names : doc[n].st = st /\ Track(n) \in loop.left} IN
  /\ loop.pc = "poll" /\ Inside("loop") /\ Leave("loop")
  /\ loop' = [loop EXCEPT !.pc = "clean", !.dirty = seen("processed"),
                          !.left = {Track(n) : n \in seen("pending")}]
  /\ UNCHANGED <<docs, mem, up, del, excused, used>>

loop_cleans ==
  /\ loop.pc = "clean"
  /\ Clean(loop.dirty)
  /\ loop' = IF loop.left = {} THEN IdleLoop ELSE [loop EXCEPT !.pc = "poll", !.dirty = {}]
  /\ UNCHANGED <<gate, doc, mem, up, del>>

(* An iteration raises: its tracks are put back and it is tried again. *)
LoopFails ==
  /\ tracks' = tracks \cup loop.work
  /\ recover' = (recover \/ loop.sr)
  /\ loop' = [IdleLoop EXCEPT !.pc = "retry"]
  /\ UNCHANGED requested

loop_raises ==
  /\ Inside("loop") /\ Event /\ Leave("loop") /\ LoopFails
  /\ \/ UNCHANGED <<docs, excused>>
     \/ loop.pc = "run" /\ excused' = excused \cup Retried /\ \E N \in SUBSET recoverable_documents : Pipeline(N)
  /\ UNCHANGED <<up, del>>

loop_finds_no_instance ==
  /\ Wants("loop") /\ held["loop"] = NoRag /\ NoInstance /\ LoopFails
  /\ UNCHANGED <<gate, docs, up, del, excused, used>>

loop_retries ==
  /\ loop.pc = "retry"
  /\ requested' = TRUE /\ loop' = IdleLoop
  /\ UNCHANGED <<gate, docs, tracks, recover, up, del, excused, used>>

-----------------------------------------------------------------------------
(* The process ends and starts again (start_lightrag,                      *)
(* start_knowledge_document_runtime); table and files stay.                *)
crash ==
  /\ SaverAt("idle") /\ Event
  /\ rag' = [n |-> built + 1, cfg |-> conf] /\ open' = {rag'} /\ built' = built + 1
  /\ held' = [p \in Clients |-> NoRag]
  /\ tracks' = {} /\ requested' = TRUE /\ recover' = TRUE /\ loop' = IdleLoop
  /\ excused' = excused \cup {n \in Names : doc[n].st = "processed" \/ n = del.n}
                        \cup UNION {up[u].acc : u \in Uploads}
  /\ up' = [u \in Uploads |-> IF up[u].pc = "idle" THEN up[u] ELSE [up[u] EXCEPT !.pc = "done", !.acc = {}, !.cur = NoName]]
  /\ del' = [pc |-> "idle", n |-> NoName]
  /\ UNCHANGED <<conf, moving, saver, saves, aborted, docs>>

ConfigStep == Saving /\ used + saves' <= MaxEvents /\ UNCHANGED <<docs, mem, loop, up, del, excused, used>>

Next ==
  \/ \E p \in Clients : enter_gate(p) \/ reads(p)
  \/ \E u \in Uploads :
       \/ upload_starts(u) \/ upload_writes(u) \/ enqueue_fails(u) \/ upload_answers(u)
       \/ upload_breaks(u) \/ upload_finds_no_instance(u)
       \/ \E n \in Names : upload_checks(u, n) \/ upload_enqueues(u, n)
  \/ \E n \in Names : delete_starts(n)
  \/ delete_document \/ delete_cleans \/ delete_finds_no_instance
  \/ loop_takes \/ loop_recovers \/ loop_processes \/ loop_polls \/ loop_cleans
  \/ loop_raises \/ loop_finds_no_instance \/ loop_retries
  \/ crash \/ ConfigStep

Spec == Init /\ [][Next]_vars

-----------------------------------------------------------------------------
(* The types, and at most one copy of a source in each directory. *)
TypeOK ==
  /\ GTypeOK
  /\ \A n \in Names : doc[n].st \in {"none", "pending", "processed", "failed"} /\ doc[n].up \in Uploads \cup {NoName}
  /\ src \subseteq Copies(Names)
  /\ tracks \subseteq Uploads \X Names /\ requested \in BOOLEAN /\ recover \in BOOLEAN
  /\ loop.pc \in {"wait", "recover", "run", "poll", "clean", "retry"} /\ loop.left \subseteq loop.work
  /\ excused \subseteq Names

(* A queued document is on its way to the pipeline: its track is known and *)
(* the loop is about to look, the loop's iteration will run the pipeline,  *)
(* its upload has not answered yet, or a recovery is due.  None is left    *)
(* waiting for a request that never comes                                  *)
(* (_knowledge_document_processing_loop).                                  *)
QueuedIsAttended ==
  \A n \in Names \ excused : doc[n].st = "pending" =>
    \/ requested /\ (Track(n) \in tracks \/ recover)
    \/ loop.pc = "retry" /\ (Track(n) \in tracks \/ recover)
    \/ loop.pc = "recover" \/ loop.pc = "run"
    \/ n \in up[doc[n].up].queued /\ up[doc[n].up].pc # "done"

(* A document that waits for its parsing still has its source, whatever    *)
(* other uploads, deletions and iterations remove (the unowned paths of    *)
(* upload_knowledge_documents).                                            *)
QueuedHasSource ==
  \A n \in Names \ excused : doc[n].st = "pending" => <<n, "input">> \in src

(* A source copy belongs to a document that needs it, or somebody is still *)
(* going to remove it: an orphan would block its name for every later      *)
(* upload (upload_knowledge_documents, _wait_for_document_tracks).         *)
NoOrphanSource ==
  \A n \in Names \ excused : (\E d \in Dirs : <<n, d>> \in src) =>
    \/ doc[n].st \in {"pending", "failed"}
    \/ \E u \in Uploads : \/ n \in up[u].acc
                          \/ n \in up[u].queued /\ up[u].pc = "in"
                          \/ <<u, n>> \in loop.work \cup tracks
    \/ del.pc = "clean" /\ del.n = n

(* Documents, sources and the loop agree: what is queued is attended and   *)
(* has its source, and no source is left behind.                           *)
SourcesAreAccounted == TypeOK /\ QueuedIsAttended /\ QueuedHasSource /\ NoOrphanSource

(* What serves the operations is what the configuration says, and somebody *)
(* is replacing it whenever they are made to wait for it.                  *)
ConfigIsServed == FlagHasOwner /\ InstanceMatchesConfig
=============================================================================
