------------------------------ MODULE Timeline ------------------------------
(***************************************************************************)
(* One chat session in the agent pool (core/runtime/session.py) and the    *)
(* durable timeline its events reach (core/runtime/timeline.py,            *)
(* service/agent/event_log.py).  What a subscribed client sees of the      *)
(* events is the subject of LiveStream.                                    *)
(*                                                                         *)
(* The pool maps the session to an AgentSession object.  An idle object is *)
(* evicted and a later request makes another, so the objects are numbered: *)
(*   inc[i]   object i: its phase (none, open, closing, closed), the       *)
(*            sequence counter and first-seen map, whether the timeline is *)
(*            loaded and a driver runs, the writer (task w, stop flag,     *)
(*            queue q, batch being written, what follows the batch)        *)
(*   pool     the pooled object, 0 when the session is not pooled          *)
(*   log      the rows of agent_event_log                                  *)
(*   user     a request that starts a turn: got an object, read the head   *)
(*   client   a websocket: whether and to which object it is subscribed    *)
(*   page     a history request: waiting for the writer, then read         *)
(*   cand     an eviction in progress: the object, whether it was used     *)
(*            since the pick, and who held it then (history)               *)
(*   sub      a subagent task: none, running (and owed), ended             *)
(*   direct   a status event being stored without a pooled session         *)
(*   acc, lost, overlap   history: versions the writers accepted, versions *)
(*            dropped by a failed write or a crash, and whether the log    *)
(*            ever had two writers at once, or an object stamped an event  *)
(*            before it had loaded the log                                 *)
(* An event is an item kind and a version: seg (a delta of a text segment, *)
(* stamped and never stored), sa (a subagent task, keyed like finished     *)
(* segments, tool calls and results), msg (a keyless user message).        *)
(***************************************************************************)
EXTENDS Naturals, SequencesExt

CONSTANTS
    MaxInc,      \* bound on the objects made for the session
    MaxEvents,   \* bound on published events
    MaxFaults,   \* bound on failed writes and crashes
    MaxOpen      \* bound on requests begun at the same time

ASSUME TimelineAssumption ==
    MaxInc \in Nat \ {0} /\ MaxEvents \in Nat /\ MaxFaults \in Nat /\ MaxOpen \in Nat \ {0}

VARIABLES inc, pool, log, user, client, page, cand, sub, direct, clock, faults,
          acc, lost, overlap

world == <<pool, user, page, cand, sub, direct, faults, overlap>>
vars  == <<inc, log, client, clock, acc, lost, world>>

Incs  == 1 .. MaxInc
Keyed == {"seg", "sa"}
Vers  == 1 .. MaxEvents
Seqs  == 0 .. 2 * MaxEvents

KeyOf(kind, n) == IF kind = "msg" THEN <<"msg", n>> ELSE <<kind, 0>>
Keys == {KeyOf(kind, n) : kind \in Keyed \cup {"msg"}, n \in Seqs}

EventRows == [key : Keys, seq : Seqs, ver : Vers]

NoSession ==
    [st |-> "none", seq |-> 0, keys |-> [k \in Keyed |-> 0], loaded |-> FALSE,
     running |-> FALSE, w |-> "off", stop |-> FALSE, q |-> <<>>, batch |-> <<>>,
     then |-> "loop", was |-> "off"]

NoClient    == [pc |-> "off", i |-> 0]
NoUser      == [pc |-> "idle", i |-> 0, seq |-> 0, keys |-> NoSession.keys]
NoPage      == [pc |-> "off", i |-> 0, want |-> {}]
NoCandidate == [pc |-> "none", i |-> 0, touched |-> FALSE, held |-> {}]
NoDirect    == [pc |-> "none", seq |-> 0, ver |-> 0]

Init ==
    /\ inc = [i \in Incs |-> NoSession]
    /\ pool = 0 /\ log = {} /\ clock = 0 /\ faults = 0
    /\ user = NoUser
    /\ client = NoClient
    /\ page = NoPage /\ cand = NoCandidate
    /\ sub = "none" /\ direct = NoDirect
    /\ acc = {} /\ lost = {} /\ overlap = FALSE

-----------------------------------------------------------------------------
(* The log: upserts keep the sequence number first seen, and history pages *)
(* are extended back to the start of a turn.                               *)

(* Mutant: rows are inserted without ON CONFLICT.                          *)
Upsert_insert(rows, news) == rows \cup news

Upsert(rows, news) ==
    {r \in rows : \A n \in news : n.key # r.key}
      \cup {[n EXCEPT !.seq = IF \E r \in rows : r.key = n.key
                              THEN (CHOOSE r \in rows : r.key = n.key).seq
                              ELSE @] : n \in news}

(* The rows of a queue, without the markers in it.                         *)
RowsOf(q) == {m \in Range(q) : m \in EventRows}

(* A batch collapses to the latest row of each key.                        *)
Collapse(q) ==
    LET rows == {j \in DOMAIN q : q[j] \in EventRows}
    IN  {q[j] : j \in {j \in rows : \A k \in rows : q[k].key = q[j].key => k <= j}}

(* Version a of an item, or for a keyed item a later one, is among rows    *)
Stored(rows, a) ==
    \E r \in rows : r.key = a.key /\ (IF a.key[1] = "msg" THEN r.ver = a.ver ELSE r.ver >= a.ver)

MaxSeq(rows) == Max({r.seq : r \in rows} \cup {0})

(* Mutant: the page is not extended to the start of its turn.              *)
fetch_timeline_page_unaligned(rows, before, limit) ==
    LET latest == {r \in rows : /\ r.seq < before
                                /\ Cardinality({o \in rows : o.seq < before /\ o.seq > r.seq}) < limit}
        first  == Min({r.seq : r \in latest})
    IN  [items |-> latest, more |-> latest # {} /\ \E r \in rows : r.seq < first]

fetch_timeline_page(rows, before, limit) ==
    LET latest == {r \in rows : /\ r.seq < before
                                /\ Cardinality({o \in rows : o.seq < before /\ o.seq > r.seq}) < limit}
        first  == Min({r.seq : r \in latest})
        turns  == {r.seq : r \in {o \in rows : o.key[1] = "msg" /\ o.seq < first}}
        start  == IF turns # {} /\ \A r \in latest : r.seq = first => r.key[1] # "msg"
                  THEN Max(turns) ELSE first
    IN  IF latest = {} THEN [items |-> {}, more |-> FALSE]
        ELSE [items |-> latest \cup {r \in rows : r.seq >= start /\ r.seq < first},
              more  |-> \E r \in rows : r.seq < start]

-----------------------------------------------------------------------------
(* The event bus of one object.                                            *)

Unwritten(s) == RowsOf(s.q) \cup RowsOf(s.batch)

(* Rows of another object that are still to be written, or a second driver *)
OtherWriter(i) == \E j \in Incs \ {i} : inc[j].running \/ Unwritten(inc[j]) # {}

StampSeq(s, kind) ==
    IF kind \in Keyed /\ s.keys[kind] # 0 THEN s.keys[kind] ELSE s.seq + 1

stamp_event(s, kind) ==
    LET n == StampSeq(s, kind)
    IN  [s EXCEPT !.seq  = IF n > @ THEN n ELSE @,
                  !.keys = IF kind \in Keyed THEN [@ EXCEPT ![kind] = n] ELSE @]

(* TimelineLogWriter.enqueue, called when the timeline is loaded           *)
enqueue(s, row) == IF s.stop THEN s ELSE [s EXCEPT !.q = Append(@, row)]

Accept(key, ver) ==
    {a \in acc : a.key # key \/ key[1] = "msg"} \cup {[key |-> key, ver |-> ver]}

Publish(i, kind, persistable) ==
    LET s   == stamp_event(inc[i], kind)
        n   == StampSeq(inc[i], kind)
        row == [key |-> KeyOf(kind, n), seq |-> n, ver |-> clock + 1]
        t   == IF persistable /\ s.loaded THEN enqueue(s, row) ELSE s
    IN  /\ clock < MaxEvents /\ clock' = clock + 1
        /\ inc' = [inc EXCEPT ![i] = t]
        /\ acc' = IF t # s THEN Accept(row.key, row.ver) ELSE acc

-----------------------------------------------------------------------------
(* The pool: a request gets an object, waits for the capacity check, and   *)
(* only then uses it.                                                      *)

(* Turns, subscriptions and history requests being begun; an eviction may  *)
(* begin beside each, a history request is begun before an eviction.       *)
Open == Cardinality({r \in {<<"user", user.pc>>, <<"client", client.pc>>, <<"page", page.pc>>} :
                       r[2] \notin {"idle", "off", "on"}})

(* Mutant: get_or_create and publish do not renew last_used_at.            *)
Touched_never(i) == cand

Touched(i) == IF cand.i = i THEN [cand EXCEPT !.touched = TRUE] ELSE cand

GetOrCreate(i) ==
    /\ IF pool # 0 THEN i = pool /\ inc' = inc
       ELSE /\ inc[i].st = "none" /\ \A j \in 1 .. i - 1 : inc[j].st # "none"
            /\ inc' = [inc EXCEPT ![i].st = "open"]
    /\ pool' = i /\ cand' = Touched(i)

(* submit_turn: pool.get_or_create, up to the end of its critical section  *)
get_or_create(i) ==
    /\ user.pc = "idle" /\ Open < MaxOpen /\ GetOrCreate(i)
    /\ user' = [user EXCEPT !.pc = "got", !.i = i]
    /\ UNCHANGED <<log, client, page, sub, direct, clock, faults, acc, lost, overlap>>

(* start_turn -> ensure_timeline_loaded: read the head of the log          *)
load_timeline_head ==
    /\ user.pc = "got" /\ ~inc[user.i].running /\ ~inc[user.i].loaded
    /\ user' = [user EXCEPT !.pc = "head", !.seq = MaxSeq(log),
                            !.keys = [k \in Keyed |->
                               MaxSeq({r \in log : r.key = <<k, 0>>})]]
    /\ overlap' = (overlap \/ OtherWriter(user.i) \/ user.i # pool \/ direct.pc # "none")
    /\ UNCHANGED <<inc, pool, log, client, page, cand, sub, direct, clock, faults, acc, lost>>

(* Mutant: the counter starts again from the events of this object.        *)
ResumeCounter_fresh(s) == s

ResumeCounter(s) ==
    [s EXCEPT !.seq  = IF user.seq > @ THEN user.seq ELSE @,
              !.keys = [k \in Keyed |-> IF @[k] = 0 THEN user.keys[k] ELSE @[k]]]

StartWriter(s) == IF s.w = "on" THEN s ELSE [s EXCEPT !.w = "on", !.stop = FALSE]

(* The driver is created; a running one gets the message as a notification *)
start_turn ==
    /\ \/ user.pc = "head"
       \/ user.pc = "got" /\ inc[user.i].loaded
    /\ LET s == IF user.pc = "head" /\ ~inc[user.i].loaded
                THEN StartWriter([ResumeCounter(inc[user.i]) EXCEPT !.loaded = TRUE])
                ELSE inc[user.i]
       IN  inc' = [inc EXCEPT ![user.i] = [s EXCEPT !.running = TRUE]]
    /\ user' = NoUser
    /\ overlap' = (overlap \/ user.i # pool)
    /\ UNCHANGED <<pool, log, client, page, cand, sub, direct, clock, faults, acc, lost>>

(* Events of the running turn: a message, a delta, the start of a subagent *)
(* task.                                                                   *)
turn_publishes(i) ==
    /\ inc[i].running
    /\ \/ Publish(i, "msg", TRUE) /\ sub' = sub
       \/ Publish(i, "seg", FALSE) /\ sub' = sub
       \/ sub = "none" /\ sub' = "running" /\ Publish(i, "sa", TRUE)
    /\ UNCHANGED <<pool, log, user, client, page, cand, direct, faults, lost, overlap>>

(* The driver ends; the session goes idle and an ended task is dealt with. *)
turn_ends(i) ==
    /\ inc[i].running
    /\ inc' = [inc EXCEPT ![i].running = FALSE]
    /\ sub' = IF sub = "ended" THEN "none" ELSE sub
    /\ UNCHANGED <<pool, log, user, client, page, cand, direct, clock, faults, acc, lost, overlap>>

(* pool.publish of a subagent's end, routed to the pooled object; without  *)
(* one, or when it does not take the event, the row is stored directly.    *)
subagent_ends ==
    /\ sub = "running" /\ direct.pc = "none" /\ sub' = "ended"
    /\ IF pool # 0
       THEN /\ Publish(pool, "sa", TRUE) /\ cand' = Touched(pool)
            /\ direct' = IF acc' = acc THEN [direct EXCEPT !.pc = "read", !.ver = clock'] ELSE direct
       ELSE /\ clock < MaxEvents /\ clock' = clock + 1
            /\ direct' = [direct EXCEPT !.pc = "read", !.ver = clock']
            /\ UNCHANGED <<inc, acc, cand>>
    /\ overlap' = (overlap \/ (pool # 0 /\ ~inc[pool].loaded))
    /\ UNCHANGED <<pool, log, user, client, page, faults, lost>>

(* persist_subagent_event_unpooled: SELECT, then INSERT ... ON CONFLICT     *)
unpooled_select ==
    /\ direct.pc = "read"
    /\ direct' = [direct EXCEPT !.pc = "write", !.seq =
                    IF \E r \in log : r.key = <<"sa", 0>>
                    THEN (CHOOSE r \in log : r.key = <<"sa", 0>>).seq ELSE MaxSeq(log) + 1]
    /\ overlap' = (overlap \/ user.pc = "head" \/ (pool # 0 /\ inc[pool].loaded) \/ OtherWriter(0))
    /\ UNCHANGED <<inc, pool, log, user, client, page, cand, sub, clock, faults, acc, lost>>

unpooled_insert ==
    /\ direct.pc = "write"
    /\ log' = Upsert(log, {[key |-> <<"sa", 0>>, seq |-> direct.seq, ver |-> direct.ver]})
    /\ acc' = Accept(<<"sa", 0>>, direct.ver)
    /\ direct' = NoDirect
    /\ UNCHANGED <<inc, pool, user, client, page, cand, sub, clock, faults, lost, overlap>>

-----------------------------------------------------------------------------
(* The writer task: the rows up to the next marker form a batch.           *)

writer_takes(i) ==
    LET s == inc[i]
        n == IF \E j \in DOMAIN s.q : s.q[j] \notin EventRows
             THEN Min({j \in DOMAIN s.q : s.q[j] \notin EventRows}) - 1 ELSE Len(s.q)
    IN  /\ s.w = "on" /\ s.then = "loop" /\ s.batch = <<>> /\ s.q # <<>>
        /\ inc' = [inc EXCEPT ![i].batch = SubSeq(s.q, 1, n),
                              ![i].then  = IF n < Len(s.q) THEN s.q[n + 1].mark ELSE "commit",
                              ![i].q     = SubSeq(s.q, n + 2, Len(s.q))]
        /\ UNCHANGED <<log, client, clock, acc, lost, world>>

(* What the writer does after a batch: go on, resolve the barrier of a     *)
(* history request, drain the rows left after the stop marker, or end.     *)
AfterBatch(s) ==
    CASE s.then = "stop"    -> [s EXCEPT !.batch = s.q, !.q = <<>>, !.then = "drained"]
      [] s.then = "drained" -> [s EXCEPT !.batch = <<>>, !.then = "loop", !.w = "ended"]
      [] OTHER              -> [s EXCEPT !.batch = <<>>, !.then = "loop"]

(* TimelineLogWriter._flush: the upsert commits, or fails and is only      *)
(* logged.                                                                 *)
WriteRows(q) ==
    \/ log' = Upsert(log, Collapse(q)) /\ UNCHANGED <<faults, lost>>
    \/ /\ RowsOf(q) # {} /\ faults < MaxFaults /\ faults' = faults + 1
       /\ lost' = lost \cup {r.ver : r \in RowsOf(q)} /\ log' = log

writer_flushes(i) ==
    LET s == inc[i] IN
    /\ s.then # "loop" /\ WriteRows(s.batch)
    /\ inc' = [inc EXCEPT ![i] = AfterBatch(s)]
    /\ page' = IF page.pc = "barrier" /\ page.i = i /\ s.then \in {"page", "drained"}
               THEN [page EXCEPT !.pc = "read"] ELSE page
    /\ UNCHANGED <<pool, user, client, cand, sub, direct, clock, acc, overlap>>

-----------------------------------------------------------------------------
(* replay_session_events_page: flush the writer of the pooled object, then *)
(* read a page.                                                            *)

AcceptedBy(s) == {[key |-> r.key, ver |-> r.ver] : r \in Unwritten(s)}

(* Mutant: the page is read without waiting for the writer.                *)
page_flush_skipped ==
    /\ page.pc = "off" /\ Open < MaxOpen /\ cand.pc = "none"
    /\ page' = [pc |-> "read", i |-> pool, want |-> IF pool = 0 THEN {} ELSE AcceptedBy(inc[pool])]
    /\ UNCHANGED <<inc, pool, log, user, client, cand, sub, direct, clock, faults, acc, lost, overlap>>

page_flush ==
    /\ page.pc = "off" /\ Open < MaxOpen /\ cand.pc = "none"
    /\ LET i == pool
           s == inc[i]
       IN IF i = 0 \/ ~s.loaded
          THEN page' = [page EXCEPT !.pc = "read"] /\ inc' = inc
          ELSE /\ page' = [pc |-> IF s.w # "on" THEN "self" ELSE IF s.stop THEN "await" ELSE "barrier",
                           i |-> i, want |-> AcceptedBy(s)]
               /\ inc' = IF s.w = "on" /\ ~s.stop
                         THEN [inc EXCEPT ![i].q = Append(@, [mark |-> "page"])] ELSE inc
    /\ UNCHANGED <<pool, log, user, client, cand, sub, direct, clock, faults, acc, lost, overlap>>

(* The writer was being stopped: wait for its task; or there is none: the  *)
(* request drains the queue itself.  Neither happens unless two objects    *)
(* overlapped (lemma PageWaitsNever).                                      *)
page_waits ==
    /\ \/ page.pc = "await" /\ inc[page.i].w # "on" /\ UNCHANGED <<inc, log, faults, lost>>
       \/ /\ page.pc = "self" /\ WriteRows(inc[page.i].q)
          /\ inc' = [inc EXCEPT ![page.i].q = <<>>]
    /\ page' = [page EXCEPT !.pc = "read"]
    /\ UNCHANGED <<pool, user, client, cand, sub, direct, clock, acc, overlap>>

page_reads ==
    /\ page.pc = "read"
    /\ page' = [page EXCEPT !.pc = "done", !.i = 0, !.want = {a \in @ : ~Stored(log, a)}]
    /\ UNCHANGED <<inc, pool, log, user, client, cand, sub, direct, clock, faults, acc, lost, overlap>>

page_done ==
    /\ page.pc = "done" /\ page' = NoPage
    /\ UNCHANGED <<inc, pool, log, user, client, cand, sub, direct, clock, faults, acc, lost, overlap>>

-----------------------------------------------------------------------------
(* A websocket: subscribe through the pool, disconnect.                    *)

client_gets(i) ==
    /\ client.pc = "off" /\ Open < MaxOpen /\ GetOrCreate(i)
    /\ client' = [client EXCEPT !.pc = "got", !.i = i]
    /\ UNCHANGED <<log, user, page, sub, direct, clock, faults, acc, lost, overlap>>

subscribe ==
    /\ client.pc = "got" /\ client' = [client EXCEPT !.pc = "on"]
    /\ UNCHANGED <<inc, log, clock, acc, lost, world>>

unsubscribe ==
    /\ client.pc = "on" /\ client' = NoClient
    /\ UNCHANGED <<inc, log, clock, acc, lost, world>>

-----------------------------------------------------------------------------
(* Eviction: pick an idle object that nobody watches, ask for outstanding  *)
(* notifications, then check again under the lock and take it out.         *)

Idle(i) == ~inc[i].running /\ ~(client.pc = "on" /\ client.i = i)

(* Those who got object i from the pool and have not used it yet.          *)
Holders(i) == {h \in {"user", "client"} :
                 \/ h = "user" /\ user.pc # "idle" /\ user.i = i
                 \/ h = "client" /\ client.pc # "off" /\ client.i = i}

evict_pick ==
    /\ cand.pc = "none" /\ pool # 0 /\ Idle(pool)
    /\ cand' = [pc |-> "picked", i |-> pool, touched |-> FALSE, held |-> Holders(pool)]
    /\ UNCHANGED <<inc, pool, log, user, client, page, sub, direct, clock, faults, acc, lost, overlap>>

evict_query ==
    /\ cand.pc = "picked"
    /\ cand' = IF Idle(cand.i) /\ ~cand.touched /\ sub = "none"
               THEN [cand EXCEPT !.pc = "queried"] ELSE NoCandidate
    /\ UNCHANGED <<inc, pool, log, user, client, page, sub, direct, clock, faults, acc, lost, overlap>>

(* session.close up to its first await: subscribers are closed, the writer *)
(* is told to stop.                                                        *)
CloseBegins(i) ==
    /\ inc' = [inc EXCEPT ![i].st = "closing", ![i].stop = TRUE, ![i].was = inc[i].w,
                          ![i].running = FALSE,
                          ![i].q = IF inc[i].w = "on" THEN Append(@, [mark |-> "stop"]) ELSE @]
    /\ client' = IF client.pc = "on" /\ client.i = i THEN NoClient ELSE client

(* Mutant: the object is taken out without the second look.                *)
evict_claim_unchecked ==
    /\ cand.pc = "queried" /\ cand' = NoCandidate
    /\ IF cand.i = pool THEN pool' = 0 /\ CloseBegins(cand.i) ELSE UNCHANGED <<pool, inc, client>>
    /\ UNCHANGED <<log, user, page, sub, direct, clock, faults, acc, lost, overlap>>

evict_claim ==
    /\ cand.pc = "queried" /\ cand' = NoCandidate
    /\ IF cand.i = pool /\ Idle(cand.i) /\ ~cand.touched
       THEN pool' = 0 /\ CloseBegins(cand.i) ELSE UNCHANGED <<pool, inc, client>>
    /\ UNCHANGED <<log, user, page, sub, direct, clock, faults, acc, lost, overlap>>

(* Mutant: the object is closed without waiting for its writer.            *)
close_ends_at_once(i) ==
    /\ inc[i].st = "closing"
    /\ inc' = [inc EXCEPT ![i].st = "closed", ![i].loaded = FALSE, ![i].q = <<>>,
                          ![i].w = "off", ![i].was = "off", ![i].batch = <<>>, ![i].then = "loop"]
    /\ UNCHANGED <<log, pool, user, client, page, cand, sub, direct, clock, faults, acc, lost, overlap>>

(* The writer's task has ended: what is left is written, the object is     *)
(* closed.                                                                 *)
close_ends(i) ==
    LET s == inc[i] IN
    /\ s.st = "closing" /\ (s.was = "on" => s.w # "on")
    /\ WriteRows(s.q)
    /\ inc' = [inc EXCEPT ![i].st = "closed", ![i].loaded = FALSE, ![i].q = <<>>,
                          ![i].w = IF @ = "on" THEN @ ELSE "off", ![i].was = "off"]
    /\ page' = IF page.i = i /\ page.pc = "barrier" THEN [page EXCEPT !.pc = "read"] ELSE page
    /\ UNCHANGED <<pool, user, client, cand, sub, direct, clock, acc, overlap>>

(* pool.stop when the configuration is saved: the pool is emptied first,   *)
(* then the session is shut down, its driver and subagents canceled; the   *)
(* status of a canceled subagent finds no pooled session.  The code awaits *)
(* between these steps (session.py:213-247, 718-723); here they are one,   *)
(* and only the drain of the writer comes later (close_ends).              *)
pool_stop ==
    /\ pool # 0 /\ pool' = 0 /\ direct.pc = "none"
    /\ (sub = "running" => clock < MaxEvents)
    /\ CloseBegins(pool)
    /\ IF sub = "running"
       THEN /\ clock' = clock + 1
            /\ direct' = [direct EXCEPT !.pc = "read", !.ver = clock']
       ELSE UNCHANGED <<clock, direct>>
    /\ sub' = "none"
    /\ UNCHANGED <<log, user, page, cand, faults, acc, lost, overlap>>

(* The process dies.  The startup fails a running subagent task before it  *)
(* serves anything.                                                        *)
crash ==
    /\ faults < MaxFaults /\ faults' = faults + 1
    /\ (sub = "running" => clock < MaxEvents)
    /\ inc' = [i \in Incs |-> IF inc[i].st = "none" THEN inc[i]
                              ELSE [NoSession EXCEPT !.st = "closed"]]
    /\ lost' = lost \cup UNION {{r.ver : r \in Unwritten(inc[i])} : i \in Incs}
    /\ LET n == IF \E r \in log : r.key = <<"sa", 0>>
                THEN (CHOOSE r \in log : r.key = <<"sa", 0>>).seq ELSE MaxSeq(log) + 1
       IN IF sub = "running"
          THEN /\ clock' = clock + 1
               /\ log' = Upsert(log, {[key |-> <<"sa", 0>>, seq |-> n, ver |-> clock']})
               /\ acc' = Accept(<<"sa", 0>>, clock')
          ELSE UNCHANGED <<clock, log, acc>>
    /\ pool' = 0 /\ sub' = "none"
    /\ user' = NoUser /\ client' = NoClient /\ page' = NoPage
    /\ cand' = NoCandidate /\ direct' = NoDirect
    /\ UNCHANGED overlap

Next ==
    \/ \E i \in Incs :
          \/ get_or_create(i) \/ client_gets(i) \/ turn_publishes(i) \/ turn_ends(i)
          \/ writer_takes(i) \/ writer_flushes(i) \/ close_ends(i)
    \/ load_timeline_head \/ start_turn
    \/ subagent_ends \/ unpooled_select \/ unpooled_insert
    \/ page_flush \/ page_waits \/ page_reads \/ page_done
    \/ subscribe \/ unsubscribe
    \/ evict_pick \/ evict_query \/ evict_claim \/ pool_stop \/ crash

Spec == Init /\ [][Next]_vars

-----------------------------------------------------------------------------
(* The state is well typed: the objects' counters and queues, the rows of  *)
(* the log (one per item_key), and the steps the requests are in.          *)
TypeOK ==
    /\ pool \in {0} \cup Incs /\ clock \in 0 .. MaxEvents /\ faults \in 0 .. MaxFaults
    /\ log \subseteq EventRows /\ \A r, o \in log : r.key = o.key => r = o
    /\ \A i \in Incs : /\ inc[i].st \in {"none", "open", "closing", "closed"}
                       /\ inc[i].seq \in Seqs /\ inc[i].keys \in [Keyed -> Seqs]
                       /\ inc[i].w \in {"off", "on", "ended"}
                       /\ inc[i].then \in {"loop", "commit", "page", "stop", "drained"}
                       /\ \A r \in Unwritten(inc[i]) : r \in EventRows
    /\ user.pc \in {"idle", "got", "head"} /\ client.pc \in {"off", "got", "on"}
    /\ page.pc \in {"off", "barrier", "await", "self", "read", "done"}
    /\ cand.pc \in {"none", "picked", "queried"} /\ sub \in {"none", "running", "ended"}
    /\ direct.pc \in {"none", "read", "write"} /\ overlap \in BOOLEAN

(* Nothing the writer accepted is lost or overtaken by an older version:   *)
(* it is in the log, or still in a queue, through flushes, evictions and   *)
(* the final drain of a writer that is being stopped.  Excepted are writes *)
(* that failed, crashes, and two overlapping objects of one session.       *)
AcceptedIsKept ==
    overlap \/ \A a \in acc : \/ a.ver \in lost
                              \/ Stored(log, a)
                              \/ \E i \in Incs : Stored(Unwritten(inc[i]), a)

(* Live and stored events share one sequence: as long as two writers never *)
(* overlapped, no two rows have the same number, and what the pooled       *)
(* object remembers of an item is what the log says (load_timeline_head:   *)
(* a re-emitted item keeps its original seq).                              *)
OneSequence ==
    overlap \/ /\ \A r, o \in log : r.seq = o.seq => r = o
               /\ pool # 0 /\ inc[pool].loaded =>
                    \A r \in log : /\ r.seq <= inc[pool].seq
                                   /\ r.key[1] \in Keyed => inc[pool].keys[r.key[1]] = r.seq

(* A history page read after the flush holds everything the pooled session *)
(* had accepted when the page was asked for.                               *)
PageIsComplete ==
    (page.pc = "done" /\ ~overlap) =>
        \A a \in page.want : a.ver \in lost

(* A page starts with a user message or with the oldest rows, holds at     *)
(* least limit rows when there are as many, says truly whether there is    *)
(* more, and the next page (before the first of this one) overlaps it in   *)
(* nothing.                                                                *)
PageIsAligned ==
    overlap \/ \A limit \in 1 .. 2, before \in {r.seq : r \in log} \cup {MaxSeq(log) + 1} :
        LET older == {r \in log : r.seq < before}
            p     == fetch_timeline_page(log, before, limit)
            rest  == older \ p.items
        IN  /\ p.items \subseteq older
            /\ Cardinality(p.items) >= Min({limit, Cardinality(older)})
            /\ p.more <=> rest # {}
            /\ \A r \in p.items, o \in rest : o.seq < r.seq
            /\ \A r \in p.items :
                  \/ r.key[1] = "msg"
                  \/ \E o \in p.items : o.seq < r.seq
                  \/ \A o \in rest : o.key[1] # "msg"

(* Pages and live events agree on one sequence, complete and aligned to    *)
(* the turns (load_timeline_head, flush_timeline, fetch_timeline_page).    *)
PagesAreSound == TypeOK /\ OneSequence /\ PageIsComplete /\ PageIsAligned

(* An eviction awaits the look for outstanding work between choosing an    *)
(* object and taking it (_claim_inactive_evictions).  What came in between *)
(* is spared: it takes no object that a request or a websocket has got     *)
(* since it was chosen and has not used yet, and none whose turn left a    *)
(* subagent task after the look.  Excepted is who held the object already  *)
(* when it was chosen (README, known races), and the turn such a request   *)
(* started.                                                                *)
EvictionSparesHolders ==
    [][evict_claim /\ pool' # pool =>
         /\ Holders(pool) \subseteq cand.held
         /\ sub # "none" => overlap \/ "user" \in cand.held]_vars
=============================================================================
