----------------------------- MODULE LiveStream -----------------------------
(***************************************************************************)
(* One turn of an agent as it is streamed (core/runtime/session.py         *)
(* _execute_turn_with_context, core/task_runtime/interrupt.py,             *)
(* core/runtime/streaming.py, events.py, partial_context.py), the          *)
(* projection kept for clients that reconnect (live_projection.py) and a   *)
(* subscribed client.                                                      *)
(*                                                                         *)
(* iter_interruptible_events waits for the next event of the SDK and for a *)
(* notification at once.  Publishing does not give up the event loop: an   *)
(* event is taken, tracked, published and delivered in one step.           *)
(*   it     the iterator: event task e, signal task s, whether the event   *)
(*          was there when the signal woke it, unanswered calls, deferred  *)
(*   norm   SdkStreamEventNormalizer: the response, its segments           *)
(*   buf    the delta buffers: segment -> [n, complete]                    *)
(*   live   LiveEventProjection: the events and their index                *)
(*   cli    a websocket: its queue, and what it has been shown             *)
(*   pend   a notification for the agent is pending                        *)
(*   sdk    external: the tool calls under way, the events so far          *)
(* An event is [k, st, n]: its key, open (a delta), complete or plain, and *)
(* how much text it carries.                                               *)
(***************************************************************************)
EXTENDS Naturals, FiniteSets, Sequences

CONSTANTS Kinds,       \* kinds of segments: text, thinking
          Calls,       \* tool calls of a turn
          MaxRaw,      \* bound on the SDK events of a turn, but for outputs
          MaxTurns,    \* bound on turns
          Rebase       \* _SUBSCRIBER_REBASE_THRESHOLD

ASSUME StreamAssumption ==
  IsFiniteSet(Calls) /\ MaxRaw \in Nat /\ MaxTurns \in Nat /\ Rebase \in Nat

VARIABLES it, norm, buf, live, cli, pend, sdk, turnNo

liveVars == <<it, norm, buf, live, cli, pend, sdk, turnNo>>

Ev(k, st, n) == [k |-> k, st |-> st, n |-> n]
Run     == Ev(<<"run", 1>>, "plain", 0)
Idle    == Ev(<<"run", 0>>, "plain", 0)
Done    == Ev(<<"done">>, "plain", 0)
Error   == Ev(<<"error">>, "plain", 0)
IsRun(e) == e.k[1] = "run"
Keyed   == {"seg", "call", "result", "task"}
Nothing == Ev(<<"none">>, "plain", 0)
Stop    == Ev(<<"stop">>, "plain", 0)      \* StopAsyncIteration
Timeout == Ev(<<"timeout">>, "plain", 0)   \* StreamIdleTimeout
Failure == Ev(<<"failure">>, "plain", 0)   \* any other exception of the stream

-----------------------------------------------------------------------------
(* SdkStreamEventNormalizer; a segment key is the response and the kind. *)

NoNorm == [resp |-> 0, open |-> FALSE, next |-> 1, segs |-> <<>>]

BeginResponse(nm) == [nm EXCEPT !.resp = @ + 1, !.open = TRUE]
Responding(nm)    == IF nm.open THEN nm ELSE BeginResponse(nm)

With(f, k, v) == [x \in DOMAIN f \cup {k} |-> IF x = k THEN v ELSE f[x]]

(* Mutant: a delta that follows a completed segment goes on with it. *)
segment_id_reused(nm, kind, complete) ==
  LET k   == <<nm.resp, kind>>
      new == k \notin DOMAIN nm.segs
      seg == IF new THEN [id |-> nm.next, n |-> 0, complete |-> FALSE] ELSE nm.segs[k] IN
  [nm EXCEPT !.segs = With(@, k, [seg EXCEPT !.complete = @ \/ complete]), !.next = IF new THEN @ + 1 ELSE @]

(* segment_id: a completed segment is not continued. *)
segment_id(nm, kind, complete) ==
  LET k   == <<nm.resp, kind>>
      new == k \notin DOMAIN nm.segs \/ (nm.segs[k].complete /\ ~complete)
      seg == IF new THEN [id |-> nm.next, n |-> 0, complete |-> FALSE] ELSE nm.segs[k] IN
  [nm EXCEPT !.segs = With(@, k, [seg EXCEPT !.complete = @ \/ complete]), !.next = IF new THEN @ + 1 ELSE @]

SegKey(id) == <<"seg", turnNo, id>>

append_delta(nm0, kind) ==
  LET nm == segment_id(Responding(nm0), kind, FALSE)
      k  == <<nm.resp, kind>>
      n  == nm.segs[k].n + 1 IN
  [norm |-> [nm EXCEPT !.segs[k].n = n], ev |-> Ev(SegKey(nm.segs[k].id), "open", n)]

(* The text of the provider: all of it, also when no delta came before. *)
complete_text(nm0, kind) ==
  LET nm == segment_id(Responding(nm0), kind, TRUE)
      k  == <<nm.resp, kind>>
      n  == IF nm.segs[k].n = 0 THEN 1 ELSE nm.segs[k].n IN
  [norm |-> [nm EXCEPT !.segs[k].n = n], ev |-> Ev(SegKey(nm.segs[k].id), "complete", n)]

(* event_from_sdk_stream: what an event of the SDK becomes, if anything. *)
event_from_sdk_stream(nm, raw) ==
  LET item(ev) == [norm |-> [nm EXCEPT !.open = FALSE], ev |-> ev] IN
  CASE raw[1] = "created"   -> [norm |-> BeginResponse(nm), ev |-> Nothing]
    [] raw[1] = "completed" -> item(Nothing)
    [] raw[1] = "delta"     -> append_delta(nm, raw[2])
    [] raw[1] = "textdone"  -> complete_text(nm, raw[2])
    [] raw[1] = "called"    -> item(Ev(<<"call", turnNo, raw[2]>>, "plain", 0))
    [] raw[1] = "output"    -> item(Ev(<<"result", turnNo, raw[2]>>, "plain", 0))
    [] raw[1] = "stop"      -> [norm |-> nm, ev |-> Stop]
    [] OTHER                -> [norm |-> nm, ev |-> Failure]

-----------------------------------------------------------------------------
(* LiveEventProjection: ev, the events, and idx, where to replace them. *)

Indexed(e) == e.k[1] \in Keyed /\ e.st # "complete"

rebuild_indexes(evs) ==
  LET at(k) == {i \in DOMAIN evs : evs[i].k = k /\ Indexed(evs[i])} IN
  [k \in {evs[i].k : i \in {j \in DOMAIN evs : Indexed(evs[j])}} |-> CHOOSE i \in at(k) : \A j \in at(k) : j <= i]

ResetTo(e)  == [ev |-> <<e>>, idx |-> <<>>]

(* Mutant: the index is taken before the event is appended. *)
apply_keyed_off_by_one(l, e) ==
  IF e.k \in DOMAIN l.idx THEN [l EXCEPT !.ev[l.idx[e.k]] = e]
  ELSE [ev |-> Append(l.ev, e), idx |-> With(l.idx, e.k, Len(l.ev))]

(* _apply_segment, _apply_tool_call, _apply_tool_result, _apply_subagent *)
apply_keyed(l, e) ==
  IF e.k \in DOMAIN l.idx THEN [l EXCEPT !.ev[l.idx[e.k]] = e]
  ELSE [ev |-> Append(l.ev, e), idx |-> With(l.idx, e.k, Len(l.ev) + 1)]

apply_segment_complete(l, e) ==
  IF e.k \notin DOMAIN l.idx THEN [l EXCEPT !.ev = Append(@, e)]
  ELSE LET evs == [l.ev EXCEPT ![l.idx[e.k]] = e] IN [ev |-> evs, idx |-> rebuild_indexes(evs)]

(* The events but for the run state. *)
WithoutRun(evs) ==
  LET kept[i \in 0..Len(evs)] == IF i = 0 THEN <<>> ELSE IF IsRun(evs[i]) THEN kept[i-1] ELSE Append(kept[i-1], evs[i])
  IN kept[Len(evs)]

apply_run_state(l, e) ==
  LET evs == <<e>> \o WithoutRun(l.ev) IN [ev |-> evs, idx |-> rebuild_indexes(evs)]

apply(l, e) ==
  CASE IsRun(e)                                          -> apply_run_state(l, e)
    [] e.k[1] = "seg" /\ e.st = "complete"               -> apply_segment_complete(l, e)
    [] e.k[1] \in Keyed /\ e.st # "complete"             -> apply_keyed(l, e)
    [] OTHER                                             -> [l EXCEPT !.ev = Append(@, e)]

-----------------------------------------------------------------------------
(* Subscribers. *)

(* Mutant: a full queue is emptied and goes on with the event. *)
enqueue_or_rebase_drops(c, l, e) ==
  IF ~c.on THEN c
  ELSE IF Len(c.q) < Rebase THEN [c EXCEPT !.q = Append(@, e)]
  ELSE [c EXCEPT !.q = <<e>>]

(* _enqueue_or_rebase: a queue that is too long becomes the projection. *)
enqueue_or_rebase(c, l, e) ==
  IF ~c.on THEN c
  ELSE IF Len(c.q) < Rebase THEN [c EXCEPT !.q = Append(@, e)]
  ELSE [c EXCEPT !.q = IF e # Idle THEN l.ev ELSE Append(WithoutRun(l.ev), e)]

(* publish_external, for each event of a sequence. *)
Step(at, e) == LET l == apply(at.live, e) IN [live |-> l, cli |-> enqueue_or_rebase(at.cli, l, e)]

publish(evs) ==
  LET at[i \in 0..Len(evs)] == IF i = 0 THEN [live |-> live, cli |-> cli] ELSE Step(at[i-1], evs[i])
  IN live' = at[Len(evs)].live /\ cli' = at[Len(evs)].cli

-----------------------------------------------------------------------------
(* partial_context.py *)

track_delta(b, e) ==
  IF e.k[1] # "seg" THEN b ELSE With(b, e.k, [n |-> e.n, complete |-> e.st = "complete" \/ (e.k \in DOMAIN b /\ b[e.k].complete)])

(* Mutant: segments that were cut off are not closed. *)
incomplete_segment_events_none(b) == {<<>>}

(* incomplete_segment_events, in the order in which they were opened: the  *)
(* one sequence of them.                                                   *)
incomplete_segment_events(b) ==
  LET open == {k \in DOMAIN b : b[k].n > 0 /\ ~b[k].complete}
      all  == 1..Cardinality(open) IN
  {[i \in all |-> Ev(ks[i], "complete", b[ks[i]].n)] :
     ks \in {x \in [all -> open] : \A i, j \in all : i < j => x[i][3] < x[j][3]}}

-----------------------------------------------------------------------------
NoIt == [pc |-> "ended", how |-> "none", e |-> Nothing, s |-> FALSE, early |-> FALSE, calls |-> 0, deferred |-> FALSE]

LiveInit ==
  /\ it = NoIt /\ norm = NoNorm /\ buf = <<>> /\ pend = FALSE /\ turnNo = 0
  /\ live = ResetTo(Idle)
  /\ cli = [on |-> FALSE, q |-> <<>>, seen |-> <<>>]
  /\ sdk = [calls |-> {}, was |-> {}, raw |-> 0]

Shown(k) == {i \in DOMAIN live.ev : live.ev[i].k = k}
Active  == it.pc \in {"enter", "wait", "query"}
Streams == it.pc \in {"wait", "query"}
Waiting == Streams /\ it.e = Nothing          \* the event task is not done

(* The run starts (_publish_run_state): the projection starts over; the    *)
(* turn begins and the agent takes its notification.                       *)
turn_starts ==
  /\ it.pc = "ended" /\ turnNo < MaxTurns
  /\ turnNo' = turnNo + 1
  /\ it' = [NoIt EXCEPT !.pc = "enter"]
  /\ norm' = NoNorm /\ buf' = <<>> /\ pend' = FALSE
  /\ sdk' = [calls |-> {}, was |-> {}, raw |-> 0]
  /\ live' = ResetTo(Run)
  /\ cli' = enqueue_or_rebase(cli, ResetTo(Run), Run)

(* _publish_run_state(False): told to the clients, then all is history. *)
run_idles ==
  LET l == apply(live, Idle) IN
  /\ it.pc = "ended" /\ live.ev[1] = Run
  /\ cli' = enqueue_or_rebase(cli, l, Idle)
  /\ live' = ResetTo(Idle)
  /\ it' = [it EXCEPT !.how = "none"]
  /\ UNCHANGED <<norm, buf, pend, sdk, turnNo>>

(* What the SDK may send next: external.  A text is done once. *)
IsDone(kind) == norm.open /\ \E k \in DOMAIN norm.segs : k = <<norm.resp, kind>> /\ norm.segs[k].complete

RawNext ==
  {<<"stop">>, <<"failure">>} \cup {<<"output", c>> : c \in sdk.calls}
  \cup IF sdk.raw >= MaxRaw THEN {}
       ELSE {<<"created">>, <<"completed">>}
            \cup {<<"delta", k>> : k \in Kinds} \cup {<<"textdone", k>> : k \in {x \in Kinds : ~IsDone(x)}}
            \cup {<<"called", c>> : c \in Calls \ sdk.was}

(* iter_normalized_stream_events: the event task takes an SDK event. *)
stream_sends(raw) ==
  LET r == event_from_sdk_stream(norm, raw) IN
  /\ Waiting
  /\ sdk.calls # {} => raw[1] # "stop"
  /\ norm' = r.norm
  /\ it' = [it EXCEPT !.e = r.ev]
  /\ sdk' = [calls |-> CASE raw[1] = "called" -> sdk.calls \cup {raw[2]}
                         [] raw[1] = "output" -> sdk.calls \ {raw[2]}
                         [] OTHER             -> sdk.calls,
             was |-> IF raw[1] = "called" THEN sdk.was \cup {raw[2]} ELSE sdk.was,
             raw |-> IF sdk.raw < MaxRaw THEN sdk.raw + 1 ELSE sdk.raw]
  /\ UNCHANGED <<buf, live, cli, pend, turnNo>>

stream_idles ==
  /\ Waiting
  /\ it' = [it EXCEPT !.e = Timeout]
  /\ UNCHANGED <<norm, buf, live, cli, pend, sdk, turnNo>>

(* The signal task ends: a notification, or _SIGNAL_POLL_SECONDS. *)
signal_completes ==
  /\ Streams /\ ~it.s
  /\ it' = [it EXCEPT !.s = TRUE]
  /\ UNCHANGED <<norm, buf, live, cli, pend, sdk, turnNo>>

notification_arrives ==
  /\ Active /\ ~pend
  /\ pend' = TRUE
  /\ UNCHANGED <<it, norm, buf, live, cli, sdk, turnNo>>

(* The turn ends and says so, after the events of first and of one of last.*)
StreamEnds(how, first, last) ==
  /\ it' = [NoIt EXCEPT !.how = how]
  /\ \E evs \in last : publish(first \o evs \o <<Done>>)
  /\ buf' = <<>>

(* _finalize_interrupted_turn *)
finalize_interrupted_turn(how) == StreamEnds(how, <<>>, incomplete_segment_events(buf))

(* Mutant: a pending notification ends the turn whatever the tools do. *)
SafePoint_any(calls) == TRUE

SafePoint(calls) == calls = 0

CountCalls(n, e) ==
  CASE e.k[1] = "call"              -> n + 1
    [] e.k[1] = "result" /\ n > 0   -> n - 1
    [] OTHER                        -> n

(* Mutant: a deferred interruption waits for the next signal. *)
Deferred_forgotten == FALSE

Deferred == it.deferred

(* The event task is done: its event is published, and the turn goes on    *)
(* unless it is over or was to be interrupted at the first safe point.     *)
(* signaled: has_pending_notification was asked and said yes.              *)
takes_event(asked, signaled) ==
  LET e     == it.e
      calls == CountCalls(it.calls, e)
      cut   == SafePoint(calls) /\ (Deferred \/ signaled) IN
  CASE e = Stop                -> StreamEnds("done", <<>>, incomplete_segment_events(buf))
    [] e \in {Timeout, Failure} -> StreamEnds("failed", <<Error>>, {<<>>})
    [] OTHER ->
         IF cut
         THEN StreamEnds("interrupted", <<e>>, incomplete_segment_events(track_delta(buf, e)))
         ELSE /\ it' = [it EXCEPT !.pc = "wait", !.e = Nothing, !.calls = calls, !.early = FALSE,
                                  !.deferred = @ \/ signaled, !.s = IF asked THEN FALSE ELSE @]
              /\ publish(<<e>>)
              /\ buf' = track_delta(buf, e)

(* The check before the first event. *)
iteration_begins ==
  /\ it.pc = "enter"
  /\ IF pend THEN finalize_interrupted_turn("interrupted")
     ELSE it' = [it EXCEPT !.pc = "wait"] /\ UNCHANGED <<live, cli, buf>>
  /\ UNCHANGED <<norm, pend, sdk, turnNo>>

wakes_by_event ==
  /\ it.pc = "wait" /\ it.e # Nothing /\ ~it.s
  /\ takes_event(FALSE, FALSE)
  /\ UNCHANGED <<norm, pend, sdk, turnNo>>

(* The signal is done: the table is asked, which lets the stream go on. *)
wakes_by_signal ==
  /\ it.pc = "wait" /\ it.s
  /\ it' = [it EXCEPT !.pc = "query", !.early = (it.e # Nothing)]
  /\ UNCHANGED <<norm, buf, live, cli, pend, sdk, turnNo>>

query_returns ==
  /\ it.pc = "query"
  /\ IF it.early THEN takes_event(TRUE, pend)
     ELSE IF pend /\ SafePoint(it.calls) THEN finalize_interrupted_turn("interrupted")
     ELSE /\ it' = [it EXCEPT !.pc = "wait", !.s = FALSE, !.deferred = @ \/ pend]
          /\ UNCHANGED <<live, cli, buf>>
  /\ UNCHANGED <<norm, pend, sdk, turnNo>>

(* The user stops the session: CancelledError at any await. *)
turn_canceled ==
  /\ Active
  /\ finalize_interrupted_turn("canceled")
  /\ UNCHANGED <<norm, pend, sdk, turnNo>>

(* Another driver publishes a subagent task while this one awaits (it     *)
(* touches nothing that this one reads: one await stands for all).         *)
task_published ==
  /\ it.pc = "query" /\ Shown(<<"task", turnNo, 1>>) = {}
  /\ publish(<<Ev(<<"task", turnNo, 1>>, "plain", 1)>>)
  /\ UNCHANGED <<it, norm, buf, pend, sdk, turnNo>>

subscribe ==
  /\ ~cli.on
  /\ cli' = [on |-> TRUE, q |-> live.ev, seen |-> <<>>]
  /\ UNCHANGED <<it, norm, buf, live, pend, sdk, turnNo>>

(* _forward_events: the client applies what it gets by key. *)
client_reads ==
  /\ cli.on /\ cli.q # <<>>
  /\ cli' = [cli EXCEPT !.q = Tail(@),
                        !.seen = IF cli.q[1].k[1] \in Keyed THEN With(@, cli.q[1].k, cli.q[1]) ELSE @]
  /\ UNCHANGED <<it, norm, buf, live, pend, sdk, turnNo>>

LiveNext ==
  \/ turn_starts \/ run_idles \/ stream_idles \/ signal_completes \/ notification_arrives
  \/ \E raw \in RawNext : stream_sends(raw)
  \/ iteration_begins \/ wakes_by_event \/ wakes_by_signal \/ query_returns \/ turn_canceled
  \/ task_published
  \/ subscribe \/ client_reads

LiveSpec == LiveInit /\ [][LiveNext]_liveVars

-----------------------------------------------------------------------------
(* The types; the index points at events of its keys. *)
LiveTypeOK ==
  /\ it.pc \in {"ended", "enter", "wait", "query"} /\ it.calls \in 0..Cardinality(Calls)
  /\ \A k \in DOMAIN live.idx : live.idx[k] \in DOMAIN live.ev /\ live.ev[live.idx[k]].k = k
  /\ turnNo \in 0..MaxTurns /\ sdk.calls \subseteq sdk.was

(* A client that reconnects is shown every segment, call, result and task  *)
(* once, although the run state moves to the front and events of another   *)
(* driver come in between (LiveEventProjection).                           *)
ShownOnce == \A k \in {live.ev[i].k : i \in DOMAIN live.ev} : k[1] \in Keyed => Cardinality(Shown(k)) = 1

(* A turn that came to its end, or was broken off for a notification or by *)
(* the user, leaves no segment half open on the screen, and each carries   *)
(* all the text that was streamed (incomplete_segment_events,              *)
(* _finalize_interrupted_turn).  A stream that failed does leave one.      *)
EndedIsClosed ==
  it.how \in {"done", "interrupted", "canceled"} =>
    \A i \in DOMAIN live.ev : live.ev[i].k[1] = "seg" =>
      /\ live.ev[i].st = "complete"
      /\ \A s \in DOMAIN norm.segs : SegKey(norm.segs[s].id) = live.ev[i].k /\ norm.segs[s].n # 0 =>
           live.ev[i].n = norm.segs[s].n \/ it.how # "done"

(* A notification never cuts off a tool whose call has been shown: its     *)
(* result is shown first (iter_interruptible_events).                      *)
ShownCallIsAnswered ==
  it.how = "interrupted" =>
    \A c \in Calls : Shown(<<"call", turnNo, c>>) # {} => Shown(<<"result", turnNo, c>>) # {}

(* Once a client has read its queue it has been shown the latest of        *)
(* everything in the projection, also when the queue was replaced because  *)
(* it had grown too long (subscribe, _enqueue_or_rebase).                  *)
ClientCatchesUp ==
  cli.on /\ cli.q = <<>> =>
    \A i \in DOMAIN live.ev : live.ev[i].k[1] \in Keyed =>
      live.ev[i].k \in DOMAIN cli.seen /\ cli.seen[live.ev[i].k] = live.ev[i]

(* An interruption that was put off is waiting for a tool: with the last   *)
(* result the turn ends, nothing more is streamed (iter_interruptible_     *)
(* events: "raise at the first safe point").                               *)
DeferredAwaitsTool == it.deferred => it.calls > 0

(* A client is shown everything once and catches up, although it           *)
(* reconnects, falls behind or another driver publishes in between         *)
(* (LiveEventProjection, subscribe, _enqueue_or_rebase).                   *)
ClientSees == ShownOnce /\ ClientCatchesUp

(* A turn ends cleanly however it ends: no segment half open, no shown     *)
(* call unanswered by an interruption, and an interruption put off only    *)
(* while a tool runs (interrupt.py, partial_context.py, session.py).       *)
TurnIsClosed == EndedIsClosed /\ ShownCallIsAnswered /\ DeferredAwaitsTool
=============================================================================
