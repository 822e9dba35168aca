# Verification of the agent runtime

TLA+ models of the core of this repository (the agent runtime behind the
FastAPI application, its permission gate and its approval store), checked with
TLC on small instances and, where a theorem is listed, proved with TLAPS for
every value of the constants. Paths below are relative to the repository; a
definition keeps the name of the function it models where it can, and
`PROJECT.json` (`map`) gives the lines.

## 1. The system

One Python process serves the API; almost everything runs on one asyncio loop,
on top of SQLite in WAL mode. A user talks to an agent in a *session*. The
session's *driver* task runs a turn, then drains the *notifications* addressed
to the agent: results of background work (sandbox commands, subagents) and
messages the user sent meanwhile. Delegation does not block: a driver ends as
soon as nothing is ready, and whoever finishes background work starts a new
one. Liveness of a session is kept twice: in memory (`_current_task`) and in
the database (`is_running`), which is what a restart goes by.

| Component | State | Operations | Hard because |
| --- | --- | --- | --- |
| Notification store `service/agent/notifications.py` | rows with status, priority, `started_at` | add and resolve obligation, enqueue message, claim (compare-and-set), complete, fail, release, bulk cancel, reset at boot | a bulk cancel selects and writes in two steps |
| Session driver `core/runtime/session.py`, `core/task_runtime/executor.py` | `_current_task`, `_start_lock`, `_turn_lock`, relaunch budget, `is_running`, last published run state | start turn, recover, drive, reconcile, relaunch, interrupt, cancel all, wind down | checks before an await and acts after it; tasks canceled at any await |
| Background commands `core/sandbox/command_jobs.py`, `service/sandbox/async_jobs.py` | registry of tasks, job rows, obligations | start, finish, cancel one, cancel a session's, wake the owner | results race with stops and with the owner's driver |
| Startup recovery `service/agent/recovery.py`, `app.py` | none of its own | fail stale jobs, reset claimed rows, restart drivers | sees only what was committed |
| Runtime permissions `service/runtime_permissions.py` | mode, rules file, pending requests | ask, decide, expire, switch mode, clear rules | signal and wake-up are apart; one handler runs in a thread |
| Instance configuration `service/system_config/config.py` | `config.json`, configuration in memory | read and re-apply, save, roll back | file and memory are written apart |
| Approvals `service/approval.py`, `core/approval_gate.py` | one JSON file per action, signed tokens | create, grant, reject, consume | threads without a lock |
| Subagent tree `core/delegation/subagents.py`, `service/agent/subordinates.py` | drivers per instance, task rows, obligations | start, go dormant, resume, relaunch, complete, fail, cancel a subtree or all, startup | a tree of drivers waking and canceling one another |
| Session pool and timeline `core/runtime/session.py`, `timeline.py`, `service/agent/event_log.py` | session objects with last use, event sequence, writer task, log rows | get or create, load, stamp, publish, write, page, evict, close | eviction against use; two writers of one sequence |
| Interruptible streaming `core/task_runtime/interrupt.py`, `core/runtime/streaming.py`, `live_projection.py` | open calls, segments, delta buffers, projection, subscriber queues | normalise, preempt between tool calls, end a turn in five ways, subscribe, rebase | a signal and an event at once; what a broken-off turn leaves |
| Conversation and compaction `core/conversation/`, `core/agent/model_input.py` | items, summaries | append, project, compact, cut to the budget, pair calls | boundaries that cut transactions; agents that append meanwhile |
| Policy engine, execution guard `core/policy_engine.py`, `core/execution_guard.py`, `core/tools/` | rules, scope, host row | evaluate, ask, act | what was authorized is used later |
| Knowledge runtime `service/knowledge/`, `core/lightrag/runtime.py` | document status, source files, LightRAG instance | upload, process, delete, recover, restart | files, table and queue change apart |
| Execution workspaces `service/sandbox/lifecycle.py`, `service/agent/runtime.py` | workspace, session and project rows | create, start, pause, stop, delete, bind, cancel, delete session or project | bindings go stale; SQLite ids come back |
| Workspace files, tool runs `service/sandbox/files.py`, `remote_files.py`, `service/toolpack.py`, `commands.py` | files, backups, run snapshots, tasks, processes | write, upload, rename, delete; start, time out, cancel | several SFTP operations for one request; process and task apart |
| Sockets `handler/host/hosts.py`, `handler/sandbox/containers.py`, `service/*/shell.py`, `novnc.py` | pumps, shell, connection | open, pump both ways, keep alive, close | either end first, errors anywhere |
| Work projects `service/work_project/`, `core/tools/work_project.py` | assets, edges, paths, steps, findings | create, update, delete, CVE import, metadata | reads are outside the writing transaction |
| CVE discovery `service/work_project/cve.py` | cached catalogue | look up, match versions, enrich, import | bounds, cache age |
| Hosts, images, users, proxies `service/host/`, `service/sandbox/images.py`, `service/system_user/`, `service/egress_proxy/` | rows, known_hosts | create, delete, trust a key, check a proxy | check and commit apart; an address edited in between |
| Agent definitions, reports, control proxy, web client, desktop shell | prompts; rows; sidecar process | build; insert; start and stop | not modelled, see section 5 |

What makes each modelled component correct is what its properties say (section
3); the hazards they answer are listed in `PROJECT.json`, at their lines.

## 2. Modules

| Module | Models |
| --- | --- |
| `NotificationRows` | one row, the queries, and what each statement does to a row |
| `NotificationTable` | the store: every statement as an action; the abstract specification |
| `AgentSession` | one session: drivers, commands, user requests, restarts; implements `NotificationTable` |
| `SubagentTree` | the runs below a session's main agent, on `NotificationRows` |
| `Timeline` | the pool's objects of one session, the event log and its pages |
| `ModelInput`, `Conversation` | from stored items to what a model is given, as functions; turns of several agents that append and compact |
| `LiveStream` | one turn from the SDK's events to what a client has been shown |
| `RuntimePermissions` | the permission gate with the part of the instance configuration that sets its mode |
| `Approvals` | the approval store |
| `GuardedTools` | the tools that reach out, the guard and the policy |
| `LightRAGGate`, `Knowledge` | replacing the LightRAG instance under its users; the documents and their sources |
| `Workspaces` | which workspace a turn gets, while workspaces, projects and sessions change |
| `WorkspaceFiles`, `ToolRuns`, `WorkspaceIO` | a file of a workspace; tool runs and their processes; the two together |
| `Sockets` | the WebSocket handlers |
| `ProjectRecords` | the records of a work project |
| `CveDiscovery` | CVE look-up, version matching, the cached catalogue |
| `Inventory`, `HostKeys`, `ProxyCheck` | rows that refer to each other; trusting an SSH key; testing a proxy |
| `RuntimePermissionsProofs`, `TimelineProofs`, `SubagentTreeProofs`, `KnowledgeProofs` | theorems of the module they are named for (and `LightRAGGate`) |
| `TurnProofs` | theorems of `ModelInput`, `Conversation` and `LiveStream` |
| `TablesProofs` | theorems of `NotificationTable` and of `ProjectRecords`, a section each |
| `AgentSessionProofs` | theorems of `AgentSession`: who holds what; wake-ups, rest, and the store it implements |
| `ServicesProofs` | theorems of the ten parts of `MCServices` and of the parts side by side |
| `MC...` | model values, symmetry, and which parts a run puts side by side |

**Parts side by side.** `MCTables`, `MCServices`, `MCTurn` and `MCTreeAndTimeline` each hold
several modules that share no modelled state. A variable `part` is chosen at the
start and only that part moves, so such a run explores the sum, not the product,
of its parts, and each property is about one of them. Where parts do interact
they are one module: a session on the notification store (`AgentSession`,
`SubagentTree`), the documents inside the LightRAG gate (`Knowledge`), a
conversation and its projection (`Conversation`).

Definitions whose comment says *mutant* are plausible bugs, placed before the
definition they would replace. No specification uses them; each shows that a
property notices that bug.

### AgentSession

A step is what a task does between two awaits that can suspend it; a database
call is the step that commits it. Every task is a process with a program
counter (`pc`):

* a *driver* goes `launch` -> (`turn0`) -> `claim` -> `cas` -> `turn` ->
  `complete`/`preempted`/`failed` -> `claim` ..., and at the end `recon` (look
  again under `_start_lock`), then either a relaunched driver takes over, or it
  winds down: `stopcheck`, `stopwrite` (`_mark_session_stopped`), `idle`,
  `idleread`, `idlepub` (`_publish_idle_if_inactive`). `_turn_lock` is implied
  by the counters (`TurnLockFree`), `_start_lock` is `lock`.
* a *job* is the task of one background command: `created` (row committed, task
  not yet created), `run`, `resume` (`AgentSessionPool.resume_session`), then
  the same start or wind-down steps. `lost` is a job without a task.
* `interrupt` and `cancel_all` cancel the driver, await it, and clean up.
  `task.cancel()` takes effect at the driver's await: `CanceledAt` says where it
  goes, which depends on the `try` it is in. A cancellation that arrives during
  a database call may come before or after the commit; the second case is the
  cancellation of the next counter.
* `boot` is the startup after `crash`, which may come at any moment.

Turns are abstracted to what they leave behind: a turn starts or cancels
commands, and returns, is preempted or raises, but not while a tool call is
open. Message contents, events and the agent graph are left out.

### NotificationTable, the abstract specification

`AgentSession` implements it (`StoreSpec`): a session's rows are the rows, and
the bulk cancellations in flight are what the drivers that gave up and the two
stops have selected and not yet written. So everything proved of the store
holds of the runtime's use of it.

### RuntimePermissions

Sections under `_lock` do not await, so each is one step. The signal and the
waiter's next step are apart, and in between the timer may fire, the turn may
be canceled, the user may decide again or switch the mode. `_add_rule` is split
at the only place where another thread (`clear_rules`) can come in. A
configuration save writes the file (`written`), applies it (`applied`) and ends
or is rolled back. History variables (`allowed`, `everFull`, `everAlways`)
record what the user did; nothing reads them but the properties. Entries that
left `_pending` are forgotten. Requests of other users are refused by `decide`
and change nothing; they are left out.

### Approvals

Calls run in threads: read, truncate, fill are three steps. A record being
written reads as absent; when two writers overlap the second may leave a file
that never parses. `gen` numbers the records created for one action. Tokens are
unforgeable and an id keeps its content, so `verify_approval_token` is the
token's existence and expiry.

### SubagentTree

Each run has a task row, an obligation towards its parent and, while it is
registered, a driver. The drive's counter follows `run_until_idle` and
`_settle_subagent`; `none` is a dormant driver. Teardowns are executed by
whoever cancels a dormant run, so every process has a stack of them. A
cancellation is requested (`hit`) in one step and taken at the target's await in
another; a second one breaks a teardown off (`aborted`), and the properties
except the runs that happened to.

### Timeline

The pool makes an object for the session when it is needed and evicts it when it
is idle, so objects are numbered. An object's writer is a task with a queue; its
counter starts from the head of the log. `acc` and `lost` are history: what the
writers accepted, and what a failed write or a crash lost. `overlap` is set when
two objects ever wrote at once, or one stamped an event before it had loaded the
log; both can happen (section 6), and the properties claim nothing afterwards.
A write of the log may fail wherever there is one, in the writer's loop, in a
request's own drain and in the drain of an object that is closed (`WriteRows`).
An eviction picks an idle object, asks for outstanding notifications and takes the
object only if nobody used it since; `held` is history, who had got the object
from the pool when it was picked. `pool_stop` is one step for what the code does
between several awaits (clearing the pool, canceling driver and subagents,
closing).

### LiveStream, ModelInput, Conversation

In `LiveStream` the event loop's steps are those of the consumer: publishing
does not suspend, so an event is taken, tracked, published and delivered at
once. Which of the event and the signal is ready when the iterator wakes, and
what happens while it asks the table, are choices. A text is its length. In
`ModelInput` an item is its kind, its call, its owner and a weight; the functions
are those of the code, `Conversation` lets two agents and a subagent append to
one log while a third party's summary is being written.

### Knowledge

`LightRAGGate` is the condition variable that lets operations in and a
replacement through, with the saving that causes it and each way it can fail.
`Knowledge` runs uploads, a deletion and the processing loop inside it. LightRAG
itself is external: its table has `pending`, `processed` and `failed`, and
its pipeline processes what is queued or fails. `excused` collects the names
that one of the races of section 6 is known to strand.

### Services

`Workspaces`, `Inventory` and `ProjectRecords` are database code on SQLite: a
SELECT is outside a transaction, so an operation that reads, checks and writes is
two steps, and foreign keys are enforced at the commit (`foreign_keys`). Ids are
one more than the highest in the table, so a deleted id comes back.
In `Inventory` a workspace also has its egress, of which an update writes only
the columns that differ from what it had read. `WorkspaceFiles` makes every SFTP
operation a step that may be refused, those of the clean-up included: the removal
of the temporary file, whose error reaches the caller even after the file was
published, and the renaming of the backup, whose error nobody sees. Before or after
each the connection may be lost or the request canceled; `upset` is what of this
happened to a request, at most `MaxUpsets` times in a run. `ToolRuns` keeps the
row, the task and the process apart. `Sockets` has one handler with its pumps, any
of which may fail; `HostKeys` a server that may change its key; `GuardedTools` the
calls of one turn in parallel.

### Where a step is coarser or wider than the code

Disclosed at the definitions: in `AgentSession` writing a result and resuming a
session are taken to succeed (an error in the first leaves the row PROCESSING
until the session is canceled or restarted, one in the second is dropped by
`_resume_owner`, and what is pending waits for the next message). In `Workspaces` the three queries
with which a message is let in are one step; a selection may be refused for
outstanding work at any time. `ProjectRecords.upsert_work_project_asset` works on
one reading where the code takes a second, newer one. A proxy test over an https
proxy may succeed in `ProxyCheck` although the code wraps the socket twice.
`Timeline.pool_stop` merges awaits.

## 3. Runs

| Run | Instance | Shows |
| --- | --- | --- |
| `tables` | 2 rows, a main and a subagent instance, two bulk cancels in flight; 2 identities, 2 assets, 1 each of edge, step and finding, no finding beside a path, 1 call overtaken by any others | `StartedMeansClaimed`, `InterruptSparesFresh`, `NeverReopened`, types; `RecordsAreSound`, `VerdictIsSound` |
| `session` | 1 command, 1 queued message, 3 driver names, 1 relaunch, 2 submitted messages, 2 stops or 1 stop and 1 crash | `NoLostWakeup`, `ClaimedIsHandled`, `SettledIsIdle`, `StoreSpec` |
| `session_liveness` | the same with 1 stop and no crash, fair | `EverythingSettles`, `StopsReturn` |
| `session_stale_stop` | 1 command, 2 submitted messages | `DrivingIsMarked` **fails** |
| `session_two_agents` | 1 queued message, 2 agents, fair | `QueuedMessageReachesLoop` **fails** |
| `permissions` | 2 calls for the same action and target, 2 switches or 1 switch and 1 save, fair | `GrantIsGrounded`, `PendingIsWaiting`, `SwitchedNeverWaits`, `EveryRequestEnds`, types |
| `approvals_overlap` | 1 action, 2 overlapping calls, 1 record, 4 calls | `OneTimeConsumption` **fails** |
| `tree_and_timeline` | 2 runs, 1 relaunch, 2 of a tool's cancel, a cancel-all and a crash; 2 objects, 2 events, 1 fault, 1 open request; no step in which two writers overlap; with a cancel-all under way the main agent starts no run and its turn is not canceled | `OwedIsHeard`, `RunsAreSettled`; `AcceptedIsKept`, `PagesAreSound`, `EvictionSparesHolders` |
| `turn` | 3 agents, 6 items, budget 6; 1 turn of 3 SDK events, 2 calls that may change places, queue of 3 | `NothingLost`, `SubmittedIsWhole`; `ClientSees`, `TurnIsClosed` |
| `edge_updates` | 3 assets, 1 edge, 1 call overtaken by any others | `EdgesJoinTwoAssets` **fails** |
| `knowledge` | 2 uploads that share 1 of 2 names, 1 save, 2 of deletion, crash and save | `NoUseAfterFinalize`, `ConfigIsServed`, `SourcesAreAccounted` |
| `services` | see `Services.cfg`; 2 overlapping approval calls, 2 tool calls, 2 workspaces, 2 writers of a file with 2 upsets, 1 tool run with 2 cancels, 1 socket, 2 hosts, 2 proxies, 1 image, 1 user, 1 workspace that refers to them and 2 requests under way, 2 keys, 2 look-ups | one property for each hazard of the services |

Several properties are conjunctions of named ones, which the modules state and
explain one by one: `ClaimedIsHandled` (`ProcessingHasHandler`,
`AwaitedHasWorker`), `OwedIsHeard` (`ReadyIsAttended`, `DormantIsOwed`,
`CompletedHasHeard`), `RunsAreSettled` (`ObligationFollowsTask`,
`RunningHasDriver`), `PagesAreSound` (`OneSequence`, `PageIsComplete`,
`PageIsAligned`), `SubmittedIsWhole` (`NoSplitCall`, `SubmittedIsSound`),
`ClientSees` (`ShownOnce`, `ClientCatchesUp`), `TurnIsClosed` (`EndedIsClosed`,
`ShownCallIsAnswered`, `DeferredAwaitsTool`), `RecordsAreSound` (`RefsResolve`,
`ScopeIsManaged`), `VerdictIsSound` (`ValidatedIsStamped`, `VerdictKept`),
`ConfigIsServed` (`FlagHasOwner`, `InstanceMatchesConfig`),
`SourcesAreAccounted` (`QueuedIsAttended`, `QueuedHasSource`, `NoOrphanSource`),
`FilesAreSafe` (`StoredIsKept`, `FileSurvives`, `NoTempLeft`),
`InventoryIsSound` (`EgressIsWhole`, `LookSeesUses`),
`RunsHaveTheirProcess` (`EndedHasNoProcess`, `RunningHasTask`),
`HandlerCleansUp` (`ReturnedLeavesNothing`, `OneSender`, `EndedIsForwarded`),
`PeersAreChecked` (`LinkedKeyWasShown`, `CheckedIsTunneled`). The type invariants
of these modules are conjuncts of the first property of their part.

The four failing runs are findings (`PROJECT.json`, `findings`): each quotes
what the repository says and the counterexample contradicts.

1. `mark_session_stopped` checks for outstanding work, then writes; a driver
   started in between runs in a session marked stopped, and after a crash it is
   not recovered. This is why `NoLostWakeup` after a restart speaks only of
   sessions that *are* marked.
2. A message for another agent of a running session is queued where the running
   loop never looks.
3. Two overlapping calls consume one approval twice.
4. Two overlapping updates of one edge each write the end they changed: of an edge
   (1, 2), updates to (1, 3) and to (3, 1) leave (3, 3), an asset connected to itself.

**Bounds.** The `Max...` constants bound what users and the environment do, never
a step of the code; `MaxRelaunch` is also `_MAX_DRIVER_RELAUNCH` and
`_MAX_SUBAGENT_RELAUNCH`, `Rebase` `_SUBSCRIBER_REBASE_THRESHOLD`, `JobLimit`
`_ASYNC_COMMAND_CONCURRENCY_LIMIT`. In a session the races are between a driver,
its successor and one or two other tasks, so one command, one queued message,
three driver names and two stops let every pair of them meet: a stop during each
counter of a driver, a relaunch that uses up its budget, a second driver while
the first winds down, a command that ends during each of these. Two runs are the
smallest tree in which a child ends while its parent settles, with the main
agent above. Two objects and two events give an eviction with a successor that
writes the same item. Six items hold a transaction of two calls with reasoning
between, compacted and cut, and one more item. Two uploads that share a name,
and two writers of one file, are every race by name, and of two things that go
wrong one can hit each writer, or a clean-up what the other left to clean up. Two
ids let one come back after a deletion; one image, one user and one workspace are
enough for a reference to come or go beside a request. In the database modules one call is kept between its read and
its commit while any others run; two stale calls at once differ from that only
when both commit over each other's rows. Symmetry is used for safety only. The
environment may use its bounds up, so deadlock is not checked; that the tasks
themselves do not wait for one another for ever is `StopsReturn`.

**Fairness.** Weak fairness of every step of a task that can go on: the loop
is fair, database calls return, turns end (`main_max_turns` and the stream idle
timeout) and commands end (`timeout_seconds`). Nothing is assumed of users, of
a turn's choice to start or cancel commands, of errors or of crashes. In
`RuntimePermissions` timers and signaled waiters are strongly fair: a decision
that adds a rule makes the loop stand still for a moment, again and again if
the user likes, but each pass of the loop runs what is due. "Is outstanding and
in the end is not" is written `[]<>(is not outstanding)`, which says the same.

## 4. Proofs

TLC checks a property on a small instance; the theorems hold for any number of
rows, agents, drivers, calls, clients, workspaces, files and so on. Each rests on
an inductive invariant that the proof module states as a conjunction of named
parts, each with a comment. Assumptions on constants are named in the module that
declares them and say that bounds are natural numbers, that a set is not empty,
or that a value standing for "none" is not a member (`NamesAssumption`,
`StreamAssumption`, `SitesAssumption`, `SubmitsAssumption`, `EmptyAssumption`, ...), that the tasks of
a model have different names (`ClientsAssumption`), or with which messages a turn
begins (`AgentsBegin`); nothing is assumed of how large anything is.

**The store** (`TablesProofs`). `Inv` is the type invariant,
`StartedMeansClaimed`, `InterruptSparesFresh` and `SelectedRowsExist` (a flush only
writes rows that exist; without it a flush could turn an absent row into a
canceled one that a later insert overwrites). `InterruptSparesFresh` needs the
second: between the SELECT and the flush of an interrupt a selected message can
be handed back, and it keeps `started_at`. `NeverReopened` is an action property
from the same invariant.

**The session** (`AgentSessionProofs`). `Control` says where the tasks of a session
can be together: `_current_task` is the one driver that is not on its way out
(`OneDriver`), `_start_lock` is held by a driver that reconciles or by a request
that found no driver (`Locks`), a driver is dying only while the stop that
canceled it waits for it (`Stops`), a message is queued only while a driver can
see it or after a stop (`Queueing`), and the startup is alone (`BootAlone`). On
top of it, `Held` follows the rows: a driver that claimed a row knows which, and
no row is PROCESSING or AWAITING outside somebody's hands. `ClaimedIsHandled` and
`DriversAreApart` follow.

**Wake-ups and rest** (`AgentSessionProofs`). `Wakeups` strengthens `NoLostWakeup`
by saying of each pending row who will look for it: a driver that drains, a task
about to start one, or the stop whose selection holds it. The theorem has one
hypothesis, `OneAgent`: with two main agents it is false, and
`session_two_agents` shows the lost message. `SettledSessionIsIdle` needs none:
until the last task that winds down has written and published, one of them still
will.

**The refinement** (`AgentSessionProofs`). `Spec => StoreSpec`: every step of a
driver, job, request, stop or startup is a statement of `NotificationTable` under
the mapping of section 2, or changes neither rows nor selections. The proof has
one lemma per kind of task; `Held` supplies the guards the store asks for. So the
four properties proved of the store hold of a session.

**Permissions** (`RuntimePermissionsProofs`). `GrantIsGrounded` speaks of calls that
ended; `Inv` adds what is true of those that wait (an allowing decision has a
ground; full access was seen by everyone who waits while it is on; only waiting
calls carry a decision), and of the rules on file and in the hands of
`_add_rule`. `ModeInv` adds the types and what a save in progress knows of the mode, and gives
`SwitchedNeverWaits`, which speaks of switches only: a save that sets full access
releases nobody (section 6).

**The knowledge base** (`KnowledgeProofs`), for any number of clients, uploads,
names and saves. `GateInv`: the instance on offer is open (`OfferIsOpen`), while it
is replaced it is not offered and nobody is inside (`ReplacedAlone`), and at every
stage of a save, failed ones included, it is known which configuration the
instance was built from (`SaveStages`). `NoUseAfterFinalize` and `ConfigIsServed`
follow; uploads and the processing loop change none of this but by entering and
leaving. `SourcesInv` is about the documents, name by name: an accepted source is
on disk and has one owner (`OneOwner`), that of a pending document has no other
(`PendingOwned`), somebody will process what is pending (`Attended`), and each copy
is needed (`CopiesOwned`) - by a processed document only as long as its track is at
a stage of the loop that still leads to its cleaning (`Tracked`), which
`NoOrphanSource` alone does not say and a failed iteration needs. One lemma per
action shows it kept, so `SourcesAreAccounted` holds. The proof asked one thing of
the model that two uploads do not show: of three with one name, the third may
have written its source and not queued it while the pipeline tries the failed
document of the second again, and takes that source. It is excused like the
other races by name (section 6); the invariant was checked on three uploads of
one name with three events before it was proved.

**The services** (`ServicesProofs`), one section per part.

* *Approvals*: a file says granted of a record only after a token was issued for
  it, a call about to consume has read such a file, tokens are not taken back.
* *Guarded tools*: what a call took from the host row and the policy before it
  waited is what it uses after (`ToolsInv`).
* *Workspaces*: `RowsAgree` relates the rows of workspaces, sessions and project;
  `Grounded` says of a message between its look and its turn what was true of the
  workspace it saw, `Checked` when it saw the project not canceled. `epoch` counts
  the project's cancellations; a turn of a canceled project has passed the check
  in the epoch before.
* *Files*: `WriterFits` says where each writer may be with what has gone wrong
  with it, `FileInv` that as long as nothing kept a writer from putting back what
  it took away (`Undisturbed`), the file is there or some writer holds it.
* *Inventory*: the rows a workspace refers to are there, by the foreign keys; its
  egress is whole by the checks before the commit and what is flushed of an
  update; and the look of a deletion, which goes by the mode, sees each reference,
  because an uncrossed egress names a proxy only in that mode.
* *Tool runs, host keys, proxies*: the property itself with what each program
  counter implies.
* *Sockets*: `LockAgrees` (who holds the send lock is sending), `StepsAgree` (what
  each step of the handler knows to be over), `OutputAgrees` (what was read of a
  shell is sent or on its way, but for a read that failed).
* *CVEs*: the first entry of an answer that is about the version decides. That
  there is a first one is `FirstExists`, by the well-founded order of the
  naturals, so `DiscoveryIsSound` holds for any `MaxMatches`.
* *Side by side*: `ServicesAreTheirParts` shows that a behaviour of the composition
  is one of each of its ten parts, which carries each result over to what the run
  `services` checks.

**The timeline** (`TimelineProofs`), for any number of objects, events, requests,
evictions, failed writes and crashes. `TypeInv` holds always: besides the types it
bounds every number by the events published, one more once a row was stored
without a pooled session (`Ceiling`). The rest, `Apart`, holds as long as two
objects of the session never overlapped, which is what the properties are
conditional on. `Phases` says what an object may hold in each phase of its life,
`Alone` that at most one has rows to write, and none beside a pooled one that
numbers events. `Numbered` then makes the rows in the log, in queues and in batches
one sequence, which the pooled object's counter knows (`Counter`), and so does
what a starting turn or a direct insert has read and not used yet (`HeadRead`,
`Direct`). `InOrder` says that what is written later is newer: without it an
upsert could overtake an accepted version. `Kept` and `Pages` follow each accepted
version, the latter to the marker of a history request: what the request may
count on is ahead of its marker, or stored. `AcceptedRowsAreKept` and `PagesHold`
follow; that a page is cut at a turn is a lemma about any rows with different
numbers (`PagesAlign`). `EvictionSparesHolders` has an invariant of its own,
`SpareInv`: who has got the object since it was picked has renewed its time of use,
which the claim compares (`HoldersKnown`), and an object nobody had got or used by
then has no driver, and after the look no subagent under way (`LookHolds`);
`HoldersAreSpared` is the theorem. Two things the proof asked of the model: `Unwritten` is
defined by the rows of a queue wherever markers stand, and the invariant needs
that a request that is over wants nothing.

**The tree of subagents** (`SubagentTreeProofs`), for any tree and any number of
relaunches, cancellations and restarts. `NamesAssumption` says that no run is
called like one of the two processes that are not runs. `SettledInv` has the
shape of the stacks of teardowns: a process has teardowns exactly while its
drive is in one, the first is its own (`StacksAgree`), only the top one moves,
and what each is about to stop, write or resume is known to be its child, or
over (`FramesFit`); runs exist before anything is done with them (`Lineage`);
and whoever is RUNNING has a starter or a driver, or is among what the
cancel-all under way will sweep, its children with it (`RunningIsMinded`).
`RunsStaySettled` follows. `OwedInv` adds who is owed what: while a tool call
starts a child its run has not completed (`OpenToolHolds`), a run comes to its
output only when it is owed nothing (`NothingOwed`), a result that came after a
run looked for it has somebody who brings it (`ResultIsBrought`), and a dormant
run is owed something up to the sweep that ends it (`SleeperIsOwed`: without the
part about the flush, a cancel-all that ends a child would leave its parent
asleep for nothing). Lemmas say once what a step may do to a row, a task, a
teardown and a sleeper, and the proof of each part uses them. The proof showed
two things of the properties: a completed run has heard of its children even
when the teardown of a child was broken off, so `CompletedHasHeard` asks only
that its own was not; and it speaks of a backend that is up, because a crash
forgets which teardowns were broken off before the startup has ended their
children.

**The records of a project** (`TablesProofs`), for any number of
identities, assets, edges, steps and findings. `RecordsInv` is the schema (`Shaped`),
its constraints and bounds, and that what a call under way remembers is a row of
its table. One lemma per service function shows that its commit leaves the tables
whole, whatever row it had read and whatever was committed since (`WriteKeeps`);
the purges need the constraints themselves: a step that would be left without its
edge is one of those that traverse it. `ScopeHolds` needs that the row found by an
identity has it (`FoundByIdentity`), so the winner of a race is never renamed.
The proof asked what the rows of edges are, and the requests' own check did not
turn out to be inductive: that is finding 4.

**A turn as it is streamed** (`TurnProofs`), for any number of turns, tool calls,
kinds of segments, events of the SDK and reconnections, and any rebase threshold.
`StreamInv` has three layers. `LiveFits`: each keyed event is there once (`Once`),
and the index holds exactly those that may still be replaced (`IndexFits`); so an
event that is published must be new, or replace one that is not complete (`Fresh`),
which the ids of the normalizer give: an id below the next one is in use, by one
segment, and a completed segment is not continued (`NormFits`). `ClientFits`: whatever
the projection holds reaches a subscriber, by the last entry of its queue with that
key, or because it was shown and no entry replaces it (`Reaches`). `TurnFits`: the
delta buffers are what is shown of segments (`Told`), the normalizer is ahead of
them by the one event that waits in the iterator (`Streamed`), and so are the SDK's
calls and results of what is shown (`CallsShown`); the counter of calls is the number
of those shown without a result. Two inductions carry `publish` over a sequence of
any length: that the recursion has a solution (`PublishUnfolds`) and what is there
after n of its events (`PublishPuts`). That the segments closed at the end are
all that are open is `ClosesAll`, about any buffers. `TurnsAreClosed` and `ClientsSee`
follow; bounds, and `StreamAssumption`, only say that there are finitely many calls
and that thresholds are numbers.

**The context of a model call** (`TurnProofs`), for any agents and configuration, any
number of turns and items of any kind, and any interleaving. `Lists` says of a
sequence of projected items that it shows each item of a set once and in order;
`VisibleLists` that a projection does so for what the agent may see, whatever
blocks the other agents' messages are put in, and `ContextLists` that it still
does with a summary in front. `ConvInv` then says that a stored compaction, and the
candidates a turn has taken down for one, are exactly what the agent saw up to
some item (`RowFits`, `UpToSome`): what others store while the summary is written lies
behind it (`SeenStays`). `NothingIsLost` follows. `Unsplit` adds that with a call goes
what answers it, because the prefix that is summarized ends where no group is open
(`CandidatesArePrefix`) and an item that opens a group none closes leaves it open
(`OnceIsOpen`); that is `NoCallIsSplit`. `NormalizedIsPaired` is about
`ToolTransactionNormalizer` and any sequence at all: each transaction it flushes is calls
followed by their outputs, and what it puts off is neither.

That the newest item is still there when context is left out is the longest of
these arguments. `TurnInv` adds to `ConvInv` that a stored output answers a call stored
before it by the same agent in the same place (`AnswersFit`), and that a turn that
has begun has an item after the summary (`Waits`). So a context is `Threaded` - a call
has one output at most, after it - although items of several agents, a summary
and broken-off calls are in it (`SeenThreaded`); an output in it has its call in it,
because a summary covers both or neither (`OutputsCalled`); and its last item is not
the summary (`NewestStands`). Where each call is answered too (`Whole`), what the pruning
leaves starts where no call waits, so that it holds the call of the newest output
(`CallWaits`, `PruneKeeps`); what `_drop_orphan_tool_items` leaves is whole again
(`OrphansDropped`); and of whole items the normalizer loses none: every call that is
not answered yet is in the transaction that is open (`Carries`, `NormalizeKeeps`).
`SubmittedStaysSound` follows, and with the types of both ends `SubmittedStaysWhole`,
which is stated of the composition that is checked (`MCSpec`). The one assumption,
`AgentsBegin`, is that a turn begins with a message of the user or an internal one,
as `build_turn_input_item` has it.

The functions of `ModelInput` are recursive, so each proof first shows that the
recursion has a solution (`KeepPicks`, `OpenOpens`, `PendingOpens`, `HandlesAll`), by an
induction over a set (`UpTo`).

**Model-checked only.** Everything under fairness (`EverythingSettles`,
`StopsReturn`, `EveryRequestEnds`): liveness is out of the prover's reach.
Every other property of a passing run is stated by a theorem.
What the failing runs check is false, so there is nothing to prove.

## 5. Not modelled, and the plan

Not modelled, because there is nothing but construction or I/O to say: prompts,
agent definitions and models, tool arguments and parsing of tool output, report
inserts, logging, formatting, listings. Not modelled although it could be: the
rewriting of a workspace's proxy environment, keyword retrieval from a
conversation, shutdown hooks (a restart is a crash at any moment), the web
client beyond applying events by key, the desktop shell's sidecar.
`PROJECT.json` lists every component with its status. What is left, in order:

1. *Liveness*: a subagent's parent hears of it in the end; an upload is processed
   in the end.
2. *Web client and desktop shell*.

## 6. Known races

What the models show the code to do and no document of the repository denies.
Properties except exactly these, by a condition or a history variable named in
their comments.

* *Session*: a message that an interrupt spared waits for the next driver; a stop
  that hits a tool call between the commit of a job and the creation of its
  task leaves the obligation awaiting until the session is canceled or restarted;
  `_publish_idle_if_inactive` may show idle for a moment while a driver starts.
* *Permissions*: a save of the instance configuration that sets full access
  releases nobody, although `update_mode` does and the README says full access
  prompts nobody; a mode switch during a save is overwritten by it; rules cleared
  while one is added come back.
* *Subagents*: canceling a dormant run may end it completed, when its child's
  result wakes it first; a second cancellation breaks a teardown off, and the
  record stays running; a shielded starter registers its run after the sweep;
  canceling a run without a driver does not wake its parent; the sweep may
  overwrite a completed row with canceled.
* *Timeline*: an object that was got from the pool before an eviction picked it,
  and is not used yet, is evicted under its holder, who goes on with it; an
  event on an object that has not loaded the log is stamped from 0.
* *Stream*: the error and idle-timeout path drops its buffers without closing the
  segments; a tool call that completes between the signal and the answer of the
  table is not counted; a slow client loses the queued end of a run when the next
  one resets the projection.
* *Conversation*: a call broken off keeps its transaction open, so later tool
  results are dropped with it and compaction stops at it; items are ordered by
  time, compaction filters by id.
* *Guard*: an always-allow for a workspace covers every command, and for a URL
  every port; the limit of running commands is read before the command starts,
  so parallel calls overrun it; the host's row may be edited while a call waits.
* *Knowledge*: cleanups go by name, so one may remove the source of a re-upload;
  an upload canceled between queueing and requesting, or during a write, strands
  documents until a restart or leaves a copy; a document retried later gets no
  cleanup, or takes the source an upload of its name has not queued yet; a rollback
  that is canceled leaves another instance than configured.
* *Workspaces*: a turn may start on a session that is being deleted, or after the
  sweep of a canceled project; stopping or deleting a workspace does not end what
  runs in it; a task update reopens a canceled project; an id comes back with
  another owner; overlapping rewrites of the proxy environment keep the older.
* *Files and tools*: canceling a request does not kill its synchronous command
  nor restore a backup; when the backup cannot be renamed back the file is gone
  and only the backup is left; an error while the temporary file is removed leaves
  it, or answers a published write as failed; moving and copying replace without a backup; a connection
  leaks when a process cannot be created on it, or a handler is canceled while it
  opens a shell.
* *Inventory*: two overlapping updates of one workspace's egress, each of which
  writes what differs from its reading, leave direct mode with a proxy, which a
  deletion of that proxy then does not see, or the proxy mode without one.
* *Projects*: an asset becomes scope between a tool's read and its write; of two
  overlapping updates of a finding one loses its validation time; two imports
  create one CVE twice.
* *CVEs*: an unbounded entry earlier in an answer hides an exact match later in
  it.
