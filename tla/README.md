# open-managed-agents in TLA+

These modules specify what open-managed-agents does when several things happen
at once: the runtime, the API handlers and the work queue act on a session in
several processes; requests overlap on memories, agents, credentials,
deployments, files and skills; the scheduler ticks; a stream or a list is read
while it changes. No row is locked, and an object store has no transactions.
TLC checks the modules on small instances; TLAPS proves the safety properties
that these runs check for every number of tasks, processes, workers, rows and requests.

Paths below are relative to the repository root (`app/...`, `docs/...`).

## 1. The system

FastAPI handlers and background tasks share a Postgres database through
SQLAlchemy (`app/db/engine.py`, isolation READ COMMITTED, one connection per
transaction). No handler takes a row lock; `lock_version` of a session is never
used. What orders concurrent transactions is only

* the unique constraint on `(session_id, seq)` of the event log,
* the unique constraints on version numbers (agents, skills), and
* that an UPDATE writes just the columns that changed.

Everything below `managed_resources` (memories, vaults, credentials, deployments,
files, skills) keeps its fields in one JSON column `data`, which is read, changed in
part and written whole.

| component | state | operations | correct when |
|---|---|---|---|
| session state machine (`app/session_state.py`) | status, stop reason | predicates that the handlers decide with | - |
| session API (`app/routers/sessions.py`, `app/event_validation.py`) | row of `sessions`, log in `session_events` | create, update, archive, delete, cancel, resume, send events, threads, resources | log dense and in step with the row; each action answered once; nothing starts in a deleted session |
| session turns (`app/runtime/runner.py`) | `_running_sessions` per process, transactions of a turn | `run_session_turn`: start, context, execute, finish, fail | one execution per turn; a result belongs to its turn; retries capped; turns end |
| event log (`app/db/queries/events.py`) | `last_event_seq`, events | append, list with a cursor and a limit | numbers 1..n without gap or repetition |
| work queue (`app/runtime/work_queue.py`, `app/worker.py`, `app/routers/environments.py`) | rows `environment_work` with status and a JSON lease | enqueue, execute, lease, ack, heartbeat, stop, reclaim | expired work is recovered; finished work is not run again; a retry is not lost or early |
| agents and versions (`app/routers/agents.py`, `app/db/queries/agents.py`) | agent row, immutable versions | create, update against an expected version, archive; sessions pin a version and its roster | versions dense; no lost update; a pin means the same for ever; rosters one level deep |
| memory stores (`app/routers/generic_resources.py`) | stores, memories by path, versions | create, update with precondition, delete, redact, archive | versions complete, no lost update, capacity |
| vaults and credentials (same file) | rows with secrets | create, update, validate, archive, delete | a purged secret is gone |
| deployments (same file) | deployment, runs, schedule | create, update, pause, unpause, run, archive, tick of the scheduler | one run per due time, none while paused, none left out |
| files (`app/routers/files.py`, `app/storage.py`, `app/session_resources.py`) | rows in the database, objects in a bucket, which rows with the same content share | upload, presign and complete, delete, mount in a session, remove | an object for every row, its bytes those hashed, limit of a session |
| skills (`app/routers/skills.py`) | skill rows, numbered versions, archives | create, new version, deletes | the latest version was committed and has its archive |
| event stream (`_stream_response` of `app/routers/sessions.py`) | cursor of a response | read a page, send, ping, end | every event of the thread once, in order |
| lists (`app/pagination.py`) | none but the cursor of the client | pages by offset or after an id | no row that stays is missed |
| webhooks, auth, providers, sandbox, schemas, set-up | pure functions, network, wiring | - | - |

How they interact: `send_events` and `resume_session` commit a work item and
call `execute_work_item` in a background task, unless the environment is
`self_hosted`; `oma-worker` processes lease any work item; both call
`run_session_turn`, which owns the session only through its status and the
event log. Clients see a session through its row and its event stream.

Hard behaviours: two transactions that read the same row; a decision taken on a
row that another transaction has changed since; an interrupt or a cancel while a
turn executes; a failure handler that runs late; retries; a process that dies in
a turn; JSON columns that are read, changed in part and written back whole.
For resources: a precondition checked on a row that another request changes before the commit; a purge
undone by a write that read the row earlier; an instant that is due and a pause at
the same time; an object dropped for the last row while a new row names it; a clock
that is set back. `PROJECT.json` lists each one at its line under `hazards`.

## 2. Modules

| module | what it is |
|---|---|
| `SessionState` | statuses, stop reasons and the predicates of `session_state.py` |
| `SessionTurns` | one session: row, log, tasks of the runtime, API requests |
| `SessionLifecycle` | the same session as an atomic state machine: what clients may rely on |
| `SessionRefinement` | the mapping under which `SessionTurns` implements `SessionLifecycle` |
| `MCSessionTurns` | instances for TLC |
| `SessionTurnsProofs` | inductive invariant; types and density of the log |
| `SessionSafetyProofs` | turns are exclusive; what each step does to the row as it is; deleted sessions start no turn; the status is the one last announced |
| `SessionActionsProofs` | actions and their answers, results and their turns, retries, and the refinement |
| `WorkQueue` | work items of an environment, workers, inline executions and the work routes |
| `MCWorkQueue` | instances for TLC |
| `WorkQueueProofs` | types; the race of workers for a lease |
| `MemoryStore` | one memory store: memories, their versions, overlapping requests |
| `MCMemoryStore` | its symmetry, for TLC |
| `MemoryStoreProofs` | inductive invariant; versions, lost updates, capacity |
| `Agents` | agents, their versions and rosters, and what a session pins |
| `Vaults` | vaults and credentials with their secrets |
| `MCRegistry` | an instance of these two |
| `RegistryProofs` | the properties of both |
| `Deployments` | deployments, runs and the tick of the scheduler, over `Agents` and `Vaults` |
| `MCDeployments` | its instances |
| `DeploymentsProofs` | types; due instants, pauses and what makes a schedule stall |
| `Files` | file rows, the bucket, and the copies that sessions mount |
| `Skills` | skills and the numbers of their versions |
| `EventStream` | the generator of server-sent events |
| `Listing` | pages of a list that changes |
| `MCObjects` | an instance of `Files`, `Skills`, `EventStream` and `Listing` |
| `ObjectsProofs` | the safety properties of these four |

`SessionRefinement` composes the session with what it promises. The queue abstracts a
session to its status, retries and turns, and `SessionTurns` abstracts the queue to
`enqueued`; the memory store shares no state with either. `Deployments` extends `Agents` and `Vaults` and
takes their actions as its own: a deployment pins a version of an agent and names vaults, which
are archived under it.

### SessionTurns and the code

Each database transaction is two steps. The first reads the row, takes the early
returns and keeps a snapshot (`StartRead`, `Begin...`, `FailRead`); the second is
the commit (`StartCommit`, `End...`, `FailCommit`). `Commit(snap, new, bodies)`
writes the columns in which `new` differs from the snapshot (SQLAlchemy emits net
changes, `Column`) and appends `bodies` after the snapshot's `last_event_seq`;
`Free` is the unique constraint that makes it fail. A handler without an event
(`archive`, `resume`, archiving a thread) cannot fail that way.

Statements of one transaction after its first read are merged into one of the two
steps. That is sound here: a transaction that has flushed an event conflicts with
every other that appends one, and holds the row's lock from its first UPDATE.
`_validate_action_results` and `_all_pending_actions_resolved` read the log a
moment after the row; if the log has grown in between, the commit conflicts.

| variable | code |
|---|---|
| `session` | status, stop_reason, status_details (retry count, primary_thread_archived_at, everything else), archived_at, deleted_at, last_event_seq |
| `events` | `session_events`: seq, type, stop_reason of status events, target of action results |
| `running[p]` | `session_id in _running_sessions` of process p |
| `task[t]` | control point, snapshot and result of one `run_session_turn`; `started` is the number of the event that announced the turn it started (a history variable) |
| `req[r]` | an API request between its read and its commit |
| `enqueued` | some work item for the session was committed |

When a work item makes `run_session_turn` run is left open: once `enqueued`, any
idle task may be invoked at any time, also twice, also in two processes. That is
weaker than what the queue does, so the safety results do not depend on it.

Abstractions: an event id is its sequence number; the three kinds of action
result are one type, `user.message` stands for `user.define_outcome` too, so a
few batches that the code rejects for their kind (a confirmation that answers a
custom tool, a system message after a confirmation) are accepted here; the
actions of a turn are consecutive events; the text, tool events and outcome
evaluation of a completed turn are one `agent.message`; the MCP errors of the
context transaction are one `session.error`; the look-up of the environment can
only reject a request, which the request not being made covers.

### WorkQueue and the code

| variable | code |
|---|---|
| `work` | rows `environment_work` in the order of `created_at`: status, and of `data` the lease's `worker_id`, the time left of its `expires_at`, and of `retry_at` |
| `session` | status, retry count and `retry_at` of the sessions, each turn a step to start it and a step to end it |
| `exec` | control point of an `oma-worker` process, or of the background task that runs one item inline, with the transaction it holds |
| `call` | an HTTP request of a work route, or an interrupt |
| `faults` | transient failures and dead processes so far |

A transaction keeps the row it read and its new value (`Txn`) and commits later
(`Commit`): `update_resource` writes `data` as a whole, and the status only if the
transaction changed it. Nothing makes a commit fail, so the later of two wins: two
workers that read the same item both lease it. `Poll`/`LeaseCommit` are
`_next_runnable_work`, `Execute` to `FinishCommit` the three transactions of
`execute_work_item` and the turn between them. `Caller` is the default that takes a
request without a worker id for the lease's owner.

Times are ticks: a lease lasts `LeaseSeconds`, a retry waits `RetrySeconds`. `Tick`
happens only while no transaction is open: transactions take milliseconds, a lease a
minute. A turn may take any number of ticks, and outlive its lease, since `oma-worker` does not
heartbeat. The age that `reclaim_older_than_ms` asks for is arbitrary: any leased items
may be old enough.

Left out: a turn that ends waiting for an action ends like any other; a cancelled
session (terminated, but not by an error, so its work counts as completed), session
deletion and sessions that are gone; `--once`; the attempt counter of `data`, which
nothing decides with; `expected_last_heartbeat`, which can only reject a heartbeat.
An exception that leaves `run_session_turn` is the conflict of its first commit with an
event of a client; those events are not in the module, so it may happen at any start.

### MemoryStore and the code

| variable | code |
|---|---|
| `store` | `archived_at` and `deleted_at` of the `memory_store` row |
| `memory` | the `memory` rows: status, and of `data` path key, content and version; an id no request has been given yet is `Absent` |
| `versions` | the `memory_version` rows: parent, number, operation, and the snapshot's path, content and redaction |
| `req` | an HTTP request between its reads and its commit: the row it will write, and the preconditions it checked |

Each route is one transaction: `Begin...` is everything it reads and every early
return, `End...` is what it writes. `Write` is `update_resource` (or `create_resource`) and
`_create_memory_version`; `Free` is the unique constraint on `(parent_id, version)`, whose
violation rolls both back. Merging the reads of a route is sound: closing the store
commutes with reads of its memories, the rows that a path look-up or a count reads are
rows another request could have written just after, and a memory read twice has the same
version if the commit succeeds. Between the write of the row and that of its version the
transaction holds the row's lock, so no other commit comes between them.

Left out: the name and metadata of the store, the metadata of a memory (an update that
changes only metadata is one that writes the old path and content under a new version,
and meets the same constraint), sizes, views and listing. A content stands for its SHA-256 too. A
redacted version keeps its content in the model and is marked: that redaction hides it is the mark.
`memory_version_id`, which `redact_memory_version` compares as well, always names the version with the
memory's own number.

### Agents and the code

| variable | code |
|---|---|
| `agent` | `agents`: that the row is there, `archived_at`, `active_version` |
| `agentVersions` | `agent_versions`: number, everything that a version says (`Configs`, a value), and its roster `multiagent.agents` |
| `agentReq` | a request between its reads and its commit, with the number it computed |
| `pinned` | the newest session: its agent, version and the threads made from the roster |

`BeginUpdateAgent` compares `body.version`, normalizes the roster (`RosterOf`, `RosterValid`,
`Pinnable`) and computes the next number; `EndUpdateAgent` inserts the version and moves
`active_version`, or is rolled back by the unique constraint (`FreeNumber`). A roster entry
`self` is resolved at the insert (`Resolved`). The tools, MCP servers and skills of a version are
validated and stored, and decide nothing here.

### Vaults and the code

`Begin...` reads the credential and computes the whole of the new `data`, `End...` writes it
(`WriteCredential`), with `archived_at` or `deleted_at` if the request sets them. All secrets of
one credential share a value: they are merged and purged together. Encryption maps distinct
secrets to distinct secrets. Renaming a vault and user profiles write a single row without reading another.

### Deployments and the code

| variable | code |
|---|---|
| `clock` | `utcnow()`, in units of the schedules |
| `environment` | whether the environment can be used |
| `deployment` | the rows: the column `status`, `archived_at`, and of `data` status, pinned agent, vaults, schedule and `upcoming_runs_at` |
| `runs` | the `deployment_run` rows |
| `client` | an HTTP request between read and commit |
| `tick[p]` | one call of `run_due_scheduled_deployments`: the rows it listed, the next one to look at, and what its transaction has written |

A tick is one transaction: what it has written is pending until `TickCommit`, an
`HTTPException` of one deployment ends all of it (`TickRefused`), but a deployment whose agent is gone
is archived and committed with everything pending (`TickAgentGone`). What matches a cron
expression is the constant `CronTimes`; `_upcoming_cron_runs` is the next `Ahead` of those (`Upcoming`).
The code steps through local wall-clock minutes, so at a change of the clock for daylight saving an instant may
be an hour off or out of order: the constant hides that.

### Files and the code

| variable | code |
|---|---|
| `object` | the bucket: the bytes under each key, permanent, per session or staged |
| `fileRow` | the `file` rows: live or deleted, storage key, sha256, session |
| `mount` | the `session_resource` row made with it |
| `presigned` | staged keys given out |
| `fileReq` | a request, with the step it is at: `put`, `copy`, `unstage`, `drop`, `commit` |
| `raced`, `tampered` | histories: keys and contents for which what the properties exclude has happened |

Every call of the bucket is a step and the commit is the last; `FileFails` ends a request after any
of them, which rolls the rows back and not the bucket. A content stands for its sha256; one file name on one
day, so that a key is determined by the content and the place. `PutStaged` is the client, who
may write to the presigned URL at any time.

### Skills, EventStream and Listing

`Skills`: `_new_skill_version_id` takes the time or the successor of the latest number, whichever is
larger (`NextNumber`); the archive is stored before the commit (`StoreArchive`), under the skill, the number and the sha256, so
that uploads which take the same number do not overwrite each other's (`LatestCommitted`). The clock may be set back
(`SkillClock`). The rules for uploaded files are `ValidSkillFiles`, over paths as sequences of segments.

`EventStream`: the log as the sequence of its events' threads; `ReadPage` is one query of at most
`PageSize` events, `SendEvent` and `SkipEvent` the loop over them. The cursor moves with `SendEvent` only, as
in the code.

`Listing`: rows are numbers in the order of `created_at`; a page is computed from the rows of its moment.
Sorting is said by its result: the place of a row is the number of rows that are listed before it (`Before`, `Sorted`).

## 3. What is checked

Bounds are constants of the module, named in each `.cfg`: `MaxSeq` (no
transaction begins once the log is that long), `MaxBatch`, `MaxActions`. They
stop the system, so deadlock is not checked: a session with nothing to do rests.
`MaxRetry` is the code's 3 (2 in the runs about other things). In `MemoryStore`, `MaxVersions` stops the writes and `MaxRedacted`
the redactions.

| run | instance | shows |
|---|---|---|
| `session_log` | 2 processes, one may die, all handlers, log to 5 + one turn | `TypeOK`, `EventLogDense`, `StatusMatchesLog`, `TurnExclusive`, `DeletedStartsNoTurn`, `ImplementsLifecycle` |
| `session_actions` | 1 task that may die, 2 clients, 2 actions, batches of 2, log to 8 | `ActionResolvedOnce`, `AnsweredBeforeNextTurn`, `WaitingCanGoOn` |
| `session_retry` | 2 tasks in one process, log to 10 (three failures and an interrupt fit), fair | `RetriesCapped`, `ResultClosesItsTurn`, `RunningEnds` |
| `queue_recovery` | 1 item, run inline or by a worker, either of which may die, 1 request of any route by a client with an id of its own or none, 3 faults, fair | `TypeOK`, `WorkFinishes` |
| `queue_workers` | 2 items of 2 sessions, 2 workers nobody restarts, an interrupt, 2 transient failures | `SomeWorkerPolls` |
| `registry` | 2 agents, rosters of 1, 2 versions each, 2 overlapping requests; 1 credential, 2 auth types, URLs and secrets, 2 overlapping requests | `RegistryTypeOK`, `VersionsDense`, `RosterPinsFlat`, `PinnedSessionStable`, `NoAgentUpdateLost`, `PurgeIsUndoneOnlyBy` |
| `deployments` | 1 deployment, 1 scheduler, the instants 1 and 2, of which one comes; either agent, vault and environment may be closed and 1 request is in flight, or nothing is closed and 2 overlap, of which one is a run | `DeploymentsTypeOK`, `TickDueOnce`, `PauseOutlivesTick`, `StallNeedsLostUpdate` |
| `objects` | 3 file rows of 1 content, 1 session with a limit of 1, 1 staged upload, 2 overlapping requests; 1 skill, 2 uploads that overlap, a clock of 3 values; a log of 4 events of 2 threads in pages of 2, fair; 5 rows of which 3 are listed, in pages of 1 or 2 | `ObjectsTypeOK`, `ObjectsFollowRows`, `BytesMatchSha`, `MountsBounded`, `LatestCommitted`, `LatestFallsByOverlap`, `SentInOrder`, `EventsSent`, `PagesMissNothing`, `IdsMissNothing` |
| `memory_store` | 3 memories, 2 paths, 2 contents, 2 overlapping requests, limit of 1 memory, 4 versions | `TypeOK`, `VersionsComplete`, `HeadIsLatest`, `CapacityOverrun`, `PreconditionHolds` |

The interesting conflicts need two transactions that read the same row: every
instance of a session has at least three actors that may hold a snapshot, the others two. A turn takes two to
four events, so the bounds leave room for a whole turn, what disturbs it, and the
turn after it.

Fairness (`FairSpec`): weak fairness of every step of a task that was invoked. The
event loop schedules it and each database call returns or raises. Nothing is
assumed of clients. A crash is excluded from the fair run: a task that died does
not go on, and a session whose process died stays running (see below).

In the queue's runs a fault is a transient failure or a dead process, and
`MaxFaults` bounds both together: three faults are three transient failures, after which the
session is given up, or crashes of the inline execution, of the worker that recovers its work and of a retry. Without the bound, a worker that always dies, or a turn that always outlives its
lease, may keep an item unfinished for ever. `LeaseSeconds` and `RetrySeconds` are 1 because only their order
with other events matters. `Window` exceeds the number of items: with more rows than the poll's
limit the oldest starves.

Fairness of the queue (`FairSpec`): weak fairness of every execution, of the end of a
request that began, and of the platform's restart of a worker (`restartPolicyType =
"ON_FAILURE"`, whose limit of ten restarts in a row the faults stay below); strong
fairness of `Tick`, since time passes although transactions that briefly disable it come
again. Nobody has to call a route or to enqueue. `WorkFinishes` rests on workers that poll
the environment: without one, inline work that was rescheduled, or whose process died,
stays where it is.

The runs `registry` and `objects` combine modules that share no row. `scope` picks
one of them at the start and the others rest: their product would show nothing more. In
`deployments` the agent has its first version at the start. `TickDueOnce` speaks of ticks that do
not overlap: `Schedulers` has one member, since two ticks at once both find no run of the
instant, and nothing rejects the second (with two schedulers it fails). One deployment is enough for what its own requests
and ticks do to it; that a tick commits a part, of some deployments, is left to the theorems, which hold for any number. `scope` picks what
disturbs the requests there: that what a deployment names is closed, or a run that overlaps with an update, a pause, an unpause or another
run (and with the tick, in both). Requests are symmetric. Two overlapping requests are one stale write; a third
meets what the first two left, as a second one of them does after its end. `_scheduled_deployment_run_exists` looks at the newest 1000
runs of a deployment, which no run of TLC reaches.

A clock of three values is what `LatestFallsByOverlap` needs: a skill is created at 1, one upload takes the number 3, another that read
the same row the number 2 after the clock was set back, and commits last. With two values both take 2, the constraint rejects one, and
`latest_version` never falls. Three file rows are a shared
object, its last row and a copy in a session. `EventsSent` leaves out an event that follows
`PageSize` events of other threads in a row: a filtered stream does not get over those, since its cursor stays.
The fairness of the stream is weak fairness of the generator, which the event loop resumes for as long as the
response is open.

Three runs show where the code does not do what the repository says; `PROJECT.json`
quotes the lines.

| run | finding |
|---|---|
| `terminated_revived` | a cancelled (or interrupted) session is overwritten by the failure of its own late execution |
| `crashed_turn` | work whose worker died in the turn is recovered, and completed without the turn; the session stays running |
| `schedule_stalls` | a run scheduled ahead of its time through the API keeps that instant in `upcoming_runs_at`; when it comes, every tick skips the deployment, for good |

In the memory store two requests are enough for each conflict the code can meet (a commit either
finds its version taken or not), and the theorems below hold for any number. One memory with three further versions, or three
memories, use up every bound. A limit of one memory is overrun as one of 2000 is.

Known and not run: actions beyond the first 1000 events of a log can never be
answered (with `HistoryLimit` 6 `WaitingCanGoOn` fails). With two processes the result, or the failure, of an interrupted
turn ends the turn that replaced it (`ResultClosesItsTurn` fails with `TwoProcesses`). Two creations that overlap make two memories of one path,
against `docs/memory-stores.md:12`, and `update_memory` never looks at the store, so an archived one
accepts it, against `docs/memory-stores.md:21`. A vault that is archived while a deployment names it makes
each tick fail at that deployment. With an update, a pause or an unpause that overlaps with another of them (and a third request that runs the deployment, or a tick) `PauseOutlivesTick` fails:
they can leave the status in the column and the one in the data apart, and the next run or tick, which writes the data it read,
makes the schedule active again.

An archive request that read the session idle commits after a turn has
started, so a running session is archived (it appends no event, so it conflicts with nothing). An agent update or the archiving of the primary
thread writes back all of `status_details`, and so can undo each other or a retry
count (`session_retry` leaves `archiveThread` out for this reason; with it and two
clients `RetriesCapped` fails). With two processes `AnsweredBeforeNextTurn` fails
as well, by the same late failure as in `terminated_revived`: `session_actions`
has one process. In the queue, a stop does not last: the last
transaction of an execution, an ack or a heartbeat that read the row before it writes its own status.
And `SomeWorkerPolls` fails with inline execution and an interrupt: the inline
execution writes back the data it read, with the old owner, and each worker exits with a `WorkLeaseError`.

## 4. What is proved

The theorems about a session hold for every `Tasks`, `Procs`, `Requests`, `Ops`, and every value of
the bounds, under the three named assumptions of `SessionTurns` (each task runs in
a process, client event types, bounds are natural numbers).

* `TypeCorrect`: `Spec => []TypeOK`, `LogDense`: `Spec => []EventLogDense`.
  Density is not inductive alone: a commit appends after its snapshot's number, so
  the proof must know that a snapshot is never ahead of the row, and that a
  snapshot with the row's number agrees with the row on everything that only
  changes together with an event (status, stop reason, deletion). This is
  `SnapshotsBehind`; `IInv` is the three together. `CommitActsNow` is the heart: a
  commit that does not conflict acts on the row as it is, not as it was read.
* `TurnsExclusive`: `Spec => []TurnExclusive`. `Decisions` records what each held
  snapshot was checked for (a turn about to start read a runnable session, and so
  on). A start that commits therefore has a number of its own, larger than that of
  every turn before it (`TurnInv`).

* `DeletedSessionStartsNoTurn`: `Spec => DeletedStartsNoTurn`, and
  `StatusAlwaysMatchesLog`: `Spec => []StatusMatchesLog`. `SessionSafetyProofs` states
  every step of a turn and of a handler as one of ten effects on
  the row as it is at that step (`StepEffect`): a step that appends nothing, notes that leave the
  status alone, a start, an end and so on. Each effect either
  leaves status and stop reason and appends no status event (`StatusKept`) or appends, last of
  its status events, the one that announces them (`StatusAnnounced`).

`SessionActionsProofs` goes on from these effects. Four of its theorems have a hypothesis, each because the
property is false without it.

* `AnsweredOnce`: `Spec => [](session.seq <= HistoryLimit => ActionResolvedOnce)`, and `WaitingSessionGoesOn` likewise.
  Answers are checked against the first `HistoryLimit` events of the log; beyond these an answer is accepted
  twice, or not at all. `AnswerInv` says that the answers a request
  holds, if it can still commit, are to actions that are open, and that a session which waits has an action that is.
* `TurnsRefineLifecycle`: `Spec /\ [](session.seq <= HistoryLimit) => ImplementsLifecycle`, for the same reason: the
  mapped initial state is one of `SessionLifecycle`, and every effect is a step of it or a stutter.
* `TurnPerProcess`: `Spec => []OneTurnPerProcess`; of the tasks of one process at most one executes (`_running_sessions`), whatever the others do.
* `AnswersBeforeTurns` and `ResultsCloseTheirTurns` need `SingleProcess`: with two processes both fail, as section 3 says. The
  first follows `AskInv` (while a turn's actions are open and it is not interrupted, no turn is in progress and the session is idle with that
  turn's stop reason, or terminated), the second `LastTurn` (the turn in progress is the last that started).
* `RetriesAreCapped`: `MaxRetry > 0 /\ "archiveThread" \notin Ops => (Spec => []RetriesCapped)`. `RetryInv` counts the log against the
  column: the stored count is at least the number of reschedulings since the last completed turn.
  Archiving the primary thread writes back the count it read, and so breaks this.

The theorems about the work queue hold for every number of items and bound, and any workers and calls. The module assumes that the
supervised workers are workers and that `MaxFaults` is a number.

* `QueueTypeCorrect`: `Spec => []TypeOK`. An execution that goes on has an item, and one that reads its item back
  at the end finishes what it has read (`HasItem`); without this the rows written would have no type.
* `RaceHasWinner`: `OnlyWorkers => (Spec => []SomeWorkerPolls)`, where `OnlyWorkers` says that there is a worker, none is killed, nothing runs
  inline and the one route is the interrupt: the situation of `queue_workers`, for any number of workers and items.
  Which worker polls on is not fixed; that the one whose
  transaction committed last can go on (`CanGoOn`) is what every step keeps.

The theorems about the memory store hold for every finite set of memories and of
requests, and every limit. `FiniteAssumption` is needed only to count; `NothingAssumption` says that the value
for "no precondition" is none of the values it stands beside.

* `VersionsAreComplete`, `HeadIsTheLatest` and `StoreTypes` are parts of one inductive
  invariant, `IInv`. What makes it inductive is `Pending`: the row that a request is
  about to write is at most one version ahead of the memory, and if it is exactly one ahead,
  the memory is still what the request read (`WriteBehind`). `WriteEffect` then says that the unique
  constraint lets exactly those writes pass, because the versions below are all taken.
  A request to redact keeps a number below the head, or of a deleted memory (`RedactBehind`), and
  numbers only grow.
* `NoUpdateIsLost`: `Spec => PreconditionHolds`. A step that changes a row is a write that is one ahead, so
  what it checked on the row it read holds of the row it replaces.
* `OverrunIsBounded`: `Spec => []CapacityOverrun`, from the invariant `Counted`: live memories
  and creations in flight together are at most the limit, less one, plus the requests.

The theorems about agents (`RegistryProofs`) hold for every finite set of agents and requests, and every roster.

* `AgentVersionsDense`, `AgentRostersFlat`, `PinsStable` and `AgentsTyped` are parts of one inductive invariant.
  What it adds is `ReqBehind`: the number that a request holds is one above the version its client named, which
  is at most the active one. So the constraint, which knows nothing of `body.version`, passes the request
  whose base is still active and no other: `AgentUpdatesKept`. For the rosters,
  `ReqBehind` keeps what was true of a roster when it was asked for: versions are never changed or removed, so an entry
  that pinned a version without a roster still does, and one that pinned an earlier version of its own agent
  (the entry `self` carried over) still names an earlier one.

The theorems about files hold for every finite set of sessions and requests, every set of contents and every
limit; `AreasDiffer` says that the key areas of files, staged uploads and sessions are distinct.

* `ObjectsAreNamed`: the bucket and the rows agree on a key that nobody works on. The invariant is about the keys
  on which requests are at work (`KeysSettled`): a key that is not in `raced` has either one request, a deletion that
  knows whether its row is the last, or requests none of which deletes, and then the object is there if a row names it
  or one of them has put it there.
* `BytesAreHashed`: with `StagedBytes`, what a completion will copy is what it hashed unless the client has replaced it.
* `MountsAreBounded`: counts mounts and additions in flight together, as for the memories.

For skills (`LatestIsCommitted`, `LatestFallIsOverlap`), the invariant is that a request's number is above the one it
read, whatever the clock, that a skill being created has no version and no other request, and that what is uploaded was accepted and, once
stored, has its archive (`ArchiveInv`). For the stream
(`StreamSendsInOrder`), it is `PageComplete`: the rest of a page leaves out no event of the thread between the cursor
and its own last event; without it a cursor that lags behind the page could skip or repeat.

For lists (`PageWalksComplete`, `IdWalksComplete`) it is which rows an open walk has sent: those that stay and whose place is
before the offset (`PageInv`), or that stay and are not older than the last row sent (`IdInv`). The rest is counting. A row that is created
never moves a row that stays towards the start (`PlaceGrows`), if in ascending order none is pushed out; so no place that
the offset has passed is one the walk has not sent. `SortedIs` says that the sorted list has each row at its place.

`FilesTyped` and `ObjectsTyped` give the types of files and skills, of the rows a request holds while it is between the stores included.

`PurgesStay` (`VaultsSpec => PurgeIsUndoneOnlyBy`): the secret that a request is about to write is the one it read or one it brings
(`WrittenFromRead`), and a request to archive or delete brings the purged one. `RegistryTyped` gives the types of agents and vaults together.

The theorems about deployments hold for every number of deployments, crons, agents, vaults, requests and instants.

* `DeploymentsTyped`: `DeploymentsSpec => []DeploymentsTypeOK`, from `DepInv`: it also has to say what a tick holds: at most one pending run for
  each deployment that it has passed, and none for those to come (`TickOK`).
* `DueRunOnce`: `OneScheduler => (DeploymentsSpec => []TickDueOnce)`. What a tick has pending is no run that a tick has created
  (`PendingFresh`); with two schedulers it is, and the property fails.
* `PauseHolds`: `DeploymentsSpec /\ []OneWriter => PauseOutlivesTick`, where `OneWriter` says that of the requests in flight one at most is an update,
  a pause or an unpause; runs and ticks overlap with it and with one another as they like. They write the data alone, so when data says paused the column does too,
  and the requests in flight know of it what their read and the row since then allow (`PauseInv`). Without `OneWriter` see section 3.
* `StallsByLostUpdate`: `OneAtATime => (DeploymentsSpec => StallNeedsLostUpdate)`, where one client, one scheduler and no run ahead of its time
  are what makes the property true: two writers lose updates of each other at once, and a run ahead of its time stalls the schedule alone (`schedule_stalls`).
  The invariant has two halves. A tick, and the data it will write, is behind its deployment in time (`TickBehind`): all its runs are due by its own time,
  and the instants it leaves come after it. And a request that computed its instants before a tick's run
  came in holds data that differs from what is now in the row (`LooksAhead`), so what stalls is the write that loses the tick's.

Model-checked only are the liveness properties `RunningEnds`, `WorkFinishes` and `EventsSent`, which are out of the prover's reach, and the three findings. Every
other property of a passing run is stated by a theorem, under the hypotheses named here.

## 5. Plan

1. Proofs: `PauseHolds` for one writer of each deployment, rather than one in all; `RaceHasWinner` with acknowledgements and heartbeats of
   the workers themselves.
2. The matching of cron expressions and its steps through local time, as a recursive function checked against a
   reference definition.
3. Composition of queue and session: a message gets a turn; what a crash leaves. `WorkQueue` abstracts a session
   to its status; the product of the two modules as they are is out of TLC's reach.
4. The history given to a model (the first 500 events of a log).

## 6. Not modelled

* What a turn asks of the model provider, its tools, the sandbox and the tool mapping: they decide the result of
  a turn, and every result is taken. The history given to a model is listed as a hazard.
* The matching of cron expressions: see above.
* Webhook signatures, authentication and workspaces (a filter on `workspace_id` in every query), encryption, schemas,
  migrations and wiring: pure functions, or declarations without a protocol.
* User profiles, environments' own rows, metadata, views and filters: rows that are written without reading
  another, and functions of one call. `PROJECT.json` names them in the notes of the components.
* What delegated threads do after a session created them: the code stores and archives them.
