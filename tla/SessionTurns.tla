---------------------------- MODULE SessionTurns ----------------------------
(***************************************************************************)
(* One managed session: its row and its event log in Postgres, the runtime *)
(* tasks that run its turns (app/runtime/runner.py), and the API handlers  *)
(* that act on it meanwhile (app/routers/sessions.py).                     *)
(*                                                                         *)
(* Every database transaction is two steps.  The first reads the row,      *)
(* takes the early returns of the code and keeps a snapshot; the second is *)
(* the commit.  Between them any other transaction may commit: the code    *)
(* takes no row lock.  A commit writes the columns that differ from the    *)
(* snapshot (SQLAlchemy emits net changes only), and inserts events at the *)
(* numbers that follow the snapshot's last_event_seq; the unique           *)
(* constraint on (session_id, seq) makes it fail when one is taken.        *)
(*                                                                         *)
(* When run_session_turn is called is the work queue's business: here any  *)
(* task may be invoked, any number of times, once work was enqueued.       *)
(***************************************************************************)
EXTENDS SessionState, Sequences, FiniteSets

CONSTANTS
  Tasks,          \* executions of run_session_turn that may be in flight
  Procs,          \* operating-system processes: API servers and workers
  ProcOf,         \* the process each task runs in
  Crashable,      \* the processes that may die
  Requests,       \* API requests that may be in flight
  Ops,            \* the handlers the requests call
  InputTypes,     \* the types of event a client sends
  MaxBatch,       \* bound: events in one request
  MaxActions,     \* bound: actions one turn asks for
  MaxSeq,         \* bound: nothing is begun once the log is this long
  HistoryLimit,   \* how many events an action result is checked against
  MaxRetry        \* MAX_TRANSIENT_RETRY_ATTEMPTS

ASSUME ProcOfAssumption == ProcOf \in [Tasks -> Procs]
ASSUME InputTypesAssumption ==
  InputTypes \subseteq {"user.message", "user.interrupt", "action_result", "system.message"}
ASSUME BoundsAssumption ==
  /\ MaxSeq \in Nat /\ HistoryLimit \in Nat /\ MaxBatch \in Nat
  /\ MaxActions \in Nat /\ MaxRetry \in Nat

VARIABLES
  session,        \* the row of table sessions
  events,         \* the rows of table session_events
  running,        \* per process: the session is in _running_sessions
  task,           \* the runtime tasks
  req,            \* the API requests
  enqueued        \* a work item for the session has been committed

vars == <<session, events, running, task, req, enqueued>>

-----------------------------------------------------------------------------
(* Data. *)

\* status_details: the retry count of "runtime_retry" (0 when the key is
\* absent), "primary_thread_archived_at", and the other entries (the agent
\* overlay, the outcome evaluations), of which only a change matters.
Details == [attempt : Nat, threadArchived : BOOLEAN, other : BOOLEAN]

Sessions == [status : Statuses, stop : StopReasons, details : Details,
             archived : BOOLEAN, deleted : BOOLEAN, seq : Nat]

EventTypes == {"session.status_idle", "session.status_running",
               "session.status_rescheduled", "session.status_terminated",
               "session.deleted", "session.updated", "session.error",
               "user.message", "user.interrupt", "action_result",
               "system.message", "agent.message", "agent.tool_use"}

\* What a caller of append_event supplies; target is 0 unless the event is the
\* result of an action.
Bodies == [type : EventTypes, stop : StopReasons, target : Nat]

Body(type) == [type |-> type, stop |-> Stop("none"), target |-> 0]

StatusBody(type, stop) == [type |-> type, stop |-> stop, target |-> 0]

Events == [seq : Nat, type : EventTypes, stop : StopReasons, target : Nat]

\* append_event, once per body: consecutive numbers after last_event_seq.
Numbered(base, bodies) ==
  {[seq |-> base + i, type |-> bodies[i].type, stop |-> bodies[i].stop,
    target |-> bodies[i].target] : i \in DOMAIN bodies}

Created ==
  [status |-> "idle", stop |-> Stop("none"),
   details |-> [attempt |-> 0, threadArchived |-> FALSE, other |-> FALSE],
   archived |-> FALSE, deleted |-> FALSE, seq |-> 1]

NoTask == [pc |-> "idle", snap |-> Created, result |-> "none", started |-> 0]

NoRequest == [op |-> "none", batch |-> <<>>, snap |-> Created]

TaskPCs == {"idle", "start", "startCommit", "context", "contextCommit", "execute",
            "finishCommit", "fail", "failCommit", "exit"}

Results == {"none", "end_turn", "requires_action", "transient", "permanent"}

-----------------------------------------------------------------------------
(* A commit. *)

\* Mutant: no unique constraint on (session_id, seq).
FreeAlways(snap, n) == TRUE

\* uq_session_events_session_seq lets n events be inserted after the snapshot.
Free(snap, n) == \A e \in events : e.seq \notin snap.seq + 1 .. snap.seq + n

\* Mutant: a commit writes every column of the row it read.
ColumnAlways(old, new, current) == new

\* One column: written only if the transaction changed it.
Column(old, new, current) == IF new = old THEN current ELSE new

Written(snap, new) ==
  [status   |-> Column(snap.status, new.status, session.status),
   stop     |-> Column(snap.stop, new.stop, session.stop),
   details  |-> Column(snap.details, new.details, session.details),
   archived |-> Column(snap.archived, new.archived, session.archived),
   deleted  |-> Column(snap.deleted, new.deleted, session.deleted),
   seq      |-> Column(snap.seq, new.seq, session.seq)]

\* The transaction that read snap ends with the row as in new and the bodies
\* appended.
Commit(snap, new, bodies) ==
  /\ session' = Written(snap, [new EXCEPT !.seq = snap.seq + Len(bodies)])
  /\ events' = events \cup Numbered(snap.seq, bodies)

Unwritten == UNCHANGED <<session, events>>

-----------------------------------------------------------------------------
(* A turn: run_session_turn. *)

Goto(t, pc) == task' = [task EXCEPT ![t].pc = pc]

Hold(t, pc) == task' = [task EXCEPT ![t].pc = pc, ![t].snap = session]

\* Mutant: run_session_turn catches transient errors only.
RaiseTransient(t, failure) ==
  task' = [task EXCEPT ![t].pc = IF failure = "transient" THEN "fail" ELSE "exit",
                       ![t].snap = Created, ![t].result = failure]

Raise(t, failure) ==
  task' = [task EXCEPT ![t].pc = "fail", ![t].snap = Created, ![t].result = failure]

Leave(t) ==
  task' = [task EXCEPT ![t].pc = "exit", ![t].snap = Created, ![t].result = "none"]

\* Mutant: no _running_sessions.
InvokeUnguarded(t) ==
  /\ task[t].pc = "idle"
  /\ enqueued
  /\ session.seq < MaxSeq
  /\ running' = [running EXCEPT ![ProcOf[t]] = TRUE]
  /\ Goto(t, "start")
  /\ UNCHANGED <<session, events, req, enqueued>>

\* A session already in the process's set returns at once and changes nothing.
Invoke(t) ==
  /\ task[t].pc = "idle"
  /\ enqueued
  /\ session.seq < MaxSeq
  /\ ~running[ProcOf[t]]
  /\ running' = [running EXCEPT ![ProcOf[t]] = TRUE]
  /\ Goto(t, "start")
  /\ UNCHANGED <<session, events, req, enqueued>>

\* Mutant: a turn starts although the session waits for actions.
StartReadWaiting(t) ==
  /\ task[t].pc = "start"
  /\ IF session.deleted \/ session.status \notin Runnable
       THEN Goto(t, "exit")
       ELSE Hold(t, "startCommit")
  /\ UNCHANGED <<session, events, running, req, enqueued>>

StartRead(t) ==
  /\ task[t].pc = "start"
  /\ IF session.deleted \/ ~CanStartWork(session.status, session.stop)
       THEN Goto(t, "exit")
       ELSE Hold(t, "startCommit")
  /\ UNCHANGED <<session, events, running, req, enqueued>>

\* The start transaction is outside the try: a conflict leaves the turn.
StartCommit(t) ==
  LET snap == task[t].snap IN
  /\ task[t].pc = "startCommit"
  /\ \/ /\ Free(snap, 1)
        /\ Commit(snap, [snap EXCEPT !.status = "running", !.stop = Stop("in_progress")],
                  <<Body("session.status_running")>>)
        /\ task' = [task EXCEPT ![t].pc = "context", ![t].snap = Created,
                                ![t].started = snap.seq + 1]
     \/ ~Free(snap, 1) /\ Leave(t) /\ Unwritten
  /\ UNCHANGED <<running, req, enqueued>>

\* The context transaction reads no status.  A missing agent, version or
\* environment raises; a missing MCP credential is reported in the log.
Context(t) ==
  /\ task[t].pc = "context"
  /\ \/ Raise(t, "permanent")
     \/ Hold(t, "contextCommit")
     \/ Goto(t, "execute")
  /\ UNCHANGED <<session, events, running, req, enqueued>>

ContextCommit(t) ==
  LET snap == task[t].snap IN
  /\ task[t].pc = "contextCommit"
  /\ \/ /\ Free(snap, 1)
        /\ Commit(snap, snap, <<Body("session.error")>>)
        /\ task' = [task EXCEPT ![t].pc = "execute", ![t].snap = Created]
     \/ ~Free(snap, 1) /\ Raise(t, "permanent") /\ Unwritten
  /\ UNCHANGED <<running, req, enqueued>>

\* _execute raises, or returns a result and the finishing transaction reads the
\* row: a session that is no longer running discards the result.
Execute(t) ==
  /\ task[t].pc = "execute"
  /\ \/ \E failure \in {"transient", "permanent"} : Raise(t, failure)
     \/ /\ session.status # "running" \/ IsWaitingForAction(session.stop)
        /\ Leave(t)
     \/ /\ session.status = "running" /\ ~IsWaitingForAction(session.stop)
        /\ \E result \in {"end_turn", "requires_action"} :
             task' = [task EXCEPT ![t].pc = "finishCommit", ![t].snap = session,
                                  ![t].result = result]
  /\ UNCHANGED <<session, events, running, req, enqueued>>

\* A turn that asks for n actions appends their tool events first.
ActionBodies(snap, n) ==
  [i \in 1 .. n + 1 |->
     IF i <= n THEN Body("agent.tool_use")
               ELSE StatusBody("session.status_idle", RequiresAction(snap.seq + 1 .. snap.seq + n))]

\* Any tool events, the final text and the outcome evaluation of a completed
\* turn are one agent.message.
FinalBodies ==
  <<Body("agent.message"), StatusBody("session.status_idle", Stop("end_turn"))>>

\* The finishing transaction with these values.  A conflict is raised like any
\* exception, and is not transient.
Finish(t, stop, details, bodies) ==
  LET snap == task[t].snap IN
  \/ /\ Free(snap, Len(bodies))
     /\ Commit(snap, [snap EXCEPT !.status = "idle", !.stop = stop, !.details = details], bodies)
     /\ Leave(t)
  \/ ~Free(snap, Len(bodies)) /\ Raise(t, "permanent") /\ Unwritten

\* The retry count is removed; a completed turn may add an outcome evaluation.
FinishCommit(t) ==
  LET snap == task[t].snap
      details == [snap.details EXCEPT !.attempt = 0] IN
  /\ task[t].pc = "finishCommit"
  /\ \/ /\ task[t].result = "end_turn"
        /\ \E other \in BOOLEAN :
             Finish(t, Stop("end_turn"), [details EXCEPT !.other = other], FinalBodies)
     \/ /\ task[t].result = "requires_action"
        /\ \E n \in 1 .. MaxActions :
             Finish(t, RequiresAction(snap.seq + 1 .. snap.seq + n), details,
                    ActionBodies(snap, n))
  /\ UNCHANGED <<running, req, enqueued>>

\* The failure handler reads the row again, whatever its status.
FailRead(t) ==
  /\ task[t].pc = "fail"
  /\ Hold(t, "failCommit")
  /\ UNCHANGED <<session, events, running, req, enqueued>>

Attempt(snap) == snap.details.attempt + 1

\* Mutant: the attempt is not stored with the rescheduling.
RescheduledUncounted(snap) ==
  [snap EXCEPT !.status = "rescheduling", !.stop = Stop("transient_error")]

\* _mark_transient_runtime_failure, and the permanent branch.
Rescheduled(snap) ==
  [snap EXCEPT !.status = "rescheduling", !.stop = Stop("transient_error"),
               !.details.attempt = Attempt(snap)]

GivenUp(snap) ==
  [snap EXCEPT !.status = "terminated", !.stop = Stop("error"),
               !.details.attempt = Attempt(snap)]

\* Mutant: a status no handler knows.
FailedUnknown(snap) == [snap EXCEPT !.status = "failed", !.stop = Stop("error")]

Failed(snap) == [snap EXCEPT !.status = "terminated", !.stop = Stop("error")]

FailureBodies(type, stop) == <<Body("session.error"), StatusBody(type, Stop(stop))>>

FailCommit(t) ==
  LET snap == task[t].snap IN
  /\ task[t].pc = "failCommit"
  /\ Leave(t)
  /\ \/ /\ Free(snap, 2)
        /\ \/ /\ task[t].result = "transient" /\ Attempt(snap) < MaxRetry
              /\ Commit(snap, Rescheduled(snap),
                        FailureBodies("session.status_rescheduled", "transient_error"))
           \/ /\ task[t].result = "transient" /\ Attempt(snap) >= MaxRetry
              /\ Commit(snap, GivenUp(snap), FailureBodies("session.status_terminated", "error"))
           \/ /\ task[t].result = "permanent"
              /\ Commit(snap, Failed(snap), FailureBodies("session.status_terminated", "error"))
     \/ ~Free(snap, 2) /\ Unwritten
  /\ UNCHANGED <<running, req, enqueued>>

\* The finally clause.
Exit(t) ==
  /\ task[t].pc = "exit"
  /\ running' = [running EXCEPT ![ProcOf[t]] = FALSE]
  /\ task' = [task EXCEPT ![t] = NoTask]
  /\ UNCHANGED <<session, events, req, enqueued>>

\* A process dies: its tasks and its set are gone, its open transactions are
\* rolled back.
Crash(p) ==
  /\ p \in Crashable
  /\ running' = [running EXCEPT ![p] = FALSE]
  /\ task' = [t \in Tasks |-> IF ProcOf[t] = p THEN NoTask ELSE task[t]]
  /\ UNCHANGED <<session, events, req, enqueued>>

TurnStep(t) ==
  \/ StartRead(t) \/ StartCommit(t) \/ Context(t) \/ ContextCommit(t)
  \/ Execute(t) \/ FinishCommit(t) \/ FailRead(t) \/ FailCommit(t) \/ Exit(t)

-----------------------------------------------------------------------------
(* The handlers: each reads the row and rejects the request, or holds it until *)
(* its commit.                                                                 *)

Begin(r, op, batch) ==
  /\ req[r].op = "none"
  /\ op \in Ops
  /\ session.seq < MaxSeq
  /\ ~session.deleted
  /\ req' = [req EXCEPT ![r] = [op |-> op, batch |-> batch, snap |-> session]]
  /\ UNCHANGED <<session, events, running, task, enqueued>>

\* The commit of a handler that appends events; a conflict answers 500.
End(r, op, new, bodies) ==
  /\ req[r].op = op
  /\ \/ Free(req[r].snap, Len(bodies)) /\ Commit(req[r].snap, new, bodies)
     \/ ~Free(req[r].snap, Len(bodies)) /\ Unwritten
  /\ req' = [req EXCEPT ![r] = NoRequest]
  /\ UNCHANGED <<running, task>>

\* The commit of a handler that appends none: nothing can conflict.
EndSilently(r, op, new) ==
  /\ req[r].op = op
  /\ session' = Written(req[r].snap, new)
  /\ req' = [req EXCEPT ![r] = NoRequest]
  /\ UNCHANGED <<events, running, task>>

\* update_session: the title and metadata, or the agent overlay.
BeginUpdate(r) ==
  /\ ~BlocksMutation(session.status)
  /\ Begin(r, "update", <<>>)

BeginUpdateAgent(r) ==
  /\ session.status = "idle"
  /\ ~IsWaitingForAction(session.stop)
  /\ Begin(r, "updateAgent", <<>>)

EndUpdate(r) ==
  /\ End(r, "update", req[r].snap, <<Body("session.updated")>>)
  /\ UNCHANGED enqueued

EndUpdateAgent(r) ==
  /\ \E other \in BOOLEAN :
       End(r, "updateAgent", [req[r].snap EXCEPT !.details.other = other],
           <<Body("session.updated")>>)
  /\ UNCHANGED enqueued

BeginArchive(r) ==
  /\ ~BlocksMutation(session.status)
  /\ Begin(r, "archive", <<>>)

EndArchive(r) ==
  /\ EndSilently(r, "archive", [req[r].snap EXCEPT !.archived = TRUE])
  /\ UNCHANGED enqueued

\* archive_session_thread of the primary thread: the new time of archiving always
\* makes it write status_details, all of it.
BeginArchiveThread(r) == Begin(r, "archiveThread", <<>>)

EndArchiveThread(r) ==
  /\ req[r].op = "archiveThread"
  /\ session' = [session EXCEPT !.details = [req[r].snap.details EXCEPT !.threadArchived = TRUE]]
  /\ req' = [req EXCEPT ![r] = NoRequest]
  /\ UNCHANGED <<events, running, task, enqueued>>

BeginDelete(r) ==
  /\ ~BlocksMutation(session.status)
  /\ Begin(r, "delete", <<>>)

\* Mutant: the deletion is not announced.
EndDeleteSilently(r) ==
  /\ EndSilently(r, "delete", [req[r].snap EXCEPT !.deleted = TRUE, !.status = "terminated"])
  /\ UNCHANGED enqueued

EndDelete(r) ==
  /\ End(r, "delete", [req[r].snap EXCEPT !.deleted = TRUE, !.status = "terminated"],
         <<Body("session.deleted")>>)
  /\ UNCHANGED enqueued

BeginCancel(r) == Begin(r, "cancel", <<>>)

EndCancel(r) ==
  /\ End(r, "cancel", [req[r].snap EXCEPT !.status = "terminated", !.stop = Stop("cancelled")],
         <<StatusBody("session.status_terminated", Stop("cancelled"))>>)
  /\ UNCHANGED enqueued

\* resume_session only enqueues a work item.
BeginResume(r) ==
  /\ CanStartWork(session.status, session.stop)
  /\ Begin(r, "resume", <<>>)

EndResume(r) ==
  /\ EndSilently(r, "resume", req[r].snap)
  /\ enqueued' = TRUE

-----------------------------------------------------------------------------
(* send_events. *)

\* What a client may put in a request: its own event types, and results for the
\* actions it was asked for.
Inputs(s) ==
  {Body(type) : type \in InputTypes \ {"action_result"}}
  \cup {[Body("action_result") EXCEPT !.target = id] :
          id \in IF "action_result" \in InputTypes THEN PendingActionIds(s.stop) ELSE {}}

Batches(s) == UNION {[1 .. n -> Inputs(s)] : n \in 1 .. MaxBatch}

\* list_events with a limit returns the events with the lowest numbers; the
\* numbers are 1, 2, 3, ... (EventLogDense).
History(log, limit) == {e \in log : e.seq <= limit}

ResolvedActionIds(log) == {e.target : e \in {f \in log : IsActionResult(f.type)}}

\* validate_system_message_batch.
SystemMessagesValid(batch) ==
  \A i \in DOMAIN batch :
    batch[i].type = "system.message" =>
      /\ i = Len(batch) /\ i > 1
      /\ batch[i - 1].type \in {"user.message", "action_result"}

\* Mutant: one batch may answer an action twice.
ActionResultsValidOneByOne(s, batch) ==
  LET history == History(events, HistoryLimit) IN
  \A i \in DOMAIN batch :
    IsActionResult(batch[i].type) =>
      /\ batch[i].target \in PendingActionIds(s.stop)
      /\ batch[i].target \notin ResolvedActionIds(history)
      /\ \E e \in history : e.seq = batch[i].target

\* _validate_action_results: pending, answered neither before nor twice in the
\* batch, and the blocking event is found.
ActionResultsValid(s, batch) ==
  LET history == History(events, HistoryLimit) IN
  \A i \in DOMAIN batch :
    IsActionResult(batch[i].type) =>
      /\ batch[i].target \in PendingActionIds(s.stop)
      /\ batch[i].target \notin ResolvedActionIds(history)
      /\ \A j \in DOMAIN batch : batch[j].target = batch[i].target => j = i
      /\ \E e \in history : e.seq = batch[i].target

\* _validate_event_batch.
BatchValid(s, batch) ==
  /\ SystemMessagesValid(batch)
  /\ \/ batch = <<Body("user.interrupt")>>
     \/ /\ ~BlocksMutation(s.status)
        /\ IsWaitingForAction(s.stop)
        /\ \A i \in DOMAIN batch : batch[i].type \in {"action_result", "system.message"}
        /\ \E i \in DOMAIN batch : IsActionResult(batch[i].type)
        /\ ActionResultsValid(s, batch)
     \/ /\ ~BlocksMutation(s.status)
        /\ ~IsWaitingForAction(s.stop)
        /\ \A i \in DOMAIN batch : ~IsActionResult(batch[i].type)

BeginSend(r) ==
  /\ ~session.archived
  /\ session.status # "terminated"
  /\ \E batch \in Batches(session) :
       /\ BatchValid(session, batch)
       /\ Begin(r, "send", batch)

Contains(batch, Test(_)) == \E i \in DOMAIN batch : Test(batch[i].type)

IsInterrupt(type) == type = "user.interrupt"

\* Mutant: one answer is taken for all.
AnyPendingActionResolved(snap, batch) ==
  PendingActionIds(snap.stop) \cap
    ResolvedActionIds(History(events \cup Numbered(snap.seq, batch), HistoryLimit)) # {}

\* Mutant: the answers of the batch itself are not yet in the log that is read.
AllPendingActionsResolvedBefore(snap, batch) ==
  /\ PendingActionIds(snap.stop) # {}
  /\ PendingActionIds(snap.stop) \subseteq ResolvedActionIds(History(events, HistoryLimit))

\* _all_pending_actions_resolved, read after the results were flushed.
AllPendingActionsResolved(snap, batch) ==
  /\ PendingActionIds(snap.stop) # {}
  /\ PendingActionIds(snap.stop) \subseteq
       ResolvedActionIds(History(events \cup Numbered(snap.seq, batch), HistoryLimit))

\* An interrupt makes the session idle and starts nothing; a message, or the last
\* of the awaited results, enqueues a work item.
EndSend(r) ==
  LET batch == req[r].batch
      snap == req[r].snap IN
  \/ /\ Contains(batch, IsInterrupt)
     /\ End(r, "send", [snap EXCEPT !.status = "idle", !.stop = Stop("interrupted")],
            Append(batch, StatusBody("session.status_idle", Stop("interrupted"))))
     /\ UNCHANGED enqueued
  \/ /\ ~Contains(batch, IsInterrupt)
     /\ Contains(batch, IsActionResult)
     /\ LET resolved == AllPendingActionsResolved(snap, batch) IN
        /\ End(r, "send",
               IF resolved THEN [snap EXCEPT !.status = "idle", !.stop = Stop("action_submitted")]
                           ELSE snap,
               batch)
        /\ enqueued' = (enqueued \/ (resolved /\ Free(snap, Len(batch))))
  \/ /\ ~Contains(batch, IsInterrupt)
     /\ ~Contains(batch, IsActionResult)
     /\ End(r, "send", snap, batch)
     /\ enqueued' = (enqueued \/ (Contains(batch, StartsWork) /\ Free(snap, Len(batch))))

-----------------------------------------------------------------------------

\* create_session; a deployment creates its sessions in the same way.
Init ==
  /\ session = Created
  /\ events = Numbered(0, <<StatusBody("session.status_idle", Stop("end_turn"))>>)
  /\ running = [p \in Procs |-> FALSE]
  /\ task = [t \in Tasks |-> NoTask]
  /\ req = [r \in Requests |-> NoRequest]
  /\ enqueued = FALSE

RequestStep(r) ==
  \/ BeginUpdate(r) \/ EndUpdate(r) \/ BeginUpdateAgent(r) \/ EndUpdateAgent(r)
  \/ BeginArchive(r) \/ EndArchive(r) \/ BeginArchiveThread(r) \/ EndArchiveThread(r)
  \/ BeginDelete(r) \/ EndDelete(r) \/ BeginCancel(r) \/ EndCancel(r)
  \/ BeginResume(r) \/ EndResume(r) \/ BeginSend(r) \/ EndSend(r)

Next ==
  \/ \E t \in Tasks : Invoke(t) \/ TurnStep(t)
  \/ \E r \in Requests : RequestStep(r)
  \/ \E p \in Procs : Crash(p)

Spec == Init /\ [][Next]_vars

\* A task that was invoked goes on running: the event loop schedules it, and
\* every database call ends or raises.  Nobody must send requests.
FairSpec == Spec /\ \A t \in Tasks : WF_vars(TurnStep(t))

-----------------------------------------------------------------------------
(* Properties. *)

\* Every variable holds a value of the program: rows, snapshots, control points.
TypeOK ==
  /\ session \in Sessions
  /\ events \subseteq Events
  /\ running \in [Procs -> BOOLEAN]
  /\ task \in [Tasks -> [pc : TaskPCs, snap : Sessions, result : Results, started : Nat]]
  /\ req \in [Requests -> [op : Ops \cup {"none"}, batch : Seq(Bodies), snap : Sessions]]
  /\ enqueued \in BOOLEAN

\* append_event numbers events by a read-modify-write of last_event_seq: whatever
\* transactions interleave, the log has exactly the numbers 1 .. last_event_seq,
\* each once, so a client that pages by after_seq misses nothing and sees nothing
\* twice.
EventLogDense ==
  /\ \A e \in events : e.seq \in 1 .. session.seq
  /\ \A n \in 1 .. session.seq : \E e \in events : e.seq = n
  /\ \A e, f \in events : e.seq = f.seq => e = f

StatusTypes == {"session.status_idle", "session.status_running", "session.status_rescheduled",
                "session.status_terminated", "session.deleted"}

Announced(type) ==
  CASE type = "session.status_idle" -> "idle"
    [] type = "session.status_running" -> "running"
    [] type = "session.status_rescheduled" -> "rescheduling"
    [] OTHER -> "terminated"

IsLatestStatus(e) ==
  e.type \in StatusTypes /\ \A f \in events : f.type \in StatusTypes => f.seq <= e.seq

\* A client that follows the stream knows the session: the last status event
\* announces the row's status, and when the session waits for actions that event
\* names exactly the ones it waits for.
StatusMatchesLog ==
  \A e \in events : IsLatestStatus(e) =>
    /\ session.status = Announced(e.type)
    /\ IsWaitingForAction(session.stop) /\ ~session.deleted => e.stop = session.stop

\* Two executions of run_session_turn, in one process or in two, never both
\* believe that they started the same turn.
TurnExclusive ==
  \A t, u \in Tasks : t # u /\ task[t].started # 0 => task[t].started # task[u].started

\* Two clients that answer the same action at the same time: one answer is
\* recorded (_validate_action_results), as long as the log is no longer than the
\* HistoryLimit events that answers are checked against.
ActionResolvedOnce ==
  \A e, f \in events :
    IsActionResult(e.type) /\ IsActionResult(f.type) /\ e.target = f.target => e = f

\* A session that waits for actions can go on: one of them is unanswered, and a
\* request that answers it is accepted, as long as the log is no longer than the
\* HistoryLimit events that answers are checked against.
WaitingCanGoOn ==
  session.status = "idle" /\ IsWaitingForAction(session.stop) =>
    LET open == PendingActionIds(session.stop) \ ResolvedActionIds(events) IN
    /\ open # {}
    /\ \A id \in open : BatchValid(session, <<[Body("action_result") EXCEPT !.target = id]>>)

\* MAX_TRANSIENT_RETRY_ATTEMPTS: between two completed turns a session is
\* rescheduled fewer times than that, whoever runs the attempts.
Completed(e) ==
  e.type = "session.status_idle" /\ e.stop.type \in {"end_turn", "requires_action"}

RetriesCapped ==
  Cardinality({e \in events : /\ e.type = "session.status_rescheduled"
                              /\ \A f \in events : Completed(f) => f.seq < e.seq}) < MaxRetry

\* A turn that asked for actions is followed by another only when each of them
\* was answered, or the session was interrupted.  With the runtime in one process: in
\* two, the late failure of an interrupted turn reschedules a session that waits.
AnsweredBeforeNextTurn ==
  \A w, e \in events :
    /\ Completed(w) /\ e.type = "session.status_running" /\ w.seq < e.seq
    /\ ~\E f \in events : /\ f.type = "session.status_idle" /\ f.stop.type = "interrupted"
                          /\ w.seq < f.seq /\ f.seq < e.seq
    => \A id \in PendingActionIds(w.stop) :
         \E a \in events : IsActionResult(a.type) /\ a.target = id /\ a.seq < e.seq

\* No turn starts in a deleted session, although run_session_turn checks
\* deleted_at in an earlier step than the one that starts the turn.
DeletedStartsNoTurn ==
  [][session.deleted => \A e \in events' \ events : e.type # "session.status_running"]_vars

\* What an execution writes at its end, a result or a failure, closes the turn it
\* started: no later turn has begun.  A result of an interrupted turn is discarded, the
\* session not being running; a failure is not, but comes before the next turn.  With
\* the runtime in one process (_running_sessions).
ResultClosesItsTurn ==
  [][\A t \in Tasks :
       task[t].pc \in {"finishCommit", "failCommit"} /\ task'[t].pc = "exit" /\ events' # events =>
         \A e \in events : e.type = "session.status_running" => e.seq <= task[t].started]_vars

\* A turn that started ends: the session does not stay running.
RunningEnds == session.status = "running" ~> session.status # "running"

\* A terminated session stays terminated (TERMINAL_STATUSES; resume and send
\* refuse it).
TerminatedIsFinal ==
  [][session.status = "terminated" => session'.status = "terminated"]_vars
=============================================================================
