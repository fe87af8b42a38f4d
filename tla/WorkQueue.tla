------------------------------ MODULE WorkQueue ------------------------------
(***************************************************************************)
(* The work queue of one environment: rows of type environment_work, the   *)
(* oma-worker processes (app/worker.py), the background tasks of the API   *)
(* process that run work inline, and the work routes of direct HTTP        *)
(* workers (app/routers/environments.py).  All of them go through          *)
(* app/runtime/work_queue.py.                                              *)
(*                                                                         *)
(* A transaction is two steps, as in SessionTurns: it reads rows and keeps *)
(* them with their new values, then commits.  Nothing makes a commit       *)
(* conflict.  The JSON column data is written as a whole, the status only  *)
(* if the transaction changed it.                                          *)
(*                                                                         *)
(* A session is what SessionLifecycle says of it, as far as the queue is   *)
(* concerned: a turn starts and ends in one step each.                     *)
(***************************************************************************)
EXTENDS Integers, FiniteSets

CONSTANTS
  MaxWork,        \* bound: work items that are ever enqueued
  SessionOf,      \* the session of each work item
  Workers,        \* oma-worker processes
  WorkerId,       \* their --worker-id
  Clients,        \* the worker_ids of direct HTTP workers
  Calls,          \* bound: each stands for one HTTP request
  Routes,         \* the routes that are called
  Nobody,         \* no worker_id
  Inline,         \* what should_execute_inline may say of an item's environment
  Supervised,     \* the workers the platform starts again when they exit
  Crashable,      \* the executions whose process may die
  MaxFaults,      \* bound: transient failures, and processes that die
  Window,         \* the limit of the list a poll reads
  LeaseSeconds,   \* length of a lease, in ticks of the clock
  RetrySeconds,   \* time until a retry, in ticks
  MaxRetry        \* MAX_TRANSIENT_RETRY_ATTEMPTS

Works == 1 .. MaxWork

Ids == {WorkerId[p] : p \in Workers} \cup Clients

ASSUME WorkAssumption == MaxWork \in Nat /\ DOMAIN SessionOf = Works
ASSUME WorkerAssumption ==
  DOMAIN WorkerId = Workers /\ Nobody \notin Ids /\ Supervised \subseteq Workers
ASSUME TimesAssumption ==
  /\ LeaseSeconds \in Nat \ {0} /\ RetrySeconds \in Nat /\ MaxRetry \in Nat
  /\ Window \in Nat /\ MaxFaults \in Nat

VARIABLES
  work,           \* the rows, in the order of created_at
  session,        \* the sessions
  exec,           \* the executions: one per worker, one per inline work item
  call,           \* the HTTP requests
  faults          \* how many turns failed transiently, and processes died

vars == <<work, session, exec, call, faults>>

-----------------------------------------------------------------------------
(* Data. *)

Leased == {"leased", "running"}

Finished == {"completed", "error", "stopped"}

WorkStatuses == {"absent", "queued", "rescheduling"} \cup Leased \cup Finished

\* Of data: the lease's worker_id, the time left until its expires_at (0 when it
\* is past or missing), and the time left until retry_at.
Rows == [status : WorkStatuses, owner : Ids \cup {Nobody},
         left : 0 .. LeaseSeconds, retry : 0 .. RetrySeconds]

Absent == [status |-> "absent", owner |-> Nobody, left |-> 0, retry |-> 0]

Queued == [Absent EXCEPT !.status = "queued"]

Sessions == {SessionOf[w] : w \in Works}

\* "terminated" is with stop reason "error"; retry is the time left until the
\* stop reason's retry_at, attempt the count in status_details.
SessionRows == [status : {"idle", "running", "rescheduling", "terminated"},
                attempt : Nat, retry : 0 .. RetrySeconds]

Executors == Workers \cup Works

IdOf(e) == IF e \in Workers THEN WorkerId[e] ELSE Nobody

\* Inline work runs in the API process.
SameProcess(e, f) == e = f \/ (e \in Works /\ f \in Works)

\* A transaction holds rows it read and their new values.
NoTxn == [w \in {} |-> [old |-> Absent, new |-> Absent]]

Txn(w, new) == [x \in {w} |-> [old |-> work[x], new |-> new]]

Commit(txn) ==
  work' = [w \in Works |->
             IF w \notin DOMAIN txn THEN work[w]
             ELSE [txn[w].new EXCEPT
                     !.status = IF @ = txn[w].old.status THEN work[w].status ELSE @]]

-----------------------------------------------------------------------------
(* What the rows say (is_work_ready_for_execution, is_work_available_for_lease). *)

Ready(row) ==
  \/ row.status = "queued"
  \/ row.status = "rescheduling" /\ row.retry = 0

\* Mutant: work that was being run is not recovered.
LeaseExpiredUnacked(row) == row.status = "leased" /\ row.left = 0

LeaseExpired(row) == row.status \in Leased /\ row.left = 0

Available(row) == Ready(row) \/ LeaseExpired(row)

\* _require_lease_owner.
Owns(row, id) == row.status \in Leased /\ row.owner \in {Nobody, id}

\* list_resources returns the newest Window rows.
Listed == {w \in Works : work[w].status # "absent"
                         /\ Cardinality({v \in Works : v > w /\ work[v].status # "absent"}) < Window}

\* The oldest of the rows that can be leased.
IsNext(rows, w) ==
  /\ w \in Listed /\ Available(rows[w])
  /\ \A v \in Listed : Available(rows[v]) => w <= v

\* Mutant: a recovered lease keeps the worker_id it has.
LeaseKeepingOwner(row, id) ==
  [row EXCEPT !.status = "leased", !.owner = IF @ = Nobody THEN id ELSE @, !.left = LeaseSeconds]

\* lease_work.
Lease(row, id) == [row EXCEPT !.status = "leased", !.owner = id, !.left = LeaseSeconds]

-----------------------------------------------------------------------------
(* Executions: run_worker and execute_work_item. *)

ExecPCs == {"poll", "leaseCommit", "execute", "executeCommit", "start", "turn", "raised",
            "raisedCommit", "finish", "finishRead", "finishCommit", "exited"}

Goto(e, pc) == exec' = [exec EXCEPT ![e].pc = pc]

Hold(e, pc, txn) == exec' = [exec EXCEPT ![e].pc = pc, ![e].txn = txn]

\* An execution is over: the worker polls again, a background task ends.
Return(e) ==
  exec' = [exec EXCEPT ![e] = [pc |-> IF e \in Workers THEN "poll" ELSE "exited",
                               item |-> 0, txn |-> NoTxn]]

\* A process dies, or an exception leaves run_worker or the background task.
Exited == [pc |-> "exited", item |-> 0, txn |-> NoTxn]

Poll(e) ==
  /\ exec[e].pc = "poll"
  /\ \E w \in Works :
       /\ IsNext(work, w)
       /\ exec' = [exec EXCEPT ![e] = [pc |-> "leaseCommit", item |-> w,
                                       txn |-> Txn(w, Lease(work[w], IdOf(e)))]]
  /\ UNCHANGED <<work, session, call, faults>>

LeaseCommit(e) ==
  /\ exec[e].pc = "leaseCommit"
  /\ Commit(exec[e].txn)
  /\ Hold(e, "execute", NoTxn)
  /\ UNCHANGED <<session, call, faults>>

\* A row that is leased must be leased to this worker: WorkLeaseError is caught
\* by nobody.  A row that is neither leased nor ready is left alone.
Execute(e) ==
  LET row == work[exec[e].item] IN
  /\ exec[e].pc = "execute"
  /\ \/ /\ row.status \in Leased /\ ~Owns(row, IdOf(e))
        /\ exec' = [exec EXCEPT ![e] = Exited]
     \/ /\ Owns(row, IdOf(e)) \/ Ready(row)
        /\ Hold(e, "executeCommit", Txn(exec[e].item, [row EXCEPT !.status = "running"]))
     \/ /\ row.status \notin Leased /\ ~Ready(row)
        /\ Return(e)
  /\ UNCHANGED <<work, session, call, faults>>

ExecuteCommit(e) ==
  /\ exec[e].pc = "executeCommit"
  /\ Commit(exec[e].txn)
  /\ Hold(e, "start", NoTxn)
  /\ UNCHANGED <<session, call, faults>>

\* run_session_turn returns at once when the session is in the process's set or
\* cannot start work; its first commit may conflict with an event another
\* transaction appends, which raises.
Start(e) ==
  LET s == SessionOf[exec[e].item]
      busy == \E f \in Executors : /\ exec[f].pc = "turn" /\ SameProcess(e, f)
                                   /\ SessionOf[exec[f].item] = s
      runnable == session[s].status \in {"idle", "rescheduling"} IN
  /\ exec[e].pc = "start"
  /\ \/ /\ ~busy /\ runnable
        /\ session' = [session EXCEPT ![s].status = "running", ![s].retry = 0]
        /\ Goto(e, "turn")
     \/ /\ busy \/ ~runnable
        /\ Goto(e, "finish")
        /\ UNCHANGED session
     \/ /\ ~busy /\ runnable
        /\ Goto(e, "raised")
        /\ UNCHANGED session
  /\ UNCHANGED <<work, call, faults>>

\* The turn ends: a result counts only while the session is running, a failure
\* always.
Turn(e) ==
  LET s == SessionOf[exec[e].item]
      attempt == session[s].attempt + 1 IN
  /\ exec[e].pc = "turn"
  /\ \/ /\ session[s].status = "running"
        /\ session' = [session EXCEPT ![s] = [status |-> "idle", attempt |-> 0, retry |-> 0]]
        /\ UNCHANGED faults
     \/ /\ session[s].status # "running"
        /\ UNCHANGED <<session, faults>>
     \/ /\ faults < MaxFaults
        /\ faults' = faults + 1
        /\ session' = [session EXCEPT ![s] =
                         IF attempt < MaxRetry
                           THEN [status |-> "rescheduling", attempt |-> attempt, retry |-> RetrySeconds]
                           ELSE [status |-> "terminated", attempt |-> attempt, retry |-> 0]]
     \/ /\ session' = [session EXCEPT ![s].status = "terminated", ![s].retry = 0]
        /\ UNCHANGED faults
  /\ Goto(e, "finish")
  /\ UNCHANGED <<work, call>>

\* The transaction after an exception.
Raised(e) ==
  LET w == exec[e].item IN
  /\ exec[e].pc = "raised"
  /\ Hold(e, "raisedCommit", Txn(w, [work[w] EXCEPT !.status = "error"]))
  /\ UNCHANGED <<work, session, call, faults>>

\* The last transaction reads the row, then the session.
Finish(e) ==
  LET w == exec[e].item IN
  /\ exec[e].pc = "finish"
  /\ Hold(e, "finishRead", Txn(w, work[w]))
  /\ UNCHANGED <<work, session, call, faults>>

\* Mutant: the work takes over the status of a terminated session.
OutcomeOfSession(s) ==
  IF session[s].status = "idle" THEN "completed" ELSE session[s].status

Outcome(s) ==
  CASE session[s].status = "rescheduling" -> "rescheduling"
    [] session[s].status = "terminated" -> "error"
    [] OTHER -> "completed"

FinishRead(e) ==
  LET w == exec[e].item
      s == SessionOf[w]
      held == exec[e].txn[w]
      new == [held.new EXCEPT
                !.status = IF held.old.status = "stopped" THEN "stopped" ELSE Outcome(s),
                !.retry = IF session[s].status = "rescheduling" THEN session[s].retry ELSE @] IN
  /\ exec[e].pc = "finishRead"
  /\ Hold(e, "finishCommit", [exec[e].txn EXCEPT ![w].new = new])
  /\ UNCHANGED <<work, session, call, faults>>

FinishCommit(e) ==
  /\ exec[e].pc \in {"raisedCommit", "finishCommit"}
  /\ Commit(exec[e].txn)
  /\ Return(e)
  /\ UNCHANGED <<session, call, faults>>

\* The API process or a worker dies; the platform starts a worker again.
Crash(e) ==
  /\ e \in Crashable
  /\ faults < MaxFaults
  /\ faults' = faults + 1
  /\ exec' = [f \in Executors |-> IF SameProcess(e, f) THEN Exited ELSE exec[f]]
  /\ call' = IF e \in Works THEN [c \in Calls |-> [call[c] EXCEPT !.open = FALSE]] ELSE call
  /\ UNCHANGED <<work, session>>

Restart(e) ==
  /\ e \in Supervised
  /\ exec[e].pc = "exited"
  /\ Goto(e, "poll")
  /\ UNCHANGED <<work, session, call, faults>>

ExecStep(e) ==
  \/ Poll(e) \/ LeaseCommit(e) \/ Execute(e) \/ ExecuteCommit(e) \/ Start(e) \/ Turn(e)
  \/ Raised(e) \/ Finish(e) \/ FinishRead(e) \/ FinishCommit(e)

-----------------------------------------------------------------------------
(* The work routes. *)

Begin(c, txn) ==
  /\ ~call[c].made
  /\ call' = [call EXCEPT ![c] = [made |-> TRUE, open |-> TRUE, txn |-> txn]]
  /\ UNCHANGED <<work, session, exec, faults>>

End(c) ==
  /\ call[c].open
  /\ Commit(call[c].txn)
  /\ call' = [call EXCEPT ![c].open = FALSE, ![c].txn = NoTxn]
  /\ UNCHANGED <<session, exec, faults>>

\* _worker_id_for_work: a caller that gives no id is taken for the owner.
Caller(id, row) == IF id = Nobody THEN row.owner ELSE id

\* With reclaim_older_than_ms, leases not heard of for that long are expired in
\* the same transaction; a poll that leases nothing rolls back.
CallPoll(c) ==
  /\ "poll" \in Routes
  /\ \E id \in Clients, reclaimed \in SUBSET {w \in Listed : work[w].status \in Leased
                                                             /\ work[w].owner # Nobody} :
       LET rows == [w \in Works |-> IF w \in reclaimed THEN [work[w] EXCEPT !.left = 0]
                                                       ELSE work[w]] IN
       \E w \in Works :
         /\ IsNext(rows, w)
         /\ Begin(c, [x \in reclaimed \cup {w} |->
                        [old |-> work[x],
                         new |-> IF x = w THEN Lease(rows[x], id) ELSE rows[x]]])

CallAck(c) ==
  /\ "ack" \in Routes
  /\ \E w \in Works, id \in Clients \cup {Nobody} :
       /\ Owns(work[w], Caller(id, work[w]))
       /\ Begin(c, Txn(w, [work[w] EXCEPT !.status = "running"]))

CallHeartbeat(c) ==
  /\ "heartbeat" \in Routes
  /\ \E w \in Works, id \in Clients \cup {Nobody} :
       /\ Owns(work[w], Caller(id, work[w]))
       /\ Begin(c, Txn(w, [work[w] EXCEPT !.status = "running", !.left = LeaseSeconds,
                                          !.owner = Caller(id, work[w])]))

CallMetadata(c) ==
  /\ "metadata" \in Routes
  /\ \E w \in Works : work[w].status # "absent" /\ Begin(c, Txn(w, work[w]))

CallStop(c) ==
  /\ "stop" \in Routes
  /\ \E w \in Works :
       /\ work[w].status # "absent"
       /\ Begin(c, Txn(w, [work[w] EXCEPT !.status = "stopped"]))

\* send_events with user.interrupt ends the turn, and touches no work.
CallInterrupt(c) ==
  /\ "interrupt" \in Routes
  /\ ~call[c].made
  /\ call' = [call EXCEPT ![c].made = TRUE]
  /\ \E s \in Sessions :
       /\ session[s].status \in {"running", "rescheduling"}
       /\ session' = [session EXCEPT ![s].status = "idle", ![s].retry = 0]
  /\ UNCHANGED <<work, exec, faults>>

CallStep(c) ==
  \/ CallPoll(c) \/ CallAck(c) \/ CallHeartbeat(c) \/ CallMetadata(c) \/ CallStop(c)
  \/ CallInterrupt(c)

-----------------------------------------------------------------------------
(* New work, and time. *)

\* send_events or resume_session enqueue; resume may have read an older status.
\* Inline work is handed to a background task of the same process.
Enqueue(w) ==
  /\ work[w].status = "absent"
  /\ \A v \in Works : v < w => work[v].status # "absent"
  /\ work' = [work EXCEPT ![w] = Queued]
  /\ \/ TRUE \in Inline /\ exec' = [exec EXCEPT ![w].pc = "execute", ![w].item = w]
     \/ FALSE \in Inline /\ UNCHANGED exec
  /\ UNCHANGED <<session, call, faults>>

Less(n) == IF n = 0 THEN 0 ELSE n - 1

\* Transactions are short: the clock advances while workers poll and turns run.
Tick ==
  /\ \A e \in Executors : exec[e].pc \in {"poll", "turn", "exited"}
  /\ \A c \in Calls : ~call[c].open
  /\ \/ \E w \in Works : work[w].left > 0 \/ work[w].retry > 0
     \/ \E s \in Sessions : session[s].retry > 0
  /\ work' = [w \in Works |-> [work[w] EXCEPT !.left = Less(@), !.retry = Less(@)]]
  /\ session' = [s \in Sessions |-> [session[s] EXCEPT !.retry = Less(@)]]
  /\ UNCHANGED <<exec, call, faults>>

-----------------------------------------------------------------------------

Init ==
  /\ work = [w \in Works |-> Absent]
  /\ session = [s \in Sessions |-> [status |-> "idle", attempt |-> 0, retry |-> 0]]
  /\ exec = [e \in Executors |-> IF e \in Workers THEN [Exited EXCEPT !.pc = "poll"] ELSE Exited]
  /\ call = [c \in Calls |-> [made |-> FALSE, open |-> FALSE, txn |-> NoTxn]]
  /\ faults = 0

Next ==
  \/ \E e \in Executors : ExecStep(e) \/ Crash(e) \/ Restart(e)
  \/ \E c \in Calls : CallStep(c) \/ End(c)
  \/ \E w \in Works : Enqueue(w)
  \/ Tick

Spec == Init /\ [][Next]_vars

\* Executions and requests that began go on, the platform starts its workers
\* again, and time passes.  Nobody must call a route, enqueue or interrupt.
FairSpec ==
  /\ Spec
  /\ \A e \in Executors : WF_vars(ExecStep(e)) /\ WF_vars(Restart(e))
  /\ \A c \in Calls : WF_vars(End(c))
  /\ SF_vars(Tick)

-----------------------------------------------------------------------------
(* Properties. *)

\* Rows, sessions and control points are values of the program.
TypeOK ==
  /\ work \in [Works -> Rows]
  /\ session \in [Sessions -> SessionRows]
  /\ \A e \in Executors : exec[e].pc \in ExecPCs /\ exec[e].item \in 0 .. MaxWork
  /\ \A e \in Executors : \A w \in DOMAIN exec[e].txn : exec[e].txn[w] \in [old : Rows, new : Rows]
  /\ \A c \in Calls : \A w \in DOMAIN call[c].txn : call[c].txn[w] \in [old : Rows, new : Rows]
  /\ faults \in 0 .. MaxFaults

\* Work is not lost: whatever polls, leases, heartbeats, reclaims and stops race
\* for a queued item, and whichever process dies with it, it is finished in the end.
WorkFinishes == \A w \in Works : work[w].status = "queued" ~> work[w].status \in Finished

\* A worker that lost a race for a lease exits with WorkLeaseError
\* (execute_work_item raises outside its try).  The winner remains.
SomeWorkerPolls == \E e \in Workers : exec[e].pc # "exited"

\* Work that is completed is over: no turn of its session is in progress
\* (work-queue.md: expired running work can be recovered by a later poll).
CompletedIsOver ==
  [][\A w \in Works :
       work[w].status # "completed" /\ work'[w].status = "completed" =>
         session[SessionOf[w]].status # "running"]_vars
=============================================================================
