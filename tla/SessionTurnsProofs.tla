------------------------- MODULE SessionTurnsProofs -------------------------
(* Theorems about SessionTurns, for every value of its constants. *)
EXTENDS SessionTurns, TLAPS

-----------------------------------------------------------------------------
(* Values. *)

\* What append_event is given by the code is a body, and a list of them has the
\* length it shows.
LEMMA BodyValues ==
  /\ \A type \in EventTypes : Body(type) \in Bodies
  /\ \A type \in EventTypes, stop \in StopReasons : StatusBody(type, stop) \in Bodies
  /\ \A type \in StopTypes : Stop(type) \in StopReasons
  /\ \A ids \in SUBSET Nat : RequiresAction(ids) \in StopReasons
  /\ Created \in Sessions
BY DEF Body, StatusBody, Bodies, Stop, StopReasons, RequiresAction, StopTypes, EventTypes,
       Created, Sessions, Details, Statuses

\* Events numbered from base are events, and have the numbers that follow base.
LEMMA NumberedValues ==
  ASSUME NEW base \in Nat, NEW bodies \in Seq(Bodies)
  PROVE  /\ Numbered(base, bodies) \subseteq Events
         /\ \A e \in Numbered(base, bodies) : e.seq \in base + 1 .. base + Len(bodies)
         /\ \A n \in base + 1 .. base + Len(bodies) :
              \E e \in Numbered(base, bodies) : e.seq = n
         /\ \A e, f \in Numbered(base, bodies) : e.seq = f.seq => e = f
<1> DEFINE Event(i) == [seq |-> base + i, type |-> bodies[i].type,
                        stop |-> bodies[i].stop, target |-> bodies[i].target]
<1>1. DOMAIN bodies = 1 .. Len(bodies) /\ Len(bodies) \in Nat
  OBVIOUS
<1>2. \A i \in DOMAIN bodies : bodies[i] \in Bodies
  OBVIOUS
<1>3. \A i \in DOMAIN bodies : Event(i) \in Events /\ Event(i).seq = base + i
  BY <1>1, <1>2 DEF Events, Bodies
<1>4. Numbered(base, bodies) = {Event(i) : i \in DOMAIN bodies}
  BY DEF Numbered
<1> HIDE DEF Event
<1>5. ASSUME NEW n \in base + 1 .. base + Len(bodies)
      PROVE  \E e \in Numbered(base, bodies) : e.seq = n
  <2>1. n - base \in DOMAIN bodies /\ base + (n - base) = n
    BY <1>1
  <2>2. Event(n - base) \in Numbered(base, bodies)
    BY <1>4, <2>1
  <2> QED
    BY <1>3, <2>1, <2>2
<1>6. \A e, f \in Numbered(base, bodies) : e.seq = f.seq => e = f
  BY <1>1, <1>3, <1>4
<1>7. \A e \in Numbered(base, bodies) : e.seq \in base + 1 .. base + Len(bodies)
  BY <1>1, <1>3, <1>4
<1>8. Numbered(base, bodies) \subseteq Events
  BY <1>3, <1>4
<1> QED
  BY <1>5, <1>6, <1>7, <1>8

-----------------------------------------------------------------------------
(* The inductive invariant. *)

\* A snapshot is never ahead of the row, and as long as no event was appended
\* since, what it says of the status, the stop reason and the deletion is true.
Behind(snap) ==
  /\ snap.seq <= session.seq
  /\ snap.seq = session.seq =>
       /\ snap.status = session.status
       /\ snap.stop = session.stop
       /\ snap.deleted = session.deleted

\* Who holds no snapshot has the row of a new session in its place.
SnapshotsBehind ==
  /\ Behind(Created)
  /\ \A t \in Tasks : Behind(task[t].snap)
  /\ \A r \in Requests : Behind(req[r].snap)

IInv == TypeOK /\ EventLogDense /\ SnapshotsBehind

\* The unique constraint lets a commit through only when nobody appended an event
\* since its snapshot.
LEMMA FreeIsCurrent ==
  ASSUME TypeOK, EventLogDense,
         NEW snap \in Sessions, snap.seq <= session.seq,
         NEW n \in Nat \ {0}, Free(snap, n)
  PROVE  snap.seq = session.seq
<1>1. snap.seq \in Nat /\ session.seq \in Nat
  BY DEF TypeOK, Sessions
<1>2. SUFFICES ASSUME snap.seq < session.seq PROVE FALSE
  BY <1>1
<1>3. snap.seq + 1 \in 1 .. session.seq
  BY <1>1, <1>2
<1>4. PICK e \in events : e.seq = snap.seq + 1
  BY <1>3 DEF EventLogDense
<1> QED
  BY <1>1, <1>4 DEF Free

\* A transaction that appends events acts on the row as it is when it commits,
\* although it decided on its snapshot.
LEMMA CommitActsNow ==
  ASSUME IInv, NEW snap \in Sessions, Behind(snap),
         NEW new \in Sessions, NEW bodies \in Seq(Bodies),
         NEW n \in Nat \ {0}, Len(bodies) = n, Free(snap, n), Commit(snap, new, bodies)
  PROVE  /\ snap.seq = session.seq
         /\ snap.status = session.status
         /\ snap.stop = session.stop
         /\ snap.deleted = session.deleted
         /\ session' \in Sessions
         /\ session'.seq = session.seq + Len(bodies)
         /\ session'.status = new.status
         /\ session'.stop = new.stop
         /\ session'.deleted = new.deleted
         /\ events' = events \cup Numbered(session.seq, bodies)
<1>1. Len(bodies) \in Nat \ {0} /\ snap.seq \in Nat /\ session.seq \in Nat
  BY DEF IInv, TypeOK, Sessions
<1>2. snap.seq = session.seq
  BY <1>1, FreeIsCurrent DEF IInv, Behind
<1>3. /\ snap.status = session.status
      /\ snap.stop = session.stop
      /\ snap.deleted = session.deleted
  BY <1>2 DEF Behind
<1> QED
  BY <1>1, <1>2, <1>3 DEF Commit, Written, Column, IInv, TypeOK, Sessions

-----------------------------------------------------------------------------
(* Every step keeps the invariant: what it does to the log, to the tasks and to *)
(* the requests.                                                                *)

LogGrows ==
  /\ session' \in Sessions
  /\ events' \subseteq Events
  /\ EventLogDense'
  /\ session'.seq >= session.seq
  /\ \A snap \in Sessions : Behind(snap) => Behind(snap)'

TaskRecords == [pc : TaskPCs, snap : Sessions, result : Results, started : Nat]

TasksKept ==
  /\ task' \in [Tasks -> TaskRecords]
  /\ \A t \in Tasks : Behind(task[t].snap)'

RequestRecords == [op : Ops \cup {"none"}, batch : Seq(Bodies), snap : Sessions]

RequestsKept ==
  /\ req' \in [Requests -> RequestRecords]
  /\ \A r \in Requests : Behind(req[r].snap)'

LEMMA KeptTogether ==
  ASSUME IInv, LogGrows, TasksKept, RequestsKept,
         running' \in [Procs -> BOOLEAN], enqueued' \in BOOLEAN
  PROVE  IInv' /\ LogGrows
<1>1. Behind(Created)'
  BY BodyValues DEF IInv, LogGrows, SnapshotsBehind
<1>2. TypeOK'
  BY DEF LogGrows, TasksKept, RequestsKept, TypeOK, TaskRecords, RequestRecords
<1> QED
  BY <1>1, <1>2 DEF IInv, LogGrows, TasksKept, RequestsKept, SnapshotsBehind

\* A step that writes neither the row nor the log.
LEMMA NothingWritten ==
  ASSUME IInv, Unwritten
  PROVE  LogGrows
BY DEF IInv, Unwritten, LogGrows, TypeOK, EventLogDense, Sessions, Behind

\* A commit that appends nothing and leaves status, stop reason and deletion.
LEMMA SilentWrite ==
  ASSUME IInv, UNCHANGED events, session' \in Sessions,
         session'.seq = session.seq, session'.status = session.status,
         session'.stop = session.stop, session'.deleted = session.deleted
  PROVE  LogGrows
BY DEF IInv, LogGrows, TypeOK, EventLogDense, Sessions, Behind

\* The commit of a transaction that appends events.
LEMMA CommitGrows ==
  ASSUME IInv, NEW snap \in Sessions, Behind(snap),
         NEW new \in Sessions, NEW bodies \in Seq(Bodies),
         NEW n \in Nat \ {0}, Len(bodies) = n, Free(snap, n), Commit(snap, new, bodies)
  PROVE  LogGrows
<1> USE DEF IInv
<1>1. Len(bodies) \in Nat \ {0} /\ session.seq \in Nat
  BY DEF TypeOK, Sessions
<1>2. /\ session' \in Sessions
      /\ session'.seq = session.seq + Len(bodies)
      /\ events' = events \cup Numbered(session.seq, bodies)
  BY CommitActsNow
<1>3. events' \subseteq Events
  BY <1>1, <1>2, NumberedValues DEF TypeOK
<1>4. ASSUME NEW k \in 1 .. session'.seq
      PROVE  \E e \in events' : e.seq = k
  <2>1. CASE k \in 1 .. session.seq
    BY <1>2, <2>1 DEF EventLogDense
  <2>2. CASE k \in session.seq + 1 .. session.seq + Len(bodies)
    <3>1. \E e \in Numbered(session.seq, bodies) : e.seq = k
      <4>1. session.seq \in Nat /\ bodies \in Seq(Bodies)
        BY <1>1
      <4> QED BY ONLY <2>2, <4>1, NumberedValues
    <3>2. PICK e \in Numbered(session.seq, bodies) : e.seq = k
      BY <3>1
    <3>3. e \in events'
      BY <1>2
    <3> QED
      BY <3>2, <3>3
  <2> QED
    BY <1>1, <1>2, <1>4, <2>1, <2>2
<1>5. ASSUME NEW e \in events'
      PROVE  e.seq \in 1 .. session'.seq
  <2>1. CASE e \in events
    BY <1>1, <1>2, <2>1 DEF EventLogDense
  <2>2. CASE e \in Numbered(session.seq, bodies)
    <3>1. e.seq \in session.seq + 1 .. session.seq + Len(bodies)
      BY <1>1, <2>2, NumberedValues
    <3> QED
      BY <1>1, <1>2, <3>1
  <2> QED
    BY <1>2, <2>1, <2>2
<1>6. ASSUME NEW e \in events', NEW f \in events', e.seq = f.seq
      PROVE  e = f
  <2>1. \A g \in events : g.seq \in 1 .. session.seq
    BY DEF EventLogDense
  <2>2. \A g \in Numbered(session.seq, bodies) :
          g.seq \in session.seq + 1 .. session.seq + Len(bodies)
    BY <1>1, NumberedValues
  <2>3. CASE e \in events /\ f \in events
    BY <1>6, <2>3 DEF EventLogDense
  <2>4. CASE e \in Numbered(session.seq, bodies) /\ f \in Numbered(session.seq, bodies)
    BY <1>1, <1>6, <2>4, NumberedValues
  <2>5. ~(e \in events /\ f \in Numbered(session.seq, bodies))
    BY <1>1, <1>6, <2>1, <2>2
  <2>6. ~(f \in events /\ e \in Numbered(session.seq, bodies))
    BY <1>1, <1>6, <2>1, <2>2
  <2> QED
    BY <1>2, <2>3, <2>4, <2>5, <2>6
<1>7. ASSUME NEW old \in Sessions, Behind(old)
      PROVE  Behind(old)'
  <2>1. old.seq \in Nat /\ session'.seq \in Nat /\ old.seq < session'.seq
    BY <1>1, <1>2, <1>7 DEF Behind, Sessions
  <2> QED
    BY <2>1 DEF Behind
<1>8. EventLogDense'
  BY <1>4, <1>5, <1>6 DEF EventLogDense
<1>9. session'.seq >= session.seq
  BY <1>1, <1>2
<1> QED
  BY <1>2, <1>3, <1>7, <1>8, <1>9 DEF LogGrows

LEMMA TasksUnchanged ==
  ASSUME IInv, LogGrows, UNCHANGED task
  PROVE  TasksKept
BY DEF IInv, LogGrows, TasksKept, TypeOK, SnapshotsBehind, TaskRecords

LEMMA RequestsUnchanged ==
  ASSUME IInv, LogGrows, UNCHANGED req
  PROVE  RequestsKept
BY DEF IInv, LogGrows, RequestsKept, TypeOK, SnapshotsBehind, RequestRecords

\* One task gets a record with a snapshot that is not ahead.
LEMMA TaskGoesOn ==
  ASSUME IInv, LogGrows, NEW t \in Tasks, NEW record \in TaskRecords,
         Behind(record.snap)', task' = [task EXCEPT ![t] = record]
  PROVE  TasksKept
<1>1. /\ task \in [Tasks -> TaskRecords]
      /\ \A u \in Tasks : Behind(task[u].snap) /\ task[u].snap \in Sessions
  BY DEF IInv, TypeOK, SnapshotsBehind, TaskRecords
<1>2. task' \in [Tasks -> TaskRecords]
  BY <1>1
<1>3. ASSUME NEW u \in Tasks PROVE Behind(task[u].snap)'
  <2>1. CASE u = t
    BY <1>1, <2>1 DEF Behind
  <2>2. CASE u # t
    <3>1. task'[u] = task[u]
      BY <1>1, <2>2
    <3>2. \A snap \in Sessions : Behind(snap) => Behind(snap)'
      BY DEF LogGrows
    <3> QED
      BY <1>1, <3>1, <3>2 DEF Behind
  <2> QED
    BY <2>1, <2>2
<1> QED
  BY <1>2, <1>3 DEF TasksKept

LEMMA TaskMoves ==
  ASSUME IInv, LogGrows, NEW t \in Tasks
  PROVE  /\ \A pc \in TaskPCs : Goto(t, pc) => TasksKept
         /\ \A pc \in TaskPCs : Hold(t, pc) /\ UNCHANGED session => TasksKept
         /\ \A failure \in Results : Raise(t, failure) => TasksKept
         /\ Leave(t) => TasksKept
<1>1. /\ task \in [Tasks -> TaskRecords]
      /\ session \in Sessions
      /\ Created \in Sessions
  BY BodyValues DEF IInv, TypeOK, TaskRecords
<1>2. Behind(Created)' /\ Behind(task[t].snap) /\ task[t].snap \in Sessions
  BY <1>1 DEF IInv, LogGrows, SnapshotsBehind, TaskRecords
<1>3. \A snap \in Sessions : Behind(snap) => Behind(snap)'
  BY DEF LogGrows
<1>4. ASSUME NEW pc \in TaskPCs, Goto(t, pc) PROVE TasksKept
  <2> DEFINE record == [task[t] EXCEPT !.pc = pc]
  <2>1. record \in TaskRecords /\ record.snap = task[t].snap
    BY <1>1 DEF TaskRecords
  <2>2. task' = [task EXCEPT ![t] = record]
    BY <1>1, <1>4 DEF Goto
  <2>3. PICK r \in TaskRecords : r.snap = task[t].snap /\ task' = [task EXCEPT ![t] = r]
    BY <2>1, <2>2
  <2>4. Behind(r.snap)'
    BY <1>2, <1>3, <2>3
  <2> QED
    BY <2>3, <2>4, TaskGoesOn
<1>5. ASSUME NEW pc \in TaskPCs, Hold(t, pc), UNCHANGED session PROVE TasksKept
  <2>1. PICK r \in TaskRecords : r.snap = session /\ task' = [task EXCEPT ![t] = r]
    <3>1. [task[t] EXCEPT !.pc = pc, !.snap = session] \in TaskRecords
      BY <1>1 DEF TaskRecords
    <3> QED
      BY <1>1, <1>5, <3>1 DEF Hold, TaskRecords
  <2>2. Behind(r.snap)'
    BY <1>1, <1>5, <2>1 DEF Behind, Sessions
  <2> QED
    BY <2>1, <2>2, TaskGoesOn
<1>6. ASSUME NEW failure \in Results, Raise(t, failure) PROVE TasksKept
  <2>1. PICK r \in TaskRecords : r.snap = Created /\ task' = [task EXCEPT ![t] = r]
    <3>1. [task[t] EXCEPT !.pc = "fail", !.snap = Created, !.result = failure] \in TaskRecords
      BY <1>1 DEF TaskRecords, TaskPCs
    <3> QED
      BY <1>1, <1>6, <3>1 DEF Raise, TaskRecords
  <2>2. Behind(r.snap)'
    BY <1>2, <2>1
  <2> QED
    BY <2>1, <2>2, TaskGoesOn
<1>7. ASSUME Leave(t) PROVE TasksKept
  <2>1. PICK r \in TaskRecords : r.snap = Created /\ task' = [task EXCEPT ![t] = r]
    <3>1. [task[t] EXCEPT !.pc = "exit", !.snap = Created, !.result = "none"] \in TaskRecords
      BY <1>1 DEF TaskRecords, TaskPCs, Results
    <3> QED
      BY <1>1, <1>7, <3>1 DEF Leave, TaskRecords
  <2>2. Behind(r.snap)'
    BY <1>2, <2>1
  <2> QED
    BY <2>1, <2>2, TaskGoesOn
<1> QED
  BY <1>4, <1>5, <1>6, <1>7

LEMMA RequestGoesOn ==
  ASSUME IInv, LogGrows, NEW r \in Requests, NEW record \in RequestRecords,
         Behind(record.snap)', req' = [req EXCEPT ![r] = record]
  PROVE  RequestsKept
<1>1. /\ req \in [Requests -> RequestRecords]
      /\ \A u \in Requests : Behind(req[u].snap) /\ req[u].snap \in Sessions
  BY DEF IInv, TypeOK, SnapshotsBehind, RequestRecords
<1>2. req' \in [Requests -> RequestRecords]
  BY <1>1
<1>3. ASSUME NEW u \in Requests PROVE Behind(req[u].snap)'
  <2>1. CASE u = r
    BY <1>1, <2>1 DEF Behind
  <2>2. CASE u # r
    <3>1. req'[u] = req[u]
      BY <1>1, <2>2
    <3>2. \A snap \in Sessions : Behind(snap) => Behind(snap)'
      BY DEF LogGrows
    <3> QED
      BY <1>1, <3>1, <3>2 DEF Behind
  <2> QED
    BY <2>1, <2>2
<1> QED
  BY <1>2, <1>3 DEF RequestsKept

\* A request's end.
LEMMA RequestEnds ==
  ASSUME IInv, LogGrows, NEW r \in Requests, req' = [req EXCEPT ![r] = NoRequest]
  PROVE  RequestsKept
<1>1. NoRequest \in RequestRecords /\ NoRequest.snap = Created
  BY BodyValues DEF NoRequest, RequestRecords
<1>2. Behind(Created)'
  BY BodyValues DEF IInv, LogGrows, SnapshotsBehind
<1>3. PICK record \in RequestRecords : record = NoRequest
  BY <1>1
<1>4. Behind(record.snap)'
  BY <1>1, <1>2, <1>3
<1> QED
  BY <1>3, <1>4, RequestGoesOn

-----------------------------------------------------------------------------
(* The steps of a turn. *)

\* The lists of events a turn appends.
LEMMA TurnBodies ==
  /\ <<Body("session.status_running")>> \in Seq(Bodies)
  /\ <<Body("session.error")>> \in Seq(Bodies)
  /\ FinalBodies \in Seq(Bodies)
  /\ \A snap \in Sessions, n \in Nat :
       ActionBodies(snap, n) \in Seq(Bodies) /\ Len(ActionBodies(snap, n)) = n + 1
  /\ \A type \in EventTypes, stop \in StopTypes : FailureBodies(type, stop) \in Seq(Bodies)
<1>1. ASSUME NEW snap \in Sessions, NEW n \in Nat
      PROVE  ActionBodies(snap, n) \in Seq(Bodies) /\ Len(ActionBodies(snap, n)) = n + 1
  <2>1. snap.seq + 1 .. snap.seq + n \in SUBSET Nat
    BY DEF Sessions
  <2>2. \A i \in 1 .. n + 1 : ActionBodies(snap, n)[i] \in Bodies
    BY <2>1, BodyValues DEF ActionBodies, EventTypes
  <2>3. ActionBodies(snap, n) \in [1 .. n + 1 -> Bodies]
    BY <2>2 DEF ActionBodies
  <2> QED
    BY <2>3
<1>2. "session.status_running" \in EventTypes /\ "session.error" \in EventTypes
  BY DEF EventTypes
<1>3. FinalBodies \in Seq(Bodies)
  BY BodyValues DEF FinalBodies, EventTypes, StopTypes
<1>4. ASSUME NEW type \in EventTypes, NEW stop \in StopTypes
      PROVE  FailureBodies(type, stop) \in Seq(Bodies)
  BY <1>2, BodyValues DEF FailureBodies
<1> QED
  BY <1>1, <1>2, <1>3, <1>4, BodyValues

\* The details a turn writes are details.
LEMMA TurnDetails ==
  ASSUME NEW snap \in Sessions
  PROVE  /\ snap.details \in Details
         /\ [snap.details EXCEPT !.attempt = 0] \in Details
         /\ \A other \in BOOLEAN :
              [[snap.details EXCEPT !.attempt = 0] EXCEPT !.other = other] \in Details
BY DEF Sessions, Details

\* The rows a turn writes are rows.
LEMMA TurnRows ==
  ASSUME NEW snap \in Sessions, NEW stop \in StopReasons, NEW details \in Details
  PROVE  /\ [snap EXCEPT !.status = "running", !.stop = Stop("in_progress")] \in Sessions
         /\ [snap EXCEPT !.status = "idle", !.stop = stop, !.details = details] \in Sessions
         /\ Rescheduled(snap) \in Sessions
         /\ GivenUp(snap) \in Sessions
         /\ Failed(snap) \in Sessions
<1>1. /\ Stop("in_progress") \in StopReasons
      /\ Stop("transient_error") \in StopReasons
      /\ Stop("error") \in StopReasons
  BY BodyValues DEF StopTypes
<1>2. snap.details.attempt + 1 \in Nat
  BY DEF Sessions, Details
<1> QED
  BY <1>1, <1>2 DEF Sessions, Details, Statuses, Rescheduled, GivenUp, Failed, Attempt

LEMMA TurnKeepsInvariant ==
  ASSUME IInv, NEW t \in Tasks, Invoke(t) \/ TurnStep(t)
  PROVE  IInv' /\ LogGrows
<1> DEFINE snap == task[t].snap
<1>1. /\ task \in [Tasks -> TaskRecords] /\ session \in Sessions
      /\ snap \in Sessions /\ Behind(snap)
  BY DEF IInv, TypeOK, TaskRecords, SnapshotsBehind
<1>2. running \in [Procs -> BOOLEAN] /\ enqueued \in BOOLEAN
  BY DEF IInv, TypeOK
<1>3. /\ "permanent" \in Results /\ "transient" \in Results
      /\ {"start", "startCommit", "context", "contextCommit", "execute",
          "finishCommit", "fail", "failCommit", "exit"} \subseteq TaskPCs
  BY DEF Results, TaskPCs
<1> HIDE DEF snap
<1>4. CASE Invoke(t)
  <2>1. LogGrows
    BY <1>4, NothingWritten DEF Invoke, Unwritten
  <2>2. TasksKept
    BY <1>3, <1>4, <2>1, TaskMoves DEF Invoke
  <2>3. running' \in [Procs -> BOOLEAN]
    BY <1>2, <1>4 DEF Invoke
  <2> QED
    BY <1>2, <1>4, <2>1, <2>2, <2>3, RequestsUnchanged, KeptTogether DEF Invoke
<1>5. CASE StartRead(t)
  <2>1. LogGrows
    BY <1>5, NothingWritten DEF StartRead, Unwritten
  <2>2. TasksKept
    BY <1>3, <1>5, <2>1, TaskMoves DEF StartRead
  <2> QED
    BY <1>2, <1>5, <2>1, <2>2, RequestsUnchanged, KeptTogether DEF StartRead
<1>6. CASE StartCommit(t)
  <2>1. CASE Free(snap, 1)
    <3> DEFINE new == [snap EXCEPT !.status = "running", !.stop = Stop("in_progress")]
               bodies == <<Body("session.status_running")>>
    <3>1. /\ Commit(snap, new, bodies)
          /\ task' = [task EXCEPT ![t].pc = "context", ![t].snap = Created,
                                  ![t].started = snap.seq + 1]
      BY <1>6, <2>1 DEF StartCommit, snap
    <3>2. new \in Sessions /\ bodies \in Seq(Bodies) /\ Len(bodies) = 1
      BY <1>1, TurnDetails, TurnRows, TurnBodies, BodyValues
    <3> HIDE DEF new, bodies
    <3>3. LogGrows
      BY <1>1, <2>1, <3>1, <3>2, 1 \in Nat \ {0}, CommitGrows
    <3>4. PICK record \in TaskRecords :
            record.snap = Created /\ task' = [task EXCEPT ![t] = record]
      <4>1. snap.seq + 1 \in Nat
        BY <1>1 DEF Sessions
      <4>2. [task[t] EXCEPT !.pc = "context", !.snap = Created, !.started = snap.seq + 1]
              \in TaskRecords
        BY <1>1, <1>3, <4>1, BodyValues DEF TaskRecords
      <4> QED
        BY <1>1, <3>1, <4>2 DEF TaskRecords
    <3>5. Behind(record.snap)'
      BY <3>3, <3>4, BodyValues DEF IInv, LogGrows, SnapshotsBehind
    <3> QED
      BY <1>2, <1>6, <3>3, <3>4, <3>5, TaskGoesOn, RequestsUnchanged, KeptTogether DEF StartCommit
  <2>2. CASE ~Free(snap, 1)
    <3>1. LogGrows
      BY <1>6, <2>2, NothingWritten DEF StartCommit, snap
    <3>2. TasksKept
      BY <1>6, <2>2, <3>1, TaskMoves DEF StartCommit, snap
    <3> QED
      BY <1>2, <1>6, <3>1, <3>2, RequestsUnchanged, KeptTogether DEF StartCommit
  <2> QED
    BY <2>1, <2>2
<1>7. CASE Context(t)
  <2>1. LogGrows
    BY <1>7, NothingWritten DEF Context, Unwritten
  <2>2. TasksKept
    BY <1>3, <1>7, <2>1, TaskMoves DEF Context
  <2> QED
    BY <1>2, <1>7, <2>1, <2>2, RequestsUnchanged, KeptTogether DEF Context
<1>8. CASE ContextCommit(t)
  <2>1. CASE Free(snap, 1)
    <3> DEFINE bodies == <<Body("session.error")>>
    <3>1. /\ Commit(snap, snap, bodies)
          /\ task' = [task EXCEPT ![t].pc = "execute", ![t].snap = Created]
      BY <1>8, <2>1 DEF ContextCommit, snap
    <3>2. bodies \in Seq(Bodies) /\ Len(bodies) = 1
      BY TurnBodies
    <3> HIDE DEF bodies
    <3>3. LogGrows
      BY <1>1, <2>1, <3>1, <3>2, 1 \in Nat \ {0}, CommitGrows
    <3>4. PICK record \in TaskRecords :
            record.snap = Created /\ task' = [task EXCEPT ![t] = record]
      <4>1. [task[t] EXCEPT !.pc = "execute", !.snap = Created] \in TaskRecords
        BY <1>1, <1>3, BodyValues DEF TaskRecords
      <4> QED
        BY <1>1, <3>1, <4>1 DEF TaskRecords
    <3>5. Behind(record.snap)'
      BY <3>3, <3>4, BodyValues DEF IInv, LogGrows, SnapshotsBehind
    <3> QED
      BY <1>2, <1>8, <3>3, <3>4, <3>5, TaskGoesOn, RequestsUnchanged, KeptTogether
         DEF ContextCommit
  <2>2. CASE ~Free(snap, 1)
    <3>1. LogGrows
      BY <1>8, <2>2, NothingWritten DEF ContextCommit, snap
    <3>2. TasksKept
      BY <1>3, <1>8, <2>2, <3>1, TaskMoves DEF ContextCommit, snap
    <3> QED
      BY <1>2, <1>8, <3>1, <3>2, RequestsUnchanged, KeptTogether DEF ContextCommit
  <2> QED
    BY <2>1, <2>2
<1>9. CASE Execute(t)
  <2>1. LogGrows
    BY <1>9, NothingWritten DEF Execute, Unwritten
  <2>2. ASSUME NEW failure \in {"transient", "permanent"}, Raise(t, failure)
        PROVE  TasksKept
    BY <1>3, <2>1, <2>2, TaskMoves
  <2>3. ASSUME Leave(t)
        PROVE  TasksKept
    BY <2>1, <2>3, TaskMoves
  <2>4. ASSUME NEW result \in {"end_turn", "requires_action"},
               task' = [task EXCEPT ![t].pc = "finishCommit", ![t].snap = session,
                                    ![t].result = result]
        PROVE  TasksKept
    <3>1. PICK record \in TaskRecords :
            record.snap = session /\ task' = [task EXCEPT ![t] = record]
      <4>1. [task[t] EXCEPT !.pc = "finishCommit", !.snap = session, !.result = result]
              \in TaskRecords
        BY <1>1, <1>3 DEF TaskRecords, Results
      <4> QED
        BY <1>1, <2>4, <4>1 DEF TaskRecords
    <3>2. Behind(record.snap)'
      BY <1>1, <1>9, <3>1 DEF Execute, Behind, Sessions
    <3> QED
      BY <2>1, <3>1, <3>2, TaskGoesOn
  <2>5. TasksKept
    BY <1>9, <2>2, <2>3, <2>4 DEF Execute
  <2> QED
    BY <1>2, <1>9, <2>1, <2>5, RequestsUnchanged, KeptTogether DEF Execute
<1>10. CASE FinishCommit(t)
  <2>1. ASSUME NEW stop \in StopReasons, NEW details \in Details,
               NEW bodies \in Seq(Bodies), Len(bodies) # 0,
               Finish(t, stop, details, bodies)
        PROVE  LogGrows /\ TasksKept
    <3>0. Len(bodies) \in Nat \ {0}
      BY <2>1
    <3> DEFINE new == [snap EXCEPT !.status = "idle", !.stop = stop, !.details = details]
    <3>1. CASE Free(snap, Len(bodies))
      <4>1. Commit(snap, new, bodies) /\ Leave(t)
        BY <2>1, <3>1 DEF Finish, snap
      <4>2. new \in Sessions
        BY <1>1, TurnRows
      <4> HIDE DEF new
      <4>3. LogGrows
        BY <1>1, <3>0, <3>1, <4>1, <4>2, CommitGrows
      <4> QED
        BY <4>1, <4>3, TaskMoves
    <3>2. CASE ~Free(snap, Len(bodies))
      <4>1. Raise(t, "permanent") /\ Unwritten
        BY <2>1, <3>2 DEF Finish, snap
      <4> QED
        BY <1>3, <4>1, NothingWritten, TaskMoves
    <3> QED
      BY <3>1, <3>2
  <2> DEFINE kept == [snap.details EXCEPT !.attempt = 0]
  <2>0. kept \in Details /\ \A other \in BOOLEAN : [kept EXCEPT !.other = other] \in Details
    BY <1>1, TurnDetails
  <2>2. ASSUME NEW other \in BOOLEAN,
               Finish(t, Stop("end_turn"), [kept EXCEPT !.other = other], FinalBodies)
        PROVE  LogGrows /\ TasksKept
    <3>1. Stop("end_turn") \in StopReasons /\ FinalBodies \in Seq(Bodies) /\ Len(FinalBodies) # 0
      BY BodyValues, TurnBodies DEF StopTypes, FinalBodies
    <3> QED
      BY <2>0, <2>1, <2>2, <3>1
  <2>3. ASSUME NEW n \in 1 .. MaxActions,
               Finish(t, RequiresAction(snap.seq + 1 .. snap.seq + n), kept,
                      ActionBodies(snap, n))
        PROVE  LogGrows /\ TasksKept
    <3>1. n \in Nat /\ snap.seq + 1 .. snap.seq + n \in SUBSET Nat
      BY <1>1, BoundsAssumption DEF Sessions
    <3>2. /\ ActionBodies(snap, n) \in Seq(Bodies)
          /\ Len(ActionBodies(snap, n)) = n + 1
      BY <1>1, <3>1, TurnBodies
    <3>3. Len(ActionBodies(snap, n)) # 0
      BY <3>1, <3>2
    <3>4. RequiresAction(snap.seq + 1 .. snap.seq + n) \in StopReasons
      BY <3>1, BodyValues
    <3> QED
      BY <2>0, <2>1, <2>3, <3>2, <3>3, <3>4
  <2>4. LogGrows /\ TasksKept
    BY <1>10, <2>2, <2>3 DEF FinishCommit, snap
  <2> QED
    BY <1>2, <1>10, <2>4, RequestsUnchanged, KeptTogether DEF FinishCommit
<1>11. CASE FailRead(t)
  <2>1. LogGrows
    BY <1>11, NothingWritten DEF FailRead, Unwritten
  <2>2. TasksKept
    BY <1>3, <1>11, <2>1, TaskMoves DEF FailRead
  <2> QED
    BY <1>2, <1>11, <2>1, <2>2, RequestsUnchanged, KeptTogether DEF FailRead
<1>12. CASE FailCommit(t)
  <2>1. ASSUME NEW new \in Sessions, NEW type \in EventTypes, NEW stop \in StopTypes,
               Free(snap, 2), Commit(snap, new, FailureBodies(type, stop))
        PROVE  LogGrows
    <3>1. FailureBodies(type, stop) \in Seq(Bodies) /\ Len(FailureBodies(type, stop)) = 2
      BY TurnBodies DEF FailureBodies
    <3> QED
      BY <1>1, <2>1, <3>1, 2 \in Nat \ {0}, CommitGrows
  <2>2. /\ Rescheduled(snap) \in Sessions /\ GivenUp(snap) \in Sessions
        /\ Failed(snap) \in Sessions
    BY <1>1, BodyValues, TurnDetails, TurnRows DEF StopTypes
  <2>3. LogGrows
    BY <1>12, <2>1, <2>2, NothingWritten DEF FailCommit, snap, EventTypes, StopTypes
  <2>4. TasksKept
    BY <1>12, <2>3, TaskMoves DEF FailCommit
  <2> QED
    BY <1>2, <1>12, <2>3, <2>4, RequestsUnchanged, KeptTogether DEF FailCommit
<1>13. CASE Exit(t)
  <2>1. LogGrows
    BY <1>13, NothingWritten DEF Exit, Unwritten
  <2>2. PICK record \in TaskRecords :
          record.snap = Created /\ task' = [task EXCEPT ![t] = record]
    BY <1>13, BodyValues DEF Exit, NoTask, TaskRecords, TaskPCs, Results
  <2>3. Behind(record.snap)'
    BY <2>1, <2>2, BodyValues DEF IInv, LogGrows, SnapshotsBehind
  <2>4. running' \in [Procs -> BOOLEAN]
    BY <1>2, <1>13 DEF Exit
  <2> QED
    BY <1>2, <1>13, <2>1, <2>2, <2>3, <2>4, TaskGoesOn, RequestsUnchanged, KeptTogether DEF Exit
<1> QED
  BY <1>4, <1>5, <1>6, <1>7, <1>8, <1>9, <1>10, <1>11, <1>12, <1>13 DEF TurnStep

\* A process that dies drops its tasks' snapshots.
LEMMA CrashKeepsInvariant ==
  ASSUME IInv, NEW p \in Procs, Crash(p)
  PROVE  IInv' /\ LogGrows
<1>1. LogGrows
  BY NothingWritten DEF Crash, Unwritten
<1>2. NoTask \in TaskRecords /\ NoTask.snap = Created
  BY BodyValues DEF NoTask, TaskRecords, TaskPCs, Results
<1>3. /\ task \in [Tasks -> TaskRecords]
      /\ \A t \in Tasks : Behind(task[t].snap)
      /\ Behind(Created)
  BY DEF IInv, TypeOK, SnapshotsBehind, TaskRecords
<1>4. task' = [t \in Tasks |-> IF ProcOf[t] = p THEN NoTask ELSE task[t]] /\ UNCHANGED session
  BY DEF Crash
<1>5. \A t \in Tasks : Behind(task[t].snap)'
  BY <1>2, <1>3, <1>4 DEF Behind
<1>6. TasksKept
  BY <1>2, <1>3, <1>4, <1>5 DEF TasksKept
<1>7. running' \in [Procs -> BOOLEAN] /\ enqueued' \in BOOLEAN
  BY DEF Crash, IInv, TypeOK
<1> QED
  BY <1>1, <1>6, <1>7, RequestsUnchanged, KeptTogether DEF Crash

-----------------------------------------------------------------------------
(* The steps of a request. *)

LEMMA BeginKeepsInvariant ==
  ASSUME IInv, NEW r \in Requests, NEW op, NEW batch \in Seq(Bodies), Begin(r, op, batch)
  PROVE  IInv' /\ LogGrows
<1>1. LogGrows
  BY NothingWritten DEF Begin, Unwritten
<1>2. PICK record \in RequestRecords :
        record.snap = session /\ req' = [req EXCEPT ![r] = record]
  BY DEF Begin, RequestRecords, IInv, TypeOK
<1>3. Behind(record.snap)'
  BY <1>2 DEF Begin, Behind, IInv, TypeOK, Sessions
<1>4. RequestsKept
  BY <1>1, <1>2, <1>3, RequestGoesOn
<1> QED
  BY <1>1, <1>4, TasksUnchanged, KeptTogether DEF Begin, IInv, TypeOK

LEMMA EndKeepsInvariant ==
  ASSUME IInv, NEW r \in Requests, NEW op,
         NEW new \in Sessions, NEW bodies \in Seq(Bodies), Len(bodies) # 0,
         End(r, op, new, bodies), enqueued' \in BOOLEAN
  PROVE  IInv' /\ LogGrows
<1> DEFINE snap == req[r].snap
<1>1. snap \in Sessions /\ Behind(snap) /\ Len(bodies) \in Nat \ {0}
  BY DEF IInv, TypeOK, SnapshotsBehind
<1>2. LogGrows
  <2>1. CASE Free(snap, Len(bodies)) /\ Commit(snap, new, bodies)
    <3> HIDE DEF snap
    <3> QED
      BY <1>1, <2>1, CommitGrows
  <2>2. CASE Unwritten
    BY <2>2, NothingWritten
  <2> QED
    BY <2>1, <2>2 DEF End
<1>3. RequestsKept
  BY <1>2, RequestEnds DEF End
<1>4. running' \in [Procs -> BOOLEAN]
  BY DEF End, IInv, TypeOK
<1> QED
  BY <1>2, <1>3, <1>4, TasksUnchanged, KeptTogether DEF End

LEMMA EndSilentlyKeepsInvariant ==
  ASSUME IInv, NEW r \in Requests, NEW op, NEW new \in Sessions,
         new.status = req[r].snap.status, new.stop = req[r].snap.stop,
         new.deleted = req[r].snap.deleted, new.seq = req[r].snap.seq,
         EndSilently(r, op, new), enqueued' \in BOOLEAN
  PROVE  IInv' /\ LogGrows
<1>1. req[r].snap \in Sessions
  BY DEF IInv, TypeOK
<1>2. /\ session' \in Sessions
      /\ session'.seq = session.seq /\ session'.status = session.status
      /\ session'.stop = session.stop /\ session'.deleted = session.deleted
  BY <1>1 DEF EndSilently, Written, Column, IInv, TypeOK, Sessions
<1>3. LogGrows
  BY <1>2, SilentWrite DEF EndSilently
<1>4. RequestsKept
  BY <1>3, RequestEnds DEF EndSilently
<1>5. running' \in [Procs -> BOOLEAN]
  BY DEF EndSilently, IInv, TypeOK
<1> QED
  BY <1>3, <1>4, <1>5, TasksUnchanged, KeptTogether DEF EndSilently

LEMMA BatchValues ==
  ASSUME TypeOK, NEW batch \in Batches(session)
  PROVE  batch \in Seq(Bodies)
<1>1. PICK n \in 1 .. MaxBatch : batch \in [1 .. n -> Inputs(session)]
  BY DEF Batches
<1>2. n \in Nat
  BY <1>1, BoundsAssumption
<1>3. Inputs(session) \subseteq Bodies
  <2>1. ASSUME NEW type \in InputTypes PROVE Body(type) \in Bodies
    BY InputTypesAssumption, BodyValues DEF EventTypes
  <2>2. ASSUME NEW id \in PendingActionIds(session.stop)
        PROVE  [Body("action_result") EXCEPT !.target = id] \in Bodies
    <3>1. id \in Nat
      BY DEF TypeOK, Sessions, StopReasons, PendingActionIds
    <3>2. Body("action_result") \in Bodies
      BY BodyValues DEF EventTypes
    <3> QED
      BY <3>1, <3>2 DEF Bodies
  <2> QED
    BY <2>1, <2>2 DEF Inputs
<1> QED
  BY <1>1, <1>2, <1>3

\* The rows a handler writes are rows.
LEMMA HandlerRows ==
  ASSUME NEW snap \in Sessions
  PROVE  /\ \A other \in BOOLEAN : [snap EXCEPT !.details.other = other] \in Sessions
         /\ [snap EXCEPT !.archived = TRUE] \in Sessions
         /\ [snap EXCEPT !.deleted = TRUE, !.status = "terminated"] \in Sessions
         /\ [snap EXCEPT !.status = "terminated", !.stop = Stop("cancelled")] \in Sessions
         /\ [snap EXCEPT !.status = "idle", !.stop = Stop("interrupted")] \in Sessions
         /\ [snap EXCEPT !.status = "idle", !.stop = Stop("action_submitted")] \in Sessions
<1>1. /\ Stop("cancelled") \in StopReasons
      /\ Stop("interrupted") \in StopReasons
      /\ Stop("action_submitted") \in StopReasons
  BY BodyValues DEF StopTypes
<1> QED
  BY <1>1 DEF Sessions, Details, Statuses

LEMMA SendKeepsInvariant ==
  ASSUME IInv, NEW r \in Requests, EndSend(r)
  PROVE  IInv' /\ LogGrows
<1> DEFINE snap == req[r].snap
           batch == req[r].batch
<1>1. snap \in Sessions /\ batch \in Seq(Bodies) /\ enqueued \in BOOLEAN
  BY DEF IInv, TypeOK
<1>2. CASE Contains(batch, IsInterrupt)
  <2> DEFINE new == [snap EXCEPT !.status = "idle", !.stop = Stop("interrupted")]
             bodies == Append(batch, StatusBody("session.status_idle", Stop("interrupted")))
  <2>1. End(r, "send", new, bodies) /\ enqueued' = enqueued
    BY <1>2 DEF EndSend
  <2>2. new \in Sessions
    BY <1>1, HandlerRows
  <2>3. StatusBody("session.status_idle", Stop("interrupted")) \in Bodies
    BY BodyValues DEF StopTypes, EventTypes
  <2>4. bodies \in Seq(Bodies) /\ Len(bodies) # 0
    BY <1>1, <2>3
  <2> HIDE DEF new, bodies
  <2> QED
    BY <1>1, <2>1, <2>2, <2>4, EndKeepsInvariant
<1>3. CASE ~Contains(batch, IsInterrupt) /\ Contains(batch, IsActionResult)
  <2> DEFINE submitted == [snap EXCEPT !.status = "idle", !.stop = Stop("action_submitted")]
             resolved == AllPendingActionsResolved(snap, batch)
             new == IF resolved THEN submitted ELSE snap
  <2>1. /\ End(r, "send", new, batch)
        /\ enqueued' = (enqueued \/ (resolved /\ Free(snap, Len(batch))))
    BY <1>3 DEF EndSend
  <2>2. new \in Sessions
    BY <1>1, HandlerRows
  <2>3. Len(batch) # 0
    BY <1>1, <1>3 DEF Contains
  <2>4. enqueued' \in BOOLEAN
    BY <1>1, <2>1
  <2> HIDE DEF new
  <2> QED
    BY <1>1, <2>1, <2>2, <2>3, <2>4, EndKeepsInvariant
<1>4. CASE ~Contains(batch, IsInterrupt) /\ ~Contains(batch, IsActionResult)
  <2>1. /\ End(r, "send", snap, batch)
        /\ enqueued' = (enqueued \/ (Contains(batch, StartsWork) /\ Free(snap, Len(batch))))
    BY <1>4 DEF EndSend
  <2>2. enqueued' \in BOOLEAN
    BY <1>1, <2>1
  <2>3. CASE Len(batch) # 0
    BY <1>1, <2>1, <2>2, <2>3, EndKeepsInvariant
  <2>4. CASE Len(batch) = 0
    <3>1. Numbered(snap.seq, batch) = {}
      BY <1>1, <2>4 DEF Numbered
    <3>2. snap.seq + Len(batch) = snap.seq
      BY <1>1, <2>4 DEF Sessions
    <3>3. Unwritten
      BY <1>1, <2>1, <3>1, <3>2 DEF End, Commit, Written, Column, Unwritten, IInv, TypeOK, Sessions
    <3>4. LogGrows
      BY <3>3, NothingWritten
    <3>5. RequestsKept
      BY <2>1, <3>4, RequestEnds DEF End
    <3>6. running' \in [Procs -> BOOLEAN]
      BY <2>1 DEF End, IInv, TypeOK
    <3> QED
      BY <2>1, <2>2, <3>4, <3>5, <3>6, TasksUnchanged, KeptTogether DEF End
  <2> QED
    BY <2>3, <2>4
<1> QED
  BY <1>2, <1>3, <1>4

LEMMA RequestKeepsInvariant ==
  ASSUME IInv, NEW r \in Requests, RequestStep(r)
  PROVE  IInv' /\ LogGrows
<1> DEFINE snap == req[r].snap
<1>1. snap \in Sessions /\ enqueued \in BOOLEAN
  BY DEF IInv, TypeOK
<1>2. CASE BeginSend(r)
  <2>1. PICK batch \in Batches(session) : Begin(r, "send", batch)
    BY <1>2 DEF BeginSend
  <2>2. batch \in Seq(Bodies)
    BY BatchValues DEF IInv
  <2> QED
    BY <2>1, <2>2, BeginKeepsInvariant
<1>3. CASE \E op : Begin(r, op, <<>>)
  <2>1. <<>> \in Seq(Bodies)
    OBVIOUS
  <2> QED
    BY <1>3, <2>1, BeginKeepsInvariant
<1>4. CASE EndUpdate(r)
  <2>1. <<Body("session.updated")>> \in Seq(Bodies) /\ Len(<<Body("session.updated")>>) # 0
    BY BodyValues DEF EventTypes
  <2> QED
    BY <1>1, <1>4, <2>1, EndKeepsInvariant DEF EndUpdate
<1>5. CASE EndUpdateAgent(r)
  <2>1. <<Body("session.updated")>> \in Seq(Bodies) /\ Len(<<Body("session.updated")>>) # 0
    BY BodyValues DEF EventTypes
  <2> QED
    BY <1>1, <1>5, <2>1, HandlerRows, EndKeepsInvariant DEF EndUpdateAgent
<1>6. CASE EndArchive(r)
  <2> DEFINE new == [snap EXCEPT !.archived = TRUE]
  <2>1. /\ new \in Sessions /\ new.status = snap.status /\ new.stop = snap.stop
        /\ new.deleted = snap.deleted /\ new.seq = snap.seq
    BY <1>1, HandlerRows DEF Sessions
  <2>2. EndSilently(r, "archive", new) /\ enqueued' \in BOOLEAN
    BY <1>1, <1>6 DEF EndArchive
  <2> HIDE DEF new
  <2> QED
    BY <2>1, <2>2, EndSilentlyKeepsInvariant
<1>7. CASE EndArchiveThread(r)
  <2>1. session \in Sessions /\ [snap.details EXCEPT !.threadArchived = TRUE] \in Details
    BY <1>1 DEF IInv, TypeOK, Sessions, Details
  <2>2. session' = [session EXCEPT !.details = [snap.details EXCEPT !.threadArchived = TRUE]]
    BY <1>7 DEF EndArchiveThread
  <2>3. /\ session' \in Sessions
        /\ session'.seq = session.seq /\ session'.status = session.status
        /\ session'.stop = session.stop /\ session'.deleted = session.deleted
    BY <2>1, <2>2 DEF Sessions
  <2>4. LogGrows
    BY <1>7, <2>3, SilentWrite DEF EndArchiveThread
  <2>5. RequestsKept
    BY <1>7, <2>4, RequestEnds DEF EndArchiveThread
  <2>6. running' \in [Procs -> BOOLEAN]
    BY <1>7 DEF EndArchiveThread, IInv, TypeOK
  <2> QED
    BY <1>1, <1>7, <2>4, <2>5, <2>6, TasksUnchanged, KeptTogether DEF EndArchiveThread
<1>8. CASE EndResume(r)
  BY <1>1, <1>8, EndSilentlyKeepsInvariant DEF EndResume
<1>9. CASE EndDelete(r)
  <2>1. <<Body("session.deleted")>> \in Seq(Bodies) /\ Len(<<Body("session.deleted")>>) # 0
    BY BodyValues DEF EventTypes
  <2> QED
    BY <1>1, <1>9, <2>1, HandlerRows, EndKeepsInvariant DEF EndDelete
<1>10. CASE EndCancel(r)
  <2> DEFINE bodies == <<StatusBody("session.status_terminated", Stop("cancelled"))>>
  <2>1. bodies \in Seq(Bodies) /\ Len(bodies) # 0
    BY BodyValues DEF EventTypes, StopTypes
  <2> QED
    BY <1>1, <1>10, <2>1, HandlerRows, EndKeepsInvariant DEF EndCancel
<1> QED
  BY <1>2, <1>3, <1>4, <1>5, <1>6, <1>7, <1>8, <1>9, <1>10, SendKeepsInvariant
     DEF RequestStep, BeginUpdate, BeginUpdateAgent, BeginArchive, BeginArchiveThread,
         BeginDelete, BeginCancel, BeginResume

-----------------------------------------------------------------------------
(* The theorems. *)

LEMMA InitInvariant == Init => IInv
<1> SUFFICES ASSUME Init PROVE IInv
  OBVIOUS
<1> DEFINE body == StatusBody("session.status_idle", Stop("end_turn"))
<1>1. body \in Bodies
  BY BodyValues DEF EventTypes, StopTypes
<1>2. events = {[seq |-> 1, type |-> body.type, stop |-> body.stop, target |-> body.target]}
  BY DEF Init, Numbered
<1> HIDE DEF body
<1>3. events \subseteq Events
  BY <1>1, <1>2 DEF Events, Bodies
<1>4. session = Created /\ session.seq = 1
  BY DEF Init, Created
<1>5. EventLogDense
  BY <1>2, <1>4 DEF EventLogDense
<1>6. NoTask \in TaskRecords /\ NoTask.snap = Created
  BY BodyValues DEF NoTask, TaskRecords, TaskPCs, Results
<1>7. NoRequest \in RequestRecords /\ NoRequest.snap = Created
  BY BodyValues DEF NoRequest, RequestRecords
<1>8. Behind(Created)
  BY <1>4 DEF Behind
<1>9. TypeOK
  BY <1>3, <1>4, <1>6, <1>7, BodyValues DEF Init, TypeOK, TaskRecords, RequestRecords
<1>10. SnapshotsBehind
  BY <1>6, <1>7, <1>8 DEF Init, SnapshotsBehind
<1> QED
  BY <1>5, <1>9, <1>10 DEF IInv

LEMMA StepInvariant == IInv /\ [Next]_vars => IInv' /\ LogGrows
<1> SUFFICES ASSUME IInv, [Next]_vars PROVE IInv' /\ LogGrows
  OBVIOUS
<1>1. CASE UNCHANGED vars
  <2>1. LogGrows
    BY <1>1, NothingWritten DEF vars, Unwritten
  <2> QED
    BY <1>1, <2>1, TasksUnchanged, RequestsUnchanged, KeptTogether DEF vars, IInv, TypeOK
<1>2. CASE Next
  BY <1>2, TurnKeepsInvariant, RequestKeepsInvariant, CrashKeepsInvariant DEF Next
<1> QED
  BY <1>1, <1>2

\* Every variable always holds a value of the program, for any number of tasks,
\* processes and requests and any limits.
THEOREM TypeCorrect == Spec => []TypeOK
<1>1. Spec => []IInv
  BY InitInvariant, StepInvariant, PTL DEF Spec
<1>2. IInv => TypeOK
  BY DEF IInv
<1> QED
  BY <1>1, <1>2, PTL

\* append_event: whatever transactions interleave, the event numbers of a session
\* are 1 .. last_event_seq, each used once.
THEOREM LogDense == Spec => []EventLogDense
<1>1. Spec => []IInv
  BY InitInvariant, StepInvariant, PTL DEF Spec
<1>2. IInv => EventLogDense
  BY DEF IInv
<1> QED
  BY <1>1, <1>2, PTL
=============================================================================
