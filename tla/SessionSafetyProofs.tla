------------------------- MODULE SessionSafetyProofs ------------------------
(* The properties of SessionTurns that rest on what a handler or a turn       *)
(* decided when it read the row, for every value of the constants.            *)
EXTENDS SessionTurnsProofs

-----------------------------------------------------------------------------
(* What was decided on a snapshot. *)

\* _validate_event_batch, as far as it depends on the row alone.
SendDecided(snap, batch) ==
  /\ snap.status # "terminated"
  /\ batch \in Batches(snap)
  /\ Contains(batch, IsActionResult) =>
       /\ ~BlocksMutation(snap.status)
       /\ IsWaitingForAction(snap.stop)
       /\ ~Contains(batch, IsInterrupt)
       /\ \A i, j \in DOMAIN batch :
            IsActionResult(batch[i].type) /\ batch[j].target = batch[i].target => i = j

TaskDecided(t) ==
  /\ task[t].pc = "startCommit" =>
       ~task[t].snap.deleted /\ CanStartWork(task[t].snap.status, task[t].snap.stop)
  /\ task[t].pc = "finishCommit" => task[t].snap.status = "running"

RequestDecided(r) ==
  /\ req[r].op # "none" => ~req[r].snap.deleted
  /\ req[r].op = "delete" => ~BlocksMutation(req[r].snap.status)
  /\ req[r].op = "send" => SendDecided(req[r].snap, req[r].batch)

Decisions ==
  /\ \A t \in Tasks : TaskDecided(t)
  /\ \A r \in Requests : RequestDecided(r)

LEMMA TaskKeepsDecisions ==
  ASSUME IInv, Decisions, NEW t \in Tasks, Invoke(t) \/ TurnStep(t)
  PROVE  Decisions'
<1>1. task \in [Tasks -> TaskRecords]
  BY DEF IInv, TypeOK, TaskRecords
<1>2. UNCHANGED req
  BY DEF Invoke, TurnStep, StartRead, StartCommit, Context, ContextCommit, Execute,
         FinishCommit, FailRead, FailCommit, Exit
<1>3. \A u \in Tasks \ {t} : task'[u] = task[u]
  BY <1>1 DEF Invoke, TurnStep, StartRead, StartCommit, Context, ContextCommit, Execute,
         FinishCommit, Finish, FailRead, FailCommit, Exit, Goto, Hold, Raise, Leave
<1>4. TaskDecided(t)'
  <2>1. CASE StartRead(t)
    BY <1>1, <2>1 DEF StartRead, Goto, Hold, TaskDecided, TaskRecords
  <2>2. CASE Execute(t)
    BY <1>1, <2>2 DEF Execute, Raise, Leave, TaskDecided, TaskRecords
  <2>3. CASE ~StartRead(t) /\ ~Execute(t)
    <3>1. CASE Invoke(t) \/ Context(t) \/ FailRead(t) \/ Exit(t)
      BY <1>1, <3>1 DEF Invoke, Context, FailRead, Exit, Goto, Hold, Raise, NoTask,
         TaskRecords, TaskDecided
    <3>2. CASE StartCommit(t) \/ ContextCommit(t)
      BY <1>1, <3>2 DEF StartCommit, ContextCommit, Leave, Raise, TaskRecords, TaskDecided
    <3>3. CASE FinishCommit(t) \/ FailCommit(t)
      <4>1. Leave(t) \/ Raise(t, "permanent")
        BY <3>3 DEF FinishCommit, Finish, FailCommit
      <4> QED
        BY <1>1, <4>1 DEF Leave, Raise, TaskRecords, TaskDecided
    <3> QED
      BY <2>3, <3>1, <3>2, <3>3 DEF TurnStep
  <2> QED
    BY <2>1, <2>2, <2>3
<1> QED
  BY <1>2, <1>3, <1>4 DEF Decisions, TaskDecided, RequestDecided

LEMMA CrashKeepsDecisions ==
  ASSUME IInv, Decisions, NEW p \in Procs, Crash(p)
  PROVE  Decisions'
BY DEF IInv, TypeOK, Decisions, Crash, TaskDecided, RequestDecided, NoTask

LEMMA RequestKeepsDecisions ==
  ASSUME IInv, Decisions, NEW r \in Requests, RequestStep(r)
  PROVE  Decisions'
<1>1. req \in [Requests -> RequestRecords]
  BY DEF IInv, TypeOK, RequestRecords
<1>2. UNCHANGED task
  BY DEF RequestStep, BeginUpdate, EndUpdate, BeginUpdateAgent, EndUpdateAgent, BeginArchive,
         EndArchive, BeginArchiveThread, EndArchiveThread, BeginDelete, EndDelete,
         BeginCancel, EndCancel, BeginResume, EndResume, BeginSend, EndSend,
         Begin, End, EndSilently
<1>3. ASSUME NEW op, NEW batch, Begin(r, op, batch),
             op = "delete" => ~BlocksMutation(session.status),
             op = "send" => SendDecided(session, batch)
      PROVE  Decisions'
  <2>1. req' = [req EXCEPT ![r] = [op |-> op, batch |-> batch, snap |-> session]]
    BY <1>3 DEF Begin
  <2>2. RequestDecided(r)'
    BY <1>1, <1>3, <2>1 DEF RequestDecided, Begin
  <2> QED
    BY <1>1, <1>2, <2>1, <2>2 DEF Decisions, RequestDecided, TaskDecided
<1>4. ASSUME req' = [req EXCEPT ![r] = NoRequest]
      PROVE  Decisions'
  BY <1>1, <1>2, <1>4 DEF Decisions, RequestDecided, TaskDecided, NoRequest
<1>5. CASE BeginSend(r)
  <2>1. PICK batch \in Batches(session) : BatchValid(session, batch) /\ Begin(r, "send", batch)
    BY <1>5 DEF BeginSend
  <2>2. SendDecided(session, batch)
    BY <1>5, <2>1 DEF SendDecided, BeginSend, BatchValid, ActionResultsValid, Contains,
       IsActionResult, IsInterrupt, Body
  <2> QED
    BY <1>3, <2>1, <2>2
<1>6. CASE EndUpdate(r) \/ EndUpdateAgent(r) \/ EndArchive(r) \/ EndArchiveThread(r) \/
           EndDelete(r) \/ EndCancel(r) \/ EndResume(r) \/ EndSend(r)
  BY <1>4, <1>6 DEF EndUpdate, EndUpdateAgent, EndArchive, EndArchiveThread, EndDelete,
     EndCancel, EndResume, EndSend, End, EndSilently
<1> QED
  BY <1>3, <1>5, <1>6 DEF RequestStep, BeginUpdate, BeginUpdateAgent, BeginArchive,
     BeginArchiveThread, BeginDelete, BeginCancel, BeginResume

LEMMA StepDecisions == IInv /\ Decisions /\ [Next]_vars => Decisions'
<1> SUFFICES ASSUME IInv, Decisions, [Next]_vars PROVE Decisions'
  OBVIOUS
<1>1. CASE UNCHANGED vars
  BY <1>1 DEF vars, Decisions, TaskDecided, RequestDecided
<1> QED
  BY <1>1, TaskKeepsDecisions, RequestKeepsDecisions, CrashKeepsDecisions DEF Next

LEMMA InitDecisions == Init => Decisions
BY DEF Init, Decisions, TaskDecided, RequestDecided, NoTask, NoRequest

-----------------------------------------------------------------------------
(* Turns are exclusive, and none starts in a deleted session. *)

\* What the commit of a turn's start does, and that its decision still stands.
LEMMA StartCommits ==
  ASSUME IInv, Decisions, NEW t \in Tasks, StartCommit(t), Free(task[t].snap, 1)
  PROVE  /\ session'.seq = session.seq + 1
         /\ session'.status = "running"
         /\ session'.stop = Stop("in_progress")
         /\ session'.deleted = session.deleted
         /\ ~session.deleted
         /\ CanStartWork(session.status, session.stop)
         /\ events' = events \cup Numbered(session.seq, <<Body("session.status_running")>>)
         /\ task' = [task EXCEPT ![t].pc = "context", ![t].snap = Created,
                                 ![t].started = session.seq + 1]
<1> DEFINE snap == task[t].snap
           new == [snap EXCEPT !.status = "running", !.stop = Stop("in_progress")]
           bodies == <<Body("session.status_running")>>
<1>1. snap \in Sessions /\ Behind(snap)
  BY DEF IInv, TypeOK, SnapshotsBehind
<1>2. /\ Commit(snap, new, bodies)
      /\ task' = [task EXCEPT ![t].pc = "context", ![t].snap = Created,
                              ![t].started = snap.seq + 1]
      /\ task[t].pc = "startCommit"
  BY DEF StartCommit
<1>3. /\ new \in Sessions /\ bodies \in Seq(Bodies) /\ Len(bodies) = 1
      /\ new.status = "running" /\ new.stop = Stop("in_progress") /\ new.deleted = snap.deleted
  BY <1>1, TurnDetails, TurnRows, TurnBodies, BodyValues DEF Sessions
<1>4. ~snap.deleted /\ CanStartWork(snap.status, snap.stop)
  BY <1>2 DEF Decisions, TaskDecided
<1> HIDE DEF new, bodies
<1>5. /\ snap.seq = session.seq /\ snap.status = session.status
      /\ snap.stop = session.stop /\ snap.deleted = session.deleted
      /\ session'.seq = session.seq + 1
      /\ session'.status = new.status /\ session'.stop = new.stop
      /\ session'.deleted = new.deleted
      /\ events' = events \cup Numbered(session.seq, bodies)
  BY <1>1, <1>2, <1>3, 1 \in Nat \ {0}, CommitActsNow
<1> QED
  BY <1>2, <1>3, <1>4, <1>5 DEF bodies

\* Only the commit of a start gives a task a turn.
LEMMA StartsOnlyByCommit ==
  ASSUME IInv, [Next]_vars,
         ~\E t \in Tasks : StartCommit(t) /\ Free(task[t].snap, 1)
  PROVE  \A u \in Tasks : task'[u].started \in {0, task[u].started}
<1>1. task \in [Tasks -> TaskRecords]
  BY DEF IInv, TypeOK, TaskRecords
<1>2. CASE UNCHANGED task
  BY <1>1, <1>2
<1>3. ASSUME NEW t \in Tasks, Invoke(t) \/ TurnStep(t)
      PROVE  \A u \in Tasks : task'[u].started \in {0, task[u].started}
  <2>1. CASE Invoke(t) \/ StartRead(t) \/ Context(t) \/ FailRead(t) \/ Execute(t) \/ Exit(t)
    BY <1>1, <2>1 DEF Invoke, StartRead, Context, FailRead, Execute, Exit, Goto, Hold, Raise,
       Leave, NoTask, TaskRecords
  <2>2. CASE ContextCommit(t)
    BY <1>1, <2>2 DEF ContextCommit, Raise, TaskRecords
  <2>3. CASE StartCommit(t) \/ FinishCommit(t) \/ FailCommit(t)
    <3>1. Leave(t) \/ Raise(t, "permanent")
      BY <2>3 DEF StartCommit, FinishCommit, Finish, FailCommit
    <3> QED
      BY <1>1, <3>1 DEF Leave, Raise, TaskRecords
  <2> QED
    BY <1>3, <2>1, <2>2, <2>3 DEF TurnStep
<1>4. ASSUME NEW p \in Procs, Crash(p)
      PROVE  \A u \in Tasks : task'[u].started \in {0, task[u].started}
  BY <1>1, <1>4 DEF Crash, NoTask
<1>5. ASSUME NEW r \in Requests, RequestStep(r)
      PROVE  UNCHANGED task
  BY <1>5 DEF RequestStep, BeginUpdate, EndUpdate, BeginUpdateAgent, EndUpdateAgent, BeginArchive,
         EndArchive, BeginArchiveThread, EndArchiveThread, BeginDelete, EndDelete,
         BeginCancel, EndCancel, BeginResume, EndResume, BeginSend, EndSend,
         Begin, End, EndSilently
<1> QED
  BY <1>2, <1>3, <1>4, <1>5 DEF Next, vars

TurnInv == TurnExclusive /\ \A t \in Tasks : task[t].started <= session.seq

LEMMA StepTurn == IInv /\ Decisions /\ TurnInv /\ [Next]_vars => TurnInv'
<1> SUFFICES ASSUME IInv, Decisions, TurnInv, [Next]_vars PROVE TurnInv'
  OBVIOUS
<1>1. /\ task \in [Tasks -> TaskRecords]
      /\ session.seq \in Nat /\ session'.seq \in Nat /\ session'.seq >= session.seq
      /\ \A u \in Tasks : task[u].started \in Nat
  BY StepInvariant DEF IInv, TypeOK, LogGrows, Sessions, TaskRecords
<1>2. CASE \E t \in Tasks : StartCommit(t) /\ Free(task[t].snap, 1)
  <2>1. PICK t \in Tasks : StartCommit(t) /\ Free(task[t].snap, 1)
    BY <1>2
  <2>2. /\ session'.seq = session.seq + 1
        /\ task' = [task EXCEPT ![t].pc = "context", ![t].snap = Created,
                                ![t].started = session.seq + 1]
    BY <2>1, StartCommits
  <2>3. \A u \in Tasks : task'[u].started = IF u = t THEN session.seq + 1 ELSE task[u].started
    BY <1>1, <2>2 DEF TaskRecords
  <2> QED
    BY <1>1, <2>2, <2>3 DEF TurnInv, TurnExclusive
<1>3. CASE ~\E t \in Tasks : StartCommit(t) /\ Free(task[t].snap, 1)
  <2>1. \A u \in Tasks : task'[u].started \in {0, task[u].started}
    BY <1>3, StartsOnlyByCommit
  <2> QED
    BY <1>1, <2>1 DEF TurnInv, TurnExclusive
<1> QED
  BY <1>2, <1>3

\* run_session_turn: whichever processes run the tasks, two executions never
\* believe that they started the same turn, because the event that announces the
\* start of a turn has a number of its own.
THEOREM TurnsExclusive == Spec => []TurnExclusive
<1>1. Init => TurnInv
  BY DEF Init, TurnInv, TurnExclusive, NoTask, Created
<1>2. TurnInv => TurnExclusive
  BY DEF TurnInv
<1> QED
  BY <1>1, <1>2, InitInvariant, StepInvariant, InitDecisions, StepDecisions, StepTurn, PTL
     DEF Spec

-----------------------------------------------------------------------------
(* What a step does to the session and its log, in terms of the row as it is  *)
(* when the step is taken.                                                    *)

Appends(bodies) ==
  /\ events' = events \cup Numbered(session.seq, bodies)
  /\ session'.seq = session.seq + Len(bodies)

Becomes(status, stop) ==
  session'.status = status /\ session'.stop = stop /\ session'.deleted = session.deleted

Stays == Becomes(session.status, session.stop)

\* Bodies that announce no status and answer no action.
IsNote(bodies) ==
  \A i \in DOMAIN bodies :
    bodies[i].type \notin StatusTypes /\ ~IsActionResult(bodies[i].type)

Quiet == UNCHANGED events /\ session'.seq = session.seq /\ Stays

Notes == \E bodies \in Seq(Bodies) : IsNote(bodies) /\ Appends(bodies) /\ Stays

Starts ==
  /\ ~session.deleted /\ CanStartWork(session.status, session.stop)
  /\ Appends(<<Body("session.status_running")>>)
  /\ Becomes("running", Stop("in_progress"))

Ends ==
  /\ session.status = "running"
  /\ Appends(FinalBodies)
  /\ Becomes("idle", Stop("end_turn"))

Asks ==
  /\ session.status = "running"
  /\ \E n \in 1 .. MaxActions :
       /\ Appends(ActionBodies(session, n))
       /\ Becomes("idle", RequiresAction(session.seq + 1 .. session.seq + n))

Fails ==
  \/ /\ Appends(FailureBodies("session.status_rescheduled", "transient_error"))
     /\ Becomes("rescheduling", Stop("transient_error"))
  \/ /\ Appends(FailureBodies("session.status_terminated", "error"))
     /\ Becomes("terminated", Stop("error"))

Interrupts ==
  /\ ~session.deleted /\ session.status # "terminated"
  /\ \E batch \in Seq(Bodies) :
       /\ IsNote(batch)
       /\ Appends(Append(batch, StatusBody("session.status_idle", Stop("interrupted"))))
  /\ Becomes("idle", Stop("interrupted"))

Answers ==
  /\ ~session.deleted /\ session.status = "idle" /\ IsWaitingForAction(session.stop)
  /\ \E r \in Requests :
       /\ req[r].op = "send" /\ req[r].snap.seq = session.seq /\ req[r].snap.stop = session.stop
       /\ Contains(req[r].batch, IsActionResult)
       /\ Appends(req[r].batch)
       /\ Becomes("idle", IF AllPendingActionsResolved(req[r].snap, req[r].batch)
                            THEN Stop("action_submitted") ELSE session.stop)

Cancels ==
  /\ ~session.deleted
  /\ Appends(<<StatusBody("session.status_terminated", Stop("cancelled"))>>)
  /\ Becomes("terminated", Stop("cancelled"))

Deletes ==
  /\ ~session.deleted /\ ~BlocksMutation(session.status)
  /\ Appends(<<Body("session.deleted")>>)
  /\ session'.deleted = TRUE /\ session'.status = "terminated" /\ session'.stop = session.stop

Effect ==
  \/ Quiet \/ Notes \/ Starts \/ Ends \/ Asks \/ Fails
  \/ Interrupts \/ Answers \/ Cancels \/ Deletes

LEMMA UnwrittenIsQuiet == Unwritten => Quiet
BY DEF Unwritten, Quiet, Stays, Becomes

LEMMA TurnEffects ==
  ASSUME IInv, Decisions, NEW t \in Tasks, Invoke(t) \/ TurnStep(t)
  PROVE  Effect
<1> DEFINE snap == task[t].snap
<1>1. snap \in Sessions /\ Behind(snap)
  BY DEF IInv, TypeOK, SnapshotsBehind
<1>2. CASE Invoke(t) \/ StartRead(t) \/ Context(t) \/ Execute(t) \/ FailRead(t) \/ Exit(t)
  BY <1>2, UnwrittenIsQuiet
     DEF Invoke, StartRead, Context, Execute, FailRead, Exit, Unwritten, Effect
<1>3. CASE StartCommit(t)
  <2>1. CASE Free(snap, 1)
    <3>1. Len(<<Body("session.status_running")>>) = 1
      OBVIOUS
    <3> QED
      BY <1>3, <2>1, <3>1, StartCommits DEF Starts, Appends, Becomes, Effect
  <2>2. CASE ~Free(snap, 1)
    BY <1>3, <2>2, UnwrittenIsQuiet DEF StartCommit, Effect
  <2> QED
    BY <2>1, <2>2
<1>4. CASE ContextCommit(t)
  <2>1. CASE Free(snap, 1)
    <3> DEFINE bodies == <<Body("session.error")>>
    <3>1. Commit(snap, snap, bodies)
      BY <1>4, <2>1 DEF ContextCommit
    <3>2. bodies \in Seq(Bodies) /\ Len(bodies) = 1
      BY TurnBodies
    <3>3. IsNote(bodies)
      BY DEF IsNote, StatusTypes, IsActionResult, Body
    <3> HIDE DEF bodies, snap
    <3>4. Appends(bodies) /\ Stays
      BY <1>1, <2>1, <3>1, <3>2, 1 \in Nat \ {0}, CommitActsNow DEF Appends, Stays, Becomes
    <3> QED
      BY <3>2, <3>3, <3>4 DEF Notes, Effect
  <2>2. CASE ~Free(snap, 1)
    BY <1>4, <2>2, UnwrittenIsQuiet DEF ContextCommit, Effect
  <2> QED
    BY <2>1, <2>2
<1>5. CASE FinishCommit(t)
  <2>1. snap.status = "running"
    BY <1>5 DEF FinishCommit, Decisions, TaskDecided
  <2>2. ASSUME NEW stop \in StopReasons, NEW details \in Details,
               NEW bodies \in Seq(Bodies), Len(bodies) # 0,
               Finish(t, stop, details, bodies)
        PROVE  \/ Quiet
               \/ /\ Appends(bodies) /\ Becomes("idle", stop)
                  /\ session.status = "running" /\ snap.seq = session.seq
    <3> DEFINE new == [snap EXCEPT !.status = "idle", !.stop = stop, !.details = details]
    <3>1. CASE Free(snap, Len(bodies))
      <4>1. Commit(snap, new, bodies)
        BY <2>2, <3>1 DEF Finish
      <4>2. /\ new \in Sessions /\ new.status = "idle" /\ new.stop = stop
            /\ new.deleted = snap.deleted
        BY <1>1, TurnRows DEF Sessions
      <4>3. Len(bodies) \in Nat \ {0}
        BY <2>2
      <4> HIDE DEF new, snap
      <4> QED
        BY <1>1, <2>1, <3>1, <4>1, <4>2, <4>3, CommitActsNow DEF Appends, Becomes
    <3>2. CASE ~Free(snap, Len(bodies))
      BY <2>2, <3>2, UnwrittenIsQuiet DEF Finish
    <3> QED
      BY <3>1, <3>2
  <2> DEFINE kept == [snap.details EXCEPT !.attempt = 0]
  <2>0. kept \in Details /\ \A other \in BOOLEAN : [kept EXCEPT !.other = other] \in Details
    BY <1>1, TurnDetails
  <2>3. ASSUME NEW other \in BOOLEAN,
               Finish(t, Stop("end_turn"), [kept EXCEPT !.other = other], FinalBodies)
        PROVE  Effect
    <3>1. Stop("end_turn") \in StopReasons /\ FinalBodies \in Seq(Bodies) /\ Len(FinalBodies) # 0
      BY BodyValues, TurnBodies DEF StopTypes, FinalBodies
    <3> QED
      BY <2>0, <2>2, <2>3, <3>1 DEF Ends, Effect
  <2>4. ASSUME NEW n \in 1 .. MaxActions,
               Finish(t, RequiresAction(snap.seq + 1 .. snap.seq + n), kept,
                      ActionBodies(snap, n))
        PROVE  Effect
    <3>1. n \in Nat /\ snap.seq + 1 .. snap.seq + n \in SUBSET Nat
      BY <1>1, BoundsAssumption DEF Sessions
    <3>2. /\ ActionBodies(snap, n) \in Seq(Bodies)
          /\ Len(ActionBodies(snap, n)) = n + 1
      BY <1>1, <3>1, TurnBodies
    <3>3. Len(ActionBodies(snap, n)) # 0
      BY <3>1, <3>2
    <3>4. RequiresAction(snap.seq + 1 .. snap.seq + n) \in StopReasons
      BY <3>1, BodyValues
    <3>5. \/ Quiet
          \/ /\ Appends(ActionBodies(snap, n))
             /\ Becomes("idle", RequiresAction(snap.seq + 1 .. snap.seq + n))
             /\ session.status = "running" /\ snap.seq = session.seq
      BY <2>0, <2>2, <2>4, <3>2, <3>3, <3>4
    <3>6. snap.seq = session.seq => ActionBodies(snap, n) = ActionBodies(session, n)
      BY DEF ActionBodies
    <3> QED
      BY <3>5, <3>6 DEF Asks, Effect
  <2> QED
    BY <1>5, <2>3, <2>4 DEF FinishCommit
<1>6. CASE FailCommit(t)
  <2>1. ASSUME NEW new \in Sessions, NEW type \in EventTypes, NEW stop \in StopTypes,
               new.deleted = snap.deleted,
               Free(snap, 2), Commit(snap, new, FailureBodies(type, stop))
        PROVE  Appends(FailureBodies(type, stop)) /\ Becomes(new.status, new.stop)
    <3>1. FailureBodies(type, stop) \in Seq(Bodies) /\ Len(FailureBodies(type, stop)) = 2
      BY TurnBodies DEF FailureBodies
    <3> HIDE DEF snap
    <3> QED
      BY <1>1, <2>1, <3>1, 2 \in Nat \ {0}, CommitActsNow DEF Appends, Becomes
  <2>2. /\ Rescheduled(snap) \in Sessions /\ GivenUp(snap) \in Sessions
        /\ Failed(snap) \in Sessions
        /\ Rescheduled(snap).status = "rescheduling"
        /\ Rescheduled(snap).stop = Stop("transient_error")
        /\ Rescheduled(snap).deleted = snap.deleted
        /\ GivenUp(snap).status = "terminated" /\ GivenUp(snap).stop = Stop("error")
        /\ GivenUp(snap).deleted = snap.deleted
        /\ Failed(snap).status = "terminated" /\ Failed(snap).stop = Stop("error")
        /\ Failed(snap).deleted = snap.deleted
    BY <1>1, BodyValues, TurnDetails, TurnRows DEF StopTypes, Rescheduled, GivenUp, Failed, Sessions
  <2>3. /\ "session.status_rescheduled" \in EventTypes /\ "session.status_terminated" \in EventTypes
        /\ "transient_error" \in StopTypes /\ "error" \in StopTypes
    BY DEF EventTypes, StopTypes
  <2>4. CASE Unwritten
    BY <2>4, UnwrittenIsQuiet DEF Effect
  <2>5. CASE Free(snap, 2) /\ Commit(snap, Rescheduled(snap),
                  FailureBodies("session.status_rescheduled", "transient_error"))
    BY <2>1, <2>2, <2>3, <2>5 DEF Fails, Effect
  <2>6. CASE Free(snap, 2) /\ Commit(snap, GivenUp(snap),
                  FailureBodies("session.status_terminated", "error"))
    BY <2>1, <2>2, <2>3, <2>6 DEF Fails, Effect
  <2>7. CASE Free(snap, 2) /\ Commit(snap, Failed(snap),
                  FailureBodies("session.status_terminated", "error"))
    BY <2>1, <2>2, <2>3, <2>7 DEF Fails, Effect
  <2> QED
    BY <1>6, <2>4, <2>5, <2>6, <2>7 DEF FailCommit
<1> QED
  BY <1>2, <1>3, <1>4, <1>5, <1>6 DEF TurnStep

-----------------------------------------------------------------------------
(* The effects of a request. *)

\* The commit of a handler that appends events fails, or acts on the row as it is.
LEMMA EndEffect ==
  ASSUME IInv, NEW r \in Requests, NEW op,
         NEW new \in Sessions, NEW bodies \in Seq(Bodies), Len(bodies) # 0,
         End(r, op, new, bodies)
  PROVE  \/ Quiet
         \/ /\ req[r].snap.seq = session.seq
            /\ req[r].snap.status = session.status
            /\ req[r].snap.stop = session.stop
            /\ req[r].snap.deleted = session.deleted
            /\ Appends(bodies)
            /\ session'.status = new.status
            /\ session'.stop = new.stop
            /\ session'.deleted = new.deleted
<1> DEFINE snap == req[r].snap
<1>1. snap \in Sessions /\ Behind(snap) /\ Len(bodies) \in Nat \ {0}
  BY DEF IInv, TypeOK, SnapshotsBehind
<1>2. CASE Free(snap, Len(bodies)) /\ Commit(snap, new, bodies)
  <2> HIDE DEF snap
  <2>1. /\ snap.seq = session.seq /\ snap.status = session.status
        /\ snap.stop = session.stop /\ snap.deleted = session.deleted
        /\ session'.seq = session.seq + Len(bodies)
        /\ session'.status = new.status /\ session'.stop = new.stop
        /\ session'.deleted = new.deleted
        /\ events' = events \cup Numbered(session.seq, bodies)
    BY <1>1, <1>2, CommitActsNow
  <2> QED
    BY <2>1 DEF Appends, snap
<1>3. CASE Unwritten
  BY <1>3, UnwrittenIsQuiet
<1> QED
  BY <1>2, <1>3 DEF End

\* A handler that appends nothing and changes neither status, stop reason nor
\* deletion.
LEMMA EndSilentlyEffect ==
  ASSUME IInv, NEW r \in Requests, NEW op, NEW new \in Sessions,
         new.status = req[r].snap.status, new.stop = req[r].snap.stop,
         new.deleted = req[r].snap.deleted, new.seq = req[r].snap.seq,
         EndSilently(r, op, new)
  PROVE  Quiet
BY DEF EndSilently, Written, Column, Quiet, Stays, Becomes, IInv, TypeOK, Sessions

\* The events of a client announce no status.
LEMMA BatchIsNote ==
  ASSUME NEW snap, NEW batch \in Batches(snap)
  PROVE  /\ \A i \in DOMAIN batch : batch[i].type \notin StatusTypes
         /\ ~Contains(batch, IsActionResult) => IsNote(batch)
<1>1. PICK n \in 1 .. MaxBatch : batch \in [1 .. n -> Inputs(snap)]
  BY DEF Batches
<1>2. \A input \in Inputs(snap) : input.type \in InputTypes \cup {"action_result"}
  BY DEF Inputs, Body
<1>3. \A i \in DOMAIN batch : batch[i].type \notin StatusTypes
  BY <1>1, <1>2, InputTypesAssumption DEF StatusTypes
<1> QED
  BY <1>3 DEF IsNote, Contains

LEMMA SendEffect ==
  ASSUME IInv, Decisions, NEW r \in Requests, EndSend(r)
  PROVE  Effect
<1> DEFINE snap == req[r].snap
           batch == req[r].batch
<1>1. /\ snap \in Sessions /\ batch \in Seq(Bodies)
      /\ req[r].op = "send" /\ ~snap.deleted /\ SendDecided(snap, batch)
  BY DEF IInv, TypeOK, EndSend, End, Decisions, RequestDecided
<1>2. CASE Contains(batch, IsInterrupt)
  <2> DEFINE new == [snap EXCEPT !.status = "idle", !.stop = Stop("interrupted")]
             bodies == Append(batch, StatusBody("session.status_idle", Stop("interrupted")))
  <2>1. End(r, "send", new, bodies)
    BY <1>2 DEF EndSend
  <2>2. /\ new \in Sessions /\ new.status = "idle"
        /\ new.stop = Stop("interrupted") /\ new.deleted = snap.deleted
    BY <1>1, HandlerRows DEF Sessions
  <2>3. StatusBody("session.status_idle", Stop("interrupted")) \in Bodies
    BY BodyValues DEF StopTypes, EventTypes
  <2>4. bodies \in Seq(Bodies) /\ Len(bodies) # 0
    BY <1>1, <2>3
  <2>5. IsNote(batch)
    BY <1>1, <1>2, BatchIsNote DEF SendDecided
  <2>6. snap.status # "terminated"
    BY <1>1 DEF SendDecided
  <2> HIDE DEF new
  <2>7. Quiet \/ Interrupts
    BY <1>1, <2>1, <2>2, <2>4, <2>5, <2>6, EndEffect DEF Interrupts, Becomes
  <2> QED
    BY <2>7 DEF Effect
<1>3. CASE ~Contains(batch, IsInterrupt) /\ Contains(batch, IsActionResult)
  <2> DEFINE submitted == [snap EXCEPT !.status = "idle", !.stop = Stop("action_submitted")]
             resolved == AllPendingActionsResolved(snap, batch)
             new == IF resolved THEN submitted ELSE snap
  <2>1. End(r, "send", new, batch)
    BY <1>3 DEF EndSend
  <2>2. snap.status = "idle" /\ IsWaitingForAction(snap.stop)
    BY <1>1, <1>3 DEF SendDecided, BlocksMutation, Active, Sessions, Statuses
  <2>3. /\ new \in Sessions /\ new.status = "idle" /\ new.deleted = snap.deleted
        /\ new.stop = IF resolved THEN Stop("action_submitted") ELSE snap.stop
    BY <1>1, <2>2, HandlerRows DEF Sessions
  <2>4. Len(batch) # 0
    BY <1>1, <1>3 DEF Contains
  <2> HIDE DEF new, resolved
  <2>5. \/ Quiet
        \/ /\ snap.seq = session.seq /\ snap.status = session.status
           /\ snap.stop = session.stop /\ snap.deleted = session.deleted
           /\ Appends(batch)
           /\ Becomes("idle", IF resolved THEN Stop("action_submitted") ELSE session.stop)
    BY <1>1, <2>1, <2>3, <2>4, EndEffect DEF Becomes
  <2>6. Quiet \/ Answers
    BY <1>1, <1>3, <2>2, <2>5 DEF Answers, resolved
  <2> QED
    BY <2>6 DEF Effect
<1>4. CASE ~Contains(batch, IsInterrupt) /\ ~Contains(batch, IsActionResult)
  <2>1. End(r, "send", snap, batch)
    BY <1>4 DEF EndSend
  <2>2. IsNote(batch)
    BY <1>1, <1>4, BatchIsNote DEF SendDecided
  <2>3. CASE Len(batch) # 0
    <3>1. Quiet \/ (Appends(batch) /\ Stays)
      BY <1>1, <2>1, <2>3, EndEffect DEF Stays, Becomes
    <3> QED
      BY <1>1, <2>2, <3>1 DEF Notes, Effect
  <2>4. CASE Len(batch) = 0
    <3>1. Numbered(snap.seq, batch) = {}
      BY <1>1, <2>4 DEF Numbered
    <3>2. snap.seq + Len(batch) = snap.seq
      BY <1>1, <2>4 DEF Sessions
    <3>3. Unwritten
      BY <1>1, <2>1, <3>1, <3>2 DEF End, Commit, Written, Column, Unwritten, IInv, TypeOK, Sessions
    <3> QED
      BY <3>3, UnwrittenIsQuiet DEF Effect
  <2> QED
    BY <2>3, <2>4
<1> QED
  BY <1>2, <1>3, <1>4

LEMMA RequestEffects ==
  ASSUME IInv, Decisions, NEW r \in Requests, RequestStep(r)
  PROVE  Effect
<1> DEFINE snap == req[r].snap
<1>1. /\ snap \in Sessions
      /\ req[r].op # "none" => ~snap.deleted
      /\ req[r].op = "delete" => ~BlocksMutation(snap.status)
  BY DEF IInv, TypeOK, Decisions, RequestDecided
<1>2. CASE \E op, batch : Begin(r, op, batch)
  BY <1>2, UnwrittenIsQuiet DEF Begin, Unwritten, Effect
<1>3. CASE EndUpdate(r) \/ EndUpdateAgent(r)
  <2> DEFINE bodies == <<Body("session.updated")>>
  <2>1. bodies \in Seq(Bodies) /\ Len(bodies) # 0
    BY BodyValues DEF EventTypes
  <2>2. IsNote(bodies)
    BY DEF IsNote, StatusTypes, IsActionResult, Body
  <2>3. CASE EndUpdate(r)
    <3>1. End(r, "update", snap, bodies)
      BY <2>3 DEF EndUpdate
    <3> HIDE DEF bodies
    <3>2. Quiet \/ (Appends(bodies) /\ Stays)
      BY <1>1, <2>1, <3>1, EndEffect DEF Stays, Becomes
    <3> QED
      BY <2>1, <2>2, <3>2 DEF Notes, Effect
  <2>4. CASE EndUpdateAgent(r)
    <3>1. PICK other \in BOOLEAN :
            End(r, "updateAgent", [snap EXCEPT !.details.other = other], bodies)
      BY <2>4 DEF EndUpdateAgent
    <3> DEFINE new == [snap EXCEPT !.details.other = other]
    <3>2. /\ new \in Sessions
          /\ new.status = snap.status /\ new.stop = snap.stop /\ new.deleted = snap.deleted
      BY <1>1, HandlerRows DEF Sessions
    <3>3. End(r, "updateAgent", new, bodies)
      BY <3>1
    <3> HIDE DEF new, bodies
    <3>4. Quiet \/ (Appends(bodies) /\ Stays)
      BY <1>1, <2>1, <3>2, <3>3, EndEffect DEF Stays, Becomes
    <3> QED
      BY <2>1, <2>2, <3>4 DEF Notes, Effect
  <2> QED
    BY <1>3, <2>3, <2>4
<1>4. CASE EndArchive(r)
  <2> DEFINE new == [snap EXCEPT !.archived = TRUE]
  <2>1. /\ new \in Sessions /\ new.status = snap.status /\ new.stop = snap.stop
        /\ new.deleted = snap.deleted /\ new.seq = snap.seq
    BY <1>1, HandlerRows DEF Sessions
  <2>2. EndSilently(r, "archive", new)
    BY <1>4 DEF EndArchive
  <2> HIDE DEF new
  <2> QED
    BY <2>1, <2>2, EndSilentlyEffect DEF Effect
<1>5. CASE EndArchiveThread(r)
  <2>1. Quiet
    BY <1>5 DEF EndArchiveThread, Quiet, Stays, Becomes, IInv, TypeOK, Sessions
  <2> QED
    BY <2>1 DEF Effect
<1>6. CASE EndResume(r)
  BY <1>1, <1>6, EndSilentlyEffect DEF EndResume, Effect
<1>7. CASE EndDelete(r)
  <2> DEFINE new == [snap EXCEPT !.deleted = TRUE, !.status = "terminated"]
             bodies == <<Body("session.deleted")>>
  <2>1. bodies \in Seq(Bodies) /\ Len(bodies) # 0
    BY BodyValues DEF EventTypes
  <2>2. End(r, "delete", new, bodies) /\ req[r].op = "delete"
    BY <1>7 DEF EndDelete, End
  <2>3. /\ new \in Sessions /\ new.deleted = TRUE /\ new.status = "terminated"
        /\ new.stop = snap.stop
    BY <1>1, HandlerRows DEF Sessions
  <2> HIDE DEF new
  <2>4. Quiet \/ Deletes
    BY <1>1, <2>1, <2>2, <2>3, EndEffect DEF Deletes
  <2> QED
    BY <2>4 DEF Effect
<1>8. CASE EndCancel(r)
  <2> DEFINE new == [snap EXCEPT !.status = "terminated", !.stop = Stop("cancelled")]
             bodies == <<StatusBody("session.status_terminated", Stop("cancelled"))>>
  <2>1. bodies \in Seq(Bodies) /\ Len(bodies) # 0
    BY BodyValues DEF EventTypes, StopTypes
  <2>2. End(r, "cancel", new, bodies) /\ req[r].op = "cancel"
    BY <1>8 DEF EndCancel, End
  <2>3. /\ new \in Sessions /\ new.status = "terminated"
        /\ new.stop = Stop("cancelled") /\ new.deleted = snap.deleted
    BY <1>1, HandlerRows DEF Sessions
  <2> HIDE DEF new
  <2>4. Quiet \/ Cancels
    BY <1>1, <2>1, <2>2, <2>3, EndEffect DEF Cancels, Becomes
  <2> QED
    BY <2>4 DEF Effect
<1>9. CASE BeginSend(r)
  BY <1>2, <1>9 DEF BeginSend
<1> QED
  BY <1>2, <1>3, <1>4, <1>5, <1>6, <1>7, <1>8, <1>9, SendEffect
     DEF RequestStep, BeginUpdate, BeginUpdateAgent, BeginArchive, BeginArchiveThread,
         BeginDelete, BeginCancel, BeginResume

LEMMA StepEffect == IInv /\ Decisions /\ [Next]_vars => Effect
<1> SUFFICES ASSUME IInv, Decisions, [Next]_vars PROVE Effect
  OBVIOUS
<1>1. CASE UNCHANGED vars
  BY <1>1, UnwrittenIsQuiet DEF vars, Unwritten, Effect
<1>2. CASE \E p \in Procs : Crash(p)
  BY <1>2, UnwrittenIsQuiet DEF Crash, Unwritten, Effect
<1> QED
  BY <1>1, <1>2, TurnEffects, RequestEffects DEF Next

-----------------------------------------------------------------------------
(* No turn starts in a deleted session. *)

\* An event that was not there before is one of those appended.
LEMMA NewEvents ==
  ASSUME NEW bodies \in Seq(Bodies), Appends(bodies), NEW e \in events' \ events
  PROVE  \E i \in DOMAIN bodies : /\ e.seq = session.seq + i
                                  /\ e.type = bodies[i].type /\ e.stop = bodies[i].stop
                                  /\ e.target = bodies[i].target
BY DEF Appends, Numbered

LEMMA DeletedEffect ==
  ASSUME Effect, session.deleted, IInv, NEW e \in events' \ events
  PROVE  e.type # "session.status_running"
<1>1. CASE Quiet
  BY <1>1 DEF Quiet
<1>2. CASE Notes
  <2>1. PICK bodies \in Seq(Bodies) : IsNote(bodies) /\ Appends(bodies)
    BY <1>2 DEF Notes
  <2> QED
    BY <2>1, NewEvents DEF IsNote, StatusTypes
<1>3. CASE Ends
  <2>1. FinalBodies \in Seq(Bodies) /\ Appends(FinalBodies)
    BY <1>3, TurnBodies DEF Ends
  <2>2. PICK i \in DOMAIN FinalBodies : e.type = FinalBodies[i].type
    BY <2>1, NewEvents
  <2> QED
    BY <2>2 DEF FinalBodies, Body, StatusBody
<1>4. CASE Asks
  <2>1. PICK n \in 1 .. MaxActions : Appends(ActionBodies(session, n))
    BY <1>4 DEF Asks
  <2>2. ActionBodies(session, n) \in Seq(Bodies)
    BY TurnBodies, BoundsAssumption DEF IInv, TypeOK
  <2>3. PICK i \in DOMAIN ActionBodies(session, n) : e.type = ActionBodies(session, n)[i].type
    BY <2>1, <2>2, NewEvents
  <2> QED
    BY <2>3 DEF ActionBodies, Body, StatusBody
<1>5. ASSUME NEW type \in {"session.status_rescheduled", "session.status_terminated"},
             NEW stop \in StopTypes, Appends(FailureBodies(type, stop))
      PROVE  e.type # "session.status_running"
  <2>1. FailureBodies(type, stop) \in Seq(Bodies)
    BY TurnBodies DEF EventTypes
  <2>2. PICK i \in DOMAIN FailureBodies(type, stop) : e.type = FailureBodies(type, stop)[i].type
    BY <1>5, <2>1, NewEvents
  <2> QED
    BY <2>2 DEF FailureBodies, Body, StatusBody
<1>6. CASE Fails
  BY <1>5, <1>6 DEF Fails, StopTypes
<1> QED
  BY <1>1, <1>2, <1>3, <1>4, <1>6 DEF Effect, Starts, Interrupts, Answers, Cancels, Deletes

\* run_session_turn reads deleted_at in one transaction and appends the event that
\* starts the turn when it commits: a deletion in between makes that commit fail.
THEOREM DeletedSessionStartsNoTurn == Spec => DeletedStartsNoTurn
<1>1. IInv /\ Decisions /\ [Next]_vars =>
        [session.deleted => \A e \in events' \ events : e.type # "session.status_running"]_vars
  BY StepEffect, DeletedEffect
<1> QED
  BY <1>1, InitInvariant, StepInvariant, InitDecisions, StepDecisions, PTL
     DEF Spec, DeletedStartsNoTurn

-----------------------------------------------------------------------------
(* The log tells the status. *)

\* Events that announce no status leave the last announcement in place; it is
\* still true if the status stayed, and the session waits as before or not at all.
LEMMA StatusKept ==
  ASSUME StatusMatchesLog, NEW bodies \in Seq(Bodies), Appends(bodies),
         \A i \in DOMAIN bodies : bodies[i].type \notin StatusTypes,
         session'.status = session.status, session'.deleted = session.deleted,
         session'.stop = session.stop \/ ~IsWaitingForAction(session'.stop)
  PROVE  StatusMatchesLog'
<1> SUFFICES ASSUME NEW e \in events', IsLatestStatus(e)'
             PROVE  /\ session'.status = Announced(e.type)
                    /\ IsWaitingForAction(session'.stop) /\ ~session'.deleted =>
                         e.stop = session'.stop
  BY DEF StatusMatchesLog
<1>1. e \in events
  BY NewEvents DEF IsLatestStatus
<1>2. IsLatestStatus(e)
  BY DEF IsLatestStatus, Appends
<1> QED
  BY <1>1, <1>2 DEF StatusMatchesLog

\* When the last event appended announces a status, it is the last announcement.
LEMMA StatusAnnounced ==
  ASSUME IInv, NEW bodies \in Seq(Bodies), NEW last \in DOMAIN bodies, last = Len(bodies),
         Appends(bodies), bodies[last].type \in StatusTypes,
         session'.status = Announced(bodies[last].type),
         IsWaitingForAction(session'.stop) /\ ~session'.deleted =>
           bodies[last].stop = session'.stop
  PROVE  StatusMatchesLog'
<1> SUFFICES ASSUME NEW e \in events', IsLatestStatus(e)'
             PROVE  e.type = bodies[last].type /\ e.stop = bodies[last].stop
  BY DEF StatusMatchesLog
<1>1. session.seq \in Nat /\ last \in Nat \ {0} /\ \A i \in DOMAIN bodies : i \in 1 .. last
  BY DEF IInv, TypeOK, Sessions
<1>2. PICK x \in events' : x.seq = session.seq + last /\ x.type = bodies[last].type
  <2> DEFINE announcement == [seq |-> session.seq + last, type |-> bodies[last].type,
                              stop |-> bodies[last].stop, target |-> bodies[last].target]
  <2>1. announcement \in Numbered(session.seq, bodies)
    BY DEF Numbered
  <2> QED
    BY <2>1 DEF Appends
<1>3. session.seq + last <= e.seq
  BY <1>2 DEF IsLatestStatus
<1>4. e \notin events
  BY <1>1, <1>3 DEF IInv, EventLogDense
<1>5. PICK i \in DOMAIN bodies : /\ e.seq = session.seq + i
                                 /\ e.type = bodies[i].type /\ e.stop = bodies[i].stop
  BY <1>4, NewEvents
<1> QED
  BY <1>1, <1>3, <1>5

LEMMA StepStatus == IInv /\ Decisions /\ StatusMatchesLog /\ [Next]_vars => StatusMatchesLog'
<1> SUFFICES ASSUME IInv, Decisions, StatusMatchesLog, [Next]_vars PROVE StatusMatchesLog'
  OBVIOUS
<1>1. Effect
  BY StepEffect
<1>2. CASE Quiet
  BY <1>2 DEF Quiet, Stays, Becomes, StatusMatchesLog, IsLatestStatus
<1>3. CASE Notes
  BY <1>3, StatusKept DEF Notes, IsNote, Stays, Becomes
<1>4. CASE Starts
  <2> DEFINE bodies == <<Body("session.status_running")>>
  <2>1. bodies \in Seq(Bodies) /\ Appends(bodies)
    BY <1>4, TurnBodies DEF Starts
  <2>2. /\ 1 \in DOMAIN bodies /\ 1 = Len(bodies)
        /\ bodies[1].type = "session.status_running"
    BY DEF Body
  <2>3. session'.status = "running" /\ ~IsWaitingForAction(session'.stop)
    BY <1>4 DEF Starts, Becomes, IsWaitingForAction, Stop
  <2> HIDE DEF bodies
  <2> QED
    BY <2>1, <2>2, <2>3, StatusAnnounced DEF Announced, StatusTypes
<1>5. CASE Ends
  <2>1. FinalBodies \in Seq(Bodies) /\ Appends(FinalBodies)
    BY <1>5, TurnBodies DEF Ends
  <2>2. /\ 2 \in DOMAIN FinalBodies /\ 2 = Len(FinalBodies)
        /\ FinalBodies[2].type = "session.status_idle"
    BY DEF FinalBodies, StatusBody
  <2>3. session'.status = "idle" /\ ~IsWaitingForAction(session'.stop)
    BY <1>5 DEF Ends, Becomes, IsWaitingForAction, Stop
  <2> QED
    BY <2>1, <2>2, <2>3, StatusAnnounced DEF Announced, StatusTypes
<1>6. CASE Asks
  <2>1. PICK n \in 1 .. MaxActions :
          /\ Appends(ActionBodies(session, n))
          /\ Becomes("idle", RequiresAction(session.seq + 1 .. session.seq + n))
    BY <1>6 DEF Asks
  <2>2. n \in Nat
    BY BoundsAssumption
  <2>3. ActionBodies(session, n) \in Seq(Bodies) /\ Len(ActionBodies(session, n)) = n + 1
    BY <2>2, TurnBodies DEF IInv, TypeOK
  <2>4. /\ n + 1 \in DOMAIN ActionBodies(session, n)
        /\ ActionBodies(session, n)[n + 1] =
             StatusBody("session.status_idle", RequiresAction(session.seq + 1 .. session.seq + n))
    BY <2>2 DEF ActionBodies
  <2>5. /\ ActionBodies(session, n)[n + 1].type = "session.status_idle"
        /\ ActionBodies(session, n)[n + 1].stop = session'.stop
        /\ session'.status = "idle"
    BY <2>1, <2>4 DEF StatusBody, Becomes
  <2> QED
    BY <2>1, <2>3, <2>4, <2>5, StatusAnnounced DEF Announced, StatusTypes
<1>7. ASSUME NEW type \in {"session.status_rescheduled", "session.status_terminated"},
             NEW stop \in StopTypes, Appends(FailureBodies(type, stop)),
             session'.status = Announced(type), ~IsWaitingForAction(session'.stop)
      PROVE  StatusMatchesLog'
  <2>1. FailureBodies(type, stop) \in Seq(Bodies)
    BY TurnBodies DEF EventTypes
  <2>2. /\ 2 \in DOMAIN FailureBodies(type, stop) /\ 2 = Len(FailureBodies(type, stop))
        /\ FailureBodies(type, stop)[2].type = type
    BY DEF FailureBodies, StatusBody
  <2> QED
    BY <1>7, <2>1, <2>2, StatusAnnounced DEF StatusTypes
<1>8. CASE Fails
  BY <1>7, <1>8 DEF Fails, Becomes, Announced, IsWaitingForAction, Stop, StopTypes
<1>9. CASE Interrupts
  <2> DEFINE idle == StatusBody("session.status_idle", Stop("interrupted"))
  <2>1. PICK batch \in Seq(Bodies) : Appends(Append(batch, idle))
    BY <1>9 DEF Interrupts
  <2>2. idle \in Bodies /\ idle.type = "session.status_idle"
    BY BodyValues DEF StopTypes, EventTypes, StatusBody
  <2> HIDE DEF idle
  <2>3. PICK bodies \in Seq(Bodies) : bodies = Append(batch, idle)
    <3>1. Append(batch, idle) \in Seq(Bodies)
      BY <2>2
    <3> QED
      BY <3>1
  <2>4. Len(bodies) \in DOMAIN bodies /\ bodies[Len(bodies)] = idle
    BY <2>2, <2>3
  <2>5. session'.status = "idle" /\ ~IsWaitingForAction(session'.stop)
    BY <1>9 DEF Interrupts, Becomes, IsWaitingForAction, Stop
  <2> QED
    BY <2>1, <2>2, <2>3, <2>4, <2>5, StatusAnnounced DEF Announced, StatusTypes
<1>10. CASE Answers
  <2>1. PICK r \in Requests :
          /\ req[r].op = "send" /\ Appends(req[r].batch)
          /\ Becomes("idle", IF AllPendingActionsResolved(req[r].snap, req[r].batch)
                               THEN Stop("action_submitted") ELSE session.stop)
    BY <1>10 DEF Answers
  <2>2. req[r].batch \in Seq(Bodies) /\ req[r].batch \in Batches(req[r].snap)
    BY <2>1 DEF IInv, TypeOK, Decisions, RequestDecided, SendDecided
  <2>3. /\ session'.status = session.status /\ session'.deleted = session.deleted
        /\ session'.stop = session.stop \/ ~IsWaitingForAction(session'.stop)
    BY <1>10, <2>1 DEF Answers, Becomes, IsWaitingForAction, Stop
  <2> QED
    BY <2>1, <2>2, <2>3, BatchIsNote, StatusKept
<1>11. CASE Cancels
  <2> DEFINE body == StatusBody("session.status_terminated", Stop("cancelled"))
  <2>1. body \in Bodies /\ body.type = "session.status_terminated"
    BY BodyValues DEF StopTypes, EventTypes, StatusBody
  <2> HIDE DEF body
  <2>2. <<body>> \in Seq(Bodies) /\ 1 \in DOMAIN <<body>> /\ 1 = Len(<<body>>) /\ <<body>>[1] = body
    BY <2>1
  <2>3. /\ Appends(<<body>>)
        /\ session'.status = "terminated" /\ ~IsWaitingForAction(session'.stop)
    BY <1>11 DEF Cancels, Becomes, IsWaitingForAction, Stop, body
  <2> QED
    BY <2>1, <2>2, <2>3, StatusAnnounced DEF Announced, StatusTypes
<1>12. CASE Deletes
  <2> DEFINE body == Body("session.deleted")
  <2>1. body \in Bodies /\ body.type = "session.deleted"
    BY BodyValues DEF EventTypes, Body
  <2> HIDE DEF body
  <2>2. <<body>> \in Seq(Bodies) /\ 1 \in DOMAIN <<body>> /\ 1 = Len(<<body>>) /\ <<body>>[1] = body
    BY <2>1
  <2>3. Appends(<<body>>) /\ session'.status = "terminated" /\ session'.deleted
    BY <1>12 DEF Deletes, body
  <2> QED
    BY <2>1, <2>2, <2>3, StatusAnnounced DEF Announced, StatusTypes
<1> QED
  BY <1>1, <1>2, <1>3, <1>4, <1>5, <1>6, <1>8, <1>9, <1>10, <1>11, <1>12 DEF Effect

LEMMA InitStatus == Init => StatusMatchesLog
BY DEF Init, StatusMatchesLog, Numbered, Created, StatusBody, Stop, Announced,
       IsWaitingForAction, IsLatestStatus

\* Whoever follows the event stream knows the row: the last status event of the log
\* announces the session's status, and names the actions it waits for, however the
\* runtime tasks, the handlers and the crashes interleave.
THEOREM StatusAlwaysMatchesLog == Spec => []StatusMatchesLog
BY InitInvariant, StepInvariant, InitDecisions, StepDecisions, InitStatus, StepStatus, PTL
   DEF Spec
=============================================================================
