------------------------ MODULE SessionActionsProofs ------------------------
(* The actions a session asks for, the turns that follow them, the retries,   *)
(* and the refinement of SessionLifecycle, for every value of the constants.  *)
(* Each rests on the effects of SessionSafetyProofs.                          *)
EXTENDS SessionSafetyProofs, SessionRefinement, FiniteSetTheorems

-----------------------------------------------------------------------------
(* What is new in the log after each effect. *)

\* Each body appended is an event of the log.
LEMMA AppendedEvent ==
  ASSUME NEW bodies \in Seq(Bodies), Appends(bodies), NEW n \in DOMAIN bodies
  PROVE  \E e \in events' : /\ e.seq = session.seq + n
                            /\ e.type = bodies[n].type /\ e.stop = bodies[n].stop
<1> DEFINE event == [seq |-> session.seq + n, type |-> bodies[n].type,
                     stop |-> bodies[n].stop, target |-> bodies[n].target]
<1>1. event \in Numbered(session.seq, bodies)
  BY DEF Numbered
<1> QED
  BY <1>1 DEF Appends

\* What each effect may append: the types of the events, and the stop reason of
\* those that make the session idle.
NewKinds(e) ==
  \/ Notes /\ e.type \notin StatusTypes /\ ~IsActionResult(e.type)
  \/ Starts /\ e.type = "session.status_running"
  \/ Ends /\ (e.type = "agent.message" \/
                (e.type = "session.status_idle" /\ e.stop = Stop("end_turn")))
  \/ Asks /\ (e.type = "agent.tool_use" \/
                (e.type = "session.status_idle" /\ e.stop = session'.stop))
  \/ Fails /\ e.type \in {"session.error", "session.status_rescheduled",
                          "session.status_terminated"}
  \/ Interrupts /\ ((e.type \notin StatusTypes /\ ~IsActionResult(e.type)) \/
                    (e.type = "session.status_idle" /\ e.stop = Stop("interrupted")))
  \/ Answers /\ e.type \notin StatusTypes
  \/ Cancels /\ e.type = "session.status_terminated"
  \/ Deletes /\ e.type = "session.deleted"

LEMMA TurnNewKinds ==
  ASSUME IInv, NEW e \in events' \ events, Starts \/ Ends \/ Asks \/ Fails
  PROVE  NewKinds(e)
<1>1. CASE Starts
  <2> DEFINE bodies == <<Body("session.status_running")>>
  <2>1. bodies \in Seq(Bodies) /\ Appends(bodies)
    BY <1>1, TurnBodies DEF Starts
  <2>2. PICK i \in DOMAIN bodies : e.type = bodies[i].type
    BY <2>1, NewEvents
  <2> QED
    BY <1>1, <2>2 DEF NewKinds, Body
<1>2. CASE Ends
  <2>1. FinalBodies \in Seq(Bodies) /\ Appends(FinalBodies)
    BY <1>2, TurnBodies DEF Ends
  <2>2. PICK i \in DOMAIN FinalBodies :
          e.type = FinalBodies[i].type /\ e.stop = FinalBodies[i].stop
    BY <2>1, NewEvents
  <2> QED
    BY <1>2, <2>2 DEF NewKinds, FinalBodies, Body, StatusBody
<1>3. CASE Asks
  <2>1. PICK n \in 1 .. MaxActions :
          /\ Appends(ActionBodies(session, n))
          /\ Becomes("idle", RequiresAction(session.seq + 1 .. session.seq + n))
    BY <1>3 DEF Asks
  <2>2. ActionBodies(session, n) \in Seq(Bodies)
    BY TurnBodies, BoundsAssumption DEF IInv, TypeOK
  <2>3. PICK i \in DOMAIN ActionBodies(session, n) :
          /\ e.type = ActionBodies(session, n)[i].type
          /\ e.stop = ActionBodies(session, n)[i].stop
    BY <2>1, <2>2, NewEvents
  <2> QED
    BY <1>3, <2>1, <2>3 DEF NewKinds, ActionBodies, Body, StatusBody, Becomes
<1>4. ASSUME NEW type \in {"session.status_rescheduled", "session.status_terminated"},
             NEW stop \in StopTypes, Appends(FailureBodies(type, stop))
      PROVE  e.type \in {"session.error", type}
  <2>1. FailureBodies(type, stop) \in Seq(Bodies)
    BY TurnBodies DEF EventTypes
  <2>2. PICK i \in DOMAIN FailureBodies(type, stop) : e.type = FailureBodies(type, stop)[i].type
    BY <1>4, <2>1, NewEvents
  <2> QED
    BY <2>2 DEF FailureBodies, Body, StatusBody
<1>5. CASE Fails
  BY <1>4, <1>5 DEF Fails, StopTypes, NewKinds
<1> QED
  BY <1>1, <1>2, <1>3, <1>5

LEMMA HandlerNewKinds ==
  ASSUME IInv, Decisions, NEW e \in events' \ events,
         Interrupts \/ Answers \/ Cancels \/ Deletes
  PROVE  NewKinds(e)
<1>1. CASE Interrupts
  <2> DEFINE idle == StatusBody("session.status_idle", Stop("interrupted"))
  <2>1. PICK batch \in Seq(Bodies) : IsNote(batch) /\ Appends(Append(batch, idle))
    BY <1>1 DEF Interrupts
  <2>2. idle \in Bodies /\ idle.type = "session.status_idle" /\ idle.stop = Stop("interrupted")
    BY BodyValues DEF StopTypes, EventTypes, StatusBody
  <2> HIDE DEF idle
  <2>3. PICK bodies \in Seq(Bodies) : bodies = Append(batch, idle)
    <3>1. Append(batch, idle) \in Seq(Bodies)
      BY <2>2
    <3> QED
      BY <3>1
  <2>4. \A i \in DOMAIN bodies : bodies[i] = idle \/ (i \in DOMAIN batch /\ bodies[i] = batch[i])
    BY <2>2, <2>3
  <2>5. PICK i \in DOMAIN bodies : e.type = bodies[i].type /\ e.stop = bodies[i].stop
    BY <2>1, <2>3, NewEvents
  <2> QED
    BY <1>1, <2>1, <2>2, <2>4, <2>5 DEF NewKinds, IsNote
<1>2. CASE Answers
  <2>1. PICK r \in Requests : req[r].op = "send" /\ Appends(req[r].batch)
    BY <1>2 DEF Answers
  <2>2. req[r].batch \in Seq(Bodies) /\ req[r].batch \in Batches(req[r].snap)
    BY <2>1 DEF IInv, TypeOK, Decisions, RequestDecided, SendDecided
  <2>3. PICK i \in DOMAIN req[r].batch : e.type = req[r].batch[i].type
    BY <2>1, <2>2, NewEvents
  <2> QED
    BY <1>2, <2>2, <2>3, BatchIsNote DEF NewKinds
<1>3. ASSUME NEW body \in Bodies, Appends(<<body>>)
      PROVE  e.type = body.type
  <2>1. <<body>> \in Seq(Bodies)
    OBVIOUS
  <2>2. PICK i \in DOMAIN <<body>> : e.type = <<body>>[i].type
    BY <1>3, <2>1, NewEvents
  <2> QED
    BY <2>2
<1>4. CASE Cancels
  <2>1. /\ StatusBody("session.status_terminated", Stop("cancelled")) \in Bodies
        /\ Appends(<<StatusBody("session.status_terminated", Stop("cancelled"))>>)
    BY <1>4, BodyValues DEF Cancels, EventTypes, StopTypes
  <2> QED
    BY <1>3, <1>4, <2>1 DEF NewKinds, StatusBody
<1>5. CASE Deletes
  <2>1. Body("session.deleted") \in Bodies /\ Appends(<<Body("session.deleted")>>)
    BY <1>5, BodyValues DEF Deletes, EventTypes
  <2> QED
    BY <1>3, <1>5, <2>1 DEF NewKinds, Body
<1> QED
  BY <1>1, <1>2, <1>4, <1>5

LEMMA EffectNewKinds ==
  ASSUME IInv, Decisions, Effect, NEW e \in events' \ events
  PROVE  NewKinds(e)
<1>1. ~Quiet
  BY DEF Quiet
<1>2. CASE Notes
  <2>1. PICK bodies \in Seq(Bodies) : IsNote(bodies) /\ Appends(bodies)
    BY <1>2 DEF Notes
  <2>2. PICK i \in DOMAIN bodies : e.type = bodies[i].type
    BY <2>1, NewEvents
  <2> QED
    BY <1>2, <2>1, <2>2 DEF NewKinds, IsNote
<1> QED
  BY <1>1, <1>2, TurnNewKinds, HandlerNewKinds DEF Effect

\* Events are only appended, and get numbers above the ones there are.
LEMMA EffectAppends ==
  ASSUME IInv, Decisions, Effect
  PROVE  /\ events \subseteq events'
         /\ \A e \in events' \ events : e.seq > session.seq
<1>1. CASE Quiet
  BY <1>1 DEF Quiet
<1>2. CASE \E bodies \in Seq(Bodies) : Appends(bodies)
  <2>1. PICK bodies \in Seq(Bodies) : Appends(bodies)
    BY <1>2
  <2>2. session.seq \in Nat /\ DOMAIN bodies = 1 .. Len(bodies)
    BY DEF IInv, TypeOK, Sessions
  <2>3. ASSUME NEW e \in events' \ events PROVE e.seq > session.seq
    <3>1. PICK i \in DOMAIN bodies : e.seq = session.seq + i
      BY <2>1, NewEvents
    <3> QED
      BY <2>2, <3>1
  <2> QED
    BY <2>1, <2>3 DEF Appends
<1>3. CASE Notes \/ Starts \/ Ends \/ Fails \/ Cancels \/ Deletes
  <2>1. /\ FinalBodies \in Seq(Bodies)
        /\ <<Body("session.status_running")>> \in Seq(Bodies)
        /\ FailureBodies("session.status_rescheduled", "transient_error") \in Seq(Bodies)
        /\ FailureBodies("session.status_terminated", "error") \in Seq(Bodies)
        /\ <<StatusBody("session.status_terminated", Stop("cancelled"))>> \in Seq(Bodies)
        /\ <<Body("session.deleted")>> \in Seq(Bodies)
    BY TurnBodies, BodyValues DEF EventTypes, StopTypes
  <2>2. \E bodies \in Seq(Bodies) : Appends(bodies)
    BY <1>3, <2>1 DEF Notes, Starts, Ends, Fails, Cancels, Deletes
  <2> QED
    BY <1>2, <2>2
<1>4. CASE Asks
  <2>1. \A n \in 1 .. MaxActions : ActionBodies(session, n) \in Seq(Bodies)
    BY TurnBodies, BoundsAssumption DEF IInv, TypeOK
  <2> QED
    BY <1>2, <1>4, <2>1 DEF Asks
<1>5. CASE Interrupts
  <2> DEFINE idle == StatusBody("session.status_idle", Stop("interrupted"))
  <2>1. PICK batch \in Seq(Bodies) : Appends(Append(batch, idle))
    BY <1>5 DEF Interrupts
  <2>2. idle \in Bodies
    BY BodyValues DEF StopTypes, EventTypes
  <2>3. Append(batch, idle) \in Seq(Bodies)
    BY <2>2
  <2> QED
    BY <1>2, <2>1, <2>3
<1>6. CASE Answers
  <2>1. \A r \in Requests : req[r].batch \in Seq(Bodies)
    BY DEF IInv, TypeOK
  <2> QED
    BY <1>2, <1>6, <2>1 DEF Answers
<1> QED
  BY <1>1, <1>3, <1>4, <1>5, <1>6 DEF Effect

\* A step that leaves last_event_seq leaves the log.
LEMMA SameSeqSameLog ==
  ASSUME IInv, EventLogDense', session'.seq = session.seq, events \subseteq events'
  PROVE  events' = events
<1> SUFFICES ASSUME NEW e \in events' PROVE e \in events
  OBVIOUS
<1>1. e.seq \in 1 .. session.seq
  BY DEF EventLogDense
<1>2. PICK f \in events : f.seq = e.seq
  BY <1>1 DEF IInv, EventLogDense
<1>3. f = e
  BY <1>2 DEF EventLogDense
<1> QED
  BY <1>2, <1>3

-----------------------------------------------------------------------------
(* Each action is answered once, and a session that waits can go on. *)

\* The results a request holds answer no action that is answered in the history
\* they were checked against, as long as no event was appended since.
FreshAnswers(r) ==
  req[r].op = "send" /\ req[r].snap.seq = session.seq =>
    \A i \in DOMAIN req[r].batch :
      IsActionResult(req[r].batch[i].type) =>
        req[r].batch[i].target \notin ResolvedActionIds(History(events, HistoryLimit))

\* An action is an event of the log: the ids a session waits for, and the ids
\* that were answered, are numbers of events.
ActionsInLog ==
  /\ PendingActionIds(session.stop) \subseteq 1 .. session.seq
  /\ ResolvedActionIds(events) \subseteq 1 .. session.seq

\* An idle session that waits for actions waits for one that nobody answered.
OpenAction ==
  session.status = "idle" /\ IsWaitingForAction(session.stop) =>
    PendingActionIds(session.stop) \ ResolvedActionIds(events) # {}

AnswerInv ==
  /\ \A r \in Requests : FreshAnswers(r)
  /\ ActionsInLog
  /\ session.seq <= HistoryLimit => ActionResolvedOnce /\ OpenAction

\* A log that is not longer than the limit is its own history.
LEMMA WholeHistory ==
  ASSUME NEW log, \A e \in log : e.seq <= HistoryLimit
  PROVE  History(log, HistoryLimit) = log
BY DEF History

\* Only answers change the set of answered actions.
LEMMA AnsweredKept ==
  ASSUME IInv, Decisions, Effect, ~Answers
  PROVE  ResolvedActionIds(events') = ResolvedActionIds(events)
<1>1. \A e \in events' \ events : ~IsActionResult(e.type)
  BY EffectNewKinds DEF NewKinds, IsActionResult
<1> QED
  BY <1>1, EffectAppends DEF ResolvedActionIds

\* What an answer adds: results for some of the actions the session waits for,
\* each of them one result.
LEMMA AnswersAdd ==
  ASSUME IInv, Decisions, Answers
  PROVE  \E r \in Requests :
           /\ req[r].op = "send" /\ req[r].snap.seq = session.seq
           /\ req[r].snap.stop = session.stop
           /\ Becomes("idle", IF AllPendingActionsResolved(req[r].snap, req[r].batch)
                                THEN Stop("action_submitted") ELSE session.stop)
           /\ events' = events \cup Numbered(req[r].snap.seq, req[r].batch)
           /\ \E e \in events' \ events : IsActionResult(e.type)
           /\ \A e \in events' \ events : IsActionResult(e.type) =>
                /\ e.target \in PendingActionIds(session.stop)
                /\ \E i \in DOMAIN req[r].batch :
                     IsActionResult(req[r].batch[i].type) /\ req[r].batch[i].target = e.target
           /\ \A e, f \in events' \ events :
                IsActionResult(e.type) /\ IsActionResult(f.type) /\ e.target = f.target => e = f
<1>1. PICK r \in Requests :
        /\ req[r].op = "send" /\ req[r].snap.seq = session.seq /\ req[r].snap.stop = session.stop
        /\ Contains(req[r].batch, IsActionResult)
        /\ Appends(req[r].batch)
        /\ Becomes("idle", IF AllPendingActionsResolved(req[r].snap, req[r].batch)
                             THEN Stop("action_submitted") ELSE session.stop)
  BY DEF Answers
<1> DEFINE snap == req[r].snap
           batch == req[r].batch
<1>2. /\ batch \in Seq(Bodies) /\ batch \in Batches(snap)
      /\ \A i, j \in DOMAIN batch :
           IsActionResult(batch[i].type) /\ batch[j].target = batch[i].target => i = j
  BY <1>1 DEF IInv, TypeOK, Decisions, RequestDecided, SendDecided
<1>3. \A i \in DOMAIN batch : IsActionResult(batch[i].type) =>
        batch[i].target \in PendingActionIds(session.stop)
  <2>1. PICK n \in 1 .. MaxBatch : batch \in [1 .. n -> Inputs(snap)]
    BY <1>2 DEF Batches
  <2>2. \A input \in Inputs(snap) :
          IsActionResult(input.type) => input.target \in PendingActionIds(snap.stop)
    BY DEF Inputs, IsActionResult, Body
  <2> QED
    BY <1>1, <2>1, <2>2
<1>4. events' = events \cup Numbered(session.seq, batch)
  BY <1>1 DEF Appends
<1>5. \A e \in events' \ events : \E i \in DOMAIN batch :
        /\ e.seq = session.seq + i
        /\ e.type = batch[i].type /\ e.stop = batch[i].stop /\ e.target = batch[i].target
  BY <1>1, <1>2, NewEvents
<1>6. \E e \in events' \ events : IsActionResult(e.type)
  <2>1. PICK i \in DOMAIN batch : IsActionResult(batch[i].type)
    BY <1>1 DEF Contains
  <2>2. session.seq \in Nat /\ i \in Nat \ {0}
    BY <1>2 DEF IInv, TypeOK, Sessions
  <2>3. PICK e \in Numbered(session.seq, batch) :
          e.seq = session.seq + i /\ e.type = batch[i].type
    <3> DEFINE event == [seq |-> session.seq + i, type |-> batch[i].type,
                         stop |-> batch[i].stop, target |-> batch[i].target]
    <3>1. event \in Numbered(session.seq, batch)
      BY DEF Numbered
    <3> QED
      BY <3>1
  <2>4. e \notin events
    BY <2>2, <2>3 DEF IInv, EventLogDense
  <2> QED
    BY <1>4, <2>1, <2>3, <2>4
<1>7. ASSUME NEW e \in events' \ events, NEW f \in events' \ events,
             IsActionResult(e.type), IsActionResult(f.type), e.target = f.target
      PROVE  e = f
  <2>1. PICK i \in DOMAIN batch : e.seq = session.seq + i /\ e.type = batch[i].type /\
                                  e.target = batch[i].target
    BY <1>5
  <2>2. PICK j \in DOMAIN batch : f.seq = session.seq + j /\ f.type = batch[j].type /\
                                  f.target = batch[j].target
    BY <1>5
  <2>3. i = j
    BY <1>2, <1>7, <2>1, <2>2
  <2>4. e.seq = f.seq
    BY <2>1, <2>2, <2>3
  <2>5. e \in Numbered(session.seq, batch) /\ f \in Numbered(session.seq, batch)
    BY <1>4
  <2> QED
    BY <1>2, <2>4, <2>5, NumberedValues DEF IInv, TypeOK, Sessions
<1>8. ASSUME NEW e \in events' \ events, IsActionResult(e.type)
      PROVE  /\ e.target \in PendingActionIds(session.stop)
             /\ \E i \in DOMAIN batch :
                  IsActionResult(batch[i].type) /\ batch[i].target = e.target
  <2>1. PICK i \in DOMAIN batch : e.type = batch[i].type /\ e.target = batch[i].target
    BY <1>5
  <2> QED
    BY <1>3, <1>8, <2>1
<1> QED
  BY <1>1, <1>4, <1>6, <1>7, <1>8

\* A request that now holds answers was held before, or has just checked them.
LEMMA SendHeldOrChecked ==
  ASSUME IInv, [Next]_vars, NEW r \in Requests, req'[r].op = "send"
  PROVE  \/ req'[r] = req[r]
         \/ /\ UNCHANGED events
            /\ req'[r].snap = session
            /\ BatchValid(session, req'[r].batch)
<1>1. req \in [Requests -> RequestRecords]
  BY DEF IInv, TypeOK, RequestRecords
<1>2. CASE UNCHANGED req
  BY <1>2
<1>3. ASSUME NEW q \in Requests, NEW op, NEW batch, Begin(q, op, batch), op # "send"
      PROVE  req'[r] = req[r]
  BY <1>1, <1>3 DEF Begin
<1>4. ASSUME NEW q \in Requests, req' = [req EXCEPT ![q] = NoRequest]
      PROVE  req'[r] = req[r]
  BY <1>1, <1>4 DEF NoRequest
<1>5. ASSUME NEW q \in Requests, BeginSend(q)
      PROVE  \/ req'[r] = req[r]
             \/ /\ UNCHANGED events
                /\ req'[r].snap = session
                /\ BatchValid(session, req'[r].batch)
  <2>1. PICK batch \in Batches(session) : BatchValid(session, batch) /\ Begin(q, "send", batch)
    BY <1>5 DEF BeginSend
  <2> QED
    BY <1>1, <2>1 DEF Begin
<1>6. ASSUME NEW q \in Requests, RequestStep(q)
      PROVE  \/ BeginSend(q)
             \/ \E op, batch : op # "send" /\ Begin(q, op, batch)
             \/ req' = [req EXCEPT ![q] = NoRequest]
  <2>1. CASE BeginUpdate(q) \/ BeginUpdateAgent(q) \/ BeginArchive(q) \/ BeginArchiveThread(q)
             \/ BeginDelete(q) \/ BeginCancel(q) \/ BeginResume(q)
    <3>1. \E op \in {"update", "updateAgent", "archive", "archiveThread", "delete", "cancel",
                     "resume"} : Begin(q, op, <<>>)
      BY <2>1 DEF BeginUpdate, BeginUpdateAgent, BeginArchive, BeginArchiveThread, BeginDelete,
         BeginCancel, BeginResume
    <3> QED
      BY <3>1
  <2>2. CASE EndUpdate(q) \/ EndUpdateAgent(q) \/ EndArchive(q) \/ EndArchiveThread(q)
             \/ EndDelete(q) \/ EndCancel(q) \/ EndResume(q) \/ EndSend(q)
    BY <2>2 DEF EndUpdate, EndUpdateAgent, EndArchive, EndArchiveThread, EndDelete,
       EndCancel, EndResume, EndSend, End, EndSilently
  <2> QED
    BY <1>6, <2>1, <2>2 DEF RequestStep
<1>7. CASE \E q \in Requests : RequestStep(q)
  BY <1>3, <1>4, <1>5, <1>6, <1>7
<1>8. ASSUME NEW t \in Tasks, Invoke(t) \/ TurnStep(t)
      PROVE  UNCHANGED req
  BY <1>8 DEF Invoke, TurnStep, StartRead, StartCommit, Context, ContextCommit, Execute,
         FinishCommit, FailRead, FailCommit, Exit
<1> QED
  BY <1>2, <1>7, <1>8 DEF Next, vars, Crash

LEMMA StepFresh ==
  ASSUME IInv, Decisions, \A r \in Requests : FreshAnswers(r), [Next]_vars
  PROVE  \A r \in Requests : FreshAnswers(r)'
<1> SUFFICES ASSUME NEW r \in Requests, req'[r].op = "send", req'[r].snap.seq = session'.seq,
                    NEW i \in DOMAIN req'[r].batch, IsActionResult(req'[r].batch[i].type)
             PROVE  req'[r].batch[i].target \notin ResolvedActionIds(History(events', HistoryLimit))
  BY DEF FreshAnswers
<1>1. IInv' /\ LogGrows /\ Effect
  BY StepInvariant, StepEffect
<1>2. CASE req'[r] = req[r]
  <2>1. /\ req[r].snap.seq <= session.seq /\ session.seq <= session'.seq
        /\ session.seq \in Nat /\ session'.seq \in Nat
    BY <1>1 DEF IInv, SnapshotsBehind, Behind, LogGrows, TypeOK, Sessions
  <2>2. session'.seq = session.seq
    BY <1>2, <2>1
  <2>3. events' = events
    BY <1>1, <2>2, EffectAppends, SameSeqSameLog DEF IInv
  <2> QED
    BY <1>2, <2>2, <2>3 DEF FreshAnswers
<1>3. CASE UNCHANGED events /\ BatchValid(session, req'[r].batch)
  <2>1. ActionResultsValid(session, req'[r].batch)
    BY <1>3 DEF BatchValid, IsActionResult, Body
  <2> QED
    BY <1>3, <2>1 DEF ActionResultsValid
<1> QED
  BY <1>2, <1>3, SendHeldOrChecked

LEMMA StepActionsInLog ==
  ASSUME IInv, Decisions, ActionsInLog, [Next]_vars
  PROVE  ActionsInLog'
<1>1. IInv' /\ LogGrows /\ Effect
  BY StepInvariant, StepEffect
<1>2. /\ session.seq \in Nat /\ session'.seq \in Nat /\ session.seq <= session'.seq
      /\ 1 .. session.seq \subseteq 1 .. session'.seq
  BY <1>1 DEF IInv, LogGrows, TypeOK, Sessions
<1>3. ResolvedActionIds(events') \subseteq 1 .. session.seq
  <2>1. CASE Answers
    <3>1. \A e \in events' \ events : IsActionResult(e.type) =>
            e.target \in PendingActionIds(session.stop)
      BY <2>1, AnswersAdd
    <3> QED
      BY <3>1 DEF ResolvedActionIds, ActionsInLog
  <2>2. CASE ~Answers
    BY <1>1, <2>2, AnsweredKept DEF ActionsInLog
  <2> QED
    BY <2>1, <2>2
<1>4. PendingActionIds(session'.stop) \subseteq 1 .. session'.seq
  <2>1. CASE session'.stop = session.stop
    BY <1>2, <2>1 DEF ActionsInLog
  <2>2. CASE ~IsWaitingForAction(session'.stop)
    BY <2>2 DEF PendingActionIds
  <2>3. CASE Asks
    <3>1. PICK n \in 1 .. MaxActions :
            /\ Appends(ActionBodies(session, n))
            /\ Becomes("idle", RequiresAction(session.seq + 1 .. session.seq + n))
      BY <2>3 DEF Asks
    <3>2. Len(ActionBodies(session, n)) = n + 1 /\ n \in Nat
      BY TurnBodies, BoundsAssumption DEF IInv, TypeOK
    <3>3. session'.seq = session.seq + (n + 1)
      BY <3>1, <3>2 DEF Appends
    <3>4. PendingActionIds(session'.stop) = session.seq + 1 .. session.seq + n
      BY <3>1 DEF Becomes, PendingActionIds, IsWaitingForAction, RequiresAction
    <3> QED
      BY <1>2, <3>2, <3>3, <3>4
  <2>4. CASE ~Asks
    <3>1. session'.stop = session.stop \/ ~IsWaitingForAction(session'.stop)
      BY <1>1, <2>4 DEF Effect, Quiet, Notes, Starts, Ends, Fails, Interrupts, Answers, Cancels,
         Deletes, Stays, Becomes, IsWaitingForAction, Stop
    <3> QED
      BY <2>1, <2>2, <3>1
  <2> QED
    BY <2>3, <2>4
<1> QED
  BY <1>2, <1>3, <1>4 DEF ActionsInLog

LEMMA StepAnswers == IInv /\ Decisions /\ AnswerInv /\ [Next]_vars => AnswerInv'
<1> SUFFICES ASSUME IInv, Decisions, AnswerInv, [Next]_vars PROVE AnswerInv'
  OBVIOUS
<1>1. IInv' /\ LogGrows /\ Effect
  BY StepInvariant, StepEffect
<1>2. /\ \A r \in Requests : FreshAnswers(r)'
      /\ ActionsInLog'
  BY StepFresh, StepActionsInLog DEF AnswerInv
<1>3. ASSUME session'.seq <= HistoryLimit
      PROVE  ActionResolvedOnce' /\ OpenAction'
  <2>1. /\ session.seq \in Nat /\ session'.seq \in Nat /\ session.seq <= session'.seq
        /\ HistoryLimit \in Nat
    BY <1>1, BoundsAssumption DEF IInv, LogGrows, TypeOK, Sessions
  <2>2. ActionResolvedOnce /\ OpenAction
    BY <1>3, <2>1 DEF AnswerInv
  <2>3. \A e \in events' : e.seq <= HistoryLimit
    BY <1>1, <1>3, <2>1 DEF IInv, EventLogDense
  <2>4. \A e \in events : e.seq <= HistoryLimit
    BY <2>3, <1>1, EffectAppends
  <2>5. /\ History(events, HistoryLimit) = events
        /\ History(events', HistoryLimit) = events'
    BY <2>3, <2>4, WholeHistory
  <2>6. events \subseteq events'
    BY <1>1, EffectAppends
  <2>7. CASE ~Answers
    <3>1. \A e \in events' \ events : ~IsActionResult(e.type)
      BY <1>1, <2>7, EffectNewKinds DEF NewKinds, IsActionResult
    <3>2. ActionResolvedOnce'
      BY <2>2, <3>1 DEF ActionResolvedOnce
    <3>3. ResolvedActionIds(events') = ResolvedActionIds(events)
      BY <1>1, <2>7, AnsweredKept
    <3>4. CASE Asks
      <4>1. PICK n \in 1 .. MaxActions :
              Becomes("idle", RequiresAction(session.seq + 1 .. session.seq + n))
        BY <3>4 DEF Asks
      <4>2. PendingActionIds(session'.stop) = session.seq + 1 .. session.seq + n
        BY <4>1 DEF Becomes, PendingActionIds, IsWaitingForAction, RequiresAction
      <4>3. session.seq + 1 \in PendingActionIds(session'.stop) /\ session.seq + 1 \notin 1 .. session.seq
        BY <2>1, <4>2, BoundsAssumption
      <4>4. session.seq + 1 \notin ResolvedActionIds(events')
        BY <3>3, <4>3 DEF AnswerInv, ActionsInLog
      <4> QED
        BY <3>2, <4>3, <4>4 DEF OpenAction
    <3>5. CASE ~Asks
      <4>1. session'.status = "idle" /\ IsWaitingForAction(session'.stop) =>
              session.status = "idle" /\ session'.stop = session.stop
        BY <1>1, <2>7, <3>5 DEF Effect, Quiet, Notes, Starts, Ends, Fails, Interrupts, Cancels,
           Deletes, Stays, Becomes, IsWaitingForAction, Stop
      <4> QED
        BY <2>2, <3>2, <3>3, <4>1 DEF OpenAction
    <3> QED
      BY <3>4, <3>5
  <2>8. CASE Answers
    <3>1. PICK r \in Requests :
           /\ req[r].op = "send" /\ req[r].snap.seq = session.seq
           /\ req[r].snap.stop = session.stop
           /\ Becomes("idle", IF AllPendingActionsResolved(req[r].snap, req[r].batch)
                                THEN Stop("action_submitted") ELSE session.stop)
           /\ events' = events \cup Numbered(req[r].snap.seq, req[r].batch)
           /\ \A e \in events' \ events : IsActionResult(e.type) =>
                /\ e.target \in PendingActionIds(session.stop)
                /\ \E i \in DOMAIN req[r].batch :
                     IsActionResult(req[r].batch[i].type) /\ req[r].batch[i].target = e.target
           /\ \A e, f \in events' \ events :
                IsActionResult(e.type) /\ IsActionResult(f.type) /\ e.target = f.target => e = f
      BY <2>8, AnswersAdd
    <3>2. \A e \in events' \ events : IsActionResult(e.type) =>
            e.target \notin ResolvedActionIds(events)
      BY <2>5, <3>1 DEF AnswerInv, FreshAnswers
    <3>3. \A e \in events : IsActionResult(e.type) => e.target \in ResolvedActionIds(events)
      BY DEF ResolvedActionIds
    <3>4. ActionResolvedOnce'
      BY <2>2, <3>1, <3>2, <3>3 DEF ActionResolvedOnce
    <3>5. OpenAction'
      <4> SUFFICES ASSUME session'.status = "idle", IsWaitingForAction(session'.stop)
                   PROVE  PendingActionIds(session'.stop) \ ResolvedActionIds(events') # {}
        BY DEF OpenAction
      <4>1. /\ session'.stop = session.stop
            /\ ~AllPendingActionsResolved(req[r].snap, req[r].batch)
        BY <3>1 DEF Becomes, IsWaitingForAction, Stop
      <4>2. session.status = "idle" /\ IsWaitingForAction(session.stop)
        BY <2>8 DEF Answers
      <4>3. PendingActionIds(session.stop) # {}
        BY <2>2, <4>2 DEF OpenAction
      <4>4. ~(PendingActionIds(session.stop) \subseteq ResolvedActionIds(events'))
        BY <2>5, <3>1, <4>1, <4>3 DEF AllPendingActionsResolved
      <4> QED
        BY <4>1, <4>4
    <3> QED
      BY <3>4, <3>5
  <2> QED
    BY <2>7, <2>8
<1> QED
  BY <1>2, <1>3 DEF AnswerInv

LEMMA InitAnswers == Init => AnswerInv
<1> SUFFICES ASSUME Init PROVE AnswerInv
  OBVIOUS
<1>1. \A e \in events : ~IsActionResult(e.type)
  BY DEF Init, Numbered, StatusBody, IsActionResult
<1>2. ResolvedActionIds(events) = {}
  BY <1>1 DEF ResolvedActionIds
<1>3. ~IsWaitingForAction(session.stop) /\ PendingActionIds(session.stop) = {}
  BY DEF Init, Created, Stop, IsWaitingForAction, PendingActionIds
<1>4. \A r \in Requests : req[r].op = "none"
  BY DEF Init, NoRequest
<1> QED
  BY <1>1, <1>2, <1>3, <1>4 DEF AnswerInv, FreshAnswers, ActionsInLog, ActionResolvedOnce, OpenAction

LEMMA SpecAnswers == Spec => [](IInv /\ Decisions /\ AnswerInv)
BY InitInvariant, StepInvariant, InitDecisions, StepDecisions, InitAnswers, StepAnswers, PTL
   DEF Spec

\* _validate_action_results: as long as the log is not longer than the history it
\* reads, no action is answered twice, whichever requests and turns interleave.
THEOREM AnsweredOnce == Spec => [](session.seq <= HistoryLimit => ActionResolvedOnce)
BY SpecAnswers, PTL DEF AnswerInv

LEMMA OpenMeansAcceptable ==
  ASSUME IInv, AnswerInv, session.seq <= HistoryLimit
  PROVE  WaitingCanGoOn
<1> SUFFICES ASSUME session.status = "idle", IsWaitingForAction(session.stop),
                    NEW id \in PendingActionIds(session.stop) \ ResolvedActionIds(events)
             PROVE  BatchValid(session, <<[Body("action_result") EXCEPT !.target = id]>>)
  BY DEF WaitingCanGoOn, AnswerInv, OpenAction
<1> DEFINE answer == [Body("action_result") EXCEPT !.target = id]
<1>1. answer.type = "action_result" /\ answer.target = id
  BY DEF Body
<1> HIDE DEF answer
<1>2. DOMAIN <<answer>> = {1} /\ <<answer>>[1] = answer
  OBVIOUS
<1>3. History(events, HistoryLimit) = events
  <2>1. session.seq \in Nat /\ HistoryLimit \in Nat
    BY BoundsAssumption DEF IInv, TypeOK, Sessions
  <2>2. \A e \in events : e.seq <= HistoryLimit
    BY <2>1 DEF IInv, EventLogDense
  <2> QED
    BY <2>2, WholeHistory
<1>4. \E e \in events : e.seq = id
  BY DEF AnswerInv, ActionsInLog, IInv, EventLogDense
<1>5. ActionResultsValid(session, <<answer>>)
  BY <1>1, <1>2, <1>3, <1>4 DEF ActionResultsValid
<1>6. SystemMessagesValid(<<answer>>)
  BY <1>1, <1>2 DEF SystemMessagesValid
<1>7. BatchValid(session, <<answer>>)
  BY <1>1, <1>2, <1>5, <1>6 DEF BatchValid, BlocksMutation, Active, IsActionResult
<1> QED
  BY <1>7 DEF answer

\* As long as the log is not longer than the history the answers are checked
\* against, an idle session that waits for actions has an unanswered one, and
\* send_events accepts a request that answers it.
THEOREM WaitingSessionGoesOn == Spec => [](session.seq <= HistoryLimit => WaitingCanGoOn)
<1>1. IInv /\ AnswerInv => (session.seq <= HistoryLimit => WaitingCanGoOn)
  BY OpenMeansAcceptable
<1> QED
  BY <1>1, SpecAnswers, PTL

-----------------------------------------------------------------------------
(* SessionTurns implements SessionLifecycle. *)

\* Both levels speak of statuses and stop reasons in the words of SessionState.
LEMMA SameVocabulary ==
  /\ \A type : Lifecycle!Stop(type) = Stop(type)
  /\ \A s : Lifecycle!IsWaitingForAction(s) = IsWaitingForAction(s)
  /\ \A s : Lifecycle!PendingActionIds(s) = PendingActionIds(s)
  /\ \A s : Lifecycle!BlocksMutation(s) = BlocksMutation(s)
  /\ \A s, r : Lifecycle!CanStartWork(s, r) = CanStartWork(s, r)
BY DEF Stop, IsWaitingForAction, PendingActionIds, BlocksMutation, CanStartWork, Active, Runnable,
       Lifecycle!Stop, Lifecycle!IsWaitingForAction, Lifecycle!PendingActionIds,
       Lifecycle!BlocksMutation, Lifecycle!CanStartWork, Lifecycle!Active, Lifecycle!Runnable

LEMMA InitRefines == Init => Lifecycle!Init
<1> SUFFICES ASSUME Init PROVE Lifecycle!Init
  OBVIOUS
<1>1. ResolvedActionIds(events) = {}
  BY DEF Init, Numbered, StatusBody, IsActionResult, ResolvedActionIds
<1> QED
  BY <1>1, SameVocabulary DEF Init, Created, Lifecycle!Init

\* An answer of the code is an answer of the abstract session: of some actions it
\* waits for, none answered before, going on exactly with the last.
LEMMA AnswersRefine ==
  ASSUME IInv, IInv', Decisions, AnswerInv, Effect, Answers, session'.seq <= HistoryLimit,
         session.seq <= session'.seq
  PROVE  Lifecycle!AnswerActions
<1>1. PICK r \in Requests :
       /\ req[r].op = "send" /\ req[r].snap.seq = session.seq
       /\ req[r].snap.stop = session.stop
       /\ Becomes("idle", IF AllPendingActionsResolved(req[r].snap, req[r].batch)
                            THEN Stop("action_submitted") ELSE session.stop)
       /\ events' = events \cup Numbered(req[r].snap.seq, req[r].batch)
       /\ \E e \in events' \ events : IsActionResult(e.type)
       /\ \A e \in events' \ events : IsActionResult(e.type) =>
            /\ e.target \in PendingActionIds(session.stop)
            /\ \E i \in DOMAIN req[r].batch :
                 IsActionResult(req[r].batch[i].type) /\ req[r].batch[i].target = e.target
  BY AnswersAdd
<1> DEFINE new == {e \in events' \ events : IsActionResult(e.type)}
           ids == {e.target : e \in new}
           answered == ResolvedActionIds(events)
<1>2. session.seq \in Nat /\ session'.seq \in Nat /\ HistoryLimit \in Nat
  BY BoundsAssumption DEF IInv, TypeOK, Sessions
<1>3. /\ \A e \in events' : e.seq <= HistoryLimit
      /\ \A e \in events : e.seq <= HistoryLimit
  <2>1. \A e \in events' : e.seq <= HistoryLimit
    BY <1>2 DEF IInv, EventLogDense
  <2> QED
    BY <2>1, EffectAppends
<1>4. /\ History(events, HistoryLimit) = events
      /\ History(events', HistoryLimit) = events'
  BY <1>3, WholeHistory
<1>5. ids \subseteq PendingActionIds(session.stop) \ answered
  <2> SUFFICES ASSUME NEW e \in new
               PROVE  e.target \in PendingActionIds(session.stop) /\ e.target \notin answered
    OBVIOUS
  <2> QED
    BY <1>1, <1>4 DEF AnswerInv, FreshAnswers
<1>6. ids # {}
  BY <1>1
<1>7. ResolvedActionIds(events') = answered \cup ids
  BY <1>1 DEF ResolvedActionIds
<1>8. PendingActionIds(session.stop) # {}
  <2>1. session.status = "idle" /\ IsWaitingForAction(session.stop)
    BY DEF Answers
  <2>2. session.seq <= HistoryLimit
    BY <1>2
  <2> QED
    BY <2>1, <2>2 DEF AnswerInv, OpenAction
<1>9. AllPendingActionsResolved(req[r].snap, req[r].batch) <=>
        PendingActionIds(session.stop) \subseteq answered \cup ids
  BY <1>1, <1>4, <1>7, <1>8 DEF AllPendingActionsResolved
<1>10. /\ session'.stop = IF PendingActionIds(session.stop) \subseteq answered \cup ids
                            THEN Stop("action_submitted") ELSE session.stop
       /\ session'.status = session.status /\ session'.deleted = session.deleted
  BY <1>1, <1>9 DEF Becomes, Answers
<1> HIDE DEF ids
<1> QED
  BY <1>5, <1>6, <1>7, <1>10, SameVocabulary DEF Lifecycle!AnswerActions, Answers

LEMMA AsksRefine ==
  ASSUME IInv, AnswerInv, Asks, ResolvedActionIds(events') = ResolvedActionIds(events)
  PROVE  Lifecycle!AskForActions
<1>1. PICK n \in 1 .. MaxActions :
        Becomes("idle", RequiresAction(session.seq + 1 .. session.seq + n))
  BY DEF Asks
<1>2. session.seq \in Nat /\ n \in Nat \ {0}
  BY BoundsAssumption DEF IInv, TypeOK, Sessions
<1>3. /\ session'.stop.type = "requires_action"
      /\ session'.stop.pending = session.seq + 1 .. session.seq + n
  BY <1>1 DEF Becomes, RequiresAction
<1>4. session'.stop.pending # {}
  <2>1. session.seq + 1 \in session'.stop.pending
    BY <1>2, <1>3
  <2> QED
    BY <2>1
<1>5. session'.stop.pending \cap ResolvedActionIds(events) = {}
  <2>1. \A id \in session'.stop.pending : id \notin 1 .. session.seq
    BY <1>2, <1>3
  <2> QED
    BY <2>1 DEF AnswerInv, ActionsInLog
<1> QED
  BY <1>1, <1>3, <1>4, <1>5 DEF Asks, Becomes, Lifecycle!AskForActions

LEMMA StepRefines ==
  ASSUME IInv, Decisions, AnswerInv, [Next]_vars, session'.seq <= HistoryLimit
  PROVE  [Lifecycle!Next]_(Lifecycle!vars)
<1>1. IInv' /\ LogGrows /\ Effect
  BY StepInvariant, StepEffect
<1>2. session.seq <= session'.seq
  BY <1>1 DEF IInv, LogGrows, TypeOK, Sessions
<1>3. CASE Answers
  BY <1>1, <1>2, <1>3, AnswersRefine DEF Lifecycle!Next
<1>4. CASE ~Answers
  <2>1. ResolvedActionIds(events') = ResolvedActionIds(events)
    BY <1>1, <1>4, AnsweredKept
  <2>2. CASE Quiet \/ Notes
    BY <2>1, <2>2 DEF Quiet, Notes, Stays, Becomes, Lifecycle!vars
  <2>3. CASE Starts
    BY <2>1, <2>3, SameVocabulary DEF Starts, Becomes, Lifecycle!Next, Lifecycle!StartTurn, Lifecycle!Become
  <2>4. CASE Ends
    BY <2>1, <2>4, SameVocabulary DEF Ends, Becomes, Lifecycle!Next, Lifecycle!EndTurn, Lifecycle!Become
  <2>5. CASE Asks
    BY <2>1, <2>5, AsksRefine DEF Lifecycle!Next
  <2>6. CASE Fails
    BY <2>1, <2>6, SameVocabulary DEF Fails, Becomes, Lifecycle!Next, Lifecycle!Fail, Lifecycle!Become
  <2>7. CASE Interrupts
    BY <2>1, <2>7, SameVocabulary DEF Interrupts, Becomes, Lifecycle!Next, Lifecycle!Interrupt, Lifecycle!Become
  <2>8. CASE Cancels
    BY <2>1, <2>8, SameVocabulary DEF Cancels, Becomes, Lifecycle!Next, Lifecycle!Cancel, Lifecycle!Become
  <2>9. CASE Deletes
    BY <2>1, <2>9, SameVocabulary DEF Deletes, Lifecycle!Next, Lifecycle!Delete
  <2> QED
    BY <1>1, <1>4, <2>2, <2>3, <2>4, <2>5, <2>6, <2>7, <2>8, <2>9 DEF Effect
<1> QED
  BY <1>3, <1>4

\* As long as the log is not longer than the history that answers are checked
\* against, every committed transaction of a handler or a turn is one step of the
\* abstract session, decided and taken in one instant; every other step leaves the
\* abstract session as it is.
THEOREM TurnsRefineLifecycle ==
  Spec /\ [](session.seq <= HistoryLimit) => ImplementsLifecycle
<1>1. /\ IInv /\ Decisions /\ AnswerInv /\ [Next]_vars /\ (session.seq <= HistoryLimit)'
      => [Lifecycle!Next]_(Lifecycle!vars)
  BY StepRefines
<1> QED
  BY <1>1, InitRefines, SpecAnswers, PTL DEF Spec, ImplementsLifecycle, Lifecycle!Spec

-----------------------------------------------------------------------------
(* The turns of one process. *)

\* _running_sessions: a process has at most one execution of run_session_turn, and
\* knows it has one.
OneTurnPerProcess ==
  /\ \A t \in Tasks : task[t].pc # "idle" => running[ProcOf[t]]
  /\ \A t, u \in Tasks :
       task[t].pc # "idle" /\ task[u].pc # "idle" /\ ProcOf[t] = ProcOf[u] => t = u

\* From the commit of its start until it leaves, an execution has a turn.
InTurn(t) ==
  task[t].pc \in {"context", "contextCommit", "execute", "finishCommit", "fail", "failCommit"}

\* What a step of one task does to it.
TaskStep(t) ==
  \/ Invoke(t)
  \/ StartCommit(t) /\ Free(task[t].snap, 1)
  \/ task[t].pc = "start" /\ task'[t].pc \in {"startCommit", "exit"}
  \/ task[t].pc = "startCommit" /\ task'[t].pc = "exit" /\ Unwritten
  \/ InTurn(t) /\ task'[t].pc # "idle" /\ (InTurn(t)' => task'[t].started = task[t].started)
  \/ Exit(t)

LEMMA TaskSteps ==
  ASSUME IInv, NEW t \in Tasks, Invoke(t) \/ TurnStep(t)
  PROVE  TaskStep(t) /\ \A u \in Tasks \ {t} : task'[u] = task[u]
<1>1. task \in [Tasks -> TaskRecords]
  BY DEF IInv, TypeOK, TaskRecords
<1>2. \A u \in Tasks \ {t} : task'[u] = task[u]
  BY <1>1 DEF Invoke, TurnStep, StartRead, StartCommit, Context, ContextCommit, Execute,
         FinishCommit, Finish, FailRead, FailCommit, Exit, Goto, Hold, Raise, Leave
<1>3. CASE StartRead(t) \/ Context(t) \/ Execute(t) \/ FailRead(t)
  BY <1>1, <1>3 DEF StartRead, Context, Execute, FailRead, Goto, Hold, Raise, Leave, TaskStep,
     InTurn, TaskRecords
<1>4. CASE StartCommit(t)
  BY <1>1, <1>4 DEF StartCommit, Leave, TaskStep, TaskRecords
<1>5. CASE ContextCommit(t)
  BY <1>1, <1>5 DEF ContextCommit, Raise, TaskStep, InTurn, TaskRecords
<1>6. CASE FinishCommit(t) \/ FailCommit(t)
  <2>1. InTurn(t) /\ (Leave(t) \/ Raise(t, "permanent"))
    BY <1>6 DEF FinishCommit, Finish, FailCommit, InTurn
  <2> QED
    BY <1>1, <2>1 DEF Leave, Raise, TaskStep, InTurn, TaskRecords
<1> QED
  BY <1>2, <1>3, <1>4, <1>5, <1>6 DEF TurnStep, TaskStep

LEMMA RequestsLeaveTasks ==
  ASSUME NEW r \in Requests, RequestStep(r)
  PROVE  UNCHANGED <<task, running>>
BY DEF RequestStep, BeginUpdate, EndUpdate, BeginUpdateAgent, EndUpdateAgent, BeginArchive,
       EndArchive, BeginArchiveThread, EndArchiveThread, BeginDelete, EndDelete,
       BeginCancel, EndCancel, BeginResume, EndResume, BeginSend, EndSend,
       Begin, End, EndSilently

LEMMA StepOneTurn == IInv /\ OneTurnPerProcess /\ [Next]_vars => OneTurnPerProcess'
<1> SUFFICES ASSUME IInv, OneTurnPerProcess, [Next]_vars PROVE OneTurnPerProcess'
  OBVIOUS
<1>1. task \in [Tasks -> TaskRecords] /\ running \in [Procs -> BOOLEAN]
  BY DEF IInv, TypeOK, TaskRecords
<1>2. \A t \in Tasks : ProcOf[t] \in Procs
  BY ProcOfAssumption
<1>3. ASSUME NEW t \in Tasks, Invoke(t) \/ TurnStep(t)
      PROVE  OneTurnPerProcess'
  <2>1. TaskStep(t) /\ \A u \in Tasks \ {t} : task'[u] = task[u]
    BY <1>3, TaskSteps
  <2>2. CASE Invoke(t)
    <3>1. /\ ~running[ProcOf[t]]
          /\ running' = [running EXCEPT ![ProcOf[t]] = TRUE]
      BY <2>2 DEF Invoke
    <3>2. \A u \in Tasks : ProcOf[u] = ProcOf[t] => task[u].pc = "idle"
      BY <3>1 DEF OneTurnPerProcess
    <3>3. running'[ProcOf[t]] /\ \A p \in Procs : p # ProcOf[t] => running'[p] = running[p]
      BY <1>1, <1>2, <3>1
    <3>4. ASSUME NEW u \in Tasks, task'[u].pc # "idle"
          PROVE  running'[ProcOf[u]]
      <4>1. CASE u = t
        BY <3>3, <4>1
      <4>2. CASE u # t
        <5>1. running[ProcOf[u]] /\ ProcOf[u] # ProcOf[t]
          BY <2>1, <3>2, <3>4, <4>2 DEF OneTurnPerProcess
        <5> QED
          BY <1>2, <3>3, <5>1
      <4> QED
        BY <4>1, <4>2
    <3> QED
      BY <2>1, <3>2, <3>4 DEF OneTurnPerProcess
  <2>3. CASE Exit(t)
    <3>1. /\ task[t].pc = "exit" /\ task'[t].pc = "idle"
          /\ running' = [running EXCEPT ![ProcOf[t]] = FALSE]
      BY <1>1, <2>3 DEF Exit, NoTask
    <3>2. \A u \in Tasks \ {t} : task[u].pc # "idle" => ProcOf[u] # ProcOf[t]
      BY <3>1 DEF OneTurnPerProcess
    <3>3. \A p \in Procs : p # ProcOf[t] => running'[p] = running[p]
      BY <1>1, <1>2, <3>1
    <3> QED
      BY <1>2, <2>1, <3>1, <3>2, <3>3 DEF OneTurnPerProcess
  <2>4. CASE ~Invoke(t) /\ ~Exit(t)
    <3>1. task[t].pc # "idle" /\ UNCHANGED running
      BY <1>3, <2>4 DEF TurnStep, StartRead, StartCommit, Context, ContextCommit, Execute,
         FinishCommit, FailRead, FailCommit
    <3> QED
      BY <2>1, <3>1 DEF OneTurnPerProcess
  <2> QED
    BY <2>2, <2>3, <2>4
<1>4. ASSUME NEW p \in Procs, Crash(p)
      PROVE  OneTurnPerProcess'
  <2>1. /\ \A t \in Tasks : task'[t] = IF ProcOf[t] = p THEN NoTask ELSE task[t]
        /\ \A q \in Procs : q # p => running'[q] = running[q]
    BY <1>1, <1>4 DEF Crash
  <2> QED
    BY <1>2, <2>1 DEF OneTurnPerProcess, NoTask
<1>5. CASE UNCHANGED <<task, running>>
  BY <1>5 DEF OneTurnPerProcess
<1> QED
  BY <1>3, <1>4, <1>5, RequestsLeaveTasks DEF Next, vars

\* What only the runtime writes, it writes in a turn; a turn that completed has left.
LEMMA RuntimeWrites ==
  ASSUME IInv, Decisions, [Next]_vars, NEW e \in events' \ events,
         e.type \in {"session.status_running", "session.error", "agent.message", "agent.tool_use",
                    "session.status_rescheduled"} \/ Completed(e)
  PROVE  \E t \in Tasks :
           /\ \A u \in Tasks \ {t} : task'[u] = task[u]
           /\ \/ e.type = "session.status_running" /\ StartCommit(t) /\ Free(task[t].snap, 1)
              \/ e.type = "session.error" /\ ContextCommit(t)
              \/ (Completed(e) \/ e.type \in {"agent.message", "agent.tool_use"}) /\
                   FinishCommit(t) /\ Leave(t)
              \/ e.type \in {"session.error", "session.status_rescheduled"} /\ FailCommit(t)
<1>1. ASSUME NEW t \in Tasks, Invoke(t) \/ TurnStep(t)
      PROVE  \/ e.type = "session.status_running" /\ StartCommit(t) /\ Free(task[t].snap, 1)
             \/ e.type = "session.error" /\ ContextCommit(t)
             \/ (Completed(e) \/ e.type \in {"agent.message", "agent.tool_use"}) /\
                   FinishCommit(t) /\ Leave(t)
             \/ e.type \in {"session.error", "session.status_rescheduled"} /\ FailCommit(t)
  <2>1. CASE StartCommit(t)
    BY <2>1 DEF StartCommit, Commit, Unwritten, Numbered, Body
  <2>2. CASE ContextCommit(t)
    BY <2>2 DEF ContextCommit, Commit, Unwritten, Numbered, Body
  <2>3. CASE FinishCommit(t)
    <3>1. Leave(t)
      BY <2>3 DEF FinishCommit, Finish, Unwritten
    <3>2. \/ events' = events \cup Numbered(task[t].snap.seq, FinalBodies)
          \/ \E n \in 1 .. MaxActions :
               events' = events \cup Numbered(task[t].snap.seq, ActionBodies(task[t].snap, n))
      BY <2>3 DEF FinishCommit, Finish, Unwritten, Commit
    <3>3. e.type \in {"agent.message", "agent.tool_use", "session.status_idle"}
      BY <3>2 DEF Numbered, FinalBodies, ActionBodies, Body, StatusBody
    <3> QED
      BY <2>3, <3>1, <3>3
  <2>4. CASE FailCommit(t)
    <3>1. \E stop : \E type \in {"session.status_rescheduled", "session.status_terminated"} :
            events' = events \cup Numbered(task[t].snap.seq, FailureBodies(type, stop))
      BY <2>4 DEF FailCommit, Unwritten, Commit
    <3>2. e.type \in {"session.error", "session.status_rescheduled", "session.status_terminated"}
      BY <3>1 DEF Numbered, FailureBodies, Body, StatusBody
    <3> QED
      BY <2>4, <3>2 DEF Completed
  <2> QED
    BY <1>1, <2>1, <2>2, <2>3, <2>4
       DEF Invoke, TurnStep, StartRead, Context, Execute, FailRead, Exit
<1>2. ASSUME NEW r \in Requests, RequestStep(r)
      PROVE  FALSE
  <2>1. Effect
    BY StepEffect
  <2>2. NewKinds(e)
    BY <2>1, EffectNewKinds
  <2>3. CASE EndSend(r)
    <3>1. e \in Numbered(req[r].snap.seq, req[r].batch) \/
          e \in Numbered(req[r].snap.seq,
                        Append(req[r].batch, StatusBody("session.status_idle", Stop("interrupted"))))
      BY <2>3 DEF EndSend, End, Commit, Unwritten
    <3>2. /\ req[r].batch \in Seq(Bodies)
          /\ \A i \in DOMAIN req[r].batch :
               req[r].batch[i].type \in {"user.message", "user.interrupt", "action_result",
                                         "system.message"}
      <4>1. req[r].batch \in Seq(Bodies) /\ req[r].batch \in Batches(req[r].snap)
        BY <2>3 DEF IInv, TypeOK, EndSend, End, Decisions, RequestDecided, SendDecided
      <4>2. PICK n \in 1 .. MaxBatch : req[r].batch \in [1 .. n -> Inputs(req[r].snap)]
        BY <4>1 DEF Batches
      <4>3. \A input \in Inputs(req[r].snap) : input.type \in InputTypes \cup {"action_result"}
        BY DEF Inputs, Body
      <4> QED
        BY <4>1, <4>2, <4>3, InputTypesAssumption
    <3>3. CASE e \in Numbered(req[r].snap.seq, req[r].batch)
      BY <3>2, <3>3 DEF Numbered, Completed
    <3>4. CASE e \in Numbered(req[r].snap.seq,
                        Append(req[r].batch, StatusBody("session.status_idle", Stop("interrupted"))))
      <4> DEFINE idle == StatusBody("session.status_idle", Stop("interrupted"))
      <4>1. idle \in Bodies /\ idle.type = "session.status_idle" /\ idle.stop.type = "interrupted"
        BY BodyValues DEF EventTypes, StopTypes, StatusBody, Stop
      <4> HIDE DEF idle
      <4>2. PICK bodies \in Seq(Bodies) : bodies = Append(req[r].batch, idle)
        <5>1. Append(req[r].batch, idle) \in Seq(Bodies)
          BY <3>2, <4>1
        <5> QED
          BY <5>1
      <4>3. \A i \in DOMAIN bodies :
              bodies[i] = idle \/ (i \in DOMAIN req[r].batch /\ bodies[i] = req[r].batch[i])
        BY <3>2, <4>1, <4>2
      <4>4. PICK i \in DOMAIN bodies : e.type = bodies[i].type /\ e.stop = bodies[i].stop
        BY <3>4, <4>2 DEF Numbered, idle
      <4> QED
        BY <3>2, <4>1, <4>3, <4>4 DEF Completed
    <3> QED
      BY <3>1, <3>3, <3>4
  <2>4. CASE EndUpdate(r) \/ EndUpdateAgent(r) \/ EndDelete(r) \/ EndCancel(r)
    <3>1. \E body \in {Body("session.updated"), Body("session.deleted"),
                        StatusBody("session.status_terminated", Stop("cancelled"))} :
            e \in Numbered(req[r].snap.seq, <<body>>)
      <4>1. \E op, new, body :
              /\ body \in {Body("session.updated"), Body("session.deleted"),
                           StatusBody("session.status_terminated", Stop("cancelled"))}
              /\ End(r, op, new, <<body>>)
        BY <2>4 DEF EndUpdate, EndUpdateAgent, EndDelete, EndCancel
      <4> QED
        BY <4>1 DEF End, Commit, Unwritten
    <3>2. e.type \in {"session.updated", "session.deleted", "session.status_terminated"}
      BY <3>1 DEF Numbered, Body, StatusBody
    <3> QED
      BY <3>2 DEF Completed
  <2>5. CASE UNCHANGED events
    BY <2>5
  <2> QED
    BY <1>2, <2>3, <2>4, <2>5 DEF RequestStep, BeginUpdate, BeginUpdateAgent, BeginArchive,
       EndArchive, BeginArchiveThread, EndArchiveThread, BeginDelete, BeginCancel, BeginResume,
       EndResume, BeginSend, Begin, EndSilently
<1> QED
  BY <1>1, <1>2, TaskSteps DEF Next, vars, Crash

\* The deployment in which the runtime is one process.  With two, an execution that
\* another process has overtaken can still fail, and what it writes about its own
\* failure sets a session going that waits for actions.
SingleProcess == \A t, u \in Tasks : ProcOf[t] = ProcOf[u]

\* w is the end of a turn that asked for actions which are not all answered, and
\* nobody interrupted the session since.
OpenAsk(w) ==
  /\ Completed(w)
  /\ ~\E f \in events : /\ f.type = "session.status_idle" /\ f.stop.type = "interrupted"
                        /\ w.seq < f.seq
  /\ ~(PendingActionIds(w.stop) \subseteq ResolvedActionIds(events))

\* While actions are open no turn is in progress, and none can start.
AskInv ==
  \A w \in events : OpenAsk(w) =>
    /\ \A t \in Tasks : ~InTurn(t)
    /\ \/ session.status = "terminated"
       \/ session.status = "idle" /\ session.stop = w.stop

\* The turn in progress is the last that started.
LastTurn ==
  \A t \in Tasks : InTurn(t) =>
    \A e \in events : e.type = "session.status_running" => e.seq <= task[t].started

\* A turn begins with the commit of its start, and remembers its event.
LEMMA TurnBegins ==
  ASSUME IInv, [Next]_vars, NEW t \in Tasks, InTurn(t)'
  PROVE  \/ StartCommit(t) /\ Free(task[t].snap, 1)
         \/ InTurn(t) /\ task'[t].started = task[t].started
<1>1. task \in [Tasks -> TaskRecords]
  BY DEF IInv, TypeOK, TaskRecords
<1>2. CASE task'[t] = task[t]
  BY <1>2 DEF InTurn
<1>3. CASE Invoke(t) \/ TurnStep(t)
  <2>1. TaskStep(t)
    BY <1>3, TaskSteps
  <2>2. ~Invoke(t) /\ ~Exit(t)
    BY <1>1 DEF Invoke, Goto, Exit, NoTask, InTurn, TaskRecords
  <2> QED
    BY <2>1, <2>2 DEF TaskStep, InTurn
<1>4. ASSUME NEW u \in Tasks \ {t}, Invoke(u) \/ TurnStep(u)
      PROVE  task'[t] = task[t]
  BY <1>4, TaskSteps
<1>5. ASSUME NEW p \in Procs, Crash(p)
      PROVE  task'[t] = task[t]
  BY <1>5 DEF Crash, InTurn, NoTask
<1>6. CASE UNCHANGED task
  BY <1>2, <1>6
<1> QED
  BY <1>2, <1>3, <1>4, <1>5, <1>6, RequestsLeaveTasks DEF Next, vars

\* While actions are open nothing fails: a failure is written by a turn.
LEMMA FailsInTurn ==
  ASSUME IInv, Decisions, [Next]_vars, Fails
  PROVE  \E t \in Tasks : InTurn(t)
<1>1. PICK type \in EventTypes, stop \in StopTypes : Appends(FailureBodies(type, stop))
  BY DEF Fails, EventTypes, StopTypes
<1>2. PICK e \in events' : e.seq = session.seq + 1 /\ e.type = "session.error"
  <2>1. FailureBodies(type, stop) \in Seq(Bodies)
    BY TurnBodies
  <2>2. 1 \in DOMAIN FailureBodies(type, stop) /\ FailureBodies(type, stop)[1].type = "session.error"
    BY DEF FailureBodies, Body
  <2> QED
    BY <1>1, <2>1, <2>2, AppendedEvent
<1>3. e \notin events
  BY <1>2 DEF IInv, EventLogDense, TypeOK, Sessions
<1>4. \E t \in Tasks : ContextCommit(t) \/ FailCommit(t)
  BY <1>2, <1>3, RuntimeWrites DEF Completed
<1> QED
  BY <1>4 DEF ContextCommit, FailCommit, InTurn

LEMMA StepAsk ==
  ASSUME SingleProcess, IInv, Decisions, OneTurnPerProcess, AskInv, [Next]_vars
  PROVE  AskInv'
<1>1. IInv' /\ LogGrows /\ Effect
  BY StepInvariant, StepEffect
<1>2. /\ events \subseteq events'
      /\ \A e \in events' \ events : e.seq > session.seq
      /\ ResolvedActionIds(events) \subseteq ResolvedActionIds(events')
  BY <1>1, EffectAppends DEF ResolvedActionIds
<1>3. session.seq \in Nat /\ \A e \in events : e.seq \in 1 .. session.seq
  BY DEF IInv, EventLogDense, TypeOK, Sessions
<1> SUFFICES ASSUME NEW w \in events', OpenAsk(w)'
             PROVE  /\ \A t \in Tasks : ~InTurn(t)'
                    /\ \/ session'.status = "terminated"
                       \/ session'.status = "idle" /\ session'.stop = w.stop
  BY DEF AskInv
<1>4. PendingActionIds(w.stop) # {} /\ IsWaitingForAction(w.stop)
  BY DEF OpenAsk, PendingActionIds
<1>5. CASE w \in events
  <2>1. OpenAsk(w)
    BY <1>2, <1>5 DEF OpenAsk
  <2>2. /\ \A t \in Tasks : ~InTurn(t)
        /\ \/ session.status = "terminated"
           \/ session.status = "idle" /\ session.stop = w.stop
    BY <1>5, <2>1 DEF AskInv
  <2>3. ~CanStartWork(session.status, session.stop)
    BY <1>4, <2>2 DEF CanStartWork, Runnable
  <2>4. \A t \in Tasks : ~InTurn(t)'
    BY <2>2, <2>3, TurnBegins, StartCommits
  <2>5. ~Starts /\ ~Ends /\ ~Asks /\ ~Fails
    BY <2>2, <2>3, FailsInTurn DEF Starts, Ends, Asks
  <2>6. ~Interrupts
    <3> SUFFICES ASSUME Interrupts PROVE FALSE
      OBVIOUS
    <3> DEFINE idle == StatusBody("session.status_idle", Stop("interrupted"))
    <3>1. PICK batch \in Seq(Bodies) : Appends(Append(batch, idle))
      BY DEF Interrupts
    <3>2. idle.type = "session.status_idle" /\ idle.stop.type = "interrupted" /\ idle \in Bodies
      BY BodyValues DEF StatusBody, Stop, EventTypes, StopTypes
    <3> HIDE DEF idle
    <3>3. PICK bodies \in Seq(Bodies) : bodies = Append(batch, idle)
      <4>1. Append(batch, idle) \in Seq(Bodies)
        BY <3>2
      <4> QED
        BY <4>1
    <3>4. PICK n \in DOMAIN bodies : bodies[n] = idle /\ n \in Nat \ {0}
      <4>1. Len(batch) + 1 \in DOMAIN bodies /\ bodies[Len(batch) + 1] = idle
        BY <3>1, <3>2, <3>3
      <4>2. Len(batch) + 1 \in Nat \ {0}
        BY <3>1
      <4> QED
        BY <4>1, <4>2
    <3>5. PICK f \in events' : f.seq = session.seq + n /\ f.type = idle.type /\ f.stop = idle.stop
      <4>1. Appends(bodies)
        BY <3>1, <3>3
      <4>2. \E f \in events' : /\ f.seq = session.seq + n
                               /\ f.type = bodies[n].type /\ f.stop = bodies[n].stop
        BY <4>1, AppendedEvent
      <4> QED
        BY <3>4, <4>2
    <3>6. w.seq < f.seq
      BY <1>3, <1>5, <3>4, <3>5
    <3> QED
      BY <3>2, <3>5, <3>6 DEF OpenAsk
  <2>7. CASE Answers
    <3>1. PICK r \in Requests :
           /\ req[r].op = "send" /\ req[r].snap.seq = session.seq
           /\ req[r].snap.stop = session.stop
           /\ Becomes("idle", IF AllPendingActionsResolved(req[r].snap, req[r].batch)
                                THEN Stop("action_submitted") ELSE session.stop)
           /\ events' = events \cup Numbered(req[r].snap.seq, req[r].batch)
      BY <2>7, AnswersAdd
    <3>2. session.stop = w.stop
      BY <2>2, <2>7 DEF Answers
    <3>3. ~AllPendingActionsResolved(req[r].snap, req[r].batch)
      BY <3>1, <3>2 DEF AllPendingActionsResolved, OpenAsk, ResolvedActionIds, History
    <3> QED
      BY <2>4, <3>1, <3>2, <3>3 DEF Becomes
  <2>8. CASE Quiet \/ Notes \/ Cancels \/ Deletes
    BY <2>2, <2>4, <2>8 DEF Quiet, Notes, Cancels, Deletes, Stays, Becomes
  <2> QED
    BY <1>1, <2>5, <2>6, <2>7, <2>8 DEF Effect
<1>6. CASE w \notin events
  <2>1. PICK t \in Tasks :
          /\ \A u \in Tasks \ {t} : task'[u] = task[u]
          /\ FinishCommit(t) /\ Leave(t)
    BY <1>6, RuntimeWrites DEF OpenAsk, Completed
  <2>2. task[t].pc = "finishCommit" /\ task'[t].pc = "exit"
    <3>1. task \in [Tasks -> TaskRecords]
      BY DEF IInv, TypeOK, TaskRecords
    <3>2. task[t].pc = "finishCommit" /\ task' = [task EXCEPT ![t].pc = "exit", ![t].snap = Created, ![t].result = "none"]
      BY <2>1 DEF FinishCommit, Leave
    <3> QED
      BY <3>1, <3>2 DEF TaskRecords
  <2>3. \A u \in Tasks \ {t} : task[u].pc = "idle"
    BY <2>2 DEF OneTurnPerProcess, SingleProcess
  <2>4. \A u \in Tasks : ~InTurn(u)'
    BY <2>1, <2>2, <2>3 DEF InTurn
  <2>5. NewKinds(w)
    BY <1>1, <1>6, EffectNewKinds
  <2>6. w.stop # Stop("end_turn") /\ w.stop # Stop("interrupted") /\ w.type = "session.status_idle"
    BY <1>4 DEF IsWaitingForAction, Stop, OpenAsk, Completed
  <2>7. Asks /\ w.stop = session'.stop
    BY <2>5, <2>6 DEF NewKinds, StatusTypes
  <2> QED
    BY <2>4, <2>7 DEF Asks, Becomes
<1> QED
  BY <1>5, <1>6

LEMMA StepAnswered ==
  ASSUME IInv, Decisions, AskInv, AnsweredBeforeNextTurn, [Next]_vars
  PROVE  AnsweredBeforeNextTurn'
<1>1. Effect
  BY StepEffect
<1>2. /\ events \subseteq events'
      /\ \A e \in events' \ events : e.seq > session.seq
  BY <1>1, EffectAppends
<1>3. /\ session.seq \in Nat
      /\ \A e \in events : e.seq \in 1 .. session.seq
      /\ \A e \in events' : e.seq \in Nat
  BY StepInvariant DEF IInv, EventLogDense, TypeOK, Sessions, Events
<1> SUFFICES ASSUME NEW w \in events', NEW e \in events',
                    Completed(w), e.type = "session.status_running", w.seq < e.seq,
                    ~\E f \in events' : /\ f.type = "session.status_idle"
                                       /\ f.stop.type = "interrupted"
                                       /\ w.seq < f.seq /\ f.seq < e.seq,
                    NEW id \in PendingActionIds(w.stop)
             PROVE  \E a \in events' : IsActionResult(a.type) /\ a.target = id /\ a.seq < e.seq
  BY DEF AnsweredBeforeNextTurn
<1>4. CASE e \in events
  <2>1. w \in events
    BY <1>2, <1>3, <1>4
  <2>2. \E a \in events : IsActionResult(a.type) /\ a.target = id /\ a.seq < e.seq
    BY <1>2, <1>4, <2>1 DEF AnsweredBeforeNextTurn
  <2> QED
    BY <1>2, <2>2
<1>5. CASE e \notin events
  <2>1. PICK t \in Tasks : StartCommit(t) /\ Free(task[t].snap, 1)
    BY <1>5, RuntimeWrites DEF Completed
  <2>2. /\ CanStartWork(session.status, session.stop)
        /\ events' = events \cup Numbered(session.seq, <<Body("session.status_running")>>)
    BY <2>1, StartCommits
  <2>3. \A f \in events' \ events : f.type = "session.status_running"
    BY <2>2 DEF Numbered, Body
  <2>4. w \in events
    BY <2>3 DEF Completed
  <2>5. ~OpenAsk(w)
    BY <2>2, <2>4 DEF AskInv, CanStartWork, Runnable, OpenAsk, PendingActionIds
  <2>6. ~\E f \in events : /\ f.type = "session.status_idle" /\ f.stop.type = "interrupted"
                           /\ w.seq < f.seq
    BY <1>2, <1>3, <1>5
  <2>7. id \in ResolvedActionIds(events)
    BY <2>5, <2>6 DEF OpenAsk
  <2>8. PICK a \in events : IsActionResult(a.type) /\ a.target = id
    BY <2>7 DEF ResolvedActionIds
  <2> QED
    BY <1>2, <1>3, <1>5, <2>8
<1> QED
  BY <1>4, <1>5

LEMMA StepLastTurn ==
  ASSUME SingleProcess, IInv, Decisions, OneTurnPerProcess, LastTurn, [Next]_vars
  PROVE  LastTurn'
<1> SUFFICES ASSUME NEW t \in Tasks, InTurn(t)',
                    NEW e \in events', e.type = "session.status_running"
             PROVE  e.seq <= task'[t].started
  BY DEF LastTurn
<1>1. IInv' /\ task \in [Tasks -> TaskRecords]
  BY StepInvariant DEF IInv, TypeOK, TaskRecords
<1>2. CASE StartCommit(t) /\ Free(task[t].snap, 1)
  <2>1. /\ session'.seq = session.seq + 1
        /\ task' = [task EXCEPT ![t].pc = "context", ![t].snap = Created,
                                ![t].started = session.seq + 1]
    BY <1>2, StartCommits
  <2>2. task'[t].started = session.seq + 1
    BY <1>1, <2>1 DEF TaskRecords
  <2> QED
    BY <1>1, <2>1, <2>2 DEF IInv, EventLogDense, TypeOK, Sessions
<1>3. CASE InTurn(t) /\ task'[t].started = task[t].started
  <2>1. e \in events
    <3> SUFFICES ASSUME e \notin events PROVE FALSE
      OBVIOUS
    <3>1. PICK u \in Tasks : StartCommit(u)
      BY RuntimeWrites DEF Completed
    <3>2. task[u].pc = "startCommit" /\ task[t].pc # "idle" /\ task[t].pc # "startCommit"
      BY <1>3, <3>1 DEF StartCommit, InTurn
    <3> QED
      BY <3>2 DEF OneTurnPerProcess, SingleProcess
  <2> QED
    BY <1>3, <2>1 DEF LastTurn
<1> QED
  BY <1>2, <1>3, TurnBegins

LEMMA InitTurns ==
  Init => OneTurnPerProcess /\ AskInv /\ LastTurn /\ AnsweredBeforeNextTurn
BY DEF Init, NoTask, OneTurnPerProcess, AskInv, LastTurn, AnsweredBeforeNextTurn, InTurn, OpenAsk,
       Numbered, StatusBody, Stop, PendingActionIds, IsWaitingForAction

\* _running_sessions: whatever is invoked and whenever processes die, a process has
\* at most one execution of run_session_turn for the session.
THEOREM TurnPerProcess == Spec => []OneTurnPerProcess
BY InitInvariant, StepInvariant, InitTurns, StepOneTurn, PTL DEF Spec

\* With the runtime in one process, a turn that asked for actions is followed by
\* another only when each of them was answered, or the session was interrupted.
THEOREM AnswersBeforeTurns == SingleProcess => (Spec => []AnsweredBeforeNextTurn)
<1> SUFFICES ASSUME SingleProcess PROVE Spec => []AnsweredBeforeNextTurn
  OBVIOUS
<1>1. IInv /\ Decisions /\ OneTurnPerProcess /\ AskInv /\ AnsweredBeforeNextTurn /\ [Next]_vars
        => AskInv' /\ AnsweredBeforeNextTurn'
  BY StepAsk, StepAnswered
<1> QED
  BY <1>1, InitInvariant, StepInvariant, InitDecisions, StepDecisions, InitTurns, StepOneTurn, PTL
     DEF Spec

\* With the runtime in one process, a result or a failure is written by the turn that
\* started last, so it closes the turn that produced it, and no later one.
THEOREM ResultsCloseTheirTurns == SingleProcess => (Spec => ResultClosesItsTurn)
<1> SUFFICES ASSUME SingleProcess PROVE Spec => ResultClosesItsTurn
  OBVIOUS
<1>1. LastTurn =>
        [\A t \in Tasks :
           task[t].pc \in {"finishCommit", "failCommit"} /\ task'[t].pc = "exit" /\ events' # events =>
             \A e \in events : e.type = "session.status_running" => e.seq <= task[t].started]_vars
  BY DEF LastTurn, InTurn
<1>2. IInv /\ Decisions /\ OneTurnPerProcess /\ LastTurn /\ [Next]_vars => LastTurn'
  BY StepLastTurn
<1> QED
  BY <1>1, <1>2, InitInvariant, StepInvariant, InitDecisions, StepDecisions, InitTurns, StepOneTurn,
     PTL DEF Spec, ResultClosesItsTurn

-----------------------------------------------------------------------------
(* Retries are capped. *)

\* What a snapshot says of status_details is true as long as no event was appended
\* since: only archive_session_thread writes them without an event.
DetailsBehind(snap) == snap.seq = session.seq => snap.details = session.details

DetailsKnown ==
  /\ DetailsBehind(Created)
  /\ \A t \in Tasks : DetailsBehind(task[t].snap)
  /\ \A r \in Requests : DetailsBehind(req[r].snap)

Reschedulings ==
  {e \in events : /\ e.type = "session.status_rescheduled"
                  /\ \A f \in events : Completed(f) => f.seq < e.seq}

\* The stored count is at least the number of reschedulings since the last turn that
\* completed.
RetryInv ==
  /\ IsFiniteSet(Reschedulings)
  /\ Cardinality(Reschedulings) <= session.details.attempt
  /\ Cardinality(Reschedulings) < MaxRetry

\* How a step changes the stored count.
Counts ==
  \/ /\ session'.details.attempt >= session.details.attempt
     /\ \A e \in events' \ events : e.type # "session.status_rescheduled" /\ ~Completed(e)
  \/ /\ session'.details.attempt = session.details.attempt + 1
     /\ session'.details.attempt < MaxRetry
     /\ Appends(FailureBodies("session.status_rescheduled", "transient_error"))
  \/ /\ \E e \in events' : Completed(e) /\ e.seq > session.seq
     /\ \A e \in events' \ events : e.type # "session.status_rescheduled"

\* A transaction that appends events writes the details it computed from those there
\* are.
LEMMA CommitDetails ==
  ASSUME IInv, NEW snap \in Sessions, Behind(snap), DetailsBehind(snap),
         NEW new \in Sessions, NEW bodies \in Seq(Bodies),
         NEW n \in Nat \ {0}, Len(bodies) = n, Free(snap, n), Commit(snap, new, bodies)
  PROVE  /\ session'.details = new.details
         /\ snap.details = session.details
         /\ Appends(bodies)
<1>1. /\ snap.seq = session.seq
      /\ session'.seq = session.seq + Len(bodies)
      /\ events' = events \cup Numbered(session.seq, bodies)
  BY CommitActsNow
<1>2. snap.details = session.details
  BY <1>1 DEF DetailsBehind
<1>3. session'.details = Column(snap.details, new.details, session.details)
  BY DEF Commit, Written
<1> QED
  BY <1>1, <1>2, <1>3 DEF Column, Appends

\* An appending step moves last_event_seq; every other step leaves the details.
DetailsMove == session'.seq > session.seq \/ session'.details = session.details

\* The commit of a handler that appends events leaves the count it read.
LEMMA EndDetails ==
  ASSUME IInv, DetailsKnown, NEW r \in Requests, NEW op,
         NEW new \in Sessions, NEW bodies \in Seq(Bodies), Len(bodies) # 0,
         new.details.attempt = req[r].snap.details.attempt,
         End(r, op, new, bodies)
  PROVE  session'.details.attempt = session.details.attempt /\ DetailsMove
<1> DEFINE snap == req[r].snap
<1>1. /\ snap \in Sessions /\ Behind(snap) /\ DetailsBehind(snap) /\ Len(bodies) \in Nat \ {0}
      /\ session.seq \in Nat
  BY DEF IInv, TypeOK, SnapshotsBehind, DetailsKnown, Sessions
<1>2. CASE Free(snap, Len(bodies)) /\ Commit(snap, new, bodies)
  <2> HIDE DEF snap
  <2>1. session'.details = new.details /\ snap.details = session.details /\ Appends(bodies)
    BY <1>1, <1>2, CommitDetails
  <2> QED
    BY <1>1, <2>1 DEF Appends, DetailsMove, snap
<1>3. CASE Unwritten
  BY <1>3 DEF Unwritten, DetailsMove
<1> QED
  BY <1>2, <1>3 DEF End

LEMMA SendDetails ==
  ASSUME IInv, Decisions, DetailsKnown, NEW r \in Requests, EndSend(r)
  PROVE  session'.details.attempt = session.details.attempt /\ DetailsMove
<1> DEFINE snap == req[r].snap
           batch == req[r].batch
<1>1. snap \in Sessions /\ batch \in Seq(Bodies)
  BY DEF IInv, TypeOK
<1>2. Len(batch) # 0
  <2>1. batch \in Batches(snap)
    BY DEF EndSend, End, Decisions, RequestDecided, SendDecided
  <2>2. PICK n \in 1 .. MaxBatch : batch \in [1 .. n -> Inputs(snap)]
    BY <2>1 DEF Batches
  <2> QED
    BY <1>1, <2>2
<1>3. CASE Contains(batch, IsInterrupt)
  <2> DEFINE new == [snap EXCEPT !.status = "idle", !.stop = Stop("interrupted")]
             bodies == Append(batch, StatusBody("session.status_idle", Stop("interrupted")))
  <2>1. End(r, "send", new, bodies)
    BY <1>3 DEF EndSend
  <2>2. new \in Sessions /\ new.details.attempt = snap.details.attempt
    BY <1>1, HandlerRows DEF Sessions
  <2>3. StatusBody("session.status_idle", Stop("interrupted")) \in Bodies
    BY BodyValues DEF StopTypes, EventTypes
  <2>4. bodies \in Seq(Bodies) /\ Len(bodies) # 0
    BY <1>1, <2>3
  <2> HIDE DEF new, bodies
  <2> QED
    BY <2>1, <2>2, <2>4, EndDetails
<1>4. CASE \E new \in Sessions : new.details = snap.details /\ End(r, "send", new, batch)
  BY <1>1, <1>2, <1>4, EndDetails
<1>5. CASE ~Contains(batch, IsInterrupt)
  <2> DEFINE submitted == [snap EXCEPT !.status = "idle", !.stop = Stop("action_submitted")]
  <2>1. submitted \in Sessions /\ submitted.details = snap.details
    BY <1>1, HandlerRows DEF Sessions
  <2>2. \E new \in {snap, submitted} : End(r, "send", new, batch)
    BY <1>5 DEF EndSend
  <2> HIDE DEF submitted
  <2> QED
    BY <1>1, <1>4, <2>1, <2>2
<1> QED
  BY <1>3, <1>5

\* No handler but archive_session_thread changes the count it read.
LEMMA HandlerDetails ==
  ASSUME IInv, Decisions, DetailsKnown, "archiveThread" \notin Ops,
         NEW r \in Requests, RequestStep(r)
  PROVE  session'.details.attempt = session.details.attempt /\ DetailsMove
<1> DEFINE snap == req[r].snap
<1>1. snap \in Sessions /\ session \in Sessions
  BY DEF IInv, TypeOK
<1>2. CASE UNCHANGED session
  BY <1>2 DEF DetailsMove
<1>3. CASE EndUpdate(r)
  <2>1. <<Body("session.updated")>> \in Seq(Bodies) /\ Len(<<Body("session.updated")>>) # 0
    BY BodyValues DEF EventTypes
  <2> QED
    BY <1>1, <1>3, <2>1, EndDetails DEF EndUpdate
<1>4. CASE EndUpdateAgent(r)
  <2>1. <<Body("session.updated")>> \in Seq(Bodies) /\ Len(<<Body("session.updated")>>) # 0
    BY BodyValues DEF EventTypes
  <2>2. PICK other \in BOOLEAN :
          End(r, "updateAgent", [snap EXCEPT !.details.other = other], <<Body("session.updated")>>)
    BY <1>4 DEF EndUpdateAgent
  <2>3. /\ [snap EXCEPT !.details.other = other] \in Sessions
        /\ [snap EXCEPT !.details.other = other].details.attempt = snap.details.attempt
    BY <1>1, HandlerRows DEF Sessions, Details
  <2> QED
    BY <2>1, <2>2, <2>3, EndDetails
<1>5. CASE EndArchive(r) \/ EndResume(r)
  <2>1. PICK new : new.details = snap.details /\ session' = Written(snap, new)
    <3>1. [snap EXCEPT !.archived = TRUE].details = snap.details
      BY <1>1 DEF Sessions
    <3> QED
      BY <1>5, <3>1 DEF EndArchive, EndResume, EndSilently
  <2>2. session'.details = session.details
    BY <2>1 DEF Written, Column
  <2> QED
    BY <2>2 DEF DetailsMove
<1>6. ~EndArchiveThread(r)
  BY DEF IInv, TypeOK, EndArchiveThread
<1>7. CASE EndDelete(r)
  <2>1. <<Body("session.deleted")>> \in Seq(Bodies) /\ Len(<<Body("session.deleted")>>) # 0
    BY BodyValues DEF EventTypes
  <2>2. /\ [snap EXCEPT !.deleted = TRUE, !.status = "terminated"] \in Sessions
        /\ [snap EXCEPT !.deleted = TRUE, !.status = "terminated"].details = snap.details
    BY <1>1, HandlerRows DEF Sessions
  <2> QED
    BY <1>7, <2>1, <2>2, EndDetails DEF EndDelete
<1>8. CASE EndCancel(r)
  <2> DEFINE bodies == <<StatusBody("session.status_terminated", Stop("cancelled"))>>
             new == [snap EXCEPT !.status = "terminated", !.stop = Stop("cancelled")]
  <2>1. bodies \in Seq(Bodies) /\ Len(bodies) # 0
    BY BodyValues DEF EventTypes, StopTypes
  <2>2. new \in Sessions /\ new.details = snap.details
    BY <1>1, HandlerRows DEF Sessions
  <2>3. End(r, "cancel", new, bodies)
    BY <1>8 DEF EndCancel
  <2> HIDE DEF new, bodies
  <2> QED
    BY <2>1, <2>2, <2>3, EndDetails
<1> QED
  BY <1>2, <1>3, <1>4, <1>5, <1>6, <1>7, <1>8, SendDetails
     DEF RequestStep, BeginUpdate, BeginUpdateAgent, BeginArchive, BeginArchiveThread,
         BeginDelete, BeginCancel, BeginResume, BeginSend, Begin

LEMMA HandlerCounts ==
  ASSUME IInv, Decisions, DetailsKnown, "archiveThread" \notin Ops,
         NEW r \in Requests, RequestStep(r)
  PROVE  Counts /\ DetailsMove
<1>1. session'.details.attempt = session.details.attempt /\ DetailsMove
  BY HandlerDetails
<1>2. ASSUME NEW e \in events' \ events
      PROVE  e.type # "session.status_rescheduled" /\ ~Completed(e)
  <2> SUFFICES ASSUME e.type = "session.status_rescheduled" \/ Completed(e) PROVE FALSE
    OBVIOUS
  <2>1. PICK t \in Tasks : FailCommit(t) \/ (FinishCommit(t) /\ Leave(t))
    BY <1>2, RuntimeWrites DEF Next, Completed
  <2>2. task[t].pc \in {"failCommit", "finishCommit"} /\ task'[t].pc = "exit"
    <3>1. task \in [Tasks -> TaskRecords]
      BY DEF IInv, TypeOK, TaskRecords
    <3> QED
      BY <2>1, <3>1 DEF FailCommit, FinishCommit, Leave, TaskRecords
  <2> QED
    BY <2>2, RequestsLeaveTasks
<1>3. session.details.attempt \in Nat
  BY DEF IInv, TypeOK, Sessions, Details
<1> QED
  BY <1>1, <1>2, <1>3 DEF Counts

\* What the commits of a turn do to the count.
LEMMA TurnCounts ==
  ASSUME IInv, Decisions, DetailsKnown, NEW t \in Tasks, Invoke(t) \/ TurnStep(t)
  PROVE  Counts /\ DetailsMove
<1> DEFINE snap == task[t].snap
<1>1. /\ snap \in Sessions /\ Behind(snap) /\ DetailsBehind(snap)
      /\ session.details.attempt \in Nat /\ session.seq \in Nat
  BY DEF IInv, TypeOK, SnapshotsBehind, DetailsKnown, Sessions, Details
<1>2. ASSUME Unwritten PROVE Counts /\ DetailsMove
  BY <1>1, <1>2 DEF Unwritten, Counts, DetailsMove
<1>3. CASE Invoke(t) \/ StartRead(t) \/ Context(t) \/ Execute(t) \/ FailRead(t) \/ Exit(t)
  BY <1>2, <1>3 DEF Invoke, StartRead, Context, Execute, FailRead, Exit, Unwritten
<1>4. ASSUME NEW new \in Sessions, new.details = snap.details,
             NEW body \in Bodies, body.type \in {"session.status_running", "session.error"},
             Free(snap, 1), Commit(snap, new, <<body>>)
      PROVE  Counts /\ DetailsMove
  <2>1. <<body>> \in Seq(Bodies) /\ Len(<<body>>) = 1
    OBVIOUS
  <2>2. PICK bodies \in Seq(Bodies) : bodies = <<body>>
    BY <2>1
  <2> HIDE DEF snap
  <2>3. session'.details = new.details /\ snap.details = session.details /\ Appends(bodies)
    BY <1>1, <1>4, <2>1, <2>2, 1 \in Nat \ {0}, CommitDetails
  <2>4. \A e \in events' \ events : e.type = body.type
    <3>1. \A i \in DOMAIN bodies : bodies[i] = body
      BY <2>2
    <3> QED
      BY <2>3, <3>1, NewEvents
  <2> QED
    BY <1>1, <1>4, <2>1, <2>2, <2>3, <2>4 DEF Appends, Counts, Completed, DetailsMove
<1>5. CASE StartCommit(t)
  <2> DEFINE new == [snap EXCEPT !.status = "running", !.stop = Stop("in_progress")]
  <2>1. new \in Sessions /\ new.details = snap.details
    BY <1>1, TurnRows, TurnDetails, BodyValues DEF Sessions, StopTypes
  <2>2. /\ Body("session.status_running") \in Bodies
        /\ Body("session.status_running").type = "session.status_running"
    BY BodyValues DEF EventTypes, Body
  <2>3. Unwritten \/ (Free(snap, 1) /\ Commit(snap, new, <<Body("session.status_running")>>))
    BY <1>5 DEF StartCommit
  <2> HIDE DEF new
  <2> QED
    BY <1>2, <1>4, <2>1, <2>2, <2>3
<1>6. CASE ContextCommit(t)
  <2>1. Body("session.error") \in Bodies /\ Body("session.error").type = "session.error"
    BY BodyValues DEF EventTypes, Body
  <2>2. Unwritten \/ (Free(snap, 1) /\ Commit(snap, snap, <<Body("session.error")>>))
    BY <1>6 DEF ContextCommit
  <2> QED
    BY <1>1, <1>2, <1>4, <2>1, <2>2
<1>7. ASSUME NEW new \in Sessions, NEW bodies \in Seq(Bodies), Len(bodies) # 0,
             Free(snap, Len(bodies)), Commit(snap, new, bodies),
             \A i \in DOMAIN bodies : bodies[i].type # "session.status_rescheduled",
             bodies[Len(bodies)].type = "session.status_idle",
             bodies[Len(bodies)].stop.type \in {"end_turn", "requires_action"}
      PROVE  Counts /\ DetailsMove
  <2> HIDE DEF snap
  <2>1. Len(bodies) \in Nat \ {0} /\ Len(bodies) \in DOMAIN bodies
    BY <1>7
  <2>2. session'.details = new.details /\ Appends(bodies)
    BY <1>1, <1>7, <2>1, CommitDetails
  <2>3. PICK e \in events' : /\ e.seq = session.seq + Len(bodies)
                             /\ e.type = bodies[Len(bodies)].type
                             /\ e.stop = bodies[Len(bodies)].stop
    BY <2>1, <2>2, AppendedEvent
  <2>4. Completed(e) /\ e.seq > session.seq
    BY <1>1, <1>7, <2>1, <2>3 DEF Completed
  <2>5. \A f \in events' \ events : f.type # "session.status_rescheduled"
    BY <1>7, <2>2, NewEvents
  <2> QED
    BY <1>1, <2>1, <2>2, <2>4, <2>5 DEF Appends, Counts, DetailsMove
<1>8. CASE FinishCommit(t)
  <2> DEFINE kept == [snap.details EXCEPT !.attempt = 0]
  <2>1. kept \in Details /\ \A other \in BOOLEAN : [kept EXCEPT !.other = other] \in Details
    BY <1>1, TurnDetails
  <2>2. ASSUME NEW stop \in StopReasons, NEW details \in Details, NEW bodies \in Seq(Bodies),
               Len(bodies) # 0, Finish(t, stop, details, bodies),
               \A i \in DOMAIN bodies : bodies[i].type # "session.status_rescheduled",
               bodies[Len(bodies)].type = "session.status_idle",
               bodies[Len(bodies)].stop.type \in {"end_turn", "requires_action"}
        PROVE  Counts /\ DetailsMove
    <3> DEFINE new == [snap EXCEPT !.status = "idle", !.stop = stop, !.details = details]
    <3>1. new \in Sessions
      BY <1>1, TurnRows
    <3>2. Unwritten \/ (Free(snap, Len(bodies)) /\ Commit(snap, new, bodies))
      BY <2>2 DEF Finish
    <3> HIDE DEF new
    <3> QED
      BY <1>2, <1>7, <2>2, <3>1, <3>2
  <2>3. ASSUME NEW other \in BOOLEAN,
               Finish(t, Stop("end_turn"), [kept EXCEPT !.other = other], FinalBodies)
        PROVE  Counts /\ DetailsMove
    <3>1. Stop("end_turn") \in StopReasons /\ FinalBodies \in Seq(Bodies)
      BY BodyValues, TurnBodies DEF StopTypes
    <3>2. /\ Len(FinalBodies) = 2
          /\ \A i \in DOMAIN FinalBodies : FinalBodies[i].type # "session.status_rescheduled"
          /\ FinalBodies[2].type = "session.status_idle"
          /\ FinalBodies[2].stop.type = "end_turn"
      BY DEF FinalBodies, Body, StatusBody, Stop
    <3>3. PICK details \in Details : Finish(t, Stop("end_turn"), details, FinalBodies)
      BY <2>1, <2>3
    <3>4. /\ Len(FinalBodies) # 0
          /\ FinalBodies[Len(FinalBodies)].type = "session.status_idle"
          /\ FinalBodies[Len(FinalBodies)].stop.type \in {"end_turn", "requires_action"}
      BY <3>2
    <3> QED
      BY <2>2, <3>1, <3>2, <3>3, <3>4
  <2>4. ASSUME NEW n \in 1 .. MaxActions,
               Finish(t, RequiresAction(snap.seq + 1 .. snap.seq + n), kept,
                      ActionBodies(snap, n))
        PROVE  Counts /\ DetailsMove
    <3>1. n \in Nat /\ snap.seq + 1 .. snap.seq + n \in SUBSET Nat
      BY <1>1, BoundsAssumption DEF Sessions
    <3>2. /\ ActionBodies(snap, n) \in Seq(Bodies)
          /\ Len(ActionBodies(snap, n)) = n + 1
      BY <1>1, <3>1, TurnBodies
    <3>3. RequiresAction(snap.seq + 1 .. snap.seq + n) \in StopReasons
      BY <3>1, BodyValues
    <3>4. /\ \A i \in DOMAIN ActionBodies(snap, n) :
               ActionBodies(snap, n)[i].type # "session.status_rescheduled"
          /\ ActionBodies(snap, n)[n + 1].type = "session.status_idle"
          /\ ActionBodies(snap, n)[n + 1].stop.type = "requires_action"
      BY <3>1 DEF ActionBodies, Body, StatusBody, RequiresAction
    <3>5. Len(ActionBodies(snap, n)) # 0
      BY <3>1, <3>2
    <3> QED
      BY <2>1, <2>2, <2>4, <3>2, <3>3, <3>4, <3>5
  <2> QED
    BY <1>8, <2>3, <2>4 DEF FinishCommit
<1>9. CASE FailCommit(t)
  <2>1. ASSUME NEW new \in Sessions, NEW type \in EventTypes, NEW stop \in StopTypes,
               Free(snap, 2), Commit(snap, new, FailureBodies(type, stop))
        PROVE  /\ session'.details = new.details /\ snap.details = session.details
               /\ Appends(FailureBodies(type, stop)) /\ DetailsMove
    <3>1. FailureBodies(type, stop) \in Seq(Bodies) /\ Len(FailureBodies(type, stop)) = 2
      BY TurnBodies DEF FailureBodies
    <3> HIDE DEF snap
    <3>2. /\ session'.details = new.details /\ snap.details = session.details
          /\ Appends(FailureBodies(type, stop))
      BY <1>1, <2>1, <3>1, 2 \in Nat \ {0}, CommitDetails
    <3> QED
      BY <1>1, <3>1, <3>2 DEF Appends, DetailsMove
  <2>2. /\ Rescheduled(snap) \in Sessions /\ GivenUp(snap) \in Sessions /\ Failed(snap) \in Sessions
        /\ Rescheduled(snap).details.attempt = snap.details.attempt + 1
        /\ GivenUp(snap).details.attempt = snap.details.attempt + 1
        /\ Failed(snap).details = snap.details
    <3> HIDE DEF snap
    <3>1. \E stop \in StopReasons : TRUE
      BY BodyValues DEF StopTypes
    <3>2. Rescheduled(snap) \in Sessions /\ GivenUp(snap) \in Sessions /\ Failed(snap) \in Sessions
      BY <1>1, <3>1, TurnDetails, TurnRows
    <3>3. /\ Rescheduled(snap).details.attempt = snap.details.attempt + 1
          /\ GivenUp(snap).details.attempt = snap.details.attempt + 1
      BY <1>1 DEF Rescheduled, GivenUp, Sessions, Details, Attempt
    <3>4. Failed(snap).details = snap.details
      BY <1>1 DEF Failed, Sessions
    <3> QED BY <3>2, <3>3, <3>4
  <2>3. /\ "session.status_rescheduled" \in EventTypes /\ "session.status_terminated" \in EventTypes
        /\ "transient_error" \in StopTypes /\ "error" \in StopTypes
    BY DEF EventTypes, StopTypes
  <2>4. CASE Attempt(snap) < MaxRetry /\ Free(snap, 2) /\ Commit(snap, Rescheduled(snap),
                  FailureBodies("session.status_rescheduled", "transient_error"))
    BY <2>1, <2>2, <2>3, <2>4 DEF Counts, Attempt
  <2>5. CASE \E new \in {GivenUp(snap), Failed(snap)} :
               Free(snap, 2) /\ Commit(snap, new, FailureBodies("session.status_terminated", "error"))
    <3>1. PICK new \in {GivenUp(snap), Failed(snap)} :
            Free(snap, 2) /\ Commit(snap, new, FailureBodies("session.status_terminated", "error"))
      BY <2>5
    <3>2. /\ session'.details = new.details /\ snap.details = session.details
          /\ Appends(FailureBodies("session.status_terminated", "error")) /\ DetailsMove
      BY <2>1, <2>2, <2>3, <3>1
    <3>3. session'.details.attempt >= session.details.attempt
      BY <1>1, <2>2, <3>2
    <3>4. FailureBodies("session.status_terminated", "error") \in Seq(Bodies)
      BY <2>3, TurnBodies
    <3>5. \A i \in DOMAIN FailureBodies("session.status_terminated", "error") :
            FailureBodies("session.status_terminated", "error")[i].type \in
              {"session.error", "session.status_terminated"}
      BY DEF FailureBodies, Body, StatusBody
    <3>6. \A e \in events' \ events : e.type \in {"session.error", "session.status_terminated"}
      BY <3>2, <3>4, <3>5, NewEvents
    <3> QED
      BY <3>2, <3>3, <3>6 DEF Counts, Completed
  <2> QED
    BY <1>2, <1>9, <2>4, <2>5 DEF FailCommit
<1> QED
  BY <1>3, <1>5, <1>6, <1>8, <1>9 DEF TurnStep

LEMMA StepCounts ==
  ASSUME IInv, Decisions, DetailsKnown, "archiveThread" \notin Ops, [Next]_vars
  PROVE  Counts /\ DetailsMove
<1>1. ASSUME Unwritten PROVE Counts /\ DetailsMove
  BY <1>1 DEF Unwritten, Counts, DetailsMove, IInv, TypeOK, Sessions, Details
<1>2. CASE UNCHANGED vars \/ \E p \in Procs : Crash(p)
  BY <1>1, <1>2 DEF vars, Crash, Unwritten
<1> QED
  BY <1>2, TurnCounts, HandlerCounts DEF Next

\* Who holds a snapshot has held it before, or has just read the row.
LEMMA SnapshotsCome ==
  ASSUME IInv, [Next]_vars
  PROVE  /\ \A t \in Tasks : \/ task'[t].snap \in {task[t].snap, Created}
                             \/ task'[t].snap = session /\ UNCHANGED session
         /\ \A r \in Requests : \/ req'[r].snap \in {req[r].snap, Created}
                                \/ req'[r].snap = session /\ UNCHANGED session
<1>1. task \in [Tasks -> TaskRecords] /\ req \in [Requests -> RequestRecords]
  BY DEF IInv, TypeOK, TaskRecords, RequestRecords
<1>2. ASSUME NEW t \in Tasks
      PROVE  \/ task'[t].snap \in {task[t].snap, Created}
             \/ task'[t].snap = session /\ UNCHANGED session
  <2>1. ASSUME NEW u \in Tasks, Invoke(u) \/ TurnStep(u)
        PROVE  \/ task'[u].snap \in {task[u].snap, Created}
               \/ task'[u].snap = session /\ UNCHANGED session
    <3>1. \A failure : Raise(u, failure) => task'[u].snap = Created
      BY <1>1 DEF Raise, TaskRecords
    <3>2. Leave(u) => task'[u].snap = Created
      BY <1>1 DEF Leave, TaskRecords
    <3>3. \A pc : Goto(u, pc) => task'[u].snap = task[u].snap
      BY <1>1 DEF Goto, TaskRecords
    <3>4. \A pc : Hold(u, pc) => task'[u].snap = session
      BY <1>1 DEF Hold, TaskRecords
    <3>5. CASE StartCommit(u) \/ ContextCommit(u)
      <4>1. CASE StartCommit(u) /\ ~Leave(u)
        BY <1>1, <4>1 DEF StartCommit, TaskRecords
      <4>2. CASE ContextCommit(u) /\ ~Raise(u, "permanent")
        BY <1>1, <4>2 DEF ContextCommit, TaskRecords
      <4> QED
        BY <3>1, <3>2, <3>5, <4>1, <4>2
    <3>6. CASE Execute(u)
      <4>1. CASE Leave(u) \/ \E failure : Raise(u, failure)
        BY <3>1, <3>2, <4>1
      <4>2. CASE ~Leave(u) /\ ~\E failure : Raise(u, failure)
        BY <1>1, <3>6, <4>2 DEF Execute, TaskRecords
      <4> QED
        BY <4>1, <4>2
    <3>7. CASE Exit(u)
      BY <1>1, <3>7 DEF Exit, NoTask
    <3>8. CASE Invoke(u) \/ StartRead(u) \/ Context(u) \/ FailRead(u)
      BY <3>1, <3>3, <3>4, <3>8 DEF Invoke, StartRead, Context, FailRead
    <3>9. CASE FinishCommit(u) \/ FailCommit(u)
      BY <3>1, <3>2, <3>9 DEF FinishCommit, Finish, FailCommit
    <3> QED
      BY <2>1, <3>5, <3>6, <3>7, <3>8, <3>9 DEF TurnStep
  <2>2. ASSUME NEW u \in Tasks, Invoke(u) \/ TurnStep(u)
        PROVE  \/ task'[t].snap \in {task[t].snap, Created}
               \/ task'[t].snap = session /\ UNCHANGED session
    <3>1. CASE t = u
      BY <2>1, <2>2, <3>1
    <3>2. CASE t # u
      BY <2>2, <3>2, TaskSteps
    <3> QED
      BY <3>1, <3>2
  <2>3. ASSUME NEW p \in Procs, Crash(p)
        PROVE  task'[t].snap \in {task[t].snap, Created}
    BY <2>3 DEF Crash, NoTask
  <2> QED
    BY <2>2, <2>3, RequestsLeaveTasks DEF Next, vars
<1>3. ASSUME NEW r \in Requests
      PROVE  \/ req'[r].snap \in {req[r].snap, Created}
             \/ req'[r].snap = session /\ UNCHANGED session
  <2>1. ASSUME NEW q \in Requests, RequestStep(q)
        PROVE  \/ req' = [req EXCEPT ![q] = NoRequest]
               \/ \E op, batch : Begin(q, op, batch)
    BY <2>1 DEF RequestStep, BeginUpdate, EndUpdate, BeginUpdateAgent, EndUpdateAgent,
       BeginArchive, EndArchive, BeginArchiveThread, EndArchiveThread, BeginDelete, EndDelete,
       BeginCancel, EndCancel, BeginResume, EndResume, BeginSend, EndSend, End, EndSilently
  <2>2. ASSUME NEW q \in Requests, req' = [req EXCEPT ![q] = NoRequest]
        PROVE  req'[r].snap \in {req[r].snap, Created}
    BY <1>1, <2>2 DEF NoRequest, RequestRecords
  <2>3. ASSUME NEW q \in Requests, NEW op, NEW batch, Begin(q, op, batch)
        PROVE  req'[r] = req[r] \/ (req'[r].snap = session /\ UNCHANGED session)
    BY <1>1, <2>3 DEF Begin, RequestRecords
  <2>4. ASSUME NEW t \in Tasks, Invoke(t) \/ TurnStep(t)
        PROVE  UNCHANGED req
    BY <2>4 DEF Invoke, TurnStep, StartRead, StartCommit, Context, ContextCommit, Execute,
           FinishCommit, FailRead, FailCommit, Exit
  <2> QED
    BY <2>1, <2>2, <2>3, <2>4 DEF Next, vars, Crash
<1> QED
  BY <1>2, <1>3

LEMMA StepKnown ==
  ASSUME IInv, Decisions, DetailsKnown, "archiveThread" \notin Ops, [Next]_vars
  PROVE  DetailsKnown'
<1>1. DetailsMove
  BY StepCounts
<1>2. /\ session.seq \in Nat /\ session'.seq \in Nat
      /\ \A t \in Tasks : task[t].snap.seq \in Nat /\ task[t].snap.seq <= session.seq
      /\ \A r \in Requests : req[r].snap.seq \in Nat /\ req[r].snap.seq <= session.seq
      /\ Created.seq \in Nat /\ Created.seq <= session.seq
  BY StepInvariant DEF IInv, TypeOK, Sessions, SnapshotsBehind, Behind, Created
<1>3. /\ \A t \in Tasks : DetailsBehind(task[t].snap)
      /\ \A r \in Requests : DetailsBehind(req[r].snap)
      /\ DetailsBehind(Created)
  BY DEF DetailsKnown
<1>4. \A snap : /\ snap.seq \in Nat /\ snap.seq <= session.seq /\ DetailsBehind(snap)
                /\ session.seq <= session'.seq
                => (snap.seq = session'.seq => snap.details = session'.details)
  BY <1>1, <1>2 DEF DetailsMove, DetailsBehind
<1>5. session.seq <= session'.seq
  BY StepInvariant DEF LogGrows
<1>6. \A t \in Tasks : task'[t].snap.seq = session'.seq => task'[t].snap.details = session'.details
  BY <1>2, <1>3, <1>4, <1>5, SnapshotsCome
<1>7. \A r \in Requests : req'[r].snap.seq = session'.seq => req'[r].snap.details = session'.details
  BY <1>2, <1>3, <1>4, <1>5, SnapshotsCome
<1>8. Created.seq = session'.seq => Created.details = session'.details
  BY <1>2, <1>3, <1>4, <1>5
<1> QED
  BY <1>6, <1>7, <1>8 DEF DetailsKnown, DetailsBehind

\* The reschedulings that count grow by the one that was stored, or start again.
LEMMA StepRetry ==
  ASSUME IInv, Decisions, DetailsKnown, "archiveThread" \notin Ops, RetryInv, MaxRetry > 0,
         [Next]_vars
  PROVE  RetryInv'
<1>1. IInv' /\ LogGrows /\ Effect /\ Counts
  BY StepInvariant, StepEffect, StepCounts
<1>2. /\ events \subseteq events'
      /\ \A e \in events' \ events : e.seq > session.seq
  BY <1>1, EffectAppends
<1>3. /\ session.seq \in Nat /\ MaxRetry \in Nat
      /\ \A e \in events : e.seq \in 1 .. session.seq
      /\ \A e \in events' : e.seq \in Nat
      /\ session.details.attempt \in Nat /\ session'.details.attempt \in Nat
  BY <1>1, BoundsAssumption DEF IInv, EventLogDense, TypeOK, Sessions, Events, Details
<1>4. /\ IsFiniteSet(Reschedulings) /\ Cardinality(Reschedulings) \in Nat
      /\ Cardinality(Reschedulings) <= session.details.attempt
      /\ Cardinality(Reschedulings) < MaxRetry
  BY FS_CardinalityType DEF RetryInv
<1>5. CASE /\ session'.details.attempt >= session.details.attempt
           /\ \A e \in events' \ events :
                e.type # "session.status_rescheduled" /\ ~Completed(e)
  <2>1. Reschedulings' = Reschedulings
    BY <1>2, <1>5 DEF Reschedulings
  <2> QED
    BY <1>3, <1>4, <1>5, <2>1 DEF RetryInv
<1>6. CASE /\ session'.details.attempt = session.details.attempt + 1
           /\ session'.details.attempt < MaxRetry
           /\ Appends(FailureBodies("session.status_rescheduled", "transient_error"))
  <2> DEFINE bodies == FailureBodies("session.status_rescheduled", "transient_error")
             event == [seq |-> session.seq + 2, type |-> bodies[2].type,
                       stop |-> bodies[2].stop, target |-> bodies[2].target]
  <2>1. bodies \in Seq(Bodies)
    BY TurnBodies DEF EventTypes, StopTypes
  <2>2. /\ DOMAIN bodies = {1, 2}
        /\ bodies[1].type = "session.error" /\ bodies[2].type = "session.status_rescheduled"
    BY DEF FailureBodies, Body, StatusBody
  <2>3. event \in events'
    BY <1>6, <2>2 DEF Appends, Numbered
  <2>4. \A e \in events' \ events : /\ e.type \in {"session.error", "session.status_rescheduled"}
                                    /\ e.type = "session.status_rescheduled" => e = event
    <3>1. ASSUME NEW e \in events' \ events, e.type = "session.status_rescheduled"
          PROVE  e = event
      <4>1. PICK i \in {1, 2} : e = [seq |-> session.seq + i, type |-> bodies[i].type,
                                     stop |-> bodies[i].stop, target |-> bodies[i].target]
        BY <1>6, <2>2, <3>1 DEF Appends, Numbered
      <4>2. i = 2
        BY <2>2, <3>1, <4>1
      <4> QED
        BY <4>1, <4>2
    <3>2. \A e \in events' \ events : \E i \in DOMAIN bodies : e.type = bodies[i].type
      BY <1>6, <2>1, NewEvents
    <3> QED
      BY <2>2, <3>1, <3>2
  <2>5. event.seq = session.seq + 2 /\ event.type = "session.status_rescheduled"
    BY <2>2
  <2>6. event \notin events
    BY <1>3, <2>5
  <2> HIDE DEF event, bodies
  <2>7. Reschedulings' = Reschedulings \cup {event}
    <3>1. \A f \in events' : Completed(f) => f \in events
      BY <2>4 DEF Completed
    <3>2. \A f \in events' : Completed(f) => f.seq < event.seq
      BY <1>3, <2>5, <3>1
    <3> QED
      BY <1>2, <2>3, <2>4, <2>5, <3>1, <3>2 DEF Reschedulings
  <2>8. event \notin Reschedulings
    BY <2>6 DEF Reschedulings
  <2>9. /\ IsFiniteSet(Reschedulings')
        /\ Cardinality(Reschedulings') = Cardinality(Reschedulings) + 1
    BY <1>4, <2>7, <2>8, FS_AddElement
  <2> QED
    BY <1>3, <1>4, <1>6, <2>9 DEF RetryInv
<1>7. CASE /\ \E e \in events' : Completed(e) /\ e.seq > session.seq
           /\ \A e \in events' \ events : e.type # "session.status_rescheduled"
  <2>1. PICK e \in events' : Completed(e) /\ e.seq > session.seq
    BY <1>7
  <2>2. \A f \in events : ~(e.seq < f.seq)
    BY <1>3, <2>1
  <2>3. Reschedulings' = {}
    BY <1>7, <2>1, <2>2 DEF Reschedulings
  <2> QED
    BY <1>3, <2>3, FS_EmptySet DEF RetryInv
<1> QED
  BY <1>1, <1>5, <1>6, <1>7 DEF Counts

LEMMA InitRetry ==
  ASSUME Init, MaxRetry > 0
  PROVE  DetailsKnown /\ RetryInv
<1>1. DetailsKnown
  BY DEF Init, DetailsKnown, DetailsBehind, NoTask, NoRequest
<1>2. Reschedulings = {}
  BY DEF Init, Reschedulings, Numbered, StatusBody
<1>3. session.details.attempt = 0
  BY DEF Init, Created
<1> QED
  BY <1>1, <1>2, <1>3, FS_EmptySet, BoundsAssumption DEF RetryInv

\* MAX_TRANSIENT_RETRY_ATTEMPTS: between two completed turns a session is rescheduled
\* fewer times than that, whichever tasks of whichever processes run the attempts, as
\* long as nobody archives its primary thread: archive_session_thread writes the
\* count it read over the one there is.
THEOREM RetriesAreCapped ==
  MaxRetry > 0 /\ "archiveThread" \notin Ops => (Spec => []RetriesCapped)
<1> SUFFICES ASSUME MaxRetry > 0, "archiveThread" \notin Ops
             PROVE  Spec => []RetriesCapped
  OBVIOUS
<1>1. Init => DetailsKnown /\ RetryInv
  BY InitRetry
<1>2. IInv /\ Decisions /\ DetailsKnown /\ RetryInv /\ [Next]_vars => DetailsKnown' /\ RetryInv'
  BY StepKnown, StepRetry
<1>3. RetryInv => RetriesCapped
  BY DEF RetryInv, Reschedulings, RetriesCapped
<1> QED
  BY <1>1, <1>2, <1>3, InitInvariant, StepInvariant, InitDecisions, StepDecisions, PTL DEF Spec
=============================================================================
