-------------------------- MODULE SessionLifecycle --------------------------
(***************************************************************************)
(* What a session promises its clients: a state machine whose every step   *)
(* decides and acts in one instant, as if each handler and each            *)
(* transaction of a turn ran alone.  SessionTurns is shown to implement it *)
(* although the code decides on a row it read earlier, without a lock.     *)
(***************************************************************************)
EXTENDS SessionState

VARIABLES
  status,         \* the session's status
  stop,           \* its stop reason
  deleted,        \* it was deleted
  answered        \* the actions for which a result was recorded

vars == <<status, stop, deleted, answered>>

Init ==
  /\ status = "idle"
  /\ stop = Stop("none")
  /\ deleted = FALSE
  /\ answered = {}

Become(newStatus, newStop) ==
  /\ status' = newStatus
  /\ stop' = Stop(newStop)
  /\ UNCHANGED <<deleted, answered>>

StartTurn ==
  /\ ~deleted
  /\ CanStartWork(status, stop)
  /\ Become("running", "in_progress")

EndTurn ==
  /\ status = "running"
  /\ Become("idle", "end_turn")

\* The turn stops for actions nobody has answered.
AskForActions ==
  /\ status = "running"
  /\ status' = "idle"
  /\ stop'.type = "requires_action"
  /\ stop'.pending # {}
  /\ stop'.pending \cap answered = {}
  /\ UNCHANGED <<deleted, answered>>

\* The failure handler looks at neither the status nor deleted_at.
Fail ==
  Become("rescheduling", "transient_error") \/ Become("terminated", "error")

Interrupt ==
  /\ ~deleted
  /\ status # "terminated"
  /\ Become("idle", "interrupted")

\* Each action is answered once; the session goes on with the last answer.
AnswerActions ==
  /\ ~deleted
  /\ status = "idle"
  /\ \E ids \in SUBSET (PendingActionIds(stop) \ answered) :
       /\ ids # {}
       /\ answered' = answered \cup ids
       /\ stop' = IF PendingActionIds(stop) \subseteq answered \cup ids
                    THEN Stop("action_submitted") ELSE stop
  /\ UNCHANGED <<status, deleted>>

Cancel ==
  /\ ~deleted
  /\ Become("terminated", "cancelled")

Delete ==
  /\ ~deleted
  /\ ~BlocksMutation(status)
  /\ deleted' = TRUE
  /\ status' = "terminated"
  /\ UNCHANGED <<stop, answered>>

Next ==
  \/ StartTurn \/ EndTurn \/ AskForActions \/ Fail
  \/ Interrupt \/ AnswerActions \/ Cancel \/ Delete

Spec == Init /\ [][Next]_vars
=============================================================================
