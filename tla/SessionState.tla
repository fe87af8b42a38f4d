---------------------------- MODULE SessionState ----------------------------
(* The vocabulary of a managed session: the statuses and stop reasons of    *)
(* app/session_state.py, and the predicates every handler decides with.     *)
(* A stop reason is its type and, for "requires_action", the ids of the     *)
(* events the session waits for; an event's id is modelled by its seq.      *)
EXTENDS Integers

Statuses == {"idle", "running", "rescheduling", "terminated"}

\* ACTIVE_STATUSES: a turn is in progress or is to be retried.
Active == {"running", "rescheduling"}

\* RUNNABLE_STATUSES: a turn may start.
Runnable == {"idle", "rescheduling"}

StopTypes == {"none", "in_progress", "end_turn", "requires_action", "interrupted",
              "action_submitted", "cancelled", "transient_error", "error"}

\* None, or a dict with a "type" (stop_reason_type reads nothing else).
StopReasons == [type : StopTypes, pending : SUBSET Nat]

Stop(type) == [type |-> type, pending |-> {}]

RequiresAction(ids) == [type |-> "requires_action", pending |-> ids]

IsWaitingForAction(stop) == stop.type = "requires_action"

PendingActionIds(stop) == IF IsWaitingForAction(stop) THEN stop.pending ELSE {}

BlocksMutation(status) == status \in Active

CanStartWork(status, stop) == status \in Runnable /\ ~IsWaitingForAction(stop)

\* starts_work and is_action_result: the two classes of client events.
\* "user.message" stands for user.define_outcome as well, and "action_result"
\* for user.custom_tool_result, user.tool_confirmation and user.tool_result.
StartsWork(type) == type = "user.message"

IsActionResult(type) == type = "action_result"
=============================================================================
