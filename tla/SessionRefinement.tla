-------------------------- MODULE SessionRefinement -------------------------
(* SessionTurns implements SessionLifecycle: each committed transaction is  *)
(* one step of the abstract session, taken at the instant of the commit.    *)
EXTENDS SessionTurns

Lifecycle == INSTANCE SessionLifecycle WITH
  status <- session.status,
  stop <- session.stop,
  deleted <- session.deleted,
  answered <- ResolvedActionIds(events)

\* Status, stop reason, deletion and recorded answers change as if each handler
\* of sessions.py and each transaction of a turn (runner.py) ran alone: the
\* unique event number fails every transaction whose read is out of date.
ImplementsLifecycle == Lifecycle!Spec
=============================================================================
