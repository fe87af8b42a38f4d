SPECIFICATION Spec
CHECK_DEADLOCK FALSE
CONSTANTS
  t1 = t1  t2 = t2  p1 = p1  p2 = p2  r1 = r1  r2 = r2
  Tasks = {t1, t2}
  Procs = {p1, p2}
  ProcOf <- TwoProcesses
  Crashable = {p1}
  Requests = {r1}
  Ops = {"update", "updateAgent", "archive", "archiveThread", "delete", "cancel", "resume", "send"}
  InputTypes = {"user.message", "user.interrupt", "action_result"}
  MaxBatch = 1
  MaxActions = 1
  MaxSeq = 5
  HistoryLimit = 100
  MaxRetry = 3
INVARIANTS TypeOK EventLogDense StatusMatchesLog TurnExclusive
PROPERTIES DeletedStartsNoTurn ImplementsLifecycle
