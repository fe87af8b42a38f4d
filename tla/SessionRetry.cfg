SPECIFICATION FairSpec
CHECK_DEADLOCK FALSE
CONSTANTS
  t1 = t1  t2 = t2  p1 = p1  p2 = p2  r1 = r1  r2 = r2
  Tasks = {t1, t2}
  Procs = {p1}
  ProcOf <- OneProcess
  Crashable = {}
  Requests = {r1}
  Ops = {"cancel", "send"}
  InputTypes = {"user.message", "user.interrupt"}
  MaxBatch = 1
  MaxActions = 1
  MaxSeq = 10
  HistoryLimit = 100
  MaxRetry = 3
INVARIANTS RetriesCapped
PROPERTIES ResultClosesItsTurn RunningEnds
