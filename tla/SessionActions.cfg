SPECIFICATION Spec
CHECK_DEADLOCK FALSE
CONSTANTS
  t1 = t1  t2 = t2  p1 = p1  p2 = p2  r1 = r1  r2 = r2
  Tasks = {t1}
  Procs = {p1}
  ProcOf <- OneProcess
  Crashable = {p1}
  Requests = {r1, r2}
  Ops = {"send", "resume"}
  InputTypes = {"action_result", "user.interrupt", "system.message"}
  MaxBatch = 2
  MaxActions = 2
  MaxSeq = 8
  HistoryLimit = 100
  MaxRetry = 3
INVARIANTS ActionResolvedOnce AnsweredBeforeNextTurn WaitingCanGoOn
SYMMETRY RequestSymmetry
