CONSTANTS
  a = a
  b = b
  s1 = s1
  s2 = s2
  MaxWork = 2
  SessionOf <- TwoSessions
  Workers = {a, b}
  WorkerId <- OwnId
  Clients = {}
  Calls = {1}
  Routes = {"interrupt"}
  Nobody = nobody
  Inline = {FALSE}
  Supervised = {}
  Crashable = {}
  MaxFaults = 2
  Window = 2
  LeaseSeconds = 1
  RetrySeconds = 1
  MaxRetry = 2
SPECIFICATION Spec
CHECK_DEADLOCK FALSE
INVARIANT SomeWorkerPolls
