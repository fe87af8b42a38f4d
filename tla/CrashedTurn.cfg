CONSTANTS
  a = a
  b = b
  s1 = s1
  s2 = s2
  MaxWork = 1
  SessionOf <- OneSession
  Workers = {a}
  WorkerId <- OwnId
  Clients = {}
  Calls = {}
  Routes = {}
  Nobody = nobody
  Inline = {FALSE}
  Supervised = {a}
  Crashable = {a}
  MaxFaults = 1
  Window = 2
  LeaseSeconds = 1
  RetrySeconds = 1
  MaxRetry = 2
SPECIFICATION Spec
CHECK_DEADLOCK FALSE
PROPERTY CompletedIsOver
