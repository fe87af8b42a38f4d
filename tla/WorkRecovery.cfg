CONSTANTS
  a = a
  b = b
  s1 = s1
  s2 = s2
  MaxWork = 1
  SessionOf <- OneSession
  Workers = {a}
  WorkerId <- OwnId
  Clients = {"c"}
  Calls = {1}
  Routes = {"poll", "ack", "heartbeat", "metadata", "stop", "interrupt"}
  Nobody = nobody
  Inline = {TRUE, FALSE}
  Supervised = {a}
  Crashable = {a, 1}
  MaxFaults = 3
  Window = 2
  LeaseSeconds = 1
  RetrySeconds = 1
  MaxRetry = 3
SPECIFICATION FairSpec
CHECK_DEADLOCK FALSE
INVARIANT TypeOK
PROPERTY WorkFinishes
