SPECIFICATION MCSpec
CONSTANTS
  Agents = {a1}
  Configs = {cf1}
  AgentClients = {}
  MaxRoster = 0
  MaxVersion = 1
  Nothing = Nothing
  VaultIds = {v1}
  MaxCredentials = 0
  AuthTypes = {static_bearer}
  Urls = {u1}
  Secrets = {s1}
  VaultClients = {}
  Purged = Purged
  MaxDeployments = 1
  Crons = {daily}
  CronTimes <- EveryTime
  Ahead = 2
  Clients = {r1}
  Schedulers = {p1}
  TickLimit = 2
  ApiSchedules = TRUE
  MaxClock = 1
  MaxRuns = 1
INVARIANT ScheduleNotStalled
CHECK_DEADLOCK FALSE
