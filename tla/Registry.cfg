SPECIFICATION MCSpec
CONSTANTS
  Agents = {a1, a2}
  Configs = {cf1, cf2}
  AgentClients = {x1, x2}
  MaxRoster = 1
  MaxVersion = 2
  Nothing = Nothing
  VaultIds = {v1}
  MaxCredentials = 1
  AuthTypes = {static_bearer, mcp_oauth}
  Urls = {u1, u2}
  Secrets = {s1, s2}
  VaultClients = {y1, y2}
  Purged = Purged
INVARIANTS RegistryTypeOK VersionsDense RosterPinsFlat PinnedSessionStable
PROPERTIES NoAgentUpdateLost PurgeIsUndoneOnlyBy
SYMMETRY Symmetry
CHECK_DEADLOCK FALSE
