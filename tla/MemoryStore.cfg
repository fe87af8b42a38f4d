SPECIFICATION Spec
CHECK_DEADLOCK FALSE
CONSTANTS
  m1 = m1  m2 = m2  m3 = m3  p1 = p1  p2 = p2  c1 = c1  c2 = c2  r1 = r1  r2 = r2
  Memories = {m1, m2, m3}
  Paths = {p1, p2}
  Contents = {c1, c2}
  Requests = {r1, r2}
  Capacity = 1
  MaxVersions = 4
  MaxRedacted = 2
  Nothing = nothing
INVARIANTS TypeOK VersionsComplete HeadIsLatest CapacityOverrun
PROPERTIES PreconditionHolds
SYMMETRY StoreSymmetry
