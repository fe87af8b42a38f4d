SPECIFICATION MCSpec
CONSTANTS
  Contents = {x}
  Rejected = Rejected
  SessionIds = {s1}
  MaxFiles = 3
  MaxStaged = 1
  FileClients = {c1, c2}
  MaxSessionFiles = 1
  Nil = Nil
  SkillIds = {k1}
  Uploads <- SomeUploads
  Manifest = SKILL_md
  BadSegments = {dotdot}
  MaxNow = 3
  MaxSkillVersions = 2
  SkillClients = {z1, z2}
  NoSkill = NoSkill
  Threads = {t1, t2}
  Everything = Everything
  MaxEvents = 4
  PageSize = 2
  MaxRows = 5
  ListLimit = 3
  MaxLimit = 2
  Limits = {1, 2, 5}
INVARIANTS ObjectsTypeOK ObjectsFollowRows BytesMatchSha MountsBounded 
  SentInOrder PagesMissNothing IdsMissNothing
PROPERTIES LatestFallsByOverlap EventsSent
CHECK_DEADLOCK FALSE
