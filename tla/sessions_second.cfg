SPECIFICATION StateSpec
CONSTANTS
  Parts = {"sessions"}
  s1 = s1
  s2 = s2
  Sessions = {s1, s2}
  Clients = {c1}
  Offloads = {o1, o2}
  Beneath <- MCBeneath
  Budget = 1
  MaxSessions = 2
  Versions = {1, 2}
  MaxCalls = 4
  MaxClock = 1
  None = None
  WeightIds = {w1, w2}
  Contexts = {x1}
  Callers = {k1, k2}
  WeightCap = 1
  DigestCap = 2
  WeightFaults = {"adapt", "rename", "restart"}
  MaxWeightCalls = 3
  NoObj = NoObj
  Proxies = {p1, p2}
  Shared = {t1}
  QueueCap = 1
  InboxCap = 1
  ExchangeFaults = {"replay", "restart", "rotate", "mismatch"}
  MaxDeltas = 2
  pa = pa  pb = pb  va = va  vb = vb
  Paths = {pa, pb}
  Contents = {va, vb}
  Absent = Absent  Dir = Dir  Partial = Partial  NotTaken = NotTaken  Untouched = Untouched
  EditSets <- Proposals
  Faults = {"read", "mkdir", "write", "restore"}
  Tasks = {g1}
  MaxAttempts = 2
  NoTask = NoTask
CHECK_DEADLOCK FALSE
PROPERTY LossOnlyByOverlap
