SPECIFICATION FilesSpec
CONSTANTS
  pa = pa  pb = pb  va = va  vb = vb
  Paths = {pa, pb}
  Contents = {va, vb}
  Absent = Absent  Dir = Dir  Partial = Partial  NotTaken = NotTaken  Untouched = Untouched
  EditSets <- Proposals
  Faults = {"write"}
  Tasks = {k1, k2}
  MaxAttempts = 2
  NoTask = NoTask
  Memories = {m1, m2}
  Writers = {w1, w2}
  LogFaults = {"cut"}
  MaxWrites = 4
  Homes = {n1, n2}
  Hands = {h1, h2}
  Patches = {p1, p2}
  NewCap = 1
  PatchFaults = {"save"}
  MaxWork = 4
  MaxExports = 2
  Torn = Torn
  Pids = {i1, i2}
  Tools = {t1, t2}
  Dashboards = {t2}
  Nobody = Nobody
  DaemonFaults = {"dies", "reuse", "cut"}
  MaxStarts = 3
  Envs = {"on", "unset"}
  Stabs = {FALSE}
  Dims = {256, 512}
  BaseDim = 256
  Windows = 1
  Epochs = 3
  StepCap = 3
  Patience = 2
  TopLoss = 1
  MaxRuns = 2
  CkptFaults = {"cut", "write"}
INVARIANTS AllOrNothing LastWordStands PatchesSound NoOrphan CheckpointSound
PROPERTIES GateSpec
CHECK_DEADLOCK FALSE
