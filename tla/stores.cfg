SPECIFICATION StoresSpec
CONSTANTS
  s1 = s1  s2 = s2  f1 = f1  f2 = f2  p1 = p1  p2 = p2  p3 = p3
  Threads = {t1}
  Sessions = {s1, s2}
  Stems = {f1, f2}
  StemOf <- OwnFiles
  Pages = {p1, p2, p3}
  Bytes <- HugePage
  LineOverhead = 1
  MaxSessionBytes = 2
  MaxIndexBytes = 2
  MaxTotalBytes = 5
  MaxRows = 3
  Faults = {"open", "append"}
  NoThread = NoThread
  NoSnap = NoSnap
  make = make  npm = npm  ls = ls  dist = dist
  Fleet = {n1, n2}
  Commands = {make, npm, ls}
  Paths = {dist}
  Wants <- TwoNeedIt
  Unit = 20
  FadedBelow = 10
  PeerCap = 40
  MaxRunsSeen = 3
  MaxMerged = 1
  LastTime = 2
  mp = mp  ma = ma  mb = mb  mc = mc
  Kept = {mp, ma, mb, mc}
  Home <- ScopeOf
  Stem <- ScopeFile
  Personal = "personal"
  Likeness <- Alikeness
  MinScore = 4
  TopK = 1
  MaxExtra = 1
  Rank <- IdOrder
  Revises <- SomeRevise
  Links <- SomeLinks
  MaxStored = 4
  Contents <- SomeContents
  Keys = {k1}
  NoKey = NoKey
  WireFaults = {"flip", "render", "edit", "again"}
  MaxLines = 3
INVARIANTS Durable IndexMatchesDisk LearningSound
PROPERTIES WriteBoundsDisk ArchiveSpec
CHECK_DEADLOCK FALSE
