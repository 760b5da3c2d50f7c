SPECIFICATION Spec
CONSTANTS
  s1 = s1  s2 = s2  f1 = f1  f2 = f2  p1 = p1  p2 = p2  p3 = p3
  Threads = {t1, t2}
  Sessions = {s1, s2}
  Stems = {f1, f2}
  StemOf <- SharedFile
  Pages = {p1, p3}
  Bytes <- HugePage
  LineOverhead = 1
  MaxSessionBytes = 2
  MaxIndexBytes = 2
  MaxTotalBytes = 5
  MaxRows = 1
  Faults = {"read", "open", "append", "rewrite", "unlink", "crash"}
  NoThread = NoThread
  NoSnap = NoSnap
INVARIANTS Accounting IndexBounded
PROPERTY PanicsOnlyByRace
SYMMETRY ThreadSymmetry
VIEW WithoutOwed
