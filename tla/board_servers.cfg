SPECIFICATION Spec
CONSTANTS
  w1 = w1  w2 = w2  a1 = a1  a2 = a2
  plain = plain  mail = mail  odd = odd  oddStem = oddStem  t1 = t1  t2 = t2  t3 = t3
  Workers = {w1, w2}
  Servers = {a1, a2}
  ServerOf <- TwoServers
  Channels = {plain}
  Stems = {plain}
  FileOf <- PlainFile
  NoStem = NoStem
  Tasks = {t1, t2}
  MaxPriority = 0
  Faults = {"write", "crash"}
  NoTmp = NoTmp
INVARIANTS RowsUnique ClaimedInTurn
VIEW BeforeOverlap
SYMMETRY ServerSymmetry
