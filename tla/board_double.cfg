SPECIFICATION Spec
CONSTANTS
  w1 = w1  w2 = w2  a1 = a1  a2 = a2
  plain = plain  mail = mail  odd = odd  oddStem = oddStem  t1 = t1  t2 = t2  t3 = t3
  Workers = {w1, w2}
  Servers = {a1, a2}
  ServerOf <- TwoServers
  Channels = {plain, mail}
  Stems = {plain, mail}
  FileOf <- PlainFiles
  NoStem = NoStem
  Tasks = {t1, t2}
  MaxPriority = 1
  Faults = {}
  NoTmp = NoTmp
INVARIANTS ClaimedOnce
