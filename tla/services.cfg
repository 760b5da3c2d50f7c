SPECIFICATION ServicesSpec
CONSTANTS
  w1 = w1  w2 = w2  a1 = a1  a2 = a2
  plain = plain  mail = mail  odd = odd  oddStem = oddStem  t1 = t1  t2 = t2  t3 = t3
  Workers = {w1, w2}
  Servers = {a1}
  ServerOf <- OneServer
  Channels = {plain, mail}
  Stems = {plain, mail}
  FileOf <- PlainFiles
  NoStem = NoStem
  Tasks = {t1, t2}
  MaxPriority = 1
  Faults = {}
  NoTmp = NoTmp
  Incoming = {q1}
  Shared = shared
  MaxPlan = 3
  Width = 2
  NoSub = NoSub
  Callers = {c1, c2}
  Agents = {s1, s2}
  Reports = {1, 5}
  Levels = {1, 4}
  StartCap = 4
  Floor = 2
  m0 = m0  m2 = m2
  Maps = {m0, m2}
  Milestones <- TwoMaps
  MaxCorrections = 1
  MaxToolCalls = 3
  NoAnswer = NoAnswer
  ta = ta  tb = tb  tc = tc
  Tokens = {ta, tb, tc}
  ClaimSize = 2
  Spans <- GroundSpans
  MaxClaims = 2
  MaxExpansions = 2
  Scores = {0, 10, 15, 20}
  MaxSample = 3
  Deltas = {0, 1, 4, 10}
  Full = 20
  ShippedGate = 15
  SupportHigh = 12
  NoBody = NoBody
  Files <- TwoFiles
  Orders <- TwoOrders
  LateClasses = {"swap"}
  ImportClass = "import"
  MaxHints = 2
  Caps = {1, 3, 20}
  NoFn = "none"
  Runners = {"verify", "jit", "cli"}
  Limit = 2
  Grace = 1
  Horizon = 8
  JitRequests = {j1, j2}
  Edits = {"e1", "e2"}
  JitSteps = 3
  JitFaults = {"timeout", "read", "write", "leave"}
  Messages <- Talk
  Items <- Inputs
  MaxTurns = 4
  TryOrders <- OneOrder
  Keyed <- SomeKeyed
  AnswerTexts = {"a", "blank"}
  Alike <- NoneAlike
  AgentLists <- OneToThree
  Ttls = {0, 60}
  Thresholds = {20, 80}
  MaxIter = 2
  MaxStatements = 3
  Sources <- OneLines
  MaxShifted = 4
  MaxShiftedArgs = 2
  MaxSwapIdents = 3
  StatementWords = {"return", "if", "for", "let", "print"}
  NotSwappable = {"return", "if", "for", "let", "in", "else", "or", "not", "and", "break"}
  RustKeywords = {"return", "if", "for", "let", "in", "else", "break"}
CHECK_DEADLOCK FALSE
INVARIANTS PostedStays RoutesSound EvidenceLeads
PROPERTIES QueueSpec
