SPECIFICATION ExchangeSpec
CONSTANTS
  Proxies = {p1, p2}
  Shared = {t1}
  QueueCap = 1
  InboxCap = 1
  ExchangeFaults = {}
  MaxDeltas = 2
PROPERTY DropsOnlyReplays
CHECK_DEADLOCK FALSE
