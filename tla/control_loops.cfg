SPECIFICATION ControlSpec
CONSTANTS
  Handlers = {h1}
  TTL = 4
  Margin = 2
  Horizon = 13
  Latency = 1
  MaxCalls = 3
  NoEntry = NoEntry
  Convs = {c1, c2}
  Kinds = {"light", "prose"}
  MaxMessages = 3
  PrefixFaults = {"put", "evict", "noexpand"}
  NoNote = NoNote
  Turns = {r1, r2}
  RouteModes = {"off", "auto", "capability"}
  Asked = {"opus"}
  MaxTurns = 3
  NoModel = NoModel
  pa = pa  pb = pb  va = va  vb = vb
  Paths = {pa, pb}
  Contents = {va, vb}
  Absent = Absent  Dir = Dir  Partial = Partial  NotTaken = NotTaken  Untouched = Untouched
  EditSets <- Proposals
  Faults = {"write"}
  MaxAttempts = 3
  Train <- TrainTrees
  Holdout <- HeldOutTrees
  Nodes = {n1, n2, n3}
  Mocks = {n3}
  FanOut = 2
  Quarantine = 2
  Gap = 2
  WorkersExit = TRUE
  Sources = {"a", "b"}
  Lengthy = {"a"}
  Tests = {"b"}
  Edits = {"e"}
  Rounds = 2
  Restarts = 1
  WaitsAllowed = 1
  PolySteps = 2
  Tries = 2
  SolveFaults = {"read", "write", "exec"}
  MaxFrames = 2
CHECK_DEADLOCK FALSE
INVARIANTS ControlTypesOK OneTimer Warm PingsBounded SavingsEarned SolvedOrUntouched OnlyFixChanges CompletionsSound FramesSound
PROPERTIES StaysQuiet LoopsEnd PrefixStable DebugStaysStrong
