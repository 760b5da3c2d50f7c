SPECIFICATION RouteSpec
CONSTANTS
  Turns = {r1, r2}
  RouteModes = {"off", "auto", "on", "capability"}
  Asked = {"sonnet", "opus"}
  MaxTurns = 3
  NoModel = NoModel
INVARIANT HeldOriginal
CHECK_DEADLOCK FALSE
