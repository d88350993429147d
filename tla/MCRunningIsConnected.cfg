\* One launch and one stop on one connection.
CONSTANTS
  MaxRuns = 1
  Requests <- MCOneRequest
  Stops = {s1}
  Clients = {c1}
  Null = Null
  build = build
  local = local
  checkout = checkout
SPECIFICATION Spec
INVARIANT RunningIsConnected
CHECK_DEADLOCK FALSE
