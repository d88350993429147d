\* Two launches, a stop and two connections of one source.
CONSTANTS
  MaxRuns = 2
  Requests <- MCRequests
  Stops = {s1}
  Clients = {c1, c2}
  Null = Null
  build = build
  local = local
  checkout = checkout
SPECIFICATION FairSpec
INVARIANTS NoConflictingRuns StartedIsKnownOrEnded NoStopMarkLeft
PROPERTIES LaunchReleased ExitEndsRun
CHECK_DEADLOCK FALSE
