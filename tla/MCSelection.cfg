\* A thread that moves between two workspaces; no symmetry, for liveness.
SPECIFICATION FairSpec
CONSTANTS
  Threads = {t1}
  Workspaces = {w1, w2}
  Calls = {c1, c2}
  Reservations = {c1, c2}
  ForeignTurns = {f1}
  Turns = {c1, c2, f1}
  Contracts = {k1}
  Null = Null
  Kinds = {"turn", "select", "compact", "reconcile", "reconcileWorkspace"}
  MaxCrashes = 1
  MaxExits = 1
INVARIANTS
  LocationAgrees
  ContextIsTrue
  SwitchIsRecorded
PROPERTIES
  CommittedIsReported
  GateReleased
  CallsReturn
CHECK_DEADLOCK FALSE
