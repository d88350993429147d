SPECIFICATION Spec
CONSTANTS
  Threads = {t1}
  Workspaces = {w1}
  Calls = {c1}
  Reservations = {c1}
  ForeignTurns = {f1}
  Turns = {c1, f1}
  Contracts = {}
  Null = Null
  Kinds = {"compact"}
  MaxCrashes = 0
  MaxExits = 0
SYMMETRY Symmetry
INVARIANTS
  RunningIsReserved
CHECK_DEADLOCK FALSE
