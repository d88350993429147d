\* Every operation but a selection on one thread of one workspace; the source
\* exits in MCSelection.cfg.
SPECIFICATION Spec
CONSTANTS
  Threads = {t1}
  Workspaces = {w1}
  Calls = {c1, c2, c3}
  Reservations = {c1, c2, c3}
  ForeignTurns = {}
  Turns = {c1, c2, c3}
  Contracts = {}
  Null = Null
  Kinds = {"implicit", "create", "turn", "review", "compact", "rollback", "archive", "unarchive", "delete", "reconcile", "reconcileWorkspace", "list"}
  MaxCrashes = 1
  MaxExits = 0
SYMMETRY Symmetry
INVARIANTS
  TypeOK
  RunningIsReserved
  PendingIsGuarded
  CatalogAgrees
PROPERTIES
  ForgottenIsDeleted
  UnknownCreationStays
CHECK_DEADLOCK FALSE
