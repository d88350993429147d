\* A history longer than a page.
CONSTANTS
  Null = Null
  MaxTurns = 4
  PageSize = 2
  InitialCached = 1
  MaxQueued = 2
  Histories <- Long
  Modes = {"paginated"}
SPECIFICATION Spec
INVARIANT AllIsAll
CHECK_DEADLOCK FALSE
