\* A page of one turn, and of one row; the thread gets a second turn.
CONSTANTS
  Null = Null
  MaxTurns = 2
  PageSize = 1
  InitialCached = 1
  MaxQueued = 2
  Histories <- One
  Modes = {"legacy", "paginated"}
SPECIFICATION FairSpec
INVARIANTS RevertedStaysGone OpenShowsLatest
PROPERTY RollbackEnds
CHECK_DEADLOCK FALSE
