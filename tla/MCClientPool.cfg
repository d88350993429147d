\* A source whose client is restarted under running calls.
CONSTANTS
  Clients = {c1, c2}
  Processes = {p1, p2, p3}
  Calls = {k1, k2}
  Null = Null
  Thrown = Thrown
SPECIFICATION FairSpec
INVARIANTS AnswersMatch InitializedHasProcess PooledIsNotStopping
PROPERTY CallsSettle
CHECK_DEADLOCK FALSE
