\* The client that ensureClient returns after a start that failed.
CONSTANTS
  Clients = {c1}
  Processes = {p1}
  Calls = {k1, k2}
  Null = Null
  Thrown = Thrown
SPECIFICATION FairSpec
PROPERTY EnsuresStarted
CHECK_DEADLOCK FALSE
