SPECIFICATION StoreSpec
CONSTANTS
  Threads = {t1, t2}
  Workspaces = {w1, w2}
  Reservations = {r1, r2}
  Turns = {u1}
  Contracts = {k1}
  Null = Null
SYMMETRY Symmetry
INVARIANTS
  OneReservationPerThread
  TransitionExclusive
PROPERTIES
  ReservedThreadStays
  ContextsImmutable
  ImplementsOwnership
