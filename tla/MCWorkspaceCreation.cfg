\* Creations that compete for repositories and destinations.
CONSTANTS
  Creations = {c1, c2}
  Repositories = {r1, r2}
  Destinations = {d1, d2}
  Null = Null
  External = External
SPECIFICATION Spec
INVARIANTS OneGitPerRepository CheckoutIsKnown NoUnfinishedWorkspace ActiveIsJournaled
CHECK_DEADLOCK FALSE
