\* A panicking handler and the connection limit.
SPECIFICATION Spec
CONSTANTS
  MaxConns = 2
  Limit = 1
  Capacity = 2
  Credit = 1
  RequestKinds = {"served", "rejected", "panics"}
  Clones = FALSE
  MaxCommits = 2
  MaxOthers = 1
  MaxRequests = 1
  MaxFaults = 1
INVARIANTS
  RefusedOnlyAtLimit
CHECK_DEADLOCK FALSE
