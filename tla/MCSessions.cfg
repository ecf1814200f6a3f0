\* The connection limit, the feed and the client, with every way a task can
\* end: lost connections, restarts, lag, unreadable requests and panics.
SPECIFICATION FairSpec
CONSTANTS
  MaxConns = 2
  Limit = 2
  Capacity = 2
  Credit = 1
  RequestKinds = {"served", "rejected", "panics"}
  Clones = TRUE
  MaxCommits = 2
  MaxOthers = 1
  MaxRequests = 1
  MaxFaults = 1
INVARIANTS
  TypeOK
  PermitsExact
  DrainedIsCurrent
PROPERTIES
  ClientCatchesUp
  RequestsEnd
CHECK_DEADLOCK FALSE
