\* One request of every kind; a replica that stops and starts, and samples that
\* fail or take as long as they may. MaxBehind is above the staleness bound.
SPECIFICATION FairSpec
CONSTANTS
  Requests = {r1}
  Kinds = {"get", "post", "stream"}
  MaxLag = 1
  Period = 1
  QueryTimeout = 2
  StreamRows = 2
  Faults = {"query", "down", "stream"}
  MaxWrites = 2
  MaxBehind = 8
INVARIANTS
  TypeOK
  StalenessBounded
  TransactionsSeeAll
  OkStreamIsComplete
PROPERTY ReplicaUsedAgain
\* The bounds stop the writes and the clock.
CHECK_DEADLOCK FALSE
