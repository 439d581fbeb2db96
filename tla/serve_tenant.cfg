SPECIFICATION ServeSpec
CONSTANTS
  Requests = {r1}
  Workers = {w1}
  Groups = {g1}
  Arrivals <- UserArrivals
  NoJob = NoJob
  NoAnswer = NoAnswer
INVARIANTS
  TenantConfirmed
CHECK_DEADLOCK FALSE
