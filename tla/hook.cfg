\* Two requests with up to two jobs each on two workers: functions panic and the
\* pool is stopped at any time, so that one worker may be left with the work.
SPECIFICATION FairSpec
CONSTANTS
  Requests = {r1, r2}
  Workers = {w1, w2}
  Groups = {}
  Arrivals <- MCArrivals
  NoJob = NoJob
  NoAnswer = NoAnswer
INVARIANTS
  JobsEndWithRequest
  TenantConfirmedWhileHealthy
PROPERTY AnsweredOrPoolDead
\* Every request may be answered and every worker gone.
CHECK_DEADLOCK FALSE
