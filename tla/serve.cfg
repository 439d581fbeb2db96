\* Two requests with up to two jobs each fill the channel of one worker (capacity
\* two), and their handlers may hang.
SPECIFICATION FairServeSpec
CONSTANTS
  Requests = {r1, r2}
  Workers = {w1}
  Groups = {g1}
  Arrivals <- UserArrivals
  NoJob = NoJob
  NoAnswer = NoAnswer
INVARIANTS
  TypeOK
  ReplyMatchesAnswers
  DbOpenWhileWorking
  LossNeedsForcedShutdown
  BusyMeansRefused
PROPERTIES
  UsesPool
  ShutdownEnds
\* The process exits.
CHECK_DEADLOCK FALSE
