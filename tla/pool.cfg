\* Two workers; five jobs overfill the channel (capacity four) when the
\* workers are slow to start. Two answers tell the results of jobs apart.
SPECIFICATION Spec
CONSTANTS
  Workers = {w1, w2}
  Jobs = {j1, j2, j3, j4, j5}
  Answers = {a1, a2}
  NoJob = NoJob
  NoAnswer = NoAnswer
SYMMETRY PoolSymmetry
INVARIANTS
  TypeOK
  ResultChannelReady
  JobInOnePlace
  PoolBounds
  NoWorkAfterStop
  PoolInv
PROPERTY KeepsContract
\* Every job may be over and every worker gone.
CHECK_DEADLOCK FALSE
