---------------------------- MODULE MCWorkerPool ----------------------------
(***************************************************************************)
(* Small instances of WorkerPool for TLC.                                   *)
(***************************************************************************)
EXTENDS WorkerPool, TLC

PoolSymmetry ==
  Permutations(Workers) \cup Permutations(Jobs) \cup Permutations(Answers)
=============================================================================
