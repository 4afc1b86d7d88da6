----------------------------- MODULE MC_JobQueue -----------------------------
(* JobQueue with interchangeable workers.                                   *)
EXTENDS JobQueue, TLC

WorkerSymmetry == Permutations(Workers)
=============================================================================
