----------------------------- MODULE MC_Scheduler -----------------------------
(* Scheduler with interchangeable workers, and slots for their runs.        *)
EXTENDS Scheduler, TLC

WorkerSymmetry == Permutations(Workers) \cup Permutations(Slots)
=============================================================================
