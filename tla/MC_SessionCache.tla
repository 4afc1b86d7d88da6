---------------------------- MODULE MC_SessionCache ----------------------------
(* SessionCache with interchangeable requests.                              *)
EXTENDS SessionCache, TLC

RequestSymmetry == Permutations(Requests)
=============================================================================
