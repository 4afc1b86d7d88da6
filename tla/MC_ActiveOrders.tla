---------------------------- MODULE MC_ActiveOrders ----------------------------
(* ActiveOrders with interchangeable sessions, requests and variants.        *)
EXTENDS ActiveOrders, TLC

ClientSymmetry ==
  Permutations(Sessions) \cup Permutations(Requests) \cup Permutations(Variants)
=============================================================================
