------------------------ MODULE MC_EventBusTransactions ------------------------
(* EventBusTransactions with the bounds its configurations give.            *)
EXTENDS EventBusTransactions
=============================================================================
