--------------------------- MODULE MC_StockControl ---------------------------
(* StockControl with interchangeable order lines.                           *)
EXTENDS StockControl, TLC

LineSymmetry == Permutations(Lines)
=============================================================================
