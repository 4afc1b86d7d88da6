---------------------------- MODULE MC_OrderPrices ----------------------------
(* OrderPrices with lines and promotions whose shares do not come out even.  *)
EXTENDS OrderPrices

MCListPrices == <<5, 8>>

MCSurcharges == {-6, 0, 9}

MCPromotions ==
  << [action |-> "item", value |-> 50, minimum |-> 0, on |-> {1}],
     [action |-> "line", value |-> 4, minimum |-> 12, on |-> {}],
     [action |-> "fixed", value |-> 7, minimum |-> 0, on |-> {}],
     [action |-> "percentage", value |-> 30, minimum |-> 15, on |-> {}] >>
=============================================================================
