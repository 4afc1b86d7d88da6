--------------------------- MODULE MC_OrderPayments ---------------------------
(* OrderPayments with the bounds its configurations give: a refund of a
   whole order, and one that takes a unit back.                            *)
EXTENDS OrderPayments

MCRefundAmounts == {-1, 2}
=============================================================================
