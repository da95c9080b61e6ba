----------------------------- MODULE MCOrderList -----------------------------
(* Two sessions that each place an order.                                  *)
EXTENDS OrderList

CONSTANTS s1, s2, o1, o2, end

TwoSessions == {s1, s2}
TwoOrders   == {o1, o2}
TwoPrices   == {1, 2}
=============================================================================
