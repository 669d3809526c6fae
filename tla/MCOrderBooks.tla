---------------------------- MODULE MCOrderBooks ----------------------------
(* One order, and two transactions on its books.  The configurations pick how *)
(* it is paid.                                                                *)
EXTENDS OrderBooks, TLC

CONSTANTS o1, p1, k1, s1, a1, a2

MCOrders    == {o1}
MCProducts  == {p1}
MCCustomers == {k1}
MCSessions  == {s1}
MCClerks    == {a1, a2}

CashOrder    == o1 :> "COD"
OnlineOrder  == o1 :> "SSLCOMMERZ"
MCCustomerOf == o1 :> k1
MCCouponOf   == o1 :> NoCoupon
MCQty        == o1 :> (p1 :> 1)
MCOpening    == p1 :> 1
NoLimit      == [c \in {} |-> 1]
=============================================================================
