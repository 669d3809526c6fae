---------------------------- MODULE MCOrderDesk ----------------------------
(* Two orders that compete for the last copies and for the last coupon use. *)
EXTENDS OrderDesk, TLC

CONSTANTS o1, o2, p1, k1, c1, s1, s2

MCOrders    == {o1, o2}
MCProducts  == {p1}
MCCustomers == {k1}
MCCoupons   == {c1}
MCSessions  == {s1, s2}

MCMethod     == o1 :> "COD" @@ o2 :> "SSLCOMMERZ"
MCCustomerOf == [o \in MCOrders |-> k1]
MCCouponOf   == [o \in MCOrders |-> c1]
MCQty        == o1 :> (p1 :> 2) @@ o2 :> (p1 :> 1)
MCOpening    == p1 :> 2
MCLimit      == c1 :> 1
MCPerCustomer == c1 :> 2
=============================================================================
