-------------------------- MODULE MCOnlineCheckout -------------------------
(* One online order, overlapping checkout requests and settlements. *)
EXTENDS OnlineCheckout, TLC

CONSTANTS o1, p1, k1, c1, s1, h1, h2, w1, w2

MCOrders    == {o1}
MCProducts  == {p1}
MCCustomers == {k1}
MCCoupons   == {c1}
MCSessions  == {s1}
OneShopper  == {h1}
TwoShoppers == {h1, h2}
OneWorker   == {w1}
TwoWorkers  == {w1, w2}

MCMethod      == o1 :> "SSLCOMMERZ"
MCCustomerOf  == o1 :> k1
MCCouponOf    == o1 :> NoCoupon
MCQty         == o1 :> (p1 :> 1)
MCOpening     == p1 :> 1
MCLimit       == c1 :> 1

Alike == Permutations(TwoShoppers) \cup Permutations(TwoWorkers)
=============================================================================
