------------------------ MODULE MCCustomerFigures --------------------------
(* Two orders of one customer, one of them paid online, and two recomputes. *)
EXTENDS CustomerFigures, TLC

CONSTANTS o1, o2, p1, k1, s1, h1, h2

MCOrders    == {o1, o2}
MCProducts  == {p1}
MCCustomers == {k1}
MCSessions  == {s1}
MCHandlers  == {h1, h2}

MCMethod     == o1 :> "COD" @@ o2 :> "SSLCOMMERZ"
MCCustomerOf == [o \in MCOrders |-> k1]
MCCouponOf   == [o \in MCOrders |-> NoCoupon]
MCQty        == [o \in MCOrders |-> p1 :> 1]
MCOpening    == p1 :> 2
MCTotal      == o1 :> 1 @@ o2 :> 2
NoLimit      == [c \in {} |-> 1]
=============================================================================
