---------------------------- MODULE OrderUnits -----------------------------
(***************************************************************************)
(* How many copies of a product a set of orders takes.  An order's lines   *)
(* are merged per product before stock moves, so an order is its quantity  *)
(* of each product.  Copies are counted as the elements of a set.          *)
(***************************************************************************)
EXTENDS Integers, FiniteSets

CONSTANTS
    Orders,    \* order ids, placed or not
    Products,
    Qty        \* units of each product an order takes

ASSUME OrdersAssumption == IsFiniteSet(Orders)
ASSUME QtyAssumption    == Qty \in [Orders -> [Products -> Nat]]

\* Copies of p as <<order, index>> pairs.
Copies(S, p) == UNION {{o} \X (1..Qty[o][p]) : o \in S}
Units(S, p)  == Cardinality(Copies(S, p))

Lines(o) == {p \in Products : Qty[o][p] > 0}
=============================================================================
