--------------------------- MODULE StockPromise ----------------------------
(***************************************************************************)
(* What the inventory promises, with no counters and no transactions: an   *)
(* order holds its copies, has them away with the courier, or has nothing; *)
(* the shop never ships a copy it does not own, and never promises one     *)
(* twice unless the product takes backorders.  OrderDesk implements it.    *)
(***************************************************************************)
EXTENDS OrderUnits

CONSTANT Backorder   \* products that may be promised beyond what is owned

VARIABLES
    stage,   \* where each order's copies are
    owned    \* copies of each product the shop owns, wherever they are

Stages == {"free", "held", "away"}

At(st, where) == {o \in Orders : st[o] = where}

\* The promise, for given stages and belongings.
Kept(st, own, p) ==
    /\ Units(At(st, "away"), p) <= own[p]
    /\ p \in Backorder \/ Units(At(st, "held"), p) + Units(At(st, "away"), p) <= own[p]

Init ==
    /\ stage = [o \in Orders |-> "free"]
    /\ owned \in [Products -> Nat]

\* Order o's copies go from one place to another.
Move(o, from, to) ==
    /\ stage[o] = from
    /\ stage' = [stage EXCEPT ![o] = to]
    /\ UNCHANGED owned

\* ... if the promise can still be kept for every product of the order.
MoveIfKept(o, from, to) ==
    /\ Move(o, from, to)
    /\ \A p \in Lines(o) : Kept([stage EXCEPT ![o] = to], owned, p)

Hold(o)     == MoveIfKept(o, "free", "held")
Release(o)  == Move(o, "held", "free")
Ship(o)     == MoveIfKept(o, "held", "away")
TakeBack(o) == Move(o, "away", "free")

\* A count or a delivery.
Recount(p) ==
    /\ owned' \in [Products -> Nat]
    /\ \A q \in Products \ {p} : owned'[q] = owned[q]
    /\ Kept(stage, owned', p)
    /\ UNCHANGED stage

Next ==
    \/ \E o \in Orders : Hold(o) \/ Release(o) \/ Ship(o) \/ TakeBack(o)
    \/ \E p \in Products : Recount(p)

Spec == Init /\ [][Next]_<<stage, owned>>

\* No copy is promised that is not owned.
PromiseKept == \A p \in Products : Kept(stage, owned, p)
=============================================================================
