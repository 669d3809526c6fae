------------------------------ MODULE StockLots ------------------------------
(***************************************************************************)
(* The batches behind one product's shelf: each receipt is a lot with its  *)
(* own cost, copies leave the oldest lots first and come back into the     *)
(* lots they left from, and the product's cost price follows what is left. *)
(*                                                                         *)
(* Every operation starts by locking the product row, so each is one step.  *)
(* An order is shipped and taken back in turn: OrderDesk!HoldsAccounted. A *)
(* shelf may be older than the lots: the migration gave one to products    *)
(* on sale, not to deleted ones that are restored later.                   *)
(* Abstracted: lots of unknown cost, sale prices, notes, the price history.*)
(***************************************************************************)
EXTENDS Integers, Sequences, FiniteSets, FiniteSetsExt, SequencesExt, Sums

CONSTANTS
    Lots,          \* lot rows that may ever exist, numbered
    Parcels,       \* orders that ask for the product
    CopiesOf,      \* copies each asks for
    Costs,
    Receipts,      \* bound: copies a batch may have
    OldShelf       \* copies on the shelf before there were lots

ASSUME StockLotsAssumption ==
    /\ Lots \subseteq Nat /\ Costs \subseteq Nat /\ {} \notin {Lots, Costs}
    /\ Receipts \subseteq Nat \ {0} /\ OldShelf \in Nat
    /\ CopiesOf \in [Parcels -> Nat \ {0}]
    /\ IsFiniteSet(Lots) /\ IsFiniteSet(Parcels)

VARIABLES
    shelf,      \* products.stock_on_hand
    costPrice,  \* products.cost_price
    lot,        \* stock_lots: copies in and left, and what one cost
    fifo,       \* lots by received_at, oldest first
    taken,      \* stock_lot_consumptions: copies of a lot an order has not returned
    parcel,     \* where the order's copies are
    itemCost    \* order_items.unit_cost

lotVars == <<shelf, costPrice, lot, fifo, taken, parcel, itemCost>>

-----------------------------------------------------------------------------
NoLot == [in |-> 0, left |-> 0, cost |-> 0]

\* round(sum / n, 2) in the smallest unit.
RoundedShare(sum, n) == (2 * sum + n) \div (2 * n)

SumOver(f)  == SumOf(f, Lots)
Left(l)     == [i \in Lots |-> l[i].left]
LeftIn(l)   == SumOver(Left(l))
Worth(l, n) == SumOver([i \in Lots |-> l[i].cost * n[i]])

\* refreshCost: the average of what is left, unchanged when nothing is.
AverageCost(l, unless) ==
    IF LeftIn(l) = 0 THEN unless
    ELSE RoundedShare(Worth(l, Left(l)), LeftIn(l))

\* How n copies are spread over what each lot of a queue has, first come first served.
Spread(n, queue, has) ==
    [i \in Lots |->
        IF i \notin Range(queue) THEN 0
        ELSE LET at == CHOOSE k \in DOMAIN queue : queue[k] = i
                 before == SumOf([k \in DOMAIN queue |-> has[queue[k]]], 1..(at - 1))
             IN IF n <= before THEN 0 ELSE IF n - before <= has[i] THEN n - before ELSE has[i]]

Oldest(n) == Spread(n, fifo, Left(lot))

\* consume
Without(used) == [i \in Lots |-> [lot[i] EXCEPT !.left = @ - used[i]]]

\* A new lot, at its place by received_at.
WithLot(l, i, n, cost) == [l EXCEPT ![i] = [in |-> n, left |-> n, cost |-> cost]]
Unused == {i \in Lots : lot[i] = NoLot}

\* Variant: the batch replaces the count instead of adding to it.
AddBatchOver(n, cost) ==
    /\ Unused # {}
    /\ shelf' = n
    /\ lot' = WithLot(lot, Min(Unused), n, cost)
    /\ \E at \in 1..(Len(fifo) + 1) : fifo' = InsertAt(fifo, at, Min(Unused))
    /\ costPrice' = AverageCost(lot', costPrice)
    /\ UNCHANGED <<taken, parcel, itemCost>>

\* addBatch, of a purchase or by hand; received_at may lie in the past.
AddBatchOf(n, cost) ==
    /\ Unused # {}
    /\ shelf' = shelf + n
    /\ lot' = WithLot(lot, Min(Unused), n, cost)
    /\ \E at \in 1..(Len(fifo) + 1) : fifo' = InsertAt(fifo, at, Min(Unused))
    /\ costPrice' = AverageCost(lot', costPrice)
    /\ UNCHANGED <<taken, parcel, itemCost>>

\* setOnHand: copies found become a lot at today's cost, copies missing leave the oldest.
CountShelf(n) ==
    /\ n # shelf
    /\ shelf' = n
    /\ IF n > shelf
       THEN /\ Unused # {}
            /\ lot' = WithLot(lot, Min(Unused), n - shelf, costPrice)
            /\ fifo' = Append(fifo, Min(Unused))
       ELSE lot' = Without(Oldest(shelf - n)) /\ UNCHANGED fifo
    /\ costPrice' = AverageCost(lot', costPrice)
    /\ UNCHANGED <<taken, parcel, itemCost>>

\* Variant: the stamp is the cost price, not what left.
ShipAtCostPrice(o) ==
    /\ parcel[o] = "here" /\ shelf >= CopiesOf[o]
    /\ LET used == Oldest(CopiesOf[o]) IN
         /\ lot' = Without(used)
         /\ taken' = [taken EXCEPT ![o] = [i \in Lots |-> @[i] + used[i]]]
    /\ costPrice' = AverageCost(lot', costPrice)
    /\ itemCost' = [itemCost EXCEPT ![o] = costPrice']
    /\ shelf' = shelf - CopiesOf[o]
    /\ parcel' = [parcel EXCEPT ![o] = "away"]
    /\ UNCHANGED fifo

\* fulfill: what the lots do not know is costed at today's price, and the mean cost of
\* what left is stamped on the order's lines.
Ship(o) ==
    /\ parcel[o] = "here" /\ shelf >= CopiesOf[o]
    /\ LET n == CopiesOf[o]  used == Oldest(n)  unknown == n - SumOver(used) IN
         /\ lot' = Without(used)
         /\ taken' = [taken EXCEPT ![o] = [i \in Lots |-> @[i] + used[i]]]
         /\ costPrice' = AverageCost(lot', costPrice)
         /\ itemCost' = [itemCost EXCEPT ![o] =
                           RoundedShare(Worth(lot, used) + unknown * costPrice', n)]
         /\ shelf' = shelf - n
    /\ parcel' = [parcel EXCEPT ![o] = "away"]
    /\ UNCHANGED fifo

\* Variant: the consumption does not remember what was returned.
TakeBackForgetting(o) ==
    /\ parcel[o] = "away"
    /\ LET back == Spread(CopiesOf[o], Reverse(fifo), taken[o]) IN
         /\ CopiesOf[o] = SumOver(back)
         /\ lot' = [i \in Lots |-> [lot[i] EXCEPT !.left = IF @ + back[i] <= lot[i].in THEN @ + back[i] ELSE lot[i].in]]
         /\ UNCHANGED fifo
         /\ costPrice' = AverageCost(lot', costPrice)
    /\ shelf' = shelf + CopiesOf[o]
    /\ parcel' = [parcel EXCEPT ![o] = "here"]
    /\ UNCHANGED <<taken, itemCost>>

\* Variant: copies no consumption speaks of get no lot.
TakeBackKnown(o) ==
    /\ parcel[o] = "away"
    /\ LET back == Spread(CopiesOf[o], Reverse(fifo), taken[o]) IN
         /\ lot' = [i \in Lots |-> [lot[i] EXCEPT !.left = @ + back[i]]]
         /\ taken' = [taken EXCEPT ![o] = [i \in Lots |-> @[i] - back[i]]]
         /\ costPrice' = AverageCost(lot', costPrice)
    /\ shelf' = shelf + CopiesOf[o]
    /\ parcel' = [parcel EXCEPT ![o] = "here"]
    /\ UNCHANGED <<fifo, itemCost>>

\* restock: into the lots the order took from, never above what came in; the rest is
\* a lot of its own.
TakeBack(o) ==
    /\ parcel[o] = "away"
    /\ LET back == Spread(CopiesOf[o], Reverse(fifo), taken[o])
           rest == CopiesOf[o] - SumOver(back)
           refilled == [i \in Lots |->
                          [lot[i] EXCEPT !.left = IF @ + back[i] <= lot[i].in THEN @ + back[i] ELSE lot[i].in]]
       IN /\ taken' = [taken EXCEPT ![o] = [i \in Lots |-> @[i] - back[i]]]
          /\ IF rest = 0 THEN lot' = refilled /\ UNCHANGED fifo
             ELSE /\ Unused # {}
                  /\ lot' = WithLot(refilled, Min(Unused), rest, costPrice)
                  /\ fifo' = Append(fifo, Min(Unused))
          /\ costPrice' = AverageCost(lot', costPrice)
    /\ shelf' = shelf + CopiesOf[o]
    /\ parcel' = [parcel EXCEPT ![o] = "here"]
    /\ UNCHANGED <<itemCost>>

\* A product form saves the cost it was opened with, or the one typed into it.
EditCost(c) ==
    /\ c # costPrice
    /\ costPrice' = c
    /\ UNCHANGED <<shelf, lot, fifo, taken, parcel, itemCost>>

-----------------------------------------------------------------------------
NoLots == [i \in Lots |-> NoLot]

\* A shelf as old as the product, in one lot at its cost or in none, and orders shipped
\* from it before there were lots.
LotsInit ==
    /\ shelf = OldShelf
    /\ costPrice \in Costs
    /\ \/ lot = NoLots /\ fifo = <<>>
       \/ /\ OldShelf > 0
          /\ lot = WithLot(NoLots, Min(Lots), OldShelf, costPrice) /\ fifo = <<Min(Lots)>>
    /\ parcel \in [Parcels -> {"here", "away"}]
    /\ itemCost = [o \in Parcels |-> costPrice]
    /\ taken = [o \in Parcels |-> [i \in Lots |-> 0]]

LotsNext ==
    \/ \E n \in Receipts, c \in Costs : AddBatchOf(n, c)
    \/ \E n \in 0..(OldShelf + 1) : CountShelf(n)
    \/ \E o \in Parcels : Ship(o) \/ TakeBack(o)
    \/ \E c \in Costs : EditCost(c)

LotsSpec == LotsInit /\ [][LotsNext]_lotVars

-----------------------------------------------------------------------------
LotsTypeOK ==
    /\ shelf \in Nat /\ costPrice \in Nat
    /\ lot \in [Lots -> [in : Nat, left : Nat, cost : Nat]]
    /\ fifo \in Seq(Lots) /\ Range(fifo) = Lots \ Unused
    /\ taken \in [Parcels -> [Lots -> Nat]]
    /\ parcel \in [Parcels -> {"here", "away"}] /\ itemCost \in [Parcels -> Nat]

\* A lot never gets back more than left it: the LEAST that caps a returned lot
\* (inventory.service.ts:215) never has to act, whatever ships, is counted out, comes
\* back and ships again.
CopiesTraced ==
    \A i \in Lots : lot[i].left + SumOf([o \in Parcels |-> taken[o][i]], Parcels) <= lot[i].in

\* "Real (FIFO) cost of what left the shelf" (inventory.service.ts:228): an order's lines
\* carry the mean cost of the very copies it still has, also after a round trip.
StampedCostIsReal ==
    \A o \in Parcels :
        parcel[o] = "away" /\ SumOver(taken[o]) = CopiesOf[o] =>
            itemCost[o] = RoundedShare(Worth(lot, taken[o]), CopiesOf[o])

\* The shelf never falls behind its lots, and what it holds beyond them, a stock older
\* than the lots, only ever shrinks: a sale, a return or a count adds no copy without
\* a lot to cost it by (inventory.service.ts:193 calls it old data).
OldStockOnlyShrinks ==
    [][LeftIn(lot') <= shelf' /\ shelf' - LeftIn(lot') <= shelf - LeftIn(lot)]_lotVars

\* "Cost price shown everywhere = average cost of copies still on the shelf"
\* (inventory.service.ts:242).
AverageShown == costPrice = AverageCost(lot, costPrice)
=============================================================================
