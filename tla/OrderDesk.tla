----------------------------- MODULE OrderDesk -----------------------------
(***************************************************************************)
(* The order desk: order rows, the stock they hold, and the coupons they   *)
(* redeem, under concurrent requests.                                      *)
(*                                                                         *)
(* A session is one request (staff, shopper, gateway listener or sweeper)  *)
(* running one READ COMMITTED transaction.  It reads an order row without  *)
(* locking it, plans from that snapshot, and later writes with             *)
(* UPDATE ... WHERE version = $n; everything after that UPDATE commits     *)
(* with it.  So a transaction is two steps, read and write, and every      *)
(* other session may run between them.  A write that finds another version,*)
(* or whose stock statement is refused, rolls back.                        *)
(*                                                                         *)
(* Placement is SERIALIZABLE with retry and is one step.  Stock counts are *)
(* taken under the product's row lock and are one step each.               *)
(*                                                                         *)
(* Left to other modules: the customer's CRM figures (CustomerFigures).    *)
(* Abstracted: dates, prices, notes, audit rows; sold_count and FIFO lots; *)
(* the coupon's activity window.                                           *)
(***************************************************************************)
EXTENDS OrderStatus, OrderUnits

CONSTANTS
    Customers,
    Coupons,
    Sessions,          \* requests in flight at the same time
    NoCoupon,
    Method,            \* [Orders -> Methods]
    CustomerOf,        \* [Orders -> Customers]
    CouponOf,          \* [Orders -> Coupons \cup {NoCoupon}]
    Backorder,         \* products with allow_backorder
    Untracked,         \* products without track_inventory
    OpeningStock,      \* [Products -> Nat]
    UsageLimit,        \* [Coupons -> Nat \ {0}]
    PerCustomerLimit,  \* [Coupons -> Nat \ {0}]
    MaxVersion,        \* bound: versions an order row goes through
    MaxOnHand          \* bound: copies a count or a delivery leaves on the shelf

ASSUME OrderDataAssumption ==
    /\ Method \in [Orders -> Methods]
    /\ CustomerOf \in [Orders -> Customers]
    /\ NoCoupon \notin Coupons
    /\ CouponOf \in [Orders -> Coupons \cup {NoCoupon}]
ASSUME StockAssumption ==
    /\ Backorder \subseteq Products
    /\ Untracked \subseteq Products
    /\ OpeningStock \in [Products -> Nat]
ASSUME CouponAssumption ==
    /\ UsageLimit \in [Coupons -> Nat \ {0}]
    /\ PerCustomerLimit \in [Coupons -> Nat \ {0}]
ASSUME BoundsAssumption == MaxVersion \in Nat /\ MaxOnHand \in Nat

VARIABLES
    orders,      \* order rows
    onHand,      \* products.stock_on_hand
    reserved,    \* products.stock_reserved
    listed,      \* products with deleted_at IS NULL
    ledger,      \* sums over stock_movements; intake: the rows no order caused
    redemption,  \* coupon_redemptions row of each order
    usedCount,   \* coupons.used_count
    work         \* what each session has read and is about to write

stock   == <<onHand, reserved, ledger>>
coupons == <<redemption, usedCount>>
vars    == <<orders, stock, listed, coupons, work>>

-----------------------------------------------------------------------------
Row == [status : Status \cup {"UNPLACED"}, method : Methods, payment : Payments,
        held : BOOLEAN, shipped : BOOLEAN, version : Nat]

NoRow(o) == [status |-> "UNPLACED", method |-> Method[o], payment |-> "UNPAID",
             held |-> FALSE, shipped |-> FALSE, version |-> 0]

Idle == [pc |-> "idle"]
Work ==
    {Idle}
    \cup [pc : {"decided"}, order : Orders, actor : {"WEBHOOK", "SYSTEM"}]
    \cup [pc : {"planned"}, order : Orders, version : Nat, plan : Plan]
    \cup [pc : {"paying"}, order : Orders, version : Nat]
    \cup [pc : {"capturing"}, order : Orders, pending : BOOLEAN]

TypeOK ==
    /\ orders \in [Orders -> Row]
    /\ onHand \in [Products -> Nat]
    /\ reserved \in [Products -> Nat]
    /\ listed \subseteq Products
    /\ ledger \in [Products -> [onHand : Int, reserved : Int, intake : Int]]
    /\ redemption \in [Orders -> {"none", "active", "revoked"}]
    /\ usedCount \in [Coupons -> Nat]
    /\ work \in [Sessions -> Work]

Init ==
    /\ orders = [o \in Orders |-> NoRow(o)]
    /\ onHand = OpeningStock
    /\ reserved = [p \in Products |-> 0]
    /\ listed = Products
    /\ ledger = [p \in Products |-> [onHand |-> OpeningStock[p], reserved |-> 0, intake |-> OpeningStock[p]]]
    /\ redemption = [o \in Orders |-> "none"]
    /\ usedCount = [c \in Coupons |-> 0]
    /\ work = [s \in Sessions |-> Idle]

-----------------------------------------------------------------------------
(* Inventory.  One call moves every line of an order, or none.             *)

Clamp(n) == IF n < 0 THEN 0 ELSE n      \* GREATEST(n, 0)

OnHandDelta(e, q)   == CASE e = "FULFIL" -> -q [] e = "RESTOCK" -> q [] OTHER -> 0
ReservedDelta(e, q) == CASE e = "RESERVE" -> q [] e \in {"FULFIL", "RELEASE"} -> -q [] OTHER -> 0

\* The UPDATE's own WHERE clause finds the row.
RowMatches(e, p, q) ==
    /\ e = "RESERVE" => /\ p \in listed
                        /\ p \in Untracked \cup Backorder \/ onHand[p] - reserved[p] >= q
    /\ e = "FULFIL" => p \in Backorder \/ onHand[p] >= q

OnHandAfter(e, o, p)   == onHand[p] + OnHandDelta(e, Qty[o][p])
ReservedAfter(e, o, p) == Clamp(reserved[p] + ReservedDelta(e, Qty[o][p]))

\* The table's CHECK constraints, which every statement must pass.
ChecksPass(p, hand, held) ==
    /\ hand >= 0
    /\ held >= 0
    /\ p \in Backorder \/ held <= hand

StockPermits(e, o) ==
    \A p \in Lines(o) :
        /\ RowMatches(e, p, Qty[o][p])
        /\ e # "NONE" => ChecksPass(p, OnHandAfter(e, o, p), ReservedAfter(e, o, p))

MoveStock(e, o) ==
    /\ StockPermits(e, o)
    /\ onHand' = [p \in Products |-> OnHandAfter(e, o, p)]
    /\ reserved' = [p \in Products |-> IF p \in Lines(o) THEN ReservedAfter(e, o, p) ELSE reserved[p]]
    /\ ledger' = [p \in Products |->
                    [ledger[p] EXCEPT !.onHand = @ + OnHandDelta(e, Qty[o][p]),
                                      !.reserved = @ + ReservedDelta(e, Qty[o][p])]]
    /\ UNCHANGED listed

-----------------------------------------------------------------------------
(* Coupons.                                                                *)

Redeemed(c) == {o \in Orders : CouponOf[o] = c /\ redemption[o] = "active"}

CouponAvailable(o) ==
    LET c == CouponOf[o]
    IN  /\ usedCount[c] < UsageLimit[c]
        /\ Cardinality({x \in Redeemed(c) : CustomerOf[x] = CustomerOf[o]}) < PerCustomerLimit[c]

Redeem(o) ==
    /\ CouponAvailable(o)
    /\ redemption' = [redemption EXCEPT ![o] = "active"]
    /\ usedCount' = [usedCount EXCEPT ![CouponOf[o]] = @ + 1]

Revoke(o) ==
    IF redemption[o] = "active"
    THEN /\ redemption' = [redemption EXCEPT ![o] = "revoked"]
         /\ usedCount' = [usedCount EXCEPT ![CouponOf[o]] = Clamp(@ - 1)]
    ELSE UNCHANGED coupons

Restore(o) ==
    IF redemption[o] = "revoked"
    THEN /\ redemption' = [redemption EXCEPT ![o] = "active"]
         /\ usedCount' = [usedCount EXCEPT ![CouponOf[o]] = @ + 1]
    ELSE UNCHANGED coupons

\* Variant: reopening forgets the coupon.
CouponEffectWithoutRestore(o, plan) ==
    IF plan.to \in Terminal THEN Revoke(o) ELSE UNCHANGED coupons

CouponEffect(o, plan) ==
    CASE plan.to \in Terminal -> Revoke(o)
      [] plan.stock = "RESERVE" -> Restore(o)
      [] OTHER -> UNCHANGED coupons

-----------------------------------------------------------------------------
(* Placement.                                                              *)

Place(o) ==
    /\ orders[o].status = "UNPLACED"
    /\ orders' = [orders EXCEPT ![o] = [NoRow(o) EXCEPT !.status = "PENDING", !.held = TRUE]]
    /\ MoveStock("RESERVE", o)
    /\ IF CouponOf[o] = NoCoupon THEN UNCHANGED coupons ELSE Redeem(o)
    /\ UNCHANGED work

-----------------------------------------------------------------------------
(* Transitions: read and plan, then write.                                 *)

\* Variant: a cancelled order keeps its stock_reserved flag.
WrittenKeepingFlag(row, plan) ==
    [row EXCEPT !.status  = plan.to,
                !.payment = IF plan.markPaid THEN "PAID" ELSE @,
                !.held    = plan.stock = "RESERVE" \/ (@ /\ plan.stock # "FULFIL"),
                !.shipped = plan.stock = "FULFIL" \/ (@ /\ plan.stock # "RESERVE"),
                !.version = @ + 1]

\* Variant: the UPDATE forgets version = version + 1.
WrittenSameVersion(row, plan) ==
    [row EXCEPT !.status  = plan.to,
                !.payment = IF plan.markPaid THEN "PAID" ELSE @,
                !.held    = plan.stock = "RESERVE" \/ (@ /\ plan.stock # "FULFIL" /\ plan.to \notin Terminal),
                !.shipped = plan.stock = "FULFIL" \/ (@ /\ plan.stock # "RESERVE")]

\* The row after a plan is written over the snapshot it was made from.
Written(row, plan) ==
    [row EXCEPT !.status  = plan.to,
                !.payment = IF plan.markPaid THEN "PAID" ELSE @,
                !.held    = plan.stock = "RESERVE" \/ (@ /\ plan.stock # "FULFIL" /\ plan.to \notin Terminal),
                !.shipped = plan.stock = "FULFIL" \/ (@ /\ plan.stock # "RESERVE"),
                !.version = @ + 1]

Placed(o) == orders[o].status # "UNPLACED"
Free(s)   == work[s] = Idle
InBound(o) == orders[o].version < MaxVersion

StaffRequests == [to : Status, mode : {"advance"}, actor : {"STAFF"}, credit : {TRUE}]
                 \cup [to : {"CONFIRMED"}, mode : {"regress"}, actor : {"STAFF"}, credit : {FALSE}]
ShopperRequests == [to : {"CANCELLED"}, mode : {"advance"}, actor : {"CUSTOMER"}, credit : {FALSE}]
AutoCancel(actor) == [to |-> "CANCELLED", mode |-> "advance", actor |-> actor, credit |-> FALSE]
GatewayConfirm    == [to |-> "CONFIRMED", mode |-> "advance", actor |-> "WEBHOOK", credit |-> FALSE]

StartPlanned(s, o, plan) ==
    work' = [work EXCEPT ![s] = [pc |-> "planned", order |-> o, version |-> orders[o].version, plan |-> plan]]

\* transition / regress: a person asks for a move.
ReadTransition(s, o) ==
    /\ Free(s) /\ Placed(o) /\ InBound(o)
    /\ \E r \in StaffRequests \cup ShopperRequests :
         /\ TransitionAllowed(orders[o], r)
         /\ StartPlanned(s, o, TransitionPlan(orders[o], r))
    /\ UNCHANGED <<orders, stock, listed, coupons>>

ReadReopen(s, o) ==
    /\ Free(s) /\ Placed(o) /\ InBound(o)
    /\ \E to \in {"PENDING", "CONFIRMED"} :
         /\ ReopenAllowed(orders[o], to)
         /\ StartPlanned(s, o, ReopenPlan(to))
    /\ UNCHANGED <<orders, stock, listed, coupons>>

\* Variant: UPDATE ... WHERE id, without the version.
WritePlannedUnversioned(s) ==
    /\ work[s].pc = "planned"
    /\ LET o == work[s].order
           plan == work[s].plan
       IN  /\ orders' = [orders EXCEPT ![o] = Written(@, plan)]
           /\ MoveStock(plan.stock, o)
           /\ CouponEffect(o, plan)
    /\ work' = [work EXCEPT ![s] = Idle]

\* The versioned UPDATE and all that follows it in the same transaction.
WritePlanned(s) ==
    /\ work[s].pc = "planned"
    /\ LET o == work[s].order
           plan == work[s].plan
       IN  /\ orders[o].version = work[s].version
           /\ orders' = [orders EXCEPT ![o] = Written(@, plan)]
           /\ MoveStock(plan.stock, o)
           /\ CouponEffect(o, plan)
    /\ work' = [work EXCEPT ![s] = Idle]

\* order.version_conflict, stock.insufficient, stock.fulfil_failed or a CHECK
\* violation: the transaction leaves nothing behind.
RollBackPlanned(s) ==
    /\ work[s].pc = "planned"
    /\ \/ orders[work[s].order].version # work[s].version
       \/ ~StockPermits(work[s].plan.stock, work[s].order)
    /\ work' = [work EXCEPT ![s] = Idle]
    /\ UNCHANGED <<orders, stock, listed, coupons>>

-----------------------------------------------------------------------------
(* Money.                                                                  *)

\* The order row as recording its payment leaves it.
Paid(row) == [row EXCEPT !.payment = "PAID", !.version = @ + 1]

ReadMarkPaid(s, o) ==
    /\ Free(s) /\ Placed(o) /\ InBound(o)
    /\ orders[o].status \notin Terminal
    /\ orders[o].payment = "UNPAID"
    /\ work' = [work EXCEPT ![s] = [pc |-> "paying", order |-> o, version |-> orders[o].version]]
    /\ UNCHANGED <<orders, stock, listed, coupons>>

WriteMarkPaid(s) ==
    /\ work[s].pc = "paying"
    /\ LET o == work[s].order
       IN  IF orders[o].version = work[s].version
           THEN orders' = [orders EXCEPT ![o] = Paid(@)]
           ELSE UNCHANGED orders
    /\ work' = [work EXCEPT ![s] = Idle]
    /\ UNCHANGED <<stock, listed, coupons>>

\* payment.succeeded reaches onGatewaySuccess; an order already paid returns
\* early, which is no step.
ReadCapture(s, o) ==
    /\ Free(s) /\ Placed(o) /\ InBound(o)
    /\ orders[o].method = "SSLCOMMERZ"
    /\ orders[o].payment = "UNPAID"
    /\ work' = [work EXCEPT ![s] = [pc |-> "capturing", order |-> o, pending |-> orders[o].status = "PENDING"]]
    /\ UNCHANGED <<orders, stock, listed, coupons>>

\* The UPDATE here has no version condition.  Only a snapshot that was PENDING
\* goes on to confirm; the confirmation reads the row again and throws unless the
\* move is legal now, which undoes the payment too.  It moves no stock: PENDING
\* to CONFIRMED has no effect.
WriteCapture(s) ==
    /\ work[s].pc = "capturing"
    /\ LET o == work[s].order
           row == Paid(orders[o])
       IN  orders' = [orders EXCEPT ![o] =
                        IF ~work[s].pending THEN row
                        ELSE IF TransitionAllowed(row, GatewayConfirm)
                             THEN Written(row, TransitionPlan(row, GatewayConfirm))
                             ELSE @]
    /\ work' = [work EXCEPT ![s] = Idle]
    /\ UNCHANGED <<stock, listed, coupons>>

\* The failure listener and the sweeper pick an order that is unpaid now ...
DecideAutoCancel(s, o, actor) ==
    /\ Free(s) /\ InBound(o)
    /\ orders[o].method = "SSLCOMMERZ"
    /\ orders[o].status = "PENDING"
    /\ orders[o].payment = "UNPAID"
    /\ work' = [work EXCEPT ![s] = [pc |-> "decided", order |-> o, actor |-> actor]]
    /\ UNCHANGED <<orders, stock, listed, coupons>>

\* ... and cancel it from a second read that looks at its status only.
ReadAutoCancel(s) ==
    /\ work[s].pc = "decided"
    /\ LET o == work[s].order
           r == AutoCancel(work[s].actor)
       IN  IF TransitionAllowed(orders[o], r)
           THEN StartPlanned(s, o, TransitionPlan(orders[o], r))
           ELSE work' = [work EXCEPT ![s] = Idle]
    /\ UNCHANGED <<orders, stock, listed, coupons>>

-----------------------------------------------------------------------------
(* The stock room and the catalogue.                                       *)

Count(p, hand) ==
    /\ onHand' = [onHand EXCEPT ![p] = hand]
    /\ ledger' = [ledger EXCEPT ![p].onHand = @ + hand - onHand[p],
                                ![p].intake = @ + hand - onHand[p]]
    /\ UNCHANGED <<orders, reserved, listed, coupons, work>>

\* Variant: a count may be negative.
SetOnHandNegative(p) ==
    \E hand \in (-1)..MaxOnHand : p \in listed /\ hand # onHand[p] /\ Count(p, hand)

\* A manual count of a listed product, under FOR UPDATE.
SetOnHand(p) ==
    \E hand \in 0..MaxOnHand :
        /\ p \in listed
        /\ hand # onHand[p]
        /\ hand >= reserved[p]
        /\ Count(p, hand)

\* Goods received, from a purchase or by hand.
AddBatch(p) ==
    \E n \in 1..MaxOnHand :
        /\ onHand[p] + n <= MaxOnHand
        /\ Count(p, onHand[p] + n)

DeleteProduct(p) ==
    /\ p \in listed
    /\ listed' = listed \ {p}
    /\ UNCHANGED <<orders, stock, coupons, work>>

RestoreProduct(p) ==
    /\ p \notin listed
    /\ listed' = listed \cup {p}
    /\ UNCHANGED <<orders, stock, coupons, work>>

-----------------------------------------------------------------------------
SessionStep(s) ==
    \/ \E o \in Orders :
         \/ ReadTransition(s, o)
         \/ ReadReopen(s, o)
         \/ ReadMarkPaid(s, o)
         \/ ReadCapture(s, o)
         \/ \E actor \in {"WEBHOOK", "SYSTEM"} : DecideAutoCancel(s, o, actor)
    \/ ReadAutoCancel(s)
    \/ WritePlanned(s)
    \/ RollBackPlanned(s)
    \/ WriteMarkPaid(s)
    \/ WriteCapture(s)

StockRoomStep(p) ==
    SetOnHand(p) \/ AddBatch(p) \/ DeleteProduct(p) \/ RestoreProduct(p)

Next ==
    \/ \E o \in Orders : Place(o)
    \/ \E s \in Sessions : SessionStep(s)
    \/ \E p \in Products : StockRoomStep(p)

Spec == Init /\ [][Next]_vars

-----------------------------------------------------------------------------
(* What must hold.                                                         *)

Holding == {o \in Orders : orders[o].held}
Away    == {o \in Orders : orders[o].shipped /\ orders[o].status \notin Terminal}

\* stock_reserved is exactly what orders flagged stockReserved hold: no
\* interleaving of cancels, shipments and reopenings gives a hold back twice,
\* loses one, or lets GREATEST(..., 0) hide a mistake.
HoldsAccounted == \A p \in Products : reserved[p] = Units(Holding, p)

\* What the shelf lacks is what live shipped orders took: goods leave once per
\* shipment and come back once per cancellation or return.
ShelfAccounted == \A p \in Products : onHand[p] + Units(Away, p) = ledger[p].intake

\* products caches the sums of stock_movements (docs/database.md).
LedgerAgrees ==
    \A p \in Products : ledger[p].onHand = onHand[p] /\ ledger[p].reserved = reserved[p]

\* "An atomic, conditional UPDATE on products" and "an append-only stock_movements row"
\* (inventory.service.ts:19-20): counters, orders and movements tell one story.
StockAccounted == HoldsAccounted /\ ShelfAccounted /\ LedgerAgrees

\* The flags that decide a cancellation's stock effect never contradict the
\* stage of the order.
StageAgrees ==
    \A o \in Orders :
        /\ orders[o].held <=> orders[o].status \in {"PENDING", "CONFIRMED", "PROCESSING"}
        /\ o \in Away <=> orders[o].status \in ReturnableFrom

\* The move is one the planner would make from this row.
StillPlanned(row, plan) ==
    \/ \E mode \in {"advance", "regress"}, credit \in BOOLEAN :
         LET r == [to |-> plan.to, mode |-> mode, actor |-> plan.actor, credit |-> credit]
         IN  TransitionAllowed(row, r) /\ plan = TransitionPlan(row, r)
    \/ ReopenAllowed(row, plan.to) /\ plan = ReopenPlan(plan.to)

Fresh(w) ==
    w.pc # "idle" =>
        /\ Placed(w.order)
        /\ w.pc = "planned" =>
             /\ w.version <= orders[w.order].version
             /\ w.version = orders[w.order].version => StillPlanned(orders[w.order], w.plan)

\* Optimistic locking is sound: requests work on placed orders only, and a plan
\* whose version is still the row's is one the planner would make again from
\* the row as it is now, whatever other requests wrote in between.
PlansFresh == \A s \in Sessions : Fresh(work[s])

\* For a tracked product without backorder, the WHERE clause of a stock
\* statement is the whole admission rule: a row it matches never trips a CHECK
\* constraint and surfaces as a database error.
WhereClauseSuffices ==
    \A s \in Sessions :
        work[s].pc = "planned" /\ work[s].version = orders[work[s].order].version
        => \A p \in Lines(work[s].order) \ (Untracked \cup Backorder) :
             LET o == work[s].order
                 e == work[s].plan.stock
             IN  RowMatches(e, p, Qty[o][p])
                 => ChecksPass(p, OnHandAfter(e, o, p), ReservedAfter(e, o, p))

\* An online order is past PENDING only once paid, reopenings included, and
\* nothing stays delivered and unpaid.
PaidInTime ==
    \A o \in Orders :
        orders[o].payment = "UNPAID"
        => /\ orders[o].status # "DELIVERED"
           /\ orders[o].method = "SSLCOMMERZ" => orders[o].status \notin Open \ {"PENDING"}

\* used_count is the number of live redemptions, and a redemption is live
\* exactly while its order is.
CouponCounted ==
    /\ \A c \in Coupons : usedCount[c] = Cardinality(Redeemed(c))
    /\ \A o \in Orders :
         redemption[o] # "none" => (redemption[o] = "revoked" <=> orders[o].status \in Terminal)

\* A capture being recorded ends up recorded (order-payment.service.ts:54, "mark
\* paid and auto-confirm a pending order"): its write is not one that throws
\* because the order moved since it was read.
CaptureRecorded ==
    \A s \in Sessions :
        work[s].pc = "capturing" /\ work[s].pending
        => LET row == orders[work[s].order]
           IN  row.payment # "UNPAID" \/ TransitionAllowed(Paid(row), GatewayConfirm)

\* An automatic cancellation about to be written cancels an order that never
\* paid (order-payment.service.ts:86, "if it never paid").
AutoCancelSparesPaid ==
    \A s \in Sessions :
        /\ work[s].pc = "planned"
        /\ work[s].plan.actor \in {"WEBHOOK", "SYSTEM"} /\ work[s].plan.to = "CANCELLED"
        /\ work[s].version = orders[work[s].order].version
        => orders[work[s].order].payment = "UNPAID"

\* usage_limit bounds the redemptions in force (schema.prisma:1559, "total
\* redemptions").
UsageWithinLimit == \A c \in Coupons : usedCount[c] <= UsageLimit[c]

\* The picture at the head of order-status.ts, and reopening: forward moves may
\* skip, one step back from packing, cancel while open, return once shipped.
\* A write planned on a row that has moved since would leave the picture.
Edges ==
    {<<"UNPLACED", "PENDING">>, <<"PROCESSING", "CONFIRMED">>}
    \cup {e \in (Status \ Terminal) \X (Status \ Terminal) : Rank[e[1]] < Rank[e[2]]}
    \cup (Open \X {"CANCELLED"})
    \cup (ReturnableFrom \X {"RETURNED"})
    \cup (Terminal \X {"PENDING", "CONFIRMED"})
FollowsLifecycle ==
    [][\A o \in Orders : orders'[o].status = orders[o].status
                         \/ <<orders[o].status, orders'[o].status>> \in Edges]_vars

CopiesAt(row) ==
    IF row.held THEN "held" ELSE IF row.shipped /\ row.status \notin Terminal THEN "away" ELSE "free"

\* Every history of the desk is a history of the stock promise: where an order's
\* copies are is read off its flags, what the shop owns off shelf and shipments.
Promise == INSTANCE StockPromise WITH
    stage <- [o \in Orders |-> CopiesAt(orders[o])],
    owned <- [p \in Products |-> onHand[p] + Units(Away, p)]
ImplementsPromise == Promise!Spec
=============================================================================
