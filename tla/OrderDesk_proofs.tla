-------------------------- MODULE OrderDesk_proofs --------------------------
(***************************************************************************)
(* What the order desk keeps for every set of orders, products, sessions   *)
(* and quantities.  First the copies a set of orders takes, then types,    *)
(* then the inductive invariant that relates plans in flight, flags,       *)
(* counters and shelf.  On it stand the stock accounts: what is reserved   *)
(* is what orders hold, what the shelf lacks is what live shipped orders   *)
(* took, the caches agree with the ledger.  From these: the desk           *)
(* implements the stock promise, and keeps to the lifecycle and the coupon *)
(* count.                                                                  *)
(***************************************************************************)
EXTENDS OrderDesk, FiniteSetTheorems, TLAPS

-----------------------------------------------------------------------------
(* Copies: how many a set of orders takes when an order joins or leaves it. *)

\* An order's own copies of a product are as many as it asks for.
LEMMA OwnCopies ==
    ASSUME NEW o \in Orders, NEW p \in Products
    PROVE  /\ IsFiniteSet({o} \X (1..Qty[o][p]))
           /\ Cardinality({o} \X (1..Qty[o][p])) = Qty[o][p]
<1> DEFINE q == Qty[o][p]
<1>1. q \in Nat
      BY QtyAssumption
<1>2. IsFiniteSet(1..q) /\ Cardinality(1..q) = q
      <2> HIDE DEF q
      <2>1. 1 \in Int /\ q \in Int
            BY <1>1
      <2> QED BY <1>1, <2>1, FS_Interval
<1>3. IsFiniteSet({o}) /\ Cardinality({o}) = 1
      BY FS_Singleton
<1>4. IsFiniteSet({o} \X (1..q)) /\ Cardinality({o} \X (1..q)) = 1 * q
      <2> HIDE DEF q
      <2> QED BY <1>2, <1>3, FS_Product, ZenonT(40)
<1> QED BY <1>1, <1>4

\* Any set of orders takes finitely many copies, so Units is a number.
LEMMA UnitsType ==
    ASSUME NEW S, S \subseteq Orders, NEW p \in Products
    PROVE  IsFiniteSet(Copies(S, p)) /\ Units(S, p) \in Nat
<1> DEFINE T == {{o} \X (1..Qty[o][p]) : o \in S}
           f == [o \in S |-> {o} \X (1..Qty[o][p])]
<1>1. IsFiniteSet(S)
      BY OrdersAssumption, FS_Subset
<1>2. f \in Surjection(S, T)
      BY DEF Surjection
<1>3. IsFiniteSet(T)
      BY <1>1, <1>2, FS_Surjection
<1>4. \A c \in T : IsFiniteSet(c)
      BY OwnCopies
<1>5. IsFiniteSet(UNION T)
      BY <1>3, <1>4, FS_UNION
<1> QED BY <1>5, FS_CardinalityType DEF Copies, Units

\* No order, no copies.
LEMMA UnitsEmpty == ASSUME NEW p \in Products PROVE Units({}, p) = 0
<1>1. Copies({}, p) = {}
      BY DEF Copies
<1> QED BY <1>1, FS_EmptySet DEF Units

\* An order that joins adds exactly its own quantity.
LEMMA UnitsAdd ==
    ASSUME NEW S, S \subseteq Orders, NEW p \in Products, NEW o \in Orders, o \notin S
    PROVE  Units(S \cup {o}, p) = Units(S, p) + Qty[o][p]
<1> DEFINE A == Copies(S, p)
           B == {o} \X (1..Qty[o][p])
<1>1. Copies(S \cup {o}, p) = A \cup B
      BY DEF Copies
<1>2. A \cap B = {}
      <2> SUFFICES ASSUME NEW c \in A, c \in B PROVE FALSE
          OBVIOUS
      <2>1. PICK x \in S : c \in {x} \X (1..Qty[x][p])
            BY DEF Copies
      <2> QED BY <2>1
<1>3. IsFiniteSet(A) /\ IsFiniteSet(B) /\ Cardinality(B) = Qty[o][p]
      BY UnitsType, OwnCopies
<1>4. Cardinality(A \cup B) = Cardinality(A) + Cardinality(B) - Cardinality(A \cap B)
      <2> HIDE DEF A, B
      <2> QED BY <1>3, FS_Union
<1>5. Cardinality(A) \in Nat /\ Cardinality(A \cap B) = 0
      BY <1>2, <1>3, FS_CardinalityType, FS_EmptySet
<1>6. Qty[o][p] \in Nat
      BY QtyAssumption
<1>7. Cardinality(A \cup B) = Cardinality(A) + Qty[o][p]
      <2> HIDE DEF A, B
      <2> QED BY <1>3, <1>4, <1>5, <1>6
<1> QED BY <1>1, <1>7 DEF Units

\* An order that leaves takes exactly its own quantity with it.
LEMMA UnitsRemove ==
    ASSUME NEW S, S \subseteq Orders, NEW p \in Products, NEW o \in S
    PROVE  /\ Units(S \ {o}, p) = Units(S, p) - Qty[o][p]
           /\ Qty[o][p] <= Units(S, p)
<1> DEFINE R == S \ {o}
<1>1. /\ R \subseteq Orders /\ o \in Orders /\ o \notin R
      /\ R \cup {o} = S
      OBVIOUS
<1>2. Units(S, p) = Units(R, p) + Qty[o][p]
      <2> HIDE DEF R
      <2> QED BY <1>1, UnitsAdd
<1>3. Units(R, p) \in Nat /\ Units(S, p) \in Nat
      BY <1>1, UnitsType
<1>4. Qty[o][p] \in Nat
      BY <1>1, QtyAssumption
<1> QED BY <1>2, <1>3, <1>4

-----------------------------------------------------------------------------
(* Types.                                                                  *)

\* planTransition returns a plan.
LEMMA TransitionPlanType ==
    ASSUME NEW o \in Row, NEW r \in Request
    PROVE  TransitionPlan(o, r) \in Plan
BY DEF Row, Request, TransitionPlan, TransitionEffect, Plan, Effects

\* planReopen returns a plan.
LEMMA ReopenPlanType ==
    ASSUME NEW to \in {"PENDING", "CONFIRMED"}
    PROVE  ReopenPlan(to) \in Plan
BY DEF ReopenPlan, Plan, Effects, Actors, Status, Open

\* The fields a write may change, changed within their domains, leave a row.
LEMMA RowUpdateType ==
    ASSUME NEW row \in Row, NEW st \in Status, NEW pay \in Payments,
           NEW held \in BOOLEAN, NEW shipped \in BOOLEAN, NEW version \in Nat
    PROVE  [row EXCEPT !.status = st, !.payment = pay, !.held = held,
                       !.shipped = shipped, !.version = version] \in Row
BY DEF Row

\* The versioned UPDATE leaves a row.
LEMMA WrittenType ==
    ASSUME NEW row \in Row, NEW plan \in Plan
    PROVE  Written(row, plan) \in Row
<1> DEFINE st == plan.to
           pay == IF plan.markPaid THEN "PAID" ELSE row.payment
           held == plan.stock = "RESERVE" \/ (row.held /\ plan.stock # "FULFIL" /\ plan.to \notin Terminal)
           shipped == plan.stock = "FULFIL" \/ (row.shipped /\ plan.stock # "RESERVE")
           version == row.version + 1
<1>1. st \in Status /\ version \in Nat
      BY DEF Row, Plan
<1>2. pay \in Payments
      BY DEF Row, Plan, Payments
<1>3. held \in BOOLEAN /\ shipped \in BOOLEAN
      OBVIOUS
<1>4. Written(row, plan) = [row EXCEPT !.status = st, !.payment = pay, !.held = held,
                                       !.shipped = shipped, !.version = version]
      BY DEF Written
<1> HIDE DEF st, pay, held, shipped, version
<1>5. [row EXCEPT !.status = st, !.payment = pay, !.held = held,
                  !.shipped = shipped, !.version = version] \in Row
      BY <1>1, <1>2, <1>3, RowUpdateType
<1> QED BY <1>4, <1>5

\* Recording a payment leaves a row.
LEMMA PaidType == ASSUME NEW row \in Row PROVE Paid(row) \in Row
<1> DEFINE version == row.version + 1
<1>1. version \in Nat
      BY DEF Row
<1>2. Paid(row) = [row EXCEPT !.payment = "PAID", !.version = version]
      BY DEF Paid
<1> HIDE DEF version
<1> QED BY <1>1, <1>2 DEF Row, Payments

\* What people, the gateway and the sweeper ask for are requests.
LEMMA RequestTypes ==
    /\ StaffRequests \cup ShopperRequests \subseteq Request
    /\ GatewayConfirm \in Request
    /\ \A actor \in {"WEBHOOK", "SYSTEM"} : AutoCancel(actor) \in Request
BY DEF StaffRequests, ShopperRequests, GatewayConfirm, AutoCancel, Request, Status, Open, Terminal, Actors

\* What moving an order's units leaves in a product's counters.
LEMMA MoveStockType ==
    ASSUME TypeOK, NEW o \in Orders, NEW e \in Effects, MoveStock(e, o)
    PROVE  /\ onHand' \in [Products -> Nat]
           /\ reserved' \in [Products -> Nat]
           /\ ledger' \in [Products -> [onHand : Int, reserved : Int, intake : Int]]
           /\ listed' \subseteq Products
<1>1. \A p \in Products : /\ Qty[o][p] \in Nat
                          /\ OnHandDelta(e, Qty[o][p]) \in Int
                          /\ ReservedDelta(e, Qty[o][p]) \in Int
      BY QtyAssumption DEF OnHandDelta, ReservedDelta
<1>2. ASSUME NEW p \in Products
      PROVE  OnHandAfter(e, o, p) \in Nat /\ ReservedAfter(e, o, p) \in Nat
  <2>1. OnHandAfter(e, o, p) \in Int /\ ReservedAfter(e, o, p) \in Nat
        BY <1>1 DEF TypeOK, OnHandAfter, ReservedAfter, Clamp
  <2>2. CASE p \notin Lines(o) \/ e = "NONE"
    <3>1. OnHandDelta(e, Qty[o][p]) = 0
          BY <2>2, <1>1 DEF Lines, OnHandDelta
    <3> QED BY <2>1, <3>1 DEF OnHandAfter, TypeOK
  <2>3. CASE p \in Lines(o) /\ e # "NONE"
    <3>1. OnHandAfter(e, o, p) >= 0
          BY <2>3 DEF MoveStock, StockPermits, ChecksPass
    <3> QED BY <2>1, <3>1
  <2> QED BY <2>2, <2>3
<1>3. onHand' \in [Products -> Nat] /\ reserved' \in [Products -> Nat]
      BY <1>2 DEF MoveStock, TypeOK
<1>4. ledger' \in [Products -> [onHand : Int, reserved : Int, intake : Int]]
  <2>1. ASSUME NEW p \in Products
        PROVE  ledger'[p] \in [onHand : Int, reserved : Int, intake : Int]
    <3> DEFINE a == ledger[p].onHand + OnHandDelta(e, Qty[o][p])
               b == ledger[p].reserved + ReservedDelta(e, Qty[o][p])
    <3>1. ledger[p] \in [onHand : Int, reserved : Int, intake : Int] /\ a \in Int /\ b \in Int
          BY <1>1 DEF TypeOK
    <3>2. ledger'[p] = [ledger[p] EXCEPT !.onHand = a, !.reserved = b]
          BY DEF MoveStock
    <3> HIDE DEF a, b
    <3> QED BY <3>1, <3>2
  <2> QED BY <2>1 DEF MoveStock
<1> QED BY <1>3, <1>4 DEF MoveStock, TypeOK

\* Revoking and restoring a redemption leave rows and counts in their domains.
LEMMA CouponsType ==
    ASSUME TypeOK, NEW o \in Orders, NEW plan \in Plan,
           CouponEffect(o, plan) \/ (CouponOf[o] # NoCoupon /\ Redeem(o)) \/ UNCHANGED coupons
    PROVE  /\ redemption' \in [Orders -> {"none", "active", "revoked"}]
           /\ usedCount' \in [Coupons -> Nat]
BY DEF TypeOK, CouponEffect, Redeem, Revoke, Restore, Clamp, coupons

\* A session's next piece of work is well typed.
LEMMA StartPlannedType ==
    ASSUME TypeOK, NEW s \in Sessions, NEW o \in Orders, NEW plan \in Plan, StartPlanned(s, o, plan)
    PROVE  work' \in [Sessions -> Work]
<1>1. orders[o].version \in Nat
      BY DEF TypeOK, Row
<1> QED BY <1>1 DEF StartPlanned, TypeOK, Work

\* A session about to write carries an order, a version and a plan.
LEMMA PlannedType ==
    ASSUME TypeOK, NEW s \in Sessions, work[s].pc = "planned"
    PROVE  work[s].order \in Orders /\ work[s].plan \in Plan /\ work[s].version \in Nat
BY DEF TypeOK, Work, Idle

\* A session that is done leaves the work well typed.
LEMMA IdleType ==
    ASSUME TypeOK, NEW s \in Sessions, work' = [work EXCEPT ![s] = Idle]
    PROVE  work' \in [Sessions -> Work]
BY DEF TypeOK, Work

\* Placement keeps the types.
LEMMA PlaceType == TypeOK /\ (\E o \in Orders : Place(o)) => TypeOK'
<1> SUFFICES ASSUME TypeOK, NEW o \in Orders, Place(o) PROVE TypeOK'
    OBVIOUS
<1>1. orders' \in [Orders -> Row]
  <2>1. Method[o] \in Methods
        BY OrderDataAssumption
  <2>2. [NoRow(o) EXCEPT !.status = "PENDING", !.held = TRUE] \in Row
        BY <2>1 DEF NoRow, Row, Status, Open, Payments
  <2> QED BY <2>2 DEF Place, TypeOK
<1>2. /\ onHand' \in [Products -> Nat]
      /\ reserved' \in [Products -> Nat]
      /\ ledger' \in [Products -> [onHand : Int, reserved : Int, intake : Int]]
      /\ listed' \subseteq Products
      BY MoveStockType DEF Place, Effects
<1>3. ReopenPlan("PENDING") \in Plan
      BY ReopenPlanType
<1>4. redemption' \in [Orders -> {"none", "active", "revoked"}] /\ usedCount' \in [Coupons -> Nat]
      BY <1>3, CouponsType DEF Place
<1> QED BY <1>1, <1>2, <1>4 DEF Place, TypeOK

\* A step of a request keeps the types.
LEMMA SessionType == TypeOK /\ (\E s \in Sessions : SessionStep(s)) => TypeOK'
<1> SUFFICES ASSUME TypeOK, NEW s \in Sessions, SessionStep(s) PROVE TypeOK'
    OBVIOUS
<1> USE DEF stock, coupons
<1>1. ASSUME NEW o \in Orders, ReadTransition(s, o) PROVE TypeOK'
  <2>1. PICK r \in Request : StartPlanned(s, o, TransitionPlan(orders[o], r))
        BY <1>1, RequestTypes DEF ReadTransition
  <2>2. TransitionPlan(orders[o], r) \in Plan
        BY TransitionPlanType DEF TypeOK
  <2>3. work' \in [Sessions -> Work]
        BY <2>1, <2>2, StartPlannedType
  <2> QED BY <1>1, <2>3 DEF ReadTransition, TypeOK
<1>2. ASSUME NEW o \in Orders, ReadReopen(s, o) PROVE TypeOK'
  <2>1. PICK to \in {"PENDING", "CONFIRMED"} : StartPlanned(s, o, ReopenPlan(to))
        BY <1>2 DEF ReadReopen
  <2>2. work' \in [Sessions -> Work]
        BY <2>1, ReopenPlanType, StartPlannedType
  <2> QED BY <1>2, <2>2 DEF ReadReopen, TypeOK
<1>3. ASSUME NEW o \in Orders, ReadMarkPaid(s, o) PROVE TypeOK'
  <2>1. work' \in [Sessions -> Work]
        BY <1>3 DEF ReadMarkPaid, TypeOK, Row, Work
  <2> QED BY <1>3, <2>1 DEF ReadMarkPaid, TypeOK
<1>4. ASSUME NEW o \in Orders, ReadCapture(s, o) PROVE TypeOK'
  <2>1. work' \in [Sessions -> Work]
        BY <1>4 DEF ReadCapture, TypeOK, Work
  <2> QED BY <1>4, <2>1 DEF ReadCapture, TypeOK
<1>5. ASSUME NEW o \in Orders, NEW actor \in {"WEBHOOK", "SYSTEM"}, DecideAutoCancel(s, o, actor) PROVE TypeOK'
  <2>1. work' \in [Sessions -> Work]
        BY <1>5 DEF DecideAutoCancel, TypeOK, Work
  <2> QED BY <1>5, <2>1 DEF DecideAutoCancel, TypeOK
<1>6. ASSUME ReadAutoCancel(s) PROVE TypeOK'
  <2>1. work[s].order \in Orders /\ work[s].actor \in {"WEBHOOK", "SYSTEM"}
        BY <1>6 DEF ReadAutoCancel, TypeOK, Work, Idle
  <2>2. TransitionPlan(orders[work[s].order], AutoCancel(work[s].actor)) \in Plan
        BY <2>1, RequestTypes, TransitionPlanType DEF TypeOK
  <2>3. work' \in [Sessions -> Work]
        BY <1>6, <2>1, <2>2, StartPlannedType, IdleType DEF ReadAutoCancel
  <2> QED BY <1>6, <2>3 DEF ReadAutoCancel, TypeOK
<1>7. ASSUME WritePlanned(s) PROVE TypeOK'
  <2> DEFINE o == work[s].order
             plan == work[s].plan
  <2>1. o \in Orders /\ plan \in Plan /\ plan.stock \in Effects
        BY <1>7, PlannedType DEF WritePlanned, Plan
  <2>2. Written(orders[o], plan) \in Row
        BY <2>1, WrittenType DEF TypeOK
  <2>3. /\ orders' = [orders EXCEPT ![o] = Written(orders[o], plan)]
        /\ MoveStock(plan.stock, o)
        /\ CouponEffect(o, plan)
        /\ work' = [work EXCEPT ![s] = Idle]
        BY <1>7 DEF WritePlanned
  <2> HIDE DEF o, plan
  <2>4. orders' \in [Orders -> Row]
        BY <2>1, <2>2, <2>3 DEF TypeOK
  <2> QED BY <2>1, <2>3, <2>4, MoveStockType, CouponsType, IdleType DEF TypeOK
<1>8. ASSUME RollBackPlanned(s) PROVE TypeOK'
  <2> QED BY <1>8, IdleType DEF RollBackPlanned, TypeOK
<1>9. ASSUME WriteMarkPaid(s) PROVE TypeOK'
  <2>1. work[s].order \in Orders
        BY <1>9 DEF WriteMarkPaid, TypeOK, Work, Idle
  <2>2. orders' \in [Orders -> Row]
    <3> DEFINE o == work[s].order
    <3>1. Paid(orders[o]) \in Row
          BY <2>1, PaidType DEF TypeOK
    <3>2. \/ orders' = [orders EXCEPT ![o] = Paid(orders[o])]
          \/ orders' = orders
          BY <1>9 DEF WriteMarkPaid
    <3> HIDE DEF o
    <3> QED BY <3>1, <3>2 DEF TypeOK
  <2> QED BY <1>9, <2>2, IdleType DEF WriteMarkPaid, TypeOK
<1>10. ASSUME WriteCapture(s) PROVE TypeOK'
  <2> DEFINE o == work[s].order
             row == Paid(orders[o])
             plan == TransitionPlan(row, GatewayConfirm)
  <2>1. o \in Orders
        BY <1>10 DEF WriteCapture, TypeOK, Work, Idle
  <2>2. row \in Row
        BY <2>1, PaidType DEF TypeOK
  <2>3. plan \in Plan
        BY <2>2, RequestTypes, TransitionPlanType
  <2>4. Written(row, plan) \in Row
        BY <2>2, <2>3, WrittenType
  <2>5. \/ orders' = [orders EXCEPT ![o] = row]
        \/ orders' = [orders EXCEPT ![o] = Written(row, plan)]
        \/ orders' = [orders EXCEPT ![o] = orders[o]]
        BY <1>10 DEF WriteCapture
  <2>6. orders' \in [Orders -> Row]
    <3> HIDE DEF o, row, plan
    <3> QED BY <2>1, <2>2, <2>4, <2>5 DEF TypeOK
  <2> QED BY <1>10, <2>6, IdleType DEF WriteCapture, TypeOK
<1> QED BY <1>1, <1>2, <1>3, <1>4, <1>5, <1>6, <1>7, <1>8, <1>9, <1>10 DEF SessionStep

\* The stock room and the catalogue keep the types.
LEMMA StockRoomType == TypeOK /\ (\E p \in Products : StockRoomStep(p)) => TypeOK'
<1> SUFFICES ASSUME TypeOK, NEW p \in Products, StockRoomStep(p) PROVE TypeOK'
    OBVIOUS
<1> USE DEF stock, coupons
<1>1. ASSUME NEW hand \in Nat, Count(p, hand) PROVE TypeOK'
  <2> DEFINE a == ledger[p].onHand + hand - onHand[p]
             b == ledger[p].intake + hand - onHand[p]
  <2>1. ledger[p] \in [onHand : Int, reserved : Int, intake : Int] /\ a \in Int /\ b \in Int
        BY DEF TypeOK
  <2>2. ledger' = [ledger EXCEPT ![p] = [ledger[p] EXCEPT !.onHand = a, !.intake = b]]
        BY <1>1 DEF Count
  <2>3. ledger' \in [Products -> [onHand : Int, reserved : Int, intake : Int]]
    <3> HIDE DEF a, b
    <3> QED BY <2>1, <2>2 DEF TypeOK
  <2> QED BY <1>1, <2>3 DEF Count, TypeOK
<1>2. CASE SetOnHand(p)
      BY <1>1, <1>2, BoundsAssumption DEF SetOnHand
<1>3. CASE AddBatch(p)
  <2>1. onHand[p] \in Nat
        BY DEF TypeOK
  <2> QED BY <1>1, <1>3, <2>1, BoundsAssumption DEF AddBatch
<1>4. CASE DeleteProduct(p)
      BY <1>4 DEF DeleteProduct, TypeOK
<1>5. CASE RestoreProduct(p)
      BY <1>5 DEF RestoreProduct, TypeOK
<1> QED BY <1>2, <1>3, <1>4, <1>5 DEF StockRoomStep

\* The shop opens with rows, counters and ledger of their types.
LEMMA TypeInit == Init => TypeOK
<1> SUFFICES ASSUME Init PROVE TypeOK
    OBVIOUS
<1>1. \A o \in Orders : NoRow(o) \in Row
      BY OrderDataAssumption DEF NoRow, Row, Payments
<1> QED BY <1>1, StockAssumption DEF Init, TypeOK, Work

\* Every reachable state is well typed: no counter goes negative, and no row,
\* ledger entry or unit of work leaves its domain.
THEOREM TypeCorrect == Spec => []TypeOK
<1>1. TypeOK /\ [Next]_vars => TypeOK'
  <2> SUFFICES ASSUME TypeOK, [Next]_vars PROVE TypeOK'
      OBVIOUS
  <2>1. CASE UNCHANGED vars
        BY <2>1 DEF vars, stock, coupons, TypeOK
  <2> QED BY <2>1, PlaceType, SessionType, StockRoomType DEF Next
<1> QED BY <1>1, TypeInit, PTL DEF Spec

-----------------------------------------------------------------------------
(* Rows: what StageAgrees and PaidInTime say of one order, and that every  *)
(* write keeps it, given that the plan written is one the planner would    *)
(* make from the row it is written over.                                   *)

SoundRow(row) ==
    /\ row.held <=> row.status \in {"PENDING", "CONFIRMED", "PROCESSING"}
    /\ (row.shipped /\ row.status \notin Terminal) <=> row.status \in ReturnableFrom
    /\ row.payment = "UNPAID"
       => /\ row.status # "DELIVERED"
          /\ row.method = "SSLCOMMERZ" => row.status \notin Open \ {"PENDING"}

SoundRows == \A o \in Orders : SoundRow(orders[o])

\* Sound rows are the two properties the runs check.
LEMMA SoundRowsMeaning == SoundRows <=> StageAgrees /\ PaidInTime
BY DEF SoundRows, SoundRow, StageAgrees, PaidInTime, Away

\* What the versioned UPDATE leaves in each field.
LEMMA WrittenFields ==
    ASSUME NEW row \in Row, NEW plan
    PROVE  /\ Written(row, plan).status = plan.to
           /\ Written(row, plan).version = row.version + 1
           /\ Written(row, plan).method = row.method
           /\ Written(row, plan).payment = IF plan.markPaid THEN "PAID" ELSE row.payment
           /\ Written(row, plan).held <=>
                \/ plan.stock = "RESERVE"
                \/ plan.stock # "FULFIL" /\ plan.to \notin Terminal /\ row.held
           /\ Written(row, plan).shipped <=>
                \/ plan.stock = "FULFIL"
                \/ plan.stock # "RESERVE" /\ row.shipped
<1> DEFINE w == Written(row, plan)
<1>1. /\ w.status = plan.to /\ w.version = row.version + 1 /\ w.method = row.method
      /\ w.payment = IF plan.markPaid THEN "PAID" ELSE row.payment
      BY DEF Written, Row
<1>2. w.held = (plan.stock = "RESERVE" \/ (row.held /\ plan.stock # "FULFIL" /\ plan.to \notin Terminal))
      BY DEF Written, Row
<1>3. w.shipped = (plan.stock = "FULFIL" \/ (row.shipped /\ plan.stock # "RESERVE"))
      BY DEF Written, Row
<1> HIDE DEF w
<1>4. w.held <=> \/ plan.stock = "RESERVE"
                 \/ plan.stock # "FULFIL" /\ plan.to \notin Terminal /\ row.held
      BY <1>2
<1>5. w.shipped <=> plan.stock = "FULFIL" \/ (plan.stock # "RESERVE" /\ row.shipped)
      BY <1>3
<1> QED BY <1>1, <1>4, <1>5 DEF w

\* The plan of a legal move, written over the row it was made from.
LEMMA TransitionSound ==
    ASSUME NEW row \in Row, row.status # "UNPLACED", SoundRow(row),
           NEW r \in Request, TransitionAllowed(row, r)
    PROVE  LET plan == TransitionPlan(row, r)
           IN  /\ SoundRow(Written(row, plan))
               /\ Written(row, plan).version = row.version + 1
               /\ Written(row, plan).status = plan.to
<1> DEFINE plan == TransitionPlan(row, r)
           w == Written(row, plan)
<1> USE DEF Open, Terminal, ReturnableFrom
<1>1. row.status \in Open \cup {"DELIVERED"}
      BY DEF Row, TransitionAllowed, Status
<1>2. /\ plan.to = r.to
      /\ plan.markPaid <=> r.to = "DELIVERED" /\ row.payment = "UNPAID"
      BY DEF TransitionPlan
<1>3. /\ w.status = r.to /\ w.version = row.version + 1 /\ w.method = row.method
      /\ w.payment = IF plan.markPaid THEN "PAID" ELSE row.payment
      /\ w.held <=> \/ plan.stock = "RESERVE"
                    \/ plan.stock # "FULFIL" /\ r.to \notin Terminal /\ row.held
      /\ w.shipped <=> plan.stock = "FULFIL" \/ (plan.stock # "RESERVE" /\ row.shipped)
      BY <1>2, WrittenFields
<1>4. SoundRow(w)
  <2>1. CASE RegressAllowed(row, r)
    <3>1. row.status = "PROCESSING" /\ r.to = "CONFIRMED" /\ plan.stock = "NONE"
          BY <2>1, <1>1 DEF RegressAllowed, RegressTarget, TransitionPlan, TransitionEffect
    <3> HIDE DEF w, plan
    <3> QED BY <1>2, <1>3, <3>1 DEF SoundRow
  <2>2. CASE VoidAllowed(row, r)
    <3>1. r.to \in Terminal /\ plan.stock # "RESERVE"
          BY <2>2 DEF VoidAllowed, TransitionPlan, TransitionEffect
    <3> HIDE DEF w, plan
    <3> QED BY <1>2, <1>3, <3>1 DEF SoundRow
  <2>3. CASE ForwardAllowed(row, r)
    <3>1. /\ r.to \in {"CONFIRMED", "PROCESSING", "HANDED_TO_COURIER", "OUT_FOR_DELIVERY", "DELIVERED"}
          /\ Rank[r.to] >= Rank[row.status]
          /\ row.status # r.to
          BY <1>1, <2>3 DEF ForwardAllowed, TransitionAllowed, Request, Status, Rank
    <3>2. plan.stock = IF IsShippedStage(r.to) /\ ~row.shipped THEN "FULFIL" ELSE "NONE"
          BY <2>3 DEF ForwardAllowed, TransitionPlan, TransitionEffect
    <3>3. row.payment = "UNPAID" /\ row.method = "SSLCOMMERZ" => FALSE
          BY <1>1, <2>3 DEF ForwardAllowed, AwaitingPayment, SoundRow
    <3>4. CASE IsShippedStage(r.to)
      <4>1. r.to \in ReturnableFrom
            BY <3>1, <3>4 DEF IsShippedStage, Rank
      <4>2. ~row.shipped => plan.stock = "FULFIL"
            BY <3>2, <3>4
      <4>3. row.shipped => plan.stock = "NONE" /\ row.status \in ReturnableFrom
            BY <1>1, <3>2 DEF SoundRow
      <4> HIDE DEF w, plan
      <4> QED BY <1>1, <1>2, <1>3, <3>3, <4>1, <4>2, <4>3 DEF SoundRow
    <3>5. CASE ~IsShippedStage(r.to)
      <4>1. r.to \in {"CONFIRMED", "PROCESSING"} /\ row.status \in {"PENDING", "CONFIRMED", "PROCESSING"}
            BY <1>1, <3>1, <3>5 DEF IsShippedStage, Rank
      <4>2. plan.stock = "NONE"
            BY <3>2, <3>5
      <4> HIDE DEF w, plan
      <4> QED BY <1>1, <1>2, <1>3, <3>3, <4>1, <4>2 DEF SoundRow
    <3> QED BY <3>4, <3>5
  <2> QED BY <2>1, <2>2, <2>3 DEF TransitionAllowed
<1> QED BY <1>2, <1>3, <1>4 DEF TransitionPlan

\* The plan of a legal reopening.
LEMMA ReopenSound ==
    ASSUME NEW row \in Row, SoundRow(row), NEW to, ReopenAllowed(row, to)
    PROVE  LET plan == ReopenPlan(to)
           IN  /\ SoundRow(Written(row, plan))
               /\ Written(row, plan).version = row.version + 1
               /\ Written(row, plan).status = to
<1> DEFINE plan == ReopenPlan(to)
           w == Written(row, plan)
<1>0. plan.to = to /\ plan.stock = "RESERVE" /\ plan.markPaid = FALSE
      BY DEF ReopenPlan
<1> HIDE DEF plan
<1>1. /\ w.status = to /\ w.version = row.version + 1 /\ w.method = row.method
      /\ w.payment = row.payment /\ w.held /\ ~w.shipped
      BY <1>0, WrittenFields
<1>2. to \in {"PENDING", "CONFIRMED"} /\ (to = "CONFIRMED" => ~AwaitingPayment(row))
      BY DEF ReopenAllowed
<1> HIDE DEF w
<1>3. SoundRow(w)
      BY <1>1, <1>2 DEF SoundRow, AwaitingPayment, ReturnableFrom, Open, Terminal
<1> QED BY <1>1, <1>3 DEF w, plan

-----------------------------------------------------------------------------
(* Plans in flight.                                                        *)

\* A session takes up fresh work; no row changes.
LEMMA FreshStart ==
    ASSUME TypeOK, PlansFresh, NEW s \in Sessions, NEW w, Fresh(w),
           work' = [work EXCEPT ![s] = w], UNCHANGED orders
    PROVE  PlansFresh'
BY DEF PlansFresh, Fresh, TypeOK, Placed

\* A session that is done has no plan that could be stale.
LEMMA IdleFresh == Fresh(Idle)
BY DEF Fresh, Idle

\* A session is done, and its write has raised the version of the row it
\* changed: every other plan for that row is stale and will be refused.
LEMMA FreshWrite ==
    ASSUME TypeOK, PlansFresh, NEW s \in Sessions, NEW o \in Orders, NEW row \in Row,
           orders' = [orders EXCEPT ![o] = row],
           row = orders[o] \/ (row.version > orders[o].version /\ row.status # "UNPLACED"),
           work' = [work EXCEPT ![s] = Idle]
    PROVE  PlansFresh'
<1> SUFFICES ASSUME NEW t \in Sessions PROVE Fresh(work[t])'
    BY DEF PlansFresh
<1>1. CASE t = s
  <2>1. work'[t] = Idle
        BY <1>1 DEF TypeOK
  <2> QED BY <2>1 DEF Fresh, Idle
<1>2. CASE t # s
  <2>1. work'[t] = work[t] /\ Fresh(work[t])
        BY <1>2 DEF TypeOK, PlansFresh
  <2>2. CASE row = orders[o] \/ work[t].order # o \/ work[t].pc = "idle"
    <3>1. work[t].pc = "idle" \/ orders'[work[t].order] = orders[work[t].order]
          BY <2>2 DEF TypeOK
    <3> QED BY <2>1, <3>1 DEF Fresh, Placed
  <2>3. CASE row # orders[o] /\ work[t].order = o /\ work[t].pc # "idle"
    <3>1. orders'[o] = row /\ row.version \in Nat /\ orders[o].version \in Nat
          BY DEF TypeOK, Row
    <3>2. work[t].pc = "planned" => work[t].version \in Nat /\ work[t].version <= orders[o].version
          BY <2>1, <2>3, PlannedType DEF Fresh
    <3> QED BY <2>1, <2>3, <3>1, <3>2 DEF Fresh, Placed
  <2> QED BY <2>2, <2>3
<1> QED BY <1>1, <1>2

\* What a plan that is still the row's says about the write.
LEMMA StillPlannedSound ==
    ASSUME NEW row \in Row, row.status # "UNPLACED", SoundRow(row),
           NEW plan \in Plan, StillPlanned(row, plan)
    PROVE  /\ SoundRow(Written(row, plan))
           /\ Written(row, plan).version = row.version + 1
           /\ Written(row, plan).status = plan.to
<1>1. ASSUME NEW mode \in {"advance", "regress"}, NEW credit \in BOOLEAN, NEW r,
             r = [to |-> plan.to, mode |-> mode, actor |-> plan.actor, credit |-> credit],
             TransitionAllowed(row, r), plan = TransitionPlan(row, r)
      PROVE  /\ SoundRow(Written(row, plan))
             /\ Written(row, plan).version = row.version + 1
             /\ Written(row, plan).status = plan.to
  <2>1. r \in Request
        BY <1>1 DEF Request, Plan
  <2> QED BY <1>1, <2>1, TransitionSound
<1>2. ASSUME ReopenAllowed(row, plan.to), plan = ReopenPlan(plan.to)
      PROVE  /\ SoundRow(Written(row, plan))
             /\ Written(row, plan).version = row.version + 1
             /\ Written(row, plan).status = plan.to
      BY <1>2, ReopenSound
<1> QED BY <1>1, <1>2 DEF StillPlanned

\* A plan just made is the planner's.
LEMMA JustPlanned ==
    ASSUME NEW row, NEW r \in Request, TransitionAllowed(row, r)
    PROVE  StillPlanned(row, TransitionPlan(row, r))
<1> DEFINE plan == TransitionPlan(row, r)
<1>1. plan.to = r.to /\ plan.actor = r.actor
      BY DEF TransitionPlan
<1>2. /\ r = [to |-> plan.to, mode |-> r.mode, actor |-> plan.actor, credit |-> r.credit]
      /\ r.mode \in {"advance", "regress"} /\ r.credit \in BOOLEAN
      BY <1>1 DEF Request
<1> HIDE DEF plan
<1> QED BY <1>2 DEF StillPlanned, plan

\* A reopening just planned is the planner's.
LEMMA JustReopened ==
    ASSUME NEW row, NEW to, ReopenAllowed(row, to)
    PROVE  StillPlanned(row, ReopenPlan(to))
BY DEF StillPlanned, ReopenPlan

\* A plan made from the row as it is now is fresh; the other sessions' stay so.
LEMMA StartPlannedFresh ==
    ASSUME TypeOK, PlansFresh, NEW s \in Sessions, NEW o \in Orders, Placed(o),
           NEW plan, StillPlanned(orders[o], plan), StartPlanned(s, o, plan), UNCHANGED orders
    PROVE  PlansFresh'
<1> DEFINE w == [pc |-> "planned", order |-> o, version |-> orders[o].version, plan |-> plan]
<1>1. orders[o].version <= orders[o].version
      BY DEF TypeOK, Row
<1>2. Fresh(w)
      BY <1>1 DEF Fresh
<1>3. work' = [work EXCEPT ![s] = w]
      BY DEF StartPlanned
<1> QED BY <1>2, <1>3, FreshStart

-----------------------------------------------------------------------------
(* Rows and plans together: one step per action.                           *)

Control == PlansFresh /\ SoundRows

\* One session writes one sound row and is done.
LEMMA ControlWrite ==
    ASSUME TypeOK, Control, NEW s \in Sessions, NEW o \in Orders, NEW row \in Row,
           orders' = [orders EXCEPT ![o] = row], SoundRow(row),
           row = orders[o] \/ (row.version > orders[o].version /\ row.status # "UNPLACED"),
           work' = [work EXCEPT ![s] = Idle]
    PROVE  Control'
<1>1. PlansFresh'
      BY FreshWrite DEF Control
<1>2. SoundRows'
      BY DEF SoundRows, Control, TypeOK
<1> QED BY <1>1, <1>2 DEF Control

\* Rows nobody writes stay sound.
LEMMA SameRowsSound == SoundRows /\ UNCHANGED orders => SoundRows'
BY DEF SoundRows

\* Recording a payment keeps a row sound.
LEMMA PaidSound ==
    ASSUME NEW row \in Row, SoundRow(row)
    PROVE  /\ SoundRow(Paid(row)) /\ Paid(row).version = row.version + 1
           /\ Paid(row).status = row.status /\ Paid(row).payment = "PAID"
           /\ Paid(row).held = row.held /\ Paid(row).shipped = row.shipped
BY DEF SoundRow, Paid, Row

\* A step of a request keeps every plan fresh and every row sound.
LEMMA ControlSession ==
    ASSUME TypeOK, Control, NEW s \in Sessions, SessionStep(s)
    PROVE  Control'
<1> USE DEF stock, coupons
<1>0. \A o \in Orders : orders[o] \in Row /\ orders[o].version \in Nat /\ SoundRow(orders[o])
      BY DEF TypeOK, Row, Control, SoundRows
<1>1. ASSUME NEW o \in Orders, ReadTransition(s, o) PROVE Control'
  <2>1. PICK r \in Request : /\ TransitionAllowed(orders[o], r)
                             /\ StartPlanned(s, o, TransitionPlan(orders[o], r))
        BY <1>1, RequestTypes DEF ReadTransition
  <2>2. PlansFresh'
        BY <1>1, <2>1, JustPlanned, StartPlannedFresh DEF ReadTransition, Control
  <2> QED BY <1>1, <2>2, SameRowsSound DEF ReadTransition, Control
<1>2. ASSUME NEW o \in Orders, ReadReopen(s, o) PROVE Control'
  <2>1. PICK to \in {"PENDING", "CONFIRMED"} : /\ ReopenAllowed(orders[o], to)
                                               /\ StartPlanned(s, o, ReopenPlan(to))
        BY <1>2 DEF ReadReopen
  <2>2. PlansFresh'
        BY <1>2, <2>1, JustReopened, StartPlannedFresh DEF ReadReopen, Control
  <2> QED BY <1>2, <2>2, SameRowsSound DEF ReadReopen, Control
<1>3. ASSUME NEW o \in Orders, ReadMarkPaid(s, o) PROVE Control'
  <2>1. Fresh([pc |-> "paying", order |-> o, version |-> orders[o].version])
        BY <1>3 DEF ReadMarkPaid, Fresh
  <2>2. PlansFresh'
        BY <1>3, <2>1, FreshStart DEF ReadMarkPaid, Control
  <2> QED BY <1>3, <2>2, SameRowsSound DEF ReadMarkPaid, Control
<1>4. ASSUME NEW o \in Orders, ReadCapture(s, o) PROVE Control'
  <2>1. Fresh([pc |-> "capturing", order |-> o, pending |-> orders[o].status = "PENDING"])
        BY <1>4 DEF ReadCapture, Fresh
  <2>2. PlansFresh'
        BY <1>4, <2>1, FreshStart DEF ReadCapture, Control
  <2> QED BY <1>4, <2>2, SameRowsSound DEF ReadCapture, Control
<1>5. ASSUME NEW o \in Orders, NEW actor \in {"WEBHOOK", "SYSTEM"}, DecideAutoCancel(s, o, actor) PROVE Control'
  <2>1. Fresh([pc |-> "decided", order |-> o, actor |-> actor])
        BY <1>5 DEF DecideAutoCancel, Fresh, Placed
  <2>2. PlansFresh'
        BY <1>5, <2>1, FreshStart DEF DecideAutoCancel, Control
  <2> QED BY <1>5, <2>2, SameRowsSound DEF DecideAutoCancel, Control
<1>6. ASSUME ReadAutoCancel(s) PROVE Control'
  <2> DEFINE o == work[s].order
             r == AutoCancel(work[s].actor)
  <2>1. o \in Orders /\ r \in Request /\ UNCHANGED orders
        BY <1>6, RequestTypes DEF ReadAutoCancel, TypeOK, Work, Idle
  <2>2. Placed(o)
        BY <1>6 DEF ReadAutoCancel, Control, PlansFresh, Fresh
  <2>3. CASE TransitionAllowed(orders[o], r)
    <3>1. StartPlanned(s, o, TransitionPlan(orders[o], r))
          BY <1>6, <2>3 DEF ReadAutoCancel
    <3>2. StillPlanned(orders[o], TransitionPlan(orders[o], r))
          BY <2>1, <2>3, JustPlanned
    <3>3. PlansFresh'
          BY <2>1, <2>2, <3>1, <3>2, StartPlannedFresh DEF Control
    <3> QED BY <2>1, <3>3, SameRowsSound DEF Control
  <2>4. CASE ~TransitionAllowed(orders[o], r)
    <3>1. work' = [work EXCEPT ![s] = Idle]
          BY <1>6, <2>4 DEF ReadAutoCancel
    <3>2. PlansFresh'
          BY <2>1, <3>1, IdleFresh, FreshStart DEF Control
    <3> QED BY <2>1, <3>2, SameRowsSound DEF Control
  <2> QED BY <2>3, <2>4
<1>7. ASSUME WritePlanned(s) PROVE Control'
  <2> DEFINE o == work[s].order
             plan == work[s].plan
             row == Written(orders[o], plan)
  <2>1. o \in Orders /\ plan \in Plan
        BY <1>7, PlannedType DEF WritePlanned
  <2>2. Placed(o) /\ StillPlanned(orders[o], plan)
        BY <1>7 DEF WritePlanned, Control, PlansFresh, Fresh
  <2>3. SoundRow(row) /\ row.version = orders[o].version + 1 /\ row.status = plan.to
        BY <1>0, <2>1, <2>2, StillPlannedSound DEF Placed
  <2>4. row \in Row /\ row.version > orders[o].version /\ row.status # "UNPLACED"
        BY <1>0, <2>1, <2>3, WrittenType DEF Plan, Status, Open, Terminal
  <2>5. orders' = [orders EXCEPT ![o] = row] /\ work' = [work EXCEPT ![s] = Idle]
        BY <1>7 DEF WritePlanned
  <2> HIDE DEF o, plan, row
  <2> QED BY <2>1, <2>3, <2>4, <2>5, ControlWrite
<1>8. ASSUME RollBackPlanned(s) PROVE Control'
  <2>1. PlansFresh'
        BY <1>8, IdleFresh, FreshStart DEF RollBackPlanned, Control
  <2> QED BY <1>8, <2>1, SameRowsSound DEF RollBackPlanned, Control
<1>9. ASSUME WriteMarkPaid(s) PROVE Control'
  <2> DEFINE o == work[s].order
             row == IF orders[o].version = work[s].version THEN Paid(orders[o]) ELSE orders[o]
  <2>1. o \in Orders /\ Placed(o)
        BY <1>9 DEF WriteMarkPaid, TypeOK, Work, Idle, Control, PlansFresh, Fresh
  <2>2. /\ row \in Row /\ SoundRow(row)
        /\ row = orders[o] \/ (row.version > orders[o].version /\ row.status # "UNPLACED")
        BY <1>0, <2>1, PaidType, PaidSound DEF Placed
  <2>3. orders' = [orders EXCEPT ![o] = row] /\ work' = [work EXCEPT ![s] = Idle]
        BY <1>9, <2>1 DEF WriteMarkPaid, TypeOK
  <2> HIDE DEF o, row
  <2> QED BY <2>1, <2>2, <2>3, ControlWrite
<1>10. ASSUME WriteCapture(s) PROVE Control'
  <2> DEFINE o == work[s].order
             paid == Paid(orders[o])
             confirmed == Written(paid, TransitionPlan(paid, GatewayConfirm))
             row == IF ~work[s].pending THEN paid
                    ELSE IF TransitionAllowed(paid, GatewayConfirm) THEN confirmed ELSE orders[o]
  <2>1. o \in Orders /\ Placed(o)
        BY <1>10 DEF WriteCapture, TypeOK, Work, Idle, Control, PlansFresh, Fresh
  <2>2. /\ paid \in Row /\ SoundRow(paid)
        /\ paid.version = orders[o].version + 1 /\ paid.status # "UNPLACED"
        BY <1>0, <2>1, PaidType, PaidSound DEF Placed
  <2>3. TransitionAllowed(paid, GatewayConfirm) =>
          confirmed \in Row /\ SoundRow(confirmed)
          /\ confirmed.version = paid.version + 1 /\ confirmed.status = "CONFIRMED"
    <3>1. TransitionPlan(paid, GatewayConfirm) \in Plan /\ GatewayConfirm \in Request
          BY <2>2, RequestTypes, TransitionPlanType
    <3>2. TransitionPlan(paid, GatewayConfirm).to = "CONFIRMED"
          BY DEF TransitionPlan, GatewayConfirm
    <3> QED BY <2>2, <3>1, <3>2, WrittenType, TransitionSound
  <2>4. /\ row \in Row /\ SoundRow(row)
        /\ row = orders[o] \/ (row.version > orders[o].version /\ row.status # "UNPLACED")
    <3> HIDE DEF o, paid, confirmed
    <3> QED BY <1>0, <2>1, <2>2, <2>3
  <2>5. orders' = [orders EXCEPT ![o] = row] /\ work' = [work EXCEPT ![s] = Idle]
        BY <1>10 DEF WriteCapture
  <2> HIDE DEF o, row
  <2> QED BY <2>1, <2>4, <2>5, ControlWrite
<1> QED BY <1>1, <1>2, <1>3, <1>4, <1>5, <1>6, <1>7, <1>8, <1>9, <1>10 DEF SessionStep

\* Nobody works on an order before it is placed.
LEMMA ControlPlace ==
    ASSUME TypeOK, Control, NEW o \in Orders, Place(o)
    PROVE  Control'
<1> DEFINE row == [NoRow(o) EXCEPT !.status = "PENDING", !.held = TRUE]
<1>1. orders' = [orders EXCEPT ![o] = row] /\ UNCHANGED work /\ ~Placed(o)
      BY DEF Place, Placed
<1>2. SoundRow(row)
      BY DEF NoRow, SoundRow, Open, Terminal, ReturnableFrom
<1> HIDE DEF row
<1>3. SoundRows'
      BY <1>1, <1>2 DEF SoundRows, Control, TypeOK
<1>4. ASSUME NEW s \in Sessions PROVE Fresh(work[s])'
  <2>1. Fresh(work[s]) /\ work'[s] = work[s]
        BY <1>1 DEF Control, PlansFresh
  <2>2. work[s].pc # "idle" => orders'[work[s].order] = orders[work[s].order]
        BY <1>1, <2>1 DEF Fresh, TypeOK
  <2> QED BY <2>1, <2>2 DEF Fresh, Placed
<1> QED BY <1>3, <1>4 DEF Control, PlansFresh

\* A step that touches neither orders nor work keeps control.
LEMMA ControlSame == Control /\ UNCHANGED <<orders, work>> => Control'
BY DEF Control, PlansFresh, SoundRows, Fresh, Placed

\* Control is inductive, given the types.
LEMMA ControlStep == TypeOK /\ Control /\ [Next]_vars => Control'
<1> SUFFICES ASSUME TypeOK, Control, [Next]_vars PROVE Control'
    OBVIOUS
<1>1. CASE \E o \in Orders : Place(o)
      BY <1>1, ControlPlace
<1>2. CASE \E s \in Sessions : SessionStep(s)
      BY <1>2, ControlSession
<1>3. CASE \E p \in Products : StockRoomStep(p)
  <2>1. UNCHANGED <<orders, work>>
        BY <1>3 DEF StockRoomStep, SetOnHand, AddBatch, Count, DeleteProduct, RestoreProduct
  <2> QED BY <2>1, ControlSame
<1>4. CASE UNCHANGED vars
      BY <1>4, ControlSame DEF vars
<1> QED BY <1>1, <1>2, <1>3, <1>4 DEF Next

\* Nobody has read anything and no order is placed at the start.
LEMMA ControlInit == Init => Control
BY DEF Init, Control, PlansFresh, SoundRows, SoundRow, Fresh, Idle, NoRow, Open, Terminal, ReturnableFrom

\* In every reachable state a plan that still carries its row's version is the
\* planner's answer for that row, and every row is sound: the version condition of
\* the UPDATE in apply() is what makes planning from an unlocked read safe.
THEOREM ControlCorrect == Spec => []Control
<1>1. TypeOK /\ Control /\ [Next]_vars => Control'
      BY ControlStep
<1> QED BY <1>1, ControlInit, TypeCorrect, PTL DEF Spec

\* A plan that still carries the row's version is legal for the row as it is.
THEOREM PlansFreshCorrect == Spec => []PlansFresh
<1>1. Control => PlansFresh
      BY DEF Control
<1> QED BY <1>1, ControlCorrect, PTL

\* The flags that steer a cancellation agree with the stage of the order.
THEOREM StageAgreesCorrect == Spec => []StageAgrees
<1>1. Control => StageAgrees
      BY SoundRowsMeaning DEF Control
<1> QED BY <1>1, ControlCorrect, PTL

\* No online order passes PENDING unpaid, and nothing stays delivered unpaid.
THEOREM PaidInTimeCorrect == Spec => []PaidInTime
<1>1. Control => PaidInTime
      BY SoundRowsMeaning DEF Control
<1> QED BY <1>1, ControlCorrect, PTL

-----------------------------------------------------------------------------
(* Where an order's copies are, before and after a write.                  *)

\* The two sets the accounts are stated with, read off CopiesAt.
LEMMA CopiesAtMeaning ==
    ASSUME NEW row \in Row, SoundRow(row)
    PROVE  /\ CopiesAt(row) \in {"held", "away", "free"}
           /\ CopiesAt(row) = "held" <=> row.held
           /\ CopiesAt(row) = "away" <=> row.shipped /\ row.status \notin Terminal
BY DEF CopiesAt, SoundRow, ReturnableFrom

\* A stock effect moves the order's copies between exactly these two places.
Moves(e, from, to) ==
    \/ e = "RESERVE" /\ from = "free" /\ to = "held"
    \/ e = "RELEASE" /\ from = "held" /\ to = "free"
    \/ e = "FULFIL"  /\ from = "held" /\ to = "away"
    \/ e = "RESTOCK" /\ from = "away" /\ to = "free"
    \/ e = "NONE"    /\ from = to

\* The effect the planner chooses is the move the flags record.
LEMMA EffectMoves ==
    ASSUME NEW row \in Row, row.status # "UNPLACED", SoundRow(row),
           NEW plan \in Plan, StillPlanned(row, plan)
    PROVE  Moves(plan.stock, CopiesAt(row), CopiesAt(Written(row, plan)))
<1> DEFINE w == Written(row, plan)
<1> USE DEF Open, Terminal, ReturnableFrom
<1>1. w \in Row /\ SoundRow(w) /\ w.status = plan.to
      BY WrittenType, StillPlannedSound
<1>2. /\ w.held <=> \/ plan.stock = "RESERVE"
                    \/ plan.stock # "FULFIL" /\ plan.to \notin Terminal /\ row.held
      /\ w.shipped <=> plan.stock = "FULFIL" \/ (plan.stock # "RESERVE" /\ row.shipped)
      BY WrittenFields
<1> HIDE DEF w
<1>3. ASSUME NEW mode \in {"advance", "regress"}, NEW credit \in BOOLEAN, NEW r,
             r = [to |-> plan.to, mode |-> mode, actor |-> plan.actor, credit |-> credit],
             TransitionAllowed(row, r), plan = TransitionPlan(row, r)
      PROVE  Moves(plan.stock, CopiesAt(row), CopiesAt(w))
  <2>1. row.status \in Open \cup {"DELIVERED"}
        BY <1>3 DEF TransitionAllowed, Row, Status
  <2>2. /\ r.to = plan.to /\ r.mode \in {"advance", "regress"}
        /\ plan.stock = TransitionEffect(row, r)
        BY <1>3 DEF TransitionPlan
  <2>3. CASE plan.to \in Terminal
    <3>1. plan.stock = IF row.shipped THEN "RESTOCK" ELSE IF row.held THEN "RELEASE" ELSE "NONE"
          BY <2>2, <2>3 DEF TransitionEffect, IsShippedStage, Rank
    <3>2. row.shipped <=> ~row.held
          BY <2>1 DEF SoundRow
    <3>3. CopiesAt(w) = "free"
          BY <1>1, <1>2, <2>3, <3>1 DEF CopiesAt
    <3>4. CopiesAt(row) = IF row.shipped THEN "away" ELSE "held"
          BY <2>1, <3>2 DEF CopiesAt
    <3> QED BY <3>1, <3>2, <3>3, <3>4 DEF Moves
  <2>4. CASE plan.to \notin Terminal /\ r.mode = "advance" /\ IsShippedStage(r.to) /\ ~row.shipped
    <3>1. plan.stock = "FULFIL"
          BY <2>2, <2>4 DEF TransitionEffect
    <3>2. row.held
          BY <2>1, <2>4 DEF SoundRow
    <3> QED BY <1>1, <1>2, <2>4, <3>1, <3>2 DEF CopiesAt, Moves
  <2>5. CASE plan.to \notin Terminal /\ ~(r.mode = "advance" /\ IsShippedStage(r.to) /\ ~row.shipped)
    <3>1. plan.stock = "NONE"
          BY <2>2, <2>5 DEF TransitionEffect
    <3>2. w.held <=> row.held
          BY <1>2, <2>5, <3>1
    <3>3. w.shipped <=> row.shipped
          BY <1>2, <3>1
    <3> QED BY <1>1, <2>1, <2>5, <3>1, <3>2, <3>3 DEF CopiesAt, Moves
  <2> QED BY <2>3, <2>4, <2>5
<1>4. ASSUME ReopenAllowed(row, plan.to), plan = ReopenPlan(plan.to)
      PROVE  Moves(plan.stock, CopiesAt(row), CopiesAt(w))
  <2>1. plan.stock = "RESERVE" /\ row.status \in Terminal
        BY <1>4 DEF ReopenPlan, ReopenAllowed
  <2>2. ~row.held /\ w.held
        BY <1>2, <2>1 DEF SoundRow
  <2> QED BY <2>1, <2>2 DEF CopiesAt, Moves
<1> QED BY <1>3, <1>4 DEF StillPlanned, w

-----------------------------------------------------------------------------
(* The accounts.                                                           *)

HoldsCovered == \A p \in Products : p \in Backorder \/ reserved[p] <= onHand[p]

Accounts == HoldsAccounted /\ ShelfAccounted /\ LedgerAgrees /\ HoldsCovered

\* What an order adds to the units of a set it is in, or not in.
Part(in, o, p) == IF in THEN Qty[o][p] ELSE 0

\* An order that changes row moves in or out of a set read off its copies.
LEMMA UnitsAfter ==
    ASSUME NEW S, S \subseteq Orders, NEW o \in Orders, NEW p \in Products,
           NEW before \in BOOLEAN, NEW after \in BOOLEAN, before <=> o \in S,
           NEW T, T = IF after THEN S \cup {o} ELSE S \ {o}
    PROVE  /\ Units(T, p) = Units(S, p) + Part(after, o, p) - Part(before, o, p)
           /\ before => Qty[o][p] <= Units(S, p)
<1>1. Qty[o][p] \in Nat /\ Units(S, p) \in Nat
      BY QtyAssumption, UnitsType
<1>2. CASE before
  <2>1. /\ Units(S \ {o}, p) = Units(S, p) - Qty[o][p]
        /\ Qty[o][p] <= Units(S, p)
        BY <1>2, UnitsRemove
  <2>2. CASE after
    <3>1. T = S
          BY <1>2, <2>2
    <3> QED BY <1>1, <1>2, <2>1, <2>2, <3>1 DEF Part
  <2>3. CASE ~after
        BY <1>1, <1>2, <2>1, <2>3 DEF Part
  <2> QED BY <2>2, <2>3
<1>3. CASE ~before
  <2>1. CASE after
    <3>1. Units(S \cup {o}, p) = Units(S, p) + Qty[o][p]
          BY <1>3, UnitsAdd
    <3> QED BY <1>1, <1>3, <2>1, <3>1 DEF Part
  <2>2. CASE ~after
    <3>1. T = S
          BY <1>3, <2>2
    <3> QED BY <1>1, <1>3, <2>2, <3>1 DEF Part
  <2> QED BY <2>1, <2>2
<1> QED BY <1>2, <1>3

\* A stock call that is permitted moves exactly the order's quantity, in the
\* counters and in the ledger alike, unless GREATEST(..., 0) cuts it off.
LEMMA MoveStockDelta ==
    ASSUME TypeOK, NEW o \in Orders, NEW e \in Effects, MoveStock(e, o), NEW p \in Products,
           reserved[p] + ReservedDelta(e, Qty[o][p]) >= 0
    PROVE  /\ onHand'[p] = onHand[p] + OnHandDelta(e, Qty[o][p])
           /\ reserved'[p] = reserved[p] + ReservedDelta(e, Qty[o][p])
           /\ ledger'[p].onHand = ledger[p].onHand + OnHandDelta(e, Qty[o][p])
           /\ ledger'[p].reserved = ledger[p].reserved + ReservedDelta(e, Qty[o][p])
           /\ ledger'[p].intake = ledger[p].intake
           /\ e # "NONE" /\ Qty[o][p] > 0 => p \in Backorder \/ reserved'[p] <= onHand'[p]
<1>1. /\ Qty[o][p] \in Nat /\ onHand[p] \in Nat /\ reserved[p] \in Nat
      /\ OnHandDelta(e, Qty[o][p]) \in Int /\ ReservedDelta(e, Qty[o][p]) \in Int
      BY QtyAssumption DEF TypeOK, OnHandDelta, ReservedDelta
<1>2. onHand'[p] = onHand[p] + OnHandDelta(e, Qty[o][p])
      BY DEF MoveStock, OnHandAfter
<1>3. ReservedAfter(e, o, p) = reserved[p] + ReservedDelta(e, Qty[o][p])
      BY <1>1 DEF ReservedAfter, Clamp
<1>4. p \notin Lines(o) => ReservedDelta(e, Qty[o][p]) = 0
      BY <1>1 DEF Lines, ReservedDelta
<1>5. reserved'[p] = reserved[p] + ReservedDelta(e, Qty[o][p])
  <2>1. reserved'[p] = IF p \in Lines(o) THEN ReservedAfter(e, o, p) ELSE reserved[p]
        BY DEF MoveStock
  <2> QED BY <1>1, <1>3, <1>4, <2>1
<1>6. /\ ledger[p] \in [onHand : Int, reserved : Int, intake : Int]
      /\ ledger'[p] = [ledger[p] EXCEPT !.onHand = @ + OnHandDelta(e, Qty[o][p]),
                                        !.reserved = @ + ReservedDelta(e, Qty[o][p])]
      BY DEF MoveStock, TypeOK
<1>7. e # "NONE" /\ Qty[o][p] > 0 => p \in Backorder \/ reserved'[p] <= onHand'[p]
  <2>1. Qty[o][p] > 0 => p \in Lines(o)
        BY DEF Lines
  <2> QED BY <1>2, <1>3, <1>5, <2>1 DEF MoveStock, StockPermits, ChecksPass, OnHandAfter
<1> QED BY <1>2, <1>5, <1>6, <1>7

\* One order's row and its stock change together, as Moves says.
LEMMA AccountsMove ==
    ASSUME TypeOK, SoundRows, Accounts, NEW o \in Orders, NEW row \in Row, SoundRow(row),
           NEW e \in Effects, Moves(e, CopiesAt(orders[o]), CopiesAt(row)),
           orders' = [orders EXCEPT ![o] = row], MoveStock(e, o)
    PROVE  Accounts'
<1> DEFINE old == orders[o]
           gone(r) == r.shipped /\ r.status \notin Terminal
<1>0. old \in Row /\ SoundRow(old) /\ orders'[o] = row
      BY DEF TypeOK, SoundRows
<1>1. /\ Holding \subseteq Orders /\ Away \subseteq Orders
      /\ old.held <=> o \in Holding
      /\ gone(old) <=> o \in Away
      /\ old.held \in BOOLEAN /\ row.held \in BOOLEAN
      /\ gone(old) \in BOOLEAN /\ gone(row) \in BOOLEAN
      BY <1>0 DEF Holding, Away, Row
<1>2. Holding' = IF row.held THEN Holding \cup {o} ELSE Holding \ {o}
      BY <1>0 DEF Holding, TypeOK
<1>3. Away' = IF gone(row) THEN Away \cup {o} ELSE Away \ {o}
      BY <1>0 DEF Away, TypeOK
<1>4. /\ CopiesAt(old) \in {"held", "away", "free"} /\ CopiesAt(row) \in {"held", "away", "free"}
      /\ CopiesAt(old) = "held" <=> old.held
      /\ CopiesAt(row) = "held" <=> row.held
      /\ CopiesAt(old) = "away" <=> gone(old)
      /\ CopiesAt(row) = "away" <=> gone(row)
      BY <1>0, CopiesAtMeaning
<1>5. Moves(e, CopiesAt(old), CopiesAt(row))
      OBVIOUS
<1>6. ASSUME NEW p \in Products
      PROVE  /\ reserved'[p] = Units(Holding', p)
             /\ onHand'[p] + Units(Away', p) = ledger'[p].intake
             /\ ledger'[p].onHand = onHand'[p] /\ ledger'[p].reserved = reserved'[p]
             /\ p \in Backorder \/ reserved'[p] <= onHand'[p]
  <2> DEFINE q == Qty[o][p]
  <2>1. /\ q \in Nat /\ onHand[p] \in Nat /\ reserved[p] \in Nat
        /\ Units(Holding, p) \in Nat /\ Units(Away, p) \in Nat
        /\ ledger[p].intake \in Int
        BY <1>1, QtyAssumption, UnitsType DEF TypeOK
  <2>2. /\ Units(Holding', p) = Units(Holding, p) + Part(row.held, o, p) - Part(old.held, o, p)
        /\ old.held => q <= Units(Holding, p)
    <3>1. ASSUME NEW b \in BOOLEAN, NEW a \in BOOLEAN, b = old.held, a = row.held
          PROVE  /\ Units(Holding', p) = Units(Holding, p) + Part(a, o, p) - Part(b, o, p)
                 /\ b => q <= Units(Holding, p)
          BY <1>1, <1>2, <3>1, UnitsAfter
    <3> QED BY <1>1, <3>1
  <2>3. Units(Away', p) = Units(Away, p) + Part(gone(row), o, p) - Part(gone(old), o, p)
    <3>1. ASSUME NEW b \in BOOLEAN, NEW a \in BOOLEAN, b = gone(old), a = gone(row)
          PROVE  Units(Away', p) = Units(Away, p) + Part(a, o, p) - Part(b, o, p)
      <4> HIDE DEF gone
      <4> QED BY <1>1, <1>3, <3>1, UnitsAfter
    <3> QED BY <1>1, <3>1
  <2>4. /\ reserved[p] = Units(Holding, p)
        /\ onHand[p] + Units(Away, p) = ledger[p].intake
        /\ ledger[p].onHand = onHand[p] /\ ledger[p].reserved = reserved[p]
        /\ p \in Backorder \/ reserved[p] <= onHand[p]
        BY DEF Accounts, HoldsAccounted, ShelfAccounted, LedgerAgrees, HoldsCovered
  <2> HIDE DEF old, gone, q
  <2>5. ReservedDelta(e, q) = Part(row.held, o, p) - Part(old.held, o, p)
        BY <1>4, <1>5, <2>1 DEF Moves, ReservedDelta, Part, q
  <2>6. OnHandDelta(e, q) = Part(gone(old), o, p) - Part(gone(row), o, p)
        BY <1>4, <1>5, <2>1 DEF Moves, OnHandDelta, Part, q
  <2>7. reserved[p] + ReservedDelta(e, q) >= 0
        BY <1>1, <2>1, <2>2, <2>4, <2>5 DEF Part, q
  <2>8. /\ onHand'[p] = onHand[p] + OnHandDelta(e, q)
        /\ reserved'[p] = reserved[p] + ReservedDelta(e, q)
        /\ ledger'[p].onHand = ledger[p].onHand + OnHandDelta(e, q)
        /\ ledger'[p].reserved = ledger[p].reserved + ReservedDelta(e, q)
        /\ ledger'[p].intake = ledger[p].intake
        /\ e # "NONE" /\ q > 0 => p \in Backorder \/ reserved'[p] <= onHand'[p]
        BY <2>7, MoveStockDelta DEF q
  <2>9. e = "NONE" \/ q = 0 => reserved'[p] = reserved[p] /\ onHand'[p] = onHand[p]
        BY <2>1, <2>8 DEF ReservedDelta, OnHandDelta
  <2>10. \A in \in BOOLEAN : Part(in, o, p) \in Nat
         BY <2>1 DEF Part, q
  <2> QED BY <1>1, <2>1, <2>2, <2>3, <2>4, <2>5, <2>6, <2>8, <2>9, <2>10
<1> QED BY <1>6 DEF Accounts, HoldsAccounted, ShelfAccounted, LedgerAgrees, HoldsCovered

\* A row that changes nothing about its copies, with no stock moved.
LEMMA AccountsRow ==
    ASSUME TypeOK, Accounts, NEW o \in Orders, NEW row \in Row,
           row.held = orders[o].held, row.shipped = orders[o].shipped,
           row.status \in Terminal <=> orders[o].status \in Terminal,
           orders' = [orders EXCEPT ![o] = row], UNCHANGED stock
    PROVE  Accounts'
<1>1. Holding' = Holding /\ Away' = Away
      BY DEF Holding, Away, TypeOK
<1> QED BY <1>1 DEF Accounts, HoldsAccounted, ShelfAccounted, LedgerAgrees, HoldsCovered, stock

\* A step that touches neither orders nor stock keeps the accounts balanced.
LEMMA AccountsSame == Accounts /\ UNCHANGED <<orders, stock>> => Accounts'
BY DEF Accounts, HoldsAccounted, ShelfAccounted, LedgerAgrees, HoldsCovered, Holding, Away, stock

\* A count or a delivery moves the shelf, the ledger and the intake by the same
\* number, and never below what orders hold.
LEMMA AccountsCount ==
    ASSUME TypeOK, Accounts, NEW p \in Products, NEW hand \in Nat,
           p \in Backorder \/ reserved[p] <= hand, Count(p, hand)
    PROVE  Accounts'
<1>1. Holding' = Holding /\ Away' = Away /\ UNCHANGED reserved
      BY DEF Count, Holding, Away
<1>2. ASSUME NEW q \in Products
      PROVE  /\ onHand'[q] + Units(Away, q) = ledger'[q].intake
             /\ ledger'[q].onHand = onHand'[q] /\ ledger'[q].reserved = reserved[q]
             /\ q \in Backorder \/ reserved[q] <= onHand'[q]
  <2>1. /\ onHand[q] + Units(Away, q) = ledger[q].intake
        /\ ledger[q].onHand = onHand[q] /\ ledger[q].reserved = reserved[q]
        /\ q \in Backorder \/ reserved[q] <= onHand[q]
        BY DEF Accounts, ShelfAccounted, LedgerAgrees, HoldsCovered
  <2>2. /\ Units(Away, q) \in Nat /\ onHand[q] \in Nat /\ reserved[q] \in Nat
        /\ ledger[q] \in [onHand : Int, reserved : Int, intake : Int]
        BY UnitsType DEF Away, TypeOK
  <2>3. CASE q = p
    <3>1. onHand'[q] = hand
          BY <2>3 DEF Count, TypeOK
    <3>2. /\ ledger'[q].onHand = ledger[q].onHand + hand - onHand[q]
          /\ ledger'[q].intake = ledger[q].intake + hand - onHand[q]
          /\ ledger'[q].reserved = ledger[q].reserved
          BY <2>2, <2>3 DEF Count, TypeOK
    <3> QED BY <2>1, <2>2, <2>3, <3>1, <3>2
  <2>4. CASE q # p
    <3>1. onHand'[q] = onHand[q] /\ ledger'[q] = ledger[q]
          BY <2>4 DEF Count, TypeOK
    <3> QED BY <2>1, <3>1
  <2> QED BY <2>3, <2>4
<1> QED BY <1>1, <1>2 DEF Accounts, HoldsAccounted, ShelfAccounted, LedgerAgrees, HoldsCovered

\* Confirming an order whose capture has just been recorded moves no stock.
LEMMA ConfirmKeepsCopies ==
    ASSUME NEW row \in Row, row.status # "UNPLACED", SoundRow(row), TransitionAllowed(row, GatewayConfirm)
    PROVE  LET w == Written(row, TransitionPlan(row, GatewayConfirm))
           IN  /\ w \in Row
               /\ w.held = row.held /\ w.shipped = row.shipped
               /\ w.status \in Terminal <=> row.status \in Terminal
<1> DEFINE plan == TransitionPlan(row, GatewayConfirm)
           w == Written(row, plan)
<1>1. plan.to = "CONFIRMED" /\ plan.stock = "NONE"
      BY DEF TransitionPlan, TransitionEffect, GatewayConfirm, IsShippedStage, Rank, Terminal
<1>2. plan \in Plan
      BY RequestTypes, TransitionPlanType
<1>3. w \in Row
      BY <1>2, WrittenType
<1>4. w.status = "CONFIRMED" /\ (w.held <=> row.held) /\ (w.shipped <=> row.shipped)
      BY <1>1, WrittenFields DEF Terminal
<1>5. w.held \in BOOLEAN /\ w.shipped \in BOOLEAN /\ row.held \in BOOLEAN /\ row.shipped \in BOOLEAN
      BY <1>3 DEF Row
<1>6. row.status \notin Terminal
      BY DEF TransitionAllowed
<1> HIDE DEF w
<1> QED BY <1>3, <1>4, <1>5, <1>6 DEF Terminal, w

\* Placing an order reserves exactly what its new row holds.
LEMMA AccountsPlace ==
    ASSUME TypeOK, Control, Accounts, NEW o \in Orders, Place(o)
    PROVE  Accounts'
<1> DEFINE row == [NoRow(o) EXCEPT !.status = "PENDING", !.held = TRUE]
<1>1. orders' = [orders EXCEPT ![o] = row] /\ MoveStock("RESERVE", o) /\ orders[o].status = "UNPLACED"
      BY DEF Place
<1>2. row \in Row /\ SoundRow(row)
      BY OrderDataAssumption DEF NoRow, Row, Status, Open, Terminal, ReturnableFrom, Payments, SoundRow
<1>3. CopiesAt(row) = "held"
      BY DEF CopiesAt, NoRow
<1>4. SoundRows /\ CopiesAt(orders[o]) = "free"
      BY <1>1 DEF Control, SoundRows, SoundRow, CopiesAt, Open, ReturnableFrom
<1> HIDE DEF row
<1>5. Moves("RESERVE", CopiesAt(orders[o]), CopiesAt(row)) /\ "RESERVE" \in Effects
      BY <1>3, <1>4 DEF Moves, Effects
<1> QED BY <1>1, <1>2, <1>4, <1>5, AccountsMove

\* A step of a request moves stock exactly as it moves the flags of its order.
LEMMA AccountsSession ==
    ASSUME TypeOK, Control, Accounts, NEW s \in Sessions, SessionStep(s)
    PROVE  Accounts'
<1>0. SoundRows /\ \A o \in Orders : orders[o] \in Row /\ SoundRow(orders[o])
      BY DEF Control, SoundRows, TypeOK
<1>1. ASSUME NEW o \in Orders,
             \/ ReadTransition(s, o) \/ ReadReopen(s, o) \/ ReadMarkPaid(s, o) \/ ReadCapture(s, o)
             \/ \E actor \in {"WEBHOOK", "SYSTEM"} : DecideAutoCancel(s, o, actor)
      PROVE  Accounts'
  <2>1. UNCHANGED <<orders, stock>>
        BY <1>1 DEF ReadTransition, ReadReopen, ReadMarkPaid, ReadCapture, DecideAutoCancel
  <2> QED BY <2>1, AccountsSame
<1>2. CASE ReadAutoCancel(s) \/ RollBackPlanned(s)
  <2>1. UNCHANGED <<orders, stock>>
        BY <1>2 DEF ReadAutoCancel, RollBackPlanned
  <2> QED BY <2>1, AccountsSame
<1>3. ASSUME WritePlanned(s) PROVE Accounts'
  <2> DEFINE o == work[s].order
             plan == work[s].plan
             row == Written(orders[o], plan)
  <2>1. o \in Orders /\ plan \in Plan /\ plan.stock \in Effects
        BY <1>3, PlannedType DEF WritePlanned, Plan
  <2>2. Placed(o) /\ StillPlanned(orders[o], plan)
        BY <1>3 DEF WritePlanned, Control, PlansFresh, Fresh
  <2>3. SoundRow(row) /\ row \in Row
        BY <1>0, <2>1, <2>2, StillPlannedSound, WrittenType DEF Placed
  <2>4. Moves(plan.stock, CopiesAt(orders[o]), CopiesAt(row))
        BY <1>0, <2>1, <2>2, EffectMoves DEF Placed
  <2>5. orders' = [orders EXCEPT ![o] = row] /\ MoveStock(plan.stock, o)
        BY <1>3 DEF WritePlanned
  <2> HIDE DEF o, plan, row
  <2> QED BY <1>0, <2>1, <2>3, <2>4, <2>5, AccountsMove
<1>4. ASSUME WriteMarkPaid(s) PROVE Accounts'
  <2> DEFINE o == work[s].order
             row == IF orders[o].version = work[s].version THEN Paid(orders[o]) ELSE orders[o]
  <2>1. o \in Orders
        BY <1>4 DEF WriteMarkPaid, TypeOK, Work, Idle
  <2>2. /\ row \in Row /\ row.held = orders[o].held /\ row.shipped = orders[o].shipped
        /\ row.status = orders[o].status
        BY <1>0, <2>1, PaidType, PaidSound
  <2>3. orders' = [orders EXCEPT ![o] = row] /\ UNCHANGED stock
        BY <1>4, <2>1 DEF WriteMarkPaid, TypeOK
  <2> HIDE DEF o, row
  <2> QED BY <2>1, <2>2, <2>3, AccountsRow
<1>5. ASSUME WriteCapture(s) PROVE Accounts'
  <2> DEFINE o == work[s].order
             paid == Paid(orders[o])
             confirmed == Written(paid, TransitionPlan(paid, GatewayConfirm))
             row == IF ~work[s].pending THEN paid
                    ELSE IF TransitionAllowed(paid, GatewayConfirm) THEN confirmed ELSE orders[o]
  <2>1. o \in Orders /\ Placed(o)
        BY <1>5 DEF WriteCapture, TypeOK, Work, Idle, Control, PlansFresh, Fresh
  <2>2. /\ paid \in Row /\ SoundRow(paid) /\ paid.status = orders[o].status /\ paid.status # "UNPLACED"
        /\ paid.held = orders[o].held /\ paid.shipped = orders[o].shipped
        BY <1>0, <2>1, PaidType, PaidSound DEF Placed
  <2>3. TransitionAllowed(paid, GatewayConfirm) =>
          /\ confirmed \in Row
          /\ confirmed.held = paid.held /\ confirmed.shipped = paid.shipped
          /\ confirmed.status \in Terminal <=> paid.status \in Terminal
        BY <2>2, ConfirmKeepsCopies
  <2>4. orders' = [orders EXCEPT ![o] = row] /\ UNCHANGED stock
        BY <1>5 DEF WriteCapture
  <2> HIDE DEF o, paid, confirmed
  <2>5. /\ row \in Row /\ row.held = orders[o].held /\ row.shipped = orders[o].shipped
        /\ row.status \in Terminal <=> orders[o].status \in Terminal
        BY <1>0, <2>1, <2>2, <2>3
  <2> HIDE DEF row
  <2> QED BY <2>1, <2>4, <2>5, AccountsRow
<1> QED BY <1>1, <1>2, <1>3, <1>4, <1>5 DEF SessionStep

\* The stock room and the catalogue keep the accounts balanced.
LEMMA AccountsStockRoom ==
    ASSUME TypeOK, Accounts, NEW p \in Products, StockRoomStep(p)
    PROVE  Accounts'
<1>1. CASE SetOnHand(p)
      BY <1>1, AccountsCount, BoundsAssumption DEF SetOnHand
<1>2. CASE AddBatch(p)
  <2>1. PICK n \in 1..MaxOnHand : Count(p, onHand[p] + n)
        BY <1>2 DEF AddBatch
  <2>2. onHand[p] \in Nat /\ reserved[p] \in Nat /\ n \in Nat
        BY BoundsAssumption DEF TypeOK
  <2>3. p \in Backorder \/ reserved[p] <= onHand[p] + n
        BY <2>2 DEF Accounts, HoldsCovered
  <2> QED BY <2>1, <2>2, <2>3, AccountsCount
<1>3. CASE DeleteProduct(p) \/ RestoreProduct(p)
      BY <1>3, AccountsSame DEF DeleteProduct, RestoreProduct
<1> QED BY <1>1, <1>2, <1>3 DEF StockRoomStep

\* Nothing is held or away at the start, and the ledger opens with the stock.
LEMMA AccountsInit == Init => Accounts
<1> SUFFICES ASSUME Init PROVE Accounts
    OBVIOUS
<1>1. Holding = {} /\ Away = {}
      BY DEF Init, NoRow, Holding, Away
<1>2. \A p \in Products : Units({}, p) = 0 /\ OpeningStock[p] \in Nat
      BY UnitsEmpty, StockAssumption
<1> QED BY <1>1, <1>2 DEF Init, Accounts, HoldsAccounted, ShelfAccounted, LedgerAgrees, HoldsCovered

\* The accounts are inductive, given types and control.
LEMMA AccountsStep == TypeOK /\ Control /\ Accounts /\ [Next]_vars => Accounts'
<1> SUFFICES ASSUME TypeOK, Control, Accounts, [Next]_vars PROVE Accounts'
    OBVIOUS
<1>1. CASE UNCHANGED vars
      BY <1>1, AccountsSame DEF vars
<1> QED BY <1>1, AccountsPlace, AccountsSession, AccountsStockRoom DEF Next

\* The stock accounts hold in every reachable state.
THEOREM AccountsCorrect == Spec => []Accounts
<1>1. TypeOK /\ Control /\ Accounts /\ [Next]_vars => Accounts'
      BY AccountsStep
<1> QED BY <1>1, AccountsInit, TypeCorrect, ControlCorrect, PTL DEF Spec

\* stock_reserved is exactly what orders flagged stockReserved hold.
THEOREM HoldsAccountedCorrect == Spec => []HoldsAccounted
<1>1. Accounts => HoldsAccounted
      BY DEF Accounts
<1> QED BY <1>1, AccountsCorrect, PTL

\* What the shelf lacks is what live shipped orders took.
THEOREM ShelfAccountedCorrect == Spec => []ShelfAccounted
<1>1. Accounts => ShelfAccounted
      BY DEF Accounts
<1> QED BY <1>1, AccountsCorrect, PTL

\* The product counters equal the sums of the movement ledger.
THEOREM LedgerAgreesCorrect == Spec => []LedgerAgrees
<1>1. Accounts => LedgerAgrees
      BY DEF Accounts
<1> QED BY <1>1, AccountsCorrect, PTL

\* Counters, orders and movements agree, whatever interleaves.
THEOREM StockAccountedCorrect == Spec => []StockAccounted
<1>1. HoldsAccounted /\ ShelfAccounted /\ LedgerAgrees => StockAccounted
      BY DEF StockAccounted
<1> QED BY <1>1, HoldsAccountedCorrect, ShelfAccountedCorrect, LedgerAgreesCorrect, PTL

-----------------------------------------------------------------------------
(* The desk implements the stock promise, keeps to the lifecycle and counts *)
(* coupons.                                                                *)

stageBar == [o \in Orders |-> CopiesAt(orders[o])]
ownedBar == [p \in Products |-> onHand[p] + Units(Away, p)]

\* The abstract module counts copies as the desk does.
LEMMA PromiseUnits == \A S, p : Promise!Units(S, p) = Units(S, p)
BY DEF Promise!Units, Promise!Copies, Units, Copies, Promise!Cardinality, Cardinality

\* The orders at each place are the sets the accounts are stated with.
LEMMA PromiseAt ==
    TypeOK /\ SoundRows => Promise!At(stageBar, "held") = Holding /\ Promise!At(stageBar, "away") = Away
<1> SUFFICES ASSUME TypeOK, SoundRows
             PROVE  Promise!At(stageBar, "held") = Holding /\ Promise!At(stageBar, "away") = Away
    OBVIOUS
<1>1. \A o \in Orders : /\ CopiesAt(orders[o]) = "held" <=> orders[o].held
                        /\ CopiesAt(orders[o]) = "away" <=> orders[o].shipped /\ orders[o].status \notin Terminal
      BY CopiesAtMeaning DEF TypeOK, SoundRows
<1> QED BY <1>1 DEF Promise!At, stageBar, Holding, Away

\* No copy is promised that the shop does not own.
LEMMA KeptFromAccounts ==
    TypeOK /\ Control /\ Accounts => \A p \in Products : Promise!Kept(stageBar, ownedBar, p)
<1> SUFFICES ASSUME TypeOK, Control, Accounts, NEW p \in Products
             PROVE  Promise!Kept(stageBar, ownedBar, p)
    OBVIOUS
<1>1. Promise!At(stageBar, "held") = Holding /\ Promise!At(stageBar, "away") = Away
      BY PromiseAt DEF Control
<1>2. /\ Units(Holding, p) \in Nat /\ Units(Away, p) \in Nat /\ onHand[p] \in Nat
      /\ ownedBar[p] = onHand[p] + Units(Away, p)
      BY UnitsType DEF Holding, Away, TypeOK, ownedBar
<1>3. reserved[p] = Units(Holding, p) /\ (p \in Backorder \/ reserved[p] <= onHand[p])
      BY DEF Accounts, HoldsAccounted, HoldsCovered
<1> QED BY <1>1, <1>2, <1>3, PromiseUnits DEF Promise!Kept

\* What the shop owns is what it ever took in by counts and deliveries.
LEMMA OwnedIsIntake == Accounts => ownedBar = [p \in Products |-> ledger[p].intake]
BY DEF Accounts, ShelfAccounted, ownedBar

Good == TypeOK /\ Control /\ Accounts

\* Both facts above, of the next state.
LEMMA GoodNext ==
    Good' => /\ ownedBar' = [p \in Products |-> ledger'[p].intake]
             /\ (\A p \in Products : Promise!Kept(stageBar, ownedBar, p))'
<1>1. Good => /\ ownedBar = [p \in Products |-> ledger[p].intake]
              /\ \A p \in Products : Promise!Kept(stageBar, ownedBar, p)
      BY OwnedIsIntake, KeptFromAccounts DEF Good
<1>2. Good' => (/\ ownedBar = [p \in Products |-> ledger[p].intake]
                /\ \A p \in Products : Promise!Kept(stageBar, ownedBar, p))'
      BY <1>1, PTL
<1> QED BY <1>2

\* A write whose effect moves an order's copies is that move of the promise.
LEMMA PromiseMove ==
    ASSUME Good, Good', NEW o \in Orders, NEW row \in Row, SoundRow(row),
           NEW e \in Effects, Moves(e, CopiesAt(orders[o]), CopiesAt(row)),
           orders' = [orders EXCEPT ![o] = row], MoveStock(e, o)
    PROVE  Promise!Next \/ UNCHANGED <<stageBar, ownedBar>>
<1> DEFINE from == CopiesAt(orders[o])
           to == CopiesAt(row)
<1>1. stageBar[o] = from /\ stageBar' = [stageBar EXCEPT ![o] = to]
      BY DEF stageBar, Good, TypeOK
<1>2. ownedBar' = ownedBar
  <2>1. \A p \in Products : ledger'[p].intake = ledger[p].intake
        BY ZenonT(60) DEF MoveStock, Good, TypeOK
  <2> QED BY <2>1, OwnedIsIntake, GoodNext DEF Good
<1>3. \A p \in Products : Promise!Kept([stageBar EXCEPT ![o] = to], ownedBar, p)
  <2>1. (\A p \in Products : Promise!Kept(stageBar, ownedBar, p))'
        BY GoodNext
  <2> QED BY <1>1, <1>2, <2>1 DEF Promise!Kept, Promise!At
<1>4. Promise!Move(o, from, to)
      BY <1>1, <1>2 DEF Promise!Move, stageBar, ownedBar
<1>5. Promise!MoveIfKept(o, from, to)
  <2>1. Promise!Lines(o) \subseteq Products
        BY DEF Promise!Lines
  <2> QED BY <1>3, <1>4, <2>1 DEF Promise!MoveIfKept, stageBar, ownedBar
<1>6. Moves(e, from, to)
      OBVIOUS
<1> HIDE DEF from, to
<1>7. CASE e = "NONE"
  <2>1. stageBar' = stageBar
        BY <1>1, <1>6, <1>7 DEF Moves, stageBar
  <2> QED BY <1>2, <2>1
<1>8. CASE e # "NONE"
  <2>1. Promise!Hold(o) \/ Promise!Release(o) \/ Promise!Ship(o) \/ Promise!TakeBack(o)
        BY <1>4, <1>5, <1>6, <1>8 DEF Moves, Promise!Hold, Promise!Release, Promise!Ship, Promise!TakeBack
  <2> QED BY <2>1 DEF Promise!Next
<1> QED BY <1>7, <1>8

\* A step that leaves every order's copies where they are and owns no more or
\* fewer is a stutter of the promise.
LEMMA PromiseStutter ==
    ASSUME Good, Good', UNCHANGED ledger,
           \A o \in Orders : CopiesAt(orders'[o]) = CopiesAt(orders[o])
    PROVE  UNCHANGED <<stageBar, ownedBar>>
<1>1. stageBar' = stageBar
      BY DEF stageBar
<1>2. ownedBar' = ownedBar
      BY OwnedIsIntake, GoodNext DEF Good
<1> QED BY <1>1, <1>2

\* A count or a delivery is a recount of that product.
LEMMA PromiseRecount ==
    ASSUME Good, Good', NEW p \in Products, NEW hand \in Nat, Count(p, hand)
    PROVE  Promise!Next
<1>1. stageBar' = stageBar /\ UNCHANGED orders
      BY DEF Count, stageBar
<1>2. ownedBar' \in [Products -> Nat]
  <2>1. Away' = Away /\ \A q \in Products : onHand'[q] \in Nat /\ Units(Away, q) \in Nat
        BY <1>1, UnitsType DEF Away, Good, TypeOK
  <2> QED BY <2>1 DEF ownedBar
<1>3. \A q \in Products \ {p} : ownedBar'[q] = ownedBar[q]
  <2>1. \A q \in Products \ {p} : ledger'[q] = ledger[q]
        BY DEF Count, Good, TypeOK
  <2> QED BY <2>1, OwnedIsIntake, GoodNext DEF Good
<1>4. Promise!Kept(stageBar, ownedBar', p)
  <2>1. (\A q \in Products : Promise!Kept(stageBar, ownedBar, q))'
        BY GoodNext
  <2> QED BY <1>1, <2>1 DEF Promise!Kept, Promise!At
<1> QED BY <1>1, <1>2, <1>3, <1>4 DEF Promise!Next, Promise!Recount, stageBar, ownedBar

\* A step of a request is a move of the promise or a stutter of it.
LEMMA PromiseSession ==
    ASSUME Good, Good', NEW s \in Sessions, SessionStep(s)
    PROVE  Promise!Next \/ UNCHANGED <<stageBar, ownedBar>>
<1>0. TypeOK /\ Control /\ SoundRows /\ \A o \in Orders : orders[o] \in Row /\ SoundRow(orders[o])
      BY DEF Good, Control, SoundRows, TypeOK
<1>1. ASSUME NEW o \in Orders,
             \/ ReadTransition(s, o) \/ ReadReopen(s, o) \/ ReadMarkPaid(s, o) \/ ReadCapture(s, o)
             \/ \E actor \in {"WEBHOOK", "SYSTEM"} : DecideAutoCancel(s, o, actor)
      PROVE  UNCHANGED <<stageBar, ownedBar>>
  <2>1. UNCHANGED <<orders, ledger>>
        BY <1>1 DEF ReadTransition, ReadReopen, ReadMarkPaid, ReadCapture, DecideAutoCancel, stock
  <2> QED BY <2>1, PromiseStutter
<1>2. ASSUME ReadAutoCancel(s) \/ RollBackPlanned(s)
      PROVE  UNCHANGED <<stageBar, ownedBar>>
  <2>1. UNCHANGED <<orders, ledger>>
        BY <1>2 DEF ReadAutoCancel, RollBackPlanned, stock
  <2> QED BY <2>1, PromiseStutter
<1>3. ASSUME WritePlanned(s)
      PROVE  Promise!Next \/ UNCHANGED <<stageBar, ownedBar>>
  <2> DEFINE o == work[s].order
             plan == work[s].plan
             row == Written(orders[o], plan)
  <2>1. o \in Orders /\ plan \in Plan /\ plan.stock \in Effects
        BY <1>0, <1>3, PlannedType DEF WritePlanned, Plan
  <2>2. Placed(o) /\ StillPlanned(orders[o], plan)
        BY <1>0, <1>3 DEF WritePlanned, Control, PlansFresh, Fresh
  <2>3. SoundRow(row) /\ row \in Row
        BY <1>0, <2>1, <2>2, StillPlannedSound, WrittenType DEF Placed
  <2>4. Moves(plan.stock, CopiesAt(orders[o]), CopiesAt(row))
        BY <1>0, <2>1, <2>2, EffectMoves DEF Placed
  <2>5. orders' = [orders EXCEPT ![o] = row] /\ MoveStock(plan.stock, o)
        BY <1>3 DEF WritePlanned
  <2> HIDE DEF o, plan, row
  <2> QED BY <2>1, <2>3, <2>4, <2>5, PromiseMove
<1>4. ASSUME WriteMarkPaid(s) PROVE UNCHANGED <<stageBar, ownedBar>>
  <2> DEFINE o == work[s].order
             row == IF orders[o].version = work[s].version THEN Paid(orders[o]) ELSE orders[o]
  <2>1. o \in Orders
        BY <1>0, <1>4 DEF WriteMarkPaid, TypeOK, Work, Idle
  <2>2. CopiesAt(row) = CopiesAt(orders[o])
        BY <1>0, <2>1, PaidSound DEF CopiesAt
  <2>3. orders' = [orders EXCEPT ![o] = row] /\ UNCHANGED ledger
        BY <1>0, <1>4, <2>1 DEF WriteMarkPaid, TypeOK, stock
  <2> HIDE DEF o, row
  <2>4. \A x \in Orders : CopiesAt(orders'[x]) = CopiesAt(orders[x])
        BY <1>0, <2>2, <2>3 DEF TypeOK
  <2> QED BY <2>3, <2>4, PromiseStutter
<1>5. ASSUME WriteCapture(s) PROVE UNCHANGED <<stageBar, ownedBar>>
  <2> DEFINE o == work[s].order
             paid == Paid(orders[o])
             confirmed == Written(paid, TransitionPlan(paid, GatewayConfirm))
             row == IF ~work[s].pending THEN paid
                    ELSE IF TransitionAllowed(paid, GatewayConfirm) THEN confirmed ELSE orders[o]
  <2>1. o \in Orders /\ Placed(o)
        BY <1>0, <1>5 DEF WriteCapture, TypeOK, Work, Idle, Control, PlansFresh, Fresh
  <2>2. /\ paid \in Row /\ SoundRow(paid) /\ paid.status # "UNPLACED"
        /\ CopiesAt(paid) = CopiesAt(orders[o])
        BY <1>0, <2>1, PaidType, PaidSound DEF Placed, CopiesAt
  <2>3. TransitionAllowed(paid, GatewayConfirm) => CopiesAt(confirmed) = CopiesAt(paid)
        BY <2>2, ConfirmKeepsCopies DEF CopiesAt
  <2>4. orders' = [orders EXCEPT ![o] = row] /\ UNCHANGED ledger
        BY <1>5 DEF WriteCapture, stock
  <2> HIDE DEF o, paid, confirmed
  <2>5. CopiesAt(row) = CopiesAt(orders[o])
        BY <2>2, <2>3
  <2> HIDE DEF row
  <2>6. \A x \in Orders : CopiesAt(orders'[x]) = CopiesAt(orders[x])
        BY <1>0, <2>4, <2>5 DEF TypeOK
  <2> QED BY <2>4, <2>6, PromiseStutter
<1> QED BY <1>1, <1>2, <1>3, <1>4, <1>5 DEF SessionStep

\* Placing an order takes its free copies into hold, as the promise's Hold does.
LEMMA PromisePlace ==
    ASSUME Good, Good', NEW o \in Orders, Place(o)
    PROVE  Promise!Next \/ UNCHANGED <<stageBar, ownedBar>>
<1> DEFINE row == [NoRow(o) EXCEPT !.status = "PENDING", !.held = TRUE]
<1>1. orders' = [orders EXCEPT ![o] = row] /\ MoveStock("RESERVE", o) /\ orders[o].status = "UNPLACED"
      BY DEF Place
<1>2. row \in Row /\ SoundRow(row)
      BY OrderDataAssumption DEF NoRow, Row, Status, Open, Terminal, ReturnableFrom, Payments, SoundRow
<1>3. CopiesAt(row) = "held"
      BY DEF CopiesAt, NoRow
<1>4. CopiesAt(orders[o]) = "free"
      BY <1>1 DEF Good, Control, SoundRows, SoundRow, CopiesAt, Open, ReturnableFrom
<1> HIDE DEF row
<1>5. Moves("RESERVE", CopiesAt(orders[o]), CopiesAt(row)) /\ "RESERVE" \in Effects
      BY <1>3, <1>4 DEF Moves, Effects
<1> QED BY <1>1, <1>2, <1>5, PromiseMove

\* Counts and deliveries recount what the shop owns; the catalogue moves no copy.
LEMMA PromiseStockRoom ==
    ASSUME Good, Good', NEW p \in Products, StockRoomStep(p)
    PROVE  Promise!Next \/ UNCHANGED <<stageBar, ownedBar>>
<1>1. CASE SetOnHand(p)
      BY <1>1, PromiseRecount, BoundsAssumption DEF SetOnHand
<1>2. CASE AddBatch(p)
  <2>1. PICK n \in 1..MaxOnHand : Count(p, onHand[p] + n)
        BY <1>2 DEF AddBatch
  <2>2. onHand[p] + n \in Nat
        BY BoundsAssumption DEF Good, TypeOK
  <2> QED BY <2>1, <2>2, PromiseRecount
<1>3. CASE DeleteProduct(p) \/ RestoreProduct(p)
  <2>1. UNCHANGED <<orders, ledger>>
        BY <1>3 DEF DeleteProduct, RestoreProduct, stock
  <2> QED BY <2>1, PromiseStutter
<1> QED BY <1>1, <1>2, <1>3 DEF StockRoomStep

\* Every step of the desk is a step of the promise or a stutter.
LEMMA PromiseStep == Good /\ Good' /\ [Next]_vars => [Promise!Next]_<<stageBar, ownedBar>>
<1> SUFFICES ASSUME Good, Good', [Next]_vars
             PROVE  Promise!Next \/ UNCHANGED <<stageBar, ownedBar>>
    OBVIOUS
<1>1. CASE UNCHANGED vars
  <2>1. UNCHANGED <<orders, ledger>>
        BY <1>1 DEF vars, stock
  <2> QED BY <2>1, PromiseStutter
<1> QED BY <1>1, PromisePlace, PromiseSession, PromiseStockRoom DEF Next

\* The desk opens with every order's copies free and the opening stock owned.
LEMMA PromiseInit == Init => Promise!Init
<1> SUFFICES ASSUME Init PROVE Promise!Init
    OBVIOUS
<1>1. stageBar = [o \in Orders |-> "free"]
      BY DEF Init, NoRow, stageBar, CopiesAt
<1>2. Away = {} /\ \A p \in Products : Units({}, p) = 0 /\ OpeningStock[p] \in Nat
      BY UnitsEmpty, StockAssumption DEF Init, NoRow, Away
<1>3. ownedBar \in [Products -> Nat]
      BY <1>2 DEF Init, ownedBar
<1> QED BY <1>1, <1>3 DEF Promise!Init, stageBar, ownedBar

\* Types, fresh plans, sound rows and balanced accounts hold together, always.
LEMMA GoodCorrect == Spec => []Good
BY TypeCorrect, ControlCorrect, AccountsCorrect, PTL DEF Good

\* Every behaviour of the desk is one of the stock promise.
THEOREM DeskImplementsPromise == Spec => ImplementsPromise
<1>1. Good /\ Good' /\ [Next]_vars =>
        [Promise!Next]_<<[o \in Orders |-> CopiesAt(orders[o])],
                         [p \in Products |-> onHand[p] + Units(Away, p)]>>
      BY PromiseStep DEF stageBar, ownedBar
<1> QED BY <1>1, PromiseInit, GoodCorrect, PTL DEF Spec, ImplementsPromise, Promise!Spec

\* The shop never promises a copy it does not own.
THEOREM PromiseKeptByDesk == Spec => []Promise!PromiseKept
<1>1. Good => Promise!PromiseKept
      BY KeptFromAccounts DEF Good, Promise!PromiseKept, stageBar, ownedBar
<1> QED BY <1>1, GoodCorrect, PTL

-----------------------------------------------------------------------------
(* Stock statements.                                                       *)

\* A stock statement whose WHERE clause matches never trips a CHECK constraint,
\* for a tracked product without backorder.
THEOREM WhereClauseSufficesCorrect == Spec => []WhereClauseSuffices
<1>1. Good => WhereClauseSuffices
  <2> SUFFICES ASSUME Good, NEW s \in Sessions, work[s].pc = "planned", NEW o, o = work[s].order,
                      NEW e, e = work[s].plan.stock,
                      NEW p \in Lines(o) \ (Untracked \cup Backorder), RowMatches(e, p, Qty[o][p])
               PROVE  ChecksPass(p, OnHandAfter(e, o, p), ReservedAfter(e, o, p))
      BY DEF WhereClauseSuffices
  <2>1. o \in Orders /\ p \in Products /\ e \in Effects
        BY PlannedType DEF Good, Lines, Plan
  <2>2. /\ Qty[o][p] \in Nat /\ onHand[p] \in Nat /\ reserved[p] \in Nat
        /\ reserved[p] <= onHand[p]
        BY <2>1, QtyAssumption DEF Good, TypeOK, Accounts, HoldsCovered
  <2> QED BY <2>1, <2>2 DEF RowMatches, ChecksPass, OnHandAfter, ReservedAfter, Clamp,
                            OnHandDelta, ReservedDelta, Effects
<1> QED BY <1>1, GoodCorrect, PTL

-----------------------------------------------------------------------------
(* The lifecycle, as an action property.                                   *)

\* A move the planner makes is an edge of the lifecycle.
LEMMA PlannedEdge ==
    ASSUME NEW row \in Row, row.status # "UNPLACED", NEW plan \in Plan, StillPlanned(row, plan)
    PROVE  <<row.status, plan.to>> \in Edges
<1> USE DEF Open, Terminal, ReturnableFrom
<1>1. ASSUME NEW r, r.to = plan.to, TransitionAllowed(row, r)
      PROVE  <<row.status, plan.to>> \in Edges
  <2>1. row.status \in Status \ Terminal /\ plan.to \in Status /\ row.status # plan.to
        BY <1>1 DEF TransitionAllowed, Row, Plan
  <2>2. CASE RegressAllowed(row, r)
        BY <1>1, <2>1, <2>2 DEF RegressAllowed, RegressTarget, Edges
  <2>3. CASE VoidAllowed(row, r)
        BY <1>1, <2>3 DEF VoidAllowed, Edges
  <2>4. CASE ForwardAllowed(row, r)
    <3>1. plan.to \in Status \ Terminal /\ Rank[plan.to] >= Rank[row.status]
          BY <1>1, <2>1, <2>4 DEF ForwardAllowed
    <3>2. Rank[row.status] < Rank[plan.to]
          BY <2>1, <3>1 DEF Rank, Status
    <3> QED BY <2>1, <3>1, <3>2 DEF Edges
  <2> QED BY <1>1, <2>2, <2>3, <2>4 DEF TransitionAllowed
<1>2. ASSUME ReopenAllowed(row, plan.to)
      PROVE  <<row.status, plan.to>> \in Edges
      BY <1>2 DEF ReopenAllowed, Edges
<1> QED BY <1>1, <1>2 DEF StillPlanned

StepsLegally(o) ==
    orders'[o].status = orders[o].status \/ <<orders[o].status, orders'[o].status>> \in Edges

\* From a good state, every step moves an order along an edge of the lifecycle.
LEMMA LifecycleStep == Good /\ [Next]_vars => \A o \in Orders : StepsLegally(o)
<1> SUFFICES ASSUME Good, [Next]_vars, NEW x \in Orders PROVE StepsLegally(x)
    OBVIOUS
<1>0. TypeOK /\ Control /\ \A o \in Orders : orders[o] \in Row /\ SoundRow(orders[o])
      BY DEF Good, Control, SoundRows, TypeOK
<1>1. ASSUME NEW o \in Orders, NEW row, orders' = [orders EXCEPT ![o] = row],
             row.status = orders[o].status \/ <<orders[o].status, row.status>> \in Edges
      PROVE  StepsLegally(x)
      BY <1>0, <1>1 DEF StepsLegally, TypeOK
<1>2. CASE UNCHANGED orders
      BY <1>2 DEF StepsLegally
<1>3. ASSUME NEW o \in Orders, Place(o) PROVE StepsLegally(x)
  <2>1. orders' = [orders EXCEPT ![o] = [NoRow(o) EXCEPT !.status = "PENDING", !.held = TRUE]]
        BY <1>3 DEF Place
  <2>2. [NoRow(o) EXCEPT !.status = "PENDING", !.held = TRUE].status = "PENDING"
        BY DEF NoRow
  <2>3. <<orders[o].status, "PENDING">> \in Edges
        BY <1>3 DEF Place, Edges
  <2> QED BY <1>1, <2>1, <2>2, <2>3
<1>4. ASSUME NEW s \in Sessions, WritePlanned(s) PROVE StepsLegally(x)
  <2> DEFINE o == work[s].order
             plan == work[s].plan
  <2>1. o \in Orders /\ plan \in Plan /\ Placed(o) /\ StillPlanned(orders[o], plan)
        BY <1>0, <1>4, PlannedType DEF WritePlanned, Control, PlansFresh, Fresh
  <2>2. orders' = [orders EXCEPT ![o] = Written(orders[o], plan)]
        BY <1>4 DEF WritePlanned
  <2>3. Written(orders[o], plan).status = plan.to /\ <<orders[o].status, plan.to>> \in Edges
        BY <1>0, <2>1, StillPlannedSound, PlannedEdge DEF Placed
  <2> HIDE DEF o, plan
  <2> QED BY <1>1, <2>1, <2>2, <2>3
<1>5. ASSUME NEW s \in Sessions, WriteMarkPaid(s) PROVE StepsLegally(x)
  <2> DEFINE o == work[s].order
             row == IF orders[o].version = work[s].version THEN Paid(orders[o]) ELSE orders[o]
  <2>1. o \in Orders
        BY <1>0, <1>5 DEF WriteMarkPaid, TypeOK, Work, Idle
  <2>2. row.status = orders[o].status
        BY <1>0, <2>1, PaidSound
  <2>3. orders' = [orders EXCEPT ![o] = row]
        BY <1>0, <1>5, <2>1 DEF WriteMarkPaid, TypeOK
  <2> HIDE DEF o, row
  <2> QED BY <1>1, <2>1, <2>2, <2>3
<1>6. ASSUME NEW s \in Sessions, WriteCapture(s) PROVE StepsLegally(x)
  <2> DEFINE o == work[s].order
             paid == Paid(orders[o])
             confirmed == Written(paid, TransitionPlan(paid, GatewayConfirm))
             row == IF ~work[s].pending THEN paid
                    ELSE IF TransitionAllowed(paid, GatewayConfirm) THEN confirmed ELSE orders[o]
  <2>1. o \in Orders /\ Placed(o)
        BY <1>0, <1>6 DEF WriteCapture, TypeOK, Work, Idle, Control, PlansFresh, Fresh
  <2>2. /\ paid \in Row /\ SoundRow(paid) /\ paid.status = orders[o].status /\ paid.status # "UNPLACED"
        BY <1>0, <2>1, PaidType, PaidSound DEF Placed
  <2>3. TransitionAllowed(paid, GatewayConfirm) => <<orders[o].status, confirmed.status>> \in Edges
    <3> SUFFICES ASSUME TransitionAllowed(paid, GatewayConfirm)
                 PROVE  <<paid.status, confirmed.status>> \in Edges
        BY <2>2
    <3> DEFINE plan == TransitionPlan(paid, GatewayConfirm)
    <3>1. plan \in Plan /\ StillPlanned(paid, plan) /\ confirmed.status = plan.to
          BY <2>2, RequestTypes, TransitionPlanType, JustPlanned, StillPlannedSound
    <3> QED BY <2>2, <3>1, PlannedEdge
  <2>4. orders' = [orders EXCEPT ![o] = row]
        BY <1>6 DEF WriteCapture
  <2> HIDE DEF o, paid, confirmed
  <2>5. row.status = orders[o].status \/ <<orders[o].status, row.status>> \in Edges
        BY <2>2, <2>3
  <2> HIDE DEF row
  <2> QED BY <1>1, <2>1, <2>4, <2>5
<1>7. CASE UNCHANGED vars
      BY <1>2, <1>7 DEF vars
<1>8. ASSUME NEW s \in Sessions, SessionStep(s) PROVE StepsLegally(x)
      BY <1>2, <1>4, <1>5, <1>6, <1>8
      DEF SessionStep, ReadTransition, ReadReopen, ReadMarkPaid, ReadCapture, DecideAutoCancel,
          ReadAutoCancel, RollBackPlanned
<1>9. ASSUME NEW p \in Products, StockRoomStep(p) PROVE StepsLegally(x)
      BY <1>2, <1>9 DEF StockRoomStep, SetOnHand, AddBatch, Count, DeleteProduct, RestoreProduct
<1> QED BY <1>3, <1>7, <1>8, <1>9 DEF Next

\* No step of any request takes an order off the lifecycle's edges.
THEOREM FollowsLifecycleCorrect == Spec => FollowsLifecycle
<1>1. Good /\ [Next]_vars =>
        [\A o \in Orders : orders'[o].status = orders[o].status
                            \/ <<orders[o].status, orders'[o].status>> \in Edges]_vars
      BY LifecycleStep DEF StepsLegally
<1> QED BY <1>1, GoodCorrect, PTL DEF Spec, FollowsLifecycle

-----------------------------------------------------------------------------
(* Coupons.                                                                *)

\* CouponCounted, with what placement needs: no redemption before the order.
CouponsSound ==
    /\ CouponCounted
    /\ \A o \in Orders : ~Placed(o) => redemption[o] = "none"

\* Counting a redemption in or out of those in force.
LEMMA RedeemedChanges ==
    ASSUME TypeOK, NEW o \in Orders, NEW r \in {"none", "active", "revoked"},
           redemption' = [redemption EXCEPT ![o] = r], NEW c \in Coupons
    PROVE  /\ Cardinality(Redeemed(c)) \in Nat
           /\ c # CouponOf[o] => Redeemed(c)' = Redeemed(c)
           /\ c = CouponOf[o] /\ redemption[o] = "active" /\ r # "active"
              => /\ Cardinality(Redeemed(c)') = Cardinality(Redeemed(c)) - 1
                 /\ Cardinality(Redeemed(c)) > 0
           /\ c = CouponOf[o] /\ redemption[o] # "active" /\ r = "active"
              => Cardinality(Redeemed(c)') = Cardinality(Redeemed(c)) + 1
<1> DEFINE R == Redeemed(c)
<1>1. IsFiniteSet(R) /\ Cardinality(R) \in Nat
  <2>1. R \subseteq Orders
        BY DEF Redeemed
  <2> HIDE DEF R
  <2> QED BY <2>1, OrdersAssumption, FS_Subset, FS_CardinalityType
<1>2. c # CouponOf[o] => Redeemed(c)' = R
      BY DEF Redeemed, TypeOK
<1>3. ASSUME c = CouponOf[o], redemption[o] = "active", r # "active"
      PROVE  /\ Cardinality(Redeemed(c)') = Cardinality(R) - 1
             /\ Cardinality(R) > 0
  <2>1. o \in R /\ Redeemed(c)' = R \ {o}
        BY <1>3 DEF Redeemed, TypeOK
  <2> HIDE DEF R
  <2>2. IsFiniteSet(R \ {o}) /\ Cardinality(R \ {o}) = Cardinality(R) - 1
        BY <1>1, <2>1, FS_RemoveElement
  <2>3. Cardinality(R \ {o}) \in Nat
        BY <2>2, FS_CardinalityType
  <2> QED BY <1>1, <2>1, <2>2, <2>3
<1>4. ASSUME c = CouponOf[o], redemption[o] # "active", r = "active"
      PROVE  Cardinality(Redeemed(c)') = Cardinality(R) + 1
  <2>1. o \notin R /\ Redeemed(c)' = R \cup {o}
        BY <1>4 DEF Redeemed, TypeOK
  <2> HIDE DEF R
  <2> QED BY <1>1, <2>1, FS_AddElement
<1> QED BY <1>1, <1>2, <1>3, <1>4

\* The three coupon operations keep the count exact.
LEMMA CountKept ==
    ASSUME TypeOK, CouponCounted, NEW o \in Orders, NEW r \in {"none", "active", "revoked"},
           redemption' = [redemption EXCEPT ![o] = r],
           \/ /\ redemption[o] = "active" /\ r # "active"
              /\ usedCount' = [usedCount EXCEPT ![CouponOf[o]] = Clamp(@ - 1)]
           \/ /\ redemption[o] # "active" /\ r = "active"
              /\ usedCount' = [usedCount EXCEPT ![CouponOf[o]] = @ + 1]
    PROVE  \A c \in Coupons : usedCount'[c] = Cardinality(Redeemed(c)')
<1> SUFFICES ASSUME NEW c \in Coupons PROVE usedCount'[c] = Cardinality(Redeemed(c)')
    OBVIOUS
<1>1. usedCount[c] = Cardinality(Redeemed(c)) /\ usedCount[c] \in Nat
      BY DEF CouponCounted, TypeOK
<1>2. CASE c # CouponOf[o]
  <2>1. Redeemed(c)' = Redeemed(c)
        BY <1>2, RedeemedChanges
  <2>2. usedCount'[c] = usedCount[c]
        BY <1>2 DEF TypeOK
  <2> QED BY <1>1, <2>1, <2>2
<1>3. CASE c = CouponOf[o]
  <2>1. CASE redemption[o] = "active" /\ r # "active"
    <3>1. Cardinality(Redeemed(c)') = Cardinality(Redeemed(c)) - 1 /\ Cardinality(Redeemed(c)) > 0
          BY <1>3, <2>1, RedeemedChanges
    <3>2. usedCount'[c] = Clamp(usedCount[c] - 1)
          BY <1>3, <2>1 DEF TypeOK
    <3> QED BY <1>1, <3>1, <3>2 DEF Clamp
  <2>2. CASE redemption[o] # "active" /\ r = "active"
    <3>1. Cardinality(Redeemed(c)') = Cardinality(Redeemed(c)) + 1
          BY <1>3, <2>2, RedeemedChanges
    <3>2. usedCount'[c] = usedCount[c] + 1
          BY <1>3, <2>2 DEF TypeOK
    <3> QED BY <1>1, <3>1, <3>2
  <2> QED BY <2>1, <2>2
<1> QED BY <1>2, <1>3

\* Redemptions untouched: the count is, too.
LEMMA CountSame ==
    CouponCounted /\ UNCHANGED coupons => \A c \in Coupons : usedCount'[c] = Cardinality(Redeemed(c)')
<1> SUFFICES ASSUME CouponCounted, UNCHANGED coupons, NEW c \in Coupons
             PROVE  usedCount'[c] = Cardinality(Redeemed(c)')
    OBVIOUS
<1>1. Redeemed(c)' = Redeemed(c)
      BY DEF Redeemed, coupons
<1> QED BY <1>1 DEF CouponCounted, coupons

\* A row changes without crossing the line between open and closed, and the
\* coupons are left alone.
LEMMA CouponsRow ==
    ASSUME TypeOK, CouponsSound, NEW o \in Orders, NEW row, orders' = [orders EXCEPT ![o] = row],
           row.status \in Terminal <=> orders[o].status \in Terminal,
           row.status = "UNPLACED" <=> orders[o].status = "UNPLACED",
           UNCHANGED coupons
    PROVE  CouponsSound'
<1>1. \A c \in Coupons : usedCount'[c] = Cardinality(Redeemed(c)')
      BY CountSame DEF CouponsSound
<1>2. \A x \in Orders :
        /\ orders'[x].status \in Terminal <=> orders[x].status \in Terminal
        /\ orders'[x].status = "UNPLACED" <=> orders[x].status = "UNPLACED"
      BY DEF TypeOK
<1> QED BY <1>1, <1>2 DEF CouponsSound, CouponCounted, Placed, coupons

\* A step that touches neither orders nor coupons keeps the coupons sound.
LEMMA CouponsSame == CouponsSound /\ UNCHANGED <<orders, coupons>> => CouponsSound'
<1> SUFFICES ASSUME CouponsSound, UNCHANGED <<orders, coupons>> PROVE CouponsSound'
    OBVIOUS
<1>1. \A c \in Coupons : usedCount'[c] = Cardinality(Redeemed(c)')
      BY CountSame DEF CouponsSound
<1> QED BY <1>1 DEF CouponsSound, CouponCounted, Placed, coupons

\* One order's row and its redemption change together.
LEMMA CouponsMove ==
    ASSUME TypeOK, CouponsSound, NEW o \in Orders, NEW row, orders' = [orders EXCEPT ![o] = row],
           row.status # "UNPLACED",
           NEW r \in {"none", "active", "revoked"}, redemption' = [redemption EXCEPT ![o] = r],
           \A c \in Coupons : usedCount'[c] = Cardinality(Redeemed(c)'),
           r # "none" => (r = "revoked" <=> row.status \in Terminal)
    PROVE  CouponsSound'
BY DEF CouponsSound, CouponCounted, Placed, TypeOK

\* placeInTx redeems the coupon of an order that was never redeemed before.
LEMMA CouponsPlace ==
    ASSUME TypeOK, CouponsSound, NEW o \in Orders, Place(o)
    PROVE  CouponsSound'
<1> DEFINE row == [NoRow(o) EXCEPT !.status = "PENDING", !.held = TRUE]
<1>1. orders' = [orders EXCEPT ![o] = row] /\ row.status = "PENDING" /\ redemption[o] = "none"
      BY DEF Place, NoRow, CouponsSound, Placed
<1>2. "PENDING" \notin Terminal
      BY DEF Terminal
<1> HIDE DEF row
<1>3. CASE CouponOf[o] = NoCoupon
  <2>1. UNCHANGED coupons
        BY <1>3 DEF Place
  <2>2. redemption' = [redemption EXCEPT ![o] = "none"]
        BY <1>1, <2>1 DEF coupons, TypeOK
  <2> QED BY <1>1, <2>1, <2>2, CountSame, CouponsMove DEF CouponsSound
<1>4. CASE CouponOf[o] # NoCoupon
  <2>1. /\ redemption' = [redemption EXCEPT ![o] = "active"]
        /\ usedCount' = [usedCount EXCEPT ![CouponOf[o]] = @ + 1]
        BY <1>4 DEF Place, Redeem
  <2>2. \A c \in Coupons : usedCount'[c] = Cardinality(Redeemed(c)')
        BY <1>1, <2>1, CountKept DEF CouponsSound
  <2> QED BY <1>1, <1>2, <2>1, <2>2, CouponsMove, ZenonT(40)
<1> QED BY <1>3, <1>4

\* A plan either reopens a closed order as a fresh hold or moves an open one.
LEMMA PlannedKind ==
    ASSUME NEW row, NEW plan, StillPlanned(row, plan)
    PROVE  \/ plan.stock = "RESERVE" /\ row.status \in Terminal /\ plan.to \notin Terminal
           \/ plan.stock # "RESERVE" /\ row.status \notin Terminal
<1>1. ASSUME NEW r, TransitionAllowed(row, r), plan = TransitionPlan(row, r)
      PROVE  plan.stock # "RESERVE" /\ row.status \notin Terminal
  <2>1. plan.stock = TransitionEffect(row, r)
        BY <1>1 DEF TransitionPlan
  <2>2. TransitionEffect(row, r) \in {"RESTOCK", "RELEASE", "FULFIL", "NONE"}
        BY DEF TransitionEffect
  <2> QED BY <1>1, <2>1, <2>2 DEF TransitionAllowed
<1>2. ASSUME ReopenAllowed(row, plan.to), plan = ReopenPlan(plan.to)
      PROVE  plan.stock = "RESERVE" /\ row.status \in Terminal /\ plan.to \notin Terminal
      BY <1>2 DEF ReopenAllowed, ReopenPlan, Terminal
<1> QED BY <1>1, <1>2 DEF StillPlanned

\* Closing an order revokes its coupon, reopening restores it, nothing else
\* touches it.
LEMMA CouponsPlanned ==
    ASSUME TypeOK, CouponsSound, NEW o \in Orders, Placed(o), SoundRow(orders[o]),
           NEW plan \in Plan, StillPlanned(orders[o], plan),
           orders' = [orders EXCEPT ![o] = Written(orders[o], plan)], CouponEffect(o, plan)
    PROVE  CouponsSound'
<1> DEFINE row == Written(orders[o], plan)
           old == orders[o]
<1>1. row.status = plan.to /\ old \in Row /\ old.status # "UNPLACED"
      BY StillPlannedSound DEF TypeOK, Placed
<1>2. row.status # "UNPLACED"
      BY <1>1 DEF Plan, Status, Open, Terminal
<1>3. plan.stock = "RESERVE" => old.status \in Terminal /\ plan.to \notin Terminal
      BY PlannedKind
<1>4. plan.to \in Terminal => old.status \notin Terminal
      BY PlannedKind
<1>5. plan.stock # "RESERVE" => old.status \notin Terminal
      BY PlannedKind
<1>6. /\ orders' = [orders EXCEPT ![o] = row]
      /\ redemption[o] \in {"none", "active", "revoked"}
      /\ redemption[o] # "none" => (redemption[o] = "revoked" <=> old.status \in Terminal)
      BY DEF CouponsSound, CouponCounted, TypeOK
<1> HIDE DEF row, old
<1>7. ASSUME NEW r \in {"none", "active", "revoked"}, redemption' = [redemption EXCEPT ![o] = r],
             \A c \in Coupons : usedCount'[c] = Cardinality(Redeemed(c)'),
             r # "none" => (r = "revoked" <=> plan.to \in Terminal)
      PROVE  CouponsSound'
      BY <1>1, <1>2, <1>6, <1>7, CouponsMove
<1>8. ASSUME UNCHANGED coupons, redemption[o] # "none" => (redemption[o] = "revoked" <=> plan.to \in Terminal)
      PROVE  CouponsSound'
  <2>1. redemption' = [redemption EXCEPT ![o] = redemption[o]]
        BY <1>8 DEF coupons, TypeOK
  <2> QED BY <1>6, <1>7, <1>8, <2>1, CountSame DEF CouponsSound
<1>9. CASE plan.to \in Terminal
  <2>1. Revoke(o)
        BY <1>3, <1>9 DEF CouponEffect
  <2>2. CASE redemption[o] = "active"
        BY <1>7, <1>9, <2>1, <2>2, CountKept DEF Revoke, CouponsSound
  <2>3. CASE redemption[o] # "active"
        BY <1>4, <1>6, <1>8, <1>9, <2>1, <2>3 DEF Revoke
  <2> QED BY <2>2, <2>3
<1>10. CASE plan.to \notin Terminal /\ plan.stock = "RESERVE"
  <2>1. Restore(o)
        BY <1>10 DEF CouponEffect
  <2>2. CASE redemption[o] = "revoked"
        BY <1>7, <1>10, <2>1, <2>2, CountKept DEF Restore, CouponsSound
  <2>3. CASE redemption[o] # "revoked"
        BY <1>3, <1>6, <1>8, <1>10, <2>1, <2>3 DEF Restore
  <2> QED BY <2>2, <2>3
<1>11. CASE plan.to \notin Terminal /\ plan.stock # "RESERVE"
  <2>1. UNCHANGED coupons
        BY <1>11 DEF CouponEffect
  <2> QED BY <1>5, <1>6, <1>8, <1>11, <2>1
<1> QED BY <1>9, <1>10, <1>11

\* Every step of the desk keeps the coupons sound.
LEMMA CouponsStep == Good /\ CouponsSound /\ [Next]_vars => CouponsSound'
<1> SUFFICES ASSUME Good, CouponsSound, [Next]_vars PROVE CouponsSound'
    OBVIOUS
<1>0. TypeOK /\ Control /\ \A o \in Orders : orders[o] \in Row /\ SoundRow(orders[o])
      BY DEF Good, Control, SoundRows, TypeOK
<1>1. ASSUME NEW o \in Orders, Place(o) PROVE CouponsSound'
      BY <1>0, <1>1, CouponsPlace
<1>2. ASSUME NEW s \in Sessions, WritePlanned(s) PROVE CouponsSound'
  <2> DEFINE o == work[s].order
             plan == work[s].plan
  <2>1. o \in Orders /\ plan \in Plan /\ Placed(o) /\ StillPlanned(orders[o], plan)
        BY <1>0, <1>2, PlannedType DEF WritePlanned, Control, PlansFresh, Fresh
  <2>2. orders' = [orders EXCEPT ![o] = Written(orders[o], plan)] /\ CouponEffect(o, plan)
        BY <1>2 DEF WritePlanned
  <2> HIDE DEF o, plan
  <2> QED BY <1>0, <2>1, <2>2, CouponsPlanned
<1>3. ASSUME NEW s \in Sessions, WriteMarkPaid(s) PROVE CouponsSound'
  <2> DEFINE o == work[s].order
             row == IF orders[o].version = work[s].version THEN Paid(orders[o]) ELSE orders[o]
  <2>1. o \in Orders
        BY <1>0, <1>3 DEF WriteMarkPaid, TypeOK, Work, Idle
  <2>2. row.status = orders[o].status
        BY <1>0, <2>1, PaidSound
  <2>3. orders' = [orders EXCEPT ![o] = row] /\ UNCHANGED coupons
        BY <1>0, <1>3, <2>1 DEF WriteMarkPaid, TypeOK
  <2> HIDE DEF o, row
  <2> QED BY <1>0, <2>1, <2>2, <2>3, CouponsRow
<1>4. ASSUME NEW s \in Sessions, WriteCapture(s) PROVE CouponsSound'
  <2> DEFINE o == work[s].order
             paid == Paid(orders[o])
             confirmed == Written(paid, TransitionPlan(paid, GatewayConfirm))
             row == IF ~work[s].pending THEN paid
                    ELSE IF TransitionAllowed(paid, GatewayConfirm) THEN confirmed ELSE orders[o]
  <2>1. o \in Orders /\ Placed(o)
        BY <1>0, <1>4 DEF WriteCapture, TypeOK, Work, Idle, Control, PlansFresh, Fresh
  <2>2. paid \in Row /\ SoundRow(paid) /\ paid.status = orders[o].status /\ paid.status # "UNPLACED"
        BY <1>0, <2>1, PaidType, PaidSound DEF Placed
  <2>3. TransitionAllowed(paid, GatewayConfirm) =>
          (confirmed.status \in Terminal <=> paid.status \in Terminal) /\ confirmed.status # "UNPLACED"
    <3>1. TransitionAllowed(paid, GatewayConfirm) => confirmed.status = "CONFIRMED"
          BY <2>2, RequestTypes, TransitionSound DEF TransitionPlan, GatewayConfirm
    <3> QED BY <2>2, <3>1, ConfirmKeepsCopies
  <2>4. orders' = [orders EXCEPT ![o] = row] /\ UNCHANGED coupons
        BY <1>4 DEF WriteCapture
  <2> HIDE DEF o, paid, confirmed
  <2>5. /\ row.status \in Terminal <=> orders[o].status \in Terminal
        /\ row.status = "UNPLACED" <=> orders[o].status = "UNPLACED"
        BY <2>1, <2>2, <2>3
  <2> HIDE DEF row
  <2> QED BY <1>0, <2>1, <2>4, <2>5, CouponsRow
<1>5. CASE UNCHANGED vars
      BY <1>5, CouponsSame DEF vars
<1>6. ASSUME NEW s \in Sessions, SessionStep(s) PROVE CouponsSound'
      BY <1>2, <1>3, <1>4, <1>6, CouponsSame
      DEF SessionStep, ReadTransition, ReadReopen, ReadMarkPaid, ReadCapture, DecideAutoCancel,
          ReadAutoCancel, RollBackPlanned
<1>7. ASSUME NEW p \in Products, StockRoomStep(p) PROVE CouponsSound'
      BY <1>7, CouponsSame DEF StockRoomStep, SetOnHand, AddBatch, Count, DeleteProduct, RestoreProduct
<1> QED BY <1>1, <1>5, <1>6, <1>7 DEF Next

\* No order is placed and no coupon redeemed at the start.
LEMMA CouponsInit == Init => CouponsSound
<1> SUFFICES ASSUME Init PROVE CouponsSound
    OBVIOUS
<1>1. \A c \in Coupons : Redeemed(c) = {}
      BY DEF Init, Redeemed
<1> QED BY <1>1, FS_EmptySet DEF Init, CouponsSound, CouponCounted

\* used_count is the number of redemptions in force, and a redemption is in
\* force exactly while its order is open or delivered.
THEOREM CouponCountedCorrect == Spec => []CouponCounted
<1>1. Good /\ CouponsSound /\ [Next]_vars => CouponsSound'
      BY CouponsStep
<1>2. CouponsSound => CouponCounted
      BY DEF CouponsSound
<1> QED BY <1>1, <1>2, CouponsInit, GoodCorrect, PTL DEF Spec
=============================================================================
